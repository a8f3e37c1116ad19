------------------------------ MODULE FlowTable ------------------------------
(***************************************************************************)
(* The fixed-size FIFO ring in which the search service remembers message  *)
(* flows.  The code has it twice, open-coded: the routing table of the     *)
(* flooding component and the request mappings of the client               *)
(* communication.  A table is a record                                     *)
(*                                                                         *)
(*    slot    the array, indexed from 0                                    *)
(*    length  how many slots are in use; it grows to TableSize and then    *)
(*            stays (only a flush sets it back)                            *)
(*    index   the slot the next insertion overwrites                       *)
(*                                                                         *)
(* and the entries are records with a flow_id.                             *)
(***************************************************************************)
EXTENDS Integers

CONSTANTS TableSize, \* the number of slots
          Blank      \* what a slot holds that was never written

ASSUME TableSizeAssumption == TableSize \in Nat \ {0}

Slot == 0 .. TableSize - 1

FlowTableOf(Entry) ==
    [slot: [Slot -> Entry \cup {Blank}], length: 0 .. TableSize, index: Slot]

EmptyTable == [slot |-> [i \in Slot |-> Blank], length |-> 0, index |-> 0]

\* The slots a lookup visits.
Live(table) == 0 .. table.length - 1

\* Mutant: the scan stops one entry early.
ContainsMissesLast(table, flow) ==
    \E i \in 0 .. table.length - 2 : table.slot[i].flow_id = flow

\* Mutant: the scan ends at the index, which is the end until the ring wraps.
ContainsBelowIndex(table, flow) ==
    \E i \in 0 .. table.index - 1 : table.slot[i].flow_id = flow

Contains(table, flow) == \E i \in Live(table) : table.slot[i].flow_id = flow

\* The lookup scans upwards and stops at the first match.
Lookup(table, flow) ==
    table.slot[CHOOSE i \in Live(table) :
                  /\ table.slot[i].flow_id = flow
                  /\ \A j \in Live(table) : table.slot[j].flow_id = flow => i <= j]

\* Mutant: the index does not wrap.
InsertWithoutWrap(table, entry) ==
    [slot   |-> [table.slot EXCEPT ![table.index] = entry],
     length |-> IF table.length < TableSize THEN table.length + 1 ELSE table.length,
     index  |-> table.index + 1]

\* Overwrites the slot at index; when the table is full that is the oldest.
Insert(table, entry) ==
    [slot   |-> [table.slot EXCEPT ![table.index] = entry],
     length |-> IF table.length < TableSize THEN table.length + 1 ELSE table.length,
     index  |-> (table.index + 1) % TableSize]

\* Until the table is full, insertion order is slot order; no slot in use is
\* blank.
WellFormed(table) ==
    /\ table.length < TableSize => table.index = table.length
    /\ \A i \in Live(table) : table.slot[i] # Blank

\* No flow occupies two slots, so the first match of a lookup is the only one.
NoDuplicate(table) ==
    \A i, j \in Live(table) : table.slot[i].flow_id = table.slot[j].flow_id => i = j
===============================================================================
