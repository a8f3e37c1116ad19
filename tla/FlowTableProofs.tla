---------------------------- MODULE FlowTableProofs ----------------------------
(***************************************************************************)
(* What the operators on flow tables return, for every size of the ring.   *)
(***************************************************************************)
EXTENDS FlowTable, FiniteSets, FiniteSetTheorems, TLAPS

\* A table with nothing in it is sound.
LEMMA EmptyTableSound ==
    ASSUME NEW Entry
    PROVE  /\ EmptyTable \in FlowTableOf(Entry)
           /\ WellFormed(EmptyTable)
           /\ NoDuplicate(EmptyTable)
           /\ Live(EmptyTable) = {}
  BY TableSizeAssumption
  DEF EmptyTable, FlowTableOf, WellFormed, NoDuplicate, Live, Slot

\* Inserting keeps the type of a table and its insertion order.
LEMMA InsertType ==
    ASSUME NEW Entry, Blank \notin Entry,
           NEW table \in FlowTableOf(Entry), WellFormed(table), NEW entry \in Entry
    PROVE  /\ Insert(table, entry) \in FlowTableOf(Entry)
           /\ WellFormed(Insert(table, entry))
  <1>1. (table.index + 1) % TableSize \in Slot
    BY TableSizeAssumption DEF FlowTableOf, Slot
  <1>2. Insert(table, entry) \in FlowTableOf(Entry)
    BY <1>1, TableSizeAssumption DEF FlowTableOf, Insert, Slot
  <1>3. table.length + 1 < TableSize =>
            (table.index + 1) % TableSize = table.length + 1
    BY TableSizeAssumption DEF FlowTableOf, Slot, WellFormed
  <1> QED
    BY <1>1, <1>2, <1>3, TableSizeAssumption
    DEF FlowTableOf, Insert, Slot, WellFormed, Live

\* What a lookup can see after an insertion is the new entry or was there before;
\* the new entry is there.
LEMMA InsertLive ==
    ASSUME NEW Entry, NEW table \in FlowTableOf(Entry), WellFormed(table),
           NEW entry \in Entry
    PROVE  LET after == Insert(table, entry)
           IN  /\ table.index \in Live(after)
               /\ after.slot[table.index] = entry
               /\ \A i \in Live(after) :
                     i # table.index => i \in Live(table) /\ after.slot[i] = table.slot[i]
  BY TableSizeAssumption DEF FlowTableOf, Insert, Slot, WellFormed, Live

\* Entering a flow that a lookup does not find makes no duplicate.
LEMMA InsertNoDuplicate ==
    ASSUME NEW Entry, NEW table \in FlowTableOf(Entry), WellFormed(table),
           NEW entry \in Entry,
           NoDuplicate(table), ~Contains(table, entry.flow_id)
    PROVE  NoDuplicate(Insert(table, entry))
  BY InsertLive DEF NoDuplicate, Contains

\* In a table without duplicates a lookup finds the entry of the flow.
LEMMA LookupFinds ==
    ASSUME NEW table, NoDuplicate(table),
           NEW i \in Live(table), table.length \in Nat
    PROVE  Lookup(table, table.slot[i].flow_id) = table.slot[i]
  <1> DEFINE flow == table.slot[i].flow_id
             First(j) == /\ table.slot[j].flow_id = flow
                         /\ \A l \in Live(table) : table.slot[l].flow_id = flow => j <= l
  <1>1. First(i)
    BY DEF NoDuplicate, Live
  <1>2. \A j \in Live(table) : First(j) => j = i
    BY DEF NoDuplicate
  <1>3. (CHOOSE j \in Live(table) : First(j)) = i
    BY <1>1, <1>2
  <1> QED
    BY <1>3 DEF Lookup

\* A flow that is contained is found in a live slot.
LEMMA LookupContained ==
    ASSUME NEW Entry, NEW table \in FlowTableOf(Entry),
           WellFormed(table), NoDuplicate(table),
           NEW flow, Contains(table, flow)
    PROVE  /\ Lookup(table, flow) \in Entry
           /\ Lookup(table, flow).flow_id = flow
           /\ \E i \in Live(table) : Lookup(table, flow) = table.slot[i]
  <1>1. PICK i \in Live(table) : table.slot[i].flow_id = flow
    BY DEF Contains
  <1>2. table.length \in Nat /\ i \in Slot
    BY TableSizeAssumption DEF FlowTableOf, Live, Slot
  <1>3. Lookup(table, flow) = table.slot[i]
    BY <1>1, <1>2, LookupFinds
  <1>4. table.slot[i] \in Entry
    BY <1>2 DEF FlowTableOf, WellFormed
  <1> QED
    BY <1>1, <1>3, <1>4

\* A flush keeps the slots and forgets that they were in use.
LEMMA FlushedTable ==
    ASSUME NEW Entry, NEW table \in FlowTableOf(Entry),
           NEW after, after = [table EXCEPT !.length = 0, !.index = 0]
    PROVE  /\ after \in FlowTableOf(Entry)
           /\ WellFormed(after) /\ NoDuplicate(after) /\ Live(after) = {}
  <1>1. after.slot = table.slot /\ after.length = 0 /\ after.index = 0
    BY DEF FlowTableOf
  <1>2. after = [slot |-> table.slot, length |-> 0, index |-> 0]
    BY DEF FlowTableOf
  <1>3. after \in FlowTableOf(Entry)
    BY <1>2, TableSizeAssumption DEF FlowTableOf, Slot
  <1>4. Live(after) = {}
    BY <1>1 DEF Live
  <1> QED
    BY <1>1, <1>3, <1>4 DEF WellFormed, NoDuplicate

\* A table with at least as many slots as there are flows has room for a flow that
\* it does not hold.
LEMMA RoomForNewFlow ==
    ASSUME NEW Entry, NEW Flow, \A e \in Entry : e.flow_id \in Flow,
           IsFiniteSet(Flow), Cardinality(Flow) <= TableSize,
           NEW table \in FlowTableOf(Entry), WellFormed(table), NoDuplicate(table),
           NEW flow \in Flow, ~Contains(table, flow)
    PROVE  table.length < TableSize
  <1> SUFFICES ASSUME table.length = TableSize PROVE FALSE
    BY TableSizeAssumption DEF FlowTableOf
  <1>1. Live(table) = Slot
    BY DEF Live, Slot
  <1> DEFINE others == Flow \ {flow}
             flowIn == [i \in Slot |-> table.slot[i].flow_id]
  <1>2. flowIn \in Injection(Slot, others)
    <2>1. \A i \in Slot : flowIn[i] \in others
      BY <1>1 DEF FlowTableOf, WellFormed, Contains
    <2>2. \A i, j \in Slot : flowIn[i] = flowIn[j] => i = j
      BY <1>1 DEF NoDuplicate
    <2> QED
      BY <2>1, <2>2 DEF Injection, IsInjective
  <1>3. /\ IsFiniteSet(others)
        /\ Cardinality(others) = Cardinality(Flow) - 1
        /\ Cardinality(Flow) \in Nat
    BY FS_RemoveElement, FS_CardinalityType
  <1>4. Cardinality(Slot) = TableSize
    BY FS_Interval, TableSizeAssumption DEF Slot
  <1>5. Cardinality(Slot) <= Cardinality(others)
    BY <1>2, <1>3, FS_Injection
  <1> QED
    BY <1>3, <1>4, <1>5, TableSizeAssumption

\* An insertion into a table with room leaves every flow where it was.
LEMMA InsertKeeps ==
    ASSUME NEW Entry, Blank \notin Entry,
           NEW table \in FlowTableOf(Entry), WellFormed(table), NoDuplicate(table),
           table.length < TableSize,
           NEW entry \in Entry, ~Contains(table, entry.flow_id),
           NEW flow, flow # entry.flow_id
    PROVE  LET after == Insert(table, entry)
           IN  /\ Contains(after, flow) <=> Contains(table, flow)
               /\ Contains(table, flow) => Lookup(after, flow) = Lookup(table, flow)
  <1> DEFINE after == Insert(table, entry)
  <1>1. table.index = table.length /\ after.length = table.length + 1
    BY DEF WellFormed, Insert
  <1>2. table.length \in Nat /\ after.length \in Nat
    BY <1>1, TableSizeAssumption DEF FlowTableOf
  <1>3. \A i \in Live(table) : i \in Live(after) /\ after.slot[i] = table.slot[i]
    BY <1>1, <1>2, TableSizeAssumption DEF FlowTableOf, Insert, Live, Slot
  <1>4. /\ after.slot[table.index] = entry
        /\ \A i \in Live(after) :
              i # table.index => i \in Live(table) /\ after.slot[i] = table.slot[i]
    BY InsertLive
  <1>5. NoDuplicate(after)
    BY InsertNoDuplicate
  <1> HIDE DEF after
  <1>6. Contains(after, flow) => Contains(table, flow)
    BY <1>4 DEF Contains
  <1>7. ASSUME Contains(table, flow)
        PROVE  Contains(after, flow) /\ Lookup(after, flow) = Lookup(table, flow)
    <2>1. PICK i \in Live(table) : table.slot[i].flow_id = flow
      BY <1>7 DEF Contains
    <2>2. i \in Live(after) /\ after.slot[i] = table.slot[i]
      BY <2>1, <1>3
    <2>3. Lookup(table, flow) = table.slot[i] /\ Lookup(after, flow) = after.slot[i]
      BY <2>1, <2>2, <1>2, <1>5, LookupFinds
    <2> QED
      BY <2>1, <2>2, <2>3 DEF Contains
  <1> QED
    BY <1>6, <1>7 DEF after
===============================================================================
