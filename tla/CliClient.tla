------------------------------ MODULE CliClient ------------------------------
(***************************************************************************)
(* The command line client (cli-client/gnunet-search.c) on its connection  *)
(* to the service (client/server-communication/server-communication.c).    *)
(* It makes one request, an add command with the URLs of a file or a       *)
(* search, and then lives from one response to the next: GNUnet calls back *)
(* once for every time it is asked to receive, so whoever handles a        *)
(* response has to ask again, and nobody may ask twice.                    *)
(*                                                                         *)
(* The add command itself is that of UrlFile.  The service is external: it *)
(* acknowledges an add when it has taken all URLs, answers a search as     *)
(* often as it likes, and may go at any time, or refuse this client        *)
(* because it has another one, which looks the same from here.             *)
(***************************************************************************)
EXTENDS UrlFile

CONSTANT MaxResults \* bound: how many results a search gets

ASSUME CliClientAssumption == MaxResults \in Nat

VARIABLES
    action,   \* action_string: what the user asked for
    client,   \* where the client is: it ends when acknowledged or when stopped
    link,     \* the connection as the service left it
    armed,    \* how often GNUnet was asked to receive and has yet to call back
    wire,     \* the pieces of responses that are on their way
    received, \* the fragments of a response received so far
    sent,     \* history: the results the service sent
    shown     \* history: the results the client printed

clientVars == <<action, client, link, armed, wire, received, sent, shown>>

cliVars == <<vars, clientVars>>

-------------------------------------------------------------------------------

\* A piece of a response: all of it, its first or its last fragment.
Piece == [type: {"done", "result"}, part: {"whole", "first", "last"}]

Done == <<[type |-> "done", part |-> "whole"]>>

\* A result may need two fragments.
ResultPieces == {<<[type |-> "result", part |-> "whole"]>>,
                 <<[type |-> "result", part |-> "first"], [type |-> "result", part |-> "last"]>>}

\* The file is read within gnunet_search_run: no callback comes in between.
Reading == action = "add" /\ phase = "read"

Waiting == client = "running" /\ ~Reading

\* Mutant: who prints a result does not ask for the next response.
ReceivesAgainNot(piece) == FALSE

\* Whether the handler of a complete response asks for the next one.
ReceivesAgain(piece) == piece.type = "result"

-------------------------------------------------------------------------------

\* A search needs no file.
CliInit ==
    /\ Init
    /\ action \in {"add", "search"}
    /\ action = "search" => text = <<>>
    /\ client = "starting" /\ link = "none"
    /\ armed = 0
    /\ wire = <<>> /\ received = <<>>
    /\ sent = 0 /\ shown = 0

\* gnunet_search_run: without a connection the client ends; otherwise it asks GNUnet
\* to receive, and reads the file or sends the keyword.
Run ==
    /\ client = "starting"
    /\ \/ client' = "stopped" /\ UNCHANGED <<link, armed>>
       \/ client' = "running" /\ link' = "open" /\ armed' = armed + 1
    /\ UNCHANGED <<vars, action, wire, received, sent, shown>>

\* An iteration of the loop that reads the file.
ReadUrls ==
    /\ client = "running" /\ Reading /\ ~overrun
    /\ ReadByte \/ ReadEnd
    /\ UNCHANGED clientVars

\* The service takes the command apart and acknowledges it at its end.
ServeAdd ==
    /\ link = "open" /\ action = "add" /\ ~overrun
    /\ CmdUrlsGet
    /\ wire' = IF phase' = "done" THEN wire \o Done ELSE wire
    /\ UNCHANGED <<action, client, link, armed, received, sent, shown>>

ServeSearch ==
    /\ link = "open" /\ action = "search" /\ client = "running"
    /\ sent < MaxResults
    /\ sent' = sent + 1
    /\ \E pieces \in ResultPieces : wire' = wire \o pieces
    /\ UNCHANGED <<vars, action, client, link, armed, received, shown>>

\* The service goes; some of what it sent may be lost.
ServiceGoes ==
    /\ link = "open"
    /\ link' = "closed"
    /\ \E n \in 0 .. Len(wire) : wire' = SubSeq(wire, 1, n)
    /\ UNCHANGED <<vars, action, client, armed, received, sent, shown>>

\* gnunet_search_server_communication_receive_response for a fragment that is not
\* the last: it is kept, and GNUnet asked for the next.
ReceiveFragment ==
    /\ Waiting /\ armed > 0 /\ wire # <<>> /\ Head(wire).part = "first"
    /\ wire' = Tail(wire)
    /\ received' = Append(received, Head(wire))
    /\ UNCHANGED <<vars, action, client, link, armed, sent, shown>>

\* Mutant: after a complete response GNUnet is asked as after a fragment.
ReceiveResponseTwice ==
    /\ Waiting /\ armed > 0 /\ wire # <<>> /\ Head(wire).part # "first"
    /\ wire' = Tail(wire)
    /\ received' = <<>>
    /\ armed' = IF ReceivesAgain(Head(wire)) THEN armed + 1 ELSE armed
    /\ IF Head(wire).type = "done"
       THEN client' = "done" /\ UNCHANGED shown
       ELSE shown' = shown + 1 /\ UNCHANGED client
    /\ UNCHANGED <<vars, action, link, sent>>

\* The same for what completes a response: gnunet_search_receive_handler prints a
\* result and asks for the next; an acknowledgement shuts the client down.
ReceiveResponse ==
    /\ Waiting /\ armed > 0 /\ wire # <<>> /\ Head(wire).part # "first"
    /\ wire' = Tail(wire)
    /\ received' = <<>>
    /\ armed' = IF ReceivesAgain(Head(wire)) THEN armed ELSE armed - 1
    /\ IF Head(wire).type = "done"
       THEN client' = "done" /\ UNCHANGED shown
       ELSE shown' = shown + 1 /\ UNCHANGED client
    /\ UNCHANGED <<vars, action, link, sent>>

\* GNUnet reports the end of the connection with a NULL message: the fragments are
\* thrown away, and nobody asks again.
ReceiveNull ==
    /\ Waiting /\ armed > 0 /\ wire = <<>> /\ link = "closed"
    /\ armed' = armed - 1
    /\ received' = <<>>
    /\ UNCHANGED <<vars, action, client, link, wire, sent, shown>>

\* The user ends the client.
Interrupt ==
    /\ Waiting
    /\ client' = "stopped"
    /\ UNCHANGED <<vars, action, link, armed, wire, received, sent, shown>>

CliNext ==
    \/ Run
    \/ ReadUrls
    \/ ServeAdd
    \/ ServeSearch
    \/ ServiceGoes
    \/ ReceiveFragment
    \/ ReceiveResponse
    \/ ReceiveNull
    \/ Interrupt

CliSpec == CliInit /\ [][CliNext]_cliVars

\* The client's event loop runs, and a service that is there takes the command.
CliFairness ==
    /\ WF_cliVars(ReadUrls)
    /\ WF_cliVars(ReceiveFragment \/ ReceiveResponse \/ ReceiveNull)
    /\ WF_cliVars(ServeAdd)

CliFairSpec == CliSpec /\ CliFairness

-------------------------------------------------------------------------------
(***************************************************************************)
(* Properties                                                              *)
(***************************************************************************)

\* Every variable has its type.
CliTypeOK ==
    /\ TypeOK
    /\ action \in {"add", "search"}
    /\ client \in {"starting", "running", "done", "stopped"}
    /\ link \in {"none", "open", "closed"}
    /\ armed \in Nat
    /\ wire \in Seq(Piece) /\ received \in Seq(Piece)
    /\ sent \in 0 .. MaxResults /\ shown \in 0 .. MaxResults

\* While the client runs GNUnet is asked to receive exactly once, until there is
\* nothing more to come: no response is left unread and none handled by two loops,
\* whether the next request to receive comes from the loop itself, which asks for
\* the rest of a response, or from the handler of a complete one.
ListensOnce ==
    client = "running" =>
        /\ armed <= 1
        /\ armed = 0 => link = "closed" /\ wire = <<>> /\ received = <<>>

\* What the service answers gets to the user: an add command ends, and the results
\* of a search are printed.  The client waits in vain only when the service has
\* gone, or when the file holds no URL and nothing was sent.
Answered ==
    /\ (client = "running" /\ action = "add") ~>
          (client # "running" \/ link = "closed" \/ phase = "nothing" \/ overrun)
    /\ \A n \in 1 .. MaxResults :
          (client = "running" /\ sent >= n) ~>
              (shown >= n \/ link = "closed" \/ client = "stopped")
===============================================================================
