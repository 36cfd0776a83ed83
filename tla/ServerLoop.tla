---------------------------- MODULE ServerLoop ----------------------------
(***************************************************************************)
(* The main loop of the server, irc_server() in server/src/irc_server.c:   *)
(* what select() reports is looked at in a fixed order, standard input     *)
(* first, then the listening socket, and only when neither has anything,   *)
(* in one pass by index over a client list that may shrink meanwhile.      *)
(*                                                                         *)
(* What a request does is left to IrcServer.  Here it is a logon or other  *)
(* request, or RC_EXIT, the only one that ends the connection.  Requests   *)
(* that have arrived together are taken by one recv() and only the first   *)
(* of them is parsed: the others are lost.                                 *)
(***************************************************************************)
EXTENDS Integers, Sequences, SequencesExt

CONSTANTS
  Peer,       \* client programs
  InboxMax    \* bound: requests a client has sent and the server not read

ASSUME InboxAssumption == InboxMax \in Nat \ {0}

VARIABLES
  pc,         \* where irc_server is (see TypeOK)
  backlog,    \* connections accept() has not taken yet
  cli_list,   \* irc_info->cli_list
  i,          \* the index of the for loops (from 1)
  readfds,    \* the clients select() reported
  inbox,      \* what each client has sent and the server has not read
  peer,       \* what each client program is doing
  stdin       \* what read() on standard input would return

vars == <<pc, backlog, cli_list, i, readfds, inbox, peer, stdin>>

Clients == Range(cli_list)

-----------------------------------------------------------------------------
(* The clients.  A client logs on and waits for the answer; then it sends  *)
(* requests as its user types them, waiting for nothing, and at last       *)
(* RC_EXIT, for whose acknowledgement it waits.                            *)

Connect(p) ==
  /\ pc \notin {"free", "done"}
  /\ peer[p] = "away"
  /\ peer' = [peer EXCEPT ![p] = "connected"]
  /\ backlog' = Append(backlog, p)
  /\ UNCHANGED <<pc, cli_list, i, readfds, inbox, stdin>>

SendLogon(p) ==
  /\ peer[p] = "connected"
  /\ peer' = [peer EXCEPT ![p] = "logging on"]
  /\ inbox' = [inbox EXCEPT ![p] = <<"request">>]
  /\ UNCHANGED <<pc, backlog, cli_list, i, readfds, stdin>>

SendRequest(p) ==
  /\ peer[p] = "on"
  /\ Len(inbox[p]) < InboxMax
  /\ inbox' = [inbox EXCEPT ![p] = Append(@, "request")]
  /\ UNCHANGED <<pc, backlog, cli_list, i, readfds, peer, stdin>>

SendExit(p) ==
  /\ peer[p] = "on"
  /\ Len(inbox[p]) < InboxMax
  /\ peer' = [peer EXCEPT ![p] = "leaving"]
  /\ inbox' = [inbox EXCEPT ![p] = Append(@, "exit")]
  /\ UNCHANGED <<pc, backlog, cli_list, i, readfds, stdin>>

(* A line is typed at the server, or its standard input ends.              *)
TypeLine ==
  /\ pc # "done"
  /\ stdin = "quiet"
  /\ stdin' \in {"line", "/exit", "closed"}
  /\ UNCHANGED <<pc, backlog, cli_list, i, readfds, inbox, peer>>

-----------------------------------------------------------------------------
(* The server.  select() has a timeout of zero, so that the loop never     *)
(* sleeps there; a round that finds nothing to do changes nothing.         *)

(* irc_check_direct_input: a wrong line is consumed, "/exit" leaves the    *)
(* loop.  At end of file it fails each time (the zero it then writes in    *)
(* front of its buffer falls on a byte that is zero or unused), which      *)
(* changes nothing and lets nothing else be looked at: no action for it.   *)
CheckDirectInput ==
  /\ pc = "select"
  /\ \/ stdin = "line" /\ UNCHANGED <<pc, i>>
     \/ stdin = "/exit" /\ pc' = "shutdown" /\ i' = 1
  /\ stdin' = "quiet"
  /\ UNCHANGED <<backlog, cli_list, readfds, inbox, peer>>

TakeNewConnection ==
  /\ pc = "select" /\ stdin = "quiet"
  /\ backlog # <<>>
  /\ cli_list' = Append(cli_list, Head(backlog))
  /\ backlog' = Tail(backlog)
  /\ UNCHANGED <<pc, i, readfds, inbox, peer, stdin>>

Readable == {p \in Clients : inbox[p] # <<>>}

\* Variant: the index starts one below the list.
StartPassBelow ==
  /\ pc = "select" /\ stdin = "quiet" /\ backlog = <<>>
  /\ Readable # {}
  /\ readfds' = Readable
  /\ pc' = "pass"
  /\ i' = 0
  /\ UNCHANGED <<backlog, cli_list, inbox, peer, stdin>>

StartPass ==
  /\ pc = "select" /\ stdin = "quiet" /\ backlog = <<>>
  /\ Readable # {}
  /\ readfds' = Readable
  /\ pc' = "pass"
  /\ i' = 1
  /\ UNCHANGED <<backlog, cli_list, inbox, peer, stdin>>

(* The client at the index is not in readfds.                              *)
PassOver ==
  /\ pc = "pass" /\ i <= Len(cli_list)
  /\ cli_list[i] \notin readfds
  /\ i' = i + 1
  /\ UNCHANGED <<pc, backlog, cli_list, readfds, inbox, peer, stdin>>

(* irc_handle_cli on the client at the index: recv() empties the inbox,    *)
(* the first request is executed.  RC_EXIT removes the client from the     *)
(* list, and the next one moves to an index the loop has passed.           *)
Reading(p) ==
  /\ pc = "pass" /\ i <= Len(cli_list)
  /\ p = cli_list[i] /\ p \in readfds
  /\ inbox[p] # <<>>
  /\ inbox' = [inbox EXCEPT ![p] = <<>>]

\* Variant: the loop ends with the first client handled.
HandleOnlyRequest(p) ==
  /\ Reading(p)
  /\ Head(inbox[p]) = "request"
  /\ peer' = IF peer[p] = "logging on" THEN [peer EXCEPT ![p] = "on"] ELSE peer
  /\ i' = Len(cli_list) + 1
  /\ UNCHANGED <<pc, backlog, cli_list, readfds, stdin>>

\* Variant: the index is not advanced, as if there could be more to read.
HandleRequestAgain(p) ==
  /\ Reading(p)
  /\ Head(inbox[p]) = "request"
  /\ peer' = IF peer[p] = "logging on" THEN [peer EXCEPT ![p] = "on"] ELSE peer
  /\ UNCHANGED <<pc, i, backlog, cli_list, readfds, stdin>>

HandleRequest(p) ==
  /\ Reading(p)
  /\ Head(inbox[p]) = "request"
  /\ peer' = IF peer[p] # "logging on" THEN peer
             ELSE [peer EXCEPT ![p] = "on"]
  /\ i' = i + 1
  /\ UNCHANGED <<pc, backlog, cli_list, readfds, stdin>>

(* The name was taken: the client asks its user for another one.           *)
RefuseLogon(p) ==
  /\ Reading(p)
  /\ peer[p] = "logging on"
  /\ peer' = [peer EXCEPT ![p] = "connected"]
  /\ i' = i + 1
  /\ UNCHANGED <<pc, backlog, cli_list, readfds, stdin>>

HandleExit(p) ==
  /\ Reading(p)
  /\ Head(inbox[p]) = "exit"
  /\ peer' = [peer EXCEPT ![p] = "away"]
  /\ cli_list' = RemoveAt(cli_list, i)
  /\ i' = i + 1
  /\ UNCHANGED <<pc, backlog, readfds, stdin>>

(* The next select() starts from an empty set, the next loop from the      *)
(* first index.                                                            *)
EndPass ==
  /\ pc = "pass" /\ i > Len(cli_list)
  /\ pc' = "select"
  /\ readfds' = {}
  /\ i' = 1
  /\ UNCHANGED <<backlog, cli_list, inbox, peer, stdin>>

(* The loop "shutdown all active sockets", and the one of irc_free_info    *)
(* "for insurance" after it: the same index over a list that loses the     *)
(* client at the index each time.                                          *)
ShutdownClient ==
  /\ pc \in {"shutdown", "free"} /\ i <= Len(cli_list)
  /\ cli_list' = RemoveAt(cli_list, i)
  /\ i' = i + 1
  /\ UNCHANGED <<pc, backlog, readfds, inbox, peer, stdin>>

(* Closing the server's socket resets the connections nobody has taken.    *)
CloseServerSocket ==
  /\ pc = "shutdown" /\ i > Len(cli_list)
  /\ pc' = "free"
  /\ i' = 1
  /\ peer' = [p \in Peer |-> IF p \in Range(backlog) THEN "away" ELSE peer[p]]
  /\ inbox' = [p \in Peer |-> IF p \in Range(backlog) THEN <<>> ELSE inbox[p]]
  /\ backlog' = <<>>
  /\ UNCHANGED <<cli_list, readfds, stdin>>

(* The process ends, and every connection with it.                         *)
Terminate ==
  /\ pc = "free" /\ i > Len(cli_list)
  /\ pc' = "done"
  /\ peer' = [p \in Peer |-> "away"]
  /\ inbox' = [p \in Peer |-> <<>>]
  /\ UNCHANGED <<backlog, cli_list, i, readfds, stdin>>

-----------------------------------------------------------------------------
Init ==
  /\ pc = "select"
  /\ backlog = <<>>
  /\ cli_list = <<>>
  /\ i = 1
  /\ readfds = {}
  /\ inbox = [p \in Peer |-> <<>>]
  /\ peer = [p \in Peer |-> "away"]
  /\ stdin = "quiet"

Handle(p) == HandleRequest(p) \/ RefuseLogon(p) \/ HandleExit(p)

Server ==
  \/ CheckDirectInput
  \/ TakeNewConnection
  \/ StartPass
  \/ PassOver
  \/ \E p \in Peer : Handle(p)
  \/ EndPass
  \/ ShutdownClient
  \/ CloseServerSocket
  \/ Terminate

Environment ==
  \/ \E p \in Peer :
       Connect(p) \/ SendLogon(p) \/ SendRequest(p) \/ SendExit(p)
  \/ TypeLine

Next == Server \/ Environment

(* The loop has no wait in it but recv(), and by NeverBlocks never waits   *)
(* there: the server takes steps for ever.  Nobody has to type or connect. *)
Fairness == WF_vars(Server)

Spec == Init /\ [][Next]_vars /\ Fairness

-----------------------------------------------------------------------------
(* Properties.                                                             *)

TypeOK ==
  /\ pc \in {"select", "pass", "shutdown", "free", "done"}
  /\ backlog \in Seq(Peer)
  /\ cli_list \in Seq(Peer)
  /\ i \in Nat \ {0}
  /\ readfds \in SUBSET Peer
  /\ inbox \in [Peer -> Seq({"request", "exit"})]
  /\ peer \in [Peer -> {"away", "connected", "logging on", "on", "leaving"}]
  /\ stdin \in {"quiet", "line", "/exit", "closed"}

(* The sockets are blocking ones, and the server has no other thread: a    *)
(* client that the pass is still to read, because select() reported it,    *)
(* must have sent something that nobody has read since.                    *)
NeverBlocks ==
  pc = "pass" => \A k \in i .. Len(cli_list) :
                   cli_list[k] \in readfds => inbox[cli_list[k]] # <<>>

Attended == <>[](stdin = "quiet" /\ pc \in {"select", "pass"})

(* As long as nobody types at the server and its standard input stays      *)
(* open, whatever a client sends is read in the end: a client that a pass  *)
(* skips has moved forward in the list, and cannot be skipped for ever.    *)
EverybodyIsRead ==
  Attended => \A p \in Peer : inbox[p] # <<>> ~> inbox[p] = <<>>

(* Under the same condition an RC_EXIT that is the first request of a recv *)
(* ends in the client's release.                                           *)
ExitIsGranted ==
  Attended => \A p \in Peer :
    inbox[p] = <<"exit">> ~> peer[p] = "away"

-----------------------------------------------------------------------------
(* What a comment says and the program does not do.                        *)

(* irc_client.c:553, "wait for server response and thread close": a client *)
(* that has sent RC_EXIT gets the response.                                *)
ExitIsAnswered ==
  Attended => \A p \in Peer : peer[p] = "leaving" ~> peer[p] = "away"
=============================================================================
