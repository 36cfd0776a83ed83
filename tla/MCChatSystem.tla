--------------------------- MODULE MCChatSystem ---------------------------
(* Instances of ChatSystem for TLC.                                        *)
EXTENDS ChatSystem

Commands ==
  [cmd : {"chat", "leave", "users", "exit", "unread"}, room : {None}]
    \cup [cmd : {"join", "msg", "show"}, room : AnyRoom \ {Void, Garbage}]

(* The state without what no step depends on: the texts of messages, the   *)
(* server's state once it takes no more steps that this client sees, and   *)
(* all but the end of a client that has ended.                             *)
ServerState ==
  <<lists, name, active_rooms, tree, gone, dropped, late,
    [r \in Room |-> [room[r] EXCEPT !.history = None]]>>

View ==
  IF proc # "running" THEN <<proc, keyboard.at, socket.at, lost, up>>
  ELSE <<cvars, up, IF Closed THEN <<Me \in Clients>> ELSE ServerState>>

(* A bound: the server does nothing for the others, and does not end,      *)
(* while the keyboard thread is in the middle of a line.  That thread      *)
(* looks neither at the answers nor at the server there; what is cut off   *)
(* is the handling of a message of theirs meanwhile, which changes nothing *)
(* that the threads share.                                                 *)
OthersServed == UNCHANGED <<proc, keyboard, socket, requests>>

BetweenLines ==
  OthersServed => keyboard.at \in {"logon", "wait", "read", "join thread"}
=============================================================================
