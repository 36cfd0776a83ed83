---------------------------- MODULE ChatService ----------------------------
(***************************************************************************)
(* What the server promises its users, without connections, slots or       *)
(* descriptor lists: a set of registered names, a membership relation      *)
(* between names and rooms, and messages that reach exactly the members,   *)
(* unless the server ends before it has sent the message to all of them.   *)
(* IrcServer implements it (irc_cli_join_cmd, irc_cli_leave_cmd,           *)
(* irc_cli_msg_cmd, irc_accept_new_cli and irc_shutdown_client).           *)
(***************************************************************************)
EXTENDS Integers, FiniteSets

CONSTANTS
  Name, Room,
  UsrMax,    \* users a room takes
  RoomMax    \* rooms a user takes

VARIABLES
  running,   \* is the server there?
  users,     \* the names in use
  member,    \* who is in which room: a set of pairs <<name, room>>
  heard      \* the message just delivered, if any

svars == <<running, users, member, heard>>

Silence == [to |-> {}, from |-> {}]

MembersOf(r) == {n \in Name : <<n, r>> \in member}
RoomsOf(n)   == {r \in Room : <<n, r>> \in member}

Init == running = TRUE /\ users = {} /\ member = {} /\ heard = Silence

Register(n) ==
  /\ n \notin users
  /\ users' = users \cup {n}
  /\ heard' = Silence
  /\ UNCHANGED member

Join(n, r) ==
  /\ n \in users
  /\ Cardinality(MembersOf(r)) < UsrMax
  /\ Cardinality(RoomsOf(n)) < RoomMax
  /\ member' = member \cup {<<n, r>>}
  /\ heard' = Silence
  /\ UNCHANGED users

Leave(n, r) ==
  /\ member' = member \ {<<n, r>>}
  /\ heard' = Silence
  /\ UNCHANGED users

Say(n, r) ==
  /\ n \in MembersOf(r)
  /\ \E reached \in SUBSET MembersOf(r) :
       /\ running' => reached = MembersOf(r)
       /\ heard' = [to |-> reached, from |-> {n}]
  /\ UNCHANGED <<users, member>>

(* The name becomes free and leaves all its rooms in one step.             *)
Quit(n) ==
  /\ n \in users
  /\ users' = users \ {n}
  /\ member' = {m \in member : m[1] # n}
  /\ heard' = Silence

(* A request that changes nothing, or the end of a connection that never   *)
(* chose a name.                                                           *)
Idle == heard' = Silence /\ UNCHANGED <<users, member>>

(* The server may end with any step, and then takes no more.               *)
Next ==
  /\ running /\ running' \in BOOLEAN
  /\ \/ \E n \in Name : Register(n) \/ Quit(n)
     \/ \E n \in Name, r \in Room : Join(n, r) \/ Leave(n, r) \/ Say(n, r)
     \/ Idle

Spec == Init /\ [][Next]_svars
=============================================================================
