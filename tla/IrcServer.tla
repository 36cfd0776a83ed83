----------------------------- MODULE IrcServer -----------------------------
(***************************************************************************)
(* The chat server: server/src/irc_server.c with the client list of        *)
(* server.c and the rooms of room.c.                                       *)
(*                                                                         *)
(* The server is one thread.  An action is one handler run to its end: a   *)
(* connection taken, one request of a client executed, or the end of a     *)
(* stream noticed.  Which handler comes next is left open here.            *)
(*                                                                         *)
(* A connection is the descriptor accept() returned for it, so that a      *)
(* member of Conn is used again after it was closed.  What a request can   *)
(* say is what the client program of client/src sends: RC_LOGON until one  *)
(* is granted, afterwards the other requests under the granted name.       *)
(***************************************************************************)
EXTENDS RoomOps, Sequences, SequencesExt

CONSTANTS
  Conn,       \* descriptors of client connections
  Name,       \* names users choose
  Room,       \* room names within _R_NAME_LEN_MAX
  LongRoom,   \* room names beyond it
  Text,       \* message texts
  RoomMax,    \* _R_ROOM_MAX: entries of a client's active_rooms
  Serv,       \* the listening descriptor
  Stdin,      \* STDIN_FILENO
  EINVAL,     \* the errno constant, 22
  AbruptClose \* may a peer go away without RC_EXIT?

ASSUME RoomMaxAssumption == RoomMax \in Nat \ {0}
ASSUME EinvalAssumption  == EINVAL \in Nat
ASSUME AbruptAssumption  == AbruptClose \in BOOLEAN
ASSUME FiniteAssumption  == IsFiniteSet(Conn) /\ IsFiniteSet(Name)
ASSUME DistinctAssumption ==
  /\ None \notin Conn \cup Name \cup Room \cup LongRoom \cup Text
  /\ Room \cap LongRoom = {}
  /\ Serv # Stdin
  /\ Serv \notin Conn /\ Stdin \notin Conn

AnyRoom == Room \cup LongRoom
Active  == 0 .. RoomMax - 1
Fd      == Conn \cup {Serv, Stdin}

VARIABLES
  up,            \* is the server process alive?
  cli_list,      \* irc_info->cli_list: the clients in the order of accept
  num_clients,   \* irc_info->num_clients
  full_fd_list,  \* irc_info->full_fd_list: what select() watches
  num_fds,       \* irc_info->num_fds
  name,          \* cli_info->name of each connection
  active_rooms,  \* cli_info->active_rooms of each connection
  tree,          \* the keys of the room tree
  room,          \* the room stored under a key
  gone,          \* connections whose peer has closed its end
  dropped,       \* has any connection ended without RC_EXIT?
  late,          \* clients no longer watched that the pass still comes to
  out            \* what the last handler sent

lists == <<cli_list, num_clients, full_fd_list, num_fds>>
vars  == <<up, lists, name, active_rooms, tree, room, gone, dropped, late,
           out>>

NoRooms == [i \in Active |-> None]
Clients == Range(cli_list)

(* One record describes everything a handler sends: messages of one type   *)
(* to the descriptors in "to".                                             *)
Quiet ==
  [type |-> "NONE", to |-> {}, room |-> None, res |-> FALSE, num |-> 0,
   names |-> {}]

LogonReply(c, ok) == [Quiet EXCEPT !.type = "LOGON", !.to = {c}, !.res = ok]

JoinReply(c, r, ok, n) ==
  [Quiet EXCEPT !.type = "JOIN", !.to = {c}, !.room = r, !.res = ok, !.num = n]

LeaveReply(c, r, ok) ==
  [Quiet EXCEPT !.type = "LEAVE", !.to = {c}, !.room = r, !.res = ok]

ExitReply(c) == [Quiet EXCEPT !.type = "EXIT", !.to = {c}]

UsersReply(c, r, ns) ==
  [Quiet EXCEPT !.type = "RUL", !.to = {c}, !.room = r, !.names = ns]

RoomMessage(cs, r, n) ==
  [Quiet EXCEPT !.type = "MSG", !.to = cs, !.room = r, !.names = {n}]

(* send() without MSG_NOSIGNAL: writing to a peer that has closed its end  *)
(* may raise SIGPIPE (it does once the peer's reset has arrived), which    *)
(* nothing handles: the process ends.                                      *)
Transmit(msg) ==
  /\ out' = msg
  /\ up' \in IF msg.to \cap gone = {} THEN {TRUE} ELSE BOOLEAN

-----------------------------------------------------------------------------
(* The client list.                                                        *)

Index(s, x) == Least({i \in DOMAIN s : s[i] = x})

(* serv_find_client: the first client of that name, else the client on fd. *)
ServFindClient(n, fd) ==
  LET named == {i \in DOMAIN cli_list : name[cli_list[i]] = n} IN
  IF named # {} THEN cli_list[Least(named)]
  ELSE IF fd \in Clients THEN fd ELSE None

(* irc_remove_fd_list copies every other descriptor to a list one shorter. *)
(* A descriptor that is not there costs the list its last element instead, *)
(* which is written behind the list.  From a list of one the list itself   *)
(* is freed, whatever is in it, and num_fds stays 1: here, the empty list. *)
\* Variant: the list is shortened at its end.
WithoutLast(fds, fd) == SubSeq(fds, 1, Len(fds) - 1)

WithoutFd(fds, fd) ==
  IF Len(fds) <= 1 THEN <<>>
  ELSE RemoveAt(fds, IF fd \in Range(fds) THEN Index(fds, fd) ELSE Len(fds))

CountWithout(n) == IF n = 1 THEN 1 ELSE n - 1

(* serv_remove_client: the entry found by name, or by fd for a client that *)
(* has no name yet.                                                        *)
ServRemoveClient(c) ==
  LET found == IF name[c] # None THEN ServFindClient(name[c], c) ELSE c IN
  cli_list' = RemoveAt(cli_list, Index(cli_list, found))

\* Variant: the loop over active_rooms stops at the first NULL entry.
ServFreeClientStops(c) ==
  LET left == {active_rooms[c][i] : i \in
                 {i \in Active : \A j \in 0 .. i : active_rooms[c][j] # None}}
  IN /\ room' = [r \in Room |-> IF r \in tree /\ r \in left
                                THEN RemovedUser(room[r], name[c])
                                ELSE room[r]]
     /\ active_rooms' = [active_rooms EXCEPT ![c] = NoRooms]
     /\ name' = [name EXCEPT ![c] = None]

(* serv_free_client: leave every room of active_rooms, forget the client.  *)
(* A room listed twice is left once: the second removal finds nobody.      *)
ServFreeClient(c) ==
  /\ room' = [r \in Room |-> IF r \in tree /\ r \in Range(active_rooms[c])
                             THEN RemovedUser(room[r], name[c])
                             ELSE room[r]]
  /\ active_rooms' = [active_rooms EXCEPT ![c] = NoRooms]
  /\ name' = [name EXCEPT ![c] = None]

(* irc_shutdown_client, but for the descriptor list.                       *)
ForgetClient(c) ==
  /\ ServRemoveClient(c)
  /\ num_clients' = num_clients - 1
  /\ ServFreeClient(c)
  /\ gone' = gone \ {c}

(* irc_shutdown_client.                                                    *)
IrcShutdownClient(c) ==
  /\ full_fd_list' = WithoutFd(full_fd_list, c)
  /\ num_fds' = CountWithout(num_fds)
  /\ ForgetClient(c)

-----------------------------------------------------------------------------
Init ==
  /\ up = TRUE
  /\ cli_list = <<>>
  /\ num_clients = 0
  /\ full_fd_list = <<Serv, Stdin>>
  /\ num_fds = 2
  /\ name = [c \in Conn |-> None]
  /\ active_rooms = [c \in Conn |-> NoRooms]
  /\ tree = {}
  /\ room = [r \in Room |-> NewRoom]
  /\ gone = {}
  /\ dropped = FALSE
  /\ late = {}
  /\ out = Quiet

(* irc_take_new_connection: append to both lists.  The name stays NULL.    *)
TakeNewConnection(c) ==
  /\ up /\ late = {}
  /\ Serv \in Range(full_fd_list)
  /\ c \notin Clients
  /\ full_fd_list' = Append(full_fd_list, c)
  /\ num_fds' = num_fds + 1
  /\ cli_list' = Append(cli_list, c)
  /\ num_clients' = num_clients + 1
  /\ out' = Quiet
  /\ UNCHANGED <<up, name, active_rooms, tree, room, gone, dropped, late>>

(* The pass over the client list hands c's descriptor to irc_handle_cli:   *)
(* select() watches it, or did so when the pass began.                     *)
Ready(c) == up /\ c \in Clients /\ c \in Range(full_fd_list) \cup late

(* Those of a set of clients that the pass comes to after c: it goes on    *)
(* behind c's index, in the list that the handler has left.                *)
StillToCome(S, c) ==
  {d \in S : \E i \in DOMAIN cli_list' :
               cli_list'[i] = d /\ i > Index(cli_list, c)}

PassGoesOn(c) == late' = StillToCome(late, c)

(* A request of a logged on client arrives.                                *)
Request(c) == Ready(c) /\ name[c] # None

(* irc_accept_new_cli: granted when the lookup by name falls through to a  *)
(* client without a name, which is c itself; refused otherwise.            *)
\* Variant: any name is granted.
AcceptAnyName(c, n) ==
  /\ Ready(c)
  /\ name[c] = None
  /\ name' = [name EXCEPT ![c] = n]
  /\ Transmit(LogonReply(c, TRUE))
  /\ UNCHANGED <<lists, active_rooms, tree, room, gone, dropped>>
  /\ PassGoesOn(c)

AcceptNewCli(c, n) ==
  LET tmp == ServFindClient(n, c) IN
  /\ Ready(c)
  /\ name[c] = None
  /\ tmp # None
  /\ \/ /\ name[tmp] = None
        /\ name' = [name EXCEPT ![c] = n]
        /\ Transmit(LogonReply(c, TRUE))
     \/ /\ name[tmp] # None
        /\ Transmit(LogonReply(c, FALSE))
        /\ UNCHANGED name
  /\ UNCHANGED <<lists, active_rooms, tree, room, gone, dropped>>
  /\ PassGoesOn(c)

(* serv_add_active_room takes the first NULL entry; a room may come twice. *)
FreeActive(c) == {i \in Active : active_rooms[c][i] = None}

ServAddActiveRoom(c, r) ==
  active_rooms' = [active_rooms EXCEPT ![c][Least(FreeActive(c))] = r]

(* serv_remove_active_room clears the first entry that names the room.     *)
ServRemoveActiveRoom(c, r) ==
  LET entries == {i \in Active : active_rooms[c][i] = r} IN
  active_rooms' = IF entries = {} THEN active_rooms
                  ELSE [active_rooms EXCEPT ![c][Least(entries)] = None]

(* irc_cli_join_cmd when active_rooms is full: refused, nothing changes.   *)
JoinRefused(c, r) ==
  /\ Request(c)
  /\ LET cli == ServFindClient(name[c], None) IN
       /\ FreeActive(cli) = {}
       /\ Transmit(JoinReply(cli, r, FALSE, 0))
  /\ UNCHANGED <<lists, name, active_rooms, tree, room, gone, dropped>>
  /\ PassGoesOn(c)

(* irc_cli_join_cmd of a room within the length limit.  The entry in       *)
(* active_rooms is made first and stays when the room turns out full; a    *)
(* room not in the tree is created.                                        *)
\* Variant: the room is joined before the entry of active_rooms is looked for.
JoinRoomFirst(c, r) ==
  /\ Request(c)
  /\ active_rooms' = IF FreeActive(c) = {} THEN active_rooms ELSE
       [active_rooms EXCEPT ![c][Least(FreeActive(c))] = r]
  /\ tree' = tree \cup {r}
  /\ room' = [room EXCEPT ![r] = AddedUser(@, name[c])]
  /\ Transmit(JoinReply(c, r, AddSucceeds(room[r], name[c]), 0))
  /\ UNCHANGED <<lists, name, gone, dropped>>
  /\ PassGoesOn(c)

JoinRoom(c, r) ==
  /\ Request(c)
  /\ LET cli == ServFindClient(name[c], None) IN
       /\ FreeActive(cli) # {}
       /\ ServAddActiveRoom(cli, r)
       /\ tree' = tree \cup {r}
       /\ room' = [room EXCEPT ![r] = AddedUser(@, name[cli])]
       /\ \/ /\ AddSucceeds(room[r], name[cli])
             /\ Transmit(JoinReply(cli, r, TRUE, room'[r].num_users))
          \/ /\ ~AddSucceeds(room[r], name[cli])
             /\ Transmit(JoinReply(cli, r, FALSE, 0))
  /\ UNCHANGED <<lists, name, gone, dropped>>
  /\ PassGoesOn(c)

(* irc_cli_join_cmd of a longer name: room_add_user creates nothing and    *)
(* returns EINVAL, which the caller takes for the number of users.         *)
JoinLongRoom(c, r) ==
  /\ Request(c)
  /\ LET cli == ServFindClient(name[c], None) IN
       /\ FreeActive(cli) # {}
       /\ ServAddActiveRoom(cli, r)
       /\ Transmit(JoinReply(cli, r, TRUE, EINVAL))
  /\ UNCHANGED <<lists, name, tree, room, gone, dropped>>
  /\ PassGoesOn(c)

(* irc_cli_leave_cmd.                                                      *)
LeaveRoom(c, r) ==
  /\ Request(c)
  /\ LET cli == ServFindClient(name[c], None) IN
       \/ /\ r \in tree
          /\ RemoveSucceeds(room[r], name[cli])
          /\ room' = [room EXCEPT ![r] = RemovedUser(@, name[cli])]
          /\ ServRemoveActiveRoom(cli, r)
          /\ Transmit(LeaveReply(cli, r, TRUE))
       \/ /\ r \in tree => ~RemoveSucceeds(room[r], name[cli])
          /\ Transmit(LeaveReply(cli, r, FALSE))
          /\ UNCHANGED <<room, active_rooms>>
  /\ UNCHANGED <<lists, name, tree, gone, dropped>>
  /\ PassGoesOn(c)

(* irc_cli_msg_cmd: the sender must be in the room.  The message enters    *)
(* the history and goes to the users slot by slot; the loop gives up at    *)
(* the first user that has no client.  When SIGPIPE ends the process at a  *)
(* peer that has gone, the users in the slots behind it get nothing.       *)
Recipient(r, i) == ServFindClient(room[r].room_users[i], None)

\* Variant: the loop runs to num_users instead of _R_USR_MAX.
ReachedFirst(r) == {i \in Occupied(room[r]) : i < room[r].num_users}

Reached(r) ==
  {i \in Occupied(room[r]) :
     \A j \in Occupied(room[r]) : j <= i => Recipient(r, j) # None}

Sent(r, slots, n) == RoomMessage({Recipient(r, i) : i \in slots}, r, n)

Broadcast(r, n) ==
  \/ out' = Sent(r, Reached(r), n) /\ UNCHANGED up
  \/ \E i \in Reached(r) :
       /\ Recipient(r, i) \in gone
       /\ out' = Sent(r, {j \in Reached(r) : j < i}, n)
       /\ up' = FALSE

\* Variant: the sender need not be in the room.
MessageAnyone(c, r, t) ==
  /\ Request(c)
  /\ r \in tree
  /\ room' = [room EXCEPT ![r] = AddedHistory(@, t)]
  /\ Broadcast(r, name[c])
  /\ UNCHANGED <<lists, name, active_rooms, tree, gone, dropped>>
  /\ PassGoesOn(c)

Message(c, r, t) ==
  /\ Request(c)
  /\ r \in tree
  /\ CheckForClient(room[r], name[c])
  /\ room' = [room EXCEPT ![r] = AddedHistory(@, t)]
  /\ Broadcast(r, name[c])
  /\ UNCHANGED <<lists, name, active_rooms, tree, gone, dropped>>
  /\ PassGoesOn(c)

(* irc_cli_msg_cmd for a room that is unknown, too long, or not c's: the   *)
(* request is dropped without a reply.                                     *)
MessageIgnored(c, r) ==
  /\ Request(c)
  /\ r \in tree => ~CheckForClient(room[r], name[c])
  /\ out' = Quiet
  /\ UNCHANGED <<up, lists, name, active_rooms, tree, room, gone, dropped>>
  /\ PassGoesOn(c)

(* irc_cli_list_room_users: one message per occupied slot, then an end     *)
(* marker; only the marker for an unknown room.                            *)
ListRoomUsers(c, r) ==
  /\ Request(c)
  /\ LET cli == ServFindClient(name[c], None) IN
       Transmit(UsersReply(cli, r, IF r \in tree THEN Occupants(room[r])
                                                 ELSE {}))
  /\ UNCHANGED <<lists, name, active_rooms, tree, room, gone, dropped>>
  /\ PassGoesOn(c)

(* irc_cli_exit_cmd: acknowledge, then shut the client down.               *)
Exit(c) ==
  /\ Request(c)
  /\ LET cli == ServFindClient(name[c], None) IN
       /\ Transmit(ExitReply(cli))
       /\ IrcShutdownClient(cli)
  /\ UNCHANGED <<tree, dropped>>
  /\ PassGoesOn(c)

(* A client process ends, or is cut off, without RC_EXIT.                  *)
PeerCloses(c) ==
  /\ AbruptClose
  /\ up
  /\ c \in Clients \ gone
  /\ gone' = gone \cup {c}
  /\ out' = Quiet
  /\ UNCHANGED <<up, lists, name, active_rooms, tree, room, dropped, late>>

(* irc_handle_cli receives nothing.  It shuts the client down, goes on to  *)
(* parse the empty buffer, and shuts the freed client down once more.      *)
(* Reading freed memory, the process crashes; or the freed record still    *)
(* shows the descriptor, which is then removed from a list it is no longer *)
(* in, and the client lookup fails before anything is freed twice.  When   *)
(* that was the last client, there is no list to look it up in: the record *)
(* is freed again, which only the crash comes of.                          *)
DisconnectCrashes(c) ==
  /\ Ready(c) /\ c \in gone
  /\ IrcShutdownClient(c)
  /\ up' = FALSE
  /\ dropped' = TRUE
  /\ out' = Quiet
  /\ UNCHANGED tree
  /\ PassGoesOn(c)

\* Variant: the client is forgotten, its descriptor still watched.
DisconnectStillWatched(c) ==
  /\ Ready(c) /\ c \in gone
  /\ num_clients > 1
  /\ ForgetClient(c)
  /\ dropped' = TRUE
  /\ out' = Quiet
  /\ UNCHANGED <<up, tree, full_fd_list, num_fds>>
  /\ PassGoesOn(c)

(* The descriptor that the list loses with c's may be one that select()    *)
(* has reported and the pass has yet to come to.                           *)
DisconnectSurvives(c) ==
  /\ Ready(c) /\ c \in gone
  /\ num_clients > 1
  /\ full_fd_list' = WithoutFd(WithoutFd(full_fd_list, c), c)
  /\ num_fds' = CountWithout(CountWithout(num_fds))
  /\ ForgetClient(c)
  /\ dropped' = TRUE
  /\ out' = Quiet
  /\ UNCHANGED <<up, tree>>
  /\ \E reported \in SUBSET ((Conn \cap Range(full_fd_list))
                               \ Range(full_fd_list')) :
       late' = StillToCome(late \cup reported, c)

(* What was written behind a list may have been the allocator's, which     *)
(* then ends the process at some later call.                               *)
HeapCrashes ==
  /\ up /\ dropped
  /\ up' = FALSE
  /\ out' = Quiet
  /\ UNCHANGED <<lists, name, active_rooms, tree, room, gone, dropped, late>>

(* Without a list irc_fill_fd_set_read leaves the set as select() left it: *)
(* it has the descriptors last reported, one of which the pass has closed  *)
(* when it lost the list.  select() fails, and errExit ends the process.   *)
SelectFails ==
  /\ up /\ late = {}
  /\ full_fd_list = <<>>
  /\ up' = FALSE
  /\ out' = Quiet
  /\ UNCHANGED <<lists, name, active_rooms, tree, room, gone, dropped, late>>

ServeClient ==
  \E c \in Conn :
    \/ TakeNewConnection(c)
    \/ \E n \in Name : AcceptNewCli(c, n)
    \/ \E r \in AnyRoom : JoinRefused(c, r)
    \/ \E r \in Room : JoinRoom(c, r)
    \/ \E r \in LongRoom : JoinLongRoom(c, r)
    \/ \E r \in AnyRoom : LeaveRoom(c, r)
    \/ \E r \in Room, t \in Text : Message(c, r, t)
    \/ \E r \in AnyRoom : MessageIgnored(c, r)
    \/ \E r \in AnyRoom : ListRoomUsers(c, r)
    \/ Exit(c)
    \/ PeerCloses(c)
    \/ DisconnectCrashes(c)
    \/ DisconnectSurvives(c)

Next == ServeClient \/ HeapCrashes \/ SelectFails

Spec == Init /\ [][Next]_vars

-----------------------------------------------------------------------------
(* Properties.                                                             *)

Members(r) == Occupants(room[r])
Named == {c \in Clients : name[c] # None}

MessageType ==
  [type : {"NONE", "LOGON", "JOIN", "LEAVE", "MSG", "RUL", "EXIT"},
   to : SUBSET Conn, room : AnyRoom \cup {None}, res : BOOLEAN, num : Nat,
   names : SUBSET Name]

(* The type of the server's state; every counter is a natural number.      *)
TypeOK ==
  /\ up \in BOOLEAN
  /\ cli_list \in Seq(Conn)
  /\ num_clients \in Nat
  /\ full_fd_list \in Seq(Fd)
  /\ num_fds \in Nat
  /\ name \in [Conn -> Name \cup {None}]
  /\ active_rooms \in [Conn -> [Active -> AnyRoom \cup {None}]]
  /\ tree \in SUBSET Room
  /\ room \in [Room -> RoomInfo(Name, Text)]
  /\ gone \in SUBSET Conn
  /\ dropped \in BOOLEAN
  /\ late \in SUBSET Conn
  /\ out \in MessageType

(* No two connected clients hold the same name (the lookup in              *)
(* irc_accept_new_cli), which every later lookup by name relies on.        *)
NamesUnique ==
  \A c, d \in Named : name[c] = name[d] => c = d

(* Every occupant of a room is a connected client that has the room among  *)
(* its active rooms, so that serv_free_client finds it: no user stays in a *)
(* room after disconnecting.                                               *)
NoGhosts ==
  \A r \in Room : \A n \in Members(r) :
    \E c \in Clients : name[c] = n /\ r \in Range(active_rooms[c])

(* num_users counts the occupied slots of a room and no user has two, over *)
(* any sequence of joins, repeated joins, leaves and disconnections.       *)
RoomsCount ==
  \A r \in Room : CountsItsUsers(room[r]) /\ OneSlotEach(room[r])

(* The active_rooms array keeps every user within RoomMax rooms, because   *)
(* irc_cli_join_cmd takes an entry of it before it touches the room.       *)
AtMostRoomMax ==
  \A n \in Name : Cardinality({r \in Room : n \in Members(r)}) <= RoomMax

(* As long as clients only leave with RC_EXIT, what select() watches is    *)
(* the server socket, stdin and the clients, in the order of the client    *)
(* list, and both counters are the lengths of their lists.                 *)
ListsAgree ==
  ~dropped => /\ full_fd_list = <<Serv, Stdin>> \o cli_list
              /\ num_fds = Len(full_fd_list)
              /\ num_clients = Len(cli_list)

(* A room message goes to users of the room only, the sender one of them,  *)
(* and to all of them unless the loop of irc_cli_msg_cmd was the server's  *)
(* last, whatever joined, left or disconnected before.                     *)
MessageReachesMembers ==
  out.type = "MSG" =>
    /\ out.names \subseteq Members(out.room)
    /\ {name[c] : c \in out.to} \subseteq Members(out.room)
    /\ up => {name[c] : c \in out.to} = Members(out.room)

(* A positive RC_JOIN reply for a name within the limit tells the truth:   *)
(* the client is in the room and the number sent is that of its users.     *)
JoinReplyTrue ==
  out.type = "JOIN" /\ out.res /\ out.room \in Room =>
    /\ {name[c] : c \in out.to} \subseteq Members(out.room)
    /\ out.num = Cardinality(Members(out.room))

(* The messages a room keeps, read from its ring with the oldest first.    *)
Kept(ri) ==
  LET n == Cardinality({i \in Entry : ri.history[i] # None}) IN
  [k \in 1 .. n |-> ri.history[(ri.hist_end + HistMax - n + k - 1) % HistMax]]

(* The history of a room is a log of the messages sent to it, in order, of *)
(* which the ring keeps the last HistMax: room_add_history overwrites the  *)
(* oldest, and nothing else ever changes it.                               *)
KeepsTheLastMessages ==
  [][\A r \in Room :
       IF out'.type = "MSG" /\ out'.room = r
       THEN \E t \in Text :
              LET all == Append(Kept(room[r]), t) IN
              Kept(room'[r]) = IF Len(all) > HistMax THEN Tail(all) ELSE all
       ELSE Kept(room'[r]) = Kept(room[r])
    ]_vars

(* One request changes the memberships of one user only, and nobody else's *)
(* name: room_remove_user and serv_free_client clear the caller's slots.   *)
OneUserAtATime ==
  [][\E n \in Name : \A m \in Name \ {n} :
       /\ \A r \in Room : m \in Members(r) <=> m \in Members(r)'
       /\ m \in {name[c] : c \in Named} <=> m \in {name[c] : c \in Named}'
    ]_vars

(* The server implements the service: it runs as long as the process, the  *)
(* users are the names of connected clients, the members of a room its     *)
(* occupants, and the message heard is the last RC_MSG sent.               *)
Service == INSTANCE ChatService WITH
  running <- up,
  users  <- {name[c] : c \in Named},
  member <- {m \in Name \X Room : m[1] \in Members(m[2])},
  heard  <- [to   |-> {name[c] : c \in IF out.type = "MSG" THEN out.to ELSE {}},
             from |-> IF out.type = "MSG" THEN out.names ELSE {}]

ImplementsService == Service!Spec

(* The descriptor list names the listening socket, stdin and connections   *)
(* the server has not closed, each once: select() would fail on another    *)
(* one.  That holds after the double shutdown of a disconnected client,    *)
(* too, which costs the list one descriptor too many, and in the end all:  *)
(* a list that was lost is the one case in which select() is given closed  *)
(* descriptors (SelectFails), and it takes such a disconnection.           *)
WatchesOnlyOpen ==
  /\ Range(full_fd_list) \subseteq Clients \cup {Serv, Stdin}
  /\ IsInjective(full_fd_list)
  /\ full_fd_list = <<>> => dropped

(* A join that is refused changes nobody's membership, that of the refused *)
(* user in this room included, although _room_add_user takes a user out of *)
(* the room before it looks for a slot.                                    *)
RefusalChangesNothing ==
  [][out'.type = "JOIN" /\ ~out'.res =>
       \A r \in Room : Members(r)' = Members(r)]_vars

-----------------------------------------------------------------------------
(* What the code's comments say and the code does not do.                  *)

(* irc_server.c:411, "client successfully added to room, let them know":   *)
(* the receiver of a positive RC_JOIN reply is in the room.                *)
SuccessMeansAdded ==
  out.type = "JOIN" /\ out.res =>
    /\ out.room \in Room
    /\ {name[c] : c \in out.to} \subseteq Members(out.room)

(* irc_server.c:397, "user is in max ammount of rooms": a client whose     *)
(* next RC_JOIN would be refused for want of an entry is in RoomMax rooms. *)
RefusedAtMaximum ==
  \A c \in Named : FreeActive(c) = {} =>
    Cardinality({r \in Room : name[c] \in Members(r)}) = RoomMax

(* irc_server.c:536, "drop client and move on. likely crashed.": when a    *)
(* peer has gone, the server goes on running and reading all the others.   *)
DropsAndMovesOn ==
  [][dropped' /\ ~dropped => up' /\ (Clients \subseteq Range(full_fd_list))']_vars
=============================================================================
