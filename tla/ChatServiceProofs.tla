------------------------- MODULE ChatServiceProofs -------------------------
(***************************************************************************)
(* IrcServer implements ChatService: every handler, run on the lists,      *)
(* slots and arrays of the server, is one step of the abstract service or  *)
(* changes nothing the service can see.  What a reply or a message says is *)
(* true, and the bounds of ChatService are those of the arrays.  The last  *)
(* part is about the histories of the rooms: the ring is a log of which    *)
(* only the oldest message is ever lost.                                   *)
(***************************************************************************)
EXTENDS IrcServerProofs

(* The abstract state, as the refinement mapping of IrcServer has it.      *)
Users == {name[c] : c \in Named}
Pairs == {m \in Name \X Room : m[1] \in Members(m[2])}
Heard == [to   |-> {name[c] : c \in IF out.type = "MSG" THEN out.to ELSE {}},
          from |-> IF out.type = "MSG" THEN out.names ELSE {}]

(* What a step of the service does, whether or not it is the server's last. *)
Serves ==
  \/ \E n \in Name : Service!Register(n) \/ Service!Quit(n)
  \/ \E n \in Name, r \in Room :
       Service!Join(n, r) \/ Service!Leave(n, r) \/ Service!Say(n, r)
  \/ Service!Idle

(* A name is in use when some client of the list holds it.                 *)
LEMMA UsersAre ==
  ASSUME NEW n \in Name
  PROVE  /\ n \in Users <=> \E c \in Clients : name[c] = n
         /\ n \in Users' <=> \E c \in Clients' : name'[c] = n
BY DistinctAssumption DEF Users, Named

(* The pairs of a room are its members.                                    *)
LEMMA PairsAre ==
  ASSUME NEW n \in Name, NEW r \in Room
  PROVE  /\ <<n, r>> \in Pairs <=> n \in Members(r)
         /\ <<n, r>> \in Pairs' <=> n \in Members(r)'
BY DEF Pairs

(* What is not a message leaves nothing to hear.                           *)
LEMMA NothingHeard ==
  ASSUME out'.type # "MSG"
  PROVE  Heard' = [to |-> {}, from |-> {}]
<1>1. {name'[c] : c \in {}} = {}
  OBVIOUS
<1>2. (IF out'.type = "MSG" THEN out'.to ELSE {}) = {}
  OBVIOUS
<1> QED BY <1>1, <1>2 DEF Heard

(* Only RoomMessage makes a message of type RC_MSG.                        *)
LEMMA NotMessages ==
  /\ Quiet.type # "MSG"
  /\ \A c, ok : LogonReply(c, ok).type # "MSG"
  /\ \A c, r, ok, n : JoinReply(c, r, ok, n).type # "MSG"
  /\ \A c, r, ok : LeaveReply(c, r, ok).type # "MSG"
  /\ \A c : ExitReply(c).type # "MSG"
  /\ \A c, r, ns : UsersReply(c, r, ns).type # "MSG"
BY DEF Quiet, LogonReply, JoinReply, LeaveReply, ExitReply, UsersReply

(* Only JoinReply makes a message of type RC_JOIN.                         *)
LEMMA NotJoins ==
  /\ Quiet.type # "JOIN"
  /\ \A c, ok : LogonReply(c, ok).type # "JOIN"
  /\ \A c, r, ok : LeaveReply(c, r, ok).type # "JOIN"
  /\ \A c : ExitReply(c).type # "JOIN"
  /\ \A c, r, ns : UsersReply(c, r, ns).type # "JOIN"
  /\ \A cs, r, n : RoomMessage(cs, r, n).type # "JOIN"
BY DEF Quiet, LogonReply, JoinReply, LeaveReply, ExitReply, UsersReply,
       RoomMessage

(* A step that leaves names, clients and rooms alone and sends no message  *)
(* is idle.                                                                *)
LEMMA IdleMaps ==
  ASSUME UNCHANGED <<cli_list, name, room>>, out'.type # "MSG"
  PROVE  Serves
<1>1. Users' = Users
  BY DEF Users, Named, Clients
<1>2. Pairs' = Pairs
  BY DEF Pairs, Members
<1>3. Heard' = [to |-> {}, from |-> {}]
  BY NothingHeard
<1>4. Service!Idle
  BY <1>1, <1>2, <1>3 DEF Service!Idle, Service!Silence, Users, Pairs, Heard
<1> QED BY <1>4 DEF Serves

(* The users are names.                                                    *)
LEMMA UsersType ==
  ASSUME IInv, IInv'
  PROVE  Users \subseteq Name /\ Users' \subseteq Name
<1>1. Clients \subseteq Conn /\ Clients' \subseteq Conn
  <2>1. cli_list \in Seq(Conn) /\ cli_list' \in Seq(Conn)
    BY DEF IInv, TypeOK
  <2> QED BY <2>1, LenProperties, ElementOfSeq DEF Clients, Range
<1> QED BY <1>1 DEF Users, Named, IInv, TypeOK

(* irc_accept_new_cli: the name is free, and is the user's from then on.   *)
LEMMA AcceptMaps ==
  ASSUME IInv, IInv', NEW c \in Conn, NEW n \in Name, AcceptNewCli(c, n)
  PROVE  Serves
<1> DEFINE tmp == ServFindClient(n, c)
<1>1. /\ c \in Clients /\ name[c] = None
      /\ UNCHANGED <<cli_list, room>>
  BY DEF AcceptNewCli, Ready, lists
<1>2. CASE name[tmp] = None /\ name' = [name EXCEPT ![c] = n]
           /\ Transmit(LogonReply(c, TRUE))
  <2>1. \A d \in Clients : name[d] # n
    BY <1>1, <1>2, FreshName DEF IInv
  <2>2. Clients' = Clients /\ Pairs' = Pairs
    BY <1>1 DEF Clients, Pairs, Members
  <2>3. \A d \in Conn : name'[d] = IF d = c THEN n ELSE name[d]
    BY <1>2 DEF IInv, TypeOK
  <2>4. Users' = Users \cup {n} /\ n \notin Users
    <3>1. Clients \subseteq Conn
      BY ClientsType DEF IInv
    <3>2. \A m \in Name : m \in Users' <=> m \in Users \/ m = n
      BY <1>1, <2>2, <2>3, <3>1, UsersAre, DistinctAssumption
    <3> QED BY <2>1, <3>2, UsersAre, UsersType
  <2>5. Heard' = [to |-> {}, from |-> {}]
    BY <1>2, NotMessages, NothingHeard DEF Transmit
  <2>6. Service!Register(n)
    BY <2>2, <2>4, <2>5
    DEF Service!Register, Service!Silence, Users, Pairs, Heard
  <2> QED BY <2>6 DEF Serves
<1>3. CASE UNCHANGED name /\ Transmit(LogonReply(c, FALSE))
  BY <1>1, <1>3, IdleMaps, NotMessages DEF Transmit
<1> QED BY <1>2, <1>3 DEF AcceptNewCli

(* serv_free_client and serv_remove_client together: a user quits, leaving *)
(* all rooms in the same step; a connection without a name is no user.     *)
LEMMA ForgetMaps ==
  ASSUME IInv, IInv', NEW c \in Clients, ForgetClient(c), out'.type # "MSG"
  PROVE  Serves
<1>1. /\ c \in Conn /\ Clients \subseteq Conn
      /\ name \in [Conn -> Name \cup {None}]
  BY ClientsType DEF IInv, TypeOK
<1>2. Clients' = Clients \ {c}
  BY RemovesClient DEF ForgetClient
<1>3. \A r \in Room : Members(r)' = Members(r) \ {name[c]}
  BY FreesRooms DEF ForgetClient, Members
<1>4. \A d \in Conn : name'[d] = IF d = c THEN None ELSE name[d]
  BY <1>1 DEF ForgetClient, ServFreeClient
<1>5. Heard' = [to |-> {}, from |-> {}]
  BY NothingHeard
<1>6. \A n \in Name : n \in Users' <=> n \in Users /\ n # name[c]
  <2> SUFFICES ASSUME NEW n \in Name
               PROVE  n \in Users' <=> n \in Users /\ n # name[c]
    OBVIOUS
  <2>1. ASSUME n \in Users' PROVE n \in Users /\ n # name[c]
    <3>1. PICK d \in Clients' : name'[d] = n
      BY <2>1, UsersAre
    <3>2. d \in Clients /\ d # c /\ name[d] = n
      BY <1>1, <1>2, <1>4, <3>1
    <3>3. n # name[c]
      BY <3>2, DistinctAssumption DEF IInv, NamesUnique, Named
    <3> QED BY <3>2, <3>3, UsersAre
  <2>2. ASSUME n \in Users, n # name[c] PROVE n \in Users'
    <3>1. PICK d \in Clients : name[d] = n
      BY <2>2, UsersAre
    <3>2. d \in Clients' /\ name'[d] = n
      BY <1>1, <1>2, <1>4, <2>2, <3>1
    <3> QED BY <3>2, UsersAre
  <2> QED BY <2>1, <2>2
<1>7. \A n \in Name, r \in Room :
        n \in Members(r)' <=> n \in Members(r) /\ n # name[c]
  BY <1>3
<1>8. CASE name[c] = None
  <2>1. Users' = Users
    BY <1>6, <1>8, UsersType, DistinctAssumption
  <2>2. Pairs' = Pairs
    BY <1>7, <1>8, DistinctAssumption DEF Pairs
  <2>3. Service!Idle
    BY <1>5, <2>1, <2>2 DEF Service!Idle, Service!Silence, Users, Pairs, Heard
  <2> QED BY <2>3 DEF Serves
<1>9. ASSUME NEW n \in Name, n = name[c] PROVE Serves
  <2>1. n \in Users /\ Users' = Users \ {n}
    BY <1>6, <1>9, UsersType, UsersAre
  <2>2. Pairs' = {m \in Pairs : m[1] # n}
    BY <1>7, <1>9 DEF Pairs
  <2>3. Service!Quit(n)
    BY <1>5, <2>1, <2>2 DEF Service!Quit, Service!Silence, Users, Pairs, Heard
  <2> QED BY <2>3 DEF Serves
<1> QED BY <1>1, <1>8, <1>9

-----------------------------------------------------------------------------
(* The two limits.                                                         *)

(* The counter of a room is the number of its users, since no user has two *)
(* slots.                                                                  *)
LEMMA OccupantsCounted ==
  ASSUME NEW ri \in RoomInfo(Name, Text), CountsItsUsers(ri), OneSlotEach(ri)
  PROVE  Cardinality(Occupants(ri)) = ri.num_users
<1> DEFINE f == [i \in Occupied(ri) |-> ri.room_users[i]]
<1>1. f \in Bijection(Occupied(ri), Occupants(ri))
  BY DEF Bijection, Injection, Surjection, IsInjective, Occupants, OneSlotEach
<1>2. IsFiniteSet(Occupied(ri))
  BY SlotFinite, FS_Subset DEF Occupied
<1>3. Cardinality(Occupants(ri)) = Cardinality(Occupied(ri))
  BY <1>1, <1>2, FS_Bijection DEF ExistsBijection
<1> QED BY <1>3 DEF CountsItsUsers

(* A user's rooms are named by entries of active_rooms, so that there are  *)
(* no more of them than entries, and fewer while one is free.              *)
LEMMA RoomsFitEntries ==
  ASSUME IInv, NEW c \in Clients, name[c] # None
  PROVE  LET rooms == {r \in Room : name[c] \in Members(r)} IN
         /\ Cardinality(rooms) <= RoomMax
         /\ FreeActive(c) # {} => Cardinality(rooms) < RoomMax
<1> DEFINE rooms == {r \in Room : name[c] \in Members(r)}
           used == Active \ FreeActive(c)
           f == [i \in used |-> active_rooms[c][i]]
           named == {f[i] : i \in used}
<1>1. IsFiniteSet(Active) /\ Cardinality(Active) = RoomMax
  <2>1. RoomMax \in Nat /\ RoomMax > 0
    BY RoomMaxAssumption
  <2> QED BY <2>1, FS_Interval DEF Active
<1>2. /\ IsFiniteSet(used) /\ Cardinality(used) \in Nat
      /\ Cardinality(used) <= RoomMax
      /\ FreeActive(c) # {} => Cardinality(used) < RoomMax
  <2>1. used \in SUBSET Active /\ FreeActive(c) \subseteq Active
    BY DEF FreeActive
  <2>2. /\ IsFiniteSet(used) /\ Cardinality(used) <= RoomMax
        /\ Cardinality(used) = RoomMax => used = Active
    BY <1>1, <2>1, FS_Subset
  <2>3. Cardinality(used) \in Nat
    BY <2>2, FS_CardinalityType
  <2>4. FreeActive(c) # {} => used # Active
    BY <2>1
  <2> QED BY <2>2, <2>3, <2>4, RoomMaxAssumption
<1>3. IsFiniteSet(named) /\ Cardinality(named) <= Cardinality(used)
  <2>1. f \in Surjection(used, named)
    BY DEF Surjection
  <2> QED BY <1>2, <2>1, FS_Surjection
<1>4. rooms \in SUBSET named
  <2>1. SUFFICES ASSUME NEW r \in Room, name[c] \in Members(r)
                 PROVE  r \in named
    OBVIOUS
  <2>2. PICK d \in Clients : name[d] = name[c] /\ r \in Range(active_rooms[d])
    BY <2>1 DEF IInv, NoGhosts
  <2>3. d = c
    BY <2>2 DEF IInv, NamesUnique, Named
  <2>4. DOMAIN active_rooms[c] = Active
    BY ClientsType DEF IInv, TypeOK
  <2>5. PICK i \in Active : active_rooms[c][i] = r
    BY <2>2, <2>3, <2>4 DEF Range
  <2>6. i \in used
    BY <2>5, DistinctAssumption DEF FreeActive
  <2> QED BY <2>5, <2>6
<1>5. IsFiniteSet(rooms) /\ Cardinality(rooms) <= Cardinality(named)
  BY <1>3, <1>4, FS_Subset
<1>6. Cardinality(rooms) \in Nat /\ Cardinality(named) \in Nat
  BY <1>3, <1>5, FS_CardinalityType
<1> HIDE DEF rooms, named, used, f
<1>7. /\ Cardinality(rooms) <= RoomMax
      /\ FreeActive(c) # {} => Cardinality(rooms) < RoomMax
  BY <1>2, <1>3, <1>5, <1>6, RoomMaxAssumption
<1> QED BY <1>7 DEF rooms

-----------------------------------------------------------------------------
(* The requests.                                                           *)

(* irc_cli_join_cmd: the sender becomes a member, within both limits, or   *)
(* nothing the service knows of changes.                                   *)
LEMMA JoinMaps ==
  ASSUME IInv, IInv', NEW c \in Conn, NEW r \in Room, JoinRoom(c, r)
  PROVE  Serves
<1>1. PICK n \in Name : n = name[c] /\ c \in Clients /\ name[c] # None
  BY DEF IInv, TypeOK, JoinRoom, Request, Ready
<1>2. ServFindClient(name[c], None) = c
  BY <1>1, FindsByName
<1>3. /\ FreeActive(c) # {}
      /\ room' = [room EXCEPT ![r] = AddedUser(@, name[c])]
      /\ UNCHANGED <<cli_list, name>>
      /\ \/ /\ AddSucceeds(room[r], name[c])
            /\ out' = JoinReply(c, r, TRUE, room'[r].num_users)
         \/ /\ ~AddSucceeds(room[r], name[c])
            /\ out' = JoinReply(c, r, FALSE, 0)
  BY <1>2 DEF JoinRoom, Transmit, lists
<1>4. /\ room[r] \in RoomInfo(Name, Text)
      /\ CountsItsUsers(room[r]) /\ OneSlotEach(room[r])
  BY DEF IInv, TypeOK, RoomsCount
<1>5. room'[r] = AddedUser(room[r], n)
      /\ \A q \in Room \ {r} : room'[q] = room[q]
  BY <1>1, <1>3 DEF IInv, TypeOK
<1>6. /\ AddSucceeds(room[r], n) <=> room[r].num_users # UsrMax
      /\ AddSucceeds(room[r], n) =>
           Occupants(AddedUser(room[r], n)) = Occupants(room[r]) \cup {n}
      /\ ~AddSucceeds(room[r], n) => AddedUser(room[r], n) = room[r]
  BY <1>4, AddedUserCorrect, DistinctAssumption
<1>7. out'.type # "MSG"
  BY <1>3, NotMessages
<1>8. Users' = Users
  BY <1>3 DEF Users, Named, Clients
<1>9. CASE AddSucceeds(room[r], n)
  <2>1. \A m \in Name, q \in Room :
          m \in Members(q)' <=> m \in Members(q) \/ <<m, q>> = <<n, r>>
    BY <1>5, <1>6, <1>9 DEF Members
  <2>2. Pairs' = Pairs \cup {<<n, r>>}
    BY <2>1 DEF Pairs
  <2>3. n \in Users
    BY <1>1, UsersAre
  <2>4. Cardinality({m \in Name : <<m, r>> \in Pairs}) < UsrMax
    <3>1. {m \in Name : <<m, r>> \in Pairs} = Occupants(room[r])
      BY PairsAre, MembersAreNames DEF IInv, Members
    <3>2. Cardinality(Occupants(room[r])) = room[r].num_users
      BY <1>4, OccupantsCounted
    <3>3. room[r].num_users \in 0 .. UsrMax /\ room[r].num_users # UsrMax
      BY <1>4, <1>6, <1>9 DEF RoomInfo
    <3>4. room[r].num_users < UsrMax
      BY <3>3, UsrMaxAssumption
    <3> QED BY <3>1, <3>2, <3>4
  <2>5. Cardinality({q \in Room : <<n, q>> \in Pairs}) < RoomMax
    <3>1. {q \in Room : <<n, q>> \in Pairs} = {q \in Room : name[c] \in Members(q)}
      BY <1>1, PairsAre
    <3>2. Cardinality({q \in Room : name[c] \in Members(q)}) < RoomMax
      BY <1>1, <1>3, RoomsFitEntries
    <3> QED BY <3>1, <3>2
  <2>6. Heard' = [to |-> {}, from |-> {}]
    BY <1>7, NothingHeard
  <2>7. \A S : Service!Cardinality(S) = Cardinality(S)
    BY DEF Service!Cardinality, Cardinality
  <2>8. Service!Join(n, r)
    BY <1>8, <2>2, <2>3, <2>4, <2>5, <2>6, <2>7
    DEF Service!Join, Service!MembersOf, Service!RoomsOf, Service!Silence,
        Users, Pairs, Heard
  <2> QED BY <2>8 DEF Serves
<1>10. CASE ~AddSucceeds(room[r], n)
  <2>1. room' = room
    BY <1>3, <1>5, <1>6, <1>10 DEF IInv, TypeOK
  <2> QED BY <1>3, <1>7, <2>1, IdleMaps
<1> QED BY <1>9, <1>10

(* irc_cli_leave_cmd: the sender is no longer a member, or never was.      *)
LEMMA LeaveMaps ==
  ASSUME IInv, IInv', NEW c \in Conn, NEW r \in AnyRoom, LeaveRoom(c, r)
  PROVE  Serves
<1>1. PICK n \in Name : n = name[c] /\ name[c] # None
  BY DEF IInv, TypeOK, LeaveRoom, Request
<1>2. ServFindClient(name[c], None) = c
  BY <1>1, FindsByName
<1>3. out'.type # "MSG" /\ UNCHANGED <<cli_list, name>>
  <2>1. out' = LeaveReply(c, r, TRUE) \/ out' = LeaveReply(c, r, FALSE)
    BY <1>2 DEF LeaveRoom, Transmit
  <2>2. out'.type # "MSG"
    BY <2>1, NotMessages
  <2> QED BY <2>2 DEF LeaveRoom, lists
<1>4. CASE /\ r \in tree
           /\ room' = [room EXCEPT ![r] = RemovedUser(@, name[c])]
  <2>1. r \in Room
    BY <1>4 DEF IInv, TypeOK
  <2>2. /\ room[r] \in RoomInfo(Name, Text)
        /\ CountsItsUsers(room[r]) /\ OneSlotEach(room[r])
    BY <2>1 DEF IInv, TypeOK, RoomsCount
  <2>3. /\ room'[r] = RemovedUser(room[r], n)
        /\ \A q \in Room \ {r} : room'[q] = room[q]
    BY <1>1, <1>4, <2>1 DEF IInv, TypeOK
  <2>4. Occupants(RemovedUser(room[r], n)) = Occupants(room[r]) \ {n}
    BY <2>2, RemovedUserCorrect, DistinctAssumption
  <2>5. \A m \in Name, q \in Room :
          m \in Members(q)' <=> m \in Members(q) /\ <<m, q>> # <<n, r>>
    BY <2>3, <2>4 DEF Members
  <2>6. Pairs' = Pairs \ {<<n, r>>}
    BY <2>5 DEF Pairs
  <2>7. Users' = Users /\ Heard' = [to |-> {}, from |-> {}]
    BY <1>3, NothingHeard DEF Users, Named, Clients
  <2>8. Service!Leave(n, r)
    BY <2>6, <2>7 DEF Service!Leave, Service!Silence, Users, Pairs, Heard
  <2> QED BY <2>1, <2>8 DEF Serves
<1>5. CASE UNCHANGED room
  BY <1>3, <1>5, IdleMaps
<1> QED BY <1>2, <1>4, <1>5 DEF LeaveRoom

(* The client found for an occupied slot is the one that holds the name,   *)
(* and there is one: the loop that sends a message never gives up.         *)
LEMMA AllReached ==
  ASSUME IInv, NEW r \in Room
  PROVE  /\ Reached(r) = Occupied(room[r])
         /\ \A i \in Occupied(room[r]) :
              /\ Recipient(r, i) \in Clients
              /\ name[Recipient(r, i)] = room[r].room_users[i]
<1>1. ASSUME NEW i \in Occupied(room[r])
      PROVE  /\ Recipient(r, i) \in Clients
             /\ name[Recipient(r, i)] = room[r].room_users[i]
  <2>1. /\ room[r].room_users[i] \in Members(r)
        /\ room[r].room_users[i] # None
    BY DEF Members, Occupants, Occupied
  <2>2. PICK d \in Clients : name[d] = room[r].room_users[i]
    BY <2>1 DEF IInv, NoGhosts
  <2>3. d \in Conn
    BY ClientsType DEF IInv
  <2>4. ServFindClient(name[d], None) = d
    BY <2>1, <2>2, <2>3, FindsByName
  <2> QED BY <2>2, <2>4 DEF Recipient
<1>2. None \notin Clients
  BY ClientsType, DistinctAssumption DEF IInv
<1>3. Reached(r) = Occupied(room[r])
  BY <1>1, <1>2 DEF Reached
<1> QED BY <1>1, <1>3

(* The names of the clients a message is sent to are those in the slots.   *)
LEMMA ReachedAreMembers ==
  ASSUME IInv, NEW r \in Room, NEW S \in SUBSET Reached(r)
  PROVE  LET names == {name[d] : d \in {Recipient(r, i) : i \in S}} IN
         /\ names \subseteq Members(r)
         /\ S = Reached(r) => names = Members(r)
<1>1. Reached(r) = Occupied(room[r])
  BY AllReached
<1>2. \A i \in Occupied(room[r]) :
        name[Recipient(r, i)] = room[r].room_users[i]
  BY AllReached
<1>3. {name[d] : d \in {Recipient(r, i) : i \in S}}
        = {room[r].room_users[i] : i \in S}
  BY <1>1, <1>2
<1> QED BY <1>1, <1>3 DEF Members, Occupants

(* The loop of irc_cli_msg_cmd gets to all the users, or to some when the  *)
(* server ends in it.                                                      *)
LEMMA BroadcastSends ==
  ASSUME NEW r \in Room, NEW n, Broadcast(r, n)
  PROVE  \E S \in SUBSET Reached(r) :
           /\ up' => S = Reached(r)
           /\ out' = Sent(r, S, n)
<1>1. CASE out' = Sent(r, Reached(r), n) /\ UNCHANGED up
  BY <1>1
<1>2. ASSUME NEW i \in Reached(r),
             out' = Sent(r, {j \in Reached(r) : j < i}, n), up' = FALSE
      PROVE  \E S \in SUBSET Reached(r) :
               /\ up' => S = Reached(r)
               /\ out' = Sent(r, S, n)
  BY <1>2
<1> QED BY <1>1, <1>2 DEF Broadcast

(* irc_cli_msg_cmd: a member's message goes to the room's members.         *)
LEMMA MessageFacts ==
  ASSUME IInv, NEW c \in Conn, NEW r \in Room, NEW t \in Text, Message(c, r, t)
  PROVE  /\ name[c] \in Members(r)
         /\ \A q \in Room : Members(q)' = Members(q)
         /\ UNCHANGED <<cli_list, name>>
         /\ out'.type = "MSG" /\ out'.room = r /\ out'.names = {name[c]}
         /\ {name'[d] : d \in out'.to} \subseteq Members(r)
         /\ up' => {name'[d] : d \in out'.to} = Members(r)
<1>1. /\ up /\ name[c] # None /\ CheckForClient(room[r], name[c])
      /\ room' = [room EXCEPT ![r] = AddedHistory(@, t)]
      /\ UNCHANGED <<cli_list, name>>
      /\ Broadcast(r, name[c])
  BY DEF Message, Request, Ready, lists
<1>2. name[c] \in Members(r)
  BY <1>1, OccupantsSlots DEF CheckForClient, Members
<1>3. room[r] \in RoomInfo(Name, Text)
  BY DEF IInv, TypeOK
<1>4. /\ room'[r] = AddedHistory(room[r], t)
      /\ \A q \in Room \ {r} : room'[q] = room[q]
  BY <1>1 DEF IInv, TypeOK
<1>5. \A q \in Room : Members(q)' = Members(q)
  BY <1>3, <1>4, AddedHistoryKeepsUsers DEF Members
<1>6. PICK S \in SUBSET Reached(r) :
             /\ up' => S = Reached(r)
             /\ out' = Sent(r, S, name[c])
  BY <1>1, BroadcastSends
<1>7. /\ out'.type = "MSG" /\ out'.room = r /\ out'.names = {name[c]}
      /\ out'.to = {Recipient(r, i) : i \in S}
  BY <1>6 DEF Sent, RoomMessage, Quiet
<1>8. LET names == {name[d] : d \in {Recipient(r, i) : i \in S}} IN
      /\ names \subseteq Members(r)
      /\ S = Reached(r) => names = Members(r)
  BY ReachedAreMembers
<1>9. {name'[d] : d \in out'.to}
        = {name[d] : d \in {Recipient(r, i) : i \in S}}
  BY <1>1, <1>7
<1> QED BY <1>1, <1>2, <1>5, <1>6, <1>7, <1>8, <1>9

LEMMA SayMaps ==
  ASSUME IInv, IInv', NEW c \in Conn, NEW r \in Room, NEW t \in Text,
         Message(c, r, t)
  PROVE  Serves
<1>1. PICK n \in Name : n = name[c]
  BY DEF IInv, TypeOK, Message, Request
<1>2. /\ n \in Members(r)
      /\ \A q \in Room : Members(q)' = Members(q)
      /\ UNCHANGED <<cli_list, name>>
      /\ out'.type = "MSG" /\ out'.names = {n}
  BY <1>1, MessageFacts
<1>3. /\ {name'[d] : d \in out'.to} \subseteq Members(r)
      /\ up' => {name'[d] : d \in out'.to} = Members(r)
  BY MessageFacts
<1>4. Users' = Users
  BY <1>2 DEF Users, Named, Clients
<1>5. Pairs' = Pairs
  BY <1>2 DEF Pairs
<1>6. {m \in Name : <<m, r>> \in Pairs} = Members(r)
  BY PairsAre, MembersAreNames DEF IInv
<1>7. Heard' = [to |-> {name'[d] : d \in out'.to}, from |-> {n}]
  BY <1>2 DEF Heard
<1>8. Service!Say(n, r)
  BY <1>2, <1>3, <1>4, <1>5, <1>6, <1>7
  DEF Service!Say, Service!MembersOf, Users, Pairs, Heard
<1> QED BY <1>8 DEF Serves

-----------------------------------------------------------------------------
(* The refinement.                                                         *)

LEMMA InitMaps == Init => Service!Init
<1> SUFFICES ASSUME Init PROVE Service!Init
  OBVIOUS
<1>1. Clients = {}
  BY DEF Init, Clients, Range
<1>2. \A r \in Room : Members(r) = {}
  BY NewRoomIsEmpty DEF Init, Members
<1>3. out.type # "MSG"
  BY NotMessages DEF Init
<1>4. Users = {} /\ Pairs = {}
  BY <1>1, <1>2 DEF Users, Named, Pairs
<1>5. Heard = [to |-> {}, from |-> {}]
  <2>1. (IF out.type = "MSG" THEN out.to ELSE {}) = {}
    BY <1>3
  <2>2. {name[c] : c \in {}} = {}
    OBVIOUS
  <2> QED BY <1>3, <2>1, <2>2 DEF Heard
<1>6. up = TRUE
  BY DEF Init
<1> QED
  BY <1>4, <1>5, <1>6 DEF Service!Init, Service!Silence, Users, Pairs, Heard

(* A connection that is taken has no name yet, and is no user.             *)
LEMMA TakeMaps ==
  ASSUME IInv, NEW c \in Conn, TakeNewConnection(c)
  PROVE  Serves
<1>1. /\ c \notin Clients /\ cli_list' = Append(cli_list, c)
      /\ out' = Quiet /\ UNCHANGED <<name, room>>
  BY DEF TakeNewConnection
<1>2. Clients' = Clients \cup {c}
  BY <1>1, AppendRange DEF IInv, TypeOK, Clients
<1>3. name[c] = None
  BY <1>1 DEF IInv, Nameless
<1>4. Users' = Users
  BY <1>1, <1>2, <1>3 DEF Users, Named
<1>5. Pairs' = Pairs
  BY <1>1 DEF Pairs, Members
<1>6. Heard' = [to |-> {}, from |-> {}]
  BY <1>1, NotMessages, NothingHeard
<1>7. Service!Idle
  BY <1>4, <1>5, <1>6 DEF Service!Idle, Service!Silence, Users, Pairs, Heard
<1> QED BY <1>7 DEF Serves

(* Every handler is one step of the service.                               *)
LEMMA NextMaps ==
  ASSUME IInv, IInv', Next
  PROVE  Serves
<1>1. ASSUME NEW c \in Conn, TakeNewConnection(c) PROVE Serves
  BY <1>1, TakeMaps
<1>2. ASSUME NEW c \in Conn, NEW n \in Name, AcceptNewCli(c, n)
      PROVE  Serves
  BY <1>2, AcceptMaps
<1>3. ASSUME NEW c \in Conn, NEW r \in AnyRoom, JoinRefused(c, r)
      PROVE  Serves
  <2>1. UNCHANGED <<cli_list, name, room>> /\ out'.type # "MSG"
    BY <1>3, NotMessages DEF JoinRefused, Transmit, lists
  <2> QED BY <2>1, IdleMaps
<1>4. ASSUME NEW c \in Conn, NEW r \in Room, JoinRoom(c, r) PROVE Serves
  BY <1>4, JoinMaps
<1>5. ASSUME NEW c \in Conn, NEW r \in LongRoom, JoinLongRoom(c, r)
      PROVE  Serves
  <2>1. UNCHANGED <<cli_list, name, room>> /\ out'.type # "MSG"
    BY <1>5, NotMessages DEF JoinLongRoom, Transmit, lists
  <2> QED BY <2>1, IdleMaps
<1>6. ASSUME NEW c \in Conn, NEW r \in AnyRoom, LeaveRoom(c, r)
      PROVE  Serves
  BY <1>6, LeaveMaps
<1>7. ASSUME NEW c \in Conn, NEW r \in Room, NEW t \in Text, Message(c, r, t)
      PROVE  Serves
  BY <1>7, SayMaps
<1>8. ASSUME NEW c \in Conn, NEW r \in AnyRoom, MessageIgnored(c, r)
      PROVE  Serves
  <2>1. UNCHANGED <<cli_list, name, room>> /\ out'.type # "MSG"
    BY <1>8, NotMessages DEF MessageIgnored, lists
  <2> QED BY <2>1, IdleMaps
<1>9. ASSUME NEW c \in Conn, NEW r \in AnyRoom, ListRoomUsers(c, r)
      PROVE  Serves
  <2>1. UNCHANGED <<cli_list, name, room>> /\ out'.type # "MSG"
    BY <1>9, NotMessages DEF ListRoomUsers, Transmit, lists
  <2> QED BY <2>1, IdleMaps
<1>10. ASSUME NEW c \in Conn, Exit(c) PROVE Serves
  <2>1. c \in Clients /\ name[c] # None
    BY <1>10 DEF Exit, Request, Ready
  <2>2. ServFindClient(name[c], None) = c
    BY <2>1, FindsByName
  <2>3. out' = ExitReply(c) /\ ForgetClient(c)
    BY <1>10, <2>2 DEF Exit, Transmit, IrcShutdownClient
  <2>4. out'.type # "MSG"
    BY <2>3, NotMessages
  <2> QED BY <2>1, <2>3, <2>4, ForgetMaps
<1>11. ASSUME NEW c \in Conn, PeerCloses(c) PROVE Serves
  <2>1. UNCHANGED <<cli_list, name, room>> /\ out'.type # "MSG"
    BY <1>11, NotMessages DEF PeerCloses, lists
  <2> QED BY <2>1, IdleMaps
<1>12. ASSUME NEW c \in Conn, DisconnectCrashes(c) \/ DisconnectSurvives(c)
       PROVE  Serves
  <2>1. c \in Clients /\ ForgetClient(c) /\ out' = Quiet
    BY <1>12 DEF DisconnectCrashes, DisconnectSurvives, Ready, IrcShutdownClient
  <2> QED BY <2>1, NotMessages, ForgetMaps
<1>13. CASE HeapCrashes
  <2>1. UNCHANGED <<cli_list, name, room>> /\ out'.type # "MSG"
    BY <1>13, NotMessages DEF HeapCrashes, lists
  <2> QED BY <2>1, IdleMaps
<1>14. CASE SelectFails
  <2>1. UNCHANGED <<cli_list, name, room>> /\ out'.type # "MSG"
    BY <1>14, NotMessages DEF SelectFails, lists
  <2> QED BY <2>1, IdleMaps
<1> QED
  BY <1>1, <1>2, <1>3, <1>4, <1>5, <1>6, <1>7, <1>8, <1>9, <1>10, <1>11,
     <1>12, <1>13, <1>14 DEF Next, ServeClient

(* Every handler finds the server running, and may leave it ended.         *)
LEMMA StepMaps ==
  ASSUME IInv, IInv', Next
  PROVE  Service!Next
<1>1. up
  BY DEF Next, ServeClient, HeapCrashes, SelectFails, TakeNewConnection,
         AcceptNewCli, JoinRefused, JoinRoom, JoinLongRoom, LeaveRoom, Message,
         MessageIgnored, ListRoomUsers, Exit, PeerCloses, DisconnectCrashes,
         DisconnectSurvives, Request, Ready
<1>2. up' \in BOOLEAN
  BY DEF IInv, TypeOK
<1> QED BY <1>1, <1>2, NextMaps DEF Serves, Service!Next

(* The server implements the chat service: whatever clients connect, ask,  *)
(* leave or vanish, its users see a set of names, a membership relation    *)
(* within the two limits, and messages that reach exactly the members, or  *)
(* some of them when the server ends in the middle of sending.             *)
THEOREM ServiceImplemented == Spec => ImplementsService
<1>1. Init => Service!Init
  BY InitMaps
<1>2. IInv /\ IInv' /\ [Next]_vars => [Service!Next]_(Service!svars)
  <2> SUFFICES ASSUME IInv, IInv', [Next]_vars
               PROVE  [Service!Next]_(Service!svars)
    OBVIOUS
  <2>1. CASE Next
    BY <2>1, StepMaps
  <2>2. CASE UNCHANGED vars
    <3>1. up' = up /\ Users' = Users /\ Pairs' = Pairs /\ Heard' = Heard
      BY <2>2 DEF vars, lists, Users, Pairs, Heard, Named, Clients, Members
    <3> QED BY <3>1 DEF Service!svars, Users, Pairs, Heard
  <2> QED BY <2>1, <2>2
<1> QED
  BY <1>1, <1>2, Invariance, PTL DEF Spec, ImplementsService, Service!Spec

-----------------------------------------------------------------------------
(* What is sent is true, and the limits hold.                              *)

(* No user is in more rooms than active_rooms has entries: the entry is    *)
(* made before the room is touched, and outlives the membership.           *)
THEOREM RoomsLimited == Spec => []AtMostRoomMax
<1>1. IInv => AtMostRoomMax
  <2> SUFFICES ASSUME IInv, NEW n \in Name
               PROVE  Cardinality({r \in Room : n \in Members(r)}) <= RoomMax
    BY DEF AtMostRoomMax
  <2>1. CASE {r \in Room : n \in Members(r)} = {}
    BY <2>1, FS_EmptySet, RoomMaxAssumption
  <2>2. ASSUME NEW q \in Room, n \in Members(q)
        PROVE  Cardinality({r \in Room : n \in Members(r)}) <= RoomMax
    <3>1. PICK c \in Clients : name[c] = n
      BY <2>2 DEF IInv, NoGhosts
    <3>2. name[c] # None
      BY <3>1, DistinctAssumption
    <3> QED BY <3>1, <3>2, RoomsFitEntries
  <2> QED BY <2>1, <2>2
<1> QED BY <1>1, Invariance, PTL

(* A handler that sends a message is irc_cli_msg_cmd, and one that sends a *)
(* positive answer to a join is irc_cli_join_cmd.                          *)
LEMMA OnlyMessageSpeaks ==
  ASSUME IInv, Next, out'.type = "MSG"
  PROVE  \E c \in Conn, r \in Room, t \in Text : Message(c, r, t)
<1> USE NotMessages
<1>1. ASSUME NEW c \in Conn, TakeNewConnection(c) PROVE FALSE
  BY <1>1 DEF TakeNewConnection
<1>2. ASSUME NEW c \in Conn, NEW n \in Name, AcceptNewCli(c, n) PROVE FALSE
  <2>1. out' = LogonReply(c, TRUE) \/ out' = LogonReply(c, FALSE)
    BY <1>2 DEF AcceptNewCli, Transmit
  <2> QED BY <2>1
<1>3. ASSUME NEW c \in Conn, NEW r \in AnyRoom, JoinRefused(c, r) PROVE FALSE
  BY <1>3 DEF JoinRefused, Transmit
<1>4. ASSUME NEW c \in Conn, NEW r \in Room, JoinRoom(c, r) PROVE FALSE
  <2> DEFINE cli == ServFindClient(name[c], None)
  <2>1. \/ out' = JoinReply(cli, r, TRUE, room'[r].num_users)
        \/ out' = JoinReply(cli, r, FALSE, 0)
    BY <1>4 DEF JoinRoom, Transmit
  <2> QED BY <2>1
<1>5. ASSUME NEW c \in Conn, NEW r \in LongRoom, JoinLongRoom(c, r) PROVE FALSE
  BY <1>5 DEF JoinLongRoom, Transmit
<1>6. ASSUME NEW c \in Conn, NEW r \in AnyRoom, LeaveRoom(c, r) PROVE FALSE
  <2> DEFINE cli == ServFindClient(name[c], None)
  <2>1. out' = LeaveReply(cli, r, TRUE) \/ out' = LeaveReply(cli, r, FALSE)
    BY <1>6 DEF LeaveRoom, Transmit
  <2> QED BY <2>1
<1>7. ASSUME NEW c \in Conn, NEW r \in AnyRoom,
             MessageIgnored(c, r) \/ ListRoomUsers(c, r)
      PROVE  FALSE
  BY <1>7 DEF MessageIgnored, ListRoomUsers, Transmit
<1>8. ASSUME NEW c \in Conn, Exit(c) \/ PeerCloses(c) PROVE FALSE
  BY <1>8 DEF Exit, PeerCloses, Transmit
<1>9. ASSUME NEW c \in Conn, DisconnectCrashes(c) \/ DisconnectSurvives(c)
      PROVE  FALSE
  BY <1>9 DEF DisconnectCrashes, DisconnectSurvives
<1>10. CASE HeapCrashes \/ SelectFails
  BY <1>10 DEF HeapCrashes, SelectFails
<1> QED
  BY <1>1, <1>2, <1>3, <1>4, <1>5, <1>6, <1>7, <1>8, <1>9, <1>10 DEF Next, ServeClient

LEMMA OnlyJoinAnswers ==
  ASSUME Next, out'.type = "JOIN"
  PROVE  \E c \in Conn :
           \/ \E r \in Room : JoinRoom(c, r)
           \/ \E r \in AnyRoom : JoinRefused(c, r)
           \/ \E r \in LongRoom : JoinLongRoom(c, r)
<1> USE NotJoins
<1>1. ASSUME NEW c \in Conn, TakeNewConnection(c) PROVE FALSE
  BY <1>1 DEF TakeNewConnection
<1>2. ASSUME NEW c \in Conn, NEW n \in Name, AcceptNewCli(c, n) PROVE FALSE
  <2>1. out' = LogonReply(c, TRUE) \/ out' = LogonReply(c, FALSE)
    BY <1>2 DEF AcceptNewCli, Transmit
  <2> QED BY <2>1
<1>3. ASSUME NEW c \in Conn, NEW r \in AnyRoom, LeaveRoom(c, r) PROVE FALSE
  <2> DEFINE cli == ServFindClient(name[c], None)
  <2>1. out' = LeaveReply(cli, r, TRUE) \/ out' = LeaveReply(cli, r, FALSE)
    BY <1>3 DEF LeaveRoom, Transmit
  <2> QED BY <2>1
<1>4. ASSUME NEW c \in Conn, NEW r \in AnyRoom,
             MessageIgnored(c, r) \/ ListRoomUsers(c, r)
      PROVE  FALSE
  BY <1>4 DEF MessageIgnored, ListRoomUsers, Transmit
<1>5. ASSUME NEW c \in Conn, NEW r \in Room, NEW t \in Text, Message(c, r, t)
      PROVE  FALSE
  BY <1>5 DEF Message, Broadcast, Sent
<1>6. ASSUME NEW c \in Conn, Exit(c) \/ PeerCloses(c) PROVE FALSE
  BY <1>6 DEF Exit, PeerCloses, Transmit
<1>7. ASSUME NEW c \in Conn, DisconnectCrashes(c) \/ DisconnectSurvives(c)
      PROVE  FALSE
  BY <1>7 DEF DisconnectCrashes, DisconnectSurvives
<1>8. CASE HeapCrashes \/ SelectFails
  BY <1>8 DEF HeapCrashes, SelectFails
<1> QED
  BY <1>1, <1>2, <1>3, <1>4, <1>5, <1>6, <1>7, <1>8 DEF Next, ServeClient

(* Among them, an answer that is positive and about a room within the      *)
(* length limit comes from a join that succeeded.                          *)
LEMMA OnlyJoinSucceeds ==
  ASSUME IInv, Next, out'.type = "JOIN", out'.res = TRUE, out'.room \in Room
  PROVE  \E c \in Conn, r \in Room :
           /\ JoinRoom(c, r)
           /\ AddSucceeds(room[r], name[c])
           /\ out' = JoinReply(c, r, TRUE, room'[r].num_users)
<1>0. \A c \in Conn : Request(c) => ServFindClient(name[c], None) = c
  BY FindsByName DEF Request
<1>1. \A c, r, n : JoinReply(c, r, FALSE, n).res = FALSE
  BY DEF JoinReply, Quiet
<1>2. \A c, r, n : JoinReply(c, r, TRUE, n).room = r
  BY DEF JoinReply, Quiet
<1>3. ASSUME NEW c \in Conn, NEW r \in AnyRoom, JoinRefused(c, r) PROVE FALSE
  <2>1. out' = JoinReply(ServFindClient(name[c], None), r, FALSE, 0)
    BY <1>3 DEF JoinRefused, Transmit
  <2> QED BY <1>1, <2>1
<1>4. ASSUME NEW c \in Conn, NEW r \in LongRoom, JoinLongRoom(c, r) PROVE FALSE
  <2>1. out' = JoinReply(ServFindClient(name[c], None), r, TRUE, EINVAL)
    BY <1>4 DEF JoinLongRoom, Transmit
  <2>2. out'.room = r
    BY <1>2, <2>1
  <2> QED BY <2>2, DistinctAssumption
<1>5. ASSUME NEW c \in Conn, NEW r \in Room, JoinRoom(c, r)
      PROVE  /\ AddSucceeds(room[r], name[c])
             /\ out' = JoinReply(c, r, TRUE, room'[r].num_users)
  <2>1. ServFindClient(name[c], None) = c
    BY <1>0, <1>5 DEF JoinRoom
  <2>2. \/ /\ AddSucceeds(room[r], name[c])
           /\ out' = JoinReply(c, r, TRUE, room'[r].num_users)
        \/ out' = JoinReply(c, r, FALSE, 0)
    BY <1>5, <2>1 DEF JoinRoom, Transmit
  <2> QED BY <1>1, <2>2
<1> QED BY <1>3, <1>4, <1>5, OnlyJoinAnswers

(* A message goes to users of its room only, its sender one of them, and   *)
(* to all of them when the server outlives the loop of irc_cli_msg_cmd: no *)
(* slot is left of somebody who is gone, at which that loop would give up. *)
THEOREM MessageGoesToMembers == Spec => []MessageReachesMembers
<1>1. Init => MessageReachesMembers
  BY NotMessages DEF Init, MessageReachesMembers
<1>2. IInv /\ MessageReachesMembers /\ [Next]_vars => MessageReachesMembers'
  <2> SUFFICES ASSUME IInv, MessageReachesMembers, [Next]_vars
               PROVE  MessageReachesMembers'
    OBVIOUS
  <2>1. CASE Next /\ out'.type = "MSG"
    <3>1. PICK c \in Conn, r \in Room, t \in Text : Message(c, r, t)
      BY <2>1, OnlyMessageSpeaks
    <3>2. /\ name[c] \in Members(r)
          /\ Members(r)' = Members(r)
          /\ out'.room = r /\ out'.names = {name[c]}
          /\ {name'[d] : d \in out'.to} \subseteq Members(r)
          /\ up' => {name'[d] : d \in out'.to} = Members(r)
      BY <3>1, MessageFacts
    <3> QED BY <3>2 DEF MessageReachesMembers, Members
  <2>2. CASE UNCHANGED vars
    <3>1. UNCHANGED <<up, name, room, out>>
      BY <2>2 DEF vars
    <3> QED BY <3>1 DEF MessageReachesMembers, Members
  <2>3. CASE out'.type # "MSG"
    BY <2>3 DEF MessageReachesMembers
  <2> QED BY <2>1, <2>2, <2>3
<1> QED BY <1>1, <1>2, Invariance, PTL DEF Spec

(* A positive reply to RC_JOIN tells the truth: the client is in the room, *)
(* and the number sent is that of the room's users.                        *)
THEOREM JoinRepliesTrue == Spec => []JoinReplyTrue
<1>1. Init => JoinReplyTrue
  BY DEF Init, JoinReplyTrue, Quiet
<1>2. IInv /\ IInv' /\ JoinReplyTrue /\ [Next]_vars => JoinReplyTrue'
  <2> SUFFICES ASSUME IInv, IInv', JoinReplyTrue, [Next]_vars
               PROVE  JoinReplyTrue'
    OBVIOUS
  <2>0. out'.res \in BOOLEAN
    BY DEF IInv, TypeOK, MessageType
  <2> SUFFICES ASSUME out'.type = "JOIN", out'.res = TRUE, out'.room \in Room
               PROVE  /\ {name'[d] : d \in out'.to} \subseteq
                           Occupants(room'[out'.room])
                      /\ out'.num = Cardinality(Occupants(room'[out'.room]))
    BY <2>0 DEF JoinReplyTrue, Members
  <2>1. CASE Next
    <3>1. PICK c \in Conn, r \in Room :
            JoinRoom(c, r) /\ out' = JoinReply(c, r, TRUE, room'[r].num_users)
                           /\ AddSucceeds(room[r], name[c])
      BY <2>1, OnlyJoinSucceeds
    <3>2. name[c] \in Name /\ name[c] # None /\ c \in Clients
      BY <3>1 DEF IInv, TypeOK, JoinRoom, Request, Ready
    <3>3. /\ room' = [room EXCEPT ![r] = AddedUser(@, name[c])]
          /\ UNCHANGED name
      BY <3>1, <3>2, FindsByName DEF JoinRoom
    <3>4. /\ room[r] \in RoomInfo(Name, Text)
          /\ CountsItsUsers(room[r]) /\ OneSlotEach(room[r])
          /\ room'[r] = AddedUser(room[r], name[c])
      BY <3>3 DEF IInv, TypeOK, RoomsCount
    <3>5. name[c] \in Occupants(room'[r])
      BY <3>1, <3>2, <3>4, AddedUserCorrect, DistinctAssumption
    <3>6. Cardinality(Occupants(room'[r])) = room'[r].num_users
      <4>1. /\ room'[r] \in RoomInfo(Name, Text)
            /\ CountsItsUsers(room'[r]) /\ OneSlotEach(room'[r])
        BY DEF IInv, TypeOK, RoomsCount
      <4> QED BY <4>1, OccupantsCounted
    <3>7. out'.room = r /\ out'.to = {c} /\ out'.num = room'[r].num_users
      BY <3>1 DEF JoinReply, Quiet
    <3> QED BY <3>3, <3>5, <3>6, <3>7
  <2>2. CASE UNCHANGED vars
    <3>1. UNCHANGED <<name, room, out>>
      BY <2>2 DEF vars
    <3> QED BY <3>1 DEF JoinReplyTrue, Members
  <2> QED BY <2>1, <2>2
<1> QED BY <1>1, <1>2, Invariance, PTL DEF Spec

(* A join that is refused changes nobody's membership: _room_add_user      *)
(* takes a user out of the room before it looks for a slot, but there is   *)
(* always one for a user it took out.                                      *)
THEOREM RefusalsHarmless == Spec => RefusalChangesNothing
<1>1. ASSUME IInv, IInv', Next, out'.type = "JOIN", ~out'.res
      PROVE  \A r \in Room : Members(r)' = Members(r)
  <2>1. ASSUME NEW c \in Conn, NEW r \in Room, JoinRoom(c, r)
        PROVE  room' = room
    <3>1. name[c] \in Name /\ name[c] # None /\ c \in Clients
      BY <1>1, <2>1 DEF IInv, TypeOK, JoinRoom, Request, Ready
    <3>2. ServFindClient(name[c], None) = c
      BY <1>1, <3>1, FindsByName
    <3>3. /\ room' = [room EXCEPT ![r] = AddedUser(@, name[c])]
          /\ \/ out' = JoinReply(c, r, TRUE, room'[r].num_users)
             \/ ~AddSucceeds(room[r], name[c])
      BY <2>1, <3>2 DEF JoinRoom, Transmit
    <3>4. ~AddSucceeds(room[r], name[c])
      <4>1. JoinReply(c, r, TRUE, room'[r].num_users).res = TRUE
        BY DEF JoinReply, Quiet
      <4> QED BY <1>1, <3>3, <4>1
    <3>5. /\ room[r] \in RoomInfo(Name, Text)
          /\ CountsItsUsers(room[r]) /\ OneSlotEach(room[r])
      BY <1>1 DEF IInv, TypeOK, RoomsCount
    <3>6. AddedUser(room[r], name[c]) = room[r]
      BY <3>1, <3>4, <3>5, AddedUserCorrect, DistinctAssumption
    <3> QED BY <1>1, <3>3, <3>6 DEF IInv, TypeOK
  <2>2. ASSUME NEW c \in Conn, NEW r \in AnyRoom, JoinRefused(c, r)
        PROVE  room' = room
    BY <2>2 DEF JoinRefused
  <2>3. ASSUME NEW c \in Conn, NEW r \in LongRoom, JoinLongRoom(c, r)
        PROVE  room' = room
    BY <2>3 DEF JoinLongRoom
  <2>4. room' = room
    BY <1>1, <2>1, <2>2, <2>3, OnlyJoinAnswers
  <2> QED BY <2>4 DEF Members
<1>2. IInv /\ IInv' /\ [Next]_vars =>
        [out'.type = "JOIN" /\ ~out'.res =>
           \A r \in Room : Members(r)' = Members(r)]_vars
  BY <1>1
<1> QED BY <1>2, Invariance, PTL DEF Spec, RefusalChangesNothing

(* A request touches the names and the memberships of one user only, as    *)
(* does every step of the service.                                         *)
THEOREM OneUserOnly ==
  ASSUME Name # {}
  PROVE  Spec => OneUserAtATime
<1> DEFINE One == \E n \in Name : \A m \in Name \ {n} :
                    /\ \A r \in Room : m \in Members(r) <=> m \in Members(r)'
                    /\ m \in Users <=> m \in Users'
<1>1. IInv /\ IInv' /\ [Next]_vars => [One]_vars
  <2> SUFFICES ASSUME IInv, IInv', Next PROVE One
    OBVIOUS
  <2>1. ASSUME NEW n \in Name,
               \A m \in Name \ {n} : m \in Users <=> m \in Users',
               \A m \in Name \ {n}, r \in Room :
                 <<m, r>> \in Pairs <=> <<m, r>> \in Pairs'
        PROVE  One
    BY <2>1, PairsAre
  <2>2. Serves
    BY NextMaps
  <2>3. CASE \E n \in Name : Service!Register(n) \/ Service!Quit(n)
    <3>1. PICK n \in Name : Service!Register(n) \/ Service!Quit(n)
      BY <2>3
    <3>2. \/ Users' = Users \cup {n} /\ Pairs' = Pairs
          \/ Users' = Users \ {n} /\ Pairs' = {m \in Pairs : m[1] # n}
      BY <3>1 DEF Service!Register, Service!Quit, Users, Pairs
    <3> QED BY <2>1, <3>2
  <2>4. CASE \E n \in Name, r \in Room :
               Service!Join(n, r) \/ Service!Leave(n, r) \/ Service!Say(n, r)
    <3>1. PICK n \in Name, r \in Room :
               Service!Join(n, r) \/ Service!Leave(n, r) \/ Service!Say(n, r)
      BY <2>4
    <3>2. /\ Users' = Users
          /\ \/ Pairs' = Pairs \cup {<<n, r>>}
             \/ Pairs' = Pairs \ {<<n, r>>}
             \/ Pairs' = Pairs
      BY <3>1 DEF Service!Join, Service!Leave, Service!Say, Users, Pairs
    <3> QED BY <2>1, <3>2
  <2>5. CASE Service!Idle
    <3>1. Users' = Users /\ Pairs' = Pairs
      BY <2>5 DEF Service!Idle, Users, Pairs
    <3>2. PICK n \in Name : TRUE
      OBVIOUS
    <3> QED BY <2>1, <3>1, <3>2
  <2> QED BY <2>2, <2>3, <2>4, <2>5 DEF Serves
<1>2. [One]_vars => [\E n \in Name : \A m \in Name \ {n} :
                       /\ \A r \in Room : m \in Members(r) <=> m \in Members(r)'
                       /\ m \in {name[c] : c \in Named} <=>
                            m \in {name[c] : c \in Named}']_vars
  BY DEF Users
<1> QED BY <1>1, <1>2, Invariance, PTL DEF Spec, OneUserAtATime

-----------------------------------------------------------------------------
(* The history of a room.                                                  *)

(* The ring is filled from its first entry to hist_end, or all of it is.   *)
PartFilled(ri) == \A i \in Entry : ri.history[i] # None <=> i < ri.hist_end
AllFilled(ri)  == \A i \in Entry : ri.history[i] # None
RingFilled(ri) == PartFilled(ri) \/ AllFilled(ri)

(* The index arithmetic of the ring.                                       *)
LEMMA Wraps ==
  ASSUME NEW x \in Nat, x < 2 * HistMax
  PROVE  x % HistMax = IF x < HistMax THEN x ELSE x - HistMax
<1>1. HistMax \in Nat \ {0}
  BY HistMaxAssumption
<1>2. CASE x < HistMax
  BY <1>1, <1>2
<1>3. CASE HistMax <= x
  BY <1>1, <1>3
<1> QED BY <1>1, <1>2, <1>3

(* Before the ring is full the messages stand in their order.              *)
LEMMA KeptInOrder ==
  ASSUME NEW ri \in RoomInfo(Name, Text), PartFilled(ri)
  PROVE  /\ Kept(ri) \in Seq(Text \cup {None})
         /\ Len(Kept(ri)) = ri.hist_end
         /\ \A k \in 1 .. ri.hist_end : Kept(ri)[k] = ri.history[k - 1]
<1> DEFINE e == ri.hist_end
           n == Cardinality({i \in Entry : ri.history[i] # None})
<1>1. /\ HistMax \in Nat /\ HistMax > 0 /\ e \in Nat /\ e < HistMax
      /\ ri.history \in [Entry -> Text \cup {None}]
  BY HistMaxAssumption DEF RoomInfo, Entry
<1>2. n = e
  <2>1. {i \in Entry : ri.history[i] # None} = 0 .. e - 1
    BY <1>1 DEF PartFilled, Entry
  <2>2. Cardinality(0 .. e - 1) = e
    <3>1. 0 \in Int /\ e - 1 \in Int
      BY <1>1
    <3>2. Cardinality(0 .. e - 1) = IF 0 > e - 1 THEN 0 ELSE (e - 1) - 0 + 1
      BY <3>1, FS_Interval
    <3> QED BY <1>1, <3>2
  <2> QED BY <2>1, <2>2
<1>3. Kept(ri) = [k \in 1 .. e |-> ri.history[(e + HistMax - e + k - 1) % HistMax]]
  BY <1>2 DEF Kept
<1> HIDE DEF n, e
<1>4. \A k \in 1 .. e : (e + HistMax - e + k - 1) % HistMax = k - 1
  <2>1. SUFFICES ASSUME NEW k \in 1 .. e
                 PROVE  (e + HistMax - e + k - 1) % HistMax = k - 1
    OBVIOUS
  <2> DEFINE x == e + HistMax - e + k - 1
  <2>2. x \in Nat /\ x = HistMax + (k - 1) /\ x < 2 * HistMax /\ ~(x < HistMax)
    BY <1>1
  <2>3. x % HistMax = x - HistMax
    BY <2>2, Wraps
  <2> QED BY <1>1, <2>2, <2>3
<1>5. \A k \in 1 .. e : k - 1 \in Entry
  BY <1>1 DEF Entry
<1>6. Kept(ri) = [k \in 1 .. e |-> ri.history[k - 1]]
  BY <1>3, <1>4
<1>7. Kept(ri) \in [1 .. e -> Text \cup {None}]
  BY <1>1, <1>5, <1>6
<1>8. Kept(ri) \in Seq(Text \cup {None}) /\ Len(Kept(ri)) = e
  BY <1>1, <1>7
<1>9. \A k \in 1 .. e : Kept(ri)[k] = ri.history[k - 1]
  BY <1>6
<1> QED BY <1>8, <1>9 DEF e

(* When it is full they stand in their order from hist_end on, and go on   *)
(* at the first entry.                                                     *)
LEMMA KeptWrapped ==
  ASSUME NEW ri \in RoomInfo(Name, Text), AllFilled(ri)
  PROVE  /\ Kept(ri) \in Seq(Text \cup {None})
         /\ Len(Kept(ri)) = HistMax
         /\ \A k \in 1 .. HistMax :
              Kept(ri)[k] = ri.history[IF ri.hist_end + k - 1 < HistMax
                                       THEN ri.hist_end + k - 1
                                       ELSE ri.hist_end + k - 1 - HistMax]
<1> DEFINE e == ri.hist_end
           n == Cardinality({i \in Entry : ri.history[i] # None})
           at(k) == IF e + k - 1 < HistMax THEN e + k - 1 ELSE e + k - 1 - HistMax
<1>1. /\ HistMax \in Nat /\ HistMax > 0 /\ e \in Nat /\ e < HistMax
      /\ ri.history \in [Entry -> Text \cup {None}]
  BY HistMaxAssumption DEF RoomInfo, Entry
<1>2. n = HistMax
  <2>1. {i \in Entry : ri.history[i] # None} = 0 .. HistMax - 1
    BY DEF AllFilled, Entry
  <2>2. Cardinality(0 .. HistMax - 1) = HistMax
    BY <1>1, FS_Interval
  <2> QED BY <2>1, <2>2
<1>3. Kept(ri) = [k \in 1 .. n |-> ri.history[(e + HistMax - n + k - 1) % HistMax]]
  BY DEF Kept
<1> HIDE DEF n, e
<1>4. \A k \in 1 .. HistMax : /\ (e + HistMax - HistMax + k - 1) % HistMax = at(k)
                              /\ at(k) \in Entry
  <2>1. SUFFICES ASSUME NEW k \in 1 .. HistMax
                 PROVE  /\ (e + HistMax - HistMax + k - 1) % HistMax = at(k)
                        /\ at(k) \in Entry
    OBVIOUS
  <2> DEFINE x == e + k - 1
  <2>2. x \in Nat /\ x < 2 * HistMax /\ e + HistMax - HistMax + k - 1 = x
    BY <1>1
  <2>3. at(k) = IF x < HistMax THEN x ELSE x - HistMax
    BY <1>1
  <2>4. at(k) \in Entry
    BY <1>1 DEF Entry
  <2> HIDE DEF x, at
  <2> QED BY <2>2, <2>3, <2>4, Wraps
<1> HIDE DEF at
<1>5. \A k \in 1 .. HistMax : Kept(ri)[k] = ri.history[at(k)]
  BY <1>2, <1>3, <1>4
<1>6. Kept(ri) \in [1 .. HistMax -> Text \cup {None}]
  BY <1>1, <1>2, <1>3, <1>4
<1>7. Kept(ri) \in Seq(Text \cup {None}) /\ Len(Kept(ri)) = HistMax
  BY <1>1, <1>6
<1> QED BY <1>5, <1>7 DEF e, at

(* room_add_history appends to the log and drops its oldest message when   *)
(* the ring was full.                                                      *)
LEMMA AddsToLog ==
  ASSUME NEW ri \in RoomInfo(Name, Text), RingFilled(ri), NEW t \in Text
  PROVE  LET all == Append(Kept(ri), t) IN
         /\ RingFilled(AddedHistory(ri, t))
         /\ Kept(AddedHistory(ri, t)) = IF Len(all) > HistMax THEN Tail(all)
                                                            ELSE all
<1> DEFINE r1 == AddedHistory(ri, t)
           e == ri.hist_end
           all == Append(Kept(ri), t)
           S == Text \cup {None}
<1>1. /\ HistMax \in Nat /\ HistMax > 0 /\ e \in Nat /\ e < HistMax
      /\ ri.history \in [Entry -> S] /\ t # None /\ t \in S
      /\ \A i : i \in Entry <=> i \in Int /\ 0 <= i /\ i < HistMax
  BY HistMaxAssumption, DistinctAssumption DEF RoomInfo, Entry
<1>2. r1 \in RoomInfo(Name, Text)
  BY AddedHistoryKeepsUsers
<1>3. /\ \A i \in Entry : r1.history[i] = IF i = e THEN t ELSE ri.history[i]
      /\ r1.hist_end = (e + 1) % HistMax
  BY <1>1 DEF AddedHistory, RoomInfo
<1>4. r1.hist_end = IF e + 1 < HistMax THEN e + 1 ELSE 0
  <2>1. e + 1 \in Nat /\ e + 1 < 2 * HistMax
    BY <1>1
  <2>2. (e + 1) % HistMax = IF e + 1 < HistMax THEN e + 1 ELSE e + 1 - HistMax
    BY <1>1, <2>1, Wraps
  <2>3. e + 1 < HistMax \/ e + 1 - HistMax = 0
    BY <1>1
  <2> QED BY <1>3, <2>2, <2>3
<1> HIDE DEF r1, e
<1>5. CASE PartFilled(ri)
  <2>1. /\ Kept(ri) \in Seq(S) /\ Len(Kept(ri)) = e
        /\ \A k \in 1 .. e : Kept(ri)[k] = ri.history[k - 1]
    BY <1>5, KeptInOrder DEF e
  <2>2. \A i \in Entry : ri.history[i] # None <=> i < e
    BY <1>5 DEF PartFilled, e
  <2>3. /\ all \in Seq(S) /\ Len(all) = e + 1
        /\ \A k \in 1 .. e : all[k] = ri.history[k - 1]
        /\ all[e + 1] = t
    BY <1>1, <2>1, AppendProperties
  <2> HIDE DEF all
  <2>4. \A k \in 1 .. e + 1 : all[k] = r1.history[k - 1]
    <3>1. SUFFICES ASSUME NEW k \in 1 .. e + 1 PROVE all[k] = r1.history[k - 1]
      OBVIOUS
    <3>2. k - 1 \in Entry /\ (k = e + 1 \/ k \in 1 .. e)
      BY <1>1
    <3>3. k - 1 = e <=> k = e + 1
      BY <1>1
    <3> QED BY <1>1, <1>3, <2>3, <3>2, <3>3
  <2>5. /\ RingFilled(r1)
        /\ Kept(r1) \in Seq(S) /\ Len(Kept(r1)) = e + 1
        /\ \A k \in 1 .. e + 1 : Kept(r1)[k] = r1.history[k - 1]
    <3>1. CASE e + 1 < HistMax
      <4>1. r1.hist_end = e + 1
        BY <1>4, <3>1
      <4>2. PartFilled(r1)
        BY <1>1, <1>3, <2>2, <4>1 DEF PartFilled
      <4> QED BY <1>2, <4>1, <4>2, KeptInOrder DEF RingFilled
    <3>2. CASE e + 1 = HistMax
      <4>1. r1.hist_end = 0
        BY <1>1, <1>4, <3>2
      <4>2. AllFilled(r1)
        BY <1>1, <1>3, <2>2, <3>2 DEF AllFilled
      <4>3. /\ Kept(r1) \in Seq(S) /\ Len(Kept(r1)) = HistMax
            /\ \A k \in 1 .. HistMax :
                 Kept(r1)[k] = r1.history[IF r1.hist_end + k - 1 < HistMax
                                          THEN r1.hist_end + k - 1
                                          ELSE r1.hist_end + k - 1 - HistMax]
        BY <1>2, <4>2, KeptWrapped
      <4>4. \A k \in 1 .. HistMax : 0 + k - 1 = k - 1 /\ k - 1 < HistMax
        BY <1>1
      <4>5. \A k \in 1 .. HistMax : Kept(r1)[k] = r1.history[k - 1]
        BY <4>1, <4>3, <4>4
      <4> QED BY <3>2, <4>2, <4>3, <4>5 DEF RingFilled
    <3> QED BY <1>1, <3>1, <3>2
  <2>6. Kept(r1) = all
    BY <2>3, <2>4, <2>5, SeqEqual
  <2>7. ~(Len(all) > HistMax)
    BY <1>1, <2>3
  <2> QED BY <2>5, <2>6, <2>7 DEF r1, all
<1>6. CASE AllFilled(ri)
  <2> DEFINE at(k) == IF e + k - 1 < HistMax THEN e + k - 1
                      ELSE e + k - 1 - HistMax
  <2>1. /\ Kept(ri) \in Seq(S) /\ Len(Kept(ri)) = HistMax
        /\ \A k \in 1 .. HistMax : Kept(ri)[k] = ri.history[at(k)]
    BY <1>6, KeptWrapped DEF e
  <2>2. /\ all \in Seq(S) /\ Len(all) = HistMax + 1 /\ all # <<>>
        /\ \A k \in 1 .. HistMax : all[k] = Kept(ri)[k]
        /\ all[HistMax + 1] = t
    BY <1>1, <2>1, AppendProperties
  <2> HIDE DEF all
  <2>3. /\ Tail(all) \in Seq(S) /\ Len(Tail(all)) = HistMax
        /\ \A k \in 1 .. HistMax : Tail(all)[k] = all[k + 1]
    BY <1>1, <2>2, HeadTailProperties
  <2>4. AllFilled(r1)
    BY <1>1, <1>3, <1>6 DEF AllFilled
  <2>5. /\ Kept(r1) \in Seq(S) /\ Len(Kept(r1)) = HistMax
        /\ \A k \in 1 .. HistMax :
             Kept(r1)[k] = r1.history[IF r1.hist_end + k - 1 < HistMax
                                      THEN r1.hist_end + k - 1
                                      ELSE r1.hist_end + k - 1 - HistMax]
    BY <1>2, <2>4, KeptWrapped
  <2>6. \A k \in 1 .. HistMax : Kept(r1)[k] = Tail(all)[k]
    <3>1. SUFFICES ASSUME NEW k \in 1 .. HistMax
                   PROVE  Kept(r1)[k] = Tail(all)[k]
      OBVIOUS
    <3> DEFINE d == r1.hist_end
               i == IF d + k - 1 < HistMax THEN d + k - 1 ELSE d + k - 1 - HistMax
    <3>2. Kept(r1)[k] = r1.history[i]
      BY <2>5
    <3>3. i \in Entry /\ (k = HistMax => i = e)
          /\ (k < HistMax => i = at(k + 1) /\ i # e)
      BY <1>1, <1>4
    <3> HIDE DEF i, at
    <3>4. CASE k = HistMax
      BY <1>3, <2>2, <2>3, <3>2, <3>3, <3>4
    <3>5. CASE k < HistMax
      <4>1. k + 1 \in 1 .. HistMax
        BY <1>1, <3>5
      <4>2. Tail(all)[k] = ri.history[at(k + 1)]
        BY <2>1, <2>2, <2>3, <4>1
      <4>3. r1.history[i] = ri.history[i]
        BY <1>3, <3>3, <3>5
      <4> QED BY <3>2, <3>3, <3>5, <4>2, <4>3
    <3>6. k = HistMax \/ k < HistMax
      BY <1>1
    <3> QED BY <3>4, <3>5, <3>6
  <2>7. Kept(r1) = Tail(all)
    BY <2>3, <2>5, <2>6, SeqEqual
  <2>8. Len(all) > HistMax
    BY <1>1, <2>2
  <2> QED BY <2>4, <2>7, <2>8 DEF r1, all, RingFilled
<1> QED BY <1>5, <1>6 DEF RingFilled

(* Joining, leaving and freeing do not touch the ring.                     *)
LEMMA RingsUntouched ==
  ASSUME IInv, Next, out'.type # "MSG", NEW q \in Room
  PROVE  /\ room'[q].history = room[q].history
         /\ room'[q].hist_end = room[q].hist_end
<1>1. \A n : \A ri \in RoomInfo(Name, Text) :
        /\ RemovedUser(ri, n).history = ri.history
        /\ RemovedUser(ri, n).hist_end = ri.hist_end
  BY DEF RemovedUser, RoomInfo
<1>2. \A ri \in RoomInfo(Name, Text), n \in Name :
        /\ AddedUser(ri, n).history = ri.history
        /\ AddedUser(ri, n).hist_end = ri.hist_end
  <2> SUFFICES ASSUME NEW ri \in RoomInfo(Name, Text), NEW n \in Name
               PROVE  /\ AddedUser(ri, n).history = ri.history
                      /\ AddedUser(ri, n).hist_end = ri.hist_end
    OBVIOUS
  <2> DEFINE r1 == RemovedUser(ri, n)
  <2>1. r1.history = ri.history /\ r1.hist_end = ri.hist_end
    BY <1>1
  <2>2. \/ AddedUser(ri, n) = ri
        \/ AddedUser(ri, n) = r1
        \/ AddedUser(ri, n) = [r1 EXCEPT !.room_users[Least(FreeSlots(r1))] = n,
                                         !.num_users = @ + 1]
    BY DEF AddedUser
  <2> HIDE DEF r1
  <2>3. LET r2 == [r1 EXCEPT !.room_users[Least(FreeSlots(r1))] = n,
                             !.num_users = @ + 1] IN
        r2.history = r1.history /\ r2.hist_end = r1.hist_end
    OBVIOUS
  <2> QED BY <2>1, <2>2, <2>3
<1>3. room \in [Room -> RoomInfo(Name, Text)] /\ room[q] \in RoomInfo(Name, Text)
  BY DEF IInv, TypeOK
<1>4. ASSUME NEW c \in Conn, NEW r \in Room, JoinRoom(c, r)
      PROVE  /\ room'[q].history = room[q].history
             /\ room'[q].hist_end = room[q].hist_end
  <2>1. name[c] \in Name /\ name[c] # None
    BY <1>4 DEF IInv, TypeOK, JoinRoom, Request
  <2>2. room' = [room EXCEPT ![r] = AddedUser(@, name[c])]
    BY <1>4, <2>1, FindsByName DEF JoinRoom
  <2>3. room'[q] = room[q] \/ room'[q] = AddedUser(room[q], name[c])
    BY <1>3, <2>2
  <2> QED BY <1>2, <1>3, <2>1, <2>3
<1>5. ASSUME NEW c \in Conn, NEW r \in AnyRoom, LeaveRoom(c, r)
      PROVE  /\ room'[q].history = room[q].history
             /\ room'[q].hist_end = room[q].hist_end
  <2> DEFINE cli == ServFindClient(name[c], None)
  <2>1. room' = room \/ room' = [room EXCEPT ![r] = RemovedUser(@, name[cli])]
    BY <1>5 DEF LeaveRoom
  <2> HIDE DEF cli
  <2>2. room'[q] = room[q] \/ room'[q] = RemovedUser(room[q], name[cli])
    BY <1>3, <2>1
  <2> QED BY <1>1, <1>3, <2>2
<1>6. ASSUME NEW c \in Conn, ForgetClient(c)
      PROVE  /\ room'[q].history = room[q].history
             /\ room'[q].hist_end = room[q].hist_end
  <2>1. room'[q] = room[q] \/ room'[q] = RemovedUser(room[q], name[c])
    BY <1>6 DEF ForgetClient, ServFreeClient
  <2> QED BY <1>1, <1>3, <2>1
<1>7. ASSUME NEW c \in Conn, Exit(c) PROVE \E d \in Conn : ForgetClient(d)
  <2>1. name[c] # None
    BY <1>7 DEF Exit, Request
  <2> QED BY <1>7, <2>1, FindsByName DEF Exit, IrcShutdownClient
<1>8. ASSUME NEW c \in Conn, NEW r \in Room, NEW t \in Text, Message(c, r, t)
      PROVE  FALSE
  BY <1>8 DEF Message, Broadcast, Sent, RoomMessage, Quiet
<1>9. ASSUME NEW c \in Conn, DisconnectCrashes(c) \/ DisconnectSurvives(c)
      PROVE  ForgetClient(c)
  BY <1>9 DEF DisconnectCrashes, DisconnectSurvives, IrcShutdownClient
<1>10. ASSUME NEW c \in Conn,
              \/ TakeNewConnection(c)
              \/ \E n \in Name : AcceptNewCli(c, n)
              \/ \E r \in AnyRoom : JoinRefused(c, r)
              \/ \E r \in LongRoom : JoinLongRoom(c, r)
              \/ \E r \in AnyRoom : MessageIgnored(c, r)
              \/ \E r \in AnyRoom : ListRoomUsers(c, r)
              \/ PeerCloses(c)
       PROVE  UNCHANGED room
  BY <1>10 DEF TakeNewConnection, AcceptNewCli, JoinRefused, JoinLongRoom,
               MessageIgnored, ListRoomUsers, PeerCloses
<1>11. CASE HeapCrashes \/ SelectFails
  BY <1>11 DEF HeapCrashes, SelectFails
<1> QED
  BY <1>4, <1>5, <1>6, <1>7, <1>8, <1>9, <1>10, <1>11 DEF Next, ServeClient

RingsFilled == \A r \in Room : RingFilled(room[r])

(* The rings stay filled from one end.                                     *)
LEMMA RingsKept ==
  ASSUME IInv, RingsFilled, [Next]_vars
  PROVE  RingsFilled'
<1>1. room \in [Room -> RoomInfo(Name, Text)]
  BY DEF IInv, TypeOK
<1>2. CASE UNCHANGED vars
  BY <1>2 DEF vars, RingsFilled
<1>3. CASE Next /\ out'.type # "MSG"
  <2>1. \A q \in Room : /\ room'[q].history = room[q].history
                        /\ room'[q].hist_end = room[q].hist_end
    BY <1>3, RingsUntouched
  <2> QED BY <2>1 DEF RingsFilled, RingFilled, PartFilled, AllFilled
<1>4. CASE Next /\ out'.type = "MSG"
  <2>1. PICK c \in Conn, r \in Room, t \in Text : Message(c, r, t)
    BY <1>4, OnlyMessageSpeaks
  <2>2. /\ room'[r] = AddedHistory(room[r], t)
        /\ \A q \in Room \ {r} : room'[q] = room[q]
    BY <1>1, <2>1 DEF Message
  <2>3. RingFilled(AddedHistory(room[r], t))
    BY <1>1, AddsToLog DEF RingsFilled
  <2> QED BY <2>2, <2>3 DEF RingsFilled
<1> QED BY <1>2, <1>3, <1>4

(* One step of the log.                                                    *)
LEMMA LogStep ==
  ASSUME IInv, RingsFilled, Next, NEW r \in Room
  PROVE  IF out'.type = "MSG" /\ out'.room = r
         THEN \E t \in Text :
                LET all == Append(Kept(room[r]), t) IN
                Kept(room'[r]) = IF Len(all) > HistMax THEN Tail(all) ELSE all
         ELSE Kept(room'[r]) = Kept(room[r])
<1>1. room \in [Room -> RoomInfo(Name, Text)]
  BY DEF IInv, TypeOK
<1>2. CASE out'.type # "MSG"
  <2>1. /\ room'[r].history = room[r].history
        /\ room'[r].hist_end = room[r].hist_end
    BY <1>2, RingsUntouched
  <2> QED BY <1>2, <2>1 DEF Kept
<1>3. CASE out'.type = "MSG"
  <2>1. PICK c \in Conn, q \in Room, t \in Text : Message(c, q, t)
    BY <1>3, OnlyMessageSpeaks
  <2>2. /\ room'[q] = AddedHistory(room[q], t)
        /\ \A p \in Room \ {q} : room'[p] = room[p]
        /\ out'.room = q
    BY <1>1, <2>1 DEF Message, Broadcast, Sent, RoomMessage, Quiet
  <2>3. CASE q = r
    <3>1. LET all == Append(Kept(room[r]), t) IN
          Kept(room'[r]) = IF Len(all) > HistMax THEN Tail(all) ELSE all
      BY <1>1, <2>2, <2>3, AddsToLog DEF RingsFilled
    <3> QED BY <1>3, <2>2, <2>3, <3>1
  <2>4. CASE q # r
    BY <2>2, <2>4
  <2> QED BY <2>3, <2>4
<1> QED BY <1>2, <1>3

(* The history of every room is the log of the messages sent to it, of     *)
(* which the ring keeps the last HistMax in their order, for any size of   *)
(* the ring; joins, leaves and disconnections lose none.                   *)
THEOREM HistoryIsALog == Spec => KeepsTheLastMessages
<1>1. Init => RingsFilled
  <2> SUFFICES ASSUME Init, NEW r \in Room PROVE PartFilled(room[r])
    BY DEF RingsFilled, RingFilled
  <2>1. room[r] = NewRoom
    BY DEF Init
  <2> QED BY <2>1, HistMaxAssumption DEF PartFilled, NewRoom, Entry
<1>2. IInv /\ RingsFilled /\ [Next]_vars => RingsFilled'
  BY RingsKept
<1>3. IInv /\ RingsFilled /\ [Next]_vars =>
        [\A r \in Room :
           IF out'.type = "MSG" /\ out'.room = r
           THEN \E t \in Text :
                  LET all == Append(Kept(room[r]), t) IN
                  Kept(room'[r]) = IF Len(all) > HistMax THEN Tail(all) ELSE all
           ELSE Kept(room'[r]) = Kept(room[r])]_vars
  BY LogStep
<1> QED BY <1>1, <1>2, <1>3, Invariance, PTL DEF Spec, KeepsTheLastMessages
=============================================================================
