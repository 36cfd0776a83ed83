-------------------------- MODULE IrcServerProofs --------------------------
(***************************************************************************)
(* Proofs about IrcServer for any number of connections, names, rooms and  *)
(* slots.  The module has three parts.                                     *)
(*                                                                         *)
(* 1. What the operations of RoomOps do to a single room: they keep the    *)
(*    record's type, the counter in step with the slots and at most one    *)
(*    slot for every user, and they change the occupants the way their     *)
(*    callers rely on.                                                     *)
(*                                                                         *)
(* 2. The state's types, the uniqueness of names, the counts of the rooms, *)
(*    and that nobody stays in a room after disconnecting.  The inductive  *)
(*    invariant IInv adds to them what the handlers rely on without saying *)
(*    so: a connection is in the client list at most once, one that is not *)
(*    in it has no name, one without a name has no rooms, a room that is   *)
(*    not in the tree has no users, and both counters are the lengths of   *)
(*    their lists, but for a descriptor list that was lost.                *)
(*                                                                         *)
(* 3. The two lists of connections and what select() is given: as long as  *)
(*    every client leaves with RC_EXIT, full_fd_list is the server socket, *)
(*    standard input and the client list, in that order; and whatever is   *)
(*    shut down twice, it names open connections only, each of them once.  *)
(***************************************************************************)
EXTENDS IrcServer, FiniteSetTheorems, SeqLemmas, TLAPS

-----------------------------------------------------------------------------
(* 1. Rooms.                                                               *)

(* The least element of a set of natural numbers is well defined, so that  *)
(* every loop that stops at the first match stops at a match.              *)
LEMMA LeastIsLeast ==
  ASSUME NEW S \in SUBSET Nat, S # {}
  PROVE  Least(S) \in S /\ \A j \in S : Least(S) <= j
<1>1. \E x \in S : \A y \in S : ~ (<<y, x>> \in OpToRel(<, Nat))
  BY NatLessThanWellFounded, WFMin
<1>2. PICK x \in S : \A y \in S : ~ (<<y, x>> \in OpToRel(<, Nat))
  BY <1>1
<1>3. \A y \in S : ~ (y < x)
  <2>1. SUFFICES ASSUME NEW y \in S, y < x PROVE FALSE
    OBVIOUS
  <2>2. y \in Nat /\ x \in Nat
    OBVIOUS
  <2>3. <<y, x>> \in OpToRel(<, Nat)
    BY <2>1, <2>2 DEF OpToRel
  <2> QED BY <1>2, <2>3
<1>4. \A y \in S : x <= y
  BY <1>3
<1> QED BY <1>4 DEF Least

(* The slots of a room form a finite set of UsrMax natural numbers.        *)
LEMMA SlotFinite ==
  /\ IsFiniteSet(Slot)
  /\ Cardinality(Slot) = UsrMax
  /\ Slot \subseteq Nat
  /\ 0 \in Slot
<1>1. UsrMax \in Nat /\ UsrMax > 0
  BY UsrMaxAssumption
<1>2. IsFiniteSet(Slot) /\ Cardinality(Slot) = UsrMax
  BY <1>1, FS_Interval DEF Slot
<1> QED BY <1>1, <1>2 DEF Slot

(* A room created by room_create has the type of a room, counts no users   *)
(* and has none.                                                           *)
LEMMA NewRoomIsEmpty ==
  /\ NewRoom \in RoomInfo(Name, Text)
  /\ CountsItsUsers(NewRoom) /\ OneSlotEach(NewRoom)
  /\ Occupants(NewRoom) = {}
<1>1. UsrMax \in Nat /\ HistMax \in Nat /\ HistMax > 0
  BY UsrMaxAssumption, HistMaxAssumption
<1>2. NewRoom \in RoomInfo(Name, Text)
  BY <1>1 DEF NewRoom, RoomInfo, Entry
<1>3. Occupied(NewRoom) = {}
  BY DEF Occupied, NewRoom
<1>4. NewRoom.num_users = 0
  BY DEF NewRoom
<1> QED
  BY <1>2, <1>3, <1>4, FS_EmptySet DEF CountsItsUsers, OneSlotEach, Occupants

-----------------------------------------------------------------------------
(* _room_remove_user, whether or not the name is in the room: afterwards   *)
(* it is not, and nobody else has gone.                                    *)
LEMMA RemovedUserCorrect ==
  ASSUME NEW ri \in RoomInfo(Name, Text), NEW n \in Name,
         None \notin Name, CountsItsUsers(ri), OneSlotEach(ri)
  PROVE  LET r1 == RemovedUser(ri, n) IN
         /\ r1 \in RoomInfo(Name, Text)
         /\ CountsItsUsers(r1) /\ OneSlotEach(r1)
         /\ Occupants(r1) = Occupants(ri) \ {n}
         /\ SlotsOf(r1, n) = {}
         /\ r1.num_users <= ri.num_users
<1> DEFINE r1 == RemovedUser(ri, n)
<1>0. /\ ri.num_users \in Nat /\ ri.num_users <= UsrMax /\ UsrMax \in Nat
      /\ ri.room_users \in [Slot -> Name \cup {None}]
      /\ IsFiniteSet(Occupied(ri))
  <2>1. ri.num_users \in 0 .. UsrMax /\ UsrMax \in Nat
    BY UsrMaxAssumption DEF RoomInfo
  <2>2. ri.room_users \in [Slot -> Name \cup {None}]
    BY DEF RoomInfo
  <2>3. IsFiniteSet(Occupied(ri))
    BY SlotFinite, FS_Subset DEF Occupied
  <2> QED BY <2>1, <2>2, <2>3
<1>1. CASE SlotsOf(ri, n) = {}
  <2>1. r1 = ri
    BY <1>1 DEF RemovedUser
  <2>2. n \notin Occupants(ri)
    BY <1>1 DEF Occupants, SlotsOf, Occupied
  <2> QED BY <1>0, <1>1, <2>1, <2>2
<1>2. CASE SlotsOf(ri, n) # {}
  <2> DEFINE i0 == Least(SlotsOf(ri, n))
  <2>1. i0 \in Slot /\ ri.room_users[i0] = n
    <3>1. SlotsOf(ri, n) \in SUBSET Nat
      BY SlotFinite DEF SlotsOf
    <3>2. i0 \in SlotsOf(ri, n)
      BY <3>1, <1>2, LeastIsLeast
    <3> QED BY <3>2 DEF SlotsOf
  <2>2. i0 \in Occupied(ri)
    BY <2>1 DEF Occupied
  <2>3. Cardinality(Occupied(ri)) = ri.num_users /\ ri.num_users # 0
    <3>1. Cardinality(Occupied(ri)) = ri.num_users
      BY DEF CountsItsUsers
    <3>2. Occupied(ri) # {}
      BY <2>2
    <3> QED BY <3>1, <3>2, <1>0, FS_EmptySet
  <2>4. r1 = [ri EXCEPT !.room_users[i0] = None, !.num_users = @ - 1]
    BY <1>2, <2>3 DEF RemovedUser
  <2>5. /\ r1.num_users = ri.num_users - 1
        /\ r1.room_users = [ri.room_users EXCEPT ![i0] = None]
    BY <2>4 DEF RoomInfo
  <2>6. r1 \in RoomInfo(Name, Text)
    <3>1. ri.num_users - 1 \in 0 .. UsrMax
      BY <1>0, <2>3
    <3>2. [ri.room_users EXCEPT ![i0] = None] \in [Slot -> Name \cup {None}]
      BY <1>0
    <3> QED BY <3>1, <3>2, <2>4 DEF RoomInfo
  <2>7. Occupied(r1) = Occupied(ri) \ {i0}
    BY <1>0, <2>1, <2>5 DEF Occupied
  <2>8. CountsItsUsers(r1)
    BY <1>0, <2>2, <2>3, <2>5, <2>7, FS_RemoveElement DEF CountsItsUsers
  <2>9. \A j \in Slot : j # i0 => r1.room_users[j] = ri.room_users[j]
    BY <1>0, <2>5
  <2>10. OneSlotEach(r1)
    BY <2>7, <2>9 DEF OneSlotEach, Occupied
  <2>11. \A j \in Slot : ri.room_users[j] = n => j = i0
    BY <2>1, <2>2 DEF OneSlotEach, Occupied
  <2>12. r1.room_users[i0] = None
    BY <1>0, <2>1, <2>5
  <2>13. SlotsOf(r1, n) = {}
    BY <2>9, <2>11, <2>12 DEF SlotsOf
  <2>14. Occupants(r1) = Occupants(ri) \ {n}
    BY <2>1, <2>7, <2>9, <2>11 DEF Occupants, Occupied
  <2> QED BY <1>0, <2>5, <2>6, <2>8, <2>10, <2>13, <2>14
<1> QED BY <1>1, <1>2

(* A user without a slot is not among the occupants, and conversely.       *)
LEMMA OccupantsSlots ==
  ASSUME NEW ri, NEW n, n # None
  PROVE  n \in Occupants(ri) <=> SlotsOf(ri, n) # {}
BY DEF Occupants, Occupied, SlotsOf

(* _room_add_user: on success the user is an occupant and holds one slot;  *)
(* a refusal leaves the room as it was, and in particular never strands a  *)
(* user removed by the first step of the function.                         *)
LEMMA AddedUserCorrect ==
  ASSUME NEW ri \in RoomInfo(Name, Text), NEW n \in Name,
         None \notin Name, CountsItsUsers(ri), OneSlotEach(ri)
  PROVE  LET r2 == AddedUser(ri, n) IN
         /\ r2 \in RoomInfo(Name, Text)
         /\ CountsItsUsers(r2) /\ OneSlotEach(r2)
         /\ AddSucceeds(ri, n) <=> ri.num_users # UsrMax
         /\ AddSucceeds(ri, n) => Occupants(r2) = Occupants(ri) \cup {n}
         /\ ~AddSucceeds(ri, n) => r2 = ri
<1> DEFINE r1 == RemovedUser(ri, n)
           r2 == AddedUser(ri, n)
<1>0. /\ r1 \in RoomInfo(Name, Text)
      /\ CountsItsUsers(r1) /\ OneSlotEach(r1)
      /\ Occupants(r1) = Occupants(ri) \ {n}
      /\ SlotsOf(r1, n) = {}
      /\ r1.num_users <= ri.num_users
  BY RemovedUserCorrect
<1>1. CASE ri.num_users = UsrMax
  <2>1. r2 = ri /\ ~AddSucceeds(ri, n)
    BY <1>1 DEF AddedUser, AddSucceeds
  <2> QED BY <1>1, <2>1
<1>2. CASE ri.num_users # UsrMax
  <2>1. /\ r1.num_users \in Nat /\ UsrMax \in Nat /\ r1.num_users < UsrMax
        /\ r1.room_users \in [Slot -> Name \cup {None}]
        /\ IsFiniteSet(Occupied(r1))
    <3>1. ri.num_users \in 0 .. UsrMax /\ UsrMax \in Nat
      BY UsrMaxAssumption DEF RoomInfo
    <3>2. r1.num_users \in 0 .. UsrMax
      BY <1>0 DEF RoomInfo
    <3>3. r1.room_users \in [Slot -> Name \cup {None}]
      BY <1>0 DEF RoomInfo
    <3>4. IsFiniteSet(Occupied(r1))
      BY SlotFinite, FS_Subset DEF Occupied
    <3> QED BY <3>1, <3>2, <3>3, <3>4, <1>0, <1>2
  <2>2. Cardinality(Occupied(r1)) = r1.num_users
    BY <1>0 DEF CountsItsUsers
  <2>3. FreeSlots(r1) # {}
    <3>1. SUFFICES ASSUME FreeSlots(r1) = {} PROVE FALSE
      OBVIOUS
    <3>2. Occupied(r1) = Slot
      BY <3>1 DEF FreeSlots, Occupied
    <3> QED BY <3>2, <2>1, <2>2, SlotFinite
  <2> DEFINE i0 == Least(FreeSlots(r1))
  <2>4. i0 \in Slot /\ r1.room_users[i0] = None
    <3>1. FreeSlots(r1) \in SUBSET Nat
      BY SlotFinite DEF FreeSlots
    <3>2. i0 \in FreeSlots(r1)
      BY <3>1, <2>3, LeastIsLeast
    <3> QED BY <3>2 DEF FreeSlots
  <2>5. AddSucceeds(ri, n)
    BY <1>2, <2>3 DEF AddSucceeds
  <2>6. r2 = [r1 EXCEPT !.room_users[i0] = n, !.num_users = @ + 1]
    BY <1>2, <2>3 DEF AddedUser
  <2>7. /\ r2.num_users = r1.num_users + 1
        /\ r2.room_users = [r1.room_users EXCEPT ![i0] = n]
    BY <1>0, <2>6 DEF RoomInfo
  <2>8. r2 \in RoomInfo(Name, Text)
    <3>1. r1.num_users + 1 \in 0 .. UsrMax
      BY <2>1
    <3>2. [r1.room_users EXCEPT ![i0] = n] \in [Slot -> Name \cup {None}]
      BY <2>1
    <3> QED BY <3>1, <3>2, <1>0, <2>6 DEF RoomInfo
  <2>9. \A j \in Slot : r2.room_users[j] =
                          IF j = i0 THEN n ELSE r1.room_users[j]
    BY <2>1, <2>7
  <2>10. Occupied(r2) = Occupied(r1) \cup {i0}
    BY <2>4, <2>9 DEF Occupied
  <2>11. i0 \notin Occupied(r1)
    BY <2>4 DEF Occupied
  <2>12. CountsItsUsers(r2)
    BY <2>1, <2>2, <2>7, <2>10, <2>11, FS_AddElement DEF CountsItsUsers
  <2>13. \A j \in Slot : r1.room_users[j] # n
    BY <1>0 DEF SlotsOf
  <2>14. OneSlotEach(r2)
    BY <1>0, <2>9, <2>10, <2>13 DEF OneSlotEach, Occupied
  <2>15. Occupants(r2) = Occupants(r1) \cup {n}
    BY <2>4, <2>9, <2>10, <2>11 DEF Occupants, Occupied
  <2>16. Occupants(r2) = Occupants(ri) \cup {n}
    BY <1>0, <2>15
  <2> QED BY <1>2, <2>5, <2>8, <2>12, <2>14, <2>16
<1> QED BY <1>1, <1>2

(* room_add_history touches neither the users nor their number, and keeps  *)
(* both ends of the ring within it.                                        *)
LEMMA AddedHistoryKeepsUsers ==
  ASSUME NEW ri \in RoomInfo(Name, Text), NEW t \in Text
  PROVE  LET r1 == AddedHistory(ri, t) IN
         /\ r1 \in RoomInfo(Name, Text)
         /\ Occupants(r1) = Occupants(ri)
         /\ CountsItsUsers(ri) => CountsItsUsers(r1)
         /\ OneSlotEach(ri) => OneSlotEach(r1)
<1> DEFINE r1 == AddedHistory(ri, t)
<1>0. HistMax \in Nat /\ HistMax > 0
  BY HistMaxAssumption
<1>1. r1.room_users = ri.room_users /\ r1.num_users = ri.num_users
  BY DEF AddedHistory, RoomInfo
<1>2. \A k \in Entry : (k + 1) % HistMax \in Entry
  BY <1>0 DEF Entry
<1>3. r1 \in RoomInfo(Name, Text)
  BY <1>2 DEF AddedHistory, RoomInfo
<1> QED
  BY <1>1, <1>3 DEF Occupants, Occupied, CountsItsUsers, OneSlotEach

-----------------------------------------------------------------------------
(* 2. The state of the server.                                             *)

(* irc_remove_fd_list leaves num_fds at 1 when it frees the list.          *)
CountOf(fds) == IF fds = <<>> THEN 1 ELSE Len(fds)

Listed ==
  /\ IsInjective(cli_list)
  /\ num_clients = Len(cli_list)
  /\ num_fds = CountOf(full_fd_list)

Nameless ==
  /\ \A c \in Conn \ Clients : name[c] = None
  /\ \A c \in Conn : name[c] = None => active_rooms[c] = NoRooms

UnknownRoomsEmpty == \A r \in Room \ tree : Members(r) = {}

IInv ==
  /\ TypeOK
  /\ NamesUnique
  /\ NoGhosts
  /\ RoomsCount
  /\ Listed
  /\ Nameless
  /\ UnknownRoomsEmpty

-----------------------------------------------------------------------------
(* The index found for an element of a list is one where it stands.        *)
LEMMA IndexFinds ==
  ASSUME NEW S, NEW s \in Seq(S), NEW x \in Range(s)
  PROVE  Index(s, x) \in 1 .. Len(s) /\ s[Index(s, x)] = x
<1> DEFINE at == {i \in DOMAIN s : s[i] = x}
<1>1. DOMAIN s = 1 .. Len(s) /\ Len(s) \in Nat
  BY LenProperties
<1>2. at # {} /\ at \in SUBSET Nat
  BY <1>1 DEF Range
<1>3. Least(at) \in at
  BY <1>2, LeastIsLeast
<1> QED BY <1>1, <1>3 DEF Index

-----------------------------------------------------------------------------
(* What the handlers send, and what sending does to the server.            *)

(* Every reply constructor makes a message of the type "out" ranges over.  *)
LEMMA ReplyTypes ==
  /\ Quiet \in MessageType
  /\ \A c \in Conn, ok \in BOOLEAN : LogonReply(c, ok) \in MessageType
  /\ \A c \in Conn, r \in AnyRoom, ok \in BOOLEAN, n \in Nat :
       JoinReply(c, r, ok, n) \in MessageType
  /\ \A c \in Conn, r \in AnyRoom, ok \in BOOLEAN :
       LeaveReply(c, r, ok) \in MessageType
  /\ \A c \in Conn : ExitReply(c) \in MessageType
  /\ \A c \in Conn, r \in AnyRoom, ns \in SUBSET Name :
       UsersReply(c, r, ns) \in MessageType
  /\ \A cs \in SUBSET Conn, r \in AnyRoom, n \in Name :
       RoomMessage(cs, r, n) \in MessageType
BY DEF Quiet, LogonReply, JoinReply, LeaveReply, ExitReply, UsersReply,
       RoomMessage, MessageType

(* The server is up or down after a transmission.                          *)
LEMMA TransmitType ==
  ASSUME NEW msg \in MessageType, Transmit(msg)
  PROVE  up' \in BOOLEAN /\ out' \in MessageType
<1>1. out' = msg
  BY DEF Transmit
<1>2. up' \in IF msg.to \cap gone = {} THEN {TRUE} ELSE BOOLEAN
  BY DEF Transmit
<1>3. up' \in BOOLEAN
  BY <1>2
<1> QED BY <1>1, <1>3

(* Where the pass goes on, it comes to connections.                        *)
LEMMA LateType ==
  ASSUME TypeOK, NEW c, PassGoesOn(c)
  PROVE  late' \in SUBSET Conn
BY DEF TypeOK, PassGoesOn, StillToCome

-----------------------------------------------------------------------------
(* The lookups.                                                            *)

(* serv_find_client returns a connection or NULL.                          *)
LEMMA FindType ==
  ASSUME TypeOK, NEW n, NEW fd
  PROVE  ServFindClient(n, fd) \in Clients \cup {None}
<1> DEFINE named == {i \in DOMAIN cli_list : name[cli_list[i]] = n}
<1>1. DOMAIN cli_list = 1 .. Len(cli_list)
  BY LenProperties DEF TypeOK
<1>2. CASE named # {}
  <2>1. named \in SUBSET Nat
    BY <1>1
  <2>2. Least(named) \in DOMAIN cli_list
    BY <1>2, <2>1, LeastIsLeast
  <2>3. ServFindClient(n, fd) = cli_list[Least(named)]
    BY <1>2 DEF ServFindClient
  <2> QED BY <2>2, <2>3 DEF Clients, Range
<1>3. CASE named = {}
  BY <1>3 DEF ServFindClient
<1> QED BY <1>2, <1>3

(* The clients are connections.                                            *)
LEMMA ClientsType ==
  ASSUME TypeOK
  PROVE  Clients \subseteq Conn
<1>1. cli_list \in Seq(Conn)
  BY DEF TypeOK
<1>2. DOMAIN cli_list = 1 .. Len(cli_list)
  BY <1>1, LenProperties
<1>3. \A i \in 1 .. Len(cli_list) : cli_list[i] \in Conn
  BY <1>1, ElementOfSeq
<1> QED BY <1>2, <1>3 DEF Clients, Range

(* The lookup of a client's own name finds that client, because no other   *)
(* client has it: the handlers act on the client whose request it is.      *)
LEMMA FindsByName ==
  ASSUME IInv, NEW c \in Conn, name[c] # None, NEW fd
  PROVE  ServFindClient(name[c], fd) = c
<1> DEFINE named == {i \in DOMAIN cli_list : name[cli_list[i]] = name[c]}
<1>1. c \in Clients
  BY DEF IInv, Nameless
<1>2. DOMAIN cli_list = 1 .. Len(cli_list)
  BY LenProperties DEF IInv, TypeOK
<1>3. named # {} /\ named \in SUBSET Nat
  BY <1>1, <1>2 DEF Clients, Range
<1>4. Least(named) \in named
  BY <1>3, LeastIsLeast
<1> DEFINE d == cli_list[Least(named)]
<1>5. d \in Clients /\ name[d] = name[c]
  BY <1>4 DEF Clients, Range
<1>6. d = c
  BY <1>1, <1>5 DEF IInv, NamesUnique, Named
<1> QED BY <1>3, <1>6 DEF ServFindClient

(* When the lookup by a new name falls through to a client without a name, *)
(* no client has that name.                                                *)
LEMMA FreshName ==
  ASSUME TypeOK, NEW n \in Name, NEW c \in Clients,
         name[ServFindClient(n, c)] = None
  PROVE  \A d \in Clients : name[d] # n
<1> DEFINE named == {i \in DOMAIN cli_list : name[cli_list[i]] = n}
<1>1. DOMAIN cli_list = 1 .. Len(cli_list)
  BY LenProperties DEF TypeOK
<1>2. SUFFICES ASSUME named # {} PROVE FALSE
  BY DEF Clients, Range
<1>3. Least(named) \in named
  <2>1. named \in SUBSET Nat
    BY <1>1
  <2> QED BY <1>2, <2>1, LeastIsLeast
<1>4. name[ServFindClient(n, c)] = n
  BY <1>2, <1>3 DEF ServFindClient
<1> QED BY <1>4, DistinctAssumption

(* An occupant of a room is a user's name.                                 *)
LEMMA MembersAreNames ==
  ASSUME TypeOK, NEW r \in Room
  PROVE  Members(r) \subseteq Name
BY DEF TypeOK, RoomInfo, Members, Occupants, Occupied

(* The clients a message is sent to are connections.                       *)
LEMMA RecipientsType ==
  ASSUME TypeOK, NEW r \in Room
  PROVE  \A i \in Reached(r) : Recipient(r, i) \in Conn
<1>1. SUFFICES ASSUME NEW i \in Reached(r) PROVE Recipient(r, i) \in Conn
  OBVIOUS
<1>2. i \in Occupied(room[r]) /\ i <= i
  <2>1. i \in Occupied(room[r])
    BY DEF Reached
  <2>2. i \in Nat
    BY <2>1, SlotFinite DEF Occupied
  <2> QED BY <2>1, <2>2
<1>3. Recipient(r, i) # None
  BY <1>1, <1>2 DEF Reached
<1>4. Recipient(r, i) \in Clients \cup {None}
  BY FindType DEF Recipient
<1> QED BY <1>3, <1>4, ClientsType

-----------------------------------------------------------------------------
(* irc_shutdown_client.                                                    *)

(* The client leaves the list, everybody else stays.                       *)
LEMMA RemovesClient ==
  ASSUME IInv, NEW c \in Clients, ServRemoveClient(c)
  PROVE  /\ cli_list' \in Seq(Conn)
         /\ IsInjective(cli_list')
         /\ Len(cli_list') = Len(cli_list) - 1
         /\ Clients' = Clients \ {c}
<1>1. c \in Conn /\ cli_list \in Seq(Conn) /\ IsInjective(cli_list)
  BY ClientsType DEF IInv, TypeOK, Listed
<1>2. (IF name[c] # None THEN ServFindClient(name[c], c) ELSE c) = c
  BY <1>1, FindsByName
<1>3. cli_list' = RemoveAt(cli_list, Index(cli_list, c))
  BY <1>2 DEF ServRemoveClient
<1>4. Index(cli_list, c) \in 1 .. Len(cli_list) /\ cli_list[Index(cli_list, c)] = c
  BY <1>1, IndexFinds DEF Clients
<1>5. /\ cli_list' \in Seq(Conn)
      /\ Len(cli_list') = Len(cli_list) - 1
  BY <1>1, <1>3, <1>4, RemoveAtElements
<1>6. IsInjective(cli_list') /\ Range(cli_list') = Range(cli_list) \ {c}
  BY <1>1, <1>3, <1>4, RemoveAtRange
<1> QED BY <1>5, <1>6 DEF Clients

(* serv_free_client takes the client's name out of every room and changes  *)
(* nothing else about the rooms.  It visits only the rooms of active_rooms *)
(* that the tree has, and by NoGhosts these are all its rooms.             *)
LEMMA FreesRooms ==
  ASSUME IInv, NEW c \in Clients, ServFreeClient(c)
  PROVE  /\ room' \in [Room -> RoomInfo(Name, Text)]
         /\ \A r \in Room : /\ CountsItsUsers(room'[r]) /\ OneSlotEach(room'[r])
                            /\ Occupants(room'[r]) = Members(r) \ {name[c]}
<1>1. /\ c \in Conn /\ name[c] \in Name \cup {None}
      /\ room \in [Room -> RoomInfo(Name, Text)]
      /\ active_rooms[c] \in [Active -> AnyRoom \cup {None}]
  BY ClientsType DEF IInv, TypeOK
<1>2. room' = [r \in Room |-> IF r \in tree /\ r \in Range(active_rooms[c])
                              THEN RemovedUser(room[r], name[c])
                              ELSE room[r]]
  BY DEF ServFreeClient
<1>3. SUFFICES ASSUME NEW r \in Room
               PROVE  /\ room'[r] \in RoomInfo(Name, Text)
                      /\ CountsItsUsers(room'[r]) /\ OneSlotEach(room'[r])
                      /\ Occupants(room'[r]) = Members(r) \ {name[c]}
  BY <1>2
<1>4. /\ room[r] \in RoomInfo(Name, Text)
      /\ CountsItsUsers(room[r]) /\ OneSlotEach(room[r])
  BY <1>1 DEF IInv, RoomsCount
<1>5. CASE r \in tree /\ r \in Range(active_rooms[c])
  <2>1. name[c] \in Name
    <3>1. SUFFICES ASSUME name[c] = None PROVE FALSE
      BY <1>1
    <3>2. active_rooms[c] = NoRooms
      BY <1>1, <3>1 DEF IInv, Nameless
    <3>3. r = None
      BY <1>5, <3>2 DEF NoRooms, Range
    <3> QED BY <3>3, DistinctAssumption
  <2>2. room'[r] = RemovedUser(room[r], name[c])
    BY <1>2, <1>5
  <2> QED
    BY <1>4, <2>1, <2>2, RemovedUserCorrect, DistinctAssumption DEF Members
<1>6. CASE ~(r \in tree /\ r \in Range(active_rooms[c]))
  <2>1. room'[r] = room[r]
    BY <1>2, <1>6
  <2>2. name[c] \notin Members(r)
    <3>1. SUFFICES ASSUME name[c] \in Members(r) PROVE FALSE
      OBVIOUS
    <3>2. name[c] # None
      BY <3>1, MembersAreNames, DistinctAssumption DEF IInv
    <3>3. r \in tree
      BY <3>1 DEF IInv, UnknownRoomsEmpty
    <3>4. PICK d \in Clients : name[d] = name[c] /\ r \in Range(active_rooms[d])
      BY <3>1 DEF IInv, NoGhosts
    <3>5. d = c
      BY <3>2, <3>4 DEF IInv, NamesUnique, Named
    <3> QED BY <1>6, <3>3, <3>4, <3>5
  <2> QED BY <1>4, <2>1, <2>2 DEF Members
<1> QED BY <1>5, <1>6

(* Without the client, the parts of IInv about names and rooms still hold. *)
LEMMA ForgetKeeps ==
  ASSUME IInv, NEW c \in Clients, ForgetClient(c), UNCHANGED tree
  PROVE  /\ cli_list' \in Seq(Conn)
         /\ IsInjective(cli_list')
         /\ num_clients' = Len(cli_list') /\ num_clients' \in Nat
         /\ name' \in [Conn -> Name \cup {None}]
         /\ active_rooms' \in [Conn -> [Active -> AnyRoom \cup {None}]]
         /\ room' \in [Room -> RoomInfo(Name, Text)]
         /\ gone' \in SUBSET Conn
         /\ NamesUnique' /\ NoGhosts' /\ RoomsCount'
         /\ Nameless' /\ UnknownRoomsEmpty'
<1>0. c \in Conn /\ TypeOK
  BY ClientsType DEF IInv
<1>1. /\ cli_list' \in Seq(Conn)
      /\ IsInjective(cli_list')
      /\ Len(cli_list') = Len(cli_list) - 1
      /\ Clients' = Clients \ {c}
  BY RemovesClient DEF ForgetClient
<1>2. /\ room' \in [Room -> RoomInfo(Name, Text)]
      /\ \A r \in Room : /\ CountsItsUsers(room'[r]) /\ OneSlotEach(room'[r])
                         /\ Occupants(room'[r]) = Members(r) \ {name[c]}
  BY FreesRooms DEF ForgetClient
<1>3. /\ name' = [name EXCEPT ![c] = None]
      /\ active_rooms' = [active_rooms EXCEPT ![c] = NoRooms]
      /\ gone' = gone \ {c}
      /\ num_clients' = num_clients - 1
  BY DEF ForgetClient, ServFreeClient
<1>4. num_clients' = Len(cli_list') /\ num_clients' \in Nat
  <2>1. Len(cli_list') \in Nat
    BY <1>1, LenProperties
  <2> QED BY <1>1, <1>3, <2>1 DEF IInv, Listed
<1>5. /\ name' \in [Conn -> Name \cup {None}]
      /\ active_rooms' \in [Conn -> [Active -> AnyRoom \cup {None}]]
      /\ gone' \in SUBSET Conn
  BY <1>0, <1>3 DEF TypeOK, NoRooms
<1>6. \A d \in Conn \ {c} : name'[d] = name[d] /\ active_rooms'[d] = active_rooms[d]
  BY <1>0, <1>3 DEF TypeOK
<1>7. name'[c] = None /\ active_rooms'[c] = NoRooms
  BY <1>0, <1>3 DEF TypeOK
<1>8. NamesUnique'
  <2>1. SUFFICES ASSUME NEW d \in Named', NEW e \in Named', name'[d] = name'[e]
                 PROVE  d = e
    BY DEF NamesUnique
  <2>2. d \in Clients \ {c} /\ e \in Clients \ {c}
    BY <1>1 DEF Named
  <2>3. d \in Named /\ e \in Named /\ name[d] = name[e]
    BY <1>6, <2>1, <2>2, ClientsType, <1>0 DEF Named
  <2> QED BY <2>3 DEF IInv, NamesUnique
<1>9. NoGhosts'
  <2>1. SUFFICES ASSUME NEW r \in Room, NEW n \in Occupants(room'[r])
                 PROVE  \E d \in Clients' : name'[d] = n
                                            /\ r \in Range(active_rooms'[d])
    BY DEF NoGhosts, Members
  <2>2. n \in Members(r) /\ n # name[c]
    BY <1>2
  <2>3. PICK d \in Clients : name[d] = n /\ r \in Range(active_rooms[d])
    BY <2>2 DEF IInv, NoGhosts
  <2>4. d \in Clients \ {c} /\ d \in Conn \ {c}
    BY <2>2, <2>3, ClientsType, <1>0
  <2> QED BY <1>1, <1>6, <2>3, <2>4
<1>10. RoomsCount'
  BY <1>2 DEF RoomsCount
<1>11. Nameless'
  BY <1>1, <1>6, <1>7 DEF IInv, Nameless
<1>12. UnknownRoomsEmpty'
  BY <1>2 DEF IInv, UnknownRoomsEmpty, Members
<1> QED
  BY <1>1, <1>2, <1>4, <1>5, <1>8, <1>9, <1>10, <1>11, <1>12

(* irc_remove_fd_list and its counter stay in step.                        *)
LEMMA WithoutFdType ==
  ASSUME NEW fds \in Seq(Fd), NEW fd
  PROVE  /\ WithoutFd(fds, fd) \in Seq(Fd)
         /\ CountWithout(CountOf(fds)) = CountOf(WithoutFd(fds, fd))
<1>0. Len(fds) \in Nat /\ (fds = <<>> <=> Len(fds) = 0)
  BY LenProperties, EmptySeq
<1>1. CASE Len(fds) <= 1
  <2>1. WithoutFd(fds, fd) = <<>>
    BY <1>1 DEF WithoutFd
  <2>2. CountOf(fds) = 1
    <3>1. CASE Len(fds) = 0
      BY <1>0, <3>1 DEF CountOf
    <3>2. CASE Len(fds) = 1
      <4>1. fds # <<>>
        BY <1>0, <3>2
      <4> QED BY <3>2, <4>1 DEF CountOf
    <3>3. Len(fds) = 0 \/ Len(fds) = 1
      <4> DEFINE n == Len(fds)
      <4>1. n \in Nat /\ n <= 1
        BY <1>0, <1>1
      <4> HIDE DEF n
      <4>2. n = 0 \/ n = 1
        BY <4>1
      <4> QED BY <4>2 DEF n
    <3> QED BY <3>1, <3>2, <3>3
  <2> QED BY <2>1, <2>2, EmptySeq DEF CountOf, CountWithout
<1>2. CASE Len(fds) > 1
  <2> DEFINE i == IF fd \in Range(fds) THEN Index(fds, fd) ELSE Len(fds)
             w == RemoveAt(fds, i)
  <2>1. i \in 1 .. Len(fds)
    BY <1>0, <1>2, IndexFinds
  <2>2. WithoutFd(fds, fd) = w
    BY <1>0, <1>2 DEF WithoutFd
  <2>3. w \in Seq(Fd) /\ Len(w) = Len(fds) - 1
    BY <2>1, RemoveAtElements
  <2> HIDE DEF w
  <2>4. w # <<>>
    BY <1>0, <1>2, <2>3, EmptySeq
  <2>5. CountOf(fds) = Len(fds) /\ CountOf(w) = Len(w)
    BY <1>0, <1>2, <2>4 DEF CountOf
  <2>6. CountWithout(Len(fds)) = Len(fds) - 1
    BY <1>0, <1>2 DEF CountWithout
  <2> QED BY <2>2, <2>3, <2>5, <2>6
<1> QED BY <1>0, <1>1, <1>2

-----------------------------------------------------------------------------
(* Each action preserves IInv.                                             *)

LEMMA InitIInv == Init => IInv
<1> SUFFICES ASSUME Init PROVE IInv
  OBVIOUS
<1>1. cli_list = <<>> /\ Clients = {} /\ Len(cli_list) = 0
  BY DEF Init, Clients, Range
<1>2. /\ full_fd_list \in Seq(Fd) /\ Len(full_fd_list) = 2
      /\ CountOf(full_fd_list) = 2
  BY DEF Init, Fd, CountOf
<1>3. \A r \in Room : /\ room[r] \in RoomInfo(Name, Text)
                      /\ CountsItsUsers(room[r]) /\ OneSlotEach(room[r])
                      /\ Occupants(room[r]) = {}
  BY NewRoomIsEmpty DEF Init
<1>4. TypeOK
  <2>1. cli_list \in Seq(Conn)
    BY <1>1, EmptySeq
  <2>2. name \in [Conn -> Name \cup {None}]
    BY DEF Init
  <2>3. active_rooms \in [Conn -> [Active -> AnyRoom \cup {None}]]
    BY DEF Init, NoRooms
  <2>4. room \in [Room -> RoomInfo(Name, Text)]
    BY <1>3 DEF Init
  <2>5. /\ up \in BOOLEAN /\ dropped \in BOOLEAN
        /\ num_clients \in Nat /\ num_fds \in Nat
        /\ tree \in SUBSET Room /\ gone \in SUBSET Conn
        /\ late \in SUBSET Conn
    BY DEF Init
  <2>6. out \in MessageType
    BY ReplyTypes DEF Init
  <2> QED BY <1>2, <2>1, <2>2, <2>3, <2>4, <2>5, <2>6 DEF TypeOK
<1>5. NamesUnique /\ NoGhosts /\ RoomsCount /\ UnknownRoomsEmpty
  BY <1>1, <1>3 DEF NamesUnique, Named, NoGhosts, RoomsCount,
                    UnknownRoomsEmpty, Members
<1>6. Listed
  BY <1>1, <1>2 DEF Init, Listed, IsInjective
<1>7. Nameless
  BY DEF Init, Nameless
<1> QED BY <1>4, <1>5, <1>6, <1>7 DEF IInv

(* A step that sends a message and changes no more than the names of       *)
(* closed peers keeps IInv.                                                *)
LEMMA QuietStepKeeps ==
  ASSUME IInv, up' \in BOOLEAN, out' \in MessageType, gone' \in SUBSET Conn,
         late' \in SUBSET Conn,
         UNCHANGED <<lists, name, active_rooms, tree, room, dropped>>
  PROVE  IInv'
<1>1. TypeOK'
  BY DEF IInv, TypeOK, lists
<1>2. NamesUnique' /\ NoGhosts' /\ RoomsCount' /\ UnknownRoomsEmpty'
  BY DEF IInv, NamesUnique, Named, NoGhosts, RoomsCount, UnknownRoomsEmpty,
         Members, Clients, lists
<1>3. Listed' /\ Nameless'
  BY DEF IInv, Listed, Nameless, Clients, lists
<1> QED BY <1>1, <1>2, <1>3 DEF IInv

LEMMA TakeNewConnectionKeeps ==
  ASSUME IInv, NEW c \in Conn, TakeNewConnection(c)
  PROVE  IInv'
<1>0. TypeOK /\ cli_list \in Seq(Conn) /\ full_fd_list \in Seq(Fd) /\ c \in Fd
  BY DEF IInv, TypeOK, Fd
<1>1. /\ cli_list' = Append(cli_list, c)
      /\ full_fd_list' = Append(full_fd_list, c)
      /\ num_clients' = num_clients + 1 /\ num_fds' = num_fds + 1
      /\ c \notin Clients
      /\ out' = Quiet
      /\ UNCHANGED <<up, name, active_rooms, tree, room, gone, dropped, late>>
  BY DEF TakeNewConnection
<1>2. /\ cli_list' \in Seq(Conn) /\ IsInjective(cli_list')
      /\ Len(cli_list') = Len(cli_list) + 1
      /\ Clients' = Clients \cup {c}
  BY <1>0, <1>1, AppendRange DEF IInv, Listed, Clients
<1>3. /\ full_fd_list' \in Seq(Fd)
      /\ num_fds' = CountOf(full_fd_list')
  <2>1. full_fd_list' \in Seq(Fd) /\ Len(full_fd_list') = Len(full_fd_list) + 1
    BY <1>0, <1>1, AppendRange
  <2>2. full_fd_list # <<>> /\ full_fd_list' # <<>> /\ Len(full_fd_list) \in Nat
    <3>1. Len(full_fd_list) \in Nat /\ DOMAIN full_fd_list = 1 .. Len(full_fd_list)
      BY <1>0, LenProperties
    <3>2. full_fd_list # <<>>
      BY DEF TakeNewConnection, Range
    <3> QED BY <2>1, <3>1, <3>2, EmptySeq
  <2> QED BY <1>1, <2>1, <2>2 DEF IInv, Listed, CountOf
<1>4. TypeOK'
  BY <1>0, <1>1, <1>2, <1>3, ReplyTypes DEF TypeOK
<1>5. Listed'
  BY <1>1, <1>2, <1>3 DEF IInv, Listed
<1>6. name[c] = None
  BY <1>1 DEF IInv, Nameless
<1>7. NamesUnique'
  BY <1>1, <1>2, <1>6 DEF IInv, NamesUnique, Named
<1>8. NoGhosts'
  BY <1>1, <1>2 DEF IInv, NoGhosts, Members
<1>9. RoomsCount' /\ UnknownRoomsEmpty'
  BY <1>1 DEF IInv, RoomsCount, UnknownRoomsEmpty, Members
<1>10. Nameless'
  BY <1>1, <1>2 DEF IInv, Nameless
<1> QED BY <1>4, <1>5, <1>7, <1>8, <1>9, <1>10 DEF IInv

LEMMA AcceptNewCliKeeps ==
  ASSUME IInv, NEW c \in Conn, NEW n \in Name, AcceptNewCli(c, n)
  PROVE  IInv'
<1> DEFINE tmp == ServFindClient(n, c)
<1>0. /\ TypeOK /\ c \in Clients /\ name[c] = None
      /\ UNCHANGED <<lists, active_rooms, tree, room, gone, dropped>>
  BY DEF IInv, AcceptNewCli, Ready
<1>1. Clients' = Clients /\ late' \in SUBSET Conn
  BY <1>0, LateType DEF Clients, lists, AcceptNewCli
<1>2. CASE /\ name[tmp] = None
           /\ name' = [name EXCEPT ![c] = n]
           /\ Transmit(LogonReply(c, TRUE))
  <2>1. \A d \in Clients : name[d] # n
    BY <1>0, <1>2, FreshName
  <2>2. /\ name' \in [Conn -> Name \cup {None}]
        /\ name'[c] = n
        /\ \A d \in Conn \ {c} : name'[d] = name[d]
    BY <1>0, <1>2 DEF TypeOK
  <2>3. up' \in BOOLEAN /\ out' \in MessageType
    BY <1>2, TransmitType, ReplyTypes
  <2>4. TypeOK'
    BY <1>0, <1>1, <2>2, <2>3 DEF TypeOK, lists
  <2>5. NamesUnique'
    <3>1. SUFFICES ASSUME NEW d \in Named', NEW e \in Named', name'[d] = name'[e]
                   PROVE  d = e
      BY DEF NamesUnique
    <3>2. d \in Clients /\ e \in Clients /\ d \in Conn /\ e \in Conn
      BY <1>0, <1>1, ClientsType DEF Named
    <3>3. CASE d = c \/ e = c
      BY <2>1, <2>2, <3>1, <3>2, <3>3
    <3>4. CASE d # c /\ e # c
      <4>1. d \in Named /\ e \in Named /\ name[d] = name[e]
        BY <2>2, <3>1, <3>2, <3>4 DEF Named
      <4> QED BY <4>1 DEF IInv, NamesUnique
    <3> QED BY <3>3, <3>4
  <2>6. NoGhosts'
    <3>1. SUFFICES ASSUME NEW r \in Room, NEW m \in Members(r)
                   PROVE  \E d \in Clients : name'[d] = m
                                             /\ r \in Range(active_rooms[d])
      BY <1>0, <1>1 DEF NoGhosts, Members
    <3>2. PICK d \in Clients : name[d] = m /\ r \in Range(active_rooms[d])
      BY DEF IInv, NoGhosts
    <3>3. d # c
      BY <1>0, <3>1, <3>2, MembersAreNames, DistinctAssumption
    <3> QED BY <1>0, <2>2, <3>2, <3>3, ClientsType
  <2>7. RoomsCount' /\ UnknownRoomsEmpty'
    BY <1>0 DEF IInv, RoomsCount, UnknownRoomsEmpty, Members
  <2>8. Listed'
    BY <1>0 DEF IInv, Listed, lists
  <2>9. Nameless'
    BY <1>0, <1>1, <2>2, DistinctAssumption DEF IInv, Nameless
  <2> QED BY <2>4, <2>5, <2>6, <2>7, <2>8, <2>9 DEF IInv
<1>3. CASE Transmit(LogonReply(c, FALSE)) /\ UNCHANGED name
  <2>1. up' \in BOOLEAN /\ out' \in MessageType
    BY <1>3, TransmitType, ReplyTypes
  <2> QED BY <1>0, <1>1, <1>3, <2>1, QuietStepKeeps DEF TypeOK
<1> QED BY <1>2, <1>3 DEF AcceptNewCli

LEMMA JoinRefusedKeeps ==
  ASSUME IInv, NEW c \in Conn, NEW r \in AnyRoom, JoinRefused(c, r)
  PROVE  IInv'
<1>1. ServFindClient(name[c], None) = c
  BY FindsByName DEF JoinRefused, Request
<1>2. Transmit(JoinReply(c, r, FALSE, 0))
  BY <1>1 DEF JoinRefused
<1>3. up' \in BOOLEAN /\ out' \in MessageType
  BY <1>2, TransmitType, ReplyTypes
<1>4. /\ UNCHANGED <<lists, name, active_rooms, tree, room, gone, dropped>>
      /\ late' \in SUBSET Conn
  BY LateType DEF JoinRefused, IInv
<1> QED BY <1>3, <1>4, QuietStepKeeps DEF IInv, TypeOK

(* Entering a room in the first free entry of a client's active_rooms      *)
(* keeps the array's type and loses no room that was in it.                *)
LEMMA AddsActiveRoom ==
  ASSUME TypeOK, NEW c \in Conn, NEW r \in AnyRoom, FreeActive(c) # {},
         ServAddActiveRoom(c, r)
  PROVE  /\ active_rooms' \in [Conn -> [Active -> AnyRoom \cup {None}]]
         /\ \A d \in Conn \ {c} : active_rooms'[d] = active_rooms[d]
         /\ r \in Range(active_rooms'[c])
         /\ \A q \in AnyRoom :
              q \in Range(active_rooms[c]) => q \in Range(active_rooms'[c])
<1> DEFINE i == Least(FreeActive(c))
<1>1. i \in Active /\ active_rooms[c][i] = None
  <2>1. FreeActive(c) \in SUBSET Nat
    BY RoomMaxAssumption DEF FreeActive, Active
  <2>2. i \in FreeActive(c)
    BY <2>1, LeastIsLeast
  <2> QED BY <2>2 DEF FreeActive
<1>2. active_rooms' = [active_rooms EXCEPT ![c][i] = r]
  BY DEF ServAddActiveRoom
<1>3. active_rooms[c] \in [Active -> AnyRoom \cup {None}]
  BY DEF TypeOK
<1> HIDE DEF i
<1>4. /\ active_rooms' \in [Conn -> [Active -> AnyRoom \cup {None}]]
      /\ \A d \in Conn \ {c} : active_rooms'[d] = active_rooms[d]
      /\ active_rooms'[c] = [active_rooms[c] EXCEPT ![i] = r]
  BY <1>1, <1>2, <1>3 DEF TypeOK
<1>5. /\ DOMAIN active_rooms[c] = Active /\ DOMAIN active_rooms'[c] = Active
      /\ active_rooms'[c][i] = r
      /\ \A j \in Active : j # i => active_rooms'[c][j] = active_rooms[c][j]
  BY <1>1, <1>3, <1>4
<1>6. None \notin AnyRoom
  BY DistinctAssumption DEF AnyRoom
<1> QED BY <1>1, <1>4, <1>5, <1>6 DEF Range

LEMMA JoinRoomKeeps ==
  ASSUME IInv, NEW c \in Conn, NEW r \in Room, JoinRoom(c, r)
  PROVE  IInv'
<1>0. TypeOK /\ c \in Clients /\ name[c] # None /\ name[c] \in Name
  BY DEF IInv, TypeOK, JoinRoom, Request, Ready
<1>1. ServFindClient(name[c], None) = c
  BY <1>0, FindsByName
<1>2. /\ FreeActive(c) # {}
      /\ ServAddActiveRoom(c, r)
      /\ tree' = tree \cup {r}
      /\ room' = [room EXCEPT ![r] = AddedUser(@, name[c])]
      /\ \/ Transmit(JoinReply(c, r, TRUE, room'[r].num_users))
         \/ Transmit(JoinReply(c, r, FALSE, 0))
      /\ UNCHANGED <<lists, name, gone, dropped>>
  BY <1>1 DEF JoinRoom
<1>3. /\ room[r] \in RoomInfo(Name, Text)
      /\ CountsItsUsers(room[r]) /\ OneSlotEach(room[r])
  BY DEF IInv, TypeOK, RoomsCount
<1>4. room'[r] = AddedUser(room[r], name[c])
      /\ \A q \in Room \ {r} : room'[q] = room[q]
  BY <1>0, <1>2 DEF TypeOK
<1>5. /\ room'[r] \in RoomInfo(Name, Text)
      /\ CountsItsUsers(room'[r]) /\ OneSlotEach(room'[r])
      /\ Occupants(room'[r]) \subseteq Members(r) \cup {name[c]}
  BY <1>0, <1>3, <1>4, AddedUserCorrect, DistinctAssumption DEF Members
<1>6. room' \in [Room -> RoomInfo(Name, Text)]
  BY <1>0, <1>2, <1>4, <1>5 DEF TypeOK
<1>7. r \in AnyRoom
  BY DEF AnyRoom
<1>8. /\ active_rooms' \in [Conn -> [Active -> AnyRoom \cup {None}]]
      /\ \A d \in Conn \ {c} : active_rooms'[d] = active_rooms[d]
      /\ r \in Range(active_rooms'[c])
      /\ \A q \in AnyRoom :
           q \in Range(active_rooms[c]) => q \in Range(active_rooms'[c])
  BY <1>0, <1>2, <1>7, AddsActiveRoom
<1>9. up' \in BOOLEAN /\ out' \in MessageType /\ late' \in SUBSET Conn
  <2>1. room'[r].num_users \in Nat
    BY <1>5, UsrMaxAssumption DEF RoomInfo
  <2>2. late' \in SUBSET Conn
    BY <1>0, LateType DEF JoinRoom
  <2> QED BY <1>2, <1>7, <2>1, <2>2, TransmitType, ReplyTypes
<1>10. TypeOK'
  BY <1>0, <1>2, <1>6, <1>8, <1>9 DEF TypeOK, lists
<1>11. Clients' = Clients
  BY <1>2 DEF Clients, lists
<1>12. NamesUnique' /\ Listed'
  BY <1>2, <1>11 DEF IInv, NamesUnique, Named, Listed, lists
<1>13. NoGhosts'
  <2>1. SUFFICES ASSUME NEW q \in Room, NEW n \in Occupants(room'[q])
                 PROVE  \E d \in Clients : name[d] = n
                                           /\ q \in Range(active_rooms'[d])
    BY <1>2, <1>11 DEF NoGhosts, Members
  <2>2. CASE q = r /\ n = name[c]
    BY <1>0, <1>8, <2>2
  <2>3. CASE ~(q = r /\ n = name[c])
    <3>1. n \in Members(q)
      BY <1>4, <1>5, <2>3 DEF Members
    <3>2. PICK d \in Clients : name[d] = n /\ q \in Range(active_rooms[d])
      BY <3>1 DEF IInv, NoGhosts
    <3>3. d \in Conn /\ q \in AnyRoom
      BY <1>0, ClientsType DEF AnyRoom
    <3> QED BY <1>8, <3>2, <3>3
  <2> QED BY <2>2, <2>3
<1>14. RoomsCount'
  BY <1>4, <1>5 DEF IInv, RoomsCount
<1>15. UnknownRoomsEmpty'
  BY <1>2, <1>4 DEF IInv, UnknownRoomsEmpty, Members
<1>16. Nameless'
  BY <1>0, <1>2, <1>8, <1>11 DEF IInv, Nameless
<1> QED BY <1>10, <1>12, <1>13, <1>14, <1>15, <1>16 DEF IInv

LEMMA JoinLongRoomKeeps ==
  ASSUME IInv, NEW c \in Conn, NEW r \in LongRoom, JoinLongRoom(c, r)
  PROVE  IInv'
<1>0. TypeOK /\ c \in Clients /\ name[c] # None
  BY DEF IInv, JoinLongRoom, Request, Ready
<1>1. ServFindClient(name[c], None) = c
  BY <1>0, FindsByName
<1>2. /\ FreeActive(c) # {}
      /\ ServAddActiveRoom(c, r)
      /\ Transmit(JoinReply(c, r, TRUE, EINVAL))
      /\ UNCHANGED <<lists, name, tree, room, gone, dropped>>
  BY <1>1 DEF JoinLongRoom
<1>3. r \in AnyRoom
  BY DEF AnyRoom
<1>4. /\ active_rooms' \in [Conn -> [Active -> AnyRoom \cup {None}]]
      /\ \A d \in Conn \ {c} : active_rooms'[d] = active_rooms[d]
      /\ \A q \in AnyRoom :
           q \in Range(active_rooms[c]) => q \in Range(active_rooms'[c])
  BY <1>0, <1>2, <1>3, AddsActiveRoom
<1>5. up' \in BOOLEAN /\ out' \in MessageType /\ late' \in SUBSET Conn
  <2>1. late' \in SUBSET Conn
    BY <1>0, LateType DEF JoinLongRoom
  <2> QED BY <1>2, <1>3, <2>1, TransmitType, ReplyTypes, EinvalAssumption
<1>6. TypeOK'
  BY <1>0, <1>2, <1>4, <1>5 DEF TypeOK, lists
<1>7. Clients' = Clients
  BY <1>2 DEF Clients, lists
<1>8. NamesUnique' /\ Listed' /\ RoomsCount' /\ UnknownRoomsEmpty'
  BY <1>2, <1>7 DEF IInv, NamesUnique, Named, Listed, lists, RoomsCount,
                    UnknownRoomsEmpty, Members
<1>9. NoGhosts'
  <2>1. SUFFICES ASSUME NEW q \in Room, NEW n \in Members(q)
                 PROVE  \E d \in Clients : name[d] = n
                                           /\ q \in Range(active_rooms'[d])
    BY <1>2, <1>7 DEF NoGhosts, Members
  <2>2. PICK d \in Clients : name[d] = n /\ q \in Range(active_rooms[d])
    BY DEF IInv, NoGhosts
  <2>3. d \in Conn /\ q \in AnyRoom
    BY <1>0, ClientsType DEF AnyRoom
  <2> QED BY <1>4, <2>2, <2>3
<1>10. Nameless'
  BY <1>0, <1>2, <1>4, <1>7 DEF IInv, Nameless
<1> QED BY <1>6, <1>8, <1>9, <1>10 DEF IInv

(* Clearing the first entry that names a room keeps every other room.      *)
LEMMA RemovesActiveRoom ==
  ASSUME TypeOK, NEW c \in Conn, NEW r \in AnyRoom, ServRemoveActiveRoom(c, r)
  PROVE  /\ active_rooms' \in [Conn -> [Active -> AnyRoom \cup {None}]]
         /\ \A d \in Conn \ {c} : active_rooms'[d] = active_rooms[d]
         /\ \A q \in AnyRoom \ {r} :
              q \in Range(active_rooms[c]) => q \in Range(active_rooms'[c])
<1> DEFINE entries == {i \in Active : active_rooms[c][i] = r}
           i == Least(entries)
<1>0. active_rooms[c] \in [Active -> AnyRoom \cup {None}]
  BY DEF TypeOK
<1>1. CASE entries = {}
  <2>1. active_rooms' = active_rooms
    BY <1>1 DEF ServRemoveActiveRoom
  <2> QED BY <2>1 DEF TypeOK
<1>2. CASE entries # {}
  <2>1. i \in Active /\ active_rooms[c][i] = r
    <3>1. entries \in SUBSET Nat
      BY RoomMaxAssumption DEF Active
    <3>2. i \in entries
      BY <1>2, <3>1, LeastIsLeast
    <3> QED BY <3>2
  <2>2. active_rooms' = [active_rooms EXCEPT ![c][i] = None]
    BY <1>2 DEF ServRemoveActiveRoom
  <2> HIDE DEF i
  <2>3. /\ active_rooms' \in [Conn -> [Active -> AnyRoom \cup {None}]]
        /\ \A d \in Conn \ {c} : active_rooms'[d] = active_rooms[d]
        /\ active_rooms'[c] = [active_rooms[c] EXCEPT ![i] = None]
    BY <1>0, <2>1, <2>2 DEF TypeOK
  <2>4. /\ DOMAIN active_rooms[c] = Active /\ DOMAIN active_rooms'[c] = Active
        /\ \A j \in Active : j # i => active_rooms'[c][j] = active_rooms[c][j]
    BY <1>0, <2>1, <2>3
  <2> QED BY <2>1, <2>3, <2>4 DEF Range
<1> QED BY <1>1, <1>2

LEMMA LeaveRoomKeeps ==
  ASSUME IInv, NEW c \in Conn, NEW r \in AnyRoom, LeaveRoom(c, r)
  PROVE  IInv'
<1>0. /\ TypeOK /\ c \in Clients /\ name[c] # None /\ name[c] \in Name
      /\ UNCHANGED <<lists, name, tree, gone, dropped>>
  BY DEF IInv, TypeOK, LeaveRoom, Request, Ready
<1>1. ServFindClient(name[c], None) = c /\ late' \in SUBSET Conn
  BY <1>0, FindsByName, LateType DEF LeaveRoom
<1>2. CASE /\ r \in tree
           /\ room' = [room EXCEPT ![r] = RemovedUser(@, name[c])]
           /\ ServRemoveActiveRoom(c, r)
           /\ Transmit(LeaveReply(c, r, TRUE))
  <2>0. r \in Room
    BY <1>0, <1>2 DEF TypeOK
  <2>1. /\ room[r] \in RoomInfo(Name, Text)
        /\ CountsItsUsers(room[r]) /\ OneSlotEach(room[r])
    BY <2>0 DEF IInv, TypeOK, RoomsCount
  <2>2. room'[r] = RemovedUser(room[r], name[c])
        /\ \A q \in Room \ {r} : room'[q] = room[q]
    BY <1>0, <1>2, <2>0 DEF TypeOK
  <2>3. /\ room'[r] \in RoomInfo(Name, Text)
        /\ CountsItsUsers(room'[r]) /\ OneSlotEach(room'[r])
        /\ Occupants(room'[r]) = Members(r) \ {name[c]}
    BY <1>0, <2>1, <2>2, RemovedUserCorrect, DistinctAssumption DEF Members
  <2>4. room' \in [Room -> RoomInfo(Name, Text)]
    BY <1>0, <1>2, <2>2, <2>3 DEF TypeOK
  <2>5. /\ active_rooms' \in [Conn -> [Active -> AnyRoom \cup {None}]]
        /\ \A d \in Conn \ {c} : active_rooms'[d] = active_rooms[d]
        /\ \A q \in AnyRoom \ {r} :
             q \in Range(active_rooms[c]) => q \in Range(active_rooms'[c])
    BY <1>0, <1>2, RemovesActiveRoom
  <2>6. up' \in BOOLEAN /\ out' \in MessageType
    BY <1>2, TransmitType, ReplyTypes
  <2>7. TypeOK'
    BY <1>0, <1>1, <2>4, <2>5, <2>6 DEF TypeOK, lists
  <2>8. Clients' = Clients
    BY <1>0 DEF Clients, lists
  <2>9. NamesUnique' /\ Listed'
    BY <1>0, <2>8 DEF IInv, NamesUnique, Named, Listed, lists
  <2>10. NoGhosts'
    <3>1. SUFFICES ASSUME NEW q \in Room, NEW n \in Occupants(room'[q])
                   PROVE  \E d \in Clients : name[d] = n
                                             /\ q \in Range(active_rooms'[d])
      BY <1>0, <2>8 DEF NoGhosts, Members
    <3>2. n \in Members(q) /\ (q = r => n # name[c])
      BY <2>2, <2>3 DEF Members
    <3>3. PICK d \in Clients : name[d] = n /\ q \in Range(active_rooms[d])
      BY <3>2 DEF IInv, NoGhosts
    <3>4. d \in Conn /\ q \in AnyRoom
      BY <1>0, ClientsType DEF AnyRoom
    <3> QED BY <2>5, <3>2, <3>3, <3>4
  <2>11. RoomsCount'
    BY <2>2, <2>3 DEF IInv, RoomsCount
  <2>12. UnknownRoomsEmpty'
    BY <1>0, <1>2, <2>2 DEF IInv, UnknownRoomsEmpty, Members
  <2>13. Nameless'
    BY <1>0, <2>5, <2>8 DEF IInv, Nameless
  <2> QED BY <2>7, <2>9, <2>10, <2>11, <2>12, <2>13 DEF IInv
<1>3. CASE Transmit(LeaveReply(c, r, FALSE)) /\ UNCHANGED <<room, active_rooms>>
  <2>1. up' \in BOOLEAN /\ out' \in MessageType
    BY <1>3, TransmitType, ReplyTypes
  <2> QED BY <1>0, <1>1, <1>3, <2>1, QuietStepKeeps DEF TypeOK
<1> QED BY <1>1, <1>2, <1>3 DEF LeaveRoom

LEMMA MessageKeeps ==
  ASSUME IInv, NEW c \in Conn, NEW r \in Room, NEW t \in Text, Message(c, r, t)
  PROVE  IInv'
<1>0. /\ TypeOK /\ name[c] \in Name
      /\ room' = [room EXCEPT ![r] = AddedHistory(@, t)]
      /\ Broadcast(r, name[c])
      /\ late' \in SUBSET Conn
      /\ UNCHANGED <<lists, name, active_rooms, tree, gone, dropped>>
  BY LateType DEF IInv, TypeOK, Message, Request
<1>1. room'[r] = AddedHistory(room[r], t)
      /\ \A q \in Room \ {r} : room'[q] = room[q]
  BY <1>0 DEF TypeOK
<1>2. /\ room'[r] \in RoomInfo(Name, Text)
      /\ Occupants(room'[r]) = Members(r)
      /\ CountsItsUsers(room'[r]) /\ OneSlotEach(room'[r])
  BY <1>1, AddedHistoryKeepsUsers DEF IInv, TypeOK, RoomsCount, Members
<1>3. room' \in [Room -> RoomInfo(Name, Text)]
  BY <1>0, <1>1, <1>2 DEF TypeOK
<1>4. \A q \in Room : Occupants(room'[q]) = Members(q)
  BY <1>1, <1>2 DEF Members
<1>5. up' \in BOOLEAN /\ out' \in MessageType
  <2>1. \A slots \in SUBSET Reached(r) : Sent(r, slots, name[c]) \in MessageType
    <3>1. SUFFICES ASSUME NEW slots \in SUBSET Reached(r)
                   PROVE  Sent(r, slots, name[c]) \in MessageType
      OBVIOUS
    <3>2. {Recipient(r, i) : i \in slots} \in SUBSET Conn
      BY <1>0, RecipientsType
    <3>3. r \in AnyRoom
      BY DEF AnyRoom
    <3> QED BY <1>0, <3>2, <3>3, ReplyTypes DEF Sent
  <2>2. CASE out' = Sent(r, Reached(r), name[c]) /\ UNCHANGED up
    BY <1>0, <2>1, <2>2 DEF TypeOK
  <2>3. ASSUME NEW i \in Reached(r), up' = FALSE,
               out' = Sent(r, {j \in Reached(r) : j < i}, name[c])
        PROVE  up' \in BOOLEAN /\ out' \in MessageType
    BY <2>1, <2>3
  <2> QED BY <1>0, <2>2, <2>3 DEF Broadcast
<1>6. TypeOK'
  BY <1>0, <1>3, <1>5 DEF TypeOK, lists
<1>7. Clients' = Clients
  BY <1>0 DEF Clients, lists
<1>8. NamesUnique' /\ Listed' /\ Nameless'
  BY <1>0, <1>7 DEF IInv, NamesUnique, Named, Listed, Nameless, lists
<1>9. NoGhosts' /\ UnknownRoomsEmpty'
  BY <1>0, <1>4, <1>7 DEF IInv, NoGhosts, UnknownRoomsEmpty, Members
<1>10. RoomsCount'
  BY <1>1, <1>2 DEF IInv, RoomsCount
<1> QED BY <1>6, <1>8, <1>9, <1>10 DEF IInv

LEMMA MessageIgnoredKeeps ==
  ASSUME IInv, NEW c \in Conn, NEW r \in AnyRoom, MessageIgnored(c, r)
  PROVE  IInv'
<1>1. late' \in SUBSET Conn
  BY LateType DEF MessageIgnored, IInv
<1> QED BY <1>1, QuietStepKeeps, ReplyTypes DEF MessageIgnored, IInv, TypeOK

LEMMA ListRoomUsersKeeps ==
  ASSUME IInv, NEW c \in Conn, NEW r \in AnyRoom, ListRoomUsers(c, r)
  PROVE  IInv'
<1> DEFINE ns == IF r \in tree THEN Occupants(room[r]) ELSE {}
<1>1. ServFindClient(name[c], None) = c
  BY FindsByName DEF ListRoomUsers, Request
<1>2. ns \in SUBSET Name
  BY MembersAreNames DEF IInv, TypeOK, Members
<1>3. Transmit(UsersReply(c, r, ns))
  BY <1>1 DEF ListRoomUsers
<1>4. up' \in BOOLEAN /\ out' \in MessageType
  BY <1>2, <1>3, TransmitType, ReplyTypes
<1>5. /\ UNCHANGED <<lists, name, active_rooms, tree, room, gone, dropped>>
      /\ late' \in SUBSET Conn
  BY LateType DEF ListRoomUsers, IInv
<1> QED BY <1>4, <1>5, QuietStepKeeps DEF IInv, TypeOK

(* Forgetting a client, together with a descriptor list that is counted    *)
(* right, keeps IInv.                                                      *)
LEMMA ForgettingStepKeeps ==
  ASSUME IInv, NEW c \in Clients, ForgetClient(c), UNCHANGED tree,
         up' \in BOOLEAN, out' \in MessageType, dropped' \in BOOLEAN,
         late' \in SUBSET Conn,
         full_fd_list' \in Seq(Fd), num_fds' = CountOf(full_fd_list')
  PROVE  IInv'
<1>1. /\ cli_list' \in Seq(Conn)
      /\ IsInjective(cli_list')
      /\ num_clients' = Len(cli_list') /\ num_clients' \in Nat
      /\ name' \in [Conn -> Name \cup {None}]
      /\ active_rooms' \in [Conn -> [Active -> AnyRoom \cup {None}]]
      /\ room' \in [Room -> RoomInfo(Name, Text)]
      /\ gone' \in SUBSET Conn
      /\ NamesUnique' /\ NoGhosts' /\ RoomsCount'
      /\ Nameless' /\ UnknownRoomsEmpty'
  BY ForgetKeeps
<1>2. num_fds' \in Nat
  BY LenProperties DEF CountOf
<1>3. tree' \in SUBSET Room
  BY DEF IInv, TypeOK
<1>4. TypeOK'
  BY <1>1, <1>2, <1>3 DEF TypeOK
<1> QED BY <1>1, <1>4 DEF IInv, Listed

LEMMA ExitKeeps ==
  ASSUME IInv, NEW c \in Conn, Exit(c)
  PROVE  IInv'
<1>0. c \in Clients /\ name[c] # None /\ UNCHANGED <<tree, dropped>>
  BY DEF Exit, Request, Ready
<1>1. ServFindClient(name[c], None) = c
  BY <1>0, FindsByName
<1>2. Transmit(ExitReply(c)) /\ IrcShutdownClient(c)
  BY <1>1 DEF Exit
<1>3. full_fd_list' \in Seq(Fd) /\ num_fds' = CountOf(full_fd_list')
  BY <1>2, WithoutFdType DEF IrcShutdownClient, IInv, TypeOK, Listed
<1>4. /\ up' \in BOOLEAN /\ out' \in MessageType /\ dropped' \in BOOLEAN
      /\ late' \in SUBSET Conn
  BY <1>0, <1>2, TransmitType, ReplyTypes, LateType DEF Exit, IInv, TypeOK
<1> QED
  BY <1>0, <1>2, <1>3, <1>4, ForgettingStepKeeps DEF IrcShutdownClient

LEMMA PeerClosesKeeps ==
  ASSUME IInv, NEW c \in Conn, PeerCloses(c)
  PROVE  IInv'
BY QuietStepKeeps, ReplyTypes DEF PeerCloses, IInv, TypeOK

LEMMA DisconnectCrashesKeeps ==
  ASSUME IInv, NEW c \in Conn, DisconnectCrashes(c)
  PROVE  IInv'
<1>0. /\ c \in Clients
      /\ IrcShutdownClient(c)
      /\ up' = FALSE /\ dropped' = TRUE /\ out' = Quiet /\ UNCHANGED tree
  BY DEF DisconnectCrashes, Ready
<1>1. full_fd_list' \in Seq(Fd) /\ num_fds' = CountOf(full_fd_list')
  BY <1>0, WithoutFdType DEF IrcShutdownClient, IInv, TypeOK, Listed
<1>2. /\ up' \in BOOLEAN /\ out' \in MessageType /\ dropped' \in BOOLEAN
      /\ late' \in SUBSET Conn
  BY <1>0, ReplyTypes, LateType DEF DisconnectCrashes, IInv
<1> QED BY <1>0, <1>1, <1>2, ForgettingStepKeeps DEF IrcShutdownClient

LEMMA DisconnectSurvivesKeeps ==
  ASSUME IInv, NEW c \in Conn, DisconnectSurvives(c)
  PROVE  IInv'
<1> DEFINE once == WithoutFd(full_fd_list, c)
<1>0. /\ c \in Clients
      /\ num_fds' = CountWithout(CountWithout(num_fds))
      /\ full_fd_list' = WithoutFd(once, c)
      /\ ForgetClient(c)
      /\ dropped' = TRUE /\ out' = Quiet /\ UNCHANGED <<up, tree>>
  BY DEF DisconnectSurvives, Ready
<1>1. full_fd_list \in Seq(Fd) /\ num_fds = CountOf(full_fd_list)
  BY DEF IInv, TypeOK, Listed
<1>2. once \in Seq(Fd) /\ CountWithout(num_fds) = CountOf(once)
  BY <1>1, WithoutFdType
<1> HIDE DEF once
<1>3. full_fd_list' \in Seq(Fd) /\ num_fds' = CountOf(full_fd_list')
  BY <1>0, <1>2, WithoutFdType
<1>4. late' \in SUBSET Conn
  BY DEF DisconnectSurvives, StillToCome, IInv, TypeOK
<1>5. up' \in BOOLEAN /\ out' \in MessageType /\ dropped' \in BOOLEAN
  BY <1>0, ReplyTypes DEF IInv, TypeOK
<1> QED BY <1>0, <1>3, <1>4, <1>5, ForgettingStepKeeps

LEMMA EndsKeep ==
  ASSUME IInv, HeapCrashes \/ SelectFails
  PROVE  IInv'
<1>1. /\ up' = FALSE /\ out' = Quiet
      /\ UNCHANGED <<lists, name, active_rooms, tree, room, gone, dropped, late>>
  BY DEF HeapCrashes, SelectFails
<1> QED BY <1>1, QuietStepKeeps, ReplyTypes DEF IInv, TypeOK

LEMMA NextKeeps == IInv /\ [Next]_vars => IInv'
<1> SUFFICES ASSUME IInv, [Next]_vars PROVE IInv'
  OBVIOUS
<1>1. ASSUME NEW c \in Conn, TakeNewConnection(c) PROVE IInv'
  BY <1>1, TakeNewConnectionKeeps
<1>2. ASSUME NEW c \in Conn, NEW n \in Name, AcceptNewCli(c, n) PROVE IInv'
  BY <1>2, AcceptNewCliKeeps
<1>3. ASSUME NEW c \in Conn, NEW r \in AnyRoom, JoinRefused(c, r) PROVE IInv'
  BY <1>3, JoinRefusedKeeps
<1>4. ASSUME NEW c \in Conn, NEW r \in Room, JoinRoom(c, r) PROVE IInv'
  BY <1>4, JoinRoomKeeps
<1>5. ASSUME NEW c \in Conn, NEW r \in LongRoom, JoinLongRoom(c, r) PROVE IInv'
  BY <1>5, JoinLongRoomKeeps
<1>6. ASSUME NEW c \in Conn, NEW r \in AnyRoom, LeaveRoom(c, r) PROVE IInv'
  BY <1>6, LeaveRoomKeeps
<1>7. ASSUME NEW c \in Conn, NEW r \in Room, NEW t \in Text, Message(c, r, t)
      PROVE IInv'
  BY <1>7, MessageKeeps
<1>8. ASSUME NEW c \in Conn, NEW r \in AnyRoom, MessageIgnored(c, r) PROVE IInv'
  BY <1>8, MessageIgnoredKeeps
<1>9. ASSUME NEW c \in Conn, NEW r \in AnyRoom, ListRoomUsers(c, r) PROVE IInv'
  BY <1>9, ListRoomUsersKeeps
<1>10. ASSUME NEW c \in Conn, Exit(c) PROVE IInv'
  BY <1>10, ExitKeeps
<1>11. ASSUME NEW c \in Conn, PeerCloses(c) PROVE IInv'
  BY <1>11, PeerClosesKeeps
<1>12. ASSUME NEW c \in Conn, DisconnectCrashes(c) PROVE IInv'
  BY <1>12, DisconnectCrashesKeeps
<1>13. ASSUME NEW c \in Conn, DisconnectSurvives(c) PROVE IInv'
  BY <1>13, DisconnectSurvivesKeeps
<1>14. CASE UNCHANGED vars
  <2>1. UNCHANGED <<lists, name, active_rooms, tree, room, dropped>>
    BY <1>14 DEF vars
  <2>2. /\ up' \in BOOLEAN /\ out' \in MessageType /\ gone' \in SUBSET Conn
        /\ late' \in SUBSET Conn
    BY <1>14 DEF vars, IInv, TypeOK
  <2> QED BY <2>1, <2>2, QuietStepKeeps
<1>15. CASE HeapCrashes \/ SelectFails
  BY <1>15, EndsKeep
<1> QED
  BY <1>1, <1>2, <1>3, <1>4, <1>5, <1>6, <1>7, <1>8, <1>9, <1>10, <1>11,
     <1>12, <1>13, <1>14, <1>15 DEF Next, ServeClient

(* IInv holds in every reachable state.                                    *)
THEOREM Invariance == Spec => []IInv
<1>1. Init => IInv
  BY InitIInv
<1>2. IInv /\ [Next]_vars => IInv'
  BY NextKeeps
<1> QED BY <1>1, <1>2, PTL DEF Spec

-----------------------------------------------------------------------------
(* The invariants themselves.                                              *)

(* The state of the server always has its type: no handler makes a counter *)
(* negative or a list of something else than descriptors.                  *)
THEOREM TypeCorrect == Spec => []TypeOK
<1>1. IInv => TypeOK
  BY DEF IInv
<1> QED BY <1>1, Invariance, PTL

(* Connected clients never share a name, so that the lookups by name of    *)
(* every handler find the client that made the request.                    *)
THEOREM UniqueNames == Spec => []NamesUnique
<1>1. IInv => NamesUnique
  BY DEF IInv
<1> QED BY <1>1, Invariance, PTL

(* No user remains in a room after the connection is gone, whichever way   *)
(* it ended, and however rooms were joined again or found full before.     *)
THEOREM NobodyLeftBehind == Spec => []NoGhosts
<1>1. IInv => NoGhosts
  BY DEF IInv
<1> QED BY <1>1, Invariance, PTL

(* The users counter of every room is exact and a user has one slot.       *)
THEOREM CountsExact == Spec => []RoomsCount
<1>1. IInv => RoomsCount
  BY DEF IInv
<1> QED BY <1>1, Invariance, PTL

-----------------------------------------------------------------------------
(* 3. The two lists of connections.                                        *)

(* ListsAgree.                                                             *)

(* The client list behind the two descriptors that are always watched.     *)
LEMMA BehindTheTwo ==
  ASSUME NEW s \in Seq(Conn)
  PROVE  LET t == <<Serv, Stdin>> \o s IN
         /\ t \in Seq(Fd)
         /\ Len(t) = Len(s) + 2
         /\ t[1] = Serv /\ t[2] = Stdin
         /\ \A i \in 1 .. Len(s) : t[i + 2] = s[i]
<1>1. /\ <<Serv, Stdin>> \in Seq(Fd) /\ Len(<<Serv, Stdin>>) = 2
      /\ <<Serv, Stdin>>[1] = Serv /\ <<Serv, Stdin>>[2] = Stdin
  BY DEF Fd
<1>2. s \in Seq(Fd) /\ Len(s) \in Nat
  BY LenProperties, SeqMonotonic DEF Fd
<1> QED BY <1>1, <1>2, ConcatProperties

(* A new client comes last in both.                                        *)
LEMMA AppendsBoth ==
  ASSUME NEW s \in Seq(Conn), NEW c \in Conn
  PROVE  Append(<<Serv, Stdin>> \o s, c) = <<Serv, Stdin>> \o Append(s, c)
<1> DEFINE t == <<Serv, Stdin>> \o s
           u == <<Serv, Stdin>> \o Append(s, c)
<1>1. /\ t \in Seq(Fd) /\ Len(t) = Len(s) + 2
      /\ t[1] = Serv /\ t[2] = Stdin
      /\ \A i \in 1 .. Len(s) : t[i + 2] = s[i]
  BY BehindTheTwo
<1>2. /\ Append(s, c) \in Seq(Conn) /\ Len(Append(s, c)) = Len(s) + 1
      /\ \A i \in 1 .. Len(s) : Append(s, c)[i] = s[i]
      /\ Append(s, c)[Len(s) + 1] = c
      /\ Len(s) \in Nat
  BY AppendProperties, LenProperties
<1>3. /\ u \in Seq(Fd) /\ Len(u) = Len(s) + 3
      /\ u[1] = Serv /\ u[2] = Stdin
      /\ \A i \in 1 .. Len(s) + 1 : u[i + 2] = Append(s, c)[i]
  <2> DEFINE a == Append(s, c)
  <2>1. a \in Seq(Conn) /\ Len(a) = Len(s) + 1
    BY <1>2
  <2> HIDE DEF a
  <2>2. LET w == <<Serv, Stdin>> \o a IN
        /\ w \in Seq(Fd) /\ Len(w) = Len(a) + 2
        /\ w[1] = Serv /\ w[2] = Stdin
        /\ \A i \in 1 .. Len(a) : w[i + 2] = a[i]
    BY <2>1, BehindTheTwo
  <2>3. u = <<Serv, Stdin>> \o a
    BY DEF a
  <2> QED BY <1>2, <2>1, <2>2, <2>3 DEF a
<1>4. /\ Append(t, c) \in Seq(Fd) /\ Len(Append(t, c)) = Len(s) + 3
      /\ \A i \in 1 .. Len(s) + 2 : Append(t, c)[i] = t[i]
      /\ Append(t, c)[Len(s) + 3] = c
  BY <1>1, <1>2, AppendProperties DEF Fd
<1> HIDE DEF t, u
<1>5. \A i \in 1 .. Len(s) + 3 : Append(t, c)[i] = u[i]
  <2>1. SUFFICES ASSUME NEW i \in 1 .. Len(s) + 3 PROVE Append(t, c)[i] = u[i]
    OBVIOUS
  <2>2. CASE i \in {1, 2}
    BY <1>1, <1>2, <1>3, <1>4, <2>2
  <2>3. CASE i \in 3 .. Len(s) + 2
    <3> DEFINE j == i - 2
    <3>1. j \in 1 .. Len(s) /\ j + 2 = i
      BY <1>2, <2>3
    <3>2. t[i] = s[j] /\ u[i] = s[j]
      BY <1>1, <1>2, <1>3, <3>1
    <3> QED BY <1>2, <1>4, <2>3, <3>2
  <2>4. CASE i = Len(s) + 3
    <3>1. Len(s) + 1 \in 1 .. Len(s) + 1 /\ (Len(s) + 1) + 2 = i
      BY <1>2, <2>4
    <3>2. u[i] = c
      BY <1>2, <1>3, <3>1
    <3> QED BY <1>4, <2>4, <3>2
  <2>5. i \in {1, 2} \/ i \in 3 .. Len(s) + 2 \/ i = Len(s) + 3
    BY <1>2
  <2> QED BY <2>2, <2>3, <2>4, <2>5
<1>6. Append(t, c) = u
  BY <1>3, <1>4, <1>5, SeqEqual
<1> QED BY <1>6 DEF t, u

(* A client that leaves, leaves both at the same place.                    *)
LEMMA RemovesBoth ==
  ASSUME NEW s \in Seq(Conn), IsInjective(s), NEW c \in Range(s)
  PROVE  WithoutFd(<<Serv, Stdin>> \o s, c) =
           <<Serv, Stdin>> \o RemoveAt(s, Index(s, c))
<1> DEFINE t == <<Serv, Stdin>> \o s
           j == Index(s, c)
           k == Index(t, c)
           u == <<Serv, Stdin>> \o RemoveAt(s, j)
           v == RemoveAt(t, k)
<1>1. /\ t \in Seq(Fd) /\ Len(t) = Len(s) + 2 /\ Len(s) \in Nat
      /\ t[1] = Serv /\ t[2] = Stdin
      /\ \A i \in 1 .. Len(s) : t[i + 2] = s[i]
  BY BehindTheTwo, LenProperties
<1>2. j \in 1 .. Len(s) /\ s[j] = c /\ c \in Conn
  BY IndexFinds, ElementOfSeq
<1>3. c \in Range(t)
  <2>1. j + 2 \in 1 .. Len(t) /\ t[j + 2] = c
    BY <1>1, <1>2
  <2>2. DOMAIN t = 1 .. Len(t)
    BY <1>1, LenProperties
  <2> QED BY <2>1, <2>2 DEF Range
<1>4. k \in 1 .. Len(s) + 2 /\ t[k] = c
  BY <1>1, <1>3, IndexFinds
<1> HIDE DEF t, j, k
<1>5. k = j + 2
  <2>1. k # 1 /\ k # 2
    BY <1>1, <1>2, <1>4, DistinctAssumption
  <2>2. k - 2 \in 1 .. Len(s) /\ (k - 2) + 2 = k
    BY <1>1, <1>4, <2>1
  <2>3. s[k - 2] = c
    BY <1>1, <1>4, <2>2
  <2>4. DOMAIN s = 1 .. Len(s)
    BY LenProperties
  <2>5. k - 2 = j
    BY <1>2, <2>2, <2>3, <2>4 DEF IsInjective
  <2> QED BY <1>1, <1>2, <1>4, <2>5
<1>6. /\ v \in Seq(Fd) /\ Len(v) = Len(s) + 1
      /\ \A i \in 1 .. Len(s) + 1 : v[i] = IF i < k THEN t[i] ELSE t[i + 1]
  <2>1. k \in 1 .. Len(t)
    BY <1>1, <1>4
  <2>2. /\ v \in Seq(Fd) /\ Len(v) = Len(t) - 1
        /\ \A i \in 1 .. Len(t) - 1 : v[i] = IF i < k THEN t[i] ELSE t[i + 1]
    BY <1>1, <2>1, RemoveAtElements
  <2>3. Len(t) - 1 = Len(s) + 1
    BY <1>1
  <2> QED BY <2>2, <2>3
<1>7. /\ RemoveAt(s, j) \in Seq(Conn) /\ Len(RemoveAt(s, j)) = Len(s) - 1
      /\ \A i \in 1 .. Len(s) - 1 :
           RemoveAt(s, j)[i] = IF i < j THEN s[i] ELSE s[i + 1]
  BY <1>2, RemoveAtElements
<1>8. /\ u \in Seq(Fd) /\ Len(u) = Len(s) + 1
      /\ u[1] = Serv /\ u[2] = Stdin
      /\ \A i \in 1 .. Len(s) - 1 : u[i + 2] = RemoveAt(s, j)[i]
  BY <1>1, <1>7, BehindTheTwo
<1> HIDE DEF u, v
<1>9. \A i \in 1 .. Len(s) + 1 : v[i] = u[i]
  <2>1. SUFFICES ASSUME NEW i \in 1 .. Len(s) + 1 PROVE v[i] = u[i]
    OBVIOUS
  <2>2. CASE i \in {1, 2}
    BY <1>1, <1>2, <1>5, <1>6, <1>8, <2>2
  <2>3. CASE i \in 3 .. Len(s) + 1
    <3> DEFINE m == i - 2
    <3>1. m \in 1 .. Len(s) - 1 /\ m + 2 = i /\ m \in Int
      BY <1>1, <2>3
    <3>2. u[i] = IF m < j THEN s[m] ELSE s[m + 1]
      BY <1>7, <1>8, <3>1
    <3>3. t[i] = s[m]
      BY <1>1, <3>1
    <3>4. t[i + 1] = s[m + 1]
      <4>1. m + 1 \in 1 .. Len(s) /\ (m + 1) + 2 = i + 1
        BY <1>1, <3>1
      <4> QED BY <1>1, <4>1
    <3>5. i < k <=> m < j
      BY <1>1, <1>2, <1>5, <2>3
    <3> QED BY <1>6, <3>2, <3>3, <3>4, <3>5
  <2>4. i \in {1, 2} \/ i \in 3 .. Len(s) + 1
    BY <1>1
  <2> QED BY <2>2, <2>3, <2>4
<1>10. v = u
  BY <1>6, <1>8, <1>9, SeqEqual
<1>11. WithoutFd(t, c) = v
  <2>1. ~(Len(t) <= 1)
    BY <1>1, <1>2
  <2> QED BY <1>3, <2>1 DEF WithoutFd, v, k
<1> QED BY <1>10, <1>11 DEF t, u, j

(* Then the counters are the lengths of their lists.                       *)
LEMMA AgreeSuffices ==
  ASSUME IInv'
  PROVE  full_fd_list' = <<Serv, Stdin>> \o cli_list' =>
           num_fds' = Len(full_fd_list') /\ num_clients' = Len(cli_list')
<1>1. SUFFICES ASSUME full_fd_list' = <<Serv, Stdin>> \o cli_list'
               PROVE  num_fds' = Len(full_fd_list') /\ num_clients' = Len(cli_list')
  OBVIOUS
<1>2. /\ full_fd_list' \in Seq(Fd) /\ Len(full_fd_list') = Len(cli_list') + 2
      /\ Len(cli_list') \in Nat
  BY <1>1, BehindTheTwo, LenProperties DEF IInv, TypeOK
<1>3. full_fd_list' # <<>>
  BY <1>2, EmptySeq
<1> QED BY <1>3 DEF IInv, Listed, CountOf

(* A list that agrees is there.                                            *)
LEMMA AgreeNotEmpty ==
  ASSUME IInv', ListsAgree'
  PROVE  full_fd_list' = <<>> => dropped'
<1>1. SUFFICES ASSUME full_fd_list' = <<Serv, Stdin>> \o cli_list'
               PROVE  full_fd_list' # <<>>
  BY DEF ListsAgree
<1>2. full_fd_list' \in Seq(Fd) /\ Len(full_fd_list') = Len(cli_list') + 2
      /\ Len(cli_list') \in Nat
  BY <1>1, BehindTheTwo, LenProperties DEF IInv, TypeOK
<1> QED BY <1>2, EmptySeq

LEMMA AgreeKept ==
  ASSUME IInv, IInv', ListsAgree, [Next]_vars
  PROVE  ListsAgree'
<1>2. SUFFICES ASSUME ~dropped'
               PROVE  full_fd_list' = <<Serv, Stdin>> \o cli_list'
  BY AgreeSuffices DEF ListsAgree
<1>3. cli_list \in Seq(Conn) /\ IsInjective(cli_list)
  BY DEF IInv, TypeOK, Listed
<1>4. dropped' = dropped => full_fd_list = <<Serv, Stdin>> \o cli_list
  BY <1>2 DEF ListsAgree
<1>5. ASSUME NEW c \in Conn, TakeNewConnection(c)
      PROVE  full_fd_list' = <<Serv, Stdin>> \o cli_list'
  BY <1>3, <1>4, <1>5, AppendsBoth DEF TakeNewConnection
<1>6. ASSUME NEW c \in Conn, Exit(c)
      PROVE  full_fd_list' = <<Serv, Stdin>> \o cli_list'
  <2>1. /\ c \in Clients /\ name[c] # None /\ dropped' = dropped
    BY <1>6 DEF Exit, Request, Ready
  <2>2. \A fd : ServFindClient(name[c], fd) = c
    BY <2>1, FindsByName
  <2>3. /\ full_fd_list' = WithoutFd(full_fd_list, c)
        /\ ServRemoveClient(c)
    BY <1>6, <2>2 DEF Exit, IrcShutdownClient, ForgetClient
  <2>4. cli_list' = RemoveAt(cli_list, Index(cli_list, c))
    BY <2>1, <2>2, <2>3 DEF ServRemoveClient
  <2> QED BY <1>3, <1>4, <2>1, <2>3, <2>4, RemovesBoth DEF Clients
<1>7. CASE UNCHANGED <<cli_list, full_fd_list, dropped>>
  BY <1>4, <1>7
<1>8. \/ \E c \in Conn : TakeNewConnection(c) \/ Exit(c)
      \/ UNCHANGED <<cli_list, full_fd_list, dropped>>
      \/ dropped'
  BY DEF Next, ServeClient, HeapCrashes, SelectFails, vars, lists, AcceptNewCli, JoinRefused, JoinRoom, JoinLongRoom,
         LeaveRoom, Message, MessageIgnored, ListRoomUsers, PeerCloses,
         DisconnectCrashes, DisconnectSurvives
<1> QED BY <1>2, <1>5, <1>6, <1>7, <1>8

(* The two lists of connections are kept separately and lose the same      *)
(* connection at every RC_EXIT: until a client vanishes without one,       *)
(* select() is given the server socket, stdin and exactly the clients, and *)
(* both counters are the lengths of their lists.                           *)
THEOREM ListsStayTogether == Spec => []ListsAgree
<1>1. Init => ListsAgree
  <2> SUFFICES ASSUME Init PROVE ListsAgree
    OBVIOUS
  <2>1. <<Serv, Stdin>> \o <<>> = <<Serv, Stdin>>
    OBVIOUS
  <2> QED BY <2>1 DEF Init, ListsAgree
<1>2. IInv /\ IInv' /\ ListsAgree /\ [Next]_vars => ListsAgree'
  BY AgreeKept
<1> QED BY <1>1, <1>2, Invariance, PTL DEF Spec

-----------------------------------------------------------------------------
(* WatchesOnlyOpen.                                                        *)

(* irc_remove_fd_list lists nothing that was not listed, and no more the   *)
(* descriptor to remove, whether or not it was there.                      *)
LEMMA WithoutFdWatch ==
  ASSUME NEW fds \in Seq(Fd), IsInjective(fds), NEW c
  PROVE  /\ WithoutFd(fds, c) \in Seq(Fd)
         /\ IsInjective(WithoutFd(fds, c))
         /\ Range(WithoutFd(fds, c)) \subseteq Range(fds) \ {c}
<1>0. Len(fds) \in Nat
  BY LenProperties
<1>1. CASE Len(fds) <= 1
  <2>1. WithoutFd(fds, c) = <<>>
    BY <1>1 DEF WithoutFd
  <2> QED BY <2>1, EmptySeq DEF IsInjective, Range
<1>2. CASE Len(fds) > 1 /\ c \in Range(fds)
  <2>1. Index(fds, c) \in 1 .. Len(fds) /\ fds[Index(fds, c)] = c
    BY <1>2, IndexFinds
  <2>2. WithoutFd(fds, c) = RemoveAt(fds, Index(fds, c))
    BY <1>0, <1>2 DEF WithoutFd
  <2> QED BY <2>1, <2>2, RemoveAtRange, RemoveAtElements
<1>3. CASE Len(fds) > 1 /\ c \notin Range(fds)
  <2>1. Len(fds) \in 1 .. Len(fds)
    BY <1>0, <1>3
  <2>2. WithoutFd(fds, c) = RemoveAt(fds, Len(fds))
    BY <1>0, <1>3 DEF WithoutFd
  <2> QED BY <1>3, <2>1, <2>2, RemoveAtRange, RemoveAtElements
<1> QED BY <1>0, <1>1, <1>2, <1>3

(* A handler that changes neither list.                                    *)
LEMMA SameListsWatch ==
  ASSUME WatchesOnlyOpen, UNCHANGED lists, UNCHANGED dropped
  PROVE  WatchesOnlyOpen'
BY DEF WatchesOnlyOpen, Clients, lists

(* A client shut down, once or twice.                                      *)
LEMMA ForgettingWatch ==
  ASSUME IInv, IInv', WatchesOnlyOpen, ListsAgree', NEW c \in Clients,
         ForgetClient(c), NEW fds \in Seq(Fd), IsInjective(fds),
         Range(fds) \subseteq Range(full_fd_list),
         full_fd_list' = WithoutFd(fds, c)
  PROVE  WatchesOnlyOpen'
<1>1. /\ IsInjective(full_fd_list')
      /\ Range(full_fd_list') \subseteq Range(full_fd_list) \ {c}
  BY WithoutFdWatch
<1>2. Clients' = Clients \ {c}
  BY RemovesClient DEF ForgetClient
<1>3. full_fd_list' = <<>> => dropped'
  BY AgreeNotEmpty
<1> QED BY <1>1, <1>2, <1>3 DEF WatchesOnlyOpen

LEMMA WatchKept ==
  ASSUME IInv, IInv', ListsAgree', WatchesOnlyOpen, [Next]_vars
  PROVE  WatchesOnlyOpen'
<1>0. /\ full_fd_list \in Seq(Fd) /\ IsInjective(full_fd_list)
      /\ Clients \subseteq Conn
  BY ClientsType DEF IInv, TypeOK, WatchesOnlyOpen
<1>1. ASSUME NEW c \in Conn, TakeNewConnection(c) PROVE WatchesOnlyOpen'
  <2>1. /\ c \notin Clients
        /\ full_fd_list' = Append(full_fd_list, c)
        /\ cli_list' = Append(cli_list, c)
    BY <1>1 DEF TakeNewConnection
  <2>2. Range(full_fd_list) \subseteq Clients \cup {Serv, Stdin}
    BY DEF WatchesOnlyOpen
  <2>3. c \notin Range(full_fd_list) /\ c \in Fd
    BY <2>1, <2>2, DistinctAssumption DEF Fd
  <2>4. /\ IsInjective(full_fd_list')
        /\ Range(full_fd_list') = Range(full_fd_list) \cup {c}
    BY <1>0, <2>1, <2>3, AppendRange
  <2>5. Clients' = Clients \cup {c}
    BY <2>1, AppendRange DEF IInv, TypeOK, Clients
  <2>6. full_fd_list' = <<>> => dropped'
    BY AgreeNotEmpty
  <2> QED BY <2>2, <2>4, <2>5, <2>6 DEF WatchesOnlyOpen
<1>2. ASSUME NEW c \in Conn, Exit(c) PROVE WatchesOnlyOpen'
  <2>1. c \in Clients /\ name[c] # None
    BY <1>2 DEF Exit, Request, Ready
  <2>2. ServFindClient(name[c], None) = c
    BY <2>1, FindsByName
  <2>3. ForgetClient(c) /\ full_fd_list' = WithoutFd(full_fd_list, c)
    BY <1>2, <2>2 DEF Exit, IrcShutdownClient
  <2> QED BY <1>0, <2>1, <2>3, ForgettingWatch
<1>3. ASSUME NEW c \in Conn, DisconnectCrashes(c) PROVE WatchesOnlyOpen'
  BY <1>0, <1>3, ForgettingWatch DEF DisconnectCrashes, Ready, IrcShutdownClient
<1>4. ASSUME NEW c \in Conn, DisconnectSurvives(c) PROVE WatchesOnlyOpen'
  <2> DEFINE once == WithoutFd(full_fd_list, c)
  <2>1. /\ c \in Clients /\ ForgetClient(c)
        /\ full_fd_list' = WithoutFd(once, c)
    BY <1>4 DEF DisconnectSurvives, Ready
  <2>2. /\ once \in Seq(Fd) /\ IsInjective(once)
        /\ Range(once) \subseteq Range(full_fd_list)
    BY <1>0, WithoutFdWatch
  <2> HIDE DEF once
  <2> QED BY <2>1, <2>2, ForgettingWatch
<1>5. CASE UNCHANGED lists /\ UNCHANGED dropped
  BY <1>5, SameListsWatch
<1>6. \/ \E c \in Conn : \/ TakeNewConnection(c)
                         \/ Exit(c)
                         \/ DisconnectCrashes(c)
                         \/ DisconnectSurvives(c)
      \/ UNCHANGED lists /\ UNCHANGED dropped
  BY DEF Next, ServeClient, HeapCrashes, SelectFails, vars, AcceptNewCli,
         JoinRefused, JoinRoom, JoinLongRoom, LeaveRoom, Message,
         MessageIgnored, ListRoomUsers, PeerCloses
<1> QED BY <1>1, <1>2, <1>3, <1>4, <1>5, <1>6

LEMMA WatchInit == Init => WatchesOnlyOpen
<1> SUFFICES ASSUME Init PROVE WatchesOnlyOpen
  OBVIOUS
<1>1. full_fd_list = <<Serv, Stdin>>
  BY DEF Init
<1>2. Range(full_fd_list) \subseteq {Serv, Stdin} /\ full_fd_list # <<>>
  BY <1>1 DEF Range
<1>3. IsInjective(full_fd_list)
  BY <1>1, DistinctAssumption DEF IsInjective
<1> QED BY <1>2, <1>3 DEF WatchesOnlyOpen

(* The descriptors in full_fd_list are open ones, each listed once, and    *)
(* the second shutdown of a client that vanished changes nothing about     *)
(* that: it shortens the list at its end.  What the second shutdown can do *)
(* is lose the list, and only it can: then select() has no list to be      *)
(* given and is called with the set it returned, closed descriptors and    *)
(* all, which is the action SelectFails.                                   *)
THEOREM OnlyOpenWatched == Spec => []WatchesOnlyOpen
<1>1. Init => WatchesOnlyOpen
  BY WatchInit
<1>2. /\ IInv /\ IInv' /\ ListsAgree' /\ WatchesOnlyOpen
      /\ [Next]_vars
      => WatchesOnlyOpen'
  BY WatchKept
<1> QED BY <1>1, <1>2, Invariance, ListsStayTogether, PTL DEF Spec
=============================================================================
