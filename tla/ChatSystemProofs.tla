-------------------------- MODULE ChatSystemProofs --------------------------
(***************************************************************************)
(* Proofs about ChatSystem for any number of rooms, entries, users and     *)
(* messages under way: the server inside the composition is the server of  *)
(* IrcServer, the client's state keeps its type, room_count counts, and    *)
(* the current room exists whenever the user is asked for a line.          *)
(*                                                                         *)
(* The inductive invariant follows the two threads of the client through   *)
(* the places where they are in the middle of changing the room list.      *)
(***************************************************************************)
EXTENDS ChatSystem, IrcServerProofs

KeyboardPlace ==
  {"logon", "wait", "read", "chat", "other", "join", "leave", "users", "msg",
   "show", "exit", "send chat", "switch", "display", "join thread"}

SocketPlace ==
  {"none", "recv", "message", "history", "joined", "remove", "current?",
   "switch", "display", "add", "name", "make current", "all left?",
   "free rooms", "default room", "ended"}

(* Where the socket thread still uses the name in the message.             *)
NamesRoom ==
  {"message", "history", "joined", "remove", "current?", "switch", "display",
   "add", "name", "make current"}

KeyboardType ==
  /\ keyboard \in [at : KeyboardPlace, line : AnyRoom \cup {None, "FAILURE"},
                   i : Active, room : AnyRoom \cup {None, Unnamed}]
  /\ keyboard.at \notin {"logon", "wait"} =>
       keyboard.line \in AnyRoom \cup {None}
  /\ keyboard.at \in {"join", "msg", "show"} => keyboard.line \in AnyRoom
  /\ keyboard.at \in {"chat", "other", "leave", "users", "send chat"}
       /\ keyboard.line = None => keyboard.room \in AnyRoom \cup {Unnamed}

SocketType ==
  /\ socket \in [at : SocketPlace, room : AnyRoom \cup {None},
                 next : {"recv", "all left?", "add"}, i : Active]
  /\ socket.at \in NamesRoom => socket.room \in AnyRoom

(* Between two steps the socket thread knows this of the entry it works on. *)
Working ==
  /\ socket.at = "switch" => rooms[socket.i] # None
  /\ socket.at = "name" => rooms[socket.i] = Unnamed
  /\ socket.at = "make current" => rooms[socket.i] \in AnyRoom
  /\ socket.at = "default room" =>
       /\ rooms[0] = Unnamed
       /\ \A i \in Active \ {0} : rooms[i] \in {None, Freed}

NoRoomYet ==
  keyboard.at \in {"logon", "wait"} =>
    /\ rooms = [i \in Active |-> None]
    /\ room_count = 0 /\ current_r = 0
    /\ socket.at = "none"

(* The entries in use; a new one is counted when it is complete.           *)
InUse == {i \in Active : rooms[i] \notin {None, Freed}}

Counted ==
  /\ socket.at \notin {"name", "make current", "default room"} =>
       room_count = Cardinality(InUse)
  /\ socket.at \in {"name", "make current"} =>
       room_count + 1 = Cardinality(InUse)

ClientInv ==
  SysTypeOK /\ KeyboardType /\ SocketType /\ Working /\ NoRoomYet /\ Counted

-----------------------------------------------------------------------------
(* The entries of the list.                                                *)

LEMMA ActiveFinite ==
  /\ Active \subseteq Nat /\ 0 \in Active
  /\ IsFiniteSet(Active) /\ Cardinality(Active) = RoomMax
<1>1. RoomMax \in Nat /\ RoomMax > 0
  BY RoomMaxAssumption
<1>2. IsFiniteSet(Active) /\ Cardinality(Active) = RoomMax
  BY <1>1, FS_Interval DEF Active
<1> QED BY <1>1, <1>2 DEF Active

(* A loop over the entries ends at an entry or behind the last one.        *)
LEMMA LeastEntry ==
  ASSUME NEW S \in SUBSET Active, S # {}
  PROVE  Client!Least(S) \in S /\ \A j \in S : Client!Least(S) <= j
<1>1. Client!Least(S) = Least(S)
  BY DEF Client!Least, Least
<1>2. S \in SUBSET Nat
  BY ActiveFinite
<1> QED BY <1>1, <1>2, LeastIsLeast

(* What the loops that look for a room return.                             *)
LEMMA FindReturns ==
  ASSUME NEW r, NEW skipped, NEW k \in Client!Find(r, skipped)
  PROVE  \/ k = Segv
         \/ k = RoomMax
         \/ k \in Active /\ rooms[k] = r
<1> DEFINE S == {i \in Client!RoomIndex : rooms[i] = r} \cup {RoomMax}
           end == Client!Least(S)
<1>1. S \in SUBSET Nat /\ S # {} /\ Client!RoomIndex = Active
  BY ActiveFinite, RoomMaxAssumption DEF Client!RoomIndex, Active
<1>2. end = Least(S)
  BY DEF Client!Least, Least
<1>3. end \in S
  BY <1>1, <1>2, LeastIsLeast
<1>4. k = end \/ k = Segv
  BY DEF Client!Find
<1> QED BY <1>1, <1>3, <1>4

-----------------------------------------------------------------------------
(* The keyboard thread.                                                    *)

Process == {"running", "exited", "crashed", "killed"}

(* What has to be shown of a step that leaves the room list alone.         *)
LEMMA KeyboardStep ==
  ASSUME ClientInv, UNCHANGED <<socket, rooms, room_count, g_serv_crashed>>,
         UNCHANGED <<answers, lost>>,
         proc' \in Process, requests' \in Seq(RequestType),
         current_r' \in Active, KeyboardType',
         keyboard'.at \in {"logon", "wait"} =>
           keyboard.at \in {"logon", "wait"} /\ UNCHANGED current_r
  PROVE  ClientInv'
<1>1. SysTypeOK'
  BY DEF ClientInv, SysTypeOK, Process, KeyboardType
<1>2. SocketType' /\ Working' /\ Counted'
  BY DEF ClientInv, SocketType, Working, Counted, InUse
<1>3. NoRoomYet'
  BY DEF ClientInv, NoRoomYet
<1> QED BY <1>1, <1>2, <1>3 DEF ClientInv

LEMMA SendType ==
  ASSUME ClientInv, NEW req \in RequestType, NEW closed, Client!Send(req, closed)
  PROVE  /\ proc' \in Process /\ requests' \in Seq(RequestType)
         /\ UNCHANGED <<answers, lost>>
<1>1. requests \in Seq(RequestType)
  BY DEF ClientInv, SysTypeOK
<1>2. requests' = IF closed THEN requests ELSE Append(requests, req)
  BY DEF Client!Send
<1>3. requests' \in Seq(RequestType)
  BY <1>1, <1>2
<1>4. proc' \in IF closed THEN {"running", "killed"} ELSE {"running"}
  BY DEF Client!Send
<1>5. UNCHANGED <<answers, lost>>
  BY DEF Client!Send
<1> QED BY <1>3, <1>4, <1>5 DEF Process

LEMMA NextLineType ==
  ASSUME Client!NextLine
  PROVE  KeyboardType' /\ keyboard'.at = "read" /\ keyboard'.line = None
BY ActiveFinite DEF Client!NextLine, KeyboardType, KeyboardPlace

(* A step to another place, with the same line and the same pointer.       *)
LEMMA PlaceType ==
  ASSUME ClientInv, NEW p \in KeyboardPlace \ {"logon"}, NEW i \in Active,
         keyboard' = [keyboard EXCEPT !.at = p, !.i = i],
         p # "wait" => keyboard.at \notin {"logon", "wait"},
         p \in {"join", "msg", "show"} => keyboard.line \in AnyRoom,
         p \in {"chat", "other", "leave", "users", "send chat"} =>
           \/ keyboard.line # None
           \/ keyboard.at \in {"chat", "other", "leave", "users", "send chat"}
  PROVE  KeyboardType' /\ keyboard'.at = p
<1>1. keyboard \in [at : KeyboardPlace, line : AnyRoom \cup {None, "FAILURE"},
                    i : Active, room : AnyRoom \cup {None, Unnamed}]
  BY DEF ClientInv, KeyboardType
<1>2. keyboard' \in [at : KeyboardPlace, line : AnyRoom \cup {None, "FAILURE"},
                     i : Active, room : AnyRoom \cup {None, Unnamed}]
  BY <1>1
<1>3. /\ keyboard'.at = p /\ keyboard'.line = keyboard.line
      /\ keyboard'.room = keyboard.room
  BY <1>1
<1> QED BY <1>2, <1>3 DEF ClientInv, KeyboardType

LEMMA KeyboardPlaceType ==
  ASSUME ClientInv, NEW p \in KeyboardPlace \ {"logon"},
         Client!Keyboard(p),
         p # "wait" => keyboard.at \notin {"logon", "wait"},
         p \in {"join", "msg", "show"} => keyboard.line \in AnyRoom,
         p \in {"chat", "other", "leave", "users", "send chat"} =>
           \/ keyboard.line # None
           \/ keyboard.at \in {"chat", "other", "leave", "users", "send chat"}
  PROVE  KeyboardType' /\ keyboard'.at = p
<1>1. keyboard.i \in Active
  BY DEF ClientInv, SysTypeOK
<1>2. keyboard' = [keyboard EXCEPT !.at = p, !.i = keyboard.i]
  BY DEF Client!Keyboard, ClientInv, KeyboardType
<1> QED BY <1>1, <1>2, PlaceType

LEMMA EnterNameKeeps ==
  ASSUME ClientInv, NEW n \in Nick, NEW closed, Client!EnterName(n, closed)
  PROVE  ClientInv'
<1>1. Client!Req("LOGON", n) \in RequestType
  BY DEF Client!Req, RequestType
<1>2. KeyboardType' /\ keyboard'.at = "wait"
  BY KeyboardPlaceType DEF Client!EnterName, KeyboardPlace
<1>3. /\ UNCHANGED <<socket, rooms, room_count, g_serv_crashed, current_r>>
      /\ keyboard.at = "logon"
      /\ Client!Send(Client!Req("LOGON", n), closed)
  BY DEF Client!EnterName, Client!shared, Client!KeyboardAt
<1>4. current_r' \in Active
  BY <1>3 DEF ClientInv, SysTypeOK
<1> QED BY <1>1, <1>2, <1>3, <1>4, SendType, KeyboardStep

(* A pointer that could be followed leads to a room, or to what was one.   *)
LEMMA DerefType ==
  ASSUME ClientInv, NEW i \in Active, NEW e \in Client!Deref(rooms[i]), e # Segv
  PROVE  e \in AnyRoom \cup {Unnamed} /\ rooms[i] # None
<1>1. rooms[i] \in AnyRoom \cup {None, Unnamed, Freed}
  BY DEF ClientInv, SysTypeOK, RoomEntry
<1>2. CASE rooms[i] = None
  BY <1>2, TokensAssumption DEF Client!Deref
<1>3. CASE rooms[i] = Freed
  <2>1. rooms[i] # None
    BY <1>3, TokensAssumption
  <2>2. e \in {Segv, Garbage}
    BY <1>3, <2>1 DEF Client!Deref
  <2> QED BY <2>1, <2>2, NamesAssumption
<1>4. CASE rooms[i] \notin {None, Freed}
  BY <1>1, <1>4 DEF Client!Deref
<1> QED BY <1>2, <1>3, <1>4

LEMMA ReadLineKeeps ==
  ASSUME ClientInv, NEW line \in Line, Client!ReadLine(line)
  PROVE  ClientInv'
<1>0. /\ UNCHANGED <<socket, rooms, room_count, g_serv_crashed, current_r>>
      /\ UNCHANGED <<requests, answers, lost>>
      /\ keyboard.at = "read" /\ proc = "running"
  BY DEF Client!ReadLine, Client!shared, Client!queues, Client!KeyboardAt
<1>1. current_r \in Active /\ requests \in Seq(RequestType)
  BY DEF ClientInv, SysTypeOK
<1>2. CASE g_serv_crashed
  <2>1. KeyboardType' /\ keyboard'.at = "join thread"
    BY <1>0, <1>2, KeyboardPlaceType DEF Client!ReadLine, KeyboardPlace
  <2>2. proc' = proc
    BY <1>2 DEF Client!ReadLine
  <2> QED BY <1>0, <1>1, <2>1, <2>2, KeyboardStep DEF Process
<1>3. CASE ~g_serv_crashed
  <2>1. PICK e \in Client!RoomOfLine(line) :
          IF e = Segv THEN proc' = "crashed" /\ UNCHANGED keyboard
          ELSE /\ keyboard' = [at |-> line.cmd, line |-> line.room,
                     i |-> IF Client!UsesCurrent(line) THEN current_r ELSE 0,
                     room |-> IF Client!UsesCurrent(line) THEN e ELSE None]
               /\ UNCHANGED proc
    BY <1>3 DEF Client!ReadLine
  <2>2. CASE e = Segv
    <3>1. KeyboardType'
      BY <2>1, <2>2 DEF ClientInv, KeyboardType
    <3> QED BY <1>0, <1>1, <2>1, <2>2, <3>1, KeyboardStep DEF Process
  <2>3. CASE e # Segv
    <3>0. line.cmd # "unread" /\ e \in Client!Deref(rooms[current_r])
      BY <2>3 DEF Client!RoomOfLine
    <3>1. e \in AnyRoom \cup {Unnamed}
      BY <1>1, <2>3, <3>0, DerefType
    <3>2. line \in [cmd : {"chat", "other", "leave", "users", "exit"},
                    room : {None}]
          \/ line \in [cmd : {"join", "leave", "users", "msg", "show"},
                       room : AnyRoom]
      BY <3>0, LineAssumption DEF Client!AnyLine
    <3>3. /\ keyboard'.at = line.cmd /\ keyboard'.line = line.room
          /\ keyboard'.i \in Active
          /\ keyboard'.room \in AnyRoom \cup {None, Unnamed}
          /\ line.room = None /\ line.cmd # "exit" =>
               keyboard'.room \in AnyRoom \cup {Unnamed}
      BY <1>1, <2>1, <2>3, <3>1, ActiveFinite DEF Client!UsesCurrent
    <3>4. keyboard' \in [at : KeyboardPlace,
                         line : AnyRoom \cup {None, "FAILURE"},
                         i : Active, room : AnyRoom \cup {None, Unnamed}]
      <4>1. line.cmd \in KeyboardPlace
        BY <3>2 DEF KeyboardPlace
      <4>2. line.room \in AnyRoom \cup {None, "FAILURE"}
        BY <3>2
      <4>3. PICK j, x : keyboard' = [at |-> line.cmd, line |-> line.room,
                                     i |-> j, room |-> x]
        BY <2>1, <2>3
      <4>4. j \in Active /\ x \in AnyRoom \cup {None, Unnamed}
        BY <3>3, <4>3
      <4> QED BY <4>1, <4>2, <4>3, <4>4
    <3>5. KeyboardType' /\ keyboard'.at \notin {"logon", "wait"}
      BY <3>2, <3>3, <3>4 DEF KeyboardType
    <3> QED BY <1>0, <1>1, <2>1, <2>3, <3>5, KeyboardStep DEF Process
  <2> QED BY <2>2, <2>3
<1> QED BY <1>2, <1>3

LEMMA ReadNoNameKeeps ==
  ASSUME ClientInv, Client!ReadNoName
  PROVE  ClientInv'
<1>1. /\ UNCHANGED <<socket, rooms, room_count, g_serv_crashed, current_r>>
      /\ UNCHANGED <<requests, answers, lost>> /\ UNCHANGED keyboard
      /\ keyboard.at = "logon" /\ proc' = "exited"
  BY DEF Client!ReadNoName, Client!shared, Client!queues, Client!KeyboardAt
<1>2. proc' \in Process /\ requests' \in Seq(RequestType) /\ current_r' \in Active
  BY <1>1 DEF ClientInv, SysTypeOK, Process
<1>3. KeyboardType'
  BY <1>1 DEF ClientInv, KeyboardType
<1> QED BY <1>1, <1>2, <1>3, KeyboardStep

(* A step of the keyboard thread to a place "p", to the next line, or to   *)
(* the end of the process, that sends nothing.                             *)
LEMMA KeyboardQuietStep ==
  ASSUME ClientInv,
         UNCHANGED <<socket, rooms, room_count, g_serv_crashed>>,
         UNCHANGED <<requests, answers, lost>>,
         current_r' \in Active, keyboard.at \notin {"logon", "wait"},
         \/ proc' = "crashed" /\ UNCHANGED keyboard
         \/ proc' \in Process /\ UNCHANGED keyboard
         \/ Client!NextLine /\ UNCHANGED proc
         \/ /\ KeyboardType' /\ keyboard'.at \notin {"logon", "wait"}
            /\ UNCHANGED proc
  PROVE  ClientInv'
<1>1. KeyboardType' /\ keyboard'.at \notin {"logon", "wait"}
  <2>1. CASE UNCHANGED keyboard
    BY <2>1 DEF ClientInv, KeyboardType
  <2> QED BY <2>1, NextLineType
<1>2. proc' \in Process /\ requests' \in Seq(RequestType)
  BY DEF ClientInv, SysTypeOK, Process
<1> QED BY <1>1, <1>2, KeyboardStep

LEMMA TestVoidKeeps ==
  ASSUME ClientInv, Client!TestVoid
  PROVE  ClientInv'
<1>0. /\ UNCHANGED <<socket, rooms, room_count, g_serv_crashed, current_r>>
      /\ UNCHANGED <<requests, answers, lost>>
      /\ keyboard.at \in {"chat", "other"}
  BY DEF Client!TestVoid, Client!shared, Client!queues, Client!KeyboardAt
<1>1. current_r' \in Active
  BY <1>0 DEF ClientInv, SysTypeOK
<1>2. ASSUME Client!Keyboard("send chat")
      PROVE  KeyboardType' /\ keyboard'.at \notin {"logon", "wait"}
  <2>1. "send chat" \in KeyboardPlace \ {"logon"}
    BY DEF KeyboardPlace
  <2>2. KeyboardType' /\ keyboard'.at = "send chat"
    BY <1>0, <1>2, <2>1, KeyboardPlaceType
  <2> QED BY <2>2
<1>3. \/ proc' = "crashed" /\ UNCHANGED keyboard
      \/ Client!NextLine /\ UNCHANGED proc
      \/ Client!Keyboard("send chat") /\ UNCHANGED proc
  BY DEF Client!TestVoid
<1> QED BY <1>0, <1>1, <1>2, <1>3, KeyboardQuietStep

LEMMA FindMsgRoomKeeps ==
  ASSUME ClientInv, Client!FindMsgRoom
  PROVE  ClientInv'
<1>0. /\ UNCHANGED <<socket, rooms, room_count, g_serv_crashed, current_r>>
      /\ UNCHANGED <<requests, answers, lost>>
      /\ keyboard.at = "msg"
  BY DEF Client!FindMsgRoom, Client!shared, Client!queues, Client!KeyboardAt
<1>1. current_r' \in Active /\ keyboard.i \in Active
  BY <1>0 DEF ClientInv, SysTypeOK
<1>2. keyboard.line \in AnyRoom /\ keyboard.line # None
  BY <1>0, DistinctAssumption DEF ClientInv, KeyboardType, AnyRoom
<1>3. ASSUME keyboard' = [keyboard EXCEPT !.at = "send chat"]
      PROVE  KeyboardType' /\ keyboard'.at \notin {"logon", "wait"}
  <2>1. "send chat" \in KeyboardPlace \ {"logon"}
    BY DEF KeyboardPlace
  <2>2. Client!Keyboard("send chat")
    BY <1>3 DEF Client!Keyboard
  <2>3. KeyboardType' /\ keyboard'.at = "send chat"
    BY <1>0, <1>2, <2>1, <2>2, KeyboardPlaceType
  <2> QED BY <2>3
<1>4. \/ proc' = "crashed" /\ UNCHANGED keyboard
      \/ Client!NextLine /\ UNCHANGED proc
      \/ keyboard' = [keyboard EXCEPT !.at = "send chat"] /\ UNCHANGED proc
  BY DEF Client!FindMsgRoom
<1> QED BY <1>0, <1>1, <1>3, <1>4, KeyboardQuietStep

LEMMA FindShownRoomKeeps ==
  ASSUME ClientInv, Client!FindShownRoom
  PROVE  ClientInv'
<1>0. /\ UNCHANGED <<socket, rooms, room_count, g_serv_crashed, current_r>>
      /\ UNCHANGED <<requests, answers, lost>>
      /\ keyboard.at = "show"
  BY DEF Client!FindShownRoom, Client!shared, Client!queues, Client!KeyboardAt
<1>1. current_r' \in Active
  BY <1>0 DEF ClientInv, SysTypeOK
<1>2. PICK k \in Client!Find(keyboard.line, {None}) :
        CASE k = Segv    -> proc' = "crashed" /\ UNCHANGED keyboard
          [] k = RoomMax -> Client!NextLine /\ UNCHANGED proc
          [] OTHER       -> /\ keyboard' = [keyboard EXCEPT !.at = "switch",
                                                            !.i = k]
                            /\ UNCHANGED proc
  BY DEF Client!FindShownRoom
<1>3. \/ proc' = "crashed" /\ UNCHANGED keyboard
      \/ Client!NextLine /\ UNCHANGED proc
      \/ /\ k \in Active
         /\ keyboard' = [keyboard EXCEPT !.at = "switch", !.i = k]
         /\ UNCHANGED proc
  BY <1>2, FindReturns
<1>4. ASSUME k \in Active, keyboard' = [keyboard EXCEPT !.at = "switch", !.i = k]
      PROVE  KeyboardType' /\ keyboard'.at \notin {"logon", "wait"}
  <2>1. "switch" \in KeyboardPlace \ {"logon"}
    BY DEF KeyboardPlace
  <2>2. KeyboardType' /\ keyboard'.at = "switch"
    BY <1>0, <1>4, <2>1, PlaceType
  <2> QED BY <2>2
<1> QED BY <1>0, <1>1, <1>3, <1>4, KeyboardQuietStep

LEMMA SwitchRoomKeeps ==
  ASSUME ClientInv, Client!SwitchRoom
  PROVE  ClientInv'
<1>0. /\ UNCHANGED <<socket, rooms, room_count, g_serv_crashed, proc>>
      /\ UNCHANGED <<requests, answers, lost>>
      /\ keyboard.at = "switch" /\ current_r' = keyboard.i
  BY DEF Client!SwitchRoom, Client!queues, Client!KeyboardAt
<1>1. current_r' \in Active
  BY <1>0 DEF ClientInv, SysTypeOK
<1>2. "display" \in KeyboardPlace \ {"logon"}
  BY DEF KeyboardPlace
<1>3. KeyboardType' /\ keyboard'.at = "display"
  BY <1>0, <1>2, KeyboardPlaceType DEF Client!SwitchRoom
<1> QED BY <1>0, <1>1, <1>3, KeyboardQuietStep

LEMMA DisplayRoomKeeps ==
  ASSUME ClientInv, Client!DisplayRoom
  PROVE  ClientInv'
<1>0. /\ UNCHANGED <<socket, rooms, room_count, g_serv_crashed, current_r>>
      /\ UNCHANGED <<requests, answers, lost>>
      /\ keyboard.at = "display"
  BY DEF Client!DisplayRoom, Client!shared, Client!queues, Client!KeyboardAt
<1>1. current_r' \in Active
  BY <1>0 DEF ClientInv, SysTypeOK
<1>2. \/ proc' = "crashed" /\ UNCHANGED keyboard
      \/ Client!NextLine /\ UNCHANGED proc
  BY DEF Client!DisplayRoom
<1> QED BY <1>0, <1>1, <1>2, KeyboardQuietStep

(* The names that a request may carry, Garbage among them.                 *)
LEMMA NamesSentType ==
  ASSUME ClientInv,
         keyboard.at \in {"send chat", "join", "leave", "users"},
         NEW r \in Client!NamesSent, r # Segv
  PROVE  r \in AnyRoom
<1>1. CASE keyboard.line # None
  <2>1. keyboard.line \in AnyRoom
    BY <1>1 DEF ClientInv, KeyboardType
  <2> QED BY <1>1, <2>1 DEF Client!NamesSent
<1>2. CASE keyboard.line = None
  <2>1. keyboard.room \in AnyRoom \cup {Unnamed}
    BY <1>2, DistinctAssumption DEF ClientInv, KeyboardType, AnyRoom
  <2> QED BY <1>2, <2>1, NamesAssumption DEF Client!NamesSent
<1> QED BY <1>1, <1>2

LEMMA SendRequestKeeps ==
  ASSUME ClientInv, NEW closed, Client!SendRequest(closed)
  PROVE  ClientInv'
<1>0. /\ UNCHANGED <<socket, rooms, room_count, g_serv_crashed, current_r>>
      /\ keyboard.at \in {"send chat", "join", "leave", "users"}
  BY DEF Client!SendRequest, Client!shared, Client!KeyboardAt
<1>1. current_r' \in Active
  BY <1>0 DEF ClientInv, SysTypeOK
<1>2. PICK r \in Client!NamesSent :
        IF r = Segv
        THEN /\ proc' = "crashed" /\ UNCHANGED keyboard
             /\ UNCHANGED <<requests, answers, lost>>
        ELSE /\ Client!NextLine
             /\ Client!Send(Client!Req(Client!RequestType, r), closed)
  BY DEF Client!SendRequest, Client!queues
<1>3. CASE r = Segv
  BY <1>0, <1>1, <1>2, <1>3, KeyboardQuietStep
<1>4. CASE r # Segv
  <2>1. r \in AnyRoom
    BY <1>0, <1>4, NamesSentType
  <2>2. Client!RequestType \in {"MSG", "JOIN", "LEAVE", "RUL"}
    BY <1>0 DEF Client!RequestType
  <2>3. Client!Req(Client!RequestType, r) \in RequestType
    BY <2>1, <2>2 DEF Client!Req, RequestType
  <2>4. /\ proc' \in Process /\ requests' \in Seq(RequestType)
        /\ UNCHANGED <<answers, lost>>
    BY <1>2, <1>4, <2>3, SendType
  <2>5. KeyboardType' /\ keyboard'.at = "read"
    BY <1>2, <1>4, NextLineType
  <2> QED BY <1>0, <1>1, <2>4, <2>5, KeyboardStep
<1> QED BY <1>3, <1>4

LEMMA SendExitKeeps ==
  ASSUME ClientInv, NEW closed, Client!SendExit(closed)
  PROVE  ClientInv'
<1>0. /\ UNCHANGED <<socket, rooms, room_count, g_serv_crashed, current_r>>
      /\ keyboard.at = "exit"
      /\ Client!Send(Client!Req("EXIT", None), closed)
      /\ Client!Keyboard("join thread")
  BY DEF Client!SendExit, Client!shared, Client!KeyboardAt
<1>1. current_r' \in Active
  BY <1>0 DEF ClientInv, SysTypeOK
<1>2. Client!Req("EXIT", None) \in RequestType
  BY DEF Client!Req, RequestType
<1>3. "join thread" \in KeyboardPlace \ {"logon"}
  BY DEF KeyboardPlace
<1>4. KeyboardType' /\ keyboard'.at = "join thread"
  BY <1>0, <1>3, KeyboardPlaceType
<1>5. /\ proc' \in Process /\ requests' \in Seq(RequestType)
      /\ UNCHANGED <<answers, lost>>
  BY <1>0, <1>2, SendType
<1> QED BY <1>0, <1>1, <1>4, <1>5, KeyboardStep

LEMMA JoinThreadKeeps ==
  ASSUME ClientInv, Client!JoinThread
  PROVE  ClientInv'
<1>0. /\ UNCHANGED <<socket, rooms, room_count, g_serv_crashed, current_r>>
      /\ UNCHANGED <<requests, answers, lost>>
      /\ UNCHANGED keyboard /\ proc' = "exited"
      /\ keyboard.at = "join thread"
  BY DEF Client!JoinThread, Client!shared, Client!queues, Client!KeyboardAt
<1>1. current_r' \in Active
  BY <1>0 DEF ClientInv, SysTypeOK
<1> QED BY <1>0, <1>1, KeyboardQuietStep DEF Process

-----------------------------------------------------------------------------
(* The start of the socket thread.                                         *)

LEMMA ReceiveType ==
  ASSUME socket' = [at |-> "recv", room |-> None, next |-> "recv", i |-> 0]
  PROVE  SocketType' /\ Working' /\ socket'.at = "recv"
BY ActiveFinite DEF SocketType, SocketPlace, NamesRoom, Working

LEMMA StartType ==
  ASSUME ClientInv, socket' = [socket EXCEPT !.at = "recv"]
  PROVE  SocketType' /\ Working' /\ socket'.at = "recv"
<1>1. socket \in [at : SocketPlace, room : AnyRoom \cup {None},
                  next : {"recv", "all left?", "add"}, i : Active]
  BY DEF ClientInv, SocketType
<1>2. socket' \in [at : SocketPlace, room : AnyRoom \cup {None},
                   next : {"recv", "all left?", "add"}, i : Active]
  BY <1>1 DEF SocketPlace
<1>3. socket'.at = "recv"
  BY <1>1
<1> QED BY <1>2, <1>3 DEF SocketType, NamesRoom, Working

LEMMA NobodyInUse ==
  ASSUME ClientInv, keyboard.at \in {"logon", "wait"}
  PROVE  InUse = {} /\ room_count = Cardinality(InUse)
<1>1. InUse = {} /\ room_count = 0
  BY DEF ClientInv, NoRoomYet, InUse
<1> QED BY <1>1, FS_EmptySet

LEMMA EnterBadNameKeeps ==
  ASSUME ClientInv, Client!EnterBadName
  PROVE  ClientInv'
<1>0. /\ UNCHANGED <<proc, rooms, room_count, g_serv_crashed, current_r>>
      /\ UNCHANGED <<requests, answers, lost>>
      /\ keyboard.at = "logon" /\ Client!NextLine
      /\ socket' = [socket EXCEPT !.at = "recv"]
  BY DEF Client!EnterBadName, Client!shared, Client!queues, Client!KeyboardAt
<1>1. KeyboardType' /\ keyboard'.at = "read"
  BY <1>0, NextLineType
<1>2. SocketType' /\ Working' /\ socket'.at = "recv"
  BY <1>0, StartType
<1>3. SysTypeOK'
  BY <1>0, <1>1, <1>2 DEF ClientInv, SysTypeOK, KeyboardType, SocketType
<1>4. Counted'
  BY <1>0, <1>2, NobodyInUse DEF Counted, InUse
<1>5. NoRoomYet'
  BY <1>1 DEF NoRoomYet
<1> QED BY <1>1, <1>2, <1>3, <1>4, <1>5 DEF ClientInv

(* One room in the first entry, and no other that counts.                  *)
LEMMA OnlyTheVoid ==
  ASSUME rooms' \in [Active -> RoomEntry], rooms'[0] = Void,
         \A i \in Active \ {0} : rooms'[i] \in {None, Freed}
  PROVE  Cardinality(InUse') = 1
<1>1. Void \notin {None, Freed}
  BY NamesAssumption, TokensAssumption, DistinctAssumption DEF AnyRoom
<1>2. InUse' = {0}
  BY <1>1, ActiveFinite DEF InUse
<1> QED BY <1>2, FS_Singleton

LEMMA GetLogonResultKeeps ==
  ASSUME ClientInv, NEW closed, Client!GetLogonResult(closed)
  PROVE  ClientInv'
<1>0. /\ UNCHANGED <<proc, g_serv_crashed, requests, lost>>
      /\ keyboard.at = "wait" /\ answers' = <<>>
  BY DEF Client!GetLogonResult, Client!KeyboardAt
<1>1. answers' \in Seq(AnswerType)
  BY <1>0
<1>2. CASE answers # <<>> /\ Head(answers).res
  <2>1. /\ rooms' = [rooms EXCEPT ![0] = Void] /\ room_count' = 1
        /\ current_r' = 0 /\ Client!NextLine
        /\ socket' = [socket EXCEPT !.at = "recv"]
    BY <1>2 DEF Client!GetLogonResult
  <2>2. rooms = [i \in Active |-> None]
    BY <1>0 DEF ClientInv, NoRoomYet
  <2>3. KeyboardType' /\ keyboard'.at = "read"
    BY <2>1, NextLineType
  <2>4. SocketType' /\ Working' /\ socket'.at = "recv"
    BY <2>1, StartType
  <2>5. rooms' \in [Active -> RoomEntry]
    BY <2>1, <2>2, NamesAssumption DEF RoomEntry
  <2>6. Cardinality(InUse') = 1
    BY <2>1, <2>2, <2>5, ActiveFinite, OnlyTheVoid
  <2>7. SysTypeOK'
    <3>1. keyboard'.i \in Active /\ socket'.i \in Active
      BY <2>3, <2>4 DEF KeyboardType, SocketType
    <3>2. current_r' \in Active /\ room_count' \in 0 .. RoomMax
      BY <2>1, ActiveFinite, RoomMaxAssumption
    <3> QED BY <1>0, <1>1, <2>5, <3>1, <3>2 DEF ClientInv, SysTypeOK
  <2>8. Counted' /\ NoRoomYet'
    BY <2>1, <2>3, <2>4, <2>6 DEF Counted, NoRoomYet
  <2> QED BY <2>3, <2>4, <2>7, <2>8 DEF ClientInv
<1>3. CASE ~(answers # <<>> /\ Head(answers).res)
  <2>1. /\ keyboard' = [keyboard EXCEPT !.at = "logon", !.line = "FAILURE"]
        /\ UNCHANGED <<socket, rooms, current_r, room_count>>
    BY <1>3 DEF Client!GetLogonResult, Client!shared
  <2>2. keyboard \in [at : KeyboardPlace, line : AnyRoom \cup {None, "FAILURE"},
                      i : Active, room : AnyRoom \cup {None, Unnamed}]
    BY DEF ClientInv, KeyboardType
  <2>3. /\ keyboard' \in [at : KeyboardPlace,
                          line : AnyRoom \cup {None, "FAILURE"},
                          i : Active, room : AnyRoom \cup {None, Unnamed}]
        /\ keyboard'.at = "logon"
    BY <2>1, <2>2 DEF KeyboardPlace
  <2>4. KeyboardType'
    BY <2>3 DEF KeyboardType
  <2>5. SysTypeOK'
    BY <1>0, <1>1, <2>1, <2>3 DEF ClientInv, SysTypeOK
  <2>6. SocketType' /\ Working' /\ Counted' /\ NoRoomYet'
    BY <1>0, <2>1 DEF ClientInv, SocketType, Working, Counted, InUse, NoRoomYet
  <2> QED BY <2>4, <2>5, <2>6 DEF ClientInv
<1> QED BY <1>2, <1>3

-----------------------------------------------------------------------------
(* The socket thread.                                                      *)

(* What has to be shown of a step of this thread.                          *)
LEMMA SocketStep ==
  ASSUME ClientInv, UNCHANGED <<keyboard, requests>>, socket.at # "none",
         proc' \in Process, g_serv_crashed' \in BOOLEAN,
         answers' \in Seq(AnswerType),
         lost' \subseteq {"requests", "answers", "join"},
         rooms' \in [Active -> RoomEntry], current_r' \in Active,
         room_count' \in 0 .. RoomMax, SocketType', Working', Counted'
  PROVE  ClientInv'
<1>1. SysTypeOK'
  BY DEF ClientInv, SysTypeOK, Process, SocketType
<1>2. KeyboardType'
  BY DEF ClientInv, KeyboardType
<1>3. NoRoomYet'
  BY DEF ClientInv, NoRoomYet
<1> QED BY <1>1, <1>2, <1>3 DEF ClientInv

Naming == {"name", "make current", "default room"}

(* A step that leaves the list of rooms and the queues alone.              *)
LEMMA SocketQuietStep ==
  ASSUME ClientInv, UNCHANGED <<keyboard, requests, answers, lost>>,
         UNCHANGED <<rooms, room_count, g_serv_crashed>>,
         socket.at \notin Naming \cup {"none"},
         proc' \in Process, current_r' \in Active,
         \/ UNCHANGED socket
         \/ SocketType' /\ Working' /\ socket'.at \notin Naming
  PROVE  ClientInv'
<1>1. SocketType' /\ Working' /\ socket'.at \notin Naming
  BY DEF ClientInv, SocketType, Working
<1>2. Counted'
  BY <1>1 DEF ClientInv, Counted, InUse, Naming
<1>3. /\ rooms' \in [Active -> RoomEntry] /\ room_count' \in 0 .. RoomMax
      /\ answers' \in Seq(AnswerType)
      /\ lost' \subseteq {"requests", "answers", "join"}
      /\ g_serv_crashed' \in BOOLEAN
  BY DEF ClientInv, SysTypeOK
<1> QED BY <1>1, <1>2, <1>3, SocketStep DEF Naming

(* A step to another place, about the same room and perhaps another entry. *)
LEMMA SocketPlaceType ==
  ASSUME ClientInv, NEW p \in SocketPlace, NEW i \in Active,
         socket' = [socket EXCEPT !.at = p, !.i = i],
         p \in NamesRoom => socket.at \in NamesRoom
  PROVE  /\ SocketType' /\ socket'.at = p /\ socket'.i = i
         /\ socket'.room = socket.room /\ socket'.next = socket.next
<1>1. socket \in [at : SocketPlace, room : AnyRoom \cup {None},
                  next : {"recv", "all left?", "add"}, i : Active]
  BY DEF ClientInv, SocketType
<1>2. /\ socket' \in [at : SocketPlace, room : AnyRoom \cup {None},
                      next : {"recv", "all left?", "add"}, i : Active]
      /\ socket'.at = p /\ socket'.i = i
      /\ socket'.room = socket.room /\ socket'.next = socket.next
  BY <1>1
<1> QED BY <1>1, <1>2 DEF ClientInv, SocketType

LEMMA SocketMoves ==
  ASSUME ClientInv, NEW p \in SocketPlace, Client!Socket(p),
         p \in NamesRoom => socket.at \in NamesRoom
  PROVE  /\ SocketType' /\ socket'.at = p /\ socket'.i = socket.i
         /\ socket'.room = socket.room /\ socket'.next = socket.next
<1>1. socket.i \in Active
  BY DEF ClientInv, SysTypeOK
<1>2. socket' = [socket EXCEPT !.at = p, !.i = socket.i]
  BY DEF Client!Socket, ClientInv, SocketType
<1> QED BY <1>1, <1>2, SocketPlaceType

(* A place where nothing is known of the entries.                          *)
Plain == SocketPlace \ (Naming \cup {"switch", "none"})

LEMMA MovesToPlain ==
  ASSUME ClientInv, NEW p \in Plain,
         \/ Client!Receive
         \/ Client!Socket(p) /\ (p \in NamesRoom => socket.at \in NamesRoom)
  PROVE  SocketType' /\ Working' /\ socket'.at \in Plain
<1>1. CASE Client!Receive
  <2>1. SocketType' /\ Working' /\ socket'.at = "recv"
    BY <1>1, ReceiveType DEF Client!Receive
  <2> QED BY <2>1 DEF Plain, SocketPlace, Naming
<1>2. CASE Client!Socket(p) /\ (p \in NamesRoom => socket.at \in NamesRoom)
  <2>1. SocketType' /\ socket'.at = p
    BY <1>2, SocketMoves DEF Plain
  <2>2. Working'
    BY <2>1 DEF Working, Plain, Naming
  <2> QED BY <2>1, <2>2
<1> QED BY <1>1, <1>2

LEMMA NextPlace ==
  ASSUME ClientInv
  PROVE  socket.next \in Plain
BY DEF ClientInv, SocketType, Plain, SocketPlace, Naming

LEMMA RecvEndKeeps ==
  ASSUME ClientInv, NEW closed, Client!RecvEnd(closed)
  PROVE  ClientInv'
<1>0. /\ UNCHANGED <<proc, keyboard, rooms, room_count, current_r>>
      /\ UNCHANGED <<requests, answers, lost>>
      /\ socket.at = "recv" /\ Client!Socket("ended")
      /\ g_serv_crashed' = TRUE
  BY DEF Client!RecvEnd, Client!shared, Client!queues, Client!SocketAt
<1>1. "ended" \in Plain \ NamesRoom
  BY DEF Plain, SocketPlace, Naming, NamesRoom
<1>2. SocketType' /\ Working' /\ socket'.at \in Plain
  BY <1>0, <1>1, MovesToPlain
<1>3. Counted'
  BY <1>0, <1>2 DEF ClientInv, Counted, InUse, Plain, Naming
<1>4. /\ rooms' \in [Active -> RoomEntry] /\ room_count' \in 0 .. RoomMax
      /\ answers' \in Seq(AnswerType)
      /\ lost' \subseteq {"requests", "answers", "join"}
      /\ current_r' \in Active /\ proc' \in Process
  BY <1>0 DEF ClientInv, SysTypeOK, Process
<1> QED BY <1>0, <1>2, <1>3, <1>4, SocketStep

LEMMA RecvKeeps ==
  ASSUME ClientInv, Client!Recv
  PROVE  ClientInv'
<1>0. /\ UNCHANGED <<proc, keyboard, rooms, room_count, current_r>>
      /\ UNCHANGED <<requests, g_serv_crashed>>
      /\ socket.at = "recv"
  BY DEF Client!Recv, Client!shared, Client!SocketAt
<1>1. PICK k \in 1 .. Len(answers) :
        /\ answers' = SubSeq(answers, k + 1, Len(answers))
        /\ lost' = lost \cup (IF k > 1 THEN {"answers"} ELSE {})
             \cup (IF Client!Misread(Head(answers)) THEN {"join"} ELSE {})
  BY DEF Client!Recv
<1>2. /\ answers \in Seq(AnswerType)
      /\ lost \subseteq {"requests", "answers", "join"}
  BY DEF ClientInv, SysTypeOK
<1>3. /\ answers' \in Seq(AnswerType)
      /\ lost' \subseteq {"requests", "answers", "join"}
  BY <1>1, <1>2
<1>4. Head(answers) \in AnswerType
  BY <1>1, <1>2
<1> DEFINE msg == Head(answers)
<1>5. ASSUME Client!Handler(msg) # "recv"
      PROVE  SocketType' /\ Working' /\ socket'.at \in Plain
  <2>1. PICK next \in {"recv", "all left?"} :
          socket' = [at |-> Client!Handler(msg), room |-> msg.room, i |-> 0,
                     next |-> next]
    BY <1>5 DEF Client!Recv
  <2>2. msg.type \in {"LOGON", "EXIT", "JOIN", "LEAVE", "MSG", "RUL"}
    BY <1>4 DEF AnswerType
  <2>3. /\ Client!Handler(msg) \in {"ended", "message", "joined", "remove"}
        /\ Client!Handler(msg) # "ended" => msg.type \in {"JOIN", "LEAVE", "MSG"}
    BY <1>5, <2>2 DEF Client!Handler
  <2>4. /\ msg.room \in AnyRoom \cup {None}
        /\ msg.type \in {"JOIN", "LEAVE", "MSG"} => msg.room \in AnyRoom
    BY <1>4 DEF AnswerType
  <2>5. Client!Handler(msg) \in SocketPlace
    BY <2>3 DEF SocketPlace
  <2>6. socket' \in [at : SocketPlace, room : AnyRoom \cup {None},
                     next : {"recv", "all left?", "add"}, i : Active]
    BY <2>1, <2>4, <2>5, ActiveFinite
  <2>7. socket'.at = Client!Handler(msg) /\ socket'.room = msg.room
    BY <2>1
  <2>8. SocketType'
    BY <2>3, <2>4, <2>6, <2>7 DEF SocketType, NamesRoom
  <2>9. Working' /\ socket'.at \in Plain
    BY <2>3, <2>7 DEF Working, Plain, Naming, SocketPlace
  <2> QED BY <2>8, <2>9
<1>6. SocketType' /\ Working' /\ socket'.at \notin Naming
  <2>1. CASE Client!Handler(msg) = "recv"
    <3>1. SocketType' /\ Working' /\ socket'.at = "recv"
      BY <2>1, ReceiveType DEF Client!Recv, Client!Receive
    <3> QED BY <3>1 DEF Naming
  <2>2. CASE Client!Handler(msg) # "recv"
    BY <1>5, <2>2 DEF Plain
  <2> QED BY <2>1, <2>2
<1>7. Counted'
  BY <1>0, <1>6 DEF ClientInv, Counted, InUse, Naming
<1>8. /\ rooms' \in [Active -> RoomEntry] /\ room_count' \in 0 .. RoomMax
      /\ current_r' \in Active /\ proc' \in Process
      /\ g_serv_crashed' \in BOOLEAN
  BY <1>0 DEF ClientInv, SysTypeOK, Process
<1> QED BY <1>0, <1>3, <1>6, <1>7, <1>8, SocketStep

(* The steps of the thread that only look, or change the current room.     *)
LEMMA TestCurrentRoomKeeps ==
  ASSUME ClientInv, Client!TestCurrentRoom
  PROVE  ClientInv'
<1>0. /\ UNCHANGED <<keyboard, requests, answers, lost>>
      /\ UNCHANGED <<rooms, room_count, g_serv_crashed, current_r>>
      /\ socket.at = "message" /\ proc = "running"
  BY DEF Client!TestCurrentRoom, Client!shared, Client!queues, Client!SocketAt
<1>1. \/ proc' = "crashed" /\ UNCHANGED socket
      \/ (Client!Receive \/ Client!Socket("history")) /\ UNCHANGED proc
  BY DEF Client!TestCurrentRoom
<1>2. "history" \in Plain /\ socket.at \in NamesRoom
  BY <1>0 DEF Plain, SocketPlace, Naming, NamesRoom
<1>3. ASSUME Client!Receive \/ Client!Socket("history")
      PROVE  SocketType' /\ Working' /\ socket'.at \notin Naming
  BY <1>2, <1>3, MovesToPlain DEF Plain
<1>4. current_r' \in Active /\ proc' \in Process
      /\ socket.at \notin Naming \cup {"none"}
  BY <1>0, <1>1 DEF ClientInv, SysTypeOK, Process, Naming
<1> QED BY <1>0, <1>1, <1>3, <1>4, SocketQuietStep

LEMMA AddToRoomHistoryKeeps ==
  ASSUME ClientInv, Client!AddToRoomHistory
  PROVE  ClientInv'
<1>0. /\ UNCHANGED <<keyboard, requests, answers, lost>>
      /\ UNCHANGED <<rooms, room_count, g_serv_crashed, current_r>>
      /\ socket.at = "history" /\ proc = "running"
  BY DEF Client!AddToRoomHistory, Client!shared, Client!queues, Client!SocketAt
<1>1. \/ proc' = "crashed" /\ UNCHANGED socket
      \/ Client!Receive /\ UNCHANGED proc
  BY DEF Client!AddToRoomHistory
<1>2. ASSUME Client!Receive
      PROVE  SocketType' /\ Working' /\ socket'.at \notin Naming
  <2>1. SocketType' /\ Working' /\ socket'.at = "recv"
    BY <1>2, ReceiveType DEF Client!Receive
  <2> QED BY <2>1 DEF Naming
<1>3. current_r' \in Active /\ proc' \in Process
      /\ socket.at \notin Naming \cup {"none"}
  BY <1>0, <1>1 DEF ClientInv, SysTypeOK, Process, Naming
<1> QED BY <1>0, <1>1, <1>2, <1>3, SocketQuietStep

LEMMA TestFirstRoomKeeps ==
  ASSUME ClientInv, Client!TestFirstRoom
  PROVE  ClientInv'
<1>0. /\ UNCHANGED <<keyboard, requests, answers, lost>>
      /\ UNCHANGED <<rooms, room_count, g_serv_crashed, current_r>>
      /\ socket.at = "joined" /\ proc = "running"
  BY DEF Client!TestFirstRoom, Client!shared, Client!queues, Client!SocketAt
<1>1. \/ proc' = "crashed" /\ UNCHANGED socket
      \/ /\ \/ socket' = [socket EXCEPT !.at = "remove", !.next = "add"]
            \/ Client!Socket("add")
         /\ UNCHANGED proc
  BY DEF Client!TestFirstRoom
<1>2. "add" \in Plain /\ socket.at \in NamesRoom
  BY <1>0 DEF Plain, SocketPlace, Naming, NamesRoom
<1>3. ASSUME Client!Socket("add")
      PROVE  SocketType' /\ Working' /\ socket'.at \notin Naming
  BY <1>2, <1>3, MovesToPlain DEF Plain
<1>4. ASSUME socket' = [socket EXCEPT !.at = "remove", !.next = "add"]
      PROVE  SocketType' /\ Working' /\ socket'.at \notin Naming
  <2>1. socket \in [at : SocketPlace, room : AnyRoom \cup {None},
                    next : {"recv", "all left?", "add"}, i : Active]
    BY DEF ClientInv, SocketType
  <2>2. /\ socket' \in [at : SocketPlace, room : AnyRoom \cup {None},
                        next : {"recv", "all left?", "add"}, i : Active]
        /\ socket'.at = "remove" /\ socket'.room = socket.room
    BY <1>4, <2>1 DEF SocketPlace
  <2>3. socket.room \in AnyRoom
    BY <1>2 DEF ClientInv, SocketType
  <2> QED BY <2>2, <2>3 DEF SocketType, Working, Naming
<1>5. current_r' \in Active /\ proc' \in Process
      /\ socket.at \notin Naming \cup {"none"}
  BY <1>0, <1>1 DEF ClientInv, SysTypeOK, Process, Naming
<1> QED BY <1>0, <1>1, <1>3, <1>4, <1>5, SocketQuietStep

LEMMA WasCurrentKeeps ==
  ASSUME ClientInv, Client!WasCurrent
  PROVE  ClientInv'
<1>0. /\ UNCHANGED <<keyboard, requests, answers, lost>>
      /\ UNCHANGED <<rooms, room_count, g_serv_crashed, proc>>
      /\ socket.at = "current?" /\ proc = "running"
  BY DEF Client!WasCurrent, Client!queues, Client!SocketAt
<1>1. /\ proc' \in Process /\ socket.at \notin Naming \cup {"none"}
      /\ socket.at \in NamesRoom
  BY <1>0 DEF Process, Naming, NamesRoom
<1>2. CASE current_r = socket.i /\ Client!Shown # {}
  <2>1. /\ UNCHANGED current_r
        /\ socket' = [socket EXCEPT !.at = "switch",
                                    !.i = Client!Least(Client!Shown)]
    BY <1>2 DEF Client!WasCurrent
  <2>2. Client!Shown = {i \in Active : rooms[i] # None}
    BY DEF Client!Shown, Client!RoomIndex, Active
  <2>3. Client!Least(Client!Shown) \in Client!Shown
    BY <1>2, <2>2, LeastEntry
  <2>4. "switch" \in SocketPlace
    BY DEF SocketPlace
  <2>5. /\ SocketType' /\ socket'.at = "switch"
        /\ socket'.i = Client!Least(Client!Shown)
    BY <1>1, <2>1, <2>2, <2>3, <2>4, SocketPlaceType
  <2>6. Working' /\ socket'.at \notin Naming
    BY <1>0, <2>2, <2>3, <2>5 DEF Working, Naming
  <2>7. current_r' \in Active
    BY <2>1 DEF ClientInv, SysTypeOK
  <2> QED BY <1>0, <1>1, <2>5, <2>6, <2>7, SocketQuietStep
<1>3. CASE ~(current_r = socket.i /\ Client!Shown # {})
  <2>1. /\ Client!Socket(socket.next)
        /\ current_r' = IF current_r = socket.i THEN 0 ELSE current_r
    BY <1>3 DEF Client!WasCurrent
  <2>2. SocketType' /\ Working' /\ socket'.at \in Plain
    BY <1>1, <2>1, NextPlace, MovesToPlain
  <2>3. current_r' \in Active
    BY <2>1, ActiveFinite DEF ClientInv, SysTypeOK
  <2> QED BY <1>0, <1>1, <2>2, <2>3, SocketQuietStep DEF Plain
<1> QED BY <1>2, <1>3

LEMMA SwitchToFirstKeeps ==
  ASSUME ClientInv, Client!SwitchToFirst
  PROVE  ClientInv'
<1>0. /\ UNCHANGED <<keyboard, requests, answers, lost>>
      /\ UNCHANGED <<rooms, room_count, g_serv_crashed, proc>>
      /\ socket.at = "switch" /\ proc = "running"
      /\ current_r' = socket.i /\ Client!Socket("display")
  BY DEF Client!SwitchToFirst, Client!queues, Client!SocketAt
<1>1. "display" \in Plain /\ socket.at \in NamesRoom
  BY <1>0 DEF Plain, SocketPlace, Naming, NamesRoom
<1>2. SocketType' /\ Working' /\ socket'.at \in Plain
  BY <1>0, <1>1, MovesToPlain
<1>3. current_r' \in Active /\ proc' \in Process
      /\ socket.at \notin Naming \cup {"none"}
  BY <1>0 DEF ClientInv, SysTypeOK, Process, Naming
<1> QED BY <1>0, <1>2, <1>3, SocketQuietStep DEF Plain

LEMMA DisplayFirstKeeps ==
  ASSUME ClientInv, Client!DisplayFirst
  PROVE  ClientInv'
<1>0. /\ UNCHANGED <<keyboard, requests, answers, lost>>
      /\ UNCHANGED <<rooms, room_count, g_serv_crashed, current_r>>
      /\ socket.at = "display" /\ proc = "running"
  BY DEF Client!DisplayFirst, Client!shared, Client!queues, Client!SocketAt
<1>1. \/ proc' = "crashed" /\ UNCHANGED socket
      \/ Client!Socket(socket.next) /\ UNCHANGED proc
  BY DEF Client!DisplayFirst
<1>2. ASSUME Client!Socket(socket.next)
      PROVE  SocketType' /\ Working' /\ socket'.at \notin Naming
  <2>1. socket.at \in NamesRoom
    BY <1>0 DEF NamesRoom
  <2> QED BY <1>2, <2>1, NextPlace, MovesToPlain DEF Plain
<1>3. current_r' \in Active /\ proc' \in Process
      /\ socket.at \notin Naming \cup {"none"}
  BY <1>0, <1>1 DEF ClientInv, SysTypeOK, Process, Naming
<1> QED BY <1>0, <1>1, <1>2, <1>3, SocketQuietStep

LEMMA TestAllLeftKeeps ==
  ASSUME ClientInv, Client!TestAllLeft
  PROVE  ClientInv'
<1>0. /\ UNCHANGED <<keyboard, requests, answers, lost>>
      /\ UNCHANGED <<rooms, room_count, g_serv_crashed, current_r, proc>>
      /\ socket.at = "all left?" /\ proc = "running"
      /\ Client!Socket("free rooms") \/ Client!Receive
  BY DEF Client!TestAllLeft, Client!shared, Client!queues, Client!SocketAt
<1>1. "free rooms" \in Plain \ NamesRoom
  BY DEF Plain, SocketPlace, Naming, NamesRoom
<1>2. SocketType' /\ Working' /\ socket'.at \in Plain
  BY <1>0, <1>1, MovesToPlain
<1>3. current_r' \in Active /\ proc' \in Process
      /\ socket.at \notin Naming \cup {"none"}
  BY <1>0 DEF ClientInv, SysTypeOK, Process, Naming
<1> QED BY <1>0, <1>2, <1>3, SocketQuietStep DEF Plain

-----------------------------------------------------------------------------
(* The steps of the socket thread that change the list.                    *)

LEMMA InUseFinite ==
  /\ InUse \subseteq Active /\ IsFiniteSet(InUse)
  /\ Cardinality(InUse) \in 0 .. RoomMax
<1>1. InUse \in SUBSET Active
  BY DEF InUse
<1>2. IsFiniteSet(InUse) /\ Cardinality(InUse) <= Cardinality(Active)
  BY <1>1, ActiveFinite, FS_Subset
<1>3. Cardinality(InUse) \in Nat
  BY <1>2, FS_CardinalityType
<1> QED BY <1>1, <1>2, <1>3, ActiveFinite, RoomMaxAssumption

LEMMA RemoveActiveRoomKeeps ==
  ASSUME ClientInv, Client!RemoveActiveRoom
  PROVE  ClientInv'
<1>0. /\ UNCHANGED <<keyboard, requests, answers, lost, g_serv_crashed>>
      /\ socket.at = "remove" /\ proc = "running"
  BY DEF Client!RemoveActiveRoom, Client!queues, Client!SocketAt
<1>1. PICK k \in Client!Find(Client!RemovedName, {None}) :
        \/ /\ k = Segv /\ proc' = "crashed"
           /\ UNCHANGED <<socket, rooms, current_r, room_count>>
        \/ /\ k = RoomMax
           /\ Client!Socket("add") \/ Client!Receive
           /\ UNCHANGED <<proc, rooms, current_r, room_count>>
        \/ /\ k \notin {Segv, RoomMax}
           /\ rooms' = [rooms EXCEPT ![k] = None]
           /\ room_count' = room_count - 1
           /\ socket' = [socket EXCEPT !.at = "current?", !.i = k]
           /\ UNCHANGED <<proc, current_r>>
  BY DEF Client!RemoveActiveRoom, Client!shared
<1>2. socket.at \in NamesRoom /\ socket.at \notin Naming \cup {"none"}
  BY <1>0 DEF NamesRoom, Naming
<1>3. CASE k = Segv
  <2>1. /\ proc' = "crashed"
        /\ UNCHANGED <<socket, rooms, current_r, room_count>>
    BY <1>1, <1>3, TokensAssumption, RoomMaxAssumption
  <2>2. proc' \in Process /\ current_r' \in Active
    BY <2>1 DEF ClientInv, SysTypeOK, Process
  <2> QED BY <1>0, <1>2, <2>1, <2>2, SocketQuietStep
<1>4. CASE k # Segv /\ k = RoomMax
  <2>1. /\ proc' \in Process /\ current_r' \in Active
        /\ UNCHANGED <<rooms, room_count>>
        /\ Client!Socket("add") \/ Client!Receive
    BY <1>1, <1>4 DEF ClientInv, SysTypeOK, Process
  <2>2. "add" \in Plain
    BY DEF Plain, SocketPlace, Naming
  <2>3. SocketType' /\ Working' /\ socket'.at \in Plain
    BY <1>2, <2>1, <2>2, MovesToPlain
  <2> QED BY <1>0, <1>2, <2>1, <2>3, SocketQuietStep DEF Plain
<1>5. CASE k # Segv /\ k # RoomMax
  <2>1. k \in Active /\ rooms[k] = Client!RemovedName
    BY <1>5, FindReturns
  <2>2. /\ rooms' = [rooms EXCEPT ![k] = None]
        /\ room_count' = room_count - 1
        /\ socket' = [socket EXCEPT !.at = "current?", !.i = k]
        /\ UNCHANGED <<proc, current_r>>
    BY <1>1, <1>5
  <2>3. rooms \in [Active -> RoomEntry]
    BY DEF ClientInv, SysTypeOK
  <2>4. Client!RemovedName \in AnyRoom
    BY <1>2, NamesAssumption DEF Client!RemovedName, ClientInv, SocketType
  <2>5. rooms[k] \notin {None, Freed}
    BY <2>1, <2>4, DistinctAssumption, TokensAssumption DEF AnyRoom
  <2>6. k \in InUse /\ InUse' = InUse \ {k}
    BY <2>1, <2>2, <2>3, <2>5 DEF InUse
  <2>7. Cardinality(InUse') = Cardinality(InUse) - 1
    BY <2>6, InUseFinite, FS_RemoveElement
  <2>8. room_count = Cardinality(InUse)
    BY <1>2 DEF ClientInv, Counted, Naming
  <2>9. "current?" \in SocketPlace
    BY DEF SocketPlace
  <2>10. SocketType' /\ socket'.at = "current?"
    BY <1>2, <2>1, <2>2, <2>9, SocketPlaceType
  <2>11. Working' /\ Counted'
    BY <2>2, <2>7, <2>8, <2>10 DEF Working, Counted
  <2>12. InUse \ {k} \in SUBSET InUse
    OBVIOUS
  <2>13. IsFiniteSet(InUse') /\ Cardinality(InUse') \in Nat
    BY <2>6, <2>12, InUseFinite, FS_Subset, FS_CardinalityType
  <2>14. room_count' \in 0 .. RoomMax
    BY <2>2, <2>7, <2>8, <2>13, InUseFinite, RoomMaxAssumption
  <2>15. /\ rooms' \in [Active -> RoomEntry] /\ current_r' \in Active
         /\ proc' \in Process
         /\ g_serv_crashed' \in BOOLEAN /\ answers' \in Seq(AnswerType)
         /\ lost' \subseteq {"requests", "answers", "join"}
    BY <1>0, <2>2 DEF ClientInv, SysTypeOK, RoomEntry, Process
  <2> QED BY <1>0, <2>10, <2>11, <2>14, <2>15, SocketStep
<1> QED BY <1>3, <1>4, <1>5

LEMMA AddActiveRoomKeeps ==
  ASSUME ClientInv, Client!AddActiveRoom
  PROVE  ClientInv'
<1>0. /\ UNCHANGED <<keyboard, requests, answers, lost, g_serv_crashed>>
      /\ UNCHANGED <<proc, current_r, room_count>>
      /\ socket.at = "add" /\ proc = "running"
  BY DEF Client!AddActiveRoom, Client!queues, Client!SocketAt
<1>1. /\ socket.at \in NamesRoom /\ socket.at \notin Naming \cup {"none"}
      /\ proc' \in Process /\ current_r' \in Active
  BY <1>0 DEF NamesRoom, Naming, ClientInv, SysTypeOK, Process
<1> DEFINE free == Client!RoomIndex \ Client!Shown
<1>2. CASE free = {}
  <2>1. UNCHANGED rooms /\ Client!Receive
    BY <1>2 DEF Client!AddActiveRoom
  <2>2. SocketType' /\ Working' /\ socket'.at = "recv"
    BY <2>1, ReceiveType DEF Client!Receive
  <2>3. socket'.at \notin Naming
    BY <2>2 DEF Naming
  <2> QED BY <1>0, <1>1, <2>1, <2>2, <2>3, SocketQuietStep
<1>3. CASE free # {}
  <2> DEFINE k == Client!Least(free)
  <2>1. /\ rooms' = [rooms EXCEPT ![k] = Unnamed]
        /\ socket' = [socket EXCEPT !.at = "name", !.i = k]
    BY <1>3 DEF Client!AddActiveRoom
  <2>2. free = {i \in Active : rooms[i] = None}
    BY DEF Client!Shown, Client!RoomIndex, Active
  <2>3. k \in Active /\ rooms[k] = None
    BY <1>3, <2>2, LeastEntry
  <2>4. rooms \in [Active -> RoomEntry]
    BY DEF ClientInv, SysTypeOK
  <2>5. Unnamed \notin {None, Freed}
    BY TokensAssumption
  <2> HIDE DEF k
  <2>6. k \notin InUse /\ InUse' = InUse \cup {k}
    BY <2>1, <2>3, <2>4, <2>5 DEF InUse
  <2>7. Cardinality(InUse') = Cardinality(InUse) + 1
    BY <2>6, InUseFinite, FS_AddElement
  <2>8. room_count = Cardinality(InUse)
    BY <1>1 DEF ClientInv, Counted, Naming
  <2>9. "name" \in SocketPlace
    BY DEF SocketPlace
  <2>10. SocketType' /\ socket'.at = "name" /\ socket'.i = k
    BY <1>1, <2>1, <2>3, <2>9, SocketPlaceType
  <2>11. Working' /\ Counted'
    BY <1>0, <2>1, <2>3, <2>4, <2>7, <2>8, <2>10 DEF Working, Counted
  <2>12. /\ rooms' \in [Active -> RoomEntry]
         /\ room_count' \in 0 .. RoomMax /\ g_serv_crashed' \in BOOLEAN
         /\ answers' \in Seq(AnswerType)
         /\ lost' \subseteq {"requests", "answers", "join"}
    BY <1>0, <2>1, <2>4 DEF ClientInv, SysTypeOK, RoomEntry
  <2> QED BY <1>0, <1>1, <2>10, <2>11, <2>12, SocketStep
<1> QED BY <1>2, <1>3

LEMMA NameRoomKeeps ==
  ASSUME ClientInv, Client!NameRoom
  PROVE  ClientInv'
<1>0. /\ UNCHANGED <<keyboard, requests, answers, lost, g_serv_crashed>>
      /\ UNCHANGED <<proc, current_r, room_count>>
      /\ socket.at = "name" /\ proc = "running"
      /\ rooms' = [rooms EXCEPT ![socket.i] = socket.room]
      /\ Client!Socket("make current")
  BY DEF Client!NameRoom, Client!queues, Client!SocketAt
<1>1. socket.at \in NamesRoom /\ "make current" \in SocketPlace
  BY <1>0 DEF NamesRoom, SocketPlace
<1>2. /\ SocketType' /\ socket'.at = "make current" /\ socket'.i = socket.i
  BY <1>0, <1>1, SocketMoves
<1>3. socket.room \in AnyRoom /\ socket.i \in Active
  BY <1>1 DEF ClientInv, SocketType, SysTypeOK
<1>4. rooms[socket.i] = Unnamed /\ rooms \in [Active -> RoomEntry]
  BY <1>0 DEF ClientInv, Working, SysTypeOK
<1>5. {Unnamed, socket.room} \cap {None, Freed} = {}
  BY <1>3, TokensAssumption, DistinctAssumption DEF AnyRoom
<1>6. InUse' = InUse
  BY <1>0, <1>3, <1>4, <1>5 DEF InUse
<1>7. Working'
  BY <1>0, <1>2, <1>3, <1>4 DEF Working
<1>8. Counted'
  BY <1>0, <1>2, <1>6 DEF ClientInv, Counted
<1>9. /\ rooms' \in [Active -> RoomEntry] /\ current_r' \in Active
      /\ room_count' \in 0 .. RoomMax /\ g_serv_crashed' \in BOOLEAN
      /\ answers' \in Seq(AnswerType)
      /\ lost' \subseteq {"requests", "answers", "join"}
      /\ proc' \in Process
  BY <1>0, <1>3, <1>4 DEF ClientInv, SysTypeOK, RoomEntry, Process
<1> QED BY <1>0, <1>2, <1>7, <1>8, <1>9, SocketStep

LEMMA MakeCurrentKeeps ==
  ASSUME ClientInv, Client!MakeCurrent
  PROVE  ClientInv'
<1>0. /\ UNCHANGED <<keyboard, requests, answers, lost, g_serv_crashed>>
      /\ UNCHANGED <<proc, rooms>>
      /\ socket.at = "make current" /\ proc = "running"
      /\ current_r' = socket.i /\ room_count' = room_count + 1
      /\ Client!Receive
  BY DEF Client!MakeCurrent, Client!queues, Client!SocketAt
<1>1. SocketType' /\ Working' /\ socket'.at = "recv"
  BY <1>0, ReceiveType DEF Client!Receive
<1>2. room_count + 1 = Cardinality(InUse) /\ InUse' = InUse
  BY <1>0 DEF ClientInv, Counted, InUse
<1>3. Counted' /\ room_count' \in 0 .. RoomMax
  BY <1>0, <1>1, <1>2, InUseFinite DEF Counted
<1>4. /\ rooms' \in [Active -> RoomEntry] /\ current_r' \in Active
      /\ g_serv_crashed' \in BOOLEAN
      /\ answers' \in Seq(AnswerType)
      /\ lost' \subseteq {"requests", "answers", "join"}
      /\ proc' \in Process
  BY <1>0 DEF ClientInv, SysTypeOK, Process
<1> QED BY <1>0, <1>1, <1>3, <1>4, SocketStep

LEMMA FreeRoomsKeeps ==
  ASSUME ClientInv, Client!FreeRooms
  PROVE  ClientInv'
<1>0. /\ UNCHANGED <<keyboard, requests, answers, lost, g_serv_crashed>>
      /\ UNCHANGED <<proc, current_r, room_count>>
      /\ socket.at = "free rooms" /\ proc = "running"
      /\ Client!Socket("default room")
  BY DEF Client!FreeRooms, Client!queues, Client!SocketAt
<1>1. rooms' = [i \in Active |-> IF i = 0 THEN Unnamed
                                 ELSE IF rooms[i] = None THEN None ELSE Freed]
  BY DEF Client!FreeRooms, Client!RoomIndex, Active
<1>2. "default room" \in SocketPlace \ NamesRoom
  BY DEF SocketPlace, NamesRoom
<1>3. SocketType' /\ socket'.at = "default room"
  BY <1>0, <1>2, SocketMoves
<1>4. Working' /\ Counted'
  BY <1>1, <1>3, ActiveFinite DEF Working, Counted
<1>5. /\ rooms' \in [Active -> RoomEntry] /\ current_r' \in Active
      /\ room_count' \in 0 .. RoomMax /\ g_serv_crashed' \in BOOLEAN
      /\ answers' \in Seq(AnswerType)
      /\ lost' \subseteq {"requests", "answers", "join"}
      /\ proc' \in Process
  BY <1>0, <1>1 DEF ClientInv, SysTypeOK, RoomEntry, Process
<1> QED BY <1>0, <1>3, <1>4, <1>5, SocketStep

LEMMA GotoDefaultRoomKeeps ==
  ASSUME ClientInv, Client!GotoDefaultRoom
  PROVE  ClientInv'
<1>0. /\ UNCHANGED <<keyboard, requests, answers, lost, g_serv_crashed, proc>>
      /\ socket.at = "default room" /\ proc = "running"
      /\ rooms' = [rooms EXCEPT ![0] = Void]
      /\ room_count' = 1 /\ current_r' = 0 /\ Client!Receive
  BY DEF Client!GotoDefaultRoom, Client!queues, Client!SocketAt
<1>1. SocketType' /\ Working' /\ socket'.at = "recv"
  BY <1>0, ReceiveType DEF Client!Receive
<1>2. rooms \in [Active -> RoomEntry]
      /\ \A i \in Active \ {0} : rooms[i] \in {None, Freed}
  BY <1>0 DEF ClientInv, Working, SysTypeOK
<1>3. rooms' \in [Active -> RoomEntry]
  BY <1>0, <1>2, NamesAssumption DEF RoomEntry
<1>4. Cardinality(InUse') = 1
  BY <1>0, <1>2, <1>3, ActiveFinite, OnlyTheVoid
<1>5. Counted'
  BY <1>0, <1>1, <1>4 DEF Counted
<1>6. current_r' \in Active /\ room_count' \in 0 .. RoomMax
  <2>1. current_r' = 0 /\ room_count' = 1
    BY <1>0
  <2> QED BY <2>1, ActiveFinite, RoomMaxAssumption
<1>7. /\ g_serv_crashed' \in BOOLEAN
      /\ answers' \in Seq(AnswerType)
      /\ lost' \subseteq {"requests", "answers", "join"}
      /\ proc' \in Process
  BY <1>0 DEF ClientInv, SysTypeOK, Process
<1> QED BY <1>0, <1>1, <1>3, <1>5, <1>6, <1>7, SocketStep

-----------------------------------------------------------------------------
(* The server, inside the composition.                                     *)

(* What a handler sends names a room, unless it is about the connection.   *)
SendsRoom ==
  \/ out.to = {}
  \/ out.type \in {"LOGON", "EXIT"} /\ out.room = None
  \/ out.type \in {"JOIN", "LEAVE", "MSG", "RUL"} /\ out.room \in AnyRoom

LEMMA NextSends == Next => SendsRoom'
<1> SUFFICES ASSUME NEW c \in Conn,
                    \/ TakeNewConnection(c)
                    \/ \E n \in Name : AcceptNewCli(c, n)
                    \/ \E r \in AnyRoom : JoinRefused(c, r)
                    \/ \E r \in Room : JoinRoom(c, r)
                    \/ \E r \in LongRoom : JoinLongRoom(c, r)
                    \/ \E r \in AnyRoom : LeaveRoom(c, r)
                    \/ \E r \in Room, t \in Text : Message(c, r, t)
                    \/ \E r \in AnyRoom : MessageIgnored(c, r)
                    \/ \E r \in AnyRoom : ListRoomUsers(c, r)
                    \/ Exit(c)
                    \/ PeerCloses(c)
                    \/ DisconnectCrashes(c)
                    \/ DisconnectSurvives(c)
             PROVE  SendsRoom'
  <2>1. HeapCrashes \/ SelectFails => SendsRoom'
    BY DEF HeapCrashes, SelectFails, SendsRoom, Quiet
  <2> QED BY <2>1 DEF Next, ServeClient
<1>1. ASSUME out' = Quiet PROVE SendsRoom'
  BY <1>1 DEF SendsRoom, Quiet
<1>2. ASSUME NEW d, NEW ok, Transmit(LogonReply(d, ok)) PROVE SendsRoom'
  BY <1>2 DEF SendsRoom, Transmit, LogonReply, Quiet
<1>3. ASSUME NEW d, Transmit(ExitReply(d)) PROVE SendsRoom'
  BY <1>3 DEF SendsRoom, Transmit, ExitReply, Quiet
<1>4. ASSUME NEW d, NEW r \in AnyRoom, NEW ok, NEW n,
             Transmit(JoinReply(d, r, ok, n))
      PROVE  SendsRoom'
  BY <1>4 DEF SendsRoom, Transmit, JoinReply, Quiet
<1>5. ASSUME NEW d, NEW r \in AnyRoom, NEW ok, Transmit(LeaveReply(d, r, ok))
      PROVE  SendsRoom'
  BY <1>5 DEF SendsRoom, Transmit, LeaveReply, Quiet
<1>6. ASSUME NEW d, NEW r \in AnyRoom, NEW ns, Transmit(UsersReply(d, r, ns))
      PROVE  SendsRoom'
  BY <1>6 DEF SendsRoom, Transmit, UsersReply, Quiet
<1>7. ASSUME NEW r \in AnyRoom, NEW n, Broadcast(r, n)
      PROVE  SendsRoom'
  <2>1. PICK S \in SUBSET Reached(r) : out' = Sent(r, S, n)
    <3>1. \A i : {j \in Reached(r) : j < i} \in SUBSET Reached(r)
      OBVIOUS
    <3> QED BY <1>7, <3>1 DEF Broadcast
  <2> QED BY <2>1 DEF SendsRoom, Sent, RoomMessage, Quiet
<1>8. Room \subseteq AnyRoom /\ LongRoom \subseteq AnyRoom
  BY DEF AnyRoom
<1>9. CASE \E n \in Name : AcceptNewCli(c, n)
  BY <1>9, <1>2 DEF AcceptNewCli
<1>10. CASE \/ \E r \in AnyRoom : JoinRefused(c, r)
            \/ \E r \in Room : JoinRoom(c, r)
            \/ \E r \in LongRoom : JoinLongRoom(c, r)
  BY <1>10, <1>8, <1>4 DEF JoinRefused, JoinRoom, JoinLongRoom
<1>11. CASE \E r \in AnyRoom : LeaveRoom(c, r)
  BY <1>11, <1>5 DEF LeaveRoom
<1>12. CASE \E r \in Room, t \in Text : Message(c, r, t)
  BY <1>12, <1>8, <1>7 DEF Message
<1>13. CASE \E r \in AnyRoom : ListRoomUsers(c, r)
  BY <1>13, <1>6 DEF ListRoomUsers
<1>14. CASE Exit(c)
  BY <1>14, <1>3 DEF Exit
<1> QED
  BY <1>1, <1>9, <1>10, <1>11, <1>12, <1>13, <1>14
     DEF TakeNewConnection, MessageIgnored, PeerCloses, DisconnectCrashes,
         DisconnectSurvives

LEMMA AnswersSentType ==
  ASSUME SendsRoom', out' \in MessageType
  PROVE  AnswersSent \in Seq(AnswerType)
<1>1. CASE Me \notin out'.to
  BY <1>1 DEF AnswersSent
<1>2. CASE Me \in out'.to
  <2>1. Answer(out'.room) \in AnswerType
    <3>1. out'.res \in BOOLEAN /\ out'.num \in Nat
      BY DEF MessageType
    <3>2. \/ out'.type \in {"LOGON", "EXIT"} /\ out'.room = None
          \/ out'.type \in {"JOIN", "LEAVE", "MSG", "RUL"} /\ out'.room \in AnyRoom
      BY <1>2 DEF SendsRoom
    <3> QED BY <3>1, <3>2 DEF Answer, AnswerType
  <2>2. CASE out'.type = "RUL"
    <3>1. out'.names \in SUBSET Name
      BY DEF MessageType
    <3>2. IsFiniteSet(out'.names)
      BY <3>1, FiniteAssumption, FS_Subset
    <3> DEFINE n == Cardinality(out'.names)
    <3>3. n + 1 \in Nat
      BY <3>2, FS_CardinalityType
    <3>4. AnswersSent = [i \in 1 .. n + 1 |-> Answer(out'.room)]
      BY <1>2, <2>2 DEF AnswersSent
    <3>5. AnswersSent \in [1 .. n + 1 -> AnswerType]
      BY <2>1, <3>4
    <3> HIDE DEF n
    <3> QED BY <3>3, <3>5
  <2>3. CASE out'.type # "RUL"
    BY <1>2, <2>1, <2>3 DEF AnswersSent
  <2> QED BY <2>2, <2>3
<1> QED BY <1>1, <1>2

SysInv == IInv /\ ClientInv

LEMMA SysInitInv == SysInit => SysInv /\ Init
<1> SUFFICES ASSUME SysInit PROVE SysInv /\ Init
  OBVIOUS
<1>1. Init /\ IInv
  BY InitIInv DEF SysInit
<1>2. /\ proc = "running" /\ current_r = 0 /\ room_count = 0
      /\ rooms = [i \in Active |-> None]
      /\ g_serv_crashed = FALSE /\ lost = {}
      /\ requests = <<>> /\ answers = <<>>
  BY DEF SysInit, Client!ClientInit, Client!RoomIndex, Active
<1>3. /\ keyboard = [at |-> "logon", line |-> None, i |-> 0, room |-> None]
      /\ socket = [at |-> "none", room |-> None, next |-> "recv", i |-> 0]
  BY DEF SysInit, Client!ClientInit
<1>4. KeyboardType
  BY <1>3, ActiveFinite DEF KeyboardType, KeyboardPlace
<1>5. SocketType /\ Working
  BY <1>3, ActiveFinite DEF SocketType, SocketPlace, NamesRoom, Working
<1>6. 0 \in Active /\ 0 \in 0 .. RoomMax
  BY ActiveFinite, RoomMaxAssumption
<1>7. SysTypeOK
  <2>1. requests \in Seq(RequestType) /\ answers \in Seq(AnswerType)
    BY <1>2
  <2>2. rooms \in [Active -> RoomEntry]
    BY <1>2 DEF RoomEntry
  <2>3. keyboard.i \in Active /\ socket.i \in Active
    BY <1>3, <1>6
  <2> QED BY <1>2, <1>6, <2>1, <2>2, <2>3 DEF SysTypeOK
<1>8. NoRoomYet
  BY <1>2, <1>3 DEF NoRoomYet
<1>9. InUse = {}
  BY <1>2 DEF InUse
<1>10. Counted
  BY <1>2, <1>3, <1>9, FS_EmptySet DEF Counted
<1> QED BY <1>1, <1>4, <1>5, <1>7, <1>8, <1>10 DEF SysInv, ClientInv

(* A step of the server leaves all of the client alone but the queues.     *)
LEMMA ServerStep ==
  ASSUME ClientInv,
         UNCHANGED <<proc, keyboard, socket, rooms, current_r, room_count,
                     g_serv_crashed>>,
         requests' \in Seq(RequestType), answers' \in Seq(AnswerType),
         lost' \subseteq {"requests", "answers", "join"}
  PROVE  ClientInv'
<1>1. SysTypeOK'
  BY DEF ClientInv, SysTypeOK
<1>2. KeyboardType' /\ SocketType' /\ Working'
  BY DEF ClientInv, KeyboardType, SocketType, Working
<1>3. NoRoomYet' /\ Counted'
  BY DEF ClientInv, NoRoomYet, Counted, InUse
<1> QED BY <1>1, <1>2, <1>3 DEF ClientInv

LEMMA SentInStep ==
  ASSUME SysInv, Next
  PROVE  AnswersSent \in Seq(AnswerType)
<1>1. IInv'
  BY NextKeeps DEF SysInv
<1>2. out' \in MessageType
  BY <1>1 DEF IInv, TypeOK
<1> QED BY <1>2, NextSends, AnswersSentType

LEMMA MoreAnswers ==
  ASSUME SysInv, Next, answers' = answers \o AnswersSent
  PROVE  answers' \in Seq(AnswerType)
<1>1. answers \in Seq(AnswerType)
  BY DEF SysInv, ClientInv, SysTypeOK
<1> QED BY <1>1, SentInStep

(* Every request the client may send is one that IrcServer lets it make.   *)
LEMMA HandleIsNext ==
  ASSUME NEW q \in RequestType, Handle(q)
  PROVE  Next
<1>1. Me \in Conn
  BY MeAssumption
<1>2. CASE q.type = "LOGON" /\ AcceptNewCli(Me, q.room)
  <2>1. q.room \in Name
    BY <1>2, NickAssumption DEF RequestType
  <2> QED BY <1>1, <1>2, <2>1 DEF Next, ServeClient
<1>3. CASE q.type \in {"JOIN", "LEAVE", "MSG", "RUL"}
  <2>1. q.room \in AnyRoom
    BY <1>3 DEF RequestType
  <2>2. \/ JoinRefused(Me, q.room)
        \/ q.room \in Room /\ JoinRoom(Me, q.room)
        \/ q.room \in LongRoom /\ JoinLongRoom(Me, q.room)
        \/ LeaveRoom(Me, q.room)
        \/ q.room \in Room /\ \E t \in Text : Message(Me, q.room, t)
        \/ MessageIgnored(Me, q.room)
        \/ ListRoomUsers(Me, q.room)
    BY <1>3 DEF Handle
  <2> QED BY <1>1, <2>1, <2>2 DEF Next, ServeClient
<1>4. CASE q.type = "EXIT" /\ Exit(Me)
  BY <1>1, <1>4 DEF Next, ServeClient
<1> QED BY <1>2, <1>3, <1>4 DEF Handle

LEMMA ServeMeKeeps ==
  ASSUME SysInv, ServeMe
  PROVE  Next /\ ClientInv'
<1>1. /\ requests \in Seq(RequestType)
      /\ lost \subseteq {"requests", "answers", "join"}
  BY DEF SysInv, ClientInv, SysTypeOK
<1>2. requests # <<>> /\ Handle(Head(requests))
  BY DEF ServeMe
<1>3. Head(requests) \in RequestType
  BY <1>1, <1>2
<1>4. Next
  BY <1>2, <1>3, HandleIsNext
<1>5. answers' \in Seq(AnswerType)
  BY <1>4, MoreAnswers DEF ServeMe
<1>6. PICK k \in 1 .. Len(requests) :
        /\ requests' = SubSeq(requests, k + 1, Len(requests))
        /\ lost' = IF k > 1 THEN lost \cup {"requests"} ELSE lost
  BY DEF ServeMe
<1>7. /\ requests' \in Seq(RequestType)
      /\ lost' \subseteq {"requests", "answers", "join"}
  BY <1>1, <1>6
<1>8. UNCHANGED <<proc, keyboard, socket, rooms, current_r, room_count,
                  g_serv_crashed>>
  BY DEF ServeMe
<1> QED BY <1>4, <1>5, <1>7, <1>8, ServerStep DEF SysInv

LEMMA ServeOtherKeeps ==
  ASSUME SysInv, NEW c \in Conn, ServeOther(c)
  PROVE  Next /\ ClientInv'
<1>1. OthersRoom \subseteq Room /\ OthersRoom \subseteq AnyRoom
  BY OthersAssumption DEF AnyRoom
<1>2. \/ TakeNewConnection(c)
      \/ \E n \in Name : AcceptNewCli(c, n)
      \/ \E r \in OthersRoom : JoinRoom(c, r)
      \/ \E r \in OthersRoom : LeaveRoom(c, r)
      \/ \E r \in OthersRoom, t \in Text : Message(c, r, t)
      \/ Exit(c) \/ PeerCloses(c)
      \/ DisconnectCrashes(c) \/ DisconnectSurvives(c)
  BY DEF ServeOther, Other
<1>3. Next
  BY <1>1, <1>2 DEF Next, ServeClient
<1>4. answers' \in Seq(AnswerType)
  BY <1>3, MoreAnswers DEF ServeOther
<1>5. UNCHANGED <<proc, keyboard, socket, rooms, current_r, room_count,
                  g_serv_crashed>>
      /\ UNCHANGED <<requests, lost>>
  BY DEF ServeOther
<1>6. /\ requests' \in Seq(RequestType)
      /\ lost' \subseteq {"requests", "answers", "join"}
  BY <1>5 DEF SysInv, ClientInv, SysTypeOK
<1> QED BY <1>3, <1>4, <1>5, <1>6, ServerStep DEF SysInv

LEMMA AcceptKeeps ==
  ASSUME SysInv, Accept
  PROVE  Next /\ ClientInv'
<1>1. Next
  BY MeAssumption DEF Accept, Next, ServeClient
<1>2. UNCHANGED <<proc, keyboard, socket, rooms, current_r, room_count,
                  g_serv_crashed>>
      /\ UNCHANGED <<requests, answers, lost>>
  BY DEF Accept, cvars
<1>3. /\ requests' \in Seq(RequestType) /\ answers' \in Seq(AnswerType)
      /\ lost' \subseteq {"requests", "answers", "join"}
  BY <1>2 DEF SysInv, ClientInv, SysTypeOK
<1> QED BY <1>1, <1>2, <1>3, ServerStep DEF SysInv

LEMMA ServerEndsKeeps ==
  ASSUME SysInv, ServerEnds
  PROVE  Next /\ ClientInv'
<1>1. Next
  BY DEF ServerEnds, Next
<1>2. UNCHANGED <<proc, keyboard, socket, rooms, current_r, room_count,
                  g_serv_crashed>>
      /\ UNCHANGED <<requests, answers, lost>>
  BY DEF ServerEnds, cvars
<1>3. /\ requests' \in Seq(RequestType) /\ answers' \in Seq(AnswerType)
      /\ lost' \subseteq {"requests", "answers", "join"}
  BY <1>2 DEF SysInv, ClientInv, SysTypeOK
<1> QED BY <1>1, <1>2, <1>3, ServerStep DEF SysInv

LEMMA UserKeeps ==
  ASSUME ClientInv, NEW closed, Client!User(closed)
  PROVE  ClientInv'
<1>1. ASSUME NEW n \in Nick, Client!EnterName(n, closed) PROVE ClientInv'
  BY <1>1, EnterNameKeeps
<1>2. ASSUME NEW line \in Line, Client!ReadLine(line) PROVE ClientInv'
  BY <1>2, ReadLineKeeps
<1> QED BY <1>1, <1>2, EnterBadNameKeeps, ReadNoNameKeeps DEF Client!User

LEMMA MainThreadKeeps ==
  ASSUME ClientInv, NEW closed, Client!MainThread(closed)
  PROVE  ClientInv'
BY GetLogonResultKeeps, TestVoidKeeps, FindMsgRoomKeeps, SendRequestKeeps,
   FindShownRoomKeeps, SwitchRoomKeeps, DisplayRoomKeeps, SendExitKeeps,
   JoinThreadKeeps DEF Client!MainThread

LEMMA SocketThreadKeeps ==
  ASSUME ClientInv, NEW closed, Client!SocketThread(closed)
  PROVE  ClientInv'
BY RecvEndKeeps, RecvKeeps, TestCurrentRoomKeeps, AddToRoomHistoryKeeps,
   TestFirstRoomKeeps, RemoveActiveRoomKeeps, WasCurrentKeeps,
   SwitchToFirstKeeps, DisplayFirstKeeps, AddActiveRoomKeeps, NameRoomKeeps,
   MakeCurrentKeeps, TestAllLeftKeeps, FreeRoomsKeeps, GotoDefaultRoomKeeps
   DEF Client!SocketThread

LEMMA SysNextKeeps ==
  ASSUME SysInv, [SysNext]_svars
  PROVE  SysInv' /\ [Next]_vars
<1>1. ClientInv
  BY DEF SysInv
<1>2. ClientInv' /\ [Next]_vars
  <2>1. CASE \/ ClientStep(Client!User(Closed))
             \/ ClientStep(Client!MainThread(Closed))
             \/ ClientStep(Client!SocketThread(Closed))
    <3>1. UNCHANGED vars
      BY <2>1 DEF ClientStep
    <3>2. \/ Client!User(Closed) \/ Client!MainThread(Closed)
          \/ Client!SocketThread(Closed)
      BY <2>1 DEF ClientStep
    <3>3. ClientInv'
      BY <1>1, <3>2, UserKeeps, MainThreadKeeps, SocketThreadKeeps
    <3> QED BY <3>1, <3>3
  <2>2. CASE ServeMe
    BY <2>2, ServeMeKeeps
  <2>3. ASSUME NEW c \in Conn, ServeOther(c) PROVE ClientInv' /\ [Next]_vars
    BY <2>3, ServeOtherKeeps
  <2>4. CASE Accept
    BY <2>4, AcceptKeeps
  <2>5. CASE UNCHANGED svars
    <3>1. UNCHANGED vars
          /\ UNCHANGED <<proc, keyboard, socket, rooms, current_r, room_count,
                         g_serv_crashed>>
          /\ UNCHANGED <<requests, answers, lost>>
      BY <2>5 DEF svars, cvars
    <3>2. /\ requests' \in Seq(RequestType) /\ answers' \in Seq(AnswerType)
          /\ lost' \subseteq {"requests", "answers", "join"}
      BY <1>1, <3>1 DEF ClientInv, SysTypeOK
    <3> QED BY <1>1, <3>1, <3>2, ServerStep
  <2>6. CASE ServerEnds
    BY <2>6, ServerEndsKeeps
  <2> QED BY <2>1, <2>2, <2>3, <2>4, <2>5, <2>6 DEF SysNext
<1>3. IInv'
  BY <1>2, NextKeeps DEF SysInv
<1> QED BY <1>2, <1>3 DEF SysInv

(* SysInv holds in every reachable state of the client and the server.     *)
THEOREM SysInvariance == SysSpec => []SysInv
<1>1. SysInit => SysInv
  BY SysInitInv
<1>2. SysInv /\ [SysNext]_svars => SysInv'
  BY SysNextKeeps
<1> QED BY <1>1, <1>2, PTL DEF SysSpec

(* Behind the queues to and from a client program, the server only takes   *)
(* steps of IrcServer (or none): whatever holds of IrcServer, the theorems *)
(* of IrcServerProofs among it, holds in the composition too.              *)
THEOREM ServerInside == SysSpec => Spec
<1>1. SysInit => Init
  BY SysInitInv
<1>2. SysInv /\ [SysNext]_svars => [Next]_vars
  BY SysNextKeeps
<1> QED BY <1>1, <1>2, SysInvariance, PTL DEF SysSpec, Spec

(* The client's state keeps its type: current_r is always an index of the  *)
(* array rooms and room_count never more than its length, although both    *)
(* threads write without a lock.                                           *)
THEOREM ClientTypeCorrect == SysSpec => []SysTypeOK
<1>1. SysInv => SysTypeOK
  BY DEF SysInv, ClientInv
<1> QED BY <1>1, SysInvariance, PTL

(* Whenever the client is at rest, room_count is the number of its rooms.  *)
THEOREM RoomCountExact == SysSpec => []CountsRooms
<1>1. SysInv => CountsRooms
  BY DEF SysInv, ClientInv, Counted, CountsRooms, Settled, InUse
<1> QED BY <1>1, SysInvariance, PTL
=============================================================================
