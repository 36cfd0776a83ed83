--------------------------- MODULE ClientProofs ----------------------------
(***************************************************************************)
(* Proofs about ChatSystem that concern the two threads of the client.     *)
(*                                                                         *)
(* 1. The current room exists whenever the user is asked for a line while  *)
(*    the socket thread is idle.  The threads share current_r without a    *)
(*    lock; the invariant says where each of them may be while current_r   *)
(*    is the index of a room that has been removed.  It relies on the      *)
(*    server only in that nobody but the client itself can give it a name: *)
(*    a client that came out of the logon loop without one (EnterBadName)  *)
(*    has no rooms and no current one.                                     *)
(*                                                                         *)
(* 2. The first request that waits at the server is the logon exactly      *)
(*    while the client has no name there.  The invariant follows the logon *)
(*    from the keyboard to its answer, which comes before every other one, *)
(*    since the server addresses nobody without a name.                    *)
(*                                                                         *)
(* 3. The client's list of rooms and the server's.  Each answer tells of a *)
(*    step of the server's state, so that the answers under way lead from  *)
(*    what the client has seen to what the server has; the list follows    *)
(*    them one by one, with the work of the socket thread as the step it   *)
(*    is in.                                                               *)
(***************************************************************************)
EXTENDS ChatSystemProofs

NoneShown == \A i \in Active : rooms[i] = None

(* The logon loop was left without a name.                                 *)
NeverLoggedOn ==
  /\ NoneShown /\ current_r = 0
  /\ name[Me] = None /\ requests = <<>>
  /\ keyboard.at \in {"read", "join thread"}
  /\ socket.at \in {"recv", "message", "joined", "remove", "ended"}
  /\ socket.at = "remove" => socket.next = "all left?"

(* Places of the socket thread where the current room may be a removed one. *)
Replacing ==
  {"current?", "switch", "add", "all left?", "free rooms", "default room"}

CurrentShown ==
  \/ rooms[current_r] # None
  \/ keyboard.at = "display"
  \/ proc # "running"
  \/ socket.at = "current?" /\ current_r = socket.i
  \/ socket.at = "switch"
  \/ socket.at \in {"add", "all left?"} /\ current_r = 0 /\ NoneShown
  \/ socket.at \in {"free rooms", "default room"}

NotYetAsked ==
  keyboard.at = "logon" /\ keyboard.line = None =>
    requests = <<>> /\ name[Me] = None

GoesOn == socket.at \in {"remove", "current?"} => socket.next # "recv"

CurrentInv ==
  /\ keyboard.at \notin {"logon", "wait"} => NeverLoggedOn \/ CurrentShown
  /\ NotYetAsked
  /\ GoesOn

-----------------------------------------------------------------------------
(* The server.                                                             *)

(* No request of another client names this one, or takes its name.         *)
LEMMA NameKept ==
  ASSUME IInv, NEW c \in Conn, Other(c)
  PROVE  name'[Me] = name[Me]
<1>0. c # Me /\ Me \in Conn /\ name \in [Conn -> Name \cup {None}]
  BY MeAssumption DEF Other, IInv, TypeOK
<1>1. ASSUME NEW n, AcceptNewCli(c, n) PROVE name'[Me] = name[Me]
  BY <1>0, <1>1 DEF AcceptNewCli
<1>2. ASSUME ServFreeClient(c) PROVE name'[Me] = name[Me]
  BY <1>0, <1>2 DEF ServFreeClient
<1>3. CASE Exit(c)
  <2>1. ServFindClient(name[c], None) = c
    BY <1>3, FindsByName DEF Exit, Request
  <2>2. ServFreeClient(c)
    BY <1>3, <2>1 DEF Exit, IrcShutdownClient, ForgetClient
  <2> QED BY <1>2, <2>2
<1>4. CASE DisconnectCrashes(c) \/ DisconnectSurvives(c)
  BY <1>2, <1>4
     DEF DisconnectCrashes, DisconnectSurvives, IrcShutdownClient, ForgetClient
<1>5. CASE \/ TakeNewConnection(c) \/ PeerCloses(c)
           \/ \E r \in OthersRoom : JoinRoom(c, r)
           \/ \E r \in OthersRoom : LeaveRoom(c, r)
           \/ \E r \in OthersRoom, t \in Text : Message(c, r, t)
  BY <1>5 DEF TakeNewConnection, PeerCloses, JoinRoom, LeaveRoom, Message
<1> QED BY <1>1, <1>3, <1>4, <1>5 DEF Other

(* A step that the client has no part in.                                  *)
LEMMA CurrentServerStep ==
  ASSUME CurrentInv,
         UNCHANGED <<proc, keyboard, socket, rooms, current_r>>,
         requests = <<>> =>
           UNCHANGED requests /\ name'[Me] = name[Me]
  PROVE  CurrentInv'
<1>1. CurrentShown => CurrentShown'
  BY DEF CurrentShown, NoneShown
<1>2. NeverLoggedOn => NeverLoggedOn'
  BY DEF NeverLoggedOn, NoneShown
<1>3. NotYetAsked' /\ GoesOn'
  BY DEF CurrentInv, NotYetAsked, GoesOn
<1> QED BY <1>1, <1>2, <1>3 DEF CurrentInv

(* The server's end changes nothing that the client or a lookup sees.      *)
LEMMA ServerEndsView ==
  ASSUME ServerEnds
  PROVE  /\ ~up'
         /\ UNCHANGED <<proc, keyboard, socket, rooms, current_r, room_count>>
         /\ UNCHANGED <<g_serv_crashed, requests, answers, lost>>
         /\ UNCHANGED <<cli_list, name, active_rooms, tree, room>>
BY DEF ServerEnds, HeapCrashes, SelectFails, cvars, lists

LEMMA CurrentServer ==
  ASSUME SysInv, CurrentInv,
         \/ ServeMe \/ Accept \/ \E c \in Conn : ServeOther(c)
         \/ ServerEnds \/ UNCHANGED svars
  PROVE  CurrentInv'
<1>1. CASE ServeMe
  BY <1>1, CurrentServerStep DEF ServeMe
<1>2. CASE Accept
  BY <1>2, CurrentServerStep DEF Accept, TakeNewConnection, cvars
<1>3. ASSUME NEW c \in Conn, ServeOther(c) PROVE CurrentInv'
  <2>1. name'[Me] = name[Me]
    BY <1>3, NameKept DEF ServeOther, SysInv
  <2> QED BY <1>3, <2>1, CurrentServerStep DEF ServeOther
<1>4. CASE UNCHANGED svars
  BY <1>4, CurrentServerStep DEF svars, cvars, vars
<1>5. CASE ServerEnds
  BY <1>5, ServerEndsView, CurrentServerStep
<1> QED BY <1>1, <1>2, <1>3, <1>4, <1>5

-----------------------------------------------------------------------------
(* The keyboard thread.                                                    *)

LEMMA LogonKeepsCurrent ==
  ASSUME SysInv, CurrentInv, UNCHANGED vars, NEW closed,
         \/ \E n \in Nick : Client!EnterName(n, closed)
         \/ Client!EnterBadName
         \/ Client!ReadNoName
         \/ Client!GetLogonResult(closed)
  PROVE  CurrentInv'
<1>0. /\ name' = name
      /\ keyboard \in [at : KeyboardPlace, line : AnyRoom \cup {None, "FAILURE"},
                       i : Active, room : AnyRoom \cup {None, Unnamed}]
      /\ socket \in [at : SocketPlace, room : AnyRoom \cup {None},
                     next : {"recv", "all left?", "add"}, i : Active]
  BY DEF vars, SysInv, ClientInv, KeyboardType, SocketType
<1>1. ASSUME NEW n \in Nick, Client!EnterName(n, closed) PROVE CurrentInv'
  <2>1. keyboard'.at = "wait" /\ UNCHANGED socket
    BY <1>0, <1>1 DEF Client!EnterName, Client!Keyboard
  <2> QED BY <2>1 DEF CurrentInv, NotYetAsked, GoesOn
<1>2. CASE Client!EnterBadName
  <2>1. /\ keyboard.at = "logon" /\ keyboard.line = None
        /\ Client!NextLine /\ socket' = [socket EXCEPT !.at = "recv"]
        /\ UNCHANGED <<rooms, current_r, requests>>
    BY <1>2 DEF Client!EnterBadName, Client!KeyboardAt, Client!shared,
                Client!queues
  <2>2. keyboard'.at = "read" /\ socket'.at = "recv"
    BY <1>0, <2>1 DEF Client!NextLine
  <2>3. NoneShown' /\ current_r' = 0
    BY <2>1 DEF SysInv, ClientInv, NoRoomYet, NoneShown
  <2>4. requests' = <<>> /\ name'[Me] = None
    BY <1>0, <2>1 DEF CurrentInv, NotYetAsked
  <2>5. NeverLoggedOn'
    BY <2>2, <2>3, <2>4 DEF NeverLoggedOn
  <2> QED BY <2>2, <2>5 DEF CurrentInv, NotYetAsked, GoesOn
<1>3. CASE Client!GetLogonResult(closed)
  <2>1. CASE answers # <<>> /\ Head(answers).res
    <3>1. /\ rooms' = [rooms EXCEPT ![0] = Void] /\ current_r' = 0
          /\ Client!NextLine /\ socket' = [socket EXCEPT !.at = "recv"]
      BY <1>3, <2>1 DEF Client!GetLogonResult
    <3>2. keyboard'.at = "read" /\ socket'.at = "recv"
      BY <1>0, <3>1 DEF Client!NextLine
    <3>3. rooms'[current_r'] = Void /\ Void # None
      BY <3>1, ActiveFinite, NamesAssumption, DistinctAssumption
         DEF SysInv, ClientInv, SysTypeOK, AnyRoom
    <3>4. CurrentShown'
      BY <3>3 DEF CurrentShown
    <3> QED BY <3>2, <3>4 DEF CurrentInv, NotYetAsked, GoesOn
  <2>2. CASE ~(answers # <<>> /\ Head(answers).res)
    <3>1. /\ keyboard' = [keyboard EXCEPT !.at = "logon", !.line = "FAILURE"]
          /\ UNCHANGED socket
      BY <1>3, <2>2 DEF Client!GetLogonResult
    <3>2. keyboard'.at = "logon" /\ keyboard'.line = "FAILURE"
      BY <1>0, <3>1
    <3>3. "FAILURE" # None
      BY TokensAssumption
    <3> QED BY <3>1, <3>2, <3>3 DEF CurrentInv, NotYetAsked, GoesOn
  <2> QED BY <2>1, <2>2
<1>4. CASE Client!ReadNoName
  <2>1. keyboard.at = "logon" /\ UNCHANGED <<keyboard, socket, requests>>
    BY <1>4 DEF Client!ReadNoName, Client!KeyboardAt, Client!queues
  <2> QED BY <1>0, <2>1 DEF CurrentInv, NotYetAsked, GoesOn
<1> QED BY <1>1, <1>2, <1>3, <1>4

(* A step of the keyboard thread that neither changes the current room nor *)
(* waits for it.                                                           *)
LEMMA KeyboardElsewhere ==
  ASSUME CurrentInv, UNCHANGED <<socket, rooms, current_r>>,
         keyboard.at \notin {"logon", "wait", "read", "display", "join thread"},
         proc = "running", keyboard'.at # "logon"
  PROVE  CurrentInv'
<1>1. CurrentShown
  BY DEF CurrentInv, NeverLoggedOn
<1>2. CurrentShown'
  BY <1>1 DEF CurrentShown, NoneShown
<1> QED BY <1>2 DEF CurrentInv, NotYetAsked, GoesOn

LEMMA PlaceReached ==
  ASSUME ClientInv, NEW p,
         \/ Client!Keyboard(p)
         \/ \E j : keyboard' = [keyboard EXCEPT !.at = p, !.i = j]
  PROVE  keyboard'.at = p
<1>1. keyboard \in [at : KeyboardPlace, line : AnyRoom \cup {None, "FAILURE"},
                    i : Active, room : AnyRoom \cup {None, Unnamed}]
  BY DEF ClientInv, KeyboardType
<1> QED BY <1>1 DEF Client!Keyboard

LEMMA CommandsKeepCurrent ==
  ASSUME SysInv, CurrentInv, NEW closed,
         \/ Client!TestVoid \/ Client!FindMsgRoom \/ Client!SendRequest(closed)
         \/ Client!FindShownRoom \/ Client!SendExit(closed)
  PROVE  CurrentInv'
<1>1. /\ UNCHANGED <<socket, rooms, current_r>> /\ proc = "running"
      /\ keyboard.at \in {"chat", "other", "msg", "send chat", "join", "leave",
                          "users", "show", "exit"}
  BY DEF Client!TestVoid, Client!FindMsgRoom, Client!SendRequest,
         Client!FindShownRoom, Client!SendExit, Client!KeyboardAt,
         Client!shared
<1>2. \/ UNCHANGED keyboard \/ Client!NextLine
      \/ Client!Keyboard("send chat") \/ Client!Keyboard("join thread")
      \/ \E j : keyboard' = [keyboard EXCEPT !.at = "switch", !.i = j]
  BY DEF Client!TestVoid, Client!FindMsgRoom, Client!SendRequest,
         Client!FindShownRoom, Client!SendExit, Client!Keyboard
<1>3. keyboard'.at # "logon"
  <2>1. CASE UNCHANGED keyboard
    BY <1>1, <2>1
  <2>2. CASE Client!NextLine
    BY <2>2 DEF Client!NextLine
  <2> QED BY <1>2, <2>1, <2>2, PlaceReached DEF SysInv
<1> QED BY <1>1, <1>3, KeyboardElsewhere

(* The client that never logged on ends at its first line.                 *)
LEMMA ReadLineKeepsCurrent ==
  ASSUME SysInv, CurrentInv, UNCHANGED vars, NEW line \in Line,
         Client!ReadLine(line)
  PROVE  CurrentInv'
<1>0. /\ UNCHANGED <<socket, rooms, current_r, requests, name>>
      /\ proc = "running" /\ keyboard.at = "read"
  BY DEF Client!ReadLine, Client!KeyboardAt, Client!shared, Client!queues, vars
<1>1. \/ Client!Keyboard("join thread")
      \/ UNCHANGED keyboard
      \/ /\ \E e \in Client!RoomOfLine(line) : e # Segv
         /\ \E j, e : keyboard' = [at |-> line.cmd, line |-> line.room,
                                   i |-> j, room |-> e]
  BY DEF Client!ReadLine
<1>2. CASE Client!Keyboard("join thread") \/ UNCHANGED keyboard
  <2>1. keyboard'.at \in {"read", "join thread"}
    BY <1>0, <1>2, PlaceReached DEF SysInv
  <2>2. NeverLoggedOn => NeverLoggedOn'
    BY <1>0, <2>1 DEF NeverLoggedOn, NoneShown
  <2>3. CurrentShown => CurrentShown'
    BY <1>0 DEF CurrentShown, NoneShown
  <2> QED BY <1>0, <2>1, <2>2, <2>3 DEF CurrentInv, NotYetAsked, GoesOn
<1>3. CASE /\ \E e \in Client!RoomOfLine(line) : e # Segv
           /\ \E j, e : keyboard' = [at |-> line.cmd, line |-> line.room,
                                     i |-> j, room |-> e]
  <2>1. rooms[current_r] # None
    <3>1. current_r \in Active
      BY DEF SysInv, ClientInv, SysTypeOK
    <3>2. \E e \in Client!Deref(rooms[current_r]) : e # Segv
      BY <1>3 DEF Client!RoomOfLine
    <3> QED BY <3>1, <3>2, DerefType DEF SysInv
  <2>2. CurrentShown'
    BY <1>0, <2>1 DEF CurrentShown
  <2>3. keyboard'.at = line.cmd
    BY <1>3
  <2>4. line.cmd # "logon"
    BY LineAssumption DEF Client!AnyLine
  <2> QED BY <1>0, <2>2, <2>3, <2>4 DEF CurrentInv, NotYetAsked, GoesOn
<1> QED BY <1>1, <1>2, <1>3

LEMMA ShowKeepsCurrent ==
  ASSUME SysInv, CurrentInv,
         Client!SwitchRoom \/ Client!DisplayRoom \/ Client!JoinThread
  PROVE  CurrentInv'
<1>0. UNCHANGED <<socket, rooms>> /\ proc = "running"
  BY DEF Client!SwitchRoom, Client!DisplayRoom, Client!JoinThread,
         Client!shared, Client!KeyboardAt
<1>1. CASE Client!SwitchRoom
  <2>1. keyboard'.at = "display"
    BY <1>1, PlaceReached DEF Client!SwitchRoom, SysInv
  <2> QED BY <1>0, <2>1 DEF CurrentInv, CurrentShown, NotYetAsked, GoesOn
<1>2. CASE Client!DisplayRoom
  <2>1. PICK e \in Client!Deref(rooms[current_r]) :
          IF e = Segv THEN proc' = "crashed" /\ UNCHANGED keyboard
          ELSE Client!NextLine /\ UNCHANGED proc
    BY <1>2 DEF Client!DisplayRoom
  <2>2. keyboard.at = "display" /\ UNCHANGED current_r /\ current_r \in Active
    BY <1>2 DEF Client!DisplayRoom, Client!KeyboardAt, Client!shared, SysInv,
                ClientInv, SysTypeOK
  <2>3. CASE e = Segv
    <3>1. keyboard'.at = "display"
      BY <2>1, <2>2, <2>3
    <3> QED BY <1>0, <3>1 DEF CurrentInv, CurrentShown, NotYetAsked, GoesOn
  <2>4. CASE e # Segv
    <3>1. rooms[current_r] # None
      BY <2>2, <2>4, DerefType DEF SysInv
    <3>2. keyboard'.at = "read"
      BY <2>1, <2>4 DEF Client!NextLine
    <3> QED BY <1>0, <2>2, <3>1, <3>2
            DEF CurrentInv, CurrentShown, NotYetAsked, GoesOn
  <2> QED BY <2>3, <2>4
<1>3. CASE Client!JoinThread
  <2>1. keyboard'.at = "join thread" /\ proc' = "exited"
    BY <1>3 DEF Client!JoinThread, Client!KeyboardAt
  <2> QED BY <1>0, <2>1 DEF CurrentInv, CurrentShown, NotYetAsked, GoesOn
<1> QED BY <1>1, <1>2, <1>3

-----------------------------------------------------------------------------
(* The socket thread.                                                      *)

(* What has to be shown of a step of this thread.                          *)
LEMMA SocketKeepsCurrent ==
  ASSUME SysInv, CurrentInv, UNCHANGED <<keyboard, requests, name>>,
         socket.at # "none",
         NeverLoggedOn => NeverLoggedOn' \/ CurrentShown',
         CurrentShown => CurrentShown',
         GoesOn'
  PROVE  CurrentInv'
<1>1. keyboard.at \notin {"logon", "wait"}
  BY DEF SysInv, ClientInv, NoRoomYet
<1> QED BY <1>1 DEF CurrentInv, NotYetAsked

(* A step that only looks, from a place where the current room is there.   *)
LEMMA LookingKeepsCurrent ==
  ASSUME SysInv, CurrentInv, UNCHANGED <<keyboard, requests, name>>,
         UNCHANGED <<rooms, current_r>>, proc = "running",
         socket.at \notin Replacing \cup {"none"},
         NeverLoggedOn =>
           /\ socket'.at \in {"recv", "message", "joined", "remove", "ended"}
           /\ socket'.at = "remove" => socket'.next = "all left?",
         GoesOn'
  PROVE  CurrentInv'
<1>1. NeverLoggedOn => NeverLoggedOn'
  BY DEF NeverLoggedOn, NoneShown
<1>2. CurrentShown => CurrentShown'
  BY DEF CurrentShown, Replacing
<1> QED BY <1>1, <1>2, SocketKeepsCurrent

LEMMA SocketReached ==
  ASSUME ClientInv, NEW p, Client!Socket(p)
  PROVE  /\ socket'.at = p /\ socket'.i = socket.i
         /\ socket'.next = socket.next /\ socket'.room = socket.room
<1>1. socket \in [at : SocketPlace, room : AnyRoom \cup {None},
                  next : {"recv", "all left?", "add"}, i : Active]
  BY DEF ClientInv, SocketType
<1> QED BY <1>1 DEF Client!Socket

(* From recv() the thread goes to the work on one message, or ends.        *)
LEMMA ReceivesLead ==
  ASSUME ClientInv, NEW closed, Client!RecvEnd(closed) \/ Client!Recv
  PROVE  /\ UNCHANGED <<keyboard, requests, rooms, current_r>>
         /\ proc = "running" /\ socket.at = "recv"
         /\ socket'.at \in {"recv", "message", "joined", "remove", "ended"}
         /\ socket'.at = "remove" => socket'.next = "all left?"
<1>0. /\ UNCHANGED <<keyboard, requests, rooms, current_r>>
      /\ proc = "running" /\ socket.at = "recv"
  BY DEF Client!RecvEnd, Client!Recv, Client!SocketAt, Client!shared,
         Client!queues
<1>1. CASE Client!RecvEnd(closed)
  <2>1. Client!Socket("ended")
    BY <1>1 DEF Client!RecvEnd
  <2>2. socket'.at = "ended"
    BY <2>1, SocketReached
  <2> QED BY <1>0, <2>2
<1>2. CASE Client!Recv
  <2> DEFINE msg == Head(answers)
  <2>1. CASE Client!Handler(msg) = "recv"
    <3>1. Client!Receive
      BY <1>2, <2>1 DEF Client!Recv
    <3> QED BY <1>0, <3>1 DEF Client!Receive
  <2>2. CASE Client!Handler(msg) # "recv"
    <3>1. socket' = [at |-> Client!Handler(msg), room |-> msg.room, i |-> 0,
                     next |-> IF msg.type = "LEAVE" THEN "all left?"
                                                    ELSE "recv"]
      BY <1>2, <2>2 DEF Client!Recv
    <3>2. /\ Client!Handler(msg) \in {"recv", "message", "joined", "remove",
                                      "ended"}
          /\ Client!Handler(msg) = "remove" => msg.type = "LEAVE"
      BY DEF Client!Handler
    <3> QED BY <1>0, <3>1, <3>2
  <2> QED BY <2>1, <2>2
<1> QED BY <1>0, <1>1, <1>2

LEMMA ReceivesKeepCurrent ==
  ASSUME SysInv, CurrentInv, UNCHANGED vars, NEW closed,
         Client!RecvEnd(closed) \/ Client!Recv
  PROVE  CurrentInv'
<1>1. /\ UNCHANGED <<keyboard, requests, name, rooms, current_r>>
      /\ proc = "running" /\ socket.at = "recv"
      /\ socket'.at \in {"recv", "message", "joined", "remove", "ended"}
      /\ socket'.at = "remove" => socket'.next = "all left?"
  BY ReceivesLead DEF SysInv, vars
<1>2. GoesOn'
  BY <1>1 DEF GoesOn
<1> QED BY <1>1, <1>2, LookingKeepsCurrent DEF Replacing

(* Following a pointer that is NULL ends the process.                      *)
LEMMA NullCrashes ==
  ASSUME ClientInv, NEW i \in Active, rooms[i] = None,
         NEW e \in Client!NameOf(rooms[i])
  PROVE  e = Segv
<1>1. Client!NameOf(rooms[i]) = {Segv}
  BY TokensAssumption DEF Client!NameOf, Client!Deref
<1> QED BY <1>1

LEMMA LooksKeepCurrent ==
  ASSUME SysInv, CurrentInv, UNCHANGED vars,
         \/ Client!TestCurrentRoom \/ Client!AddToRoomHistory
         \/ Client!TestFirstRoom \/ Client!DisplayFirst
  PROVE  CurrentInv'
<1>0. /\ UNCHANGED <<keyboard, requests, name, rooms, current_r>>
      /\ proc = "running"
      /\ socket.at \in {"message", "history", "joined", "display"}
  BY DEF Client!TestCurrentRoom, Client!AddToRoomHistory, Client!TestFirstRoom,
         Client!DisplayFirst, Client!SocketAt, Client!shared, Client!queues,
         vars
<1>1. /\ 0 \in Active /\ current_r \in Active /\ ClientInv
      /\ socket \in [at : SocketPlace, room : AnyRoom \cup {None},
                     next : {"recv", "all left?", "add"}, i : Active]
  BY ActiveFinite DEF SysInv, ClientInv, SysTypeOK, SocketType
<1>2. NeverLoggedOn => UNCHANGED socket
  <2>1. CASE socket.at = "message"
    <3>1. \E e \in Client!NameOf(rooms[current_r]) : e = Segv => UNCHANGED socket
      BY <2>1 DEF Client!TestCurrentRoom, Client!AddToRoomHistory,
                  Client!TestFirstRoom, Client!DisplayFirst, Client!SocketAt
    <3> QED BY <1>1, <3>1, NullCrashes DEF NeverLoggedOn, NoneShown
  <2>2. CASE socket.at = "joined"
    <3>1. \E e \in Client!NameOf(rooms[0]) : e = Segv => UNCHANGED socket
      BY <2>2 DEF Client!TestCurrentRoom, Client!AddToRoomHistory,
                  Client!TestFirstRoom, Client!DisplayFirst, Client!SocketAt
    <3> QED BY <1>1, <3>1, NullCrashes DEF NeverLoggedOn, NoneShown
  <2> QED BY <1>0, <2>1, <2>2 DEF NeverLoggedOn
<1>3. \/ UNCHANGED socket
      \/ Client!Receive \/ Client!Socket("history") \/ Client!Socket("add")
      \/ Client!Socket(socket.next)
      \/ socket' = [socket EXCEPT !.at = "remove", !.next = "add"]
  BY DEF Client!TestCurrentRoom, Client!AddToRoomHistory, Client!TestFirstRoom,
         Client!DisplayFirst
<1>4. GoesOn'
  <2>1. CASE UNCHANGED socket
    BY <1>0, <2>1 DEF GoesOn
  <2>2. CASE Client!Receive
    BY <2>2 DEF Client!Receive, GoesOn
  <2>3. CASE socket' = [socket EXCEPT !.at = "remove", !.next = "add"]
    <3>1. socket'.next = "add"
      BY <1>1, <2>3
    <3> QED BY <3>1 DEF GoesOn
  <2>4. CASE \/ Client!Socket("history") \/ Client!Socket("add")
             \/ Client!Socket(socket.next)
    <3>1. socket'.at \in {"history", "add", socket.next}
      BY <1>1, <2>4, SocketReached
    <3>2. socket.next \in {"recv", "all left?", "add"}
      BY <1>1
    <3> QED BY <3>1, <3>2 DEF GoesOn
  <2> QED BY <1>3, <2>1, <2>2, <2>3, <2>4
<1>5. NeverLoggedOn =>
        /\ socket'.at \in {"recv", "message", "joined", "remove", "ended"}
        /\ socket'.at = "remove" => socket'.next = "all left?"
  BY <1>2 DEF NeverLoggedOn
<1> QED BY <1>0, <1>4, <1>5, LookingKeepsCurrent DEF Replacing

LEMMA RemoveKeepsCurrent ==
  ASSUME SysInv, CurrentInv, UNCHANGED vars, Client!RemoveActiveRoom
  PROVE  CurrentInv'
<1>0. /\ UNCHANGED <<keyboard, requests, name, current_r>>
      /\ socket.at = "remove" /\ proc = "running"
  <2>1. UNCHANGED current_r
    BY DEF Client!RemoveActiveRoom, Client!shared
  <2> QED BY <2>1 DEF Client!RemoveActiveRoom, Client!SocketAt, Client!queues,
                      vars
<1>1. PICK k \in Client!Find(Client!RemovedName, {None}) :
        \/ UNCHANGED <<socket, rooms>>
        \/ /\ k = RoomMax /\ UNCHANGED rooms
           /\ IF socket.next = "add" THEN Client!Socket("add")
                                     ELSE Client!Receive
        \/ /\ k \notin {Segv, RoomMax}
           /\ rooms' = [rooms EXCEPT ![k] = None]
           /\ socket' = [socket EXCEPT !.at = "current?", !.i = k]
  BY DEF Client!RemoveActiveRoom, Client!shared
<1>2. /\ socket \in [at : SocketPlace, room : AnyRoom \cup {None},
                     next : {"recv", "all left?", "add"}, i : Active]
      /\ rooms \in [Active -> RoomEntry] /\ current_r \in Active
      /\ socket.next # "recv" /\ ClientInv
      /\ socket.room \in AnyRoom
  BY <1>0 DEF SysInv, ClientInv, SysTypeOK, SocketType, CurrentInv, GoesOn,
              NamesRoom
<1>3. CASE UNCHANGED <<socket, rooms>>
  <2>1. NeverLoggedOn =>
        /\ socket'.at \in {"recv", "message", "joined", "remove", "ended"}
        /\ socket'.at = "remove" => socket'.next = "all left?"
    BY <1>3 DEF NeverLoggedOn
  <2>2. GoesOn' /\ socket.at \notin Replacing \cup {"none"}
    BY <1>0, <1>2, <1>3 DEF GoesOn, Replacing
  <2> QED BY <1>0, <1>3, <2>1, <2>2, LookingKeepsCurrent
<1>4. CASE /\ k = RoomMax /\ UNCHANGED rooms
           /\ IF socket.next = "add" THEN Client!Socket("add")
                                     ELSE Client!Receive
  <2>1. CASE socket.next = "add"
    <3>1. Client!Socket("add")
      BY <1>4, <2>1
    <3>2. socket'.at = "add"
      BY <1>2, <3>1, SocketReached
    <3>3. ~NeverLoggedOn
      BY <1>0, <2>1 DEF NeverLoggedOn
    <3>4. GoesOn' /\ socket.at \notin Replacing \cup {"none"}
      BY <1>0, <3>2 DEF GoesOn, Replacing
    <3> QED BY <1>0, <1>4, <3>3, <3>4, LookingKeepsCurrent
  <2>2. CASE socket.next # "add"
    <3>1. Client!Receive
      BY <1>4, <2>2
    <3>2. socket'.at = "recv"
      BY <3>1 DEF Client!Receive
    <3>3. GoesOn' /\ socket.at \notin Replacing \cup {"none"}
      BY <1>0, <3>2 DEF GoesOn, Replacing
    <3> QED BY <1>0, <1>4, <3>2, <3>3, LookingKeepsCurrent
  <2> QED BY <2>1, <2>2
<1>5. CASE /\ k \notin {Segv, RoomMax}
           /\ rooms' = [rooms EXCEPT ![k] = None]
           /\ socket' = [socket EXCEPT !.at = "current?", !.i = k]
  <2>1. k \in Active /\ rooms[k] = Client!RemovedName
    BY <1>5, FindReturns
  <2>2. rooms[k] # None
    <3>1. Client!RemovedName \in AnyRoom
      BY <1>2, NamesAssumption DEF Client!RemovedName
    <3> QED BY <2>1, <3>1, DistinctAssumption DEF AnyRoom
  <2>3. ~NeverLoggedOn
    BY <2>1, <2>2 DEF NeverLoggedOn, NoneShown
  <2>4. socket'.at = "current?" /\ socket'.i = k /\ socket'.next = socket.next
    BY <1>2, <1>5
  <2>5. CurrentShown => CurrentShown'
    <3>1. CASE current_r = k
      BY <1>0, <2>4, <3>1 DEF CurrentShown
    <3>2. CASE current_r # k
      <4>1. rooms'[current_r'] = rooms[current_r]
        BY <1>0, <1>2, <1>5, <3>2
      <4> QED BY <1>0, <4>1 DEF CurrentShown
    <3> QED BY <3>1, <3>2
  <2>6. GoesOn'
    BY <1>2, <2>4 DEF GoesOn
  <2> QED BY <1>0, <2>3, <2>5, <2>6, SocketKeepsCurrent
<1> QED BY <1>1, <1>3, <1>4, <1>5

LEMMA WasCurrentKeepsCurrent ==
  ASSUME SysInv, CurrentInv, UNCHANGED vars, Client!WasCurrent
  PROVE  CurrentInv'
<1>0. /\ UNCHANGED <<keyboard, requests, name, rooms, proc>>
      /\ socket.at = "current?" /\ proc = "running" /\ ~NeverLoggedOn
  BY DEF Client!WasCurrent, Client!SocketAt, Client!queues, vars,
         NeverLoggedOn
<1>1. /\ socket \in [at : SocketPlace, room : AnyRoom \cup {None},
                     next : {"recv", "all left?", "add"}, i : Active]
      /\ socket.next \in {"all left?", "add"} /\ ClientInv
  BY <1>0 DEF SysInv, ClientInv, SocketType, CurrentInv, GoesOn
<1>2. CASE current_r = socket.i /\ Client!Shown # {}
  <2>1. socket' = [socket EXCEPT !.at = "switch", !.i = Client!Least(Client!Shown)]
    BY <1>2 DEF Client!WasCurrent
  <2>2. socket'.at = "switch"
    BY <1>1, <2>1
  <2>3. CurrentShown' /\ GoesOn'
    BY <2>2 DEF CurrentShown, GoesOn
  <2> QED BY <1>0, <2>3, SocketKeepsCurrent
<1>3. CASE ~(current_r = socket.i /\ Client!Shown # {})
  <2>1. /\ Client!Socket(socket.next)
        /\ current_r' = IF current_r = socket.i THEN 0 ELSE current_r
    BY <1>3 DEF Client!WasCurrent
  <2>2. socket'.at \in {"all left?", "add"}
    BY <1>1, <2>1, SocketReached
  <2>3. CASE current_r = socket.i
    <3>1. NoneShown
      BY <1>3, <2>3 DEF Client!Shown, Client!RoomIndex, Active, NoneShown
    <3>2. NoneShown' /\ current_r' = 0
      BY <1>0, <2>1, <2>3, <3>1 DEF NoneShown
    <3>3. CurrentShown' /\ GoesOn'
      BY <2>2, <3>2 DEF CurrentShown, GoesOn
    <3> QED BY <1>0, <3>3, SocketKeepsCurrent
  <2>4. CASE current_r # socket.i
    <3>1. UNCHANGED current_r
      BY <2>1, <2>4
    <3>2. CurrentShown => CurrentShown'
      BY <1>0, <2>4, <3>1 DEF CurrentShown
    <3>3. GoesOn'
      BY <2>2 DEF GoesOn
    <3> QED BY <1>0, <3>2, <3>3, SocketKeepsCurrent
  <2> QED BY <2>3, <2>4
<1> QED BY <1>2, <1>3

(* The steps after which some room is current.                             *)
LEMMA SwitchesKeepCurrent ==
  ASSUME SysInv, CurrentInv, UNCHANGED vars,
         \/ Client!SwitchToFirst \/ Client!MakeCurrent
         \/ Client!FreeRooms \/ Client!GotoDefaultRoom
  PROVE  CurrentInv'
<1>0. /\ UNCHANGED <<keyboard, requests, name>>
      /\ socket.at \in {"switch", "make current", "free rooms", "default room"}
  BY DEF Client!SwitchToFirst, Client!MakeCurrent, Client!FreeRooms,
         Client!GotoDefaultRoom, Client!SocketAt, Client!queues, vars
<1>1. /\ ~NeverLoggedOn /\ ClientInv
      /\ rooms \in [Active -> RoomEntry]
  BY <1>0 DEF NeverLoggedOn, SysInv, ClientInv, SysTypeOK
<1>2. socket'.at \in {"display", "recv", "default room"}
  <2>1. \/ Client!Socket("display") \/ Client!Socket("default room")
        \/ Client!Receive
    BY DEF Client!SwitchToFirst, Client!MakeCurrent, Client!FreeRooms,
           Client!GotoDefaultRoom
  <2>2. CASE Client!Receive
    BY <2>2 DEF Client!Receive
  <2> QED BY <1>1, <2>1, <2>2, SocketReached
<1>3. GoesOn'
  BY <1>2 DEF GoesOn
<1>4. CurrentShown'
  <2>1. CASE Client!SwitchToFirst
    <3>1. rooms[socket.i] # None
      BY <2>1 DEF Client!SwitchToFirst, Client!SocketAt, SysInv, ClientInv,
                  Working
    <3> QED BY <2>1, <3>1 DEF Client!SwitchToFirst, CurrentShown
  <2>2. CASE Client!MakeCurrent
    <3>1. rooms[socket.i] \in AnyRoom
      BY <2>2 DEF Client!MakeCurrent, Client!SocketAt, SysInv, ClientInv,
                  Working
    <3>2. rooms[socket.i] # None
      BY <3>1, DistinctAssumption DEF AnyRoom
    <3> QED BY <2>2, <3>2 DEF Client!MakeCurrent, CurrentShown
  <2>3. CASE Client!FreeRooms
    <3>1. socket'.at = "default room"
      BY <1>1, <2>3, SocketReached DEF Client!FreeRooms
    <3> QED BY <3>1 DEF CurrentShown
  <2>4. CASE Client!GotoDefaultRoom
    <3>1. rooms'[current_r'] = Void
      BY <1>1, <2>4, ActiveFinite DEF Client!GotoDefaultRoom
    <3>2. Void # None
      BY NamesAssumption, DistinctAssumption DEF AnyRoom
    <3> QED BY <3>1, <3>2 DEF CurrentShown
  <2> QED BY <2>1, <2>2, <2>3, <2>4
<1> QED BY <1>0, <1>1, <1>3, <1>4, SocketKeepsCurrent

LEMMA AddKeepsCurrent ==
  ASSUME SysInv, CurrentInv, UNCHANGED vars,
         Client!AddActiveRoom \/ Client!NameRoom \/ Client!TestAllLeft
  PROVE  CurrentInv'
<1>0. /\ UNCHANGED <<keyboard, requests, name, proc, current_r>>
      /\ proc = "running" /\ socket.at \in {"add", "name", "all left?"}
  BY DEF Client!AddActiveRoom, Client!NameRoom, Client!TestAllLeft,
         Client!SocketAt, Client!queues, Client!shared, vars
<1>1. /\ ~NeverLoggedOn /\ ClientInv
      /\ rooms \in [Active -> RoomEntry] /\ current_r \in Active
      /\ socket \in [at : SocketPlace, room : AnyRoom \cup {None},
                     next : {"recv", "all left?", "add"}, i : Active]
  BY <1>0 DEF NeverLoggedOn, SysInv, ClientInv, SysTypeOK, SocketType
<1>2. CASE Client!AddActiveRoom
  <2> DEFINE free == Client!RoomIndex \ Client!Shown
  <2>0. socket.at = "add" /\ free = {i \in Active : rooms[i] = None}
    BY <1>2 DEF Client!AddActiveRoom, Client!SocketAt, Client!Shown,
                Client!RoomIndex, Active
  <2>1. CASE free = {}
    <3>1. Client!Receive /\ UNCHANGED rooms
      BY <1>2, <2>1 DEF Client!AddActiveRoom
    <3>2. ~NoneShown
      BY <2>0, <2>1, ActiveFinite DEF NoneShown
    <3>3. CurrentShown => CurrentShown'
      BY <1>0, <2>0, <3>1, <3>2 DEF CurrentShown
    <3>4. GoesOn'
      BY <3>1 DEF Client!Receive, GoesOn
    <3> QED BY <1>0, <1>1, <3>3, <3>4, SocketKeepsCurrent
  <2>2. CASE free # {}
    <3> DEFINE k == Client!Least(free)
    <3>1. /\ rooms' = [rooms EXCEPT ![k] = Unnamed]
          /\ socket' = [socket EXCEPT !.at = "name", !.i = k]
      BY <1>2, <2>2 DEF Client!AddActiveRoom
    <3>2. k \in free /\ \A j \in free : k <= j
      BY <2>0, <2>2, LeastEntry
    <3> HIDE DEF k
    <3>3. Unnamed # None
      BY TokensAssumption
    <3>4. NoneShown => k = 0
      <4>1. k \in Nat
        BY <2>0, <3>2, ActiveFinite
      <4>2. NoneShown => 0 \in free
        BY <2>0, ActiveFinite DEF NoneShown
      <4>3. NoneShown => k <= 0
        BY <3>2, <4>2
      <4> QED BY <4>1, <4>3
    <3>5. CurrentShown => CurrentShown'
      <4>1. CASE rooms[current_r] # None
        <5>1. rooms'[current_r] # None
          BY <1>1, <3>1, <3>3, <4>1
        <5> QED BY <1>0, <5>1 DEF CurrentShown
      <4>2. CASE current_r = 0 /\ NoneShown
        <5>1. rooms'[current_r] # None
          BY <1>1, <3>1, <3>3, <3>4, <4>2
        <5> QED BY <1>0, <5>1 DEF CurrentShown
      <4> QED BY <1>0, <2>0, <4>1, <4>2 DEF CurrentShown
    <3>6. socket'.at = "name"
      BY <1>1, <3>1
    <3>7. GoesOn'
      BY <3>6 DEF GoesOn
    <3> QED BY <1>0, <1>1, <3>5, <3>7, SocketKeepsCurrent
  <2> QED BY <2>1, <2>2
<1>3. CASE Client!NameRoom
  <2>1. /\ rooms' = [rooms EXCEPT ![socket.i] = socket.room]
        /\ Client!Socket("make current") /\ socket.at = "name"
    BY <1>3 DEF Client!NameRoom, Client!SocketAt
  <2>2. socket.room \in AnyRoom
    BY <2>1 DEF SysInv, ClientInv, SocketType, NamesRoom
  <2>3. socket.room # None
    BY <2>2, DistinctAssumption DEF AnyRoom
  <2>4. rooms[current_r] # None => rooms'[current_r] # None
    BY <1>1, <2>1, <2>3
  <2>5. CurrentShown => CurrentShown'
    BY <1>0, <2>1, <2>4 DEF CurrentShown
  <2>6. socket'.at = "make current"
    BY <1>1, <2>1, SocketReached
  <2>7. GoesOn'
    BY <2>6 DEF GoesOn
  <2> QED BY <1>0, <1>1, <2>5, <2>7, SocketKeepsCurrent
<1>4. CASE Client!TestAllLeft
  <2>1. /\ IF current_r = 0 /\ rooms[0] = None THEN Client!Socket("free rooms")
                                             ELSE Client!Receive
        /\ UNCHANGED rooms /\ socket.at = "all left?"
    BY <1>4 DEF Client!TestAllLeft, Client!SocketAt, Client!shared
  <2>2. CASE current_r = 0 /\ rooms[0] = None
    <3>1. socket'.at = "free rooms"
      BY <1>1, <2>1, <2>2, SocketReached
    <3>2. CurrentShown' /\ GoesOn'
      BY <3>1 DEF CurrentShown, GoesOn
    <3> QED BY <1>0, <1>1, <3>2, SocketKeepsCurrent
  <2>3. CASE ~(current_r = 0 /\ rooms[0] = None)
    <3>1. Client!Receive
      BY <2>1, <2>3
    <3>2. ~(current_r = 0 /\ NoneShown)
      BY <2>3, ActiveFinite DEF NoneShown
    <3>3. CurrentShown => CurrentShown'
      BY <1>0, <2>1, <3>2 DEF CurrentShown
    <3>4. GoesOn'
      BY <3>1 DEF Client!Receive, GoesOn
    <3> QED BY <1>0, <1>1, <3>3, <3>4, SocketKeepsCurrent
  <2> QED BY <2>2, <2>3
<1> QED BY <1>2, <1>3, <1>4

-----------------------------------------------------------------------------
LEMMA CurrentInitially == SysInit => CurrentInv
<1> SUFFICES ASSUME SysInit PROVE CurrentInv
  OBVIOUS
<1>1. keyboard.at = "logon" /\ socket.at = "none" /\ requests = <<>>
  BY DEF SysInit, Client!ClientInit
<1>2. name[Me] = None
  BY MeAssumption DEF SysInit, Init
<1> QED BY <1>1, <1>2 DEF CurrentInv, NotYetAsked, GoesOn

LEMMA CurrentKept ==
  ASSUME SysInv, CurrentInv, [SysNext]_svars
  PROVE  CurrentInv'
<1>1. CASE ClientStep(Client!User(Closed))
  BY <1>1, LogonKeepsCurrent, ReadLineKeepsCurrent DEF ClientStep, Client!User
<1>2. CASE ClientStep(Client!MainThread(Closed))
  BY <1>2, LogonKeepsCurrent, CommandsKeepCurrent, ShowKeepsCurrent
     DEF ClientStep, Client!MainThread
<1>3. CASE ClientStep(Client!SocketThread(Closed))
  BY <1>3, ReceivesKeepCurrent, LooksKeepCurrent, RemoveKeepsCurrent,
     WasCurrentKeepsCurrent, SwitchesKeepCurrent, AddKeepsCurrent
     DEF ClientStep, Client!SocketThread
<1>4. CASE \/ ServeMe \/ Accept \/ \E c \in Conn : ServeOther(c)
           \/ ServerEnds \/ UNCHANGED svars
  BY <1>4, CurrentServer
<1> QED BY <1>1, <1>2, <1>3, <1>4 DEF SysNext

(* The current room exists whenever the user is asked for a line and the   *)
(* socket thread waits, however its steps were interleaved with /show,     *)
(* for any number of rooms and of messages under way.                      *)
THEOREM CurrentRoomExists == SysSpec => []CurrentExists
<1>1. SysInit => CurrentInv
  BY CurrentInitially
<1>2. SysInv /\ CurrentInv /\ [SysNext]_svars => CurrentInv'
  BY CurrentKept
<1>3. CurrentInv => CurrentExists
  BY DEF CurrentInv, NeverLoggedOn, CurrentShown, CurrentExists
<1> QED BY <1>1, <1>2, <1>3, SysInvariance, PTL DEF SysSpec

-----------------------------------------------------------------------------
(* The logon.                                                              *)

(* A client without a name is asked for one, and has sent nothing else.    *)
Asking ==
  keyboard.at = "logon" => requests = <<>> /\ answers = <<>> /\ name[Me] = None

(* The request is under way, or its answer is: the first of the answers.   *)
Awaiting ==
  keyboard.at = "wait" =>
    \/ /\ Len(requests) = 1 /\ requests[1].type = "LOGON"
       /\ answers = <<>> /\ name[Me] = None
    \/ /\ requests = <<>> /\ answers # <<>>
       /\ Head(answers).res <=> name[Me] # None

(* No request comes before the logon or after RC_EXIT.                     *)
Following(rs, at) ==
  \A i \in DOMAIN rs :
    /\ rs[i].type # "LOGON"
    /\ rs[i].type = "EXIT" => i = Len(rs) /\ at = "join thread"

Asked ==
  keyboard.at \notin {"logon", "wait"} =>
    /\ name[Me] = None => requests = <<>> /\ (keyboard.at = "join thread" \/ NeverLoggedOn)
    /\ Following(requests, keyboard.at)

LogonInv == up => Asking /\ Awaiting /\ Asked

(* The server does not come back.                                          *)
LEMMA UpBefore ==
  ASSUME Next, up'
  PROVE  up
BY DEF Next, ServeClient, HeapCrashes, SelectFails,
       TakeNewConnection, AcceptNewCli, JoinRefused, JoinRoom,
       JoinLongRoom, LeaveRoom, Message, MessageIgnored, ListRoomUsers, Exit,
       PeerCloses, DisconnectCrashes, DisconnectSurvives, Request, Ready

(* The rooms this client is a member of.                                   *)
MyRooms == {r \in Room : name[Me] # None /\ name[Me] \in Members(r)}

(* A message reaches this client by the name in its slot.                  *)
LEMMA MessageReaches ==
  ASSUME IInv, NEW c, NEW r \in Room, NEW t, Message(c, r, t), Me \in out'.to
  PROVE  r \in MyRooms
<1>1. PICK S \in SUBSET Reached(r) : out' = Sent(r, S, name[c])
  <2>1. \A i : {j \in Reached(r) : j < i} \in SUBSET Reached(r)
    OBVIOUS
  <2> QED BY <2>1 DEF Message, Broadcast
<1>2. PICK i \in Reached(r) : Recipient(r, i) = Me
  BY <1>1 DEF Sent, RoomMessage, Quiet
<1>3. /\ i \in Occupied(room[r]) /\ room[r].room_users[i] \in Members(r)
      /\ room[r].room_users[i] # None
  BY <1>2 DEF Reached, Members, Occupants, Occupied
<1>4. PICK d \in Conn : name[d] = room[r].room_users[i]
  BY <1>3, ClientsType DEF IInv, NoGhosts, Named
<1>5. Recipient(r, i) = d
  BY <1>3, <1>4, FindsByName DEF Recipient
<1> QED BY <1>2, <1>3, <1>4, <1>5 DEF MyRooms

(* What the server does for another client reaches this one by its name,   *)
(* and is a message.                                                       *)
LEMMA OthersSend ==
  ASSUME IInv, NEW c \in Conn, Other(c)
  PROVE  \/ AnswersSent = <<>>
         \/ \E r \in MyRooms :
              AnswersSent = <<[type |-> "MSG", room |-> r, res |-> FALSE,
                               num |-> 0]>>
<1>0. c # Me /\ Me \in Conn
  BY MeAssumption DEF Other
<1>1. ASSUME out' = Quiet PROVE Me \notin out'.to
  BY <1>1 DEF Quiet
<1>2. ASSUME Request(c) PROVE ServFindClient(name[c], None) = c
  BY <1>2, FindsByName DEF Request
<1>3. CASE \E n \in Name : AcceptNewCli(c, n)
  <2>1. PICK ok : Transmit(LogonReply(c, ok))
    BY <1>3 DEF AcceptNewCli
  <2>2. out'.to = {c}
    BY <2>1 DEF Transmit, LogonReply, Quiet
  <2> QED BY <1>0, <2>2 DEF AnswersSent
<1>4. CASE \E r \in OthersRoom : JoinRoom(c, r)
  <2>1. PICK r, ok, n : Transmit(JoinReply(c, r, ok, n))
    BY <1>2, <1>4 DEF JoinRoom
  <2>2. out'.to = {c}
    BY <2>1 DEF Transmit, JoinReply, Quiet
  <2> QED BY <1>0, <2>2 DEF AnswersSent
<1>5. CASE \E r \in OthersRoom : LeaveRoom(c, r)
  <2>1. PICK r, ok : Transmit(LeaveReply(c, r, ok))
    BY <1>2, <1>5 DEF LeaveRoom
  <2>2. out'.to = {c}
    BY <2>1 DEF Transmit, LeaveReply, Quiet
  <2> QED BY <1>0, <2>2 DEF AnswersSent
<1>6. CASE Exit(c)
  <2>1. Transmit(ExitReply(c))
    BY <1>2, <1>6 DEF Exit
  <2>2. out'.to = {c}
    BY <2>1 DEF Transmit, ExitReply, Quiet
  <2> QED BY <1>0, <2>2 DEF AnswersSent
<1>7. ASSUME NEW r \in Room, NEW t \in Text, Message(c, r, t), Me \in out'.to
      PROVE  /\ r \in MyRooms
             /\ AnswersSent = <<[type |-> "MSG", room |-> r, res |-> FALSE,
                                 num |-> 0]>>
  <2>1. out'.type = "MSG" /\ out'.room = r /\ out'.res = FALSE /\ out'.num = 0
    BY <1>7 DEF Message, Broadcast, Sent, RoomMessage, Quiet
  <2> QED BY <1>7, <2>1, MessageReaches DEF AnswersSent, Answer
<1>8. CASE \/ TakeNewConnection(c) \/ PeerCloses(c)
           \/ DisconnectCrashes(c) \/ DisconnectSurvives(c)
  BY <1>1, <1>8 DEF TakeNewConnection, PeerCloses, DisconnectCrashes,
                    DisconnectSurvives, AnswersSent
<1>9. ASSUME Me \notin out'.to PROVE AnswersSent = <<>>
  BY <1>9 DEF AnswersSent
<1> QED
  BY <1>3, <1>4, <1>5, <1>6, <1>7, <1>8, <1>9, OthersAssumption DEF Other

LEMMA NotAddressed ==
  ASSUME IInv, NEW c \in Conn, Other(c), name[Me] = None
  PROVE  AnswersSent = <<>>
BY OthersSend DEF MyRooms

(* A client that never logged on does nothing more but end.                *)
LEMMA NeverLoggedOnKept ==
  ASSUME SysInv, NeverLoggedOn, [SysNext]_svars
  PROVE  NeverLoggedOn'
<1>0. /\ 0 \in Active /\ current_r \in Active /\ ClientInv
      /\ socket \in [at : SocketPlace, room : AnyRoom \cup {None},
                     next : {"recv", "all left?", "add"}, i : Active]
  BY ActiveFinite DEF SysInv, ClientInv, SysTypeOK, SocketType
<1> USE DEF NeverLoggedOn, NoneShown
<1>1. CASE ClientStep(Client!User(Closed)) \/ ClientStep(Client!MainThread(Closed))
  <2>1. \/ \E line \in Line : Client!ReadLine(line)
        \/ Client!JoinThread
    BY <1>1 DEF ClientStep, Client!User, Client!MainThread, Client!EnterName,
                Client!EnterBadName, Client!ReadNoName, Client!GetLogonResult, Client!TestVoid,
                Client!FindMsgRoom, Client!SendRequest, Client!FindShownRoom,
                Client!SwitchRoom, Client!DisplayRoom, Client!SendExit,
                Client!KeyboardAt
  <2>2. UNCHANGED <<socket, rooms, current_r, requests, name>>
    BY <1>1, <2>1 DEF ClientStep, Client!ReadLine, Client!JoinThread,
                      Client!shared, Client!queues, vars
  <2>3. keyboard'.at \in {"read", "join thread"}
    <3>1. CASE Client!JoinThread
      BY <3>1 DEF Client!JoinThread
    <3>2. ASSUME NEW line \in Line, Client!ReadLine(line)
          PROVE  keyboard'.at \in {"read", "join thread"}
      <4>1. Client!RoomOfLine(line) = {Segv}
        BY <1>0, TokensAssumption DEF Client!RoomOfLine, Client!Deref
      <4>2. Client!Keyboard("join thread") \/ UNCHANGED keyboard
        BY <3>2, <4>1 DEF Client!ReadLine
      <4> QED BY <1>0, <4>2, PlaceReached
    <3> QED BY <2>1, <3>1, <3>2
  <2> QED BY <2>2, <2>3
<1>2. CASE ClientStep(Client!SocketThread(Closed))
  <2>1. \/ Client!RecvEnd(Closed) \/ Client!Recv \/ Client!TestCurrentRoom
        \/ Client!TestFirstRoom \/ Client!RemoveActiveRoom
    BY <1>2 DEF ClientStep, Client!SocketThread, Client!AddToRoomHistory,
                Client!WasCurrent, Client!SwitchToFirst, Client!DisplayFirst,
                Client!AddActiveRoom, Client!NameRoom, Client!MakeCurrent,
                Client!TestAllLeft, Client!FreeRooms, Client!GotoDefaultRoom,
                Client!SocketAt
  <2>2. UNCHANGED vars
    BY <1>2 DEF ClientStep
  <2>3. UNCHANGED <<keyboard, requests, name, current_r>>
    BY <2>1, <2>2
       DEF Client!RecvEnd, Client!Recv, Client!TestCurrentRoom,
           Client!TestFirstRoom, Client!RemoveActiveRoom, Client!shared,
           Client!queues, vars
  <2>4. CASE Client!RecvEnd(Closed) \/ Client!Recv
    BY <1>0, <2>3, <2>4, ReceivesLead
  <2>5. CASE Client!TestCurrentRoom \/ Client!TestFirstRoom
    <3>1. UNCHANGED rooms
      BY <2>5 DEF Client!TestCurrentRoom, Client!TestFirstRoom, Client!shared
    <3>2. UNCHANGED socket
      BY <1>0, <2>5, NullCrashes DEF Client!TestCurrentRoom, Client!TestFirstRoom
    <3> QED BY <2>3, <3>1, <3>2
  <2>6. CASE Client!RemoveActiveRoom
    <3>1. socket.at = "remove" /\ socket.next = "all left?"
      BY <2>6 DEF Client!RemoveActiveRoom, Client!SocketAt
    <3>2. Client!RemovedName # None
      BY <1>0, <3>1, DistinctAssumption
         DEF Client!RemovedName, ClientInv, SocketType, NamesRoom, AnyRoom
    <3>3. ASSUME NEW k \in Client!Find(Client!RemovedName, {None})
          PROVE  k \in {Segv, RoomMax}
      BY <3>2, <3>3, FindReturns
    <3>4. \/ UNCHANGED <<socket, rooms>>
          \/ Client!Receive /\ UNCHANGED rooms
      BY <2>6, <3>1, <3>3 DEF Client!RemoveActiveRoom, Client!shared
    <3>5. CASE UNCHANGED <<socket, rooms>>
      BY <2>3, <3>5
    <3>6. CASE Client!Receive /\ UNCHANGED rooms
      <4>1. socket'.at = "recv"
        BY <3>6 DEF Client!Receive
      <4> QED BY <2>3, <3>6, <4>1
    <3> QED BY <3>4, <3>5, <3>6
  <2> QED BY <2>1, <2>4, <2>5, <2>6
<1>3. CASE ServeMe
  BY <1>3 DEF ServeMe
<1>4. CASE Accept
  BY <1>4 DEF Accept, TakeNewConnection, cvars
<1>5. ASSUME NEW c \in Conn, ServeOther(c) PROVE NeverLoggedOn'
  <2>1. name'[Me] = name[Me]
    BY <1>5, NameKept DEF ServeOther, SysInv
  <2> QED BY <1>5, <2>1 DEF ServeOther
<1>6. CASE UNCHANGED svars
  BY <1>6 DEF svars, cvars, vars
<1>7. CASE ServerEnds
  BY <1>7, ServerEndsView
<1> QED BY <1>1, <1>2, <1>3, <1>4, <1>5, <1>6, <1>7 DEF SysNext

LEMMA QueueTypes ==
  ASSUME SysInv
  PROVE  /\ requests \in Seq(RequestType) /\ answers \in Seq(AnswerType)
         /\ keyboard \in [at : KeyboardPlace, line : AnyRoom \cup {None, "FAILURE"},
                          i : Active, room : AnyRoom \cup {None, Unnamed}]
         /\ ClientInv
BY DEF SysInv, ClientInv, SysTypeOK, KeyboardType

(* A connection that is not closed takes what is sent to it.               *)
LEMMA SendAppends ==
  ASSUME up, keyboard.at # "join thread", NEW req, Client!Send(req, Closed)
  PROVE  requests' = Append(requests, req) /\ UNCHANGED answers
<1>1. ~Closed
  BY DEF Closed
<1> QED BY <1>1 DEF Client!Send

LEMMA NothingFollows ==
  ASSUME requests' = <<>>
  PROVE  Following(requests, keyboard.at)'
<1>1. DOMAIN requests' = {}
  OBVIOUS
<1> QED BY <1>1 DEF Following

LEMMA AskingKeeps ==
  ASSUME SysInv, LogonInv, up, UNCHANGED vars,
         \/ \E n \in Nick : Client!EnterName(n, Closed)
         \/ Client!EnterBadName
         \/ Client!ReadNoName
         \/ Client!GetLogonResult(Closed)
  PROVE  LogonInv'
<1>0. UNCHANGED name /\ Asking /\ Awaiting
  BY DEF vars, LogonInv
<1>1. ASSUME NEW n \in Nick, Client!EnterName(n, Closed) PROVE LogonInv'
  <2>1. keyboard.at = "logon" /\ Client!Keyboard("wait")
        /\ Client!Send(Client!Req("LOGON", n), Closed)
    BY <1>1 DEF Client!EnterName, Client!KeyboardAt
  <2>2. keyboard'.at = "wait"
    BY <2>1, QueueTypes, PlaceReached
  <2>3. requests' = Append(<<>>, Client!Req("LOGON", n)) /\ answers' = <<>>
    BY <1>0, <2>1, SendAppends DEF Asking
  <2>4. Len(requests') = 1 /\ requests'[1].type = "LOGON"
    BY <2>3 DEF Client!Req
  <2> QED BY <1>0, <2>1, <2>2, <2>3, <2>4
          DEF LogonInv, Asking, Awaiting, Asked
<1>2. CASE Client!EnterBadName
  <2>1. /\ keyboard.at = "logon" /\ Client!NextLine
        /\ socket' = [socket EXCEPT !.at = "recv"]
        /\ UNCHANGED <<rooms, current_r, requests>>
    BY <1>2 DEF Client!EnterBadName, Client!KeyboardAt, Client!shared,
                Client!queues
  <2>2. keyboard'.at = "read"
    BY <2>1 DEF Client!NextLine
  <2>3. socket'.at = "recv"
    BY <2>1, StartType, QueueTypes
  <2>4. NoneShown' /\ current_r' = 0
    BY <2>1, QueueTypes DEF ClientInv, NoRoomYet, NoneShown
  <2>5. requests' = <<>> /\ name'[Me] = None
    BY <1>0, <2>1 DEF Asking
  <2>6. NeverLoggedOn' /\ Following(requests, keyboard.at)'
    BY <2>2, <2>3, <2>4, <2>5, NothingFollows DEF NeverLoggedOn
  <2> QED BY <2>2, <2>5, <2>6 DEF LogonInv, Asking, Awaiting, Asked
<1>3. CASE Client!GetLogonResult(Closed)
  <2>1. /\ keyboard.at = "wait"
        /\ answers # <<>> \/ Closed
        /\ answers' = <<>> /\ UNCHANGED requests
    BY <1>3 DEF Client!GetLogonResult, Client!KeyboardAt
  <2>0. \/ Head(answers).res /\ Client!NextLine
        \/ /\ ~(answers # <<>> /\ Head(answers).res)
           /\ keyboard' = [keyboard EXCEPT !.at = "logon", !.line = "FAILURE"]
    BY <1>3 DEF Client!GetLogonResult
  <2>5. answers # <<>>
    BY <2>1 DEF Closed
  <2>2. /\ answers # <<>> /\ requests' = <<>>
        /\ Head(answers).res <=> name'[Me] # None
    BY <1>0, <2>1, <2>5 DEF Awaiting
  <2>3. CASE Head(answers).res /\ Client!NextLine
    <3>1. keyboard'.at = "read"
      BY <2>3 DEF Client!NextLine
    <3>2. Following(requests, keyboard.at)'
      BY <2>2, NothingFollows
    <3> QED BY <2>2, <2>3, <3>1, <3>2 DEF LogonInv, Asking, Awaiting, Asked
  <2>4. CASE keyboard' = [keyboard EXCEPT !.at = "logon", !.line = "FAILURE"]
             /\ ~(answers # <<>> /\ Head(answers).res)
    <3>1. keyboard'.at = "logon"
      BY <2>4, QueueTypes
    <3> QED BY <2>1, <2>2, <2>4, <3>1 DEF LogonInv, Asking, Awaiting, Asked
  <2> QED BY <2>0, <2>3, <2>4
<1>4. CASE Client!ReadNoName
  <2>1. keyboard.at = "logon" /\ UNCHANGED <<keyboard, requests, answers>>
    BY <1>4 DEF Client!ReadNoName, Client!KeyboardAt, Client!queues
  <2> QED BY <1>0, <2>1 DEF LogonInv, Asking, Awaiting, Asked
<1> QED BY <1>1, <1>2, <1>3, <1>4

LEMMA FollowingAppended ==
  ASSUME NEW rs \in Seq(RequestType), NEW req \in RequestType,
         NEW t, Appended(t, rs, req), NEW p, NEW q
  PROVE  Following(rs, p) /\ p # "join thread" /\ req.type # "LOGON"
           /\ (req.type = "EXIT" => q = "join thread") => Following(t, q)
<1>1. /\ Len(t) = Len(rs) + 1 /\ Len(rs) \in Nat
      /\ DOMAIN rs = 1 .. Len(rs) /\ DOMAIN t = 1 .. Len(rs) + 1
      /\ \A i \in 1 .. Len(rs) : t[i] = rs[i]
      /\ t[Len(rs) + 1] = req
  BY AppendElements
<1>2. \A i \in DOMAIN t : i \in 1 .. Len(rs) \/ i = Len(rs) + 1
  BY <1>1
<1>3. SUFFICES ASSUME Following(rs, p), p # "join thread", req.type # "LOGON",
                      req.type = "EXIT" => q = "join thread"
               PROVE  Following(t, q)
  OBVIOUS
<1>4. ASSUME NEW i \in 1 .. Len(rs)
      PROVE  t[i].type # "LOGON" /\ t[i].type # "EXIT"
  <2>1. t[i] = rs[i] /\ i \in DOMAIN rs
    BY <1>1, <1>4
  <2> QED BY <1>3, <2>1 DEF Following
<1>5. ASSUME NEW i \in DOMAIN t
      PROVE  /\ t[i].type # "LOGON"
             /\ t[i].type = "EXIT" => i = Len(t) /\ q = "join thread"
  <2>1. CASE i \in 1 .. Len(rs)
    BY <1>4, <2>1
  <2>2. CASE i = Len(rs) + 1
    <3>1. t[i] = req /\ i = Len(t)
      BY <1>1, <2>2
    <3> QED BY <1>3, <3>1
  <2> QED BY <1>2, <1>5, <2>1, <2>2
<1> QED BY <1>5 DEF Following

(* What the user asks for after the logon.                                 *)
LEMMA FollowingKept ==
  ASSUME SysInv, LogonInv, up, UNCHANGED name, name[Me] # None,
         keyboard.at \notin {"logon", "wait", "join thread"},
         keyboard'.at \notin {"logon", "wait"},
         \/ UNCHANGED requests
         \/ \E req \in RequestType :
              /\ Appended(requests', requests, req) /\ req.type # "LOGON"
              /\ req.type = "EXIT" => keyboard'.at = "join thread"
  PROVE  LogonInv'
<1>1. Following(requests, keyboard.at)
  BY DEF LogonInv, Asked
<1>2. requests \in Seq(RequestType)
  BY QueueTypes
<1>3. Following(requests, keyboard.at)'
  <2>1. CASE UNCHANGED requests
    BY <1>1, <2>1 DEF Following
  <2>2. CASE ~UNCHANGED requests
    BY <1>1, <1>2, <2>2, FollowingAppended
  <2> QED BY <2>1, <2>2
<1> QED BY <1>3 DEF LogonInv, Asking, Awaiting, Asked

LEMMA CommandsFollow ==
  ASSUME SysInv, LogonInv, up, UNCHANGED vars,
         \/ Client!TestVoid \/ Client!FindMsgRoom \/ Client!SendRequest(Closed)
         \/ Client!FindShownRoom \/ Client!SwitchRoom \/ Client!DisplayRoom
         \/ Client!SendExit(Closed)
  PROVE  LogonInv'
<1>1. /\ keyboard.at \in {"chat", "other", "msg", "send chat", "join", "leave",
                          "users", "show", "switch", "display", "exit"}
  BY DEF Client!TestVoid, Client!FindMsgRoom, Client!SendRequest,
         Client!FindShownRoom, Client!SwitchRoom, Client!DisplayRoom,
         Client!SendExit, Client!KeyboardAt
<1>2. name[Me] # None /\ UNCHANGED name
  BY <1>1 DEF LogonInv, Asked, NeverLoggedOn, vars
<1>3. CASE Client!SendExit(Closed)
  <2>1. Appended(requests', requests, Client!Req("EXIT", None))
    BY <1>1, <1>3, SendAppends DEF Client!SendExit, Appended
  <2>2. Client!Req("EXIT", None) \in RequestType
        /\ Client!Req("EXIT", None).type = "EXIT"
    BY DEF Client!Req, RequestType
  <2>3. keyboard'.at = "join thread"
    BY <1>3, PlaceReached, QueueTypes DEF Client!SendExit
  <2> QED BY <1>1, <1>2, <2>1, <2>2, <2>3, FollowingKept
<1>4. CASE Client!SendRequest(Closed)
  <2>1. keyboard.at \in {"send chat", "join", "leave", "users"}
    BY <1>4 DEF Client!SendRequest, Client!KeyboardAt
  <2>2. PICK r \in Client!NamesSent :
          IF r = Segv THEN UNCHANGED <<keyboard, requests>>
          ELSE /\ Client!NextLine
               /\ Client!Send(Client!Req(Client!RequestType, r), Closed)
    BY <1>4 DEF Client!SendRequest, Client!queues
  <2>3. CASE r = Segv
    BY <1>1, <1>2, <2>2, <2>3, FollowingKept
  <2>4. CASE r # Segv
    <3>1. r \in AnyRoom
      BY <2>1, <2>4, NamesSentType, QueueTypes
    <3>2. Client!RequestType \in {"MSG", "JOIN", "LEAVE", "RUL"}
      BY <2>1 DEF Client!RequestType
    <3> DEFINE req == Client!Req(Client!RequestType, r)
    <3>3. req \in RequestType /\ req.type \notin {"LOGON", "EXIT"}
      BY <3>1, <3>2 DEF Client!Req, RequestType
    <3>4. Appended(requests', requests, req)
      BY <1>1, <2>2, <2>4, SendAppends DEF Appended
    <3>5. keyboard'.at = "read"
      BY <2>2, <2>4 DEF Client!NextLine
    <3> HIDE DEF req
    <3> QED BY <1>1, <1>2, <3>3, <3>4, <3>5, FollowingKept
  <2> QED BY <2>3, <2>4
<1>5. CASE \/ Client!TestVoid \/ Client!FindMsgRoom
           \/ Client!FindShownRoom \/ Client!SwitchRoom \/ Client!DisplayRoom
  <2>1. UNCHANGED requests
    BY <1>5 DEF Client!TestVoid, Client!FindMsgRoom, Client!FindShownRoom,
                Client!SwitchRoom, Client!DisplayRoom, Client!queues
  <2>2. \/ UNCHANGED keyboard \/ Client!NextLine
        \/ Client!Keyboard("send chat") \/ Client!Keyboard("display")
        \/ \E j : keyboard' = [keyboard EXCEPT !.at = "switch", !.i = j]
    BY <1>5 DEF Client!TestVoid, Client!FindMsgRoom, Client!FindShownRoom,
                Client!SwitchRoom, Client!DisplayRoom, Client!Keyboard
  <2>3. keyboard'.at \notin {"logon", "wait"}
    <3>1. CASE UNCHANGED keyboard
      BY <1>1, <3>1
    <3>2. CASE Client!NextLine
      BY <3>2 DEF Client!NextLine
    <3> QED BY <2>2, <3>1, <3>2, PlaceReached, QueueTypes
  <2> QED BY <1>1, <1>2, <2>1, <2>3, FollowingKept
<1> QED BY <1>3, <1>4, <1>5

LEMMA ReadsFollow ==
  ASSUME SysInv, LogonInv, up, UNCHANGED vars, NEW line \in Line,
         Client!ReadLine(line), NeverLoggedOn => NeverLoggedOn'
  PROVE  LogonInv'
<1>1. UNCHANGED <<requests, name>> /\ keyboard.at = "read"
  BY DEF Client!ReadLine, Client!KeyboardAt, Client!queues, vars
<1>2. CASE name[Me] = None
  <2>1. NeverLoggedOn'
    BY <1>1, <1>2 DEF LogonInv, Asked
  <2> QED BY <1>1, <1>2, <2>1
          DEF LogonInv, Asking, Awaiting, Asked, NeverLoggedOn, Following
<1>3. CASE name[Me] # None
  <2>1. keyboard'.at \notin {"logon", "wait"}
    <3>1. \/ Client!Keyboard("join thread") \/ UNCHANGED keyboard
          \/ \E j, e : keyboard' = [at |-> line.cmd, line |-> line.room,
                                    i |-> j, room |-> e]
      BY DEF Client!ReadLine
    <3>2. line.cmd \notin {"logon", "wait"}
      BY LineAssumption DEF Client!AnyLine
    <3>3. CASE \E j, e : keyboard' = [at |-> line.cmd, line |-> line.room,
                                      i |-> j, room |-> e]
      BY <3>2, <3>3
    <3> QED BY <1>1, <3>1, <3>3, PlaceReached, QueueTypes
  <2> QED BY <1>1, <1>3, <2>1, FollowingKept
<1> QED BY <1>2, <1>3

(* The other thread, and the end of the first one.                         *)
LEMMA OtherThreadKeepsLogon ==
  ASSUME SysInv, LogonInv, UNCHANGED <<keyboard, requests, name, up>>,
         UNCHANGED answers \/ keyboard.at \notin {"logon", "wait"},
         NeverLoggedOn => NeverLoggedOn'
  PROVE  LogonInv'
BY DEF LogonInv, Asking, Awaiting, Asked, Following

LEMMA ThreadsKeepLogon ==
  ASSUME SysInv, LogonInv, UNCHANGED vars, NeverLoggedOn => NeverLoggedOn',
         Client!SocketThread(Closed) \/ Client!JoinThread
  PROVE  LogonInv'
<1>1. CASE Client!SocketThread(Closed)
  <2>1. socket.at # "none" /\ UNCHANGED <<keyboard, requests>>
    BY <1>1 DEF Client!SocketThread, Client!RecvEnd, Client!Recv,
       Client!TestCurrentRoom, Client!AddToRoomHistory, Client!TestFirstRoom,
       Client!RemoveActiveRoom, Client!WasCurrent, Client!SwitchToFirst,
       Client!DisplayFirst, Client!AddActiveRoom, Client!NameRoom,
       Client!MakeCurrent, Client!TestAllLeft, Client!FreeRooms,
       Client!GotoDefaultRoom, Client!SocketAt, Client!queues
  <2>2. keyboard.at \notin {"logon", "wait"}
    BY <2>1, QueueTypes DEF ClientInv, NoRoomYet
  <2> QED BY <2>1, <2>2, OtherThreadKeepsLogon DEF vars
<1>2. CASE Client!JoinThread
  BY <1>2, OtherThreadKeepsLogon DEF Client!JoinThread, Client!queues, vars
<1> QED BY <1>1, <1>2

(* The requests that a recv() leaves.                                      *)
LEMMA FollowingRest ==
  ASSUME NEW rs \in Seq(RequestType), NEW k \in 1 .. Len(rs), NEW p,
         Following(rs, p)
  PROVE  Following(SubSeq(rs, k + 1, Len(rs)), p)
<1> DEFINE t == SubSeq(rs, k + 1, Len(rs))
<1>1. /\ Len(rs) \in Nat /\ k \in Nat /\ k <= Len(rs) /\ DOMAIN rs = 1 .. Len(rs)
      /\ Len(t) = Len(rs) - k /\ DOMAIN t = 1 .. Len(rs) - k
      /\ \A i \in 1 .. Len(rs) - k : t[i] = rs[k + i]
  BY LenProperties
<1> HIDE DEF t
<1>2. ASSUME NEW i \in DOMAIN t
      PROVE  /\ i \in Nat /\ k + i \in DOMAIN rs /\ t[i] = rs[k + i]
             /\ k + i = Len(rs) => i = Len(t)
  BY <1>1, <1>2
<1>3. Following(t, p)
  BY <1>2 DEF Following
<1> QED BY <1>3 DEF t

(* The first answers stay the first ones.                                  *)
LEMMA HeadStays ==
  ASSUME NEW S, NEW s \in Seq(S), NEW t \in Seq(S), s # <<>>
  PROVE  s \o t # <<>> /\ Head(s \o t) = Head(s)
BY LenProperties

(* The answer to a request for a name.                                     *)
LEMMA LogonAnswered ==
  ASSUME SysInv, NEW n \in Name, AcceptNewCli(Me, n)
  PROVE  /\ AnswersSent # <<>>
         /\ Head(AnswersSent).res <=> name'[Me] # None
<1>1. name[Me] = None /\ Me \in Conn /\ n # None
      /\ name \in [Conn -> Name \cup {None}]
  BY MeAssumption, DistinctAssumption DEF AcceptNewCli, SysInv, IInv, TypeOK
<1>2. PICK ok \in BOOLEAN : /\ Transmit(LogonReply(Me, ok))
                            /\ ok <=> name'[Me] # None
  BY <1>1 DEF AcceptNewCli
<1>3. out'.type = "LOGON" /\ out'.to = {Me} /\ out'.res = ok
  BY <1>2 DEF Transmit, LogonReply, Quiet
<1>4. AnswersSent = <<Answer(out'.room)>>
  BY <1>3 DEF AnswersSent
<1> QED BY <1>2, <1>3, <1>4 DEF Answer

LEMMA ServeMeKeepsLogon ==
  ASSUME SysInv, LogonInv, up, ServeMe
  PROVE  LogonInv'
<1>1. /\ requests # <<>> /\ Handle(Head(requests))
      /\ UNCHANGED keyboard /\ answers' = answers \o AnswersSent
  BY DEF ServeMe
<1>2. PICK k \in 1 .. Len(requests) :
        requests' = SubSeq(requests, k + 1, Len(requests))
  BY DEF ServeMe
<1>3. requests \in Seq(RequestType) /\ Len(requests) \in Nat /\ Len(requests) > 0
      /\ Head(requests) = requests[1]
  BY <1>1, QueueTypes
<1>4. requests[1] \in RequestType
  BY <1>3
<1>5. Asking /\ Awaiting /\ Asked
  BY DEF LogonInv
<1>6. keyboard.at # "logon"
  BY <1>1, <1>5 DEF Asking
<1>7. CASE keyboard.at = "wait"
  <2>1. Len(requests) = 1 /\ requests[1].type = "LOGON" /\ answers = <<>>
    BY <1>1, <1>5, <1>7 DEF Awaiting
  <2>2. AcceptNewCli(Me, requests[1].room)
    BY <1>1, <1>3, <2>1 DEF Handle
  <2>3. requests[1].room \in Name
    BY <1>4, <2>1, NickAssumption DEF RequestType
  <2>4. /\ AnswersSent # <<>>
        /\ Head(AnswersSent).res <=> name'[Me] # None
    BY <2>2, <2>3, LogonAnswered
  <2>5. answers' = AnswersSent
    <3>1. AnswersSent \in Seq(AnswerType)
      BY <1>1, ServeMeKeeps, SentInStep
    <3> QED BY <1>1, <2>1, <3>1
  <2>6. requests' = <<>>
    BY <1>2, <1>3, <2>1
  <2> QED BY <1>1, <1>7, <2>4, <2>5, <2>6 DEF LogonInv, Asking, Awaiting, Asked
<1>8. CASE keyboard.at \notin {"logon", "wait"}
  <2>1. name[Me] # None /\ Following(requests, keyboard.at)
    BY <1>1, <1>5, <1>8 DEF Asked
  <2>2. Following(requests, keyboard.at)'
    BY <1>1, <1>2, <1>3, <2>1, FollowingRest
  <2>3. /\ requests[1].type # "LOGON"
        /\ requests[1].type = "EXIT" =>
             Len(requests) = 1 /\ keyboard.at = "join thread"
    <3>1. 1 \in DOMAIN requests
      BY <1>3
    <3> QED BY <2>1, <3>1 DEF Following
  <2>4. CASE requests[1].type = "EXIT"
    <3>1. keyboard.at = "join thread"
      BY <2>3, <2>4
    <3>2. Len(requests) = 1
      BY <2>3, <2>4
    <3>3. requests' = <<>>
      BY <1>2, <1>3, <3>2
    <3> QED BY <1>1, <2>2, <3>1, <3>3 DEF LogonInv, Asking, Awaiting, Asked
  <2>5. CASE requests[1].type # "EXIT"
    <3>1. UNCHANGED name
      BY <1>1, <1>3, <2>3, <2>5
         DEF Handle, JoinRefused, JoinRoom, JoinLongRoom, LeaveRoom, Message,
             MessageIgnored, ListRoomUsers
    <3> QED BY <1>1, <1>8, <2>1, <2>2, <3>1
            DEF LogonInv, Asking, Awaiting, Asked
  <2> QED BY <2>4, <2>5
<1> QED BY <1>6, <1>7, <1>8

LEMMA ServeOtherKeepsLogon ==
  ASSUME SysInv, LogonInv, up, NEW c \in Conn, ServeOther(c),
         NeverLoggedOn => NeverLoggedOn'
  PROVE  LogonInv'
<1>1. /\ Other(c) /\ UNCHANGED <<keyboard, requests>>
      /\ answers' = answers \o AnswersSent
  BY DEF ServeOther
<1>2. name'[Me] = name[Me]
  BY <1>1, NameKept DEF SysInv
<1>3. AnswersSent \in Seq(AnswerType) /\ answers \in Seq(AnswerType)
  BY ServeOtherKeeps, SentInStep, QueueTypes
<1>4. name[Me] = None => AnswersSent = <<>>
  BY <1>1, NotAddressed DEF SysInv
<1>5. answers = <<>> /\ name[Me] = None => answers' = <<>>
  BY <1>1, <1>4
<1>6. answers # <<>> => answers' # <<>> /\ Head(answers') = Head(answers)
  BY <1>1, <1>3, HeadStays
<1>7. Asking /\ Awaiting /\ Asked
  BY DEF LogonInv
<1>8. Asking' /\ Awaiting'
  BY <1>1, <1>2, <1>5, <1>6, <1>7 DEF Asking, Awaiting
<1>9. Asked'
  BY <1>1, <1>2, <1>7 DEF Asked, Following
<1> QED BY <1>8, <1>9 DEF LogonInv

LEMMA LogonInitially == SysInit => LogonInv
<1> SUFFICES ASSUME SysInit PROVE LogonInv
  OBVIOUS
<1>1. keyboard.at = "logon" /\ requests = <<>> /\ answers = <<>>
  BY DEF SysInit, Client!ClientInit
<1>2. name[Me] = None
  BY MeAssumption DEF SysInit, Init
<1> QED BY <1>1, <1>2 DEF LogonInv, Asking, Awaiting, Asked

LEMMA LogonKept ==
  ASSUME SysInv, LogonInv, [SysNext]_svars
  PROVE  LogonInv'
<1>1. [Next]_vars
  BY SysNextKeeps
<1>2. up' => up
  BY <1>1, UpBefore DEF vars
<1>3. SUFFICES ASSUME up PROVE LogonInv'
  BY <1>2 DEF LogonInv
<1>4. NeverLoggedOn => NeverLoggedOn'
  BY NeverLoggedOnKept
<1>5. CASE ClientStep(Client!User(Closed))
  BY <1>3, <1>4, <1>5, AskingKeeps, ReadsFollow DEF ClientStep, Client!User
<1>6. CASE ClientStep(Client!MainThread(Closed))
  BY <1>3, <1>4, <1>6, AskingKeeps, CommandsFollow, ThreadsKeepLogon
     DEF ClientStep, Client!MainThread
<1>7. CASE ClientStep(Client!SocketThread(Closed))
  BY <1>4, <1>7, ThreadsKeepLogon DEF ClientStep
<1>8. CASE ServeMe
  BY <1>3, <1>8, ServeMeKeepsLogon
<1>9. ASSUME NEW c \in Conn, ServeOther(c) PROVE LogonInv'
  BY <1>3, <1>4, <1>9, ServeOtherKeepsLogon
<1>10. CASE Accept
  BY <1>4, <1>10, OtherThreadKeepsLogon DEF Accept, TakeNewConnection, cvars
<1>11. CASE UNCHANGED svars
  BY <1>4, <1>11, OtherThreadKeepsLogon DEF svars, cvars, vars
<1>12. CASE ServerEnds
  BY <1>12, ServerEndsView DEF LogonInv
<1> QED BY <1>5, <1>6, <1>7, <1>8, <1>9, <1>10, <1>11, <1>12 DEF SysNext

(* The first request that waits at the server is the logon exactly while   *)
(* the client has no name there: no request comes before the logon, none   *)
(* asks for a second name, and none follows the RC_EXIT that takes the     *)
(* name away, whatever else is under way.                                  *)
THEOREM NameIsAskedFirst == SysSpec => []LogonComesFirst
<1>1. SysInit => LogonInv
  BY LogonInitially
<1>2. SysInv /\ LogonInv /\ [SysNext]_svars => LogonInv'
  BY LogonKept
<1>3. SysInv /\ LogonInv => LogonComesFirst
  <2> SUFFICES ASSUME SysInv, LogonInv, up, requests # <<>>
               PROVE  Head(requests).type = "LOGON" <=> name[Me] = None
    BY DEF LogonComesFirst
  <2>1. /\ Len(requests) \in Nat /\ Len(requests) > 0
        /\ Head(requests) = requests[1] /\ 1 \in DOMAIN requests
    BY QueueTypes
  <2> QED BY <2>1 DEF LogonInv, Asking, Awaiting, Asked, Following
<1> QED BY <1>1, <1>2, <1>3, SysInvariance, PTL DEF SysSpec

-----------------------------------------------------------------------------
(* The list of rooms.                                                      *)
(*                                                                         *)
(* The server's state in so far as it concerns this client: the entries of *)
(* active_rooms and the rooms it is a member of.  Each answer tells of a   *)
(* step from one such view to the next: the client is as many steps behind *)
(* as answers are under way.                                               *)

ServerView == [entries |-> active_rooms[Me], members |-> MyRooms]

Views ==
  [entries : [Active -> AnyRoom \cup {None}], members : SUBSET Room]

Takes(v, w, r) == \E j \in Active : v[j] = None /\ w = [v EXCEPT ![j] = r]

Gives(v, w, r) ==
  w = v \/ \E j \in Active : v[j] = r /\ w = [v EXCEPT ![j] = None]

(* A room joined, a room left, and neither.                                *)
Joins(v, w, r) ==
  /\ Takes(v.entries, w.entries, r)
  /\ w.members \subseteq v.members \cup {r}

Leaves(v, w, r) ==
  /\ Gives(v.entries, w.entries, r)
  /\ w.members \subseteq v.members \ {r}

Keeps(v, w) == w.entries = v.entries /\ w.members \subseteq v.members

(* What an answer tells.  After a refused request to join a room an entry  *)
(* may nevertheless be taken, and after RC_EXIT nothing is known.          *)
Said(a, v, w) ==
  IF a.type = "EXIT" THEN TRUE
  ELSE IF a.type = "JOIN" /\ a.res THEN Joins(v, w, a.room)
  ELSE IF a.type = "JOIN"
  THEN /\ w.entries = v.entries \/ Takes(v.entries, w.entries, a.room)
       /\ w.members \subseteq v.members
  ELSE IF a.type = "LEAVE" /\ a.res THEN Leaves(v, w, a.room)
  ELSE Keeps(v, w) /\ (a.type = "MSG" => a.room \in v.members)

Steps ==
  {s \in Views \X AnswerType \X Views : Said(s[2], s[1], s[3])}

Tells(v, s, w) == Leads(Steps, Views, v, s, w)

LEMMA StepIs ==
  ASSUME NEW v \in Views, NEW w \in Views, NEW a \in AnswerType
  PROVE  <<v, a, w>> \in Steps <=> Said(a, v, w)
<1>1. <<v, a, w>> \in Views \X AnswerType \X Views
  OBVIOUS
<1>2. <<v, a, w>>[1] = v /\ <<v, a, w>>[2] = a /\ <<v, a, w>>[3] = w
  OBVIOUS
<1> QED BY <1>1, <1>2 DEF Steps

LEMMA ViewType ==
  ASSUME TypeOK
  PROVE  ServerView \in Views
<1>1. active_rooms[Me] \in [Active -> AnyRoom \cup {None}]
  BY MeAssumption DEF TypeOK
<1>2. MyRooms \in SUBSET Room
  BY DEF MyRooms
<1> QED BY <1>1, <1>2 DEF ServerView, Views

LEMMA ViewTypeAfter ==
  ASSUME TypeOK'
  PROVE  ServerView' \in Views
<1>1. active_rooms'[Me] \in [Active -> AnyRoom \cup {None}]
  BY MeAssumption DEF TypeOK
<1>2. MyRooms' \in SUBSET Room
  BY DEF MyRooms
<1> QED BY <1>1, <1>2 DEF ServerView, Views

(* One answer, or none.                                                    *)
LEMMA OneTells ==
  ASSUME NEW v \in Views, NEW w \in Views, NEW a \in AnswerType, Said(a, v, w),
         NEW s, s = <<a>>
  PROVE  Tells(v, s, w)
<1>1. Len(s) = 1 /\ s[1] = a
  OBVIOUS
<1>2. <<v, a, w>> \in Steps
  BY StepIs
<1> QED BY <1>1, <1>2, OneLeads DEF Tells

LEMMA NoneTells ==
  ASSUME NEW v \in Views
  PROVE  \A w : Tells(v, <<>>, w) <=> w = v
<1>1. Len(<<>>) = 0
  OBVIOUS
<1> QED BY <1>1, EmptyLeads DEF Tells

-----------------------------------------------------------------------------
(* What the server does for others.                                        *)

(* Nobody else changes this client's entries or memberships.               *)
LEMMA OthersLeaveView ==
  ASSUME IInv, NEW c \in Conn, Other(c)
  PROVE  UNCHANGED ServerView
<1>0. /\ c # Me /\ Me \in Conn /\ c \in Conn
      /\ active_rooms \in [Conn -> [Active -> AnyRoom \cup {None}]]
      /\ name \in [Conn -> Name \cup {None}]
      /\ room \in [Room -> RoomInfo(Name, Text)]
      /\ TypeOK /\ None \notin Name
  BY MeAssumption, DistinctAssumption DEF Other, IInv, TypeOK
<1>1. name'[Me] = name[Me]
  BY NameKept
<1>2. \A r \in Room : CountsItsUsers(room[r]) /\ OneSlotEach(room[r])
  BY DEF IInv, RoomsCount
<1>3. name[Me] # None /\ name[c] # None => name[c] # name[Me]
  BY <1>0 DEF IInv, Nameless, NamesUnique, Named
<1>4. SUFFICES /\ active_rooms'[Me] = active_rooms[Me]
               /\ \A r \in Room : name[Me] # None =>
                    (name[Me] \in Occupants(room'[r])
                       <=> name[Me] \in Occupants(room[r]))
  BY <1>1 DEF ServerView, MyRooms, Members
<1>5. ASSUME Request(c)
      PROVE  ServFindClient(name[c], None) = c /\ name[c] # None
             /\ name[c] \in Name
  BY <1>0, <1>5, FindsByName DEF Request
<1>6. ASSUME NEW r \in Room, JoinRoom(c, r)
      PROVE  /\ active_rooms'[Me] = active_rooms[Me]
             /\ \A q \in Room : name[Me] # None =>
                  (name[Me] \in Occupants(room'[q])
                     <=> name[Me] \in Occupants(room[q]))
  <2>1. /\ FreeActive(c) # {} /\ ServAddActiveRoom(c, r) /\ name[c] \in Name
        /\ name[c] # None
        /\ room' = [room EXCEPT ![r] = AddedUser(@, name[c])]
    BY <1>5, <1>6 DEF JoinRoom
  <2>2. active_rooms'[Me] = active_rooms[Me]
    BY <1>0, <2>1, AddsActiveRoom DEF AnyRoom
  <2>3. \/ Occupants(AddedUser(room[r], name[c])) = Occupants(room[r])
        \/ Occupants(AddedUser(room[r], name[c])) =
             Occupants(room[r]) \cup {name[c]}
    <3>1. room[r] \in RoomInfo(Name, Text)
      BY <1>0
    <3> QED BY <1>0, <1>2, <2>1, <3>1, AddedUserCorrect
  <2>4. room'[r] = AddedUser(room[r], name[c])
        /\ \A q \in Room \ {r} : room'[q] = room[q]
    BY <1>0, <2>1
  <2> QED BY <1>3, <2>1, <2>2, <2>3, <2>4
<1>7. ASSUME NEW r \in Room, LeaveRoom(c, r)
      PROVE  /\ active_rooms'[Me] = active_rooms[Me]
             /\ \A q \in Room : name[Me] # None =>
                  (name[Me] \in Occupants(room'[q])
                     <=> name[Me] \in Occupants(room[q]))
  <2>1. name[c] \in Name /\ name[c] # None
    BY <1>5, <1>7 DEF LeaveRoom
  <2>2. \/ UNCHANGED <<room, active_rooms>>
        \/ /\ room' = [room EXCEPT ![r] = RemovedUser(@, name[c])]
           /\ ServRemoveActiveRoom(c, r)
    BY <1>5, <1>7 DEF LeaveRoom
  <2>3. CASE UNCHANGED <<room, active_rooms>>
    BY <2>3
  <2>4. CASE /\ room' = [room EXCEPT ![r] = RemovedUser(@, name[c])]
             /\ ServRemoveActiveRoom(c, r)
    <3>1. active_rooms'[Me] = active_rooms[Me]
      BY <1>0, <2>4, RemovesActiveRoom DEF AnyRoom
    <3>2. Occupants(RemovedUser(room[r], name[c])) =
            Occupants(room[r]) \ {name[c]}
      <4>1. room[r] \in RoomInfo(Name, Text)
        BY <1>0
      <4> QED BY <1>0, <1>2, <2>1, <4>1, RemovedUserCorrect
    <3>3. room'[r] = RemovedUser(room[r], name[c])
          /\ \A q \in Room \ {r} : room'[q] = room[q]
      BY <1>0, <2>4
    <3> QED BY <1>3, <2>1, <3>1, <3>2, <3>3
  <2> QED BY <2>2, <2>3, <2>4
<1>8. ASSUME NEW r \in Room, NEW t \in Text, Message(c, r, t)
      PROVE  /\ active_rooms'[Me] = active_rooms[Me]
             /\ \A q \in Room : name[Me] # None =>
                  (name[Me] \in Occupants(room'[q])
                     <=> name[Me] \in Occupants(room[q]))
  <2>1. UNCHANGED active_rooms
        /\ room' = [room EXCEPT ![r] = AddedHistory(@, t)]
    BY <1>8 DEF Message
  <2>2. Occupants(AddedHistory(room[r], t)) = Occupants(room[r])
    <3>1. room[r] \in RoomInfo(Name, Text)
      BY <1>0
    <3> QED BY <3>1, AddedHistoryKeepsUsers
  <2>3. room'[r] = AddedHistory(room[r], t)
        /\ \A q \in Room \ {r} : room'[q] = room[q]
    BY <1>0, <2>1
  <2> QED BY <2>1, <2>2, <2>3
<1>9. ASSUME c \in Clients, ServFreeClient(c)
      PROVE  /\ active_rooms'[Me] = active_rooms[Me]
             /\ \A q \in Room : name[Me] # None =>
                  (name[Me] \in Occupants(room'[q])
                     <=> name[Me] \in Occupants(room[q]))
  <2>1. active_rooms'[Me] = active_rooms[Me]
    BY <1>0, <1>9 DEF ServFreeClient
  <2>2. \A q \in Room : Occupants(room'[q]) = Occupants(room[q]) \ {name[c]}
    BY <1>9, FreesRooms DEF Members
  <2> QED BY <1>3, <2>1, <2>2
<1>10. CASE Exit(c)
  <2>1. c \in Clients /\ ServFreeClient(c)
    BY <1>5, <1>10 DEF Exit, IrcShutdownClient, ForgetClient, Request, Ready
  <2> QED BY <1>9, <2>1
<1>11. CASE DisconnectCrashes(c) \/ DisconnectSurvives(c)
  <2>1. c \in Clients /\ ServFreeClient(c)
    BY <1>11 DEF DisconnectCrashes, DisconnectSurvives, IrcShutdownClient,
                 ForgetClient, Ready
  <2> QED BY <1>9, <2>1
<1>12. CASE \/ TakeNewConnection(c) \/ PeerCloses(c)
            \/ \E n \in Name : AcceptNewCli(c, n)
  BY <1>12 DEF TakeNewConnection, PeerCloses, AcceptNewCli
<1> QED BY <1>6, <1>7, <1>8, <1>10, <1>11, <1>12, OthersAssumption DEF Other

-----------------------------------------------------------------------------
(* What the server does for this client: its answer tells of it.           *)

LEMMA AnswerIs ==
  ASSUME NEW r, NEW ok, NEW n, NEW ns
  PROVE  /\ Transmit(JoinReply(Me, r, ok, n)) =>
              AnswersSent = <<[type |-> "JOIN", room |-> r, res |-> ok,
                               num |-> n]>>
         /\ Transmit(LeaveReply(Me, r, ok)) =>
              AnswersSent = <<[type |-> "LEAVE", room |-> r, res |-> ok,
                               num |-> 0]>>
         /\ Transmit(ExitReply(Me)) =>
              AnswersSent = <<[type |-> "EXIT", room |-> None, res |-> FALSE,
                               num |-> 0]>>
         /\ out' = Quiet => AnswersSent = <<>>
<1>1. ASSUME Transmit(JoinReply(Me, r, ok, n))
      PROVE  AnswersSent = <<[type |-> "JOIN", room |-> r, res |-> ok,
                               num |-> n]>>
  <2>1. out'.type = "JOIN" /\ out'.room = r /\ out'.res = ok /\ out'.to = {Me}
        /\ out'.num = n
    BY <1>1 DEF Transmit, JoinReply, Quiet
  <2> QED BY <2>1 DEF AnswersSent, Answer
<1>2. ASSUME Transmit(LeaveReply(Me, r, ok))
      PROVE  AnswersSent = <<[type |-> "LEAVE", room |-> r, res |-> ok,
                               num |-> 0]>>
  <2>1. out'.type = "LEAVE" /\ out'.room = r /\ out'.res = ok /\ out'.to = {Me}
        /\ out'.num = 0
    BY <1>2 DEF Transmit, LeaveReply, Quiet
  <2> QED BY <2>1 DEF AnswersSent, Answer
<1>3. ASSUME Transmit(ExitReply(Me))
      PROVE  AnswersSent = <<[type |-> "EXIT", room |-> None, res |-> FALSE,
                               num |-> 0]>>
  <2>1. out'.type = "EXIT" /\ out'.room = None /\ out'.res = FALSE
        /\ out'.to = {Me} /\ out'.num = 0
    BY <1>3 DEF Transmit, ExitReply, Quiet
  <2> QED BY <2>1 DEF AnswersSent, Answer
<1>4. ASSUME out' = Quiet PROVE AnswersSent = <<>>
  BY <1>4 DEF Quiet, AnswersSent
<1> QED BY <1>1, <1>2, <1>3, <1>4

(* The entry that a join takes and the one that a leave gives up.          *)
LEMMA EntryTaken ==
  ASSUME TypeOK, NEW r, FreeActive(Me) # {}, ServAddActiveRoom(Me, r)
  PROVE  Takes(active_rooms[Me], active_rooms'[Me], r)
<1> DEFINE j == Least(FreeActive(Me))
<1>1. /\ Me \in Conn
      /\ active_rooms \in [Conn -> [Active -> AnyRoom \cup {None}]]
  BY MeAssumption DEF TypeOK
<1>2. FreeActive(Me) \in SUBSET Nat
  BY ActiveFinite DEF FreeActive
<1>3. j \in FreeActive(Me)
  BY <1>2, LeastIsLeast
<1>4. j \in Active /\ active_rooms[Me][j] = None
  BY <1>3 DEF FreeActive
<1>5. active_rooms'[Me] = [active_rooms[Me] EXCEPT ![j] = r]
  BY <1>1 DEF ServAddActiveRoom
<1> HIDE DEF j
<1> QED BY <1>4, <1>5 DEF Takes

LEMMA EntryGiven ==
  ASSUME TypeOK, NEW r, ServRemoveActiveRoom(Me, r)
  PROVE  Gives(active_rooms[Me], active_rooms'[Me], r)
<1> DEFINE S == {i \in Active : active_rooms[Me][i] = r}
           j == Least(S)
<1>1. /\ Me \in Conn
      /\ active_rooms \in [Conn -> [Active -> AnyRoom \cup {None}]]
  BY MeAssumption DEF TypeOK
<1>2. CASE S = {}
  BY <1>2 DEF ServRemoveActiveRoom, Gives
<1>3. CASE S # {}
  <2>1. S \in SUBSET Nat
    BY ActiveFinite
  <2>2. j \in S
    BY <1>3, <2>1, LeastIsLeast
  <2>3. j \in Active /\ active_rooms[Me][j] = r
    BY <2>2
  <2>4. active_rooms'[Me] = [active_rooms[Me] EXCEPT ![j] = None]
    BY <1>1, <1>3 DEF ServRemoveActiveRoom
  <2> HIDE DEF j
  <2> QED BY <2>3, <2>4 DEF Gives
<1> QED BY <1>2, <1>3

(* Rooms joined and left.                                                  *)
LEMMA MembersChange ==
  ASSUME IInv, NEW r \in Room, UNCHANGED name, name[Me] # None
  PROVE  /\ room' = [room EXCEPT ![r] = AddedUser(@, name[Me])] =>
              /\ AddSucceeds(room[r], name[Me]) => MyRooms' \subseteq MyRooms \cup {r}
              /\ ~AddSucceeds(room[r], name[Me]) => MyRooms' \subseteq MyRooms
         /\ room' = [room EXCEPT ![r] = RemovedUser(@, name[Me])] =>
              MyRooms' \subseteq MyRooms \ {r}
         /\ \A t \in Text : room' = [room EXCEPT ![r] = AddedHistory(@, t)] =>
              MyRooms' = MyRooms
<1>0. /\ Me \in Conn /\ name[Me] \in Name /\ None \notin Name
      /\ room \in [Room -> RoomInfo(Name, Text)] /\ room[r] \in RoomInfo(Name, Text)
      /\ CountsItsUsers(room[r]) /\ OneSlotEach(room[r])
  BY MeAssumption, DistinctAssumption DEF IInv, TypeOK, RoomsCount
<1>1. ASSUME room' = [room EXCEPT ![r] = AddedUser(@, name[Me])]
      PROVE  /\ AddSucceeds(room[r], name[Me]) => MyRooms' \subseteq MyRooms \cup {r}
             /\ ~AddSucceeds(room[r], name[Me]) => MyRooms' \subseteq MyRooms
  <2>1. room'[r] = AddedUser(room[r], name[Me])
        /\ \A q \in Room \ {r} : room'[q] = room[q]
    BY <1>0, <1>1
  <2>2. ~AddSucceeds(room[r], name[Me]) => AddedUser(room[r], name[Me]) = room[r]
    BY <1>0, AddedUserCorrect
  <2> QED BY <2>1, <2>2 DEF MyRooms, Members
<1>2. ASSUME room' = [room EXCEPT ![r] = RemovedUser(@, name[Me])]
      PROVE  MyRooms' \subseteq MyRooms \ {r}
  <2>1. room'[r] = RemovedUser(room[r], name[Me])
        /\ \A q \in Room \ {r} : room'[q] = room[q]
    BY <1>0, <1>2
  <2>2. name[Me] \notin Occupants(RemovedUser(room[r], name[Me]))
    BY <1>0, RemovedUserCorrect
  <2> QED BY <2>1, <2>2 DEF MyRooms, Members
<1>3. ASSUME NEW t \in Text, room' = [room EXCEPT ![r] = AddedHistory(@, t)]
      PROVE  MyRooms' = MyRooms
  <2>1. room'[r] = AddedHistory(room[r], t)
        /\ \A q \in Room \ {r} : room'[q] = room[q]
    BY <1>0, <1>3
  <2>2. Occupants(AddedHistory(room[r], t)) = Occupants(room[r])
    BY <1>0, AddedHistoryKeepsUsers
  <2> QED BY <2>1, <2>2 DEF MyRooms, Members
<1> QED BY <1>1, <1>2, <1>3

LEMMA JoinTells ==
  ASSUME IInv, TypeOK', name[Me] # None, NEW r \in AnyRoom,
         \/ JoinRefused(Me, r)
         \/ r \in Room /\ JoinRoom(Me, r)
         \/ r \in LongRoom /\ JoinLongRoom(Me, r)
  PROVE  Tells(ServerView, AnswersSent, ServerView')
<1>0. /\ Me \in Conn /\ TypeOK /\ ServFindClient(name[Me], None) = Me
      /\ ServerView \in Views /\ ServerView' \in Views
  BY MeAssumption, FindsByName, ViewType, ViewTypeAfter DEF IInv
<1> DEFINE a(ok, n) == [type |-> "JOIN", room |-> r, res |-> ok, num |-> n]
<1>1. \A ok \in BOOLEAN, n \in Nat : a(ok, n) \in AnswerType
  BY DEF AnswerType
<1>2. CASE JoinRefused(Me, r)
  <2>1. AnswersSent = <<a(FALSE, 0)>>
    BY <1>0, <1>2, AnswerIs DEF JoinRefused
  <2>2. ServerView' = ServerView
    BY <1>2 DEF JoinRefused, ServerView, MyRooms, Members
  <2>3. Said(a(FALSE, 0), ServerView, ServerView')
    BY <2>2 DEF Said, Keeps
  <2> QED BY <1>0, <1>1, <2>1, <2>3, OneTells
<1>3. CASE r \in Room /\ JoinRoom(Me, r)
  <2> DEFINE N == room'[r].num_users
  <2>6. N \in Nat
    <3>1. room' \in [Room -> RoomInfo(Name, Text)]
      BY DEF TypeOK
    <3>2. room'[r] \in RoomInfo(Name, Text)
      BY <1>3, <3>1
    <3> QED BY <3>2 DEF RoomInfo
  <2>1. /\ FreeActive(Me) # {} /\ ServAddActiveRoom(Me, r) /\ UNCHANGED name
        /\ room' = [room EXCEPT ![r] = AddedUser(@, name[Me])]
    BY <1>0, <1>3 DEF JoinRoom
  <2>2. Takes(active_rooms[Me], active_rooms'[Me], r)
    BY <1>0, <2>1, EntryTaken
  <2>3. /\ AddSucceeds(room[r], name[Me]) => MyRooms' \subseteq MyRooms \cup {r}
        /\ ~AddSucceeds(room[r], name[Me]) => MyRooms' \subseteq MyRooms
    BY <1>3, <2>1, MembersChange
  <2>4. \/ /\ AddSucceeds(room[r], name[Me])
           /\ Transmit(JoinReply(Me, r, TRUE, N))
        \/ /\ ~AddSucceeds(room[r], name[Me])
           /\ Transmit(JoinReply(Me, r, FALSE, 0))
    BY <1>0, <1>3 DEF JoinRoom
  <2> HIDE DEF N
  <2>5. \/ /\ AnswersSent = <<a(TRUE, N)>>
           /\ Said(a(TRUE, N), ServerView, ServerView')
        \/ /\ AnswersSent = <<a(FALSE, 0)>>
           /\ Said(a(FALSE, 0), ServerView, ServerView')
    <3>1. CASE /\ AddSucceeds(room[r], name[Me])
               /\ Transmit(JoinReply(Me, r, TRUE, N))
      <4>1. AnswersSent = <<a(TRUE, N)>>
        BY <3>1, AnswerIs
      <4>2. Said(a(TRUE, N), ServerView, ServerView')
        BY <2>2, <2>3, <3>1 DEF Said, Joins, Leaves, ServerView
      <4> QED BY <4>1, <4>2
    <3>2. CASE /\ ~AddSucceeds(room[r], name[Me])
               /\ Transmit(JoinReply(Me, r, FALSE, 0))
      <4>1. AnswersSent = <<a(FALSE, 0)>>
        BY <3>2, AnswerIs
      <4>2. Said(a(FALSE, 0), ServerView, ServerView')
        BY <2>2, <2>3, <3>2 DEF Said, Joins, Leaves, ServerView
      <4> QED BY <4>1, <4>2
    <3> QED BY <2>4, <3>1, <3>2
  <2> QED BY <1>0, <1>1, <2>5, <2>6, OneTells
<1>4. CASE r \in LongRoom /\ JoinLongRoom(Me, r)
  <2>1. /\ FreeActive(Me) # {} /\ ServAddActiveRoom(Me, r)
        /\ UNCHANGED <<name, room>>
        /\ Transmit(JoinReply(Me, r, TRUE, EINVAL))
    BY <1>0, <1>4 DEF JoinLongRoom
  <2>2. Takes(active_rooms[Me], active_rooms'[Me], r)
    BY <1>0, <2>1, EntryTaken
  <2>3. AnswersSent = <<a(TRUE, EINVAL)>>
    BY <2>1, AnswerIs
  <2>4. MyRooms' = MyRooms
    BY <2>1 DEF MyRooms, Members
  <2>5. Said(a(TRUE, EINVAL), ServerView, ServerView')
    BY <2>2, <2>4 DEF Said, Joins, Leaves, ServerView
  <2> QED BY <1>0, <1>1, <2>3, <2>5, OneTells, EinvalAssumption
<1> QED BY <1>2, <1>3, <1>4

LEMMA LeaveTells ==
  ASSUME IInv, TypeOK', name[Me] # None, NEW r \in AnyRoom, LeaveRoom(Me, r)
  PROVE  Tells(ServerView, AnswersSent, ServerView')
<1>0. /\ Me \in Conn /\ TypeOK /\ ServFindClient(name[Me], None) = Me
      /\ ServerView \in Views /\ ServerView' \in Views /\ tree \subseteq Room
  BY MeAssumption, FindsByName, ViewType, ViewTypeAfter DEF IInv, TypeOK
<1> DEFINE a(ok) == [type |-> "LEAVE", room |-> r, res |-> ok, num |-> 0]
<1>1. a(TRUE) \in AnswerType /\ a(FALSE) \in AnswerType
  BY DEF AnswerType
<1>2. \/ /\ r \in tree /\ room' = [room EXCEPT ![r] = RemovedUser(@, name[Me])]
         /\ ServRemoveActiveRoom(Me, r) /\ Transmit(LeaveReply(Me, r, TRUE))
      \/ /\ Transmit(LeaveReply(Me, r, FALSE))
         /\ UNCHANGED <<room, active_rooms>>
  BY <1>0 DEF LeaveRoom
<1>3. UNCHANGED name
  BY DEF LeaveRoom
<1>4. CASE /\ r \in tree /\ room' = [room EXCEPT ![r] = RemovedUser(@, name[Me])]
           /\ ServRemoveActiveRoom(Me, r) /\ Transmit(LeaveReply(Me, r, TRUE))
  <2>1. AnswersSent = <<a(TRUE)>>
    BY <1>4, AnswerIs
  <2>2. Gives(active_rooms[Me], active_rooms'[Me], r)
    BY <1>0, <1>4, EntryGiven
  <2>3. MyRooms' \subseteq MyRooms \ {r}
    BY <1>0, <1>3, <1>4, MembersChange
  <2>4. Said(a(TRUE), ServerView, ServerView')
    BY <2>2, <2>3 DEF Said, Joins, Leaves, ServerView
  <2> QED BY <1>0, <1>1, <2>1, <2>4, OneTells
<1>5. CASE /\ Transmit(LeaveReply(Me, r, FALSE))
           /\ UNCHANGED <<room, active_rooms>>
  <2>1. AnswersSent = <<a(FALSE)>>
    BY <1>5, AnswerIs
  <2>2. ServerView' = ServerView
    BY <1>3, <1>5 DEF ServerView, MyRooms, Members
  <2>3. Said(a(FALSE), ServerView, ServerView')
    BY <2>2 DEF Said, Keeps
  <2> QED BY <1>0, <1>1, <2>1, <2>3, OneTells
<1> QED BY <1>2, <1>4, <1>5

(* A message to a room of one's own comes back.                            *)
LEMMA MessageTells ==
  ASSUME IInv, TypeOK', name[Me] # None, NEW r \in Room, NEW t \in Text,
         Message(Me, r, t)
  PROVE  Tells(ServerView, AnswersSent, ServerView')
<1>0. /\ TypeOK /\ ServerView \in Views /\ ServerView' \in Views
  BY ViewType, ViewTypeAfter DEF IInv
<1> DEFINE a == [type |-> "MSG", room |-> r, res |-> FALSE, num |-> 0]
<1>1. a \in AnswerType
  BY DEF AnswerType, AnyRoom
<1>2. /\ UNCHANGED <<name, active_rooms>>
      /\ room' = [room EXCEPT ![r] = AddedHistory(@, t)]
  BY DEF Message
<1>3. MyRooms' = MyRooms
  BY <1>2, MembersChange
<1>4. ServerView' = ServerView
  BY <1>2, <1>3 DEF ServerView
<1>5. CASE Me \in out'.to
  <2>1. r \in MyRooms
    BY <1>5, MessageReaches
  <2>2. AnswersSent = <<a>>
    <3>1. out'.type = "MSG" /\ out'.room = r /\ out'.res = FALSE
          /\ out'.num = 0
      BY DEF Message, Broadcast, Sent, RoomMessage, Quiet
    <3> QED BY <1>5, <3>1 DEF AnswersSent, Answer
  <2>3. Said(a, ServerView, ServerView')
    BY <1>4, <2>1 DEF Said, Keeps, ServerView
  <2> QED BY <1>0, <1>1, <2>2, <2>3, OneTells
<1>6. CASE Me \notin out'.to
  <2>1. AnswersSent = <<>>
    BY <1>6 DEF AnswersSent
  <2> QED BY <1>0, <1>4, <2>1, NoneTells
<1> QED BY <1>5, <1>6

(* A list of users says nothing of this client's rooms.                    *)
LEMMA UsersTell ==
  ASSUME IInv, TypeOK', name[Me] # None, NEW r \in AnyRoom,
         ListRoomUsers(Me, r)
  PROVE  Tells(ServerView, AnswersSent, ServerView')
<1>0. /\ Me \in Conn /\ ServFindClient(name[Me], None) = Me
      /\ ServerView \in Views /\ ServerView' \in Views
  BY MeAssumption, FindsByName, ViewType, ViewTypeAfter DEF IInv
<1> DEFINE a == [type |-> "RUL", room |-> r, res |-> FALSE, num |-> 0]
           N == Cardinality(out'.names) + 1
<1>1. a \in AnswerType
  BY DEF AnswerType
<1>2. UNCHANGED <<name, active_rooms, room>>
  BY DEF ListRoomUsers
<1>3. ServerView' = ServerView
  BY <1>2 DEF ServerView, MyRooms, Members
<1>4. /\ out'.type = "RUL" /\ out'.room = r /\ out'.res = FALSE /\ out'.num = 0
      /\ out'.to = {Me} /\ out'.names \in SUBSET Name
  <2>1. PICK ns : Transmit(UsersReply(Me, r, ns))
    BY <1>0 DEF ListRoomUsers
  <2>2. out' \in MessageType
    BY DEF TypeOK
  <2>3. out'.names \in SUBSET Name
    BY <2>2 DEF MessageType
  <2> QED BY <2>1, <2>3 DEF Transmit, UsersReply, Quiet
<1>5. N \in Nat
  BY <1>4, FiniteAssumption, FS_Subset, FS_CardinalityType
<1>6. AnswersSent = [i \in 1 .. N |-> a]
  BY <1>4 DEF AnswersSent, Answer
<1> HIDE DEF N
<1>7. /\ Len(AnswersSent) = N
      /\ \A i \in 1 .. Len(AnswersSent) : AnswersSent[i] = a
  BY <1>5, <1>6
<1>8. Said(a, ServerView, ServerView)
  BY DEF Said, Keeps
<1>9. <<ServerView, a, ServerView>> \in Steps
  BY <1>0, <1>1, <1>8, StepIs
<1>10. \A i \in 1 .. Len(AnswersSent) :
         <<ServerView, AnswersSent[i], ServerView>> \in Steps
  BY <1>7, <1>9
<1>11. Tells(ServerView, AnswersSent, ServerView)
  BY <1>0, <1>5, <1>7, <1>10, StillLeads DEF Tells
<1> QED BY <1>3, <1>11

(* Whatever the server does on a request but the logon, its answer tells.  *)
LEMMA HandleTells ==
  ASSUME IInv, TypeOK', name[Me] # None, NEW q \in RequestType,
         q.type # "LOGON", Handle(q)
  PROVE  Tells(ServerView, AnswersSent, ServerView')
<1>0. /\ Me \in Conn /\ ServFindClient(name[Me], None) = Me
      /\ ServerView \in Views /\ ServerView' \in Views
  BY MeAssumption, FindsByName, ViewType, ViewTypeAfter DEF IInv
<1>1. CASE q.type = "EXIT"
  <2> DEFINE a == [type |-> "EXIT", room |-> None, res |-> FALSE, num |-> 0]
  <2>1. Exit(Me)
    BY <1>1 DEF Handle
  <2>2. AnswersSent = <<a>>
    BY <1>0, <2>1, AnswerIs DEF Exit
  <2>3. a \in AnswerType /\ Said(a, ServerView, ServerView')
    BY DEF AnswerType, Said
  <2> QED BY <1>0, <2>2, <2>3, OneTells
<1>2. CASE q.type # "EXIT"
  <2>1. q.room \in AnyRoom
    BY <1>2 DEF RequestType
  <2>2. \/ JoinRefused(Me, q.room)
        \/ q.room \in Room /\ JoinRoom(Me, q.room)
        \/ q.room \in LongRoom /\ JoinLongRoom(Me, q.room)
        \/ LeaveRoom(Me, q.room)
        \/ q.room \in Room /\ \E t \in Text : Message(Me, q.room, t)
        \/ MessageIgnored(Me, q.room)
        \/ ListRoomUsers(Me, q.room)
    BY <1>2 DEF Handle
  <2>3. CASE MessageIgnored(Me, q.room)
    <3>1. AnswersSent = <<>> /\ ServerView' = ServerView
      BY <2>3, AnswerIs
         DEF MessageIgnored, ServerView, MyRooms, Members
    <3> QED BY <1>0, <3>1, NoneTells
  <2> QED BY <2>1, <2>2, <2>3, JoinTells, LeaveTells, MessageTells, UsersTell
<1> QED BY <1>1, <1>2

-----------------------------------------------------------------------------
(* The list "l" of the client against a view of the server: each entry     *)
(* that names a room has an entry of active_rooms of its own that names it *)
(* too, and while no entry has been freed, every room of the view is shown *)
(* by one.  The entry of the void has none.                                *)

Lists == [Active -> RoomEntry]
EntryLists == [Active -> AnyRoom \cup {None}]

RealEntries(l) == IF l[0] = Void THEN {} ELSE {i \in Active : l[i] \in AnyRoom}

Matches(l, x, f) ==
  /\ \A i, j \in RealEntries(l) : f[i] = f[j] => i = j
  /\ \A i \in RealEntries(l) : x[f[i]] = l[i]

Matched(l, x) == \E f \in [RealEntries(l) -> Active] : Matches(l, x, f)

WithoutFreed(l) == \A i \in Active : l[i] # Freed

AllShown(l, m) ==
  WithoutFreed(l) => \A r \in m \ {Void} : \E i \in Active : l[i] = r

Shows(l, v) == Matched(l, v.entries) /\ AllShown(l, v.members)

LEMMA EntryKinds ==
  /\ \A r \in AnyRoom : r # None /\ r # Unnamed
  /\ Void \in AnyRoom /\ Void # None /\ Void # Unnamed /\ Void # Freed
  /\ None \notin AnyRoom /\ Unnamed \notin AnyRoom /\ Freed \notin AnyRoom
  /\ None # Unnamed /\ None # Freed /\ Unnamed # Freed
  /\ 0 \in Active
BY ActiveFinite, NamesAssumption, TokensAssumption, DistinctAssumption
   DEF AnyRoom

LEMMA RealType == ASSUME NEW l PROVE RealEntries(l) \subseteq Active
BY DEF RealEntries

(* Fewer memberships, or a list with the same rooms in the same entries.   *)
LEMMA ShowsLess ==
  ASSUME NEW l, NEW v, NEW w, Shows(l, v), Keeps(v, w)
  PROVE  Shows(l, w)
BY DEF Shows, Keeps, AllShown

LEMMA NothingMatched ==
  ASSUME NEW l, NEW x, RealEntries(l) = {}
  PROVE  Matched(l, x)
<1> DEFINE f == [i \in RealEntries(l) |-> 0]
<1>1. f \in [RealEntries(l) -> Active]
  BY EntryKinds
<1>2. Matches(l, x, f)
  BY DEF Matches
<1> HIDE DEF f
<1> QED BY <1>1, <1>2 DEF Matched

LEMMA SameMatched ==
  ASSUME NEW l, NEW k, NEW x, Matched(l, x),
         RealEntries(k) = RealEntries(l), \A i \in RealEntries(l) : k[i] = l[i]
  PROVE  Matched(k, x)
BY DEF Matched, Matches

(* The server takes an entry for a room.                                   *)
LEMMA TakenMatched ==
  ASSUME NEW l, NEW x \in EntryLists, NEW y, NEW r, Matched(l, x), Takes(x, y, r)
  PROVE  Matched(l, y)
<1>1. PICK f \in [RealEntries(l) -> Active] : Matches(l, x, f)
  BY DEF Matched
<1>2. PICK j \in Active : x[j] = None /\ y = [x EXCEPT ![j] = r]
  BY DEF Takes
<1>3. \A i \in RealEntries(l) : l[i] # None
  BY EntryKinds DEF RealEntries
<1>4. \A i \in RealEntries(l) : y[f[i]] = x[f[i]]
  BY <1>1, <1>2, <1>3 DEF Matches, EntryLists
<1>5. Matches(l, y, f)
  BY <1>1, <1>4 DEF Matches
<1> QED BY <1>5 DEF Matched

(* The server gives up an entry for a room that the client does not show.  *)
LEMMA MissedMatched ==
  ASSUME NEW l, NEW x \in EntryLists, NEW y, NEW r, Matched(l, x), Gives(x, y, r),
         \A i \in RealEntries(l) : l[i] # r
  PROVE  Matched(l, y)
<1>1. PICK f \in [RealEntries(l) -> Active] : Matches(l, x, f)
  BY DEF Matched
<1>2. \A i \in RealEntries(l) : x[f[i]] # r
  BY <1>1 DEF Matches
<1>3. \A i \in RealEntries(l) : y[f[i]] = x[f[i]]
  BY <1>1, <1>2 DEF Gives, EntryLists
<1>4. Matches(l, y, f)
  BY <1>1, <1>3 DEF Matches
<1> QED BY <1>4 DEF Matched

(* Both give up an entry for the room, perhaps not the two that belong to  *)
(* each other: the entry whose partner the server gives up takes over the  *)
(* partner that is left.                                                   *)
LEMMA RemovedMatched ==
  ASSUME NEW l \in Lists, NEW n \in Active, l[n] \in AnyRoom, l[0] # Void,
         NEW x \in EntryLists, NEW y, Matched(l, x), Gives(x, y, l[n])
  PROVE  Matched([l EXCEPT ![n] = None], y)
<1> DEFINE k == [l EXCEPT ![n] = None]
<1>1. k[0] # Void /\ \A i \in Active : k[i] = IF i = n THEN None ELSE l[i]
  BY EntryKinds DEF Lists
<1>2. /\ RealEntries(k) = RealEntries(l) \ {n} /\ n \in RealEntries(l)
      /\ \A i \in RealEntries(k) : k[i] = l[i]
  BY <1>1, EntryKinds DEF RealEntries
<1>3. PICK f \in [RealEntries(l) -> Active] : Matches(l, x, f)
  BY DEF Matched
<1> HIDE DEF k
<1>4. CASE y = x
  <2> DEFINE g == [i \in RealEntries(k) |-> f[i]]
  <2>1. g \in [RealEntries(k) -> Active]
    BY <1>2, <1>3
  <2>2. Matches(k, y, g)
    BY <1>2, <1>3, <1>4 DEF Matches
  <2> HIDE DEF g
  <2> QED BY <2>1, <2>2 DEF Matched, k
<1>5. ASSUME NEW j \in Active, x[j] = l[n], y = [x EXCEPT ![j] = None]
      PROVE  Matched(k, y)
  <2> DEFINE g == [i \in RealEntries(k) |-> IF f[i] = j THEN f[n] ELSE f[i]]
  <2>1. g \in [RealEntries(k) -> Active]
    BY <1>2, <1>3
  <2>2. \A i \in RealEntries(k) : f[i] # f[n] /\ i \in RealEntries(l)
    BY <1>2, <1>3 DEF Matches
  <2>3. \A i \in RealEntries(k) : g[i] = IF f[i] = j THEN f[n] ELSE f[i]
    OBVIOUS
  <2> HIDE DEF g
  <2>4. \A i, m \in RealEntries(k) : g[i] = g[m] => i = m
    BY <1>3, <2>2, <2>3 DEF Matches
  <2>5. \A i \in RealEntries(k) : g[i] # j
    BY <2>2, <2>3
  <2>6. \A i \in RealEntries(k) : x[g[i]] = l[i]
    <3> SUFFICES ASSUME NEW i \in RealEntries(k) PROVE x[g[i]] = l[i]
      OBVIOUS
    <3>1. x[f[i]] = l[i] /\ x[f[n]] = l[n]
      BY <1>2, <1>3, <2>2 DEF Matches
    <3> QED BY <1>5, <2>3, <3>1
  <2>7. \A i \in RealEntries(k) : y[g[i]] = x[g[i]]
    BY <1>5, <2>1, <2>5 DEF EntryLists
  <2>8. Matches(k, y, g)
    BY <1>2, <2>4, <2>6, <2>7 DEF Matches
  <2> QED BY <2>1, <2>8 DEF Matched
<1> QED BY <1>4, <1>5 DEF Gives, k

(* Both take an entry for a room.                                          *)
LEMMA NamedMatched ==
  ASSUME NEW l \in Lists, NEW n \in Active, NEW r \in AnyRoom, l[n] = Unnamed,
         l[0] # Void, NEW k, k = [l EXCEPT ![n] = r], k[0] # Void,
         NEW x \in EntryLists, NEW y, Matched(l, x), Takes(x, y, r)
  PROVE  Matched(k, y)
<1>1. \A i \in Active : k[i] = IF i = n THEN r ELSE l[i]
  BY DEF Lists
<1>2. /\ RealEntries(k) = RealEntries(l) \cup {n} /\ n \notin RealEntries(l)
      /\ \A i \in RealEntries(l) : k[i] = l[i] /\ l[i] # None
      /\ k[n] = r
  BY <1>1, EntryKinds DEF RealEntries
<1>3. PICK f \in [RealEntries(l) -> Active] : Matches(l, x, f)
  BY DEF Matched
<1>4. PICK j \in Active : x[j] = None /\ y = [x EXCEPT ![j] = r]
  BY DEF Takes
<1> DEFINE g == [i \in RealEntries(k) |-> IF i = n THEN j ELSE f[i]]
<1>5. g \in [RealEntries(k) -> Active]
  BY <1>2, <1>3
<1>6. g[n] = j /\ \A i \in RealEntries(l) : g[i] = f[i]
  BY <1>2
<1> HIDE DEF g
<1>7. \A i \in RealEntries(l) : f[i] # j
  BY <1>2, <1>3, <1>4 DEF Matches
<1>8. \A i, m \in RealEntries(k) : g[i] = g[m] => i = m
  BY <1>2, <1>3, <1>6, <1>7 DEF Matches
<1>9. y[j] = r /\ \A i \in RealEntries(l) : y[f[i]] = x[f[i]]
  BY <1>3, <1>4, <1>7 DEF EntryLists
<1>10. \A i \in RealEntries(k) : y[g[i]] = k[i]
  BY <1>2, <1>3, <1>6, <1>9 DEF Matches
<1>11. Matches(k, y, g)
  BY <1>8, <1>10 DEF Matches
<1> QED BY <1>5, <1>11 DEF Matched

(* A list that is full leaves the server no entry to take.                 *)
LEMMA FullMatched ==
  ASSUME NEW l, l[0] # Void, \A i \in Active : l[i] \in AnyRoom,
         NEW x, NEW y, NEW r, Matched(l, x), Takes(x, y, r)
  PROVE  FALSE
<1>1. RealEntries(l) = Active
  BY DEF RealEntries
<1>2. PICK f \in [RealEntries(l) -> Active] : Matches(l, x, f)
  BY DEF Matched
<1>3. PICK j \in Active : x[j] = None
  BY DEF Takes
<1>4. \A i \in Active : f[i] # j
  BY <1>1, <1>2, <1>3, EntryKinds DEF Matches
<1>5. f \in [Active -> Active \ {j}]
  BY <1>1, <1>2, <1>4
<1>6. IsFiniteSet(Active) /\ Cardinality(Active) \in Nat
  BY ActiveFinite, FS_CardinalityType
<1>7. /\ IsFiniteSet(Active \ {j})
      /\ Cardinality(Active \ {j}) = Cardinality(Active) - 1
  BY <1>3, <1>6, FS_RemoveElement
<1>8. Cardinality(Active) > Cardinality(Active \ {j})
  BY <1>6, <1>7
<1>9. \E i, m \in Active : i # m /\ f[i] = f[m]
  BY <1>5, <1>6, <1>7, <1>8, FS_PigeonHole
<1> QED BY <1>1, <1>2, <1>9 DEF Matches

-----------------------------------------------------------------------------
(* The first entry.  The void is in it and alone in the list; a join takes *)
(* it away before the room comes into the same entry, and from then on the *)
(* list may grow.                                                          *)

(* The socket thread is at work on a room joined.                          *)
Adding ==
  \/ socket.at \in {"joined", "add", "name"}
  \/ /\ socket.at \in {"remove", "current?", "switch", "display"}
     /\ socket.next = "add"

Alone == \A i \in Active \ {0} : rooms[i] \in {None, Freed}

FirstEntry ==
  /\ rooms[0] # Freed
  /\ rooms[0] = Void => Alone
  /\ Adding /\ socket.at # "joined" /\ rooms[0] = None => Alone
  /\ socket.at = "name" /\ socket.i = 0 => Alone
  /\ Adding /\ socket.at \notin {"joined", "remove"} => rooms[0] # Void
  /\ Adding /\ socket.at = "remove" => rooms[0] = Void
  /\ socket.at = "free rooms" => rooms[0] = None

(* No room is without its name but the one the thread is about to name.    *)
OnlyNaming ==
  \A i \in Active : rooms[i] = Unnamed =>
    \/ socket.at = "name" /\ i = socket.i
    \/ socket.at = "default room" /\ i = 0

EntriesInv == FirstEntry /\ OnlyNaming

LEMMA FindMisses ==
  ASSUME NEW r, NEW skipped, RoomMax \in Client!Find(r, skipped)
  PROVE  \A i \in Active : rooms[i] # r
<1> DEFINE S == {i \in Client!RoomIndex : rooms[i] = r} \cup {RoomMax}
           end == Client!Least(S)
<1>1. S \in SUBSET Nat /\ S # {} /\ Client!RoomIndex = Active
  BY ActiveFinite, RoomMaxAssumption DEF Client!RoomIndex, Active
<1>2. end = Least(S)
  BY DEF Client!Least, Least
<1>3. \A j \in S : end <= j
  BY <1>1, <1>2, LeastIsLeast
<1>4. RoomMax # Segv
  BY TokensAssumption, RoomMaxAssumption
<1>5. end = RoomMax
  BY <1>4 DEF Client!Find
<1> HIDE DEF end
<1>6. ASSUME NEW i \in Active, rooms[i] = r PROVE FALSE
  <2>1. i \in S /\ i < RoomMax /\ i \in Nat
    BY <1>1, <1>6, RoomMaxAssumption DEF Active
  <2> QED BY <1>3, <1>5, <2>1, RoomMaxAssumption
<1> QED BY <1>6

(* A step of the thread to a place where no entry is worked on.            *)
LEMMA RestKeepsEntries ==
  ASSUME EntriesInv, UNCHANGED rooms,
         socket.at \notin {"name", "default room"},
         Adding' => socket'.at = "joined", socket'.at # "free rooms"
  PROVE  EntriesInv'
<1>1. socket'.at \notin {"name", "remove"} \/ ~Adding'
  OBVIOUS
<1>2. socket'.at # "name"
  BY DEF Adding
<1>3. Alone' = Alone
  BY DEF Alone
<1>4. FirstEntry'
  BY <1>1, <1>2, <1>3 DEF EntriesInv, FirstEntry
<1>5. OnlyNaming'
  BY DEF EntriesInv, OnlyNaming
<1> QED BY <1>4, <1>5 DEF EntriesInv

(* A step from one of the places between "remove" and "add" to another.    *)
LEMMA MovesKeepEntries ==
  ASSUME EntriesInv, UNCHANGED rooms,
         socket.at \in {"current?", "switch", "display"},
         socket'.next = socket.next,
         socket'.at \in {"switch", "display", socket.next},
         socket.next \in {"recv", "all left?", "add"}
  PROVE  EntriesInv'
<1>1. CASE socket.next # "add"
  <2>1. ~Adding' /\ socket'.at # "free rooms"
    BY <1>1 DEF Adding
  <2> QED BY <2>1, RestKeepsEntries
<1>2. CASE socket.next = "add"
  <2>1. Adding /\ socket'.at \in {"switch", "display", "add"}
    BY <1>2 DEF Adding
  <2>2. Alone' = Alone
    BY DEF Alone
  <2>3. FirstEntry'
    BY <2>1, <2>2 DEF EntriesInv, FirstEntry
  <2>4. OnlyNaming'
    BY DEF EntriesInv, OnlyNaming
  <2> QED BY <2>3, <2>4 DEF EntriesInv
<1> QED BY <1>1, <1>2

LEMMA LooksKeepEntries ==
  ASSUME SysInv, EntriesInv, NEW closed,
         \/ Client!RecvEnd(closed) \/ Client!Recv
         \/ Client!TestCurrentRoom \/ Client!AddToRoomHistory
         \/ Client!MakeCurrent
  PROVE  EntriesInv'
<1>0. ClientInv
  BY DEF SysInv
<1>1. UNCHANGED rooms
      /\ socket.at \in {"recv", "message", "history", "make current"}
  BY DEF Client!RecvEnd, Client!Recv, Client!TestCurrentRoom,
         Client!AddToRoomHistory, Client!MakeCurrent, Client!SocketAt,
         Client!shared
<1>2. CASE Client!RecvEnd(closed) \/ Client!Recv
  <2>1. /\ socket'.at \in {"recv", "message", "joined", "remove", "ended"}
        /\ socket'.at = "remove" => socket'.next = "all left?"
    BY <1>0, <1>2, ReceivesLead
  <2>2. Adding' => socket'.at = "joined"
    BY <2>1 DEF Adding
  <2> QED BY <1>1, <2>1, <2>2, RestKeepsEntries
<1>3. CASE \/ Client!TestCurrentRoom \/ Client!AddToRoomHistory
           \/ Client!MakeCurrent
  <2>1. UNCHANGED socket \/ Client!Receive \/ Client!Socket("history")
    BY <1>3 DEF Client!TestCurrentRoom, Client!AddToRoomHistory,
                Client!MakeCurrent
  <2>2. CASE UNCHANGED socket
    BY <1>1, <2>2 DEF EntriesInv, FirstEntry, OnlyNaming, Adding, Alone
  <2>3. CASE Client!Receive \/ Client!Socket("history")
    <3>1. socket'.at \in {"recv", "history"}
      BY <1>0, <2>3, SocketReached DEF Client!Receive
    <3>2. ~Adding'
      BY <3>1 DEF Adding
    <3> QED BY <1>1, <3>1, <3>2, RestKeepsEntries
  <2> QED BY <2>1, <2>2, <2>3
<1> QED BY <1>2, <1>3

LEMMA TestFirstKeepsEntries ==
  ASSUME SysInv, EntriesInv, Client!TestFirstRoom
  PROVE  EntriesInv'
<1>0. /\ ClientInv /\ UNCHANGED rooms /\ socket.at = "joined"
      /\ rooms[0] \in RoomEntry /\ 0 \in Active
      /\ socket \in [at : SocketPlace, room : AnyRoom \cup {None},
                     next : {"recv", "all left?", "add"}, i : Active]
  BY EntryKinds
     DEF SysInv, ClientInv, SysTypeOK, SocketType, Client!TestFirstRoom,
         Client!SocketAt, Client!shared
<1>1. PICK e \in Client!NameOf(rooms[0]) :
        IF e = Segv THEN UNCHANGED socket
        ELSE IF e = Void
             THEN socket' = [socket EXCEPT !.at = "remove", !.next = "add"]
             ELSE Client!Socket("add")
  BY DEF Client!TestFirstRoom
<1>2. CASE e = Segv
  BY <1>0, <1>1, <1>2 DEF EntriesInv, FirstEntry, OnlyNaming, Adding, Alone
<1>3. CASE e # Segv
  <2>1. rooms[0] = e /\ rooms[0] \in AnyRoom
    <3>1. rooms[0] # Freed
      BY DEF EntriesInv, FirstEntry
    <3> QED BY <1>0, <1>1, <1>3, <3>1, EntryKinds
            DEF Client!NameOf, Client!Deref, RoomEntry
  <2>2. rooms[0] # None
    BY <2>1, EntryKinds
  <2>3. /\ socket'.at = "remove" => rooms[0] = Void /\ socket'.next = "add"
        /\ socket'.at # "remove" => socket'.at = "add" /\ rooms[0] # Void
    <3>1. CASE e = Void
      <4>1. socket'.at = "remove" /\ socket'.next = "add"
        BY <1>0, <1>1, <1>3, <3>1
      <4> QED BY <2>1, <3>1, <4>1
    <3>2. CASE e # Void
      <4>1. socket'.at = "add"
        BY <1>0, <1>1, <1>3, <3>2, SocketReached
      <4> QED BY <2>1, <3>2, <4>1
    <3> QED BY <3>1, <3>2
  <2>4. Alone' = Alone
    BY <1>0 DEF Alone
  <2>5. FirstEntry'
    BY <1>0, <2>2, <2>3, <2>4 DEF EntriesInv, FirstEntry
  <2>6. OnlyNaming'
    BY <1>0 DEF EntriesInv, OnlyNaming
  <2> QED BY <2>5, <2>6 DEF EntriesInv
<1> QED BY <1>2, <1>3

(* Entries other than the first are not touched, or become NULL.           *)
LEMMA RemoveKeepsEntries ==
  ASSUME SysInv, EntriesInv, Client!RemoveActiveRoom
  PROVE  EntriesInv'
<1>0. /\ ClientInv /\ socket.at = "remove" /\ rooms \in Lists
      /\ socket \in [at : SocketPlace, room : AnyRoom \cup {None},
                     next : {"recv", "all left?", "add"}, i : Active]
  BY DEF SysInv, ClientInv, SysTypeOK, SocketType, Client!RemoveActiveRoom,
         Client!SocketAt, Lists
<1>1. PICK k \in Client!Find(Client!RemovedName, {None}) :
        \/ UNCHANGED <<socket, rooms>>
        \/ /\ k = RoomMax /\ UNCHANGED rooms
           /\ IF socket.next = "add" THEN Client!Socket("add")
                                     ELSE Client!Receive
        \/ /\ k \notin {Segv, RoomMax}
           /\ rooms' = [rooms EXCEPT ![k] = None]
           /\ socket' = [socket EXCEPT !.at = "current?", !.i = k]
  BY DEF Client!RemoveActiveRoom, Client!shared
<1>2. CASE UNCHANGED <<socket, rooms>>
  BY <1>2 DEF EntriesInv, FirstEntry, OnlyNaming, Adding, Alone
<1>3. CASE /\ k = RoomMax /\ UNCHANGED rooms
           /\ IF socket.next = "add" THEN Client!Socket("add")
                                     ELSE Client!Receive
  <2>1. socket.next # "add"
    <3> SUFFICES ASSUME socket.next = "add" PROVE FALSE
      OBVIOUS
    <3>1. rooms[0] = Void
      BY <1>0 DEF EntriesInv, FirstEntry, Adding
    <3>2. rooms[0] # Void
      BY <1>1, <1>3, FindMisses, EntryKinds DEF Client!RemovedName
    <3> QED BY <3>1, <3>2
  <2>2. socket'.at = "recv"
    BY <1>3, <2>1 DEF Client!Receive
  <2>3. ~Adding'
    BY <2>2 DEF Adding
  <2> QED BY <1>0, <1>3, <2>2, <2>3, RestKeepsEntries
<1>4. CASE /\ k \notin {Segv, RoomMax}
           /\ rooms' = [rooms EXCEPT ![k] = None]
           /\ socket' = [socket EXCEPT !.at = "current?", !.i = k]
  <2>1. k \in Active /\ rooms[k] = Client!RemovedName
    BY <1>1, <1>4, FindReturns
  <2>2. socket'.at = "current?" /\ socket'.next = socket.next
    BY <1>0, <1>4
  <2>3. \A i \in Active : rooms'[i] = IF i = k THEN None ELSE rooms[i]
    BY <1>0, <1>4 DEF Lists
  <2>4. Alone => Alone'
    BY <2>3 DEF Alone
  <2>5. Adding' => Adding /\ Alone
    BY <1>0, <2>2 DEF Adding, EntriesInv, FirstEntry
  <2>6. rooms'[0] = Void => rooms[0] = Void /\ k # 0
    BY <2>3, EntryKinds
  <2>7. Adding => k = 0
    <3> SUFFICES ASSUME Adding, k # 0 PROVE FALSE
      OBVIOUS
    <3>1. rooms[k] = Void
      BY <1>0, <2>1 DEF Client!RemovedName, Adding
    <3>2. rooms[k] \in {None, Freed}
      BY <1>0, <2>1 DEF EntriesInv, FirstEntry, Alone
    <3> QED BY <3>1, <3>2, EntryKinds
  <2>8. rooms'[0] # Freed
    BY <2>3, EntryKinds DEF EntriesInv, FirstEntry
  <2>9. FirstEntry'
    <3>1. rooms'[0] = Void => Alone'
      BY <2>4, <2>6 DEF EntriesInv, FirstEntry
    <3>2. Adding' => Alone' /\ rooms'[0] # Void
      BY <2>4, <2>5, <2>6, <2>7
    <3> QED BY <2>2, <2>8, <3>1, <3>2 DEF FirstEntry
  <2>10. OnlyNaming'
    BY <1>0, <2>2, <2>3, EntryKinds DEF EntriesInv, OnlyNaming
  <2> QED BY <2>9, <2>10 DEF EntriesInv
<1> QED BY <1>1, <1>2, <1>3, <1>4

LEMMA SwitchesKeepEntries ==
  ASSUME SysInv, EntriesInv,
         Client!WasCurrent \/ Client!SwitchToFirst \/ Client!DisplayFirst
  PROVE  EntriesInv'
<1>0. /\ ClientInv /\ UNCHANGED rooms
      /\ socket.at \in {"current?", "switch", "display"}
      /\ socket \in [at : SocketPlace, room : AnyRoom \cup {None},
                     next : {"recv", "all left?", "add"}, i : Active]
      /\ socket.next \in {"recv", "all left?", "add"}
  BY DEF SysInv, ClientInv, SysTypeOK, SocketType, Client!WasCurrent,
         Client!SwitchToFirst, Client!DisplayFirst, Client!SocketAt,
         Client!shared
<1>1. \/ UNCHANGED socket
      \/ Client!Socket(socket.next) \/ Client!Socket("display")
      \/ \E i : socket' = [socket EXCEPT !.at = "switch", !.i = i]
  BY DEF Client!WasCurrent, Client!SwitchToFirst, Client!DisplayFirst
<1>2. CASE UNCHANGED socket
  BY <1>0, <1>2 DEF EntriesInv, FirstEntry, OnlyNaming, Adding, Alone
<1>3. CASE Client!Socket(socket.next) \/ Client!Socket("display")
  <2>1. socket'.at \in {"display", socket.next} /\ socket'.next = socket.next
    BY <1>0, <1>3, SocketReached
  <2> QED BY <1>0, <2>1, MovesKeepEntries
<1>4. CASE \E i : socket' = [socket EXCEPT !.at = "switch", !.i = i]
  <2>1. socket'.at = "switch" /\ socket'.next = socket.next
    BY <1>0, <1>4
  <2> QED BY <1>0, <2>1, MovesKeepEntries
<1> QED BY <1>1, <1>2, <1>3, <1>4

LEMMA AddKeepsEntries ==
  ASSUME SysInv, EntriesInv, Client!AddActiveRoom
  PROVE  EntriesInv'
<1> DEFINE free == Client!RoomIndex \ Client!Shown
<1>0. /\ socket.at = "add" /\ free = {i \in Active : rooms[i] = None}
      /\ rooms \in Lists
      /\ socket \in [at : SocketPlace, room : AnyRoom \cup {None},
                     next : {"recv", "all left?", "add"}, i : Active]
  BY DEF Client!AddActiveRoom, Client!SocketAt, Client!Shown,
         Client!RoomIndex, Active, SysInv, ClientInv, SysTypeOK, SocketType,
         Lists
<1>1. CASE free = {}
  <2>1. Client!Receive /\ UNCHANGED rooms
    BY <1>1 DEF Client!AddActiveRoom
  <2>2. socket'.at = "recv" /\ ~Adding'
    BY <2>1 DEF Client!Receive, Adding
  <2> QED BY <1>0, <2>1, <2>2, RestKeepsEntries
<1>2. CASE free # {}
  <2> DEFINE k == Client!Least(free)
  <2>1. /\ rooms' = [rooms EXCEPT ![k] = Unnamed]
        /\ socket' = [socket EXCEPT !.at = "name", !.i = k]
    BY <1>2 DEF Client!AddActiveRoom
  <2>2. k \in free /\ \A j \in free : k <= j
    BY <1>0, <1>2, LeastEntry
  <2> HIDE DEF k
  <2>3. socket'.at = "name" /\ socket'.i = k
    BY <1>0, <2>1
  <2>4. \A i \in Active : rooms'[i] = IF i = k THEN Unnamed ELSE rooms[i]
    BY <1>0, <2>1 DEF Lists
  <2>5. rooms[0] = None => k = 0
    <3>1. k \in Active
      BY <1>0, <2>2
    <3>2. k \in Nat
      BY <3>1, ActiveFinite
    <3>3. rooms[0] = None => k <= 0
      BY <1>0, <2>2, EntryKinds
    <3> QED BY <3>2, <3>3
  <2>6. Adding /\ rooms[0] # Void
    BY <1>0 DEF EntriesInv, FirstEntry, Adding
  <2>7. rooms'[0] \notin {Void, None, Freed}
    BY <2>4, <2>5, <2>6, EntryKinds DEF EntriesInv, FirstEntry
  <2>8. k = 0 => Alone'
    <3>1. k = 0 => Alone
      BY <1>0, <2>2, <2>6 DEF EntriesInv, FirstEntry
    <3> QED BY <2>4, <3>1 DEF Alone
  <2>9. FirstEntry'
    BY <2>3, <2>7, <2>8 DEF FirstEntry
  <2>10. OnlyNaming'
    BY <1>0, <2>3, <2>4 DEF EntriesInv, OnlyNaming
  <2> QED BY <2>9, <2>10 DEF EntriesInv
<1> QED BY <1>1, <1>2

LEMMA NameKeepsEntries ==
  ASSUME SysInv, EntriesInv, Client!NameRoom
  PROVE  EntriesInv'
<1>0. /\ socket.at = "name" /\ rooms \in Lists /\ ClientInv
      /\ rooms' = [rooms EXCEPT ![socket.i] = socket.room]
      /\ Client!Socket("make current")
      /\ socket.room \in AnyRoom /\ socket.i \in Active
  BY DEF Client!NameRoom, Client!SocketAt, SysInv, ClientInv, SysTypeOK,
         SocketType, NamesRoom, Lists
<1>1. socket'.at = "make current"
  BY <1>0, SocketReached
<1>2. ~Adding'
  BY <1>1 DEF Adding
<1>3. \A i \in Active :
        rooms'[i] = IF i = socket.i THEN socket.room ELSE rooms[i]
  BY <1>0 DEF Lists
<1>4. rooms[0] # Void /\ rooms[0] # Freed
  BY <1>0 DEF EntriesInv, FirstEntry, Adding
<1>5. rooms'[0] # Freed
  BY <1>0, <1>3, <1>4, EntryKinds
<1>6. rooms'[0] = Void => Alone'
  <2>1. rooms'[0] = Void => socket.i = 0
    BY <1>3, <1>4, EntryKinds
  <2>2. socket.i = 0 => Alone
    BY <1>0 DEF EntriesInv, FirstEntry
  <2>3. socket.i = 0 /\ Alone => Alone'
    BY <1>3 DEF Alone
  <2> QED BY <2>1, <2>2, <2>3
<1>7. FirstEntry'
  BY <1>1, <1>2, <1>5, <1>6 DEF FirstEntry
<1>8. OnlyNaming'
  BY <1>0, <1>1, <1>3, EntryKinds DEF EntriesInv, OnlyNaming
<1> QED BY <1>7, <1>8 DEF EntriesInv

LEMMA LeavesKeepEntries ==
  ASSUME SysInv, EntriesInv,
         Client!TestAllLeft \/ Client!FreeRooms \/ Client!GotoDefaultRoom
  PROVE  EntriesInv'
<1>0. ClientInv /\ rooms \in Lists
  BY DEF SysInv, ClientInv, SysTypeOK, Lists
<1>1. CASE Client!TestAllLeft
  <2>1. /\ IF current_r = 0 /\ rooms[0] = None THEN Client!Socket("free rooms")
                                             ELSE Client!Receive
        /\ UNCHANGED rooms /\ socket.at = "all left?"
    BY <1>1 DEF Client!TestAllLeft, Client!SocketAt, Client!shared
  <2>2. /\ socket'.at \in {"recv", "free rooms"}
        /\ socket'.at = "free rooms" => rooms[0] = None
    <3>1. CASE current_r = 0 /\ rooms[0] = None
      BY <1>0, <2>1, <3>1, SocketReached
    <3>2. CASE ~(current_r = 0 /\ rooms[0] = None)
      <4>1. Client!Receive
        BY <2>1, <3>2
      <4>2. socket'.at = "recv"
        BY <4>1 DEF Client!Receive
      <4> QED BY <4>2
    <3> QED BY <3>1, <3>2
  <2>3. ~Adding' /\ (Alone' = Alone)
    BY <2>1, <2>2 DEF Adding, Alone
  <2>4. FirstEntry'
    BY <2>1, <2>2, <2>3 DEF EntriesInv, FirstEntry
  <2>5. OnlyNaming'
    BY <2>1 DEF EntriesInv, OnlyNaming
  <2> QED BY <2>4, <2>5 DEF EntriesInv
<1>2. CASE Client!FreeRooms
  <2>1. /\ rooms' = [i \in Active |-> IF i = 0 THEN Unnamed
                                      ELSE IF rooms[i] = None THEN None
                                      ELSE Freed]
        /\ Client!Socket("default room")
    BY <1>2 DEF Client!FreeRooms, Client!RoomIndex, Active
  <2>2. socket'.at = "default room"
    BY <1>0, <2>1, SocketReached
  <2>3. ~Adding'
    BY <2>2 DEF Adding
  <2>4. /\ rooms'[0] = Unnamed
        /\ \A i \in Active \ {0} : rooms'[i] \in {None, Freed}
    BY <2>1, EntryKinds
  <2>5. FirstEntry'
    BY <2>2, <2>3, <2>4, EntryKinds DEF FirstEntry
  <2>6. OnlyNaming'
    BY <2>2, <2>4, EntryKinds DEF OnlyNaming
  <2> QED BY <2>5, <2>6 DEF EntriesInv
<1>3. CASE Client!GotoDefaultRoom
  <2>1. /\ rooms' = [rooms EXCEPT ![0] = Void] /\ socket'.at = "recv"
        /\ socket.at = "default room"
    BY <1>3 DEF Client!GotoDefaultRoom, Client!Receive, Client!SocketAt
  <2>2. \A i \in Active \ {0} : rooms[i] \in {None, Freed}
    BY <1>0, <2>1 DEF ClientInv, Working
  <2>3. \A i \in Active : rooms'[i] = IF i = 0 THEN Void ELSE rooms[i]
    BY <1>0, <2>1 DEF Lists
  <2>4. Alone' /\ ~Adding' /\ rooms'[0] = Void
    BY <2>1, <2>2, <2>3, EntryKinds DEF Alone, Adding
  <2>5. FirstEntry'
    BY <2>1, <2>4, EntryKinds DEF FirstEntry
  <2>6. OnlyNaming'
    BY <2>2, <2>3, EntryKinds DEF OnlyNaming
  <2> QED BY <2>5, <2>6 DEF EntriesInv
<1> QED BY <1>1, <1>2, <1>3

-----------------------------------------------------------------------------
(* The work of the socket thread.                                          *)
(*                                                                         *)
(* What the thread is doing, too, is a step from one view to the next: the *)
(* list shows the first, and the answers still under way lead on from the  *)
(* second.                                                                 *)

Doing(v, w) ==
  IF Adding THEN Joins(v, w, socket.room)
  ELSE IF socket.at = "remove" THEN Leaves(v, w, socket.room)
  ELSE /\ Keeps(v, w)
       /\ socket.at \in {"message", "history"} => socket.room \in v.members

Behind(x) == \E v \in Views : Shows(rooms, v) /\ Doing(v, x)

(* The work is done, and the list shows "v".                               *)
LEMMA RestBehind ==
  ASSUME NEW v \in Views, NEW x \in Views, Shows(rooms', v), Keeps(v, x),
         ~Adding', socket'.at \notin {"remove", "message", "history"}
  PROVE  Behind(x)'
<1>1. Doing(v, x)'
  BY DEF Doing
<1> QED BY <1>1 DEF Behind

LEMMA LooksBehind ==
  ASSUME SysInv, NEW x \in Views, Behind(x),
         \/ Client!TestCurrentRoom \/ Client!AddToRoomHistory
         \/ Client!TestFirstRoom \/ Client!MakeCurrent
         \/ Client!WasCurrent \/ Client!SwitchToFirst \/ Client!DisplayFirst
         \/ Client!TestAllLeft
  PROVE  Behind(x)'
<1>0. /\ UNCHANGED rooms /\ ClientInv
      /\ socket.at \in {"message", "history", "joined", "make current",
                        "current?", "switch", "display", "all left?"}
      /\ socket \in [at : SocketPlace, room : AnyRoom \cup {None},
                     next : {"recv", "all left?", "add"}, i : Active]
  BY DEF SysInv, ClientInv, SysTypeOK, SocketType, Client!TestCurrentRoom,
         Client!AddToRoomHistory, Client!TestFirstRoom, Client!MakeCurrent,
         Client!WasCurrent, Client!SwitchToFirst, Client!DisplayFirst,
         Client!TestAllLeft, Client!SocketAt, Client!shared
<1>1. PICK v \in Views : Shows(rooms, v) /\ Doing(v, x)
  BY DEF Behind
<1>2. Shows(rooms', v)
  BY <1>0, <1>1
<1>3. SUFFICES ASSUME ~UNCHANGED socket PROVE Doing(v, x)'
  BY <1>1, <1>2 DEF Behind, Doing, Adding
<1>4. ASSUME Client!Receive \/ Client!Socket("free rooms"), Keeps(v, x)
      PROVE  Doing(v, x)'
  <2>1. Client!Receive => socket'.at = "recv"
    BY DEF Client!Receive
  <2>2. Client!Socket("free rooms") => socket'.at = "free rooms"
    BY <1>0, SocketReached
  <2>3. socket'.at \in {"recv", "free rooms"}
    BY <1>4, <2>1, <2>2
  <2>4. ~Adding'
    BY <2>3 DEF Adding
  <2> QED BY <1>4, <2>3, <2>4 DEF Doing
<1>5. CASE socket.at = "message"
  <2>1. Keeps(v, x) /\ socket.room \in v.members
    BY <1>1, <1>5 DEF Doing, Adding
  <2>2. Client!Receive \/ Client!Socket("history")
    BY <1>3, <1>5
       DEF Client!TestCurrentRoom, Client!AddToRoomHistory,
           Client!TestFirstRoom, Client!MakeCurrent, Client!WasCurrent,
           Client!SwitchToFirst, Client!DisplayFirst, Client!TestAllLeft,
           Client!SocketAt
  <2>3. CASE Client!Socket("history")
    <3>1. socket'.at = "history" /\ socket'.room = socket.room
      BY <1>0, <2>3, SocketReached
    <3>2. ~Adding'
      BY <3>1 DEF Adding
    <3> QED BY <2>1, <3>1, <3>2 DEF Doing
  <2> QED BY <1>4, <2>1, <2>2, <2>3
<1>6. CASE socket.at \in {"history", "make current", "all left?"}
  <2>1. Keeps(v, x)
    BY <1>1, <1>6 DEF Doing, Adding
  <2>2. Client!Receive \/ Client!Socket("free rooms")
    BY <1>3, <1>6
       DEF Client!TestCurrentRoom, Client!AddToRoomHistory,
           Client!TestFirstRoom, Client!MakeCurrent, Client!WasCurrent,
           Client!SwitchToFirst, Client!DisplayFirst, Client!TestAllLeft,
           Client!SocketAt
  <2> QED BY <1>4, <2>1, <2>2
<1>7. CASE socket.at = "joined"
  <2>1. \/ socket' = [socket EXCEPT !.at = "remove", !.next = "add"]
        \/ Client!Socket("add")
    BY <1>3, <1>7
       DEF Client!TestCurrentRoom, Client!AddToRoomHistory,
           Client!TestFirstRoom, Client!MakeCurrent, Client!WasCurrent,
           Client!SwitchToFirst, Client!DisplayFirst, Client!TestAllLeft,
           Client!SocketAt
  <2>2. /\ socket'.room = socket.room
        /\ \/ socket'.at = "add"
           \/ socket'.at = "remove" /\ socket'.next = "add"
    <3>1. CASE socket' = [socket EXCEPT !.at = "remove", !.next = "add"]
      BY <1>0, <3>1
    <3>2. CASE Client!Socket("add")
      <4>1. socket'.at = "add" /\ socket'.room = socket.room
        BY <1>0, <3>2, SocketReached
      <4> QED BY <4>1
    <3> QED BY <2>1, <3>1, <3>2
  <2>3. Adding /\ Adding'
    BY <1>7, <2>2 DEF Adding
  <2> QED BY <1>1, <2>2, <2>3 DEF Doing
<1>8. CASE socket.at \in {"current?", "switch", "display"}
  <2>1. \/ \E i : socket' = [socket EXCEPT !.at = "switch", !.i = i]
        \/ Client!Socket("display") \/ Client!Socket(socket.next)
    BY <1>3, <1>8
       DEF Client!TestCurrentRoom, Client!AddToRoomHistory,
           Client!TestFirstRoom, Client!MakeCurrent, Client!WasCurrent,
           Client!SwitchToFirst, Client!DisplayFirst, Client!TestAllLeft,
           Client!SocketAt
  <2>2. /\ socket'.room = socket.room /\ socket'.next = socket.next
        /\ socket'.at \in {"switch", "display", socket.next}
    <3>1. CASE \E i : socket' = [socket EXCEPT !.at = "switch", !.i = i]
      BY <1>0, <3>1
    <3>2. CASE Client!Socket("display") \/ Client!Socket(socket.next)
      BY <1>0, <3>2, SocketReached
    <3> QED BY <2>1, <3>1, <3>2
  <2>3. CASE socket.next = "add"
    <3>1. Adding /\ Adding'
      BY <1>8, <2>2, <2>3 DEF Adding
    <3> QED BY <1>1, <2>2, <3>1 DEF Doing
  <2>4. CASE socket.next # "add"
    <3>1. socket'.at \in {"switch", "display", "recv", "all left?"}
      BY <1>0, <2>2, <2>4
    <3>2. ~Adding /\ ~Adding'
      BY <1>8, <2>2, <2>4, <3>1 DEF Adding
    <3> QED BY <1>1, <1>8, <3>1, <3>2 DEF Doing
  <2> QED BY <2>3, <2>4
<1> QED BY <1>0, <1>5, <1>6, <1>7, <1>8

(* The void goes before a join; a room left goes from both lists.          *)
LEMMA RemoveBehind ==
  ASSUME SysInv, EntriesInv, EntriesInv', NEW x \in Views, Behind(x),
         Client!RemoveActiveRoom
  PROVE  Behind(x)'
<1>0. /\ ClientInv /\ socket.at = "remove" /\ rooms \in Lists
      /\ socket \in [at : SocketPlace, room : AnyRoom \cup {None},
                     next : {"recv", "all left?", "add"}, i : Active]
      /\ socket.room \in AnyRoom
  BY DEF SysInv, ClientInv, SysTypeOK, SocketType, Client!RemoveActiveRoom,
         Client!SocketAt, Lists, NamesRoom
<1>1. PICK k \in Client!Find(Client!RemovedName, {None}) :
        \/ UNCHANGED <<socket, rooms>>
        \/ /\ k = RoomMax /\ UNCHANGED rooms
           /\ IF socket.next = "add" THEN Client!Socket("add")
                                     ELSE Client!Receive
        \/ /\ k \notin {Segv, RoomMax}
           /\ rooms' = [rooms EXCEPT ![k] = None]
           /\ socket' = [socket EXCEPT !.at = "current?", !.i = k]
  BY DEF Client!RemoveActiveRoom, Client!shared
<1>2. PICK v \in Views : Shows(rooms, v) /\ Doing(v, x)
  BY DEF Behind
<1>3. v.entries \in EntryLists /\ x.entries \in EntryLists
  BY DEF Views, EntryLists
<1>4. CASE UNCHANGED <<socket, rooms>>
  <2>1. Shows(rooms', v) /\ Doing(v, x)'
    BY <1>2, <1>4 DEF Doing, Adding
  <2> QED BY <2>1 DEF Behind
<1>5. CASE socket.next = "add"
  <2>1. Adding /\ rooms[0] = Void /\ Client!RemovedName = Void
    BY <1>0, <1>5 DEF Adding, EntriesInv, FirstEntry, Client!RemovedName
  <2>2. CASE k = RoomMax
    BY <2>1, <2>2, FindMisses, EntryKinds
  <2>3. CASE /\ k \notin {Segv, RoomMax}
             /\ rooms' = [rooms EXCEPT ![k] = None]
             /\ socket' = [socket EXCEPT !.at = "current?", !.i = k]
    <3>1. k \in Active /\ rooms[k] = Void
      BY <1>1, <2>1, <2>3, FindReturns
    <3>2. \A i \in Active \ {0} : rooms[i] \in {None, Freed}
      BY <2>1 DEF EntriesInv, FirstEntry, Alone
    <3>3. k = 0
      BY <3>1, <3>2, EntryKinds
    <3>4. \A i \in Active : rooms'[i] = IF i = 0 THEN None ELSE rooms[i]
      BY <1>0, <2>3, <3>3 DEF Lists
    <3>5. RealEntries(rooms') = {}
      BY <3>2, <3>4, EntryKinds DEF RealEntries
    <3>6. AllShown(rooms', v.members)
      BY <1>2, <2>1, <3>4, EntryKinds DEF Shows, AllShown, WithoutFreed
    <3>7. Shows(rooms', v)
      BY <3>5, <3>6, NothingMatched DEF Shows
    <3>8. /\ socket'.at = "current?" /\ socket'.next = socket.next
          /\ socket'.room = socket.room
      BY <1>0, <2>3
    <3>9. Adding'
      BY <1>5, <3>8 DEF Adding
    <3>10. Doing(v, x)'
      BY <1>2, <2>1, <3>8, <3>9 DEF Doing
    <3> QED BY <3>7, <3>10 DEF Behind
  <2> QED BY <1>1, <1>4, <2>2, <2>3
<1>6. CASE socket.next # "add"
  <2> DEFINE r == socket.room
  <2>1. Client!RemovedName = r /\ ~Adding /\ Leaves(v, x, r)
    BY <1>0, <1>2, <1>6 DEF Client!RemovedName, Adding, Doing
  <2>2. /\ Matched(rooms, v.entries) /\ AllShown(rooms, v.members)
        /\ Gives(v.entries, x.entries, r)
        /\ x.members \subseteq v.members \ {r}
    BY <1>2, <2>1 DEF Shows, Leaves
  <2>3. Keeps(x, x)
    BY DEF Keeps
  <2>4. CASE k = RoomMax /\ UNCHANGED rooms /\ Client!Receive
    <3>1. \A i \in Active : rooms[i] # r
      BY <1>1, <2>1, <2>4, FindMisses
    <3>2. Matched(rooms, x.entries)
      BY <1>3, <2>2, <3>1, MissedMatched, RealType
    <3>3. AllShown(rooms, x.members)
      BY <2>2 DEF AllShown
    <3>4. Shows(rooms', x)
      BY <2>4, <3>2, <3>3 DEF Shows
    <3>5. socket'.at = "recv"
      BY <2>4 DEF Client!Receive
    <3>6. ~Adding'
      BY <3>5 DEF Adding
    <3> QED BY <2>3, <3>4, <3>5, <3>6, RestBehind
  <2>5. CASE /\ k \notin {Segv, RoomMax}
             /\ rooms' = [rooms EXCEPT ![k] = None]
             /\ socket' = [socket EXCEPT !.at = "current?", !.i = k]
    <3>1. k \in Active /\ rooms[k] = r
      BY <1>1, <2>1, <2>5, FindReturns
    <3>2. \A i \in Active : rooms'[i] = IF i = k THEN None ELSE rooms[i]
      BY <1>0, <2>5 DEF Lists
    <3>3. Matched(rooms', x.entries)
      <4>1. CASE rooms[0] = Void
        <5>1. \A i \in Active \ {0} : rooms[i] \in {None, Freed}
          BY <4>1 DEF EntriesInv, FirstEntry, Alone
        <5>2. k = 0
          BY <1>0, <3>1, <5>1, EntryKinds
        <5>3. RealEntries(rooms') = {}
          BY <3>2, <5>1, <5>2, EntryKinds DEF RealEntries
        <5> QED BY <5>3, NothingMatched
      <4>2. CASE rooms[0] # Void
        BY <1>0, <1>3, <2>2, <2>5, <3>1, <4>2, RemovedMatched
      <4> QED BY <4>1, <4>2
    <3>4. AllShown(rooms', x.members)
      <4>1. WithoutFreed(rooms') => WithoutFreed(rooms)
        BY <3>1, <3>2, EntryKinds, <1>0 DEF WithoutFreed
      <4>2. ASSUME NEW q \in x.members \ {Void}, WithoutFreed(rooms')
            PROVE  \E i \in Active : rooms'[i] = q
        <5>1. q \in v.members \ {Void} /\ q # r
          BY <2>2
        <5>2. PICK i \in Active : rooms[i] = q
          BY <2>2, <4>1, <4>2, <5>1 DEF AllShown
        <5>3. rooms'[i] = q
          BY <3>1, <3>2, <5>1, <5>2
        <5> QED BY <5>3
      <4> QED BY <4>2 DEF AllShown
    <3>5. Shows(rooms', x)
      BY <3>3, <3>4 DEF Shows
    <3>6. socket'.at = "current?" /\ socket'.next = socket.next
      BY <1>0, <2>5
    <3>7. ~Adding'
      BY <1>6, <3>6 DEF Adding
    <3> QED BY <2>3, <3>5, <3>6, <3>7, RestBehind
  <2> QED BY <1>1, <1>4, <1>6, <2>4, <2>5
<1> QED BY <1>5, <1>6

(* A NULL entry is there for every room joined, unless some were freed in  *)
(* place: the server has taken one that it had left.                       *)
LEMMA AddBehind ==
  ASSUME SysInv, EntriesInv, NEW x \in Views, Behind(x), Client!AddActiveRoom
  PROVE  Behind(x)'
<1> DEFINE free == Client!RoomIndex \ Client!Shown
<1>0. /\ socket.at = "add" /\ free = {i \in Active : rooms[i] = None}
      /\ rooms \in Lists
      /\ socket \in [at : SocketPlace, room : AnyRoom \cup {None},
                     next : {"recv", "all left?", "add"}, i : Active]
  BY DEF Client!AddActiveRoom, Client!SocketAt, Client!Shown,
         Client!RoomIndex, Active, SysInv, ClientInv, SysTypeOK, SocketType,
         Lists
<1>1. PICK v \in Views : Shows(rooms, v) /\ Doing(v, x)
  BY DEF Behind
<1>2. Adding /\ Joins(v, x, socket.room)
  BY <1>0, <1>1 DEF Adding, Doing
<1>3. v.entries \in EntryLists /\ x.entries \in EntryLists
  BY DEF Views, EntryLists
<1>4. rooms[0] # Void
  BY <1>0, <1>2 DEF EntriesInv, FirstEntry
<1>5. \A i \in Active : rooms[i] # Unnamed
  BY <1>0 DEF EntriesInv, OnlyNaming
<1>6. CASE free = {}
  <2>1. Client!Receive /\ UNCHANGED rooms
    BY <1>6 DEF Client!AddActiveRoom
  <2>2. Matched(rooms, x.entries)
    BY <1>1, <1>2, <1>3, TakenMatched DEF Shows, Joins
  <2>3. ~WithoutFreed(rooms)
    <3> SUFFICES ASSUME WithoutFreed(rooms) PROVE FALSE
      OBVIOUS
    <3>1. \A i \in Active : rooms[i] # None
      BY <1>0, <1>6
    <3>2. \A i \in Active : rooms[i] \in AnyRoom
      BY <1>0, <1>5, <3>1 DEF WithoutFreed, Lists, RoomEntry
    <3> QED BY <1>1, <1>2, <1>4, <3>2, FullMatched DEF Shows, Joins
  <2>4. Shows(rooms', x)
    BY <2>1, <2>2, <2>3 DEF Shows, AllShown
  <2>5. socket'.at = "recv"
    BY <2>1 DEF Client!Receive
  <2>6. ~Adding'
    BY <2>5 DEF Adding
  <2>7. Keeps(x, x)
    BY DEF Keeps
  <2> QED BY <2>4, <2>5, <2>6, <2>7, RestBehind
<1>7. CASE free # {}
  <2> DEFINE k == Client!Least(free)
  <2>1. /\ rooms' = [rooms EXCEPT ![k] = Unnamed]
        /\ socket' = [socket EXCEPT !.at = "name", !.i = k]
    BY <1>7 DEF Client!AddActiveRoom
  <2>2. k \in Active /\ rooms[k] = None
    BY <1>0, <1>7, LeastEntry
  <2> HIDE DEF k
  <2>3. socket'.at = "name" /\ socket'.room = socket.room
    BY <1>0, <2>1
  <2>4. \A i \in Active : rooms'[i] = IF i = k THEN Unnamed ELSE rooms[i]
    BY <1>0, <2>1 DEF Lists
  <2>5. RealEntries(rooms') = RealEntries(rooms)
        /\ \A i \in RealEntries(rooms) : rooms'[i] = rooms[i]
    BY <1>4, <2>2, <2>4, EntryKinds DEF RealEntries
  <2>6. Matched(rooms', v.entries)
    BY <1>1, <2>5, SameMatched DEF Shows
  <2>7. AllShown(rooms', v.members)
    <3>1. WithoutFreed(rooms') => WithoutFreed(rooms)
      BY <2>2, <2>4, EntryKinds DEF WithoutFreed
    <3>2. ASSUME NEW q \in v.members \ {Void}, WithoutFreed(rooms')
          PROVE  \E i \in Active : rooms'[i] = q
      <4>1. PICK i \in Active : rooms[i] = q
        BY <1>1, <3>1, <3>2 DEF Shows, AllShown
      <4>2. q # None
        BY EntryKinds DEF Views, AnyRoom
      <4> QED BY <2>2, <2>4, <4>1, <4>2
    <3> QED BY <3>2 DEF AllShown
  <2>8. Shows(rooms', v)
    BY <2>6, <2>7 DEF Shows
  <2>9. Adding'
    BY <2>3 DEF Adding
  <2>10. Doing(v, x)'
    BY <1>2, <2>3, <2>9 DEF Doing
  <2> QED BY <2>8, <2>10 DEF Behind
<1> QED BY <1>6, <1>7

LEMMA NameBehind ==
  ASSUME SysInv, EntriesInv, NEW x \in Views, Behind(x), Client!NameRoom
  PROVE  Behind(x)'
<1> DEFINE r == socket.room
           n == socket.i
<1>0. /\ socket.at = "name" /\ rooms \in Lists /\ ClientInv
      /\ rooms' = [rooms EXCEPT ![n] = r]
      /\ Client!Socket("make current")
      /\ r \in AnyRoom /\ n \in Active /\ rooms[n] = Unnamed
  BY DEF Client!NameRoom, Client!SocketAt, SysInv, ClientInv, SysTypeOK,
         SocketType, NamesRoom, Lists, Working
<1>1. PICK v \in Views : Shows(rooms, v) /\ Doing(v, x)
  BY DEF Behind
<1>2. Adding /\ Joins(v, x, r)
  BY <1>0, <1>1 DEF Adding, Doing
<1> HIDE DEF r, n
<1>3. v.entries \in EntryLists /\ x.entries \in EntryLists
  BY DEF Views, EntryLists
<1>4. rooms[0] # Void
  BY <1>0, <1>2 DEF EntriesInv, FirstEntry
<1>5. \A i \in Active : rooms'[i] = IF i = n THEN r ELSE rooms[i]
  BY <1>0 DEF Lists
<1>6. Matched(rooms', x.entries)
  <2>1. CASE rooms'[0] = Void
    BY <2>1, NothingMatched DEF RealEntries
  <2>2. CASE rooms'[0] # Void
    BY <1>0, <1>1, <1>2, <1>3, <1>4, <2>2, NamedMatched DEF Shows, Joins
  <2> QED BY <2>1, <2>2
<1>7. AllShown(rooms', x.members)
  <2>1. WithoutFreed(rooms') => WithoutFreed(rooms)
    BY <1>0, <1>5, EntryKinds DEF WithoutFreed
  <2>2. ASSUME NEW q \in x.members \ {Void}, WithoutFreed(rooms')
        PROVE  \E i \in Active : rooms'[i] = q
    <3>1. CASE q = r
      BY <1>0, <1>5, <3>1
    <3>2. CASE q # r
      <4>1. q \in v.members \ {Void}
        BY <1>2, <2>2, <3>2 DEF Joins
      <4>2. PICK i \in Active : rooms[i] = q
        BY <1>1, <2>1, <2>2, <4>1 DEF Shows, AllShown
      <4>3. q # Unnamed
        BY <4>1, EntryKinds DEF Views, AnyRoom
      <4> QED BY <1>0, <1>5, <4>2, <4>3
    <3> QED BY <3>1, <3>2
  <2> QED BY <2>2 DEF AllShown
<1>8. Shows(rooms', x)
  BY <1>6, <1>7 DEF Shows
<1>9. socket'.at = "make current"
  BY <1>0, SocketReached
<1>10. ~Adding' /\ Keeps(x, x)
  BY <1>9 DEF Adding, Keeps
<1> QED BY <1>8, <1>9, <1>10, RestBehind

(* After the last room was left, the void; rooms that are freed in place   *)
(* are shown no longer.                                                    *)
LEMMA LeavesBehind ==
  ASSUME SysInv, EntriesInv, NEW x \in Views, Behind(x),
         Client!FreeRooms \/ Client!GotoDefaultRoom
  PROVE  Behind(x)'
<1>0. ClientInv /\ rooms \in Lists
  BY DEF SysInv, ClientInv, SysTypeOK, Lists
<1>1. PICK v \in Views : Shows(rooms, v) /\ Doing(v, x)
  BY DEF Behind
<1>2. CASE Client!FreeRooms
  <2>1. /\ rooms' = [i \in Active |-> IF i = 0 THEN Unnamed
                                      ELSE IF rooms[i] = None THEN None
                                      ELSE Freed]
        /\ Client!Socket("default room") /\ socket.at = "free rooms"
    BY <1>2 DEF Client!FreeRooms, Client!RoomIndex, Active, Client!SocketAt
  <2>2. socket'.at = "default room"
    BY <1>0, <2>1, SocketReached
  <2>3. ~Adding' /\ Keeps(v, x)
    BY <1>1, <2>1, <2>2 DEF Adding, Doing
  <2>4. rooms[0] = None
    BY <2>1 DEF EntriesInv, FirstEntry
  <2>5. \A i \in Active :
          rooms'[i] = IF i = 0 THEN Unnamed
                      ELSE IF rooms[i] = None THEN None ELSE Freed
    BY <2>1
  <2>6. RealEntries(rooms') = {}
    BY <2>5, EntryKinds DEF RealEntries
  <2>7. AllShown(rooms', v.members)
    <3> SUFFICES ASSUME WithoutFreed(rooms'), NEW q \in v.members \ {Void}
                 PROVE  FALSE
      BY DEF AllShown
    <3>1. \A i \in Active : rooms[i] = None
      BY <2>4, <2>5 DEF WithoutFreed
    <3>2. \E i \in Active : rooms[i] = q
      BY <1>1, <3>1, EntryKinds DEF Shows, AllShown, WithoutFreed
    <3>3. q # None
      BY EntryKinds DEF Views, AnyRoom
    <3> QED BY <3>1, <3>2, <3>3
  <2>8. Shows(rooms', v)
    BY <2>6, <2>7, NothingMatched DEF Shows
  <2> QED BY <2>2, <2>3, <2>8, RestBehind
<1>3. CASE Client!GotoDefaultRoom
  <2>1. /\ rooms' = [rooms EXCEPT ![0] = Void] /\ socket'.at = "recv"
        /\ socket.at = "default room"
    BY <1>3 DEF Client!GotoDefaultRoom, Client!Receive, Client!SocketAt
  <2>2. rooms[0] = Unnamed
    BY <1>0, <2>1 DEF ClientInv, Working
  <2>3. \A i \in Active : rooms'[i] = IF i = 0 THEN Void ELSE rooms[i]
    BY <1>0, <2>1 DEF Lists
  <2>4. RealEntries(rooms') = {}
    BY <2>3, EntryKinds DEF RealEntries
  <2>5. ~Adding' /\ Keeps(v, x)
    BY <1>1, <2>1 DEF Adding, Doing
  <2>6. AllShown(rooms', v.members)
    <3> SUFFICES ASSUME WithoutFreed(rooms'), NEW q \in v.members \ {Void}
                 PROVE  \E i \in Active : rooms'[i] = q
      BY DEF AllShown
    <3>1. WithoutFreed(rooms)
      BY <2>2, <2>3, EntryKinds DEF WithoutFreed
    <3>2. PICK i \in Active : rooms[i] = q
      BY <1>1, <3>1 DEF Shows, AllShown
    <3>3. q # Unnamed
      BY EntryKinds DEF Views, AnyRoom
    <3> QED BY <2>2, <2>3, <3>2, <3>3
  <2>7. Shows(rooms', v)
    BY <2>4, <2>6, NothingMatched DEF Shows
  <2> QED BY <2>1, <2>5, <2>7, RestBehind
<1> QED BY <1>2, <1>3

(* The next answer is taken, and what it tells becomes the thread's work,  *)
(* unless more were dropped with it or it is a join that is misread.       *)
LEMMA RecvBehind ==
  ASSUME SysInv, NEW x \in Views, Behind(x), NEW w, Tells(x, answers, w),
         Client!Recv, lost' = {}, socket'.at # "ended"
  PROVE  \E y \in Views : Behind(y)' /\ Tells(y, answers', w)
<1> DEFINE a == Head(answers)
<1>0. /\ UNCHANGED rooms /\ socket.at = "recv"
      /\ IF Client!Handler(a) = "recv" THEN Client!Receive
         ELSE socket' = [at |-> Client!Handler(a), room |-> a.room, i |-> 0,
                         next |-> IF a.type = "LEAVE" THEN "all left?"
                                                      ELSE "recv"]
  BY DEF Client!Recv, Client!SocketAt, Client!shared
<1>1. PICK k \in 1 .. Len(answers) :
        /\ answers' = SubSeq(answers, k + 1, Len(answers))
        /\ lost' = lost \cup (IF k > 1 THEN {"answers"} ELSE {})
                        \cup (IF Client!Misread(a) THEN {"join"} ELSE {})
  BY DEF Client!Recv
<1>2. answers \in Seq(AnswerType) /\ ~(k > 1) /\ ~Client!Misread(a)
  BY <1>1, QueueTypes
<1>3. /\ answers # <<>> /\ a = answers[1] /\ a \in AnswerType
      /\ answers' = SubSeq(answers, 2, Len(answers))
  <2>1. Len(answers) \in Nat /\ k \in Nat /\ k >= 1 /\ k <= Len(answers)
    BY <1>1, <1>2
  <2>2. k = 1
    BY <1>2, <2>1
  <2>3. answers # <<>>
    BY <1>2, <2>1, <2>2
  <2>4. a = answers[1] /\ a \in AnswerType
    BY <1>2, <2>3
  <2> QED BY <1>1, <2>2, <2>3, <2>4
<1>4. PICK y \in Views :
        <<x, a, y>> \in Steps /\ Leads(Steps, Views, y, answers', w)
  BY <1>2, <1>3, FirstLeads DEF Tells
<1> HIDE DEF a
<1>5. Said(a, x, y)
  BY <1>3, <1>4, StepIs
<1>6. PICK v \in Views : Shows(rooms, v) /\ Doing(v, x)
  BY DEF Behind
<1>7. Keeps(v, x)
  BY <1>0, <1>6 DEF Doing, Adding
<1>8. Shows(rooms', x)
  BY <1>0, <1>6, <1>7, ShowsLess
<1>9. x.entries \in EntryLists
  BY DEF Views, EntryLists
<1>10. CASE Client!Handler(a) = "recv"
  <2>1. Client!Receive
    BY <1>0, <1>10
  <2>2. socket'.at = "recv"
    BY <2>1 DEF Client!Receive
  <2>3. ~Adding' /\ Keeps(y, y)
    BY <2>2 DEF Adding, Keeps
  <2>4. /\ \/ y.entries = x.entries
           \/ Takes(x.entries, y.entries, a.room)
        /\ y.members \subseteq x.members
    BY <1>2, <1>5, <1>10 DEF Said, Client!Handler, Keeps
  <2>5. Matched(rooms', y.entries)
    BY <1>8, <1>9, <2>4, TakenMatched DEF Shows
  <2>6. AllShown(rooms', y.members)
    BY <1>8, <2>4 DEF Shows, AllShown
  <2>7. Behind(y)'
    BY <2>2, <2>3, <2>5, <2>6, RestBehind DEF Shows
  <2> QED BY <1>4, <2>7 DEF Tells
<1>11. CASE Client!Handler(a) # "recv"
  <2>1. socket' = [at |-> Client!Handler(a), room |-> a.room, i |-> 0,
                   next |-> IF a.type = "LEAVE" THEN "all left?" ELSE "recv"]
    BY <1>0, <1>11
  <2>2. /\ socket'.at = Client!Handler(a) /\ socket'.room = a.room
        /\ socket'.next # "add"
    BY <2>1
  <2>3. \/ a.type = "MSG" /\ Client!Handler(a) = "message"
        \/ a.type = "JOIN" /\ a.res /\ Client!Handler(a) = "joined"
        \/ a.type = "LEAVE" /\ a.res /\ Client!Handler(a) = "remove"
    <3>1. Client!Handler(a) # "ended"
      BY <2>2
    <3> QED BY <1>11, <3>1 DEF Client!Handler
  <2>4. CASE a.type = "MSG" /\ Client!Handler(a) = "message"
    <3>1. Keeps(x, y) /\ a.room \in x.members
      BY <1>5, <2>4 DEF Said
    <3>2. ~Adding'
      BY <2>2, <2>4 DEF Adding
    <3>3. Doing(x, y)'
      BY <2>2, <2>4, <3>1, <3>2 DEF Doing
    <3> QED BY <1>4, <1>8, <3>3 DEF Tells, Behind
  <2>5. CASE a.type = "JOIN" /\ a.res /\ Client!Handler(a) = "joined"
    <3>1. Joins(x, y, a.room)
      BY <1>5, <2>5 DEF Said
    <3>2. Adding'
      BY <2>2, <2>5 DEF Adding
    <3>3. Doing(x, y)'
      BY <2>2, <3>1, <3>2 DEF Doing
    <3> QED BY <1>4, <1>8, <3>3 DEF Tells, Behind
  <2>6. CASE a.type = "LEAVE" /\ a.res /\ Client!Handler(a) = "remove"
    <3>1. Leaves(x, y, a.room)
      BY <1>5, <2>6 DEF Said
    <3>2. ~Adding' /\ socket'.at = "remove"
      BY <2>2, <2>6 DEF Adding
    <3>3. Doing(x, y)'
      BY <2>2, <3>1, <3>2 DEF Doing
    <3> QED BY <1>4, <1>8, <3>3 DEF Tells, Behind
  <2> QED BY <2>3, <2>4, <2>5, <2>6
<1> QED BY <1>10, <1>11

-----------------------------------------------------------------------------
(* The whole system.                                                       *)

(* What the client does not know at first: it has no rooms.                *)
Unjoined ==
  keyboard.at \in {"logon", "wait"} => active_rooms[Me] = NoRooms

(* No answer was dropped or ignored, and the socket thread runs.           *)
Sound ==
  lost = {} /\ socket.at # "ended" /\ keyboard.at \notin {"logon", "wait"}

Agree ==
  Sound => \/ NeverLoggedOn
           \/ \E x \in Views : Behind(x) /\ Tells(x, answers, ServerView)

RoomsInv == Unjoined /\ EntriesInv /\ Agree

LEMMA NoRoomsMine ==
  ASSUME IInv, active_rooms[Me] = NoRooms
  PROVE  MyRooms = {}
<1>0. Me \in Conn /\ Clients \subseteq Conn
  BY MeAssumption, ClientsType DEF IInv
<1> SUFFICES ASSUME NEW r \in Room, name[Me] # None, name[Me] \in Members(r)
             PROVE  FALSE
  BY DEF MyRooms
<1>1. PICK c \in Clients : name[c] = name[Me] /\ r \in Range(active_rooms[c])
  BY DEF IInv, NoGhosts
<1>2. Me \in Clients
  BY <1>0 DEF IInv, Nameless
<1>3. c = Me
  BY <1>1, <1>2 DEF IInv, NamesUnique, Named
<1>4. Range(active_rooms[Me]) \subseteq {None}
  BY DEF NoRooms, Range
<1> QED BY <1>1, <1>3, <1>4, EntryKinds DEF AnyRoom

LEMMA ViewStays ==
  ASSUME UNCHANGED vars
  PROVE  UNCHANGED ServerView
BY DEF vars, ServerView, MyRooms, Members

(* A step that the list of rooms and the socket thread have no part in.    *)
LEMMA ElsewhereKeepsRooms ==
  ASSUME EntriesInv, UNCHANGED <<socket, rooms>>
  PROVE  EntriesInv' /\ \A x \in Views : Behind(x) => Behind(x)'
<1>1. EntriesInv'
  BY DEF EntriesInv, FirstEntry, OnlyNaming, Adding, Alone
<1>2. ASSUME NEW x \in Views, Behind(x) PROVE Behind(x)'
  <2>1. PICK v \in Views : Shows(rooms, v) /\ Doing(v, x)
    BY <1>2 DEF Behind
  <2>2. Shows(rooms', v) /\ Doing(v, x)'
    BY <2>1 DEF Doing, Adding
  <2> QED BY <2>2 DEF Behind
<1> QED BY <1>1, <1>2

LEMMA CommandsGoOn ==
  ASSUME ClientInv, NEW closed,
         \/ \E line \in Line : Client!ReadLine(line)
         \/ Client!TestVoid \/ Client!FindMsgRoom \/ Client!SendRequest(closed)
         \/ Client!FindShownRoom \/ Client!SwitchRoom \/ Client!DisplayRoom
         \/ Client!SendExit(closed) \/ Client!JoinThread
  PROVE  /\ UNCHANGED <<socket, rooms, answers, lost>>
         /\ keyboard.at \notin {"logon", "wait"}
         /\ keyboard'.at \notin {"logon", "wait"}
<1>0. /\ UNCHANGED <<socket, rooms, answers, lost>>
      /\ keyboard.at \notin {"logon", "wait"}
  BY DEF Client!ReadLine, Client!TestVoid, Client!FindMsgRoom,
         Client!SendRequest, Client!FindShownRoom, Client!SwitchRoom,
         Client!DisplayRoom, Client!SendExit, Client!JoinThread,
         Client!KeyboardAt, Client!shared, Client!queues, Client!Send
<1>1. \/ UNCHANGED keyboard \/ Client!NextLine
      \/ \E p \in {"send chat", "join thread", "display"} : Client!Keyboard(p)
      \/ \E j : keyboard' = [keyboard EXCEPT !.at = "switch", !.i = j]
      \/ \E line \in Line : \E i, e :
           keyboard' = [at |-> line.cmd, line |-> line.room, i |-> i, room |-> e]
  BY DEF Client!ReadLine, Client!TestVoid, Client!FindMsgRoom,
         Client!SendRequest, Client!FindShownRoom, Client!SwitchRoom,
         Client!DisplayRoom, Client!SendExit, Client!JoinThread,
         Client!Keyboard
<1>2. CASE UNCHANGED keyboard
  BY <1>0, <1>2
<1>3. CASE Client!NextLine
  BY <1>0, <1>3 DEF Client!NextLine
<1>4. CASE \E p \in {"send chat", "join thread", "display"} : Client!Keyboard(p)
  <2>1. keyboard'.at \in {"send chat", "join thread", "display"}
    BY <1>4, PlaceReached
  <2> QED BY <1>0, <2>1
<1>5. CASE \E j : keyboard' = [keyboard EXCEPT !.at = "switch", !.i = j]
  <2>1. keyboard'.at = "switch"
    BY <1>5, PlaceReached
  <2> QED BY <1>0, <2>1
<1>6. CASE \E line \in Line : \E i, e :
             keyboard' = [at |-> line.cmd, line |-> line.room, i |-> i, room |-> e]
  <2>1. PICK line \in Line : keyboard'.at = line.cmd
    BY <1>6
  <2>2. line.cmd \notin {"logon", "wait"}
    BY <2>1, LineAssumption DEF Client!AnyLine
  <2> QED BY <1>0, <2>1, <2>2
<1> QED BY <1>1, <1>2, <1>3, <1>4, <1>5, <1>6

LEMMA CommandsKeepRooms ==
  ASSUME SysInv, RoomsInv, UNCHANGED vars, NEW closed,
         NeverLoggedOn => NeverLoggedOn',
         \/ \E line \in Line : Client!ReadLine(line)
         \/ Client!TestVoid \/ Client!FindMsgRoom \/ Client!SendRequest(closed)
         \/ Client!FindShownRoom \/ Client!SwitchRoom \/ Client!DisplayRoom
         \/ Client!SendExit(closed) \/ Client!JoinThread
  PROVE  RoomsInv'
<1>1. /\ UNCHANGED <<socket, rooms, answers, lost>>
      /\ keyboard.at \notin {"logon", "wait"}
      /\ keyboard'.at \notin {"logon", "wait"}
  BY CommandsGoOn DEF SysInv
<1>2. EntriesInv' /\ \A x \in Views : Behind(x) => Behind(x)'
  BY <1>1, ElsewhereKeepsRooms DEF RoomsInv
<1>3. ServerView' = ServerView
  BY ViewStays
<1>4. Unjoined'
  BY <1>1 DEF Unjoined
<1>5. Agree'
  <2>1. Sound' => Sound
    BY <1>1 DEF Sound
  <2> QED BY <1>1, <1>2, <1>3, <2>1 DEF RoomsInv, Agree
<1> QED BY <1>2, <1>4, <1>5 DEF RoomsInv

LEMMA LogonKeepsRooms ==
  ASSUME SysInv, CurrentInv, RoomsInv, UNCHANGED vars, NEW closed,
         \/ \E n \in Nick : Client!EnterName(n, closed)
         \/ Client!EnterBadName
         \/ Client!ReadNoName
         \/ Client!GetLogonResult(closed)
  PROVE  RoomsInv'
<1>0. /\ keyboard.at \in {"logon", "wait"} /\ ClientInv
      /\ active_rooms' = active_rooms /\ name' = name
  BY DEF Client!EnterName, Client!EnterBadName, Client!ReadNoName,
         Client!GetLogonResult, Client!KeyboardAt, SysInv, vars
<1>1. /\ rooms = [i \in Active |-> None] /\ current_r = 0
      /\ active_rooms[Me] = NoRooms
  BY <1>0 DEF ClientInv, NoRoomYet, RoomsInv, Unjoined
<1>2. ServerView' = ServerView /\ ServerView \in Views
  BY ViewStays, ViewType DEF SysInv, IInv
<1>3. Unjoined'
  BY <1>0, <1>1 DEF Unjoined
<1>4. CASE UNCHANGED <<socket, rooms>> /\ keyboard'.at \in {"logon", "wait"}
  <2>1. EntriesInv' /\ Agree'
    BY <1>4, ElsewhereKeepsRooms DEF RoomsInv, Agree, Sound
  <2> QED BY <1>3, <2>1 DEF RoomsInv
<1>5. ASSUME NEW n \in Nick, Client!EnterName(n, closed) PROVE RoomsInv'
  <2>1. keyboard'.at = "wait" /\ UNCHANGED <<socket, rooms>>
    BY <1>0, <1>5, PlaceReached DEF Client!EnterName, Client!shared
  <2> QED BY <1>4, <2>1
<1>6. CASE Client!EnterBadName
  <2>1. /\ keyboard.at = "logon" /\ keyboard.line = None
        /\ Client!NextLine /\ socket' = [socket EXCEPT !.at = "recv"]
        /\ UNCHANGED <<rooms, current_r, requests>>
    BY <1>6 DEF Client!EnterBadName, Client!KeyboardAt, Client!shared,
                Client!queues
  <2>2. keyboard'.at = "read"
    BY <2>1 DEF Client!NextLine
  <2>3. socket'.at = "recv"
    BY <1>0, <2>1, StartType
  <2>4. NoneShown'
    BY <1>1, <2>1 DEF NoneShown
  <2>5. NeverLoggedOn'
    BY <1>0, <1>1, <2>1, <2>2, <2>3, <2>4
       DEF NeverLoggedOn, CurrentInv, NotYetAsked
  <2>6. ~Adding'
    BY <2>3 DEF Adding
  <2>7. \A i \in Active : rooms'[i] = None
    BY <1>1, <2>1
  <2>8. EntriesInv'
    BY <2>3, <2>6, <2>7, EntryKinds DEF EntriesInv, FirstEntry, OnlyNaming
  <2> QED BY <1>3, <2>5, <2>8 DEF RoomsInv, Agree
<1>7. CASE Client!GetLogonResult(closed)
  <2>1. CASE answers # <<>> /\ Head(answers).res
    <3>1. /\ rooms' = [rooms EXCEPT ![0] = Void] /\ answers' = <<>>
          /\ Client!NextLine /\ socket' = [socket EXCEPT !.at = "recv"]
      BY <1>7, <2>1 DEF Client!GetLogonResult
    <3>2. socket'.at = "recv"
      BY <1>0, <3>1, StartType
    <3>3. ~Adding'
      BY <3>2 DEF Adding
    <3>4. \A i \in Active : rooms'[i] = IF i = 0 THEN Void ELSE None
      BY <1>1, <3>1
    <3>5. EntriesInv'
      BY <3>2, <3>3, <3>4, EntryKinds
         DEF EntriesInv, FirstEntry, OnlyNaming, Alone
    <3>6. RealEntries(rooms') = {}
      BY <3>4, EntryKinds DEF RealEntries
    <3>7. ServerView.members = {}
      BY <1>1, NoRoomsMine DEF ServerView, SysInv
    <3>8. Shows(rooms', ServerView)
      BY <3>6, <3>7, NothingMatched DEF Shows, AllShown
    <3> DEFINE v == ServerView
    <3>9. Keeps(v, v)
      BY DEF Keeps
    <3>10. \E x \in Views : Behind(x)' /\ Tells(x, answers', ServerView')
      <4>1. PICK x \in Views : x = ServerView
        BY <1>2
      <4>2. Behind(x)'
        BY <3>2, <3>3, <3>8, <3>9, <4>1, RestBehind
      <4>3. Tells(x, <<>>, x)
        BY NoneTells
      <4> QED BY <1>2, <3>1, <4>1, <4>2, <4>3
    <3> QED BY <1>3, <3>5, <3>10 DEF RoomsInv, Agree
  <2>2. CASE ~(answers # <<>> /\ Head(answers).res)
    <3>1. /\ keyboard' = [keyboard EXCEPT !.at = "logon", !.line = "FAILURE"]
          /\ UNCHANGED <<socket, rooms>>
      BY <1>7, <2>2 DEF Client!GetLogonResult, Client!shared
    <3>2. keyboard'.at = "logon"
      BY <1>0, <3>1 DEF ClientInv, KeyboardType
    <3> QED BY <1>4, <3>1, <3>2
  <2> QED BY <2>1, <2>2
<1>8. CASE Client!ReadNoName
  <2>1. UNCHANGED <<keyboard, socket, rooms>>
    BY <1>8 DEF Client!ReadNoName, Client!shared
  <2> QED BY <1>0, <1>4, <2>1
<1> QED BY <1>5, <1>6, <1>7, <1>8

(* The socket thread takes the answers in one after the other.             *)
LEMMA SocketKeepsRooms ==
  ASSUME SysInv, RoomsInv, UNCHANGED vars, NEW closed,
         NeverLoggedOn => NeverLoggedOn', Client!SocketThread(closed)
  PROVE  RoomsInv'
<1>1. socket.at \notin {"none", "ended"} /\ UNCHANGED keyboard
  BY DEF Client!SocketThread, Client!RecvEnd, Client!Recv,
     Client!TestCurrentRoom, Client!AddToRoomHistory, Client!TestFirstRoom,
     Client!RemoveActiveRoom, Client!WasCurrent, Client!SwitchToFirst,
     Client!DisplayFirst, Client!AddActiveRoom, Client!NameRoom,
     Client!MakeCurrent, Client!TestAllLeft, Client!FreeRooms,
     Client!GotoDefaultRoom, Client!SocketAt
<1>2. keyboard'.at \notin {"logon", "wait"}
  BY <1>1, QueueTypes DEF ClientInv, NoRoomYet
<1>3. Unjoined' /\ EntriesInv
  BY <1>2 DEF Unjoined, RoomsInv
<1>4. EntriesInv'
  BY <1>3, LooksKeepEntries, TestFirstKeepsEntries, RemoveKeepsEntries,
     SwitchesKeepEntries, AddKeepsEntries, NameKeepsEntries, LeavesKeepEntries
     DEF Client!SocketThread
<1>5. UNCHANGED ServerView
  BY ViewStays
<1>6. SUFFICES ASSUME Sound', ~NeverLoggedOn'
               PROVE  \E x \in Views : Behind(x)' /\ Tells(x, answers', ServerView)
  BY <1>3, <1>4, <1>5 DEF RoomsInv, Agree
<1>7. lost' = {} /\ socket'.at # "ended"
  BY <1>6 DEF Sound
<1>8. ASSUME lost = {}
      PROVE  \E x \in Views : Behind(x) /\ Tells(x, answers, ServerView)
  <2>1. Sound
    BY <1>1, <1>2, <1>8 DEF Sound
  <2> QED BY <1>6, <2>1 DEF RoomsInv, Agree
<1>9. CASE Client!RecvEnd(closed)
  <2>1. Client!Socket("ended")
    BY <1>9 DEF Client!RecvEnd
  <2>2. socket'.at = "ended"
    BY <2>1, QueueTypes, SocketReached
  <2> QED BY <1>7, <2>2
<1>10. CASE Client!Recv
  <2>1. lost = {}
    BY <1>7, <1>10 DEF Client!Recv
  <2>2. PICK x \in Views : Behind(x) /\ Tells(x, answers, ServerView)
    BY <1>8, <2>1
  <2> QED BY <1>7, <1>10, <2>2, RecvBehind
<1>11. CASE \/ Client!TestCurrentRoom \/ Client!AddToRoomHistory
            \/ Client!TestFirstRoom \/ Client!MakeCurrent
            \/ Client!WasCurrent \/ Client!SwitchToFirst \/ Client!DisplayFirst
            \/ Client!TestAllLeft \/ Client!RemoveActiveRoom
            \/ Client!AddActiveRoom \/ Client!NameRoom
            \/ Client!FreeRooms \/ Client!GotoDefaultRoom
  <2>1. UNCHANGED <<answers, lost>>
    BY <1>11 DEF Client!TestCurrentRoom, Client!AddToRoomHistory,
       Client!TestFirstRoom, Client!RemoveActiveRoom, Client!WasCurrent,
       Client!SwitchToFirst, Client!DisplayFirst, Client!AddActiveRoom,
       Client!NameRoom, Client!MakeCurrent, Client!TestAllLeft,
       Client!FreeRooms, Client!GotoDefaultRoom, Client!queues
  <2>2. PICK x \in Views : Behind(x) /\ Tells(x, answers, ServerView)
    BY <1>7, <1>8, <2>1
  <2>3. Behind(x)'
    BY <1>3, <1>4, <1>11, <2>2, LooksBehind, RemoveBehind, AddBehind,
       NameBehind, LeavesBehind
  <2> QED BY <2>1, <2>2, <2>3
<1> QED BY <1>9, <1>10, <1>11 DEF Client!SocketThread

(* More answers are under way, and lead on.                                *)
LEMMA MoreTells ==
  ASSUME NEW s \in Seq(AnswerType), NEW t \in Seq(AnswerType),
         NEW x, NEW v, NEW w, Tells(x, s, v), Tells(v, t, w)
  PROVE  Tells(x, s \o t, w)
BY JoinedLeads DEF Tells

LEMMA ServeMeKeepsRooms ==
  ASSUME SysInv, LogonInv, RoomsInv, ServeMe
  PROVE  RoomsInv'
<1> DEFINE q == Head(requests)
<1>1. /\ requests # <<>> /\ Handle(q) /\ UNCHANGED <<keyboard, socket, rooms>>
      /\ answers' = answers \o AnswersSent
      /\ lost' = {} => lost = {}
  BY DEF ServeMe
<1>2. requests \in Seq(RequestType) /\ q = requests[1] /\ 1 \in DOMAIN requests
  BY <1>1, QueueTypes
<1>3. q \in RequestType
  BY <1>1, <1>2
<1>4. up
  BY <1>1 DEF Handle, AcceptNewCli, JoinRefused, JoinRoom, JoinLongRoom,
              LeaveRoom, Message, MessageIgnored, ListRoomUsers, Exit,
              Request, Ready
<1> HIDE DEF q
<1>5. Asking /\ Awaiting /\ Asked
  BY <1>4 DEF LogonInv
<1>6. Next /\ AnswersSent \in Seq(AnswerType) /\ answers \in Seq(AnswerType)
  BY ServeMeKeeps, SentInStep, QueueTypes
<1>7. IInv /\ TypeOK'
  BY <1>6, NextKeeps DEF SysInv, IInv
<1>8. EntriesInv' /\ \A x \in Views : Behind(x) => Behind(x)'
  BY <1>1, ElsewhereKeepsRooms DEF RoomsInv
<1>9. CASE keyboard.at \in {"logon", "wait"}
  <2>1. q.type = "LOGON"
    BY <1>1, <1>2, <1>5, <1>9 DEF Asking, Awaiting
  <2>2. UNCHANGED active_rooms
    BY <1>1, <2>1 DEF Handle, AcceptNewCli
  <2>3. Unjoined' /\ ~Sound'
    BY <1>1, <1>9, <2>2 DEF RoomsInv, Unjoined, Sound
  <2> QED BY <1>8, <2>3 DEF RoomsInv, Agree
<1>10. CASE keyboard.at \notin {"logon", "wait"}
  <2>1. name[Me] # None /\ q.type # "LOGON"
    BY <1>1, <1>2, <1>5, <1>10 DEF Asked, Following
  <2>2. Tells(ServerView, AnswersSent, ServerView')
    BY <1>1, <1>3, <1>7, <2>1, HandleTells
  <2>3. Unjoined'
    BY <1>1, <1>10 DEF Unjoined
  <2>4. Agree'
    <3> SUFFICES ASSUME Sound'
                 PROVE  \E x \in Views : Behind(x)' /\ Tells(x, answers', ServerView')
      BY DEF Agree
    <3>1. Sound /\ ~NeverLoggedOn
      BY <1>1 DEF Sound, NeverLoggedOn
    <3>2. PICK x \in Views : Behind(x) /\ Tells(x, answers, ServerView)
      BY <3>1 DEF RoomsInv, Agree
    <3> QED BY <1>1, <1>6, <1>8, <2>2, <3>2, MoreTells
  <2> QED BY <1>8, <2>3, <2>4 DEF RoomsInv
<1> QED BY <1>9, <1>10

LEMMA ServeOtherKeepsRooms ==
  ASSUME SysInv, RoomsInv, NEW c \in Conn, ServeOther(c),
         NeverLoggedOn => NeverLoggedOn'
  PROVE  RoomsInv'
<1>1. /\ Other(c) /\ UNCHANGED <<keyboard, socket, rooms, lost>>
      /\ answers' = answers \o AnswersSent
  BY DEF ServeOther
<1>2. IInv /\ ServerView \in Views
  BY ViewType DEF SysInv, IInv
<1>3. UNCHANGED ServerView
  BY <1>1, <1>2, OthersLeaveView
<1>4. active_rooms'[Me] = active_rooms[Me]
  BY <1>3 DEF ServerView
<1>5. Unjoined'
  BY <1>1, <1>4 DEF RoomsInv, Unjoined
<1>6. EntriesInv' /\ \A x \in Views : Behind(x) => Behind(x)'
  BY <1>1, ElsewhereKeepsRooms DEF RoomsInv
<1>7. AnswersSent \in Seq(AnswerType) /\ answers \in Seq(AnswerType)
  BY ServeOtherKeeps, SentInStep, QueueTypes
<1>8. Tells(ServerView, AnswersSent, ServerView)
  <2>1. CASE AnswersSent = <<>>
    BY <1>2, <2>1, NoneTells
  <2>2. CASE \E r \in MyRooms :
               AnswersSent = <<[type |-> "MSG", room |-> r, res |-> FALSE,
                                num |-> 0]>>
    <3>1. PICK r \in MyRooms :
            AnswersSent = <<[type |-> "MSG", room |-> r, res |-> FALSE,
                             num |-> 0]>>
      BY <2>2
    <3> DEFINE a == [type |-> "MSG", room |-> r, res |-> FALSE, num |-> 0]
    <3>2. a \in AnswerType
      BY DEF AnswerType, MyRooms, AnyRoom
    <3>3. a.type = "MSG" /\ a.room = r /\ r \in ServerView.members
      BY DEF ServerView
    <3> HIDE DEF a
    <3>4. Said(a, ServerView, ServerView)
      BY <3>3 DEF Said, Keeps
    <3> QED BY <1>2, <3>1, <3>2, <3>4, OneTells DEF a
  <2> QED BY <1>1, <1>2, <2>1, <2>2, OthersSend
<1>9. Agree'
  <2> SUFFICES ASSUME Sound', ~NeverLoggedOn'
               PROVE  \E x \in Views : Behind(x)' /\ Tells(x, answers', ServerView)
    BY <1>3 DEF Agree
  <2>1. Sound
    BY <1>1 DEF Sound
  <2>2. PICK x \in Views : Behind(x) /\ Tells(x, answers, ServerView)
    BY <2>1 DEF RoomsInv, Agree
  <2> QED BY <1>1, <1>6, <1>7, <1>8, <2>2, MoreTells
<1> QED BY <1>5, <1>6, <1>9 DEF RoomsInv

(* A step that changes neither the client nor what the server has of it.   *)
LEMMA AsideKeepsRooms ==
  ASSUME RoomsInv, UNCHANGED cvars, UNCHANGED <<name, active_rooms, room>>,
         NeverLoggedOn => NeverLoggedOn'
  PROVE  RoomsInv'
<1>1. UNCHANGED <<keyboard, socket, rooms, answers, lost>>
  BY DEF cvars
<1>2. UNCHANGED ServerView
  BY DEF ServerView, MyRooms, Members
<1>3. EntriesInv' /\ \A x \in Views : Behind(x) => Behind(x)'
  BY <1>1, ElsewhereKeepsRooms DEF RoomsInv
<1>4. Unjoined' /\ Agree'
  BY <1>1, <1>2, <1>3 DEF RoomsInv, Unjoined, Agree, Sound
<1> QED BY <1>3, <1>4 DEF RoomsInv

LEMMA RoomsInitially == SysInit => RoomsInv
<1> SUFFICES ASSUME SysInit PROVE RoomsInv
  OBVIOUS
<1>1. /\ keyboard.at = "logon" /\ socket.at = "none"
      /\ rooms = [i \in Client!RoomIndex |-> None]
  BY DEF SysInit, Client!ClientInit
<1>2. \A i \in Active : rooms[i] = None
  BY <1>1 DEF Client!RoomIndex, Active
<1>3. active_rooms[Me] = NoRooms
  BY MeAssumption DEF SysInit, Init
<1>4. EntriesInv
  BY <1>1, <1>2, EntryKinds DEF EntriesInv, FirstEntry, OnlyNaming, Adding
<1> QED BY <1>1, <1>3, <1>4 DEF RoomsInv, Unjoined, Agree, Sound

LEMMA RoomsKept ==
  ASSUME SysInv, CurrentInv, LogonInv, RoomsInv, [SysNext]_svars
  PROVE  RoomsInv'
<1>1. NeverLoggedOn => NeverLoggedOn'
  BY NeverLoggedOnKept
<1>2. CASE ClientStep(Client!User(Closed))
  BY <1>1, <1>2, LogonKeepsRooms, CommandsKeepRooms DEF ClientStep, Client!User
<1>3. CASE ClientStep(Client!MainThread(Closed))
  BY <1>1, <1>3, LogonKeepsRooms, CommandsKeepRooms
     DEF ClientStep, Client!MainThread
<1>4. CASE ClientStep(Client!SocketThread(Closed))
  BY <1>1, <1>4, SocketKeepsRooms DEF ClientStep
<1>5. CASE ServeMe
  BY <1>5, ServeMeKeepsRooms
<1>6. ASSUME NEW c \in Conn, ServeOther(c) PROVE RoomsInv'
  BY <1>1, <1>6, ServeOtherKeepsRooms
<1>7. CASE Accept
  BY <1>1, <1>7, AsideKeepsRooms DEF Accept, TakeNewConnection
<1>8. CASE UNCHANGED svars
  BY <1>1, <1>8, AsideKeepsRooms DEF svars, vars
<1>9. CASE ServerEnds
  BY <1>1, <1>9, ServerEndsView, AsideKeepsRooms DEF cvars
<1> QED BY <1>2, <1>3, <1>4, <1>5, <1>6, <1>7, <1>8, <1>9 DEF SysNext

(* What RoomsInv says while no answer was dropped or ignored.              *)
LEMMA ListFollows ==
  ASSUME SysInv, RoomsInv, lost = {}, socket.at \in {"recv", "history"}
  PROVE  \/ NeverLoggedOn
         \/ \E v \in Views, x \in Views :
              /\ Shows(rooms, v) /\ Keeps(v, x)
              /\ socket.at = "history" => socket.room \in v.members
              /\ Tells(x, answers, ServerView)
<1>1. keyboard.at \notin {"logon", "wait"}
  BY QueueTypes DEF ClientInv, NoRoomYet
<1>2. Sound
  BY <1>1 DEF Sound
<1>3. SUFFICES ASSUME ~NeverLoggedOn PROVE
        \E v \in Views, x \in Views :
          /\ Shows(rooms, v) /\ Keeps(v, x)
          /\ socket.at = "history" => socket.room \in v.members
          /\ Tells(x, answers, ServerView)
  OBVIOUS
<1>4. PICK x \in Views : Behind(x) /\ Tells(x, answers, ServerView)
  BY <1>2, <1>3 DEF RoomsInv, Agree
<1>5. PICK v \in Views : Shows(rooms, v) /\ Doing(v, x)
  BY <1>4 DEF Behind
<1>6. ~Adding /\ socket.at # "remove"
  BY DEF Adding
<1>7. Keeps(v, x) /\ (socket.at = "history" => socket.room \in v.members)
  BY <1>5, <1>6 DEF Doing
<1> QED BY <1>4, <1>5, <1>7

LEMMA SettledShows ==
  ASSUME SysInv, RoomsInv, Settled, lost = {}, ~NeverLoggedOn
  PROVE  Shows(rooms, ServerView)
<1>1. socket.at = "recv" /\ answers = <<>>
  BY DEF Settled
<1>2. PICK v \in Views, x \in Views :
        Shows(rooms, v) /\ Keeps(v, x) /\ Tells(x, answers, ServerView)
  BY <1>1, ListFollows
<1>3. x = ServerView
  BY <1>1, <1>2, NoneTells
<1> QED BY <1>2, <1>3, ShowsLess

LEMMA MatchedCount ==
  ASSUME EntriesInv, rooms \in Lists, Matched(rooms, active_rooms[Me]),
         NEW r \in AnyRoom \ {Void}
  PROVE  Cardinality(ShownAs(r)) <= Cardinality(Entries(r))
<1>0. /\ IsFiniteSet(Entries(r)) /\ Cardinality(Entries(r)) \in Nat
      /\ r # None /\ r # Freed
  <2>1. Entries(r) \subseteq Active /\ IsFiniteSet(Active)
    BY ActiveFinite DEF Entries
  <2>2. IsFiniteSet(Entries(r))
    BY <2>1, FS_Subset
  <2> QED BY <2>2, FS_CardinalityType, EntryKinds
<1>1. CASE rooms[0] = Void
  <2>1. ShownAs(r) = {}
    BY <1>0, <1>1 DEF EntriesInv, FirstEntry, Alone, ShownAs
  <2>2. Cardinality(ShownAs(r)) = 0
    BY <2>1, FS_EmptySet
  <2> QED BY <1>0, <2>2
<1>2. CASE rooms[0] # Void
  <2>1. ShownAs(r) \subseteq RealEntries(rooms)
    BY <1>2 DEF ShownAs, RealEntries
  <2>2. PICK f \in [RealEntries(rooms) -> Active] :
          Matches(rooms, active_rooms[Me], f)
    BY DEF Matched
  <2> DEFINE g == [i \in ShownAs(r) |-> f[i]]
  <2>3. \A i \in ShownAs(r) : f[i] \in Entries(r)
    BY <2>1, <2>2 DEF Matches, ShownAs, Entries
  <2>4. \A i, j \in ShownAs(r) : f[i] = f[j] => i = j
    BY <2>1, <2>2 DEF Matches
  <2>5. g \in [ShownAs(r) -> Entries(r)]
    BY <2>3
  <2>6. \A i, j \in ShownAs(r) : g[i] = g[j] => i = j
    BY <2>4
  <2> HIDE DEF g
  <2>7. g \in Injection(ShownAs(r), Entries(r))
    BY <2>5, <2>6 DEF Injection, IsInjective
  <2> QED BY <1>0, <2>7, FS_Injection
<1> QED BY <1>1, <1>2

(* The list of rooms is kept by the socket thread out of the answers, the  *)
(* server's by its handlers; the three theorems compare the two.           *)
LEMMA RoomsInvariance == SysSpec => [](SysInv /\ RoomsInv)
<1>1. SysInit => CurrentInv /\ LogonInv /\ RoomsInv
  BY CurrentInitially, LogonInitially, RoomsInitially
<1>2. SysInv /\ CurrentInv /\ LogonInv /\ RoomsInv /\ [SysNext]_svars
        => CurrentInv' /\ LogonInv' /\ RoomsInv'
  BY CurrentKept, LogonKept, RoomsKept
<1> QED BY <1>1, <1>2, SysInvariance, PTL DEF SysSpec

(* Whenever nothing is under way, the client shows every room that the     *)
(* server has it in, for any number of rooms, of other users and of        *)
(* messages that were under way before, as long as no answer was dropped   *)
(* behind another, no join was answered with the count CR, which the       *)
(* client takes for the end of the message, and no rooms were freed in     *)
(* place.                                                                  *)
THEOREM EveryRoomShown == SysSpec => []ShowsItsRooms
<1>1. SysInv /\ RoomsInv => ShowsItsRooms
  <2> SUFFICES ASSUME SysInv, RoomsInv, Settled, lost = {}, Intact,
                      name[Me] # None, NEW r \in Room \ {Void},
                      name[Me] \in Members(r)
               PROVE  ShownAs(r) # {}
    BY DEF ShowsItsRooms
  <2>1. Shows(rooms, ServerView)
    BY SettledShows DEF NeverLoggedOn
  <2>2. WithoutFreed(rooms) /\ r \in ServerView.members
    BY DEF Intact, WithoutFreed, ServerView, MyRooms
  <2> QED BY <2>1, <2>2 DEF Shows, AllShown, ShownAs
<1> QED BY <1>1, RoomsInvariance, PTL

(* Nor does it show a room more often than the server lists it: each entry *)
(* of the client's list is paired with one of active_rooms that names the  *)
(* same room, whatever was joined, left or refused in which order.         *)
THEOREM NoRoomShownTwice == SysSpec => []NoRoomTooMany
<1>1. SysInv /\ RoomsInv => NoRoomTooMany
  <2> SUFFICES ASSUME SysInv, RoomsInv, Settled, lost = {},
                      NEW r \in AnyRoom \ {Void}
               PROVE  Cardinality(ShownAs(r)) <= Cardinality(Entries(r))
    BY DEF NoRoomTooMany
  <2>1. EntriesInv /\ rooms \in Lists
    BY QueueTypes DEF RoomsInv, ClientInv, SysTypeOK, Lists
  <2>2. Matched(rooms, active_rooms[Me])
    <3>1. CASE NeverLoggedOn
      <4>1. RealEntries(rooms) = {}
        BY <3>1, EntryKinds DEF NeverLoggedOn, NoneShown, RealEntries
      <4> QED BY <4>1, NothingMatched
    <3>2. CASE ~NeverLoggedOn
      BY <3>2, SettledShows DEF Shows, ServerView
    <3> QED BY <3>1, <3>2
  <2> QED BY <2>1, <2>2, MatchedCount
<1> QED BY <1>1, RoomsInvariance, PTL

(* A message is handled by the client while its room is in the list: a     *)
(* room is joined and left in the order of the answers, and the server     *)
(* sends no message of a room to a client that is not in it.  After an     *)
(* answer was dropped, or a join ignored that counted CR users, messages   *)
(* may come for a room that is not in the list; the theorem excludes both. *)
THEOREM MessagesFindRooms == SysSpec => []MessageFindsItsRoom
<1>1. SysInv /\ RoomsInv => MessageFindsItsRoom
  <2> SUFFICES ASSUME SysInv, RoomsInv, socket.at = "history", lost = {},
                      Intact, socket.room # Void
               PROVE  ShownAs(socket.room) # {}
    BY DEF MessageFindsItsRoom
  <2>1. PICK v \in Views : Shows(rooms, v) /\ socket.room \in v.members
    BY ListFollows DEF NeverLoggedOn
  <2>2. WithoutFreed(rooms)
    BY DEF Intact, WithoutFreed
  <2> QED BY <2>1, <2>2 DEF Shows, AllShown, ShownAs
<1> QED BY <1>1, RoomsInvariance, PTL
=============================================================================
