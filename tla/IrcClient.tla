----------------------------- MODULE IrcClient -----------------------------
(***************************************************************************)
(* One client program: client/src/irc_client.c with the room list of       *)
(* client.c.  Its server is reached over two queues, "requests" and        *)
(* "answers"; ChatSystem puts IrcServer at their other end.                *)
(*                                                                         *)
(* Two threads share the list of rooms and the index of the current one,   *)
(* without a lock.  The keyboard thread executes what the user types, the  *)
(* socket thread what the server sends.  A step reads or writes the shared *)
(* variables at one place of the code.  Only the socket thread changes     *)
(* rooms and room_count; both change current_r.                            *)
(*                                                                         *)
(* The code looks at the name of a room through two pointers.  An entry of *)
(* rooms is the name, or None for the NULL pointer, Unnamed for a room     *)
(* that is allocated and has no name yet, Freed for a room that was freed  *)
(* while its pointer stayed.  Reading a name through one of these gives    *)
(* Segv, and through Freed possibly Garbage instead.                       *)
(***************************************************************************)
EXTENDS RoomOps, Sequences, SequencesExt

CONSTANTS
  Name,      \* names users choose
  AnyRoom,   \* room names
  RoomMax,   \* R_ROOM_MAX: entries of rooms
  Void,      \* R_DFLT_ROOM, the room name shown to a client in no room
  Garbage,   \* what the memory of a freed name reads as
  Unnamed, Freed, Segv,
  CR,        \* '\r', the byte that ends a message
  Line,      \* the lines a user may type, of the form of AnyLine
  FlightMax, \* bound: messages under way when the user types a line
  LastCmds   \* bound: what the user still types after a message was lost

VARIABLES
  proc,       \* "running", "exited", "crashed" or "killed" (SIGPIPE)
  keyboard,   \* where the main thread is, with its local variables
  socket,     \* where the thread irc_handle_server_requests is
  rooms,      \* client->rooms
  current_r,  \* client->current_r
  room_count, \* client->room_count
  g_serv_crashed,
  requests,   \* sent to the server and not received yet
  answers,    \* sent by the server and not received yet
  lost        \* of "requests" and "answers", those that were ever dropped,
              \* and "join" if a granted join was ever ignored

shared == <<rooms, current_r, room_count>>
queues == <<requests, answers, lost>>
cvars  == <<proc, keyboard, socket, shared, g_serv_crashed, queues>>

RoomIndex == 0 .. RoomMax - 1

(* What a line asks for; without a room it is about the current one.       *)
(* "other" stands for a command the client does not know, "unread" for a   *)
(* line longer than the buffer, or the end of the input, instead of which  *)
(* irc_get_user_input returns NULL.                                        *)
AnyLine ==
  [cmd : {"chat", "other", "leave", "users", "exit", "unread"}, room : {None}]
    \cup [cmd : {"join", "leave", "users", "msg", "show"}, room : AnyRoom]

Req(type, r) == [type |-> type, room |-> r]

-----------------------------------------------------------------------------
(* Reading shared data.                                                    *)

(* What comes of following the pointer to a room.                          *)
Deref(e) == CASE e = None  -> {Segv}
              [] e = Freed -> {Segv, Garbage}
              [] OTHER     -> {e}

(* What comes of reading the room's name.                                  *)
NameOf(e) == IF e = Unnamed THEN {Segv} ELSE Deref(e)

(* The loops that look for a room by its name: the index of the first room *)
(* of that name, RoomMax without one, Segv when they meet an entry they    *)
(* cannot read.  All but cli_add_to_room_history skip the NULL entries.    *)
Find(r, skipped) ==
  LET end == Least({i \in RoomIndex : rooms[i] = r} \cup {RoomMax})
      met == UNION {NameOf(rooms[i]) :
                      i \in {j \in 0 .. end - 1 : rooms[j] \notin skipped}}
      sure == \E i \in 0 .. end - 1 :
                rooms[i] \in {None, Unnamed} \ skipped
  IN (IF sure THEN {} ELSE {end}) \cup (met \cap {Segv})

-----------------------------------------------------------------------------
(* The keyboard thread.                                                    *)

KeyboardAt(p) == proc = "running" /\ keyboard.at = p

Keyboard(p) == keyboard' = [keyboard EXCEPT !.at = p]

NextLine == keyboard' = [at |-> "read", line |-> None, i |-> 0, room |-> None]

(* send(): a connection the server has closed may raise SIGPIPE.           *)
Send(req, closed) ==
  /\ proc' \in IF closed THEN {"running", "killed"} ELSE {"running"}
  /\ requests' = IF closed THEN requests ELSE Append(requests, req)
  /\ UNCHANGED <<answers, lost>>

(* irc_logon_client: a name is sent and its answer awaited.                *)
EnterName(n, closed) ==
  /\ KeyboardAt("logon")
  /\ Keyboard("wait")
  /\ Send(Req("LOGON", n), closed)
  /\ UNCHANGED <<socket, shared, g_serv_crashed>>

(* A name that is empty or one too long is not sent, and the test at the   *)
(* end of the loop is on the result of an earlier try.  In the first turn  *)
(* that variable is uninitialised: the loop may be left without a logon.   *)
EnterBadName ==
  /\ KeyboardAt("logon")
  /\ keyboard.line = None
  /\ NextLine
  /\ socket' = [socket EXCEPT !.at = "recv"]
  /\ UNCHANGED <<proc, shared, g_serv_crashed, queues>>

\* Variant: the answer to the logon is not looked at.
LogonUnchecked(closed) ==
  /\ KeyboardAt("wait")
  /\ answers # <<>> \/ closed
  /\ answers' = <<>>
  /\ rooms' = [rooms EXCEPT ![0] = Void]
  /\ room_count' = 1
  /\ current_r' = 0
  /\ NextLine
  /\ socket' = [socket EXCEPT !.at = "recv"]
  /\ UNCHANGED <<proc, g_serv_crashed, requests, lost>>

(* com_get_logon_result: granted, the client is in the void and the socket *)
(* thread starts; refused, or the connection closed, it asks again.        *)
GetLogonResult(closed) ==
  /\ KeyboardAt("wait")
  /\ answers # <<>> \/ closed
  /\ answers' = <<>>
  /\ IF answers # <<>> /\ Head(answers).res
     THEN /\ rooms' = [rooms EXCEPT ![0] = Void]
          /\ room_count' = 1
          /\ current_r' = 0
          /\ NextLine
          /\ socket' = [socket EXCEPT !.at = "recv"]
     ELSE /\ keyboard' = [keyboard EXCEPT !.at = "logon", !.line = "FAILURE"]
          /\ UNCHANGED <<socket, shared>>
  /\ UNCHANGED <<proc, g_serv_crashed, requests, lost>>

(* What is not read as a line ends the program here (errExit).             *)
ReadNoName ==
  /\ KeyboardAt("logon")
  /\ proc' = "exited"
  /\ UNCHANGED <<keyboard, socket, shared, g_serv_crashed, queues>>

(* Is the pointer to the current room's name ever used?                    *)
UsesCurrent(line) == line.room = None /\ line.cmd # "exit"

(* A line is read, g_serv_crashed looked at, and the pointer to the        *)
(* current room's name taken, whatever the line is; then the first         *)
(* character of the line is read, also of one that is NULL.                *)
RoomOfLine(line) ==
  IF line.cmd = "unread" THEN {Segv} ELSE Deref(rooms[current_r])

ReadLine(line) ==
  /\ KeyboardAt("read")
  /\ Len(requests) + Len(answers) <= FlightMax
  /\ lost = {} \/ line.cmd \in LastCmds
  /\ IF g_serv_crashed
     THEN Keyboard("join thread") /\ UNCHANGED proc
     ELSE \E e \in RoomOfLine(line) :
            IF e = Segv THEN proc' = "crashed" /\ UNCHANGED keyboard
            ELSE /\ keyboard' = [at |-> line.cmd, line |-> line.room,
                                 i |-> IF UsesCurrent(line) THEN current_r ELSE 0,
                                 room |-> IF UsesCurrent(line) THEN e ELSE None]
                 /\ UNCHANGED proc
  /\ UNCHANGED <<socket, shared, g_serv_crashed, queues>>

(* A line that is no command goes to the current room, unless the first    *)
(* entry is the void; an unknown command only if it is the void.           *)
TestVoid ==
  /\ KeyboardAt("chat") \/ KeyboardAt("other")
  /\ \E e \in NameOf(rooms[0]) :
       IF e = Segv THEN proc' = "crashed" /\ UNCHANGED keyboard
       ELSE /\ IF (e = Void) = (keyboard.at = "chat") THEN NextLine
               ELSE Keyboard("send chat")
            /\ UNCHANGED proc
  /\ UNCHANGED <<socket, shared, g_serv_crashed, queues>>

(* /msg: the room must be one of the client's.                             *)
FindMsgRoom ==
  /\ KeyboardAt("msg")
  /\ \E k \in Find(keyboard.line, {None}) :
       CASE k = Segv    -> proc' = "crashed" /\ UNCHANGED keyboard
         [] k = RoomMax -> NextLine /\ UNCHANGED proc
         [] OTHER       -> /\ keyboard' = [keyboard EXCEPT !.at = "send chat"]
                           /\ UNCHANGED proc
  /\ UNCHANGED <<socket, shared, g_serv_crashed, queues>>

RequestType ==
  CASE keyboard.at = "send chat" -> "MSG"
    [] keyboard.at = "join"      -> "JOIN"
    [] keyboard.at = "leave"     -> "LEAVE"
    [] keyboard.at = "users"     -> "RUL"

(* The name sent with a request: the one typed, or that of the room that   *)
(* was current when the line was read, whose memory the socket thread may  *)
(* have freed since.                                                       *)
NamesSent ==
  IF keyboard.line # None THEN {keyboard.line}
  ELSE IF keyboard.room = Unnamed THEN {Segv}
  ELSE IF rooms[keyboard.i] = keyboard.room THEN {keyboard.room}
  ELSE {keyboard.room, Garbage}

SendRequest(closed) ==
  /\ \/ KeyboardAt("send chat") \/ KeyboardAt("join")
     \/ KeyboardAt("leave") \/ KeyboardAt("users")
  /\ \E r \in NamesSent :
       IF r = Segv THEN proc' = "crashed" /\ UNCHANGED <<keyboard, queues>>
       ELSE NextLine /\ Send(Req(RequestType, r), closed)
  /\ UNCHANGED <<socket, shared, g_serv_crashed>>

(* /show: cli_switch_active_room finds the room and sets current_r;        *)
(* cli_switch_current_room then displays the current room.                 *)
FindShownRoom ==
  /\ KeyboardAt("show")
  /\ \E k \in Find(keyboard.line, {None}) :
       CASE k = Segv    -> proc' = "crashed" /\ UNCHANGED keyboard
         [] k = RoomMax -> NextLine /\ UNCHANGED proc
         [] OTHER       -> /\ keyboard' = [keyboard EXCEPT !.at = "switch",
                                                           !.i = k]
                           /\ UNCHANGED proc
  /\ UNCHANGED <<socket, shared, g_serv_crashed, queues>>

SwitchRoom ==
  /\ KeyboardAt("switch")
  /\ current_r' = keyboard.i
  /\ Keyboard("display")
  /\ UNCHANGED <<proc, socket, rooms, room_count, g_serv_crashed, queues>>

DisplayRoom ==
  /\ KeyboardAt("display")
  /\ \E e \in Deref(rooms[current_r]) :
       IF e = Segv THEN proc' = "crashed" /\ UNCHANGED keyboard
       ELSE NextLine /\ UNCHANGED proc
  /\ UNCHANGED <<socket, shared, g_serv_crashed, queues>>

(* /exit is sent and ends the loop; then the other thread is waited for.   *)
SendExit(closed) ==
  /\ KeyboardAt("exit")
  /\ Send(Req("EXIT", None), closed)
  /\ Keyboard("join thread")
  /\ UNCHANGED <<socket, shared, g_serv_crashed>>

JoinThread ==
  /\ KeyboardAt("join thread")
  /\ socket.at = "ended"
  /\ proc' = "exited"
  /\ UNCHANGED <<keyboard, socket, shared, g_serv_crashed, queues>>

-----------------------------------------------------------------------------
(* The socket thread.                                                      *)

SocketAt(p) == proc = "running" /\ socket.at = p

Socket(p) == socket' = [socket EXCEPT !.at = p]

Receive == socket' = [at |-> "recv", room |-> None, next |-> "recv", i |-> 0]

\* Variant: an empty read is not the end of the thread.
RecvIgnoringEnd(closed) ==
  /\ SocketAt("recv")
  /\ answers = <<>> /\ closed
  /\ g_serv_crashed' = TRUE
  /\ UNCHANGED <<proc, keyboard, socket, shared, queues>>

(* irc_handle_server_requests: one recv() takes any number of the messages *)
(* that have arrived, the first of them is parsed, the rest forgotten.  An *)
(* empty read means that the server has gone.                              *)
RecvEnd(closed) ==
  /\ SocketAt("recv")
  /\ answers = <<>> /\ closed
  /\ g_serv_crashed' = TRUE
  /\ Socket("ended")
  /\ UNCHANGED <<proc, keyboard, shared, queues>>

(* com_parse_server_msg takes the byte CR for the end of the message, also *)
(* where it is a count of users; no payload is left, and the message is    *)
(* ignored.                                                                *)
Misread(msg) == msg.type = "JOIN" /\ msg.num = CR

\* Variant: the result of RC_LEAVE is read the wrong way round.
HandlerInverted(msg) ==
  CASE msg.type = "EXIT"             -> "ended"
    [] msg.type = "MSG"              -> "message"
    [] msg.type = "JOIN" /\ msg.res /\ ~Misread(msg) -> "joined"
    [] msg.type = "LEAVE" /\ ~msg.res -> "remove"
    [] OTHER                         -> "recv"

(* What a message makes the thread do; of a refused request, nothing.      *)
Handler(msg) ==
  CASE msg.type = "EXIT"  -> "ended"
    [] msg.type = "MSG"   -> "message"
    [] msg.type = "JOIN" /\ msg.res /\ ~Misread(msg) -> "joined"
    [] msg.type = "LEAVE" /\ msg.res -> "remove"
    [] OTHER              -> "recv"

Recv ==
  /\ SocketAt("recv")
  /\ \E k \in 1 .. Len(answers) :
       /\ answers' = SubSeq(answers, k + 1, Len(answers))
       /\ lost' = lost \cup (IF k > 1 THEN {"answers"} ELSE {})
                       \cup (IF Misread(Head(answers)) THEN {"join"} ELSE {})
  /\ LET msg == Head(answers) IN
       IF Handler(msg) = "recv" THEN Receive
       ELSE socket' = [at |-> Handler(msg), room |-> msg.room, i |-> 0,
                       next |-> IF msg.type = "LEAVE" THEN "all left?"
                                                      ELSE "recv"]
  /\ UNCHANGED <<proc, keyboard, shared, g_serv_crashed, requests>>

(* RC_MSG: nothing is done with it in the void.                            *)
TestCurrentRoom ==
  /\ SocketAt("message")
  /\ \E e \in NameOf(rooms[current_r]) :
       IF e = Segv THEN proc' = "crashed" /\ UNCHANGED socket
       ELSE /\ IF e = Void THEN Receive ELSE Socket("history")
            /\ UNCHANGED proc
  /\ UNCHANGED <<keyboard, shared, g_serv_crashed, queues>>

(* The current room is looked at once more, whether to print the message;  *)
(* the loop of cli_add_to_room_history meets NULL entries, too.            *)
AddToRoomHistory ==
  /\ SocketAt("history")
  /\ \E k \in Find(socket.room, {}), e \in NameOf(rooms[current_r]) :
       IF Segv \in {k, e} THEN proc' = "crashed" /\ UNCHANGED socket
                          ELSE Receive /\ UNCHANGED proc
  /\ UNCHANGED <<keyboard, shared, g_serv_crashed, queues>>

(* RC_JOIN: the void is removed first, if that is where the client is.     *)
TestFirstRoom ==
  /\ SocketAt("joined")
  /\ \E e \in NameOf(rooms[0]) :
       IF e = Segv THEN proc' = "crashed" /\ UNCHANGED socket
       ELSE /\ IF e = Void
               THEN socket' = [socket EXCEPT !.at = "remove", !.next = "add"]
               ELSE Socket("add")
            /\ UNCHANGED proc
  /\ UNCHANGED <<keyboard, shared, g_serv_crashed, queues>>

(* What an answer takes away: the room named, or the void before a join.   *)
RemovedName == IF socket.next = "add" THEN Void ELSE socket.room

\* Variant: the counter is left alone.
RemoveUncounted ==
  /\ SocketAt("remove")
  /\ \E k \in Find(RemovedName, {None}) :
       CASE k = Segv    -> /\ proc' = "crashed"
                           /\ UNCHANGED <<socket, shared>>
         [] k = RoomMax -> /\ IF socket.next = "add" THEN Socket("add")
                                                    ELSE Receive
                           /\ UNCHANGED <<proc, shared>>
         [] OTHER       -> /\ rooms' = [rooms EXCEPT ![k] = None]
                           /\ socket' = [socket EXCEPT !.at = "current?",
                                                       !.i = k]
                           /\ UNCHANGED <<proc, current_r, room_count>>
  /\ UNCHANGED <<keyboard, g_serv_crashed, queues>>

\* Variant: the current room is removed instead of the one of the name.
RemoveCurrent ==
  /\ SocketAt("remove")
  /\ rooms' = [rooms EXCEPT ![current_r] = None]
  /\ room_count' = room_count - 1
  /\ socket' = [socket EXCEPT !.at = "current?", !.i = current_r]
  /\ UNCHANGED <<proc, keyboard, current_r, g_serv_crashed, queues>>

(* cli_remove_active_room: the first room of the name is freed, and if it  *)
(* was the current one, the first that is left becomes current.  A name    *)
(* not found ends RC_LEAVE, but not RC_JOIN.                               *)
RemoveActiveRoom ==
  /\ SocketAt("remove")
  /\ \E k \in Find(RemovedName, {None}) :
       CASE k = Segv    -> /\ proc' = "crashed"
                           /\ UNCHANGED <<socket, shared>>
         [] k = RoomMax -> /\ IF socket.next = "add" THEN Socket("add")
                                                    ELSE Receive
                           /\ UNCHANGED <<proc, shared>>
         [] OTHER       -> /\ rooms' = [rooms EXCEPT ![k] = None]
                           /\ room_count' = room_count - 1
                           /\ socket' = [socket EXCEPT !.at = "current?",
                                                       !.i = k]
                           /\ UNCHANGED <<proc, current_r>>
  /\ UNCHANGED <<keyboard, g_serv_crashed, queues>>

Shown == {i \in RoomIndex : rooms[i] # None}

\* Variant: the next room becomes current, whether there is one or not.
WasCurrentNext ==
  /\ SocketAt("current?")
  /\ Socket(socket.next)
  /\ current_r' = IF current_r = socket.i THEN current_r + 1 ELSE current_r
  /\ UNCHANGED <<proc, keyboard, rooms, room_count, g_serv_crashed, queues>>

\* Variant: the removed room stays current.
WasCurrentKept ==
  /\ SocketAt("current?")
  /\ Socket(socket.next)
  /\ UNCHANGED <<proc, keyboard, shared, g_serv_crashed, queues>>

WasCurrent ==
  /\ SocketAt("current?")
  /\ IF current_r = socket.i /\ Shown # {}
     THEN /\ socket' = [socket EXCEPT !.at = "switch", !.i = Least(Shown)]
          /\ UNCHANGED current_r
     ELSE /\ Socket(socket.next)
          /\ current_r' = IF current_r = socket.i THEN 0 ELSE current_r
  /\ UNCHANGED <<proc, keyboard, rooms, room_count, g_serv_crashed, queues>>

SwitchToFirst ==
  /\ SocketAt("switch")
  /\ current_r' = socket.i
  /\ Socket("display")
  /\ UNCHANGED <<proc, keyboard, rooms, room_count, g_serv_crashed, queues>>

DisplayFirst ==
  /\ SocketAt("display")
  /\ \E e \in Deref(rooms[current_r]) :
       IF e = Segv THEN proc' = "crashed" /\ UNCHANGED socket
                   ELSE Socket(socket.next) /\ UNCHANGED proc
  /\ UNCHANGED <<keyboard, shared, g_serv_crashed, queues>>

\* Variant: always the first entry.
AddAtFirst ==
  /\ SocketAt("add")
  /\ rooms' = [rooms EXCEPT ![0] = Unnamed]
  /\ socket' = [socket EXCEPT !.at = "name", !.i = 0]
  /\ UNCHANGED <<proc, keyboard, current_r, room_count, g_serv_crashed, queues>>

(* cli_add_active_room takes the first NULL entry; the name comes after    *)
(* the room, and the room is current at last.                              *)
AddActiveRoom ==
  /\ SocketAt("add")
  /\ LET free == RoomIndex \ Shown IN
       IF free = {} THEN Receive /\ UNCHANGED rooms
       ELSE /\ rooms' = [rooms EXCEPT ![Least(free)] = Unnamed]
            /\ socket' = [socket EXCEPT !.at = "name", !.i = Least(free)]
  /\ UNCHANGED <<proc, keyboard, current_r, room_count, g_serv_crashed, queues>>

NameRoom ==
  /\ SocketAt("name")
  /\ rooms' = [rooms EXCEPT ![socket.i] = socket.room]
  /\ Socket("make current")
  /\ UNCHANGED <<proc, keyboard, current_r, room_count, g_serv_crashed, queues>>

MakeCurrent ==
  /\ SocketAt("make current")
  /\ current_r' = socket.i
  /\ room_count' = room_count + 1
  /\ Receive
  /\ UNCHANGED <<proc, keyboard, rooms, g_serv_crashed, queues>>

(* RC_LEAVE at last: with the first entry current and NULL, all rooms are  *)
(* taken to be left, and the client goes to the void.                      *)
TestAllLeft ==
  /\ SocketAt("all left?")
  /\ IF current_r = 0 /\ rooms[0] = None THEN Socket("free rooms") ELSE Receive
  /\ UNCHANGED <<proc, keyboard, shared, g_serv_crashed, queues>>

(* cli_goto_default_room: whatever rooms there are get freed, in place.    *)
FreeRooms ==
  /\ SocketAt("free rooms")
  /\ rooms' = [i \in RoomIndex |-> IF i = 0 THEN Unnamed
                                   ELSE IF rooms[i] = None THEN None
                                   ELSE Freed]
  /\ Socket("default room")
  /\ UNCHANGED <<proc, keyboard, current_r, room_count, g_serv_crashed, queues>>

GotoDefaultRoom ==
  /\ SocketAt("default room")
  /\ rooms' = [rooms EXCEPT ![0] = Void]
  /\ room_count' = 1
  /\ current_r' = 0
  /\ Receive
  /\ UNCHANGED <<proc, keyboard, g_serv_crashed, queues>>

-----------------------------------------------------------------------------
ClientInit ==
  /\ proc = "running"
  /\ keyboard = [at |-> "logon", line |-> None, i |-> 0, room |-> None]
  /\ socket = [at |-> "none", room |-> None, next |-> "recv", i |-> 0]
  /\ rooms = [i \in RoomIndex |-> None]
  /\ current_r = 0
  /\ room_count = 0
  /\ g_serv_crashed = FALSE
  /\ requests = <<>>
  /\ answers = <<>>
  /\ lost = {}

(* What the user decides, what the main thread then does, and what the     *)
(* socket thread does.                                                     *)
User(closed) ==
  \/ \E n \in Name : EnterName(n, closed)
  \/ EnterBadName
  \/ ReadNoName
  \/ \E line \in Line : ReadLine(line)

MainThread(closed) ==
  \/ GetLogonResult(closed)
  \/ TestVoid
  \/ FindMsgRoom
  \/ SendRequest(closed)
  \/ FindShownRoom
  \/ SwitchRoom
  \/ DisplayRoom
  \/ SendExit(closed)
  \/ JoinThread

SocketThread(closed) ==
  \/ RecvEnd(closed)
  \/ Recv
  \/ TestCurrentRoom
  \/ AddToRoomHistory
  \/ TestFirstRoom
  \/ RemoveActiveRoom
  \/ WasCurrent
  \/ SwitchToFirst
  \/ DisplayFirst
  \/ AddActiveRoom
  \/ NameRoom
  \/ MakeCurrent
  \/ TestAllLeft
  \/ FreeRooms
  \/ GotoDefaultRoom
=============================================================================
