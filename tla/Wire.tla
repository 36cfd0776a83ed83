-------------------------------- MODULE Wire --------------------------------
(***************************************************************************)
(* How messages are laid out, sent and read: client/src/comm.c,            *)
(* server/src/comm.c, and what the handlers of irc_client.c and            *)
(* irc_server.c take from a message that was parsed.                       *)
(*                                                                         *)
(* Messages are strings of bytes, one behind the other in a TCP stream.    *)
(* Neither side looks for the end of a message before it reads: one recv() *)
(* takes up to IoBuff bytes, the message at their beginning is executed    *)
(* and the rest forgotten.  A carriage return ends a message.              *)
(*                                                                         *)
(* One direction of one connection is modelled.  "reader" tells which:     *)
(* "server", "client" (the socket thread) or "logon" (the client's main    *)
(* thread while it waits for the answer to its logon).                     *)
(*                                                                         *)
(* Sequences start from 1 where the code's arrays start from 0.            *)
(***************************************************************************)
EXTENDS Integers, Sequences, SequencesExt, FiniteSetsExt

CONSTANTS
  Name, Room, Text, \* strings, as sequences of bytes without NUL and CR
  RoomNameMax,      \* _R_NAME_LEN_MAX, the NUL included
  UsrMax,           \* _R_USR_MAX
  EINVAL,           \* what room_add_user returns when the name is too long
  IoBuff,           \* _COM_IO_BUFF, the bytes one recv() may take
  WaitingMax        \* bound: messages sent and not yet taken

VARIABLES
  reader,  \* who reads this direction
  waiting, \* messages sent and not wholly taken, oldest first
  taken,   \* how many bytes of the oldest one have been taken already
  read,    \* what the last recv() made the reader execute
  due      \* the message it should have read

vars == <<reader, waiting, taken, read, due>>

NUL == 0
CR  == 13 \* '\r'

Char == (1 .. 255) \ {CR}

(* The client takes no empty user name, "/join " no empty room, and every  *)
(* name and text is read from a line as a C string.                        *)
ASSUME StringsAssumption ==
  /\ \A s \in Name \cup Room : s \in Seq(Char) /\ s # <<>>
  /\ \A s \in Text : s \in Seq(Char)

ASSUME SizesAssumption ==
  /\ RoomNameMax \in Nat /\ UsrMax \in Nat /\ IoBuff \in Nat /\ WaitingMax \in Nat
  /\ EINVAL \in Nat \ {NUL, CR}

RC_JOIN  == 7
RC_EXIT  == 8
RC_LOGON == 17
RC_LEAVE == 21
RC_MSG   == 22
RC_RUL   == 23

Str(s) == Append(s, NUL)

-----------------------------------------------------------------------------
(* Messages.  A text may be empty, and so may the room of a "/room ul ";   *)
(* com_join_leave_send refuses an empty one, and the other names are never *)
(* empty.                                                                  *)
TooLong(r) == Len(r) + 1 > RoomNameMax
Existing   == {r \in Room : ~TooLong(r)}

Request ==
  [type : {RC_LOGON, RC_EXIT}, name : Name]
    \cup [type : {RC_JOIN, RC_LEAVE}, name : Name, room : Room]
    \cup [type : {RC_RUL}, name : Name, room : Room \cup {<<>>}]
    \cup [type : {RC_MSG}, name : Name, room : Room, text : Text]

LogonAnswer == [type : {RC_LOGON}, res : {0, 1}]

(* The last message of a user listing has no name: the empty one here.     *)
Answer ==
  [type : {RC_EXIT}]
    \cup [type : {RC_JOIN}, num : 1 .. UsrMax, room : Existing, res : {1}]
    \cup [type : {RC_JOIN}, num : {EINVAL}, room : Room \ Existing, res : {1}]
    \cup [type : {RC_JOIN}, num : {0}, room : Room, res : {0}]
    \cup [type : {RC_LEAVE}, room : Existing, res : {1}]
    \cup [type : {RC_LEAVE}, room : Room, res : {0}]
    \cup [type : {RC_MSG}, room : Existing, name : Name, text : Text]
    \cup [type : {RC_RUL}, name : Name \cup {<<>>}]

Message == CASE reader = "server" -> Request
             [] reader = "logon"  -> LogonAnswer
             [] reader = "client" -> Answer

\* Variant: the strings are copied without the NUL behind them.
RequestBytesPacked(m) ==
  Str(m.name) \o <<m.type>>
    \o (IF m.type \in {RC_LOGON, RC_EXIT} THEN <<>> ELSE m.room)
    \o (IF m.type = RC_MSG THEN m.text ELSE <<>>)
    \o <<CR>>

(* com_send_logon_message, com_logout_exit_send, com_join_leave_send,      *)
(* com_send_room_users_message and com_send_chat_message.                  *)
RequestBytes(m) ==
  Str(m.name) \o <<m.type>>
    \o (IF m.type \in {RC_LOGON, RC_EXIT} THEN <<>> ELSE Str(m.room))
    \o (IF m.type = RC_MSG THEN Str(m.text) ELSE <<>>)
    \o <<CR>>

\* Variant: the fields in the order in which irc_server.c:379 gives them.
JoinLeaveBytesMoved(m) ==
  <<m.type>> \o Str(m.room) \o <<m.res>>
    \o (IF m.type = RC_JOIN THEN <<m.num>> ELSE <<>>) \o <<CR>>

(* com_send_join_leave_result.                                             *)
JoinLeaveBytes(m) ==
  <<m.type>> \o (IF m.type = RC_JOIN THEN <<m.num>> ELSE <<>>)
    \o Str(m.room) \o <<m.res, CR>>

AnswerBytes(m) ==
  CASE m.type = RC_LOGON -> <<RC_LOGON, m.res, CR>>
    [] m.type = RC_EXIT  -> <<RC_EXIT, CR>>
    [] m.type = RC_RUL   -> <<RC_RUL>>
                              \o (IF m.name = <<>> THEN <<>> ELSE Str(m.name))
                              \o <<CR>>
    [] m.type = RC_MSG   -> <<RC_MSG>> \o Str(m.room) \o Str(m.name)
                              \o Str(m.text) \o <<CR>>
    [] OTHER             -> JoinLeaveBytes(m)

(* A message fits the buffer: with lines of up to 253 bytes, names of 9 and *)
(* rooms of 20 they take less than the 512 bytes of the code.              *)
ASSUME BufferAssumption ==
  /\ \A m \in Request : Len(RequestBytes(m)) <= IoBuff
  /\ \A m \in Answer \cup LogonAnswer : Len(AnswerBytes(m)) <= IoBuff

Bytes(m) == IF reader = "server" THEN RequestBytes(m) ELSE AnswerBytes(m)

-----------------------------------------------------------------------------
(* Reading.                                                                *)

Nothing == [type |-> -1] \* no recv() since the last send()
Ignored == [type |-> -2]
Overrun == [type |-> -3] \* looks for a carriage return beyond the bytes
Garbled == [type |-> -4] \* begins in the middle of a message

(* The C string that begins at p[i]; the parsers put a NUL behind p.       *)
CString(p, i) ==
  LET end == SelectInSubSeq(p, i, Len(p), LAMBDA b : b = NUL)
  IN SubSeq(p, i, (IF end = 0 THEN Len(p) + 1 ELSE end) - 1)

(* Where the string behind the one at p[i] begins.                         *)
Behind(p, i) == i + Len(CString(p, i)) + 1

HasEnd(rx, i) == \E j \in i .. Len(rx) : rx[j] = CR

\* Variant: the carriage return is looked for from the end.
PayloadToLast(rx, i) ==
  SubSeq(rx, i, SelectLastInSubSeq(rx, i, Len(rx), LAMBDA b : b = CR) - 1)

(* The payload that begins at rx[i], up to the carriage return; an empty   *)
(* one is no payload, the NULL pointer.                                    *)
Payload(rx, i) ==
  SubSeq(rx, i, SelectInSubSeq(rx, i, Len(rx), LAMBDA b : b = CR) - 1)

(* com_get_logon_result.                                                   *)
GetLogonResult(rx) ==
  [type |-> RC_LOGON, res |-> IF rx[1] # RC_LOGON \/ rx[2] = 0 THEN 0 ELSE 1]

(* com_parse_server_msg, and what irc_exec_client_response looks at.  A    *)
(* message whose payload is missing or begins with NUL is ignored.         *)
ClientReads(rx) ==
  LET p == Payload(rx, 2) IN
  IF rx[1] = RC_EXIT THEN [type |-> RC_EXIT]
  ELSE IF ~HasEnd(rx, 2) THEN Overrun
  ELSE IF p = <<>> \/ p[1] = NUL THEN Ignored
  ELSE CASE rx[1] = RC_MSG   -> [type |-> RC_MSG, room |-> CString(p, 1),
                                 name |-> CString(p, Behind(p, 1)),
                                 text |-> CString(p, Behind(p, Behind(p, 1)))]
         [] rx[1] = RC_JOIN  -> [type |-> RC_JOIN, num |-> p[1],
                                 room |-> CString(p, 2), res |-> p[Behind(p, 2)]]
         [] rx[1] = RC_LEAVE -> [type |-> RC_LEAVE, room |-> CString(p, 1),
                                 res |-> p[Behind(p, 1)]]
         [] rx[1] = RC_RUL   -> [type |-> RC_RUL, name |-> CString(p, 1)]

(* com_parse_cli_message, and what the handlers take from the payload:     *)
(* the room is its first string and the text of a message the second.      *)
ServerReads(rx) ==
  LET who  == CString(rx, 1)
      t    == Behind(rx, 1)
      p    == Payload(rx, t + 1)
      room == CString(p, 1)
  IN IF ~HasEnd(rx, t + 1) THEN Overrun
     ELSE CASE rx[t] \in {RC_LOGON, RC_EXIT} -> [type |-> rx[t], name |-> who]
            [] rx[t] \in {RC_JOIN, RC_LEAVE, RC_RUL} ->
                 [type |-> rx[t], name |-> who, room |-> room]
            [] rx[t] = RC_MSG ->
                 IF TooLong(room) THEN Ignored
                 ELSE [type |-> RC_MSG, name |-> who, room |-> room,
                       text |-> CString(p, Behind(p, 1))]

(* What is executed.  From the middle of a message anything may be read,   *)
(* and what, is not modelled.                                              *)
Reads(rx) ==
  IF taken # 0 THEN Garbled
  ELSE CASE reader = "server" -> ServerReads(rx)
         [] reader = "logon"  -> GetLogonResult(rx)
         [] reader = "client" -> ClientReads(rx)

-----------------------------------------------------------------------------
(* Sending and receiving.                                                  *)

(* The bytes of the n oldest messages.                                     *)
Stream(n) == FlattenSeq([k \in 1 .. n |-> Bytes(waiting[k])])

Init ==
  /\ reader \in {"server", "client", "logon"}
  /\ waiting = <<>>
  /\ taken = 0
  /\ read = Nothing
  /\ due = Nothing

(* send(): the message is appended to the stream as a whole.  A client     *)
(* that waits for the answer to its logon sends nothing meanwhile.         *)
Send(m) ==
  /\ Len(waiting) < (IF reader = "logon" THEN 1 ELSE WaitingMax)
  /\ waiting' = Append(waiting, m)
  /\ read' = Nothing
  /\ due' = Nothing
  /\ UNCHANGED <<reader, taken>>

(* recv(), and what is done with the bytes: at most IoBuff of those that   *)
(* have arrived are taken, however many messages that is.                  *)
Recv ==
  /\ waiting # <<>>
  /\ LET stream == Stream(Len(waiting))
         upto   == Min({taken + IoBuff, Len(stream)})
         whole  == Max({k \in 0 .. Len(waiting) : Len(Stream(k)) <= upto})
     IN /\ read' = Reads(SubSeq(stream, taken + 1, upto))
        /\ waiting' = SubSeq(waiting, whole + 1, Len(waiting))
        /\ taken' = upto - Len(Stream(whole))
  /\ due' = Head(waiting)
  /\ UNCHANGED reader

Next == (\E m \in Message : Send(m)) \/ Recv

Spec == Init /\ [][Next]_vars

-----------------------------------------------------------------------------
(* Properties.                                                             *)

(* The type of the state; what is read is a message, or one of the three   *)
(* ways of not reading one.                                                *)
TypeOK ==
  /\ reader \in {"server", "client", "logon"}
  /\ waiting \in Seq(Message)
  /\ due \in Message \cup {Nothing}
  /\ read \in Message \cup {Nothing, Ignored, Overrun, Garbled}
  /\ taken \in 0 .. IoBuff

(* The server executes the request that was sent, with the name, the room  *)
(* and the text that the client put in, whatever has arrived behind it.    *)
(* Only a message to a room whose name is too long is ignored.             *)
RequestsUnderstood ==
  reader = "server" /\ read \notin {Nothing, Garbled} =>
    read = IF due.type = RC_MSG /\ TooLong(due.room) THEN Ignored ELSE due

(* The client executes the answer that was sent, and the last message of a *)
(* user listing, which is empty, does nothing.  Not so all answers to      *)
(* RC_JOIN: see JoinAnswersRead for those that count no user or CR users.  *)
AnswersUnderstood ==
  /\ reader # "server" /\ read \notin {Nothing, Garbled}
  /\ due.type = RC_JOIN => due.num \notin {0, CR}
  => read = IF due.type = RC_RUL /\ due.name = <<>> THEN Ignored ELSE due

-----------------------------------------------------------------------------
(* What a comment says and the program does not do.                        *)

(* irc_client.c:409, "check res to see if server failed to join you": the  *)
(* result of every RC_JOIN comes to be looked at, that of a refused one,   *)
(* of which the user is told, and that of a granted one, whatever number   *)
(* of users the answer counts.                                             *)
JoinAnswersRead ==
  /\ reader = "client" /\ read \notin {Nothing, Garbled}
  /\ due.type = RC_JOIN
  => read = due
=============================================================================
