---------------------------- MODULE ChatSystem ----------------------------
(***************************************************************************)
(* The client program of IrcClient connected to the server of IrcServer.   *)
(* "Me" is the connection of that client.  The other connections are of    *)
(* clients of which nothing but the requests is modelled, as in IrcServer. *)
(*                                                                         *)
(* A request reaches the server when it is handled: irc_handle_cli takes   *)
(* with one recv() all that have arrived, executes the first and forgets   *)
(* the others.  What the handler sends to Me is appended to "answers".     *)
(***************************************************************************)
EXTENDS IrcServer

CONSTANTS
  Me,         \* the client's connection
  Void, Garbage, Unnamed, Freed, Segv, \* see IrcClient
  Nick,       \* names the user may choose
  CR,         \* the byte that ends a message, 13
  Line,       \* lines the user may type
  FlightMax, LastCmds, \* bounds, see IrcClient
  OthersRoom, OthersMax, \* bounds: the rooms that the others use, how many
                         \* entries of active_rooms, and
  OthersFlightMax        \* messages under way when they take a step

VARIABLES
  proc, keyboard, socket, rooms, current_r, room_count, g_serv_crashed,
  requests, answers, lost \* see IrcClient

Client == INSTANCE IrcClient WITH Name <- Nick

cvars == <<proc, keyboard, socket, rooms, current_r, room_count,
           g_serv_crashed, requests, answers, lost>>

ASSUME MeAssumption    == Me \in Conn
ASSUME NamesAssumption == {Void, Garbage} \subseteq AnyRoom
ASSUME TokensAssumption ==
  /\ {Unnamed, Freed, Segv} \cap (AnyRoom \cup {None}) = {}
  /\ Unnamed # Freed
  /\ Segv \notin {Unnamed, Freed} \cup Nat
  /\ None # "FAILURE"
ASSUME OthersAssumption == OthersRoom \subseteq Room
ASSUME NickAssumption  == Nick \subseteq Name
ASSUME CrAssumption    == CR \in Nat \ {0}
ASSUME LineAssumption  == Line \subseteq Client!AnyLine

(* The server process is gone, or has shut this client down: Me leaves the *)
(* client list only by the RC_EXIT that the client sends before it waits.  *)
Closed == ~up \/ (Me \notin Clients /\ keyboard.at = "join thread")

-----------------------------------------------------------------------------
(* The server's sends to Me.  The list of a room's users goes out in one   *)
(* message per user and a last one without a name.                         *)
Answer(r) ==
  [type |-> out'.type, room |-> r, res |-> out'.res, num |-> out'.num]

AnswersSent ==
  IF Me \notin out'.to THEN <<>>
  ELSE IF out'.type = "RUL"
  THEN [i \in 1 .. Cardinality(out'.names) + 1 |-> Answer(out'.room)]
  ELSE <<Answer(out'.room)>>

Handle(q) ==
  \/ q.type = "LOGON" /\ AcceptNewCli(Me, q.room)
  \/ q.type = "JOIN"  /\ \/ JoinRefused(Me, q.room)
                         \/ q.room \in Room /\ JoinRoom(Me, q.room)
                         \/ q.room \in LongRoom /\ JoinLongRoom(Me, q.room)
  \/ q.type = "LEAVE" /\ LeaveRoom(Me, q.room)
  \/ q.type = "MSG"   /\ \/ q.room \in Room /\ \E t \in Text : Message(Me, q.room, t)
                         \/ MessageIgnored(Me, q.room)
  \/ q.type = "RUL"   /\ ListRoomUsers(Me, q.room)
  \/ q.type = "EXIT"  /\ Exit(Me)

(* One recv() of the server on Me.                                         *)
ServeMe ==
  /\ proc = "running"
  /\ requests # <<>>
  /\ Handle(Head(requests))
  /\ \E k \in 1 .. Len(requests) :
       /\ requests' = SubSeq(requests, k + 1, Len(requests))
       /\ lost' = IF k > 1 THEN lost \cup {"requests"} ELSE lost
  /\ answers' = answers \o AnswersSent
  /\ UNCHANGED <<proc, keyboard, socket, rooms, current_r, room_count,
                 g_serv_crashed>>

Accept ==
  /\ TakeNewConnection(Me)
  /\ keyboard.at # "join thread"
  /\ UNCHANGED cvars

(* A step of the server for another client, or of that client.             *)
EntriesUsed(c) == {i \in Active : active_rooms[c][i] # None}

Other(c) ==
  /\ c # Me
  /\ \/ TakeNewConnection(c)
     \/ \E n \in Name : AcceptNewCli(c, n)
     \/ \E r \in OthersRoom : JoinRoom(c, r) /\ Cardinality(EntriesUsed(c)) < OthersMax
     \/ \E r \in OthersRoom : LeaveRoom(c, r)
     \/ \E r \in OthersRoom, t \in Text : Message(c, r, t)
     \/ Exit(c)
     \/ PeerCloses(c)
     \/ DisconnectCrashes(c)
     \/ DisconnectSurvives(c)

(* Bounds: how far the others fill Me's queue, and nothing of them once    *)
(* the server takes no more requests from Me.                              *)
OthersGoOn ==
  /\ Len(requests) + Len(answers) <= OthersFlightMax
  /\ ~Closed
  /\ Me \in Clients => Me \in Range(full_fd_list)

ServeOther(c) ==
  /\ proc = "running"
  /\ OthersGoOn
  /\ Other(c)
  /\ answers' = answers \o AnswersSent
  /\ UNCHANGED <<proc, keyboard, socket, rooms, current_r, room_count,
                 g_serv_crashed, requests, lost>>

(* The server process ends between two handlers.                           *)
ServerEnds ==
  /\ proc = "running"
  /\ HeapCrashes \/ SelectFails
  /\ UNCHANGED cvars

-----------------------------------------------------------------------------
SysInit == Init /\ Client!ClientInit

ClientStep(A) == A /\ UNCHANGED vars

SysNext ==
  \/ ClientStep(Client!User(Closed))
  \/ ClientStep(Client!MainThread(Closed))
  \/ ClientStep(Client!SocketThread(Closed))
  \/ Accept
  \/ ServeMe
  \/ \E c \in Conn : ServeOther(c)
  \/ ServerEnds

svars == <<vars, cvars>>

(* The client's threads run, and the server reads every client in the end  *)
(* (see ServerLoop!EverybodyIsRead).  Nobody has to type.                  *)
Threads == ClientStep(Client!MainThread(Closed) \/ Client!SocketThread(Closed))

Fairness == WF_svars(Threads) /\ WF_svars(ServeMe)

SysSpec == SysInit /\ [][SysNext]_svars /\ Fairness

-----------------------------------------------------------------------------
(* Properties.                                                             *)

RequestType ==
  [type : {"LOGON"}, room : Nick] \cup [type : {"EXIT"}, room : {None}]
    \cup [type : {"JOIN", "LEAVE", "MSG", "RUL"}, room : AnyRoom]

AnswerType ==
  [type : {"LOGON", "EXIT"}, room : {None}, res : BOOLEAN, num : Nat]
    \cup [type : {"JOIN", "LEAVE", "MSG", "RUL"}, room : AnyRoom,
           res : BOOLEAN, num : Nat]

RoomEntry == AnyRoom \cup {None, Unnamed, Freed}

(* The type of the client's state: current_r is an index of rooms, and     *)
(* room_count is not more than there are entries.                          *)
SysTypeOK ==
  /\ proc \in {"running", "exited", "crashed", "killed"}
  /\ rooms \in [Active -> RoomEntry]
  /\ current_r \in Active
  /\ room_count \in 0 .. RoomMax
  /\ g_serv_crashed \in BOOLEAN
  /\ keyboard.i \in Active /\ socket.i \in Active
  /\ requests \in Seq(RequestType)
  /\ answers \in Seq(AnswerType)
  /\ lost \subseteq {"requests", "answers", "join"}

(* Nothing is under way between this client and the server, and neither    *)
(* thread is in the middle of anything.                                    *)
Settled ==
  /\ proc = "running" /\ up
  /\ requests = <<>> /\ answers = <<>>
  /\ socket.at = "recv" /\ keyboard.at \in {"read", "join thread"}

ShownAs(r) == {i \in Active : rooms[i] = r}
Entries(r) == {i \in Active : active_rooms[Me][i] = r}
Intact     == \A i \in Active : rooms[i] # Freed

(* Once all answers are in, the client shows every room that the server    *)
(* has it in, however the user's commands overlapped, unless an answer was *)
(* dropped, a join was answered with a count that reads as the end of the  *)
(* message (the thirteenth user of a room), or cli_goto_default_room has   *)
(* run over rooms still in use.  Not so a room of the void's name: nothing *)
(* keeps the user from joining one, and the client takes its entry for     *)
(* that of the void.                                                       *)
ShowsItsRooms ==
  Settled /\ lost = {} /\ Intact /\ name[Me] # None =>
    \A r \in Room \ {Void} : name[Me] \in Members(r) => ShownAs(r) # {}

(* Nor does the client show a room more often than the server lists it in  *)
(* active_rooms; else the server would admit it to more rooms than the     *)
(* client has entries for (irc_client.c:424).                              *)
NoRoomTooMany ==
  Settled /\ lost = {} =>
    \A r \in AnyRoom \ {Void} :
      Cardinality(ShownAs(r)) <= Cardinality(Entries(r))

(* A message is only handled by the client while the room is in its list,  *)
(* as answers and messages come in the order in which the server made them *)
(* (irc_client.c:400 doubts it), unless an answer was dropped or ignored.  *)
(* cli_add_to_room_history then comes to the room, if no NULL entry is in  *)
(* front of it: the loop follows that one, too, and the program ends.      *)
MessageFindsItsRoom ==
  socket.at = "history" /\ lost = {} /\ Intact /\ socket.room # Void =>
    ShownAs(socket.room) # {}

(* room_count (client.h, "number of rooms the client is in") counts the    *)
(* entries that are in use, the void for one.                              *)
CountsRooms ==
  Settled =>
    room_count = Cardinality({i \in Active : rooms[i] \notin {None, Freed}})

(* Between the answers, whenever the user may type, the current room       *)
(* exists, though both threads change current_r: irc_handle_user_input     *)
(* follows its pointer without a test.                                     *)
CurrentExists ==
  proc = "running" /\ keyboard.at = "read" /\ socket.at = "recv"
    /\ name[Me] # None => rooms[current_r] # None

(* The client asks for a name until it has one, and for nothing else; then *)
(* it makes the other requests.  irc_handle_cli relies on it: the handlers *)
(* look the client up by the name in the request.                          *)
LogonComesFirst ==
  up /\ requests # <<>> =>
    (Head(requests).type = "LOGON" <=> name[Me] = None)

(* After /exit the program ends: the acknowledgement, or the closing of    *)
(* the connection behind it when the acknowledgement itself was dropped,   *)
(* ends the socket thread, and that the main one.  It does not if a        *)
(* request was dropped, which may have been this one, or if a server that  *)
(* is up still has this client but no longer watches its connection (see   *)
(* IrcServer!DropsAndMovesOn).                                             *)
EndsAfterExit ==
  proc = "running" /\ keyboard.at = "join thread" ~>
    \/ proc # "running"
    \/ "requests" \in lost
    \/ up /\ Me \in Clients /\ Me \notin Range(full_fd_list)

-----------------------------------------------------------------------------
(* What the document says and the program does not do.                     *)

(* RFC 3.2.1, "the client must send the room name the message is for", and *)
(* irc_client.c:56: a line typed while the other thread is idle is sent or *)
(* ignored, but does not end the program.                                  *)
LineIsSent ==
  ~(proc = "crashed" /\ keyboard.at = "chat" /\ socket.at = "recv")
=============================================================================
