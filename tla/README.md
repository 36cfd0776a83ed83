# A formal model of the scratch IRC server

This directory holds TLA+ modules that model the chat server of this
repository, the TLC configurations that check them on small instances, and
proofs, checked by TLAPS, that the main results hold for instances of every
size. Paths below are relative to the repository's root; `irc_server.c` alone
means `server/src/irc_server.c`.

## 1. The system

One server process talks over TCP to any number of client programs. Users log
on under a name nobody else uses, join rooms, and send messages to the rooms
they are in. Everything is kept in memory: there is no persistence and there is
no recovery.

| Component | Source | State | Operations |
|---|---|---|---|
| Room records | `shared/src/irc_room.c`, `server/src/room.c` | `room_users[]` (slots), `num_users`, the `history[]` ring with `hist_start`, `hist_end` | create, add and remove a user, look for a user, add to the history |
| Request handlers | `irc_server.c`, `server/src/server.c`, `server/src/comm.c` | `cli_list`, `num_clients`, `full_fd_list`, `num_fds`; per client `name`, `active_rooms[]`, `sockfd`; the rooms | accept, logon, join, leave, message, list users, list rooms, exit, disconnect |
| Select loop | `irc_server.c`: `irc_server`, `irc_fill_fd_set_read`, `irc_check_direct_input` | the descriptor set, the index of the pass, standard input | one round: standard input, the listening socket, or a pass over the clients; `/exit` |
| Room index | `server/src/red_black.c` | nodes with parent, two children and a colour | lookup, insertion; removal (never called) |
| Wire protocol | `server/src/comm.c`, `client/src/comm.c`, `shared/include/irc_comm.h` | none | composing and parsing of messages, `send`, `recv` |
| Client program | `client/src/irc_client.c`, `client.c`, `room.c` | `rooms[]`, `current_r`, `room_count`, `g_serv_crashed`, room histories, friends | the keyboard thread (commands), the socket thread (answers, messages) |
| Utilities | `shared/src/convNum.c`, `err_handle.c` | none | number conversion, error messages |

How they interact. The server has a single thread. Its loop asks `select` with a
timeout of zero, and looks at what is reported in a fixed order: standard input,
then the listening socket, then, only if neither has anything, all clients in one
pass. The pass calls `irc_handle_cli`, which takes whatever has arrived from the
client with one `recv`, parses the first request of it and runs its handler to
the end. Handlers find clients by name in `cli_list` and rooms by name in the
tree, and answer with blocking sends. A client has two threads over one
structure, without locks: one sends the user's requests, the other executes what
the server sends.

What is hard here:

* Membership is recorded three times: in the slots of the room, in its counter
  and in the client's `active_rooms[]`. The three are updated by different
  functions in different orders, with early returns between them. A
  disconnection relies on `active_rooms[]` alone.
* Connections are recorded twice, in `cli_list` and in `full_fd_list`, each with
  its own counter.
* Every handler finds its client by name, so that two clients with one name, or
  a name left behind in a room, would misdirect requests.
* Handlers remove clients from the list the pass is iterating over.
* The sockets block, so that one read too many would stop the server.
* A client that vanishes without `RC_EXIT` takes a path of its own, in which the
  record is freed and then used.
* Messages are not delimited by the reader: of those that arrive together all are
  lost but the first, on both sides.
* A message is found by the carriage return at its end, which may also be a count
  of users in it.
* The client's two threads share a list of pointers to rooms. The keyboard thread
  follows pointers that the socket thread sets to NULL, frees or replaces, and the
  order of the requests a user makes is not the order in which the answers are
  executed.

What makes each component correct:

* rooms: the counter is the number of occupied slots, a user has one slot at most;
* handlers: names are unique, nobody stays in a room after disconnecting, a
  message reaches the members of the room and nobody else, lists and counters
  agree, a reply tells the truth, a request only changes its sender's membership;
* loop: it never sleeps, everybody is read in the end;
* room index: it finds exactly the rooms that exist, and stays balanced;
* wire: what is read is what was sent;
* client: its room list follows the server's, and its threads end on `/exit`.

`PROJECT.json` lists the hazards line by line with the properties that cover
them.

## 2. The modules

| Module | Models | Uses |
|---|---|---|
| `RoomOps` | the room record and the pure functions on it | |
| `IrcServer` | the request handlers over client list, descriptor list and rooms | `RoomOps`, `ChatService` |
| `ChatService` | what the server promises, as an abstract specification | |
| `ServerLoop` | the select loop and the end of the process | |
| `Wire` | the layout of the messages, sending and parsing | |
| `RedBlack` | the room index, node by node | |
| `IrcClient` | one client program: two threads, room list, commands and answers | `RoomOps` |
| `ChatSystem` | that client connected to the server, with other clients | `IrcServer`, `IrcClient` |
| `MCIrcServer`, `MCWire`, `MCRedBlack`, `MCChatSystem` | the instances TLC checks | |
| `SeqLemmas` | lemmas on sequences: removing, appending, the first match, several joined to one, and a sequence read as steps | |
| `IrcServerProofs` | the server: single rooms; types, names, memberships, counters; the two lists of connections | `IrcServer`, `SeqLemmas` |
| `ChatServiceProofs` | the refinement of `ChatService`, replies, messages, histories | `IrcServerProofs` |
| `ServerLoopProofs` | the select loop | `ServerLoop`, `SeqLemmas` |
| `ChatSystemProofs` | the client on the server: types, the room counter | `ChatSystem`, `IrcServerProofs` |
| `ClientProofs` | the client's current room, the logon, the list of rooms | `ChatSystemProofs` |
| `RedBlackProofs` | lookup, order and colours of the tree, its height | `RedBlack`, `SeqLemmas` |
| `WireProofs` | what is read is what was sent | `Wire`, `SeqLemmas` |

Definitions keep the names of the source in TLA+ spelling: `irc_cli_join_cmd` is
`JoinRoom`, `JoinLongRoom` and `JoinRefused`, one for each outcome,
`_room_add_user` is `AddedUser` (the room afterwards) and `AddSucceeds` (what is
returned). The `map` of `PROJECT.json` gives the lines for each. A definition
whose comment begins with "Variant" is not part of the model: it is the
definition below it with a likely slip, and shows that some property notices the
slip.

**RoomOps.** A room is a record; slots and ring entries are functions from their
index; `None` is the NULL pointer. A loop that stops at the first matching slot
is `Least` of the set of matching slots. The peculiarities of the code are kept:
adding a user first removes it, a full room refuses its own users too, and
removing from a room whose counter is 0 succeeds without a look at the slots.

**IrcServer.** One action is one handler run to its end, with its sends. That is
the grain of the code, whose server has one thread and no callbacks. Which client
is served next is left open, so that every order the loop can produce is
included. A request is sent under the name the server has granted, which is what
the client program does. `out` holds what the last handler sent. `gone` holds the
peers that have closed their end. Sending to one of them may raise SIGPIPE, which
ends the process (`up = FALSE`), or may go unnoticed: both outcomes are allowed. A
room message goes out slot by slot; if SIGPIPE ends the process at one of them, `out`
holds the sends before it only (`Broadcast`).
When a peer has gone `irc_handle_cli` shuts the client down, does not return, and
shuts the freed record down again. Reading freed memory is undefined: the process
crashes (`DisconnectCrashes`), or the record still shows its old descriptor, which
is then removed from a list that no longer has it (`DisconnectSurvives`). That costs
the list its last element, which the code writes one past the end of the shorter
list; what was there may have been the allocator's, and the process may end at any
later time (`HeapCrashes`). A list of one element is freed and becomes NULL, with
`num_fds` still 1. Without a list `irc_fill_fd_set_read` returns before it clears the
set, `select` gets what it reported the last time, the closed descriptor among it,
and the server ends with an error (`SelectFails`). The pass over the clients goes by
what `select` reported when it began: `late` holds the clients that are no longer in
the descriptor list and that the pass may still come to. (It takes three connections
for that, which the `drop` run and the proofs have.) A
connection is named by its descriptor, so that a descriptor the system hands out
again is the same member of `Conn`. A message enters the room's history, a ring in
which `hist_end` is the next entry to be written.

**ChatService.** Names in use, a membership relation and the last message heard,
with no slots, arrays or lists. `IrcServer` implements it under the mapping at the
end of `IrcServer`: users are the names of listed clients, members the occupants
of the slots, the message heard is the last `RC_MSG` sent. The service runs as long as
the process; its last message may reach some of the members only. Its `Join` has the two
limits (users of a room, rooms of a user) as preconditions.

**ServerLoop.** `pc` is the place in `irc_server`; a pass is divided into one step
per client, so that clients may send, connect or type while it runs. The index
starts from 1 where the code starts from 0. Requests are reduced to what the loop
can tell apart: `RC_EXIT`, which removes the client at the index, and the others.
`peer` is what each client program is doing, from the client's own code: it waits
for the answer to its logon, and after `RC_EXIT` for its acknowledgement, but for
nothing in between. A round in which nothing is ready changes nothing and has no
action, and likewise a round that finds standard input at its end, since that ends
the round.
Peers that vanish without `RC_EXIT` are left to `IrcServer`; in this module every
client leaves with `RC_EXIT`, or stays.

**Wire.** One direction of one connection, byte by byte: a carriage return is 13,
a string is a sequence of bytes with a NUL behind it, and a message is laid out as
the sender's function does it. `Recv` takes what has arrived, at most `IoBuff`
bytes, parses the message at the beginning as the reader does, takes its fields
as the handler does, and forgets the rest. When a full buffer has cut a message in
two, `taken` tells how much of it is gone; what is read from the middle of a message
is not modelled. The other modules work with the records that `Wire` reads and
writes, and this module says when they may.

**RedBlack.** Nodes are numbered in the order of their allocation and point to
each other by number; 0 is NULL. One step is one turn of the loop in `place_data`
or one call of `retrieve_match` or `check_insert_cases`. A room is created only
after a lookup has failed, as in `room_add_user`, so that the uniqueness of the
rooms rests on the lookup's being right. `IrcServer` uses the tree as a set of
names, and this module justifies that.

**IrcClient.** A step is one access of a thread to what the threads share: the
pointer that `irc_handle_user_input` takes before it knows the command
(`ReadLine`), the test for the void (`TestVoid`), the send with a name whose memory
may have been freed since (`SendRequest`), the search for a room, the index, the
display, each by itself; and in the other thread `Recv`, the two halves of
`cli_remove_active_room` and `cli_add_active_room` and the loop of
`cli_goto_default_room`. An entry of `rooms` is a room's name, or `None` for NULL,
`Unnamed` for a room whose name is not there yet, `Freed` for a room whose memory is
gone while the pointer stayed. Reading through these is undefined in C: the program
ends (`crashed`), or, for freed memory, some other name is read (`Garbage`). One
`recv` takes any number of the messages that have arrived, executes the first and
forgets the others; `lost` records that this has happened. Setting an entry to NULL
and freeing what it pointed to is one step. `ret` in `irc_logon_client` is
uninitialised when a name that is not sent is the first thing typed; the loop may
then end without a logon, and `EnterBadName` allows both outcomes. A line that is too
long and the end of the input are not read as a line: `irc_get_user_input` returns
NULL, which ends the logon (`ReadNoName`) and which `irc_handle_user_input` follows
(the line `"unread"`). An answer to `RC_JOIN` whose count of users is the byte `CR`, 13
in the code, looks like an empty message and is ignored (`Misread`); `lost` then has
`"join"`. The texts of a
room's history are left out, as only the screen depends on them.

**ChatSystem.** `Me` is the client of `IrcClient`; the other connections make the
requests of `IrcServer`. A request of `Me` reaches the server when it is handled,
and what the handlers send to `Me` is appended to its `answers`. `Closed` tells when
`Me` finds its connection closed. The server may crash, by a SIGPIPE or by the
disconnection of another client, and both threads of `Me` go on from there.

## 3. What the runs check

| Run | Instance | Result |
|---|---|---|
| `server` | 2 connections, 2 names, 3 rooms of 2 slots, 2 entries in `active_rooms`, peers vanish | `TypeOK`, `NoGhosts`, `RoomsCount`, `JoinReplyTrue`, `AtMostRoomMax`, `WatchesOnlyOpen`, `MessageReachesMembers`, `OneUserAtATime`, `RefusalChangesNothing` hold |
| `lists` | 3 connections, 3 names, 1 room of 2 slots, 1 name too long, 1 entry, 2 texts, 2 messages kept | `NamesUnique`, `ListsAgree`, `ImplementsService`, `KeepsTheLastMessages` hold |
| `loop` | 3 clients, 1 unread request each | `TypeOK`, `NeverBlocks`, `EverybodyIsRead`, `ExitIsGranted` hold |
| `wire` | 2 names, 3 rooms, 3 texts of 0 to 3 bytes, counts to 14, 2 messages under way, a buffer that the longest two do not fit in | `TypeOK`, `RequestsUnderstood`, `AnswersUnderstood` hold |
| `tree` | 7 rooms, in every order, every lookup between two insertions | `TypeOK`, `FindMatchFinds`, `OneRoomPerName`, `RedBlackRules`, `Shallow`, `EveryCallEnds` hold |
| `client` | the client and one more, 2 rooms of 2 slots, 2 entries in both lists, `CR` 2 | `SysTypeOK`, `ShowsItsRooms`, `NoRoomTooMany`, `MessageFindsItsRoom`, `CountsRooms`, `CurrentExists`, `LogonComesFirst`, `EndsAfterExit` hold |
| `long_name` | 2 connections, 2 rooms and a name too long | `SuccessMeansAdded` is violated |
| `rejoin` | the same | `RefusedAtMaximum` is violated |
| `drop` | 3 connections, 1 entry, peers vanish | `DropsAndMovesOn` is violated |
| `exit_lost` | 2 clients, 2 unread requests each | `ExitIsAnswered` is violated |
| `join_count` | as `wire` | `JoinAnswersRead` is violated |
| `client_gap` | the client alone, 3 entries, `CR` 13 | `LineIsSent` is violated |

The bounds, and why they suffice. Two slots in a room give a full room, a room
with a gap and an empty one. Two entries in `active_rooms` let a room be listed
twice, which is the way to the counters' disagreeing, and the third room of `server`
is the one too many for a user who has two. Three connections for one
room of two slots give a refusal and a list with a middle; `lists` pays for the
third with a single room and entry. The history ring has two entries and two
different texts in `lists`, so that a message overwritten out of turn shows; it has
one in the other runs, where no property is about its content, and
`ViewWithoutTexts` leaves the text a room keeps out of the state of `server`: every
step is possible whatever was kept. The name too long is in `lists` and in the two
runs about it. In the loop three clients are
needed for one to be skipped behind another that leaves, with a third that goes on
sending. In `wire` the strings are as short as they can be and differ in length, the
count runs past 13, and two messages under way are the one that is read and what
lies behind it. Seven nodes pass through all five insertion cases on both sides,
with a recolouring followed by a rotation above it. Symmetry among connections,
names and rooms is used in the runs of `IrcServer` only.

The `client` run has bounds of its own. `FlightMax` is how many messages may be
under way when the user types a line: none, so that in this run two requests of the
user are never under way together, and no request is dropped. `OthersFlightMax` is
how many may be under way when another client makes a request: one, so that a message
of the other crosses the user's request, or arrives behind an answer in one `recv` and
is lost. Overlapping requests of the user are in `client_gap`, where `FlightMax` is 1,
and in the proofs, where both bounds are arbitrary. `CR` is 2, the largest
count a room of two slots gives, so that the answer that is misread occurs.
`LastCmds` is what the user still types once a message
was lost: from then on the two lists may differ, and only the end of the program is
of interest. `OthersRoom` and `OthersMax` keep the other client to one room and one
entry. `OthersGoOn` lets the others rest once the server takes no more requests from
`Me`. `BetweenLines` (an action constraint) lets the server do nothing for the others
while the keyboard thread is in the middle of a line: it looks neither at the answers nor
at the server there, and what is cut off is the socket thread's handling of a message of
theirs meanwhile, which changes nothing the threads share. `View`
leaves out the texts of messages and, after the end of the client's
connection, the state of a server it can no longer see; no step depends on either.

### Disagreements with the code's own words

* `SuccessMeansAdded` (`irc_server.c:411`): joining a room whose name is too long
  gets the answer "success, 22 users", since `room_add_user` returns EINVAL where
  the caller tests for FAILURE.
* `RefusedAtMaximum` (`irc_server.c:397`): `serv_add_active_room` takes a new entry
  at each join, also of a room the client is already in, and keeps it when the
  join fails; a user is then refused for being in too many rooms while in fewer.
* `DropsAndMovesOn` (`irc_server.c:536`): after a disconnection without `RC_EXIT`
  the server crashes, or no longer reads another client.
* `ExitIsAnswered` (`client/src/irc_client.c:553`): an `RC_EXIT` that arrives
  together with an earlier request is dropped; the client waits for ever.
* `LineIsSent` (`client/src/irc_client.c:55`): after the first of two rooms was left,
  `rooms[0]` is NULL, and the next line, whether it is for the void is looked up
  there, ends the program.
* `JoinAnswersRead` (`client/src/irc_client.c:409`): the answer to `RC_JOIN` has a
  count of users in front. It is 0 when the join was refused, and the message is
  ignored as an empty one, so that the notice at `irc_client.c:412` is never shown. A
  count of 13 is taken for the end of the message, which is ignored as well: the
  thirteenth user of a room is in it and does not see it.

What the models show besides, as conditions of properties that hold:

* a user may join a room named `void`, like the default one: the client takes it for
  the default room and drops it from its list at the next join, while the server
  keeps the user in it (`ShowsItsRooms`, `MessageFindsItsRoom`, which except it);
* a join granted with the count 13 leaves the client without the room from then on,
  and a message for that room finds none (`lost = {}`, which `"join"` then is in);
* a NULL entry in front of a room ends the client when a message for the room comes in,
  since `cli_add_to_room_history` follows every pointer it meets (`AddToRoomHistory`;
  `MessageFindsItsRoom` only says that the room is in the list);
* `/exit` at the server shuts every second client down, as the list shrinks under the
  index, and the end of the process closes the connections of the others
  (`ShutdownClient`);
* more than 512 bytes in a socket put the reader out of step (`read # Garbled`);
* answers that arrive together are lost but for the first (`lost = {}`), and the
  lists of client and server differ from then on;
* a `/show` between two answers to `/leave` can make `cli_goto_default_room` free
  rooms that are in use, whose pointers stay (`Intact`);
* when the history is full, `hist_start` names the newest entry and not the oldest,
  as it starts at the last one; the server never reads it, so that
  `KeepsTheLastMessages` is stated with `hist_end`.

### Liveness and fairness

`ServerLoop` assumes weak fairness of the server's steps and of nothing else: no
client has to connect, send or leave, and nobody has to type. The code justifies
it because the loop has no place to wait in: `select` has a timeout of zero, and
`recv` finds something to read by `NeverBlocks`, which is proved without fairness.
(A send blocks only if a peer leaves its socket buffer full; the clients read all
the time.) `EverybodyIsRead` and `ExitIsGranted` hold under the condition
`Attended`: from some time on nobody types at the server and its standard input is
open. Each line that is typed postpones the clients by a round, and a standard
input at its end postpones them for ever, for then every round ends before the
clients' turn. Connections are taken first, too, but a client program opens one
connection, so that they cannot hold back the clients for ever.
`RedBlack` assumes weak fairness of the steps of a call that has begun; calls
themselves need not happen.
`ChatSystem` assumes weak fairness of the client's two threads (`Threads`) and of
the server's taking a request of `Me` that has arrived (`ServeMe`), which is
`EverybodyIsRead` of `ServerLoop`. The user has to type nothing, and no other
client has to do anything. `EndsAfterExit` excludes the two cases in which the
program does wait for ever: a request was dropped, or the server, still up, has the
client in its list and no longer watches its descriptor, after the disconnection of
another. A client whose `RC_EXIT` was handled is in neither case: its acknowledgement
or the closing of its connection must end it.

## 4. What is proved

For all values of the constants that satisfy the named assumptions (finitely many
connections and names; slots, entries and ring sizes at least one; the NULL
pointer, the listening socket and standard input different from everything else):

* `IrcServerProofs`: `TypeCorrect`, `UniqueNames`, `NobodyLeftBehind` and
  `CountsExact`, that is `TypeOK`, `NamesUnique`, `NoGhosts` and `RoomsCount` of
  every reachable state, disconnections and crashes included.
* `ChatServiceProofs`: `ServiceImplemented` (`Spec => ImplementsService`),
  `MessageGoesToMembers`, `JoinRepliesTrue`, `RefusalsHarmless`, `RoomsLimited`,
  `OneUserOnly` and `HistoryIsALog`, that is `MessageReachesMembers`, `JoinReplyTrue`,
  `RefusalChangesNothing`, `AtMostRoomMax`, `OneUserAtATime` and
  `KeepsTheLastMessages`.
* `IrcServerProofs`, too: `ListsStayTogether` and `OnlyOpenWatched`, that is
  `ListsAgree` and `WatchesOnlyOpen`.
* `ServerLoopProofs`: `TypeCorrect` and `NeverSleepsInRecv`, that is `TypeOK` and
  `NeverBlocks`, for any number of clients.
* `ChatSystemProofs`: `ServerInside`: in the composition with a client the server
  only takes steps of `IrcServer`, so that all of the above holds there;
  `ClientTypeCorrect` and `RoomCountExact`, that is `SysTypeOK` and `CountsRooms`,
  for lists of any size, whatever the interleaving of the threads.
* `ClientProofs`: `CurrentRoomExists`, `NameIsAskedFirst`, `EveryRoomShown`,
  `NoRoomShownTwice` and `MessagesFindRooms`, that is `CurrentExists`,
  `LogonComesFirst`, `ShowsItsRooms`, `NoRoomTooMany` and `MessageFindsItsRoom`. The
  last three hold while no answer was lost and no join ignored for its count
  (`lost = {}`), the first and third of them while no room was freed in place
  (`Intact`), too.
* `RedBlackProofs`: `TypeCorrect`, `LookupIsRight`, `NamesAreUnique`,
  `ColoursAreRight` and `HeightIsLogarithmic`, that is `TypeOK`, `FindMatchFinds`,
  `OneRoomPerName`, `RedBlackRules` and `Shallow`, for trees of any size.
* `WireProofs`: `TypeCorrect`, `ServerUnderstands` and `ClientUnderstands`, that is
  `TypeOK`, `RequestsUnderstood` and `AnswersUnderstood`, for strings of any length.

So every invariant and every action property that a passing run checks is proved as
well. What the client theorems say holds for every line of `Client!AnyLine`, also for
those that the `client` run leaves out to stay small: in the proofs the user may name
any room, and any number of messages may be under way (`FlightMax` is arbitrary).

The invariants follow the same argument: an inductive invariant, one lemma that
`Init` implies it, one lemma per action that the action keeps it, and a temporal
step. (All were first checked by TLC.)

For `IrcServer`, `IInv` is the four properties together with three facts none of
them can do without:

* `Listed`: a client is in `cli_list` once, and both counters are the lengths of
  their lists, but for `num_fds` of a descriptor list that was lost, which stays 1;
* `Nameless`: a descriptor that is not in the list has no name and no rooms; hence
  a connection that is taken starts with neither;
* `UnknownRoomsEmpty`: a room not in the tree has no users; hence a client that is
  freed, which only looks at rooms in the tree, leaves nobody behind.

The properties need each other. `NoGhosts` is kept by a disconnection because
`_room_remove_user` clears one slot, and by `RoomsCount` the user has no second
one. It is kept by a leave because the user removed from the room is the same as
the owner of the `active_rooms` entry, and that needs `NamesUnique`. The entry
that `serv_remove_active_room` clears may be one of two for the same room; then
the other one stays, which does no harm, since `NoGhosts` goes in one direction.
The first part of `IrcServerProofs` has the lemmas on single rooms: what `AddedUser`
and `RemovedUser` do to slots, counter and set of occupants.

For the refinement, each handler's two outcomes are mapped to a step of
`ChatService` or to none. The users are the names of listed clients, the pairs the
occupants of slots (`Users`, `Pairs`, `Heard`). A join adds one pair because
`AddedUser` adds one occupant and leaves the others; its two limits come from the
counter, by `RoomsCount`, and from the entries of `active_rooms`: by `NoGhosts` the
rooms of a user are all among its entries, and there are `RoomMax` of these. A
message that is sent to its end is heard by all members since the loop over the slots
meets a client for each, which is `NoGhosts` and `NamesUnique` again (`AllReached`); the
sends before a SIGPIPE went to some of them. The end of a
client, by `RC_EXIT` or not, removes one user with all its pairs, since its entries
name every room it is in. `OneUserAtATime` then follows from the steps of the
abstract service (it needs some name to exist). `RefusalsHarmless` rests on
`RoomsCount`: a user taken out of a room leaves a slot behind, so that the failure after
the removal does not happen to a member. The history needs one more invariant, `RingsFilled`: the
ring is filled from entry 0 up to `hist_end`, or all of it is; then the entry
overwritten is the oldest one.

For the lists of connections the invariants are the properties themselves with the
type and `Listed`. `irc_shutdown_client` takes one connection out of both lists, and
its position is the same up to the two descriptors in front. After a client was
shut down twice the list may be shorter by one more, and in the end be lost, but what is
in it is open and is there once (`WatchesOnlyOpen`); that the list is lost needs a
disconnection follows from `ListsAgree`, since a list that agrees has two descriptors
besides the clients'.

For the client, `SysInv` is `IInv` of the server with `ClientInv`, which says what
each thread knows between two of its steps: that the entry in which the socket thread
is building a room is still as it left it, since only that thread writes `rooms` and
`room_count` (`Working`), and that `room_count` is behind by one while a room has no
name yet (`Counted`). `CurrentInv` says where the socket thread is whenever
`current_r` is the index of a room that has been removed (`CurrentShown`), and that
the keyboard thread has at worst just set it in `/show` and will look at it next. A
client that left the logon loop without a name has no rooms at all
(`NeverLoggedOn`): it never gets an answer that would give it one, as nobody but the
client itself can make the server give it a name.

`LogonInv` follows the logon. A client that is asking for a name has nothing under
way; one that waits has its request at the server, or an answer at the head of
`answers` that tells truly whether it has a name now; afterwards no request is a
logon, and `RC_EXIT`, which takes the name away, is the last one. Other clients cannot
disturb this, since whatever they make the server send goes to clients with a name.

For the list of rooms, `RoomsInv` compares two states that are as far apart as answers
are under way. `ServerView` is what the server has of the client: the entries of its
`active_rooms` and the rooms it is a member of. Every answer tells of a step from one
such view to the next (`Said`): a join takes an entry and may add a membership, a
leave gives an entry back and ends a membership, a message comes from a room of the
view, and a refused join may take an entry without a membership. (Once a granted join
was misread, `lost` is not empty and nothing more is claimed.) So `answers` is a
chain of views that ends in the server's (`Tells`, `Leads` of `SeqLemmas`): each
handler adds a step at its end (`HandleTells`, `OthersSend`, `OthersLeaveView`), and each
`recv` that takes one message removes the first. What the socket thread is at work on
is one more step (`Doing`), from the view that the list shows to the first of the
chain. The list shows a view (`Shows`) if each of its entries has an entry of its own
in the view that names the same room (`Matched`, an injection), and if every membership
is in the list, unless `cli_goto_default_room` has freed entries. From the injection
follows that the client has a free entry whenever the server had one
(`FullMatched`), which is what the message at `client/src/irc_client.c:424` takes for granted. The
void is the one entry without a counterpart; `EntriesInv` says when it is in the first
entry, and that it is alone then.

For `RedBlack`, `IInv` says that there are two functions the code does not have. `S`
gives the nodes at and below each node; with it a lookup knows that the room it seeks
is below the node it has come to (`Lookup`), and an insertion that it is on the way a
later lookup will take (`Insertion`). `h` gives the number of black nodes on the ways
down; `Coloured` says that it is the same on both sides of each node, and that at most
the node being checked has a red parent. A rotation changes `S` and `h` at the two nodes
it turns, and each of the insertion cases either ends the check or moves the one
exception to the grandparent (`RebalancedTree`). The set of ways down that
`RedBlackRules` speaks of is built level by level, and then has one count of black
nodes, `h` of the root. The height follows: a tree with `n` black nodes on its ways has
at least `2^n - 1` nodes (`Wide`), and at most every second node of a way is red
(`WaysAreShort`).

For `Wire`, the argument is about places: `Found(q, k, b)` says that `b` is in `q` behind
its first `k` bytes. The message that is due is found at the beginning of what a
`recv` takes, since it fits the buffer; a string's first NUL is the one put behind
it, and the first carriage return of the payload the one at its end, because neither
is a `Char`. Each parser then stops where the sender meant it to
(`RequestRead`, `AnswerRead`). `StringsAssumption` excludes the two bytes from
names, rooms and texts, and empty names and rooms: what is typed is read as a C string
up to the line feed, and the client sends no empty name and no empty `/join`. A
carriage return in the middle of a typed line would end the message early; it is
outside of this module. `BufferAssumption` says that one message fits the buffer.

For `ServerLoop`, `IInv` adds `Apart`: no client is listed twice, none waits to be
accepted twice or while it is listed, and a client that is away is neither listed
nor waiting. When the pass reads a client, what `select` reported of the clients
behind the index must still be true. It is, because nobody but the client at the
index is read, and that client is not met again. The case of interest is
`RC_EXIT`: everybody behind the index moves by one, and the one who was next is
passed over.

Some of these facts are inductions: over the length of a sequence, the levels of a tree,
the powers of two. The provers cannot give an operator to an induction theorem, but a
set will do: `SetInduction` of `SeqLemmas` says that a set of natural numbers with 0 in
it that is closed under successor is `Nat`, and each induction names the set of the
numbers for which its statement holds. Recursive functions are treated the same way,
as functions up to `n` that exist and agree (`Flattened`, `Levels`, `Doubles`).

The proofs use no other axioms than the arithmetic, sets and sequences of the
provers and the library's lemmas on sequences and finite sets.

## 5. What is only model-checked, and what is not modelled

Only model-checked are the liveness properties, since fairness and ENABLED are beyond
the prover: `EverybodyIsRead` and `ExitIsGranted` of `ServerLoop`, `EveryCallEnds` of
`RedBlack`, `EndsAfterExit` of `ChatSystem`. The violations of section 3 are found by
TLC alone, too.

Not modelled:

* the friends list of the client, which is local and has no part on the server;
  `/room`, which only prints; the texts of the client's histories, and the screen;
* listing the rooms (`RC_RL`), which changes nothing;
* what a reader makes of bytes in the middle of a message, a `send` that takes less
  than it was given and receives of less than has arrived;
* removal from the tree, which the server never calls; the release of all memory
  at the end of the process;
* failing allocations and `accept`, which end the process (of `select` the one failure
  that the server brings about itself is modelled);
* set-up of sockets, number conversion and error messages.

## 6. Plan

1. Lemmas that carry the safety half of the liveness properties: what makes each call
   of `RedBlack` shorter, and each round of `ServerLoop` bring a client nearer its turn.
2. `Wire` below the queues of `ChatSystem`: that the records the handlers work with are
   what the parsers make of the bytes.
3. `RedBlack`: removal with its six cases and `replace_predecessor`.
4. The friends list of the client.
