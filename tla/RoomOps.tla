------------------------------ MODULE RoomOps ------------------------------
(***************************************************************************)
(* The room record struct_room_info and the operations the server performs *)
(* on it: shared/src/irc_room.c and server/src/room.c.                     *)
(*                                                                         *)
(* A room keeps UsrMax user slots, a separate counter of its users and a   *)
(* ring of HistMax messages.  A slot, a ring entry, a name or a room entry *)
(* that is a NULL pointer in the code is None here.  A function of the     *)
(* code that both changes a room and returns a result becomes two          *)
(* operators: the room afterwards, and whether the call reports SUCCESS.   *)
(*                                                                         *)
(* A definition marked "Variant" is not part of the model: it is the next  *)
(* definition with a likely slip, kept to see that a property notices it.  *)
(***************************************************************************)
EXTENDS Integers, FiniteSets

CONSTANTS
  UsrMax,    \* _R_USR_MAX: user slots of a room
  HistMax,   \* _H_STR_MAX: entries of the history ring
  None       \* the NULL pointer

ASSUME UsrMaxAssumption  == UsrMax \in Nat \ {0}
ASSUME HistMaxAssumption == HistMax \in Nat \ {0}

Slot == 0 .. UsrMax - 1
Entry == 0 .. HistMax - 1

(* The index a loop "for (i=0; ...; ++i)" stops at: the least one in S.    *)
Least(S) == CHOOSE i \in S : \A j \in S : i <= j

SlotsOf(ri, n) == {i \in Slot : ri.room_users[i] = n}
FreeSlots(ri)  == {i \in Slot : ri.room_users[i] = None}
Occupied(ri)   == {i \in Slot : ri.room_users[i] # None}
Occupants(ri)  == {ri.room_users[i] : i \in Occupied(ri)}

(* The records a room variable ranges over.                                *)
RoomInfo(Name, Text) ==
  [ room_users : [Slot -> Name \cup {None}],
    num_users  : 0 .. UsrMax,
    history    : [Entry -> Text \cup {None}],
    hist_start : Entry,
    hist_end   : Entry ]

(* _room_init_info: everything NULL, hist_start at the last entry.         *)
NewRoom ==
  [ room_users |-> [i \in Slot |-> None],
    num_users  |-> 0,
    history    |-> [i \in Entry |-> None],
    hist_start |-> HistMax - 1,
    hist_end   |-> 0 ]

-----------------------------------------------------------------------------
(* _room_remove_user.  The first slot holding the name is cleared.  With   *)
(* num_users = 0 the function returns SUCCESS without looking at a slot;   *)
(* a name that is not found in a room with users is a FAILURE.             *)

\* Variant: the counter is decremented whether or not the name is found.
RemovedUncounted(ri, n) ==
  [ri EXCEPT !.room_users = [i \in Slot |-> IF @[i] = n THEN None ELSE @[i]],
             !.num_users = @ - 1]

\* Variant: the first occupied slot is cleared, whoever holds it.
RemovedFirst(ri, n) ==
  IF ri.num_users = 0 \/ SlotsOf(ri, n) = {}
  THEN ri
  ELSE [ri EXCEPT !.room_users[Least(Occupied(ri))] = None,
                  !.num_users = @ - 1]

RemovedUser(ri, n) ==
  IF ri.num_users = 0 \/ SlotsOf(ri, n) = {}
  THEN ri
  ELSE [ri EXCEPT !.room_users[Least(SlotsOf(ri, n))] = None,
                  !.num_users = @ - 1]

RemoveSucceeds(ri, n) == ri.num_users = 0 \/ SlotsOf(ri, n) # {}

(* _room_add_user.  A full room refuses everybody, its own users included; *)
(* otherwise the name is first removed and then put in the first free      *)
(* slot.  The refusal at the end of the slot loop leaves it removed.       *)

\* Variant: the name is not removed first.
AddedAgain(ri, n) ==
  IF ri.num_users = UsrMax \/ FreeSlots(ri) = {}
  THEN ri
  ELSE [ri EXCEPT !.room_users[Least(FreeSlots(ri))] = n,
                  !.num_users = @ + 1]

\* Variant: the name is removed before the room is found full.
AddedRemovingFirst(ri, n) ==
  LET r1 == RemovedUser(ri, n) IN
  IF ri.num_users = UsrMax \/ FreeSlots(r1) = {}
  THEN r1
  ELSE [r1 EXCEPT !.room_users[Least(FreeSlots(r1))] = n,
                  !.num_users = @ + 1]

AddedUser(ri, n) ==
  LET r1 == RemovedUser(ri, n) IN
  IF ri.num_users = UsrMax
  THEN ri
  ELSE IF FreeSlots(r1) = {}
  THEN r1
  ELSE [r1 EXCEPT !.room_users[Least(FreeSlots(r1))] = n,
                  !.num_users = @ + 1]

AddSucceeds(ri, n) ==
  /\ ri.num_users # UsrMax
  /\ FreeSlots(RemovedUser(ri, n)) # {}

(* room_check_for_client: is the name in some slot?                        *)
CheckForClient(ri, n) == SlotsOf(ri, n) # {}

\* Variant: hist_end waits at the entry that was overwritten.
AddedHistoryWaiting(ri, msg) ==
  [ri EXCEPT !.history[ri.hist_end] = msg,
             !.hist_end = IF ri.history[@] # None THEN @
                          ELSE (@ + 1) % HistMax]

(* room_add_history: overwrite the entry at hist_end; when it held a       *)
(* message, that one was the oldest and hist_start moves past it.          *)
AddedHistory(ri, msg) ==
  [ri EXCEPT !.history[ri.hist_end] = msg,
             !.hist_start = IF ri.history[ri.hist_end] # None
                            THEN (@ + 1) % HistMax ELSE @,
             !.hist_end = (@ + 1) % HistMax]

-----------------------------------------------------------------------------
(* What the slots and the counter of a room must agree on.                 *)

CountsItsUsers(ri) == ri.num_users = Cardinality(Occupied(ri))

OneSlotEach(ri) ==
  \A i, j \in Occupied(ri) : ri.room_users[i] = ri.room_users[j] => i = j
=============================================================================
