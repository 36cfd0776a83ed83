---------------------------- MODULE MCIrcServer ----------------------------
(* Instances of IrcServer for TLC: sets of model values, interchangeable   *)
(* within each set.                                                        *)
EXTENDS IrcServer

Symmetry ==
  Permutations(Conn) \cup Permutations(Name) \cup Permutations(Room)

(* The state without the messages that the rooms keep, on which no step    *)
(* and no property of the runs with this view depends.                     *)
ViewWithoutTexts ==
  <<up, lists, name, active_rooms, tree, gone, dropped, late, out,
    [r \in Room |-> <<room[r].room_users, room[r].num_users>>]>>
=============================================================================
