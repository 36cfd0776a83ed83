----------------------------- MODULE RedBlack -----------------------------
(***************************************************************************)
(* The index of the rooms: the red-black tree of server/src/red_black.c,   *)
(* as the server uses it.  find_match looks a room name up; room_add_user  *)
(* creates the room and gives it to the tree when there is none; no room   *)
(* is ever removed while the server runs.                                  *)
(*                                                                         *)
(* Nodes are records in memory that point to each other, allocated one     *)
(* after the other: a node is its place in that order, and 0 is NULL.  One *)
(* step is one turn of the loop, or one call of the recursion, in the code.*)
(***************************************************************************)
EXTENDS Integers, Sequences, FiniteSets

CONSTANTS
  Name,       \* room names, as numbers in the order strncmp gives them
  NodeMax     \* bound: rooms created

ASSUME NameAssumption    == Name \subseteq Nat
ASSUME NodeMaxAssumption == NodeMax \in Nat

NULL  == 0
LEFT  == 0
RIGHT == 1
Side  == {LEFT, RIGHT}

VARIABLES
  tree,       \* tree.root, and tree.node, the nodes in memory
  pc,         \* "idle", "finding", "found", "placing", "checking"
  sought,     \* the room name looked for or added
  current,    \* the node the code is at
  previous,   \* in place_data, the parent of current,
  lastTurn    \* and the side on which current is its child

vars == <<tree, pc, sought, current, previous, lastTurn>>

Nodes == 1 .. Len(tree.node)

-----------------------------------------------------------------------------
(* Operations on the tree.                                                 *)

Black(t, n) == [t EXCEPT !.node[n].cflag = "black"]
Red(t, n)   == [t EXCEPT !.node[n].cflag = "red"]

Parent(t, n)   == t.node[n].parent
Child(t, n, s) == t.node[n].child[s]
IsRed(t, n)    == n # NULL /\ t.node[n].cflag = "red"

\* Variant: the parent always takes the new child on its left.
RotatedOnLeft(t, n, side) ==
  LET up   == Child(t, n, 1 - side)
      over == Child(t, up, side)
      New(m) ==
        CASE m = n -> [t.node[n] EXCEPT !.child[1 - side] = over, !.parent = up]
          [] m = up -> [t.node[up] EXCEPT !.child[side] = n, !.parent = Parent(t, n)]
          [] m = over -> [t.node[over] EXCEPT !.parent = n]
          [] m = Parent(t, n) -> [t.node[m] EXCEPT !.child[LEFT] = up]
          [] OTHER -> t.node[m]
  IN [root |-> IF Parent(t, n) = NULL THEN up ELSE t.root,
      node |-> [m \in DOMAIN t.node |-> New(m)]]

\* Variant: the child moves over after it has been overwritten.
RotatedLate(t, n, side) ==
  LET up == Child(t, n, 1 - side)
      New(m) ==
        CASE m = n -> [t.node[n] EXCEPT !.child[1 - side] = n, !.parent = up]
          [] m = up -> [t.node[up] EXCEPT !.child[side] = n, !.parent = Parent(t, n)]
          [] m = Parent(t, n) ->
               [t.node[m] EXCEPT !.child = [s \in Side |-> IF @[s] = n THEN up ELSE @[s]]]
          [] OTHER -> t.node[m]
  IN [root |-> IF Parent(t, n) = NULL THEN up ELSE t.root,
      node |-> [m \in DOMAIN t.node |-> New(m)]]

(* left_rotate and right_rotate: n goes down on the given side, its child  *)
(* from the other side comes up, and that one's child moves over to n.     *)
Rotated(t, n, side) ==
  LET up   == Child(t, n, 1 - side)
      over == Child(t, up, side)
      New(m) ==
        CASE m = n -> [t.node[n] EXCEPT !.child[1 - side] = over, !.parent = up]
          [] m = up -> [t.node[up] EXCEPT !.child[side] = n, !.parent = Parent(t, n)]
          [] m = over -> [t.node[over] EXCEPT !.parent = n]
          [] m = Parent(t, n) ->
               [t.node[m] EXCEPT !.child = [s \in Side |-> IF @[s] = n THEN up ELSE @[s]]]
          [] OTHER -> t.node[m]
  IN [root |-> IF Parent(t, n) = NULL THEN up ELSE t.root,
      node |-> [m \in DOMAIN t.node |-> New(m)]]

(* insert_case_5: node and parent are children on the same side.           *)
InsertCase5(t, n) ==
  LET p    == Parent(t, n)
      g    == Parent(t, p)
      side == IF n = Child(t, p, LEFT) /\ p = Child(t, g, LEFT)
              THEN RIGHT ELSE LEFT
  IN Rotated(Red(Black(t, p), g), g, side)

(* insert_case_4: they are on different sides.  Once the parent has been   *)
(* rotated it is the lower one, and case 5 applies to it.                  *)
Inner(t, n, side) ==
  n = Child(t, Parent(t, n), 1 - side) /\ Parent(t, n) = Child(t, Parent(t, Parent(t, n)), side)

InsertCase4(t, n, side) == InsertCase5(Rotated(t, Parent(t, n), side), Parent(t, n))

Uncle(t, n) ==
  LET p == Parent(t, n)
      g == IF p = NULL THEN NULL ELSE Parent(t, p)
  IN IF g = NULL THEN NULL
     ELSE IF p = Child(t, g, LEFT) THEN Child(t, g, RIGHT) ELSE Child(t, g, LEFT)

-----------------------------------------------------------------------------
Init ==
  /\ tree = [root |-> NULL, node |-> <<>>]
  /\ pc = "idle"
  /\ sought = NULL /\ current = NULL /\ previous = NULL /\ lastTurn = LEFT

(* find_match, called for a name that may or may not have a room.          *)
FindMatch(k) ==
  /\ pc = "idle"
  /\ pc' = "finding" /\ sought' = k /\ current' = tree.root
  /\ UNCHANGED <<tree, previous, lastTurn>>

(* retrieve_match goes down one level, or has its answer in current.       *)
RetrieveMatch ==
  /\ pc = "finding"
  /\ IF current = NULL \/ tree.node[current].room = sought
     THEN pc' = "found" /\ UNCHANGED current
     ELSE /\ current' = Child(tree, current,
                              IF sought < tree.node[current].room THEN LEFT ELSE RIGHT)
          /\ UNCHANGED pc
  /\ UNCHANGED <<tree, sought, previous, lastTurn>>

(* The caller has no more to do with the tree.                             *)
Return ==
  /\ pc = "found"
  /\ pc' = "idle" /\ current' = NULL /\ sought' = NULL
  /\ UNCHANGED <<tree, previous, lastTurn>>

(* room_add_user found no room, and gives the tree a new one.              *)
GiveData ==
  /\ pc = "found" /\ current = NULL
  /\ Len(tree.node) < NodeMax
  /\ pc' = "placing" /\ current' = tree.root /\ previous' = NULL
  /\ UNCHANGED <<tree, sought, lastTurn>>

\* Variant: the side of the last turn is not kept.
DescendForgetting ==
  /\ pc = "placing" /\ current # NULL
  /\ previous' = current
  /\ current' = Child(tree, current,
                      IF sought < tree.node[current].room THEN LEFT ELSE RIGHT)
  /\ UNCHANGED <<tree, pc, sought, lastTurn>>

(* place_data: "traverse to insertion position, previous is parent".       *)
Descend ==
  /\ pc = "placing" /\ current # NULL
  /\ previous' = current
  /\ lastTurn' = IF sought < tree.node[current].room THEN LEFT ELSE RIGHT
  /\ current' = Child(tree, current, lastTurn')
  /\ UNCHANGED <<tree, pc, sought>>

\* Variant: the node is linked although its allocation has failed.
PlaceDataAnyway ==
  LET new == Len(tree.node) + 1 IN
     /\ pc = "placing" /\ current = NULL
     /\ tree' = IF previous = NULL THEN [tree EXCEPT !.root = new]
                ELSE [tree EXCEPT !.node[previous].child[lastTurn] = new]
     /\ pc' = "checking" /\ current' = new
     /\ UNCHANGED <<sought, previous, lastTurn>>

(* place_data: a red leaf, below previous or as the root.                  *)
PlaceData ==
  LET new == Len(tree.node) + 1
      node == [room |-> sought, cflag |-> "red", parent |-> previous,
               child |-> [s \in Side |-> NULL]]
      below == IF previous = NULL THEN tree.node
               ELSE [tree.node EXCEPT ![previous].child[lastTurn] = new]
  IN /\ pc = "placing" /\ current = NULL
     /\ tree' = [root |-> IF previous = NULL THEN new ELSE tree.root,
                 node |-> Append(below, node)]
     /\ pc' = "checking" /\ current' = new
     /\ UNCHANGED <<sought, previous, lastTurn>>

-----------------------------------------------------------------------------
(* check_insert_cases(tree, current): one case, and only one, applies.     *)

Done ==
  /\ pc' = "idle" /\ sought' = NULL
  /\ current' = NULL /\ previous' = NULL /\ lastTurn' = LEFT

CheckRoot ==
  /\ pc = "checking" /\ Parent(tree, current) = NULL
  /\ tree' = Black(tree, current)
  /\ Done

CheckBlackParent ==
  /\ pc = "checking" /\ Parent(tree, current) # NULL
  /\ ~IsRed(tree, Parent(tree, current))
  /\ Done
  /\ UNCHANGED tree

RedParent == pc = "checking" /\ IsRed(tree, Parent(tree, current))

\* Variant: the colours are swapped, and the check is not repeated above.
CheckRedUncleOnce ==
  LET p == Parent(tree, current) IN
  /\ RedParent /\ IsRed(tree, Uncle(tree, current))
  /\ tree' = Red(Black(Black(tree, p), Uncle(tree, current)), Parent(tree, p))
  /\ Done

(* Case 3 swaps the colours and goes on at the grandparent.                *)
CheckRedUncle ==
  LET p == Parent(tree, current) IN
  /\ RedParent /\ IsRed(tree, Uncle(tree, current))
  /\ tree' = Red(Black(Black(tree, p), Uncle(tree, current)), Parent(tree, p))
  /\ current' = Parent(tree, p)
  /\ UNCHANGED <<pc, sought, previous, lastTurn>>

\* Variant: the node is painted as if it had been rotated, and is not.
CheckRotateNot ==
  /\ RedParent /\ ~IsRed(tree, Uncle(tree, current))
  /\ tree' = Black(tree, Parent(tree, current))
  /\ Done

CheckRotate ==
  /\ RedParent /\ ~IsRed(tree, Uncle(tree, current))
  /\ tree' = IF \E side \in Side : Inner(tree, current, side)
             THEN InsertCase4(tree, current,
                              CHOOSE side \in Side : Inner(tree, current, side))
             ELSE InsertCase5(tree, current)
  /\ Done

Step ==
  \/ RetrieveMatch \/ Descend \/ PlaceData
  \/ CheckRoot \/ CheckBlackParent \/ CheckRedUncle \/ CheckRotate

Next ==
  \/ \E k \in Name : FindMatch(k)
  \/ Return \/ GiveData
  \/ Step

(* A call that has begun goes on: the code has one thread and no waits.    *)
Spec == Init /\ [][Next]_vars /\ WF_vars(Step)

-----------------------------------------------------------------------------
(* Properties.                                                             *)

Node == [room : Name, cflag : {"red", "black"},
         parent : {NULL} \cup Nodes, child : [Side -> {NULL} \cup Nodes]]

TypeOK ==
  /\ tree.root \in {NULL} \cup Nodes
  /\ tree.node \in Seq(Node)
  /\ pc \in {"idle", "finding", "found", "placing", "checking"}
  /\ sought \in Name \cup {NULL}
  /\ {current, previous} \subseteq {NULL} \cup Nodes
  /\ lastTurn \in Side

(* What find_match returns is the room with that name, and it returns NULL *)
(* only if there is none, whatever insertions have rotated before.  The    *)
(* request handlers rely on it when they take the tree for a set of names. *)
FindMatchFinds ==
  pc = "found" =>
    IF current = NULL THEN \A n \in Nodes : tree.node[n].room # sought
                      ELSE tree.node[current].room = sought

(* A name never gets a second room, which would divide its users.          *)
OneRoomPerName ==
  \A m, n \in Nodes : tree.node[m].room = tree.node[n].room => m = n

(* The ways down from the root: the node or NULL that ends a way of d      *)
(* steps, and how many black nodes it passes.                              *)
Ways ==
  LET w[d \in 0 .. Len(tree.node) + 1] ==
        IF d = 0 THEN {<<tree.root, 0>>}
        ELSE {<<Child(tree, x[1], s), x[2] + (IF IsRed(tree, x[1]) THEN 0 ELSE 1)>> :
                x \in {y \in w[d - 1] : y[1] # NULL}, s \in Side}
  IN w

(* Between two calls the tree has the colours of a red-black tree: the     *)
(* root is black, a red node has black children, every way down to a NULL  *)
(* passes as many black nodes, and parents and children agree.             *)
RedBlackRules ==
  pc = "idle" =>
    /\ ~IsRed(tree, tree.root)
    /\ \A n \in Nodes, s \in Side :
         LET c == Child(tree, n, s) IN
         c # NULL => Parent(tree, c) = n /\ ~(IsRed(tree, n) /\ IsRed(tree, c))
    /\ Cardinality({x[2] : x \in {y \in UNION {Ways[d] : d \in DOMAIN Ways} :
                                    y[1] = NULL}}) = 1

(* The powers of two.                                                      *)
TwoTo ==
  LET p[d \in 0 .. Len(tree.node) + 1] == IF d = 0 THEN 1 ELSE 2 * p[d - 1]
  IN p

(* So no way is longer than twice the logarithm of the number of nodes:    *)
(* the recursion of retrieve_match stays shallow.                          *)
Shallow ==
  pc = "idle" =>
    \A d \in DOMAIN Ways :
      TwoTo[d] > (Len(tree.node) + 1) * (Len(tree.node) + 1) => Ways[d] = {}

(* Every lookup and every insertion comes to its end.                      *)
EveryCallEnds == pc \in {"finding", "placing", "checking"} ~> pc \in {"idle", "found"}
=============================================================================
