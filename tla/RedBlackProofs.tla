-------------------------- MODULE RedBlackProofs --------------------------
(***************************************************************************)
(* Proofs about RedBlack for any set of room names and any number of       *)
(* rooms: a lookup finds the room if there is one, no name gets a second   *)
(* room, and between two calls the tree keeps the colours of a red-black   *)
(* tree.                                                                   *)
(*                                                                         *)
(* What the tree is as a whole is carried through the steps by two         *)
(* functions that the code does not have: S gives the nodes at and below a *)
(* node, h the number of black nodes on the ways down from it.  A rotation *)
(* changes either at two nodes only.                                       *)
(***************************************************************************)
EXTENDS RedBlack, FiniteSetTheorems, SeqLemmas

USE DEF NULL, LEFT, RIGHT, Side

In(t)     == 1 .. Len(t.node)
At(t)     == {NULL} \cup In(t)
Key(t, n) == t.node[n].room

(* A node, wherever its pointers lead.                                     *)
Cell == [room : Name, cflag : {"red", "black"},
         parent : Nat, child : [Side -> Nat]]

Shape(t) ==
  /\ t \in [root : Nat, node : Seq(Cell)]
  /\ t.root \in At(t)
  /\ \A n \in In(t) :
       Parent(t, n) \in At(t) /\ \A s \in Side : Child(t, n, s) \in At(t)

(* The root is the only node without a parent; a node is its child's       *)
(* parent and its parent's child.                                          *)
Linked(t) ==
  /\ \A n \in In(t) : Parent(t, n) = NULL => n = t.root
  /\ t.root # NULL => Parent(t, t.root) = NULL
  /\ \A n \in In(t), s \in Side :
       Child(t, n, s) # NULL => Parent(t, Child(t, n, s)) = n
  /\ \A n \in In(t) :
       Parent(t, n) # NULL => \E s \in Side : Child(t, Parent(t, n), s) = n

(* S[n] are the nodes at and below n.                                      *)
Covers(t, S) ==
  /\ S \in [At(t) -> SUBSET In(t)]
  /\ S[NULL] = {}
  /\ S[t.root] = In(t)
  /\ \A n \in In(t) : S[n] = {n} \cup S[Child(t, n, LEFT)] \cup S[Child(t, n, RIGHT)]
  /\ \A m \in In(t) : \A x \in S[m] :
       S[x] \subseteq S[m] /\ (x # m => Parent(t, x) \in S[m])

(* The side on which a name belongs.                                       *)
Turn(k, l) == IF k < l THEN LEFT ELSE RIGHT

(* What is below a node on a side belongs there.                           *)
Ordered(t, S) ==
  \A n \in In(t), s \in Side : \A m \in S[Child(t, n, s)] :
    Key(t, m) # Key(t, n) /\ s = Turn(Key(t, m), Key(t, n))

SearchTree(t, S) == Shape(t) /\ Linked(t) /\ Covers(t, S) /\ Ordered(t, S)

Unique(t) == \A m, n \in In(t) : Key(t, m) = Key(t, n) => m = n

Blacks(t, n) == IF IsRed(t, n) THEN 0 ELSE 1

(* The ways down from n pass h[n] black nodes.  Below a red node there are *)
(* black ones, but for x, whose parent may be red, or which may be the     *)
(* root.                                                                   *)
Coloured(t, h, x) ==
  /\ h \in [At(t) -> Nat]
  /\ h[NULL] = 0
  /\ \A n \in In(t), s \in Side : h[n] = h[Child(t, n, s)] + Blacks(t, n)
  /\ \A n \in In(t), s \in Side :
       IsRed(t, n) /\ IsRed(t, Child(t, n, s)) => Child(t, n, s) = x
  /\ IsRed(t, t.root) => t.root = x

-----------------------------------------------------------------------------
(* Painting a node.                                                        *)

LEMMA ShapeType ==
  ASSUME NEW t, Shape(t)
  PROVE  /\ Len(t.node) \in Nat /\ In(t) \subseteq Nat /\ NULL \notin In(t)
         /\ t.node \in [In(t) -> Cell]
         /\ \A n \in In(t) :
              /\ Key(t, n) \in Name /\ Key(t, n) \in Nat
              /\ Parent(t, n) \in At(t)
              /\ \A s \in Side : Child(t, n, s) \in At(t)
<1>1. t.node \in Seq(Cell)
  BY DEF Shape
<1>2. Len(t.node) \in Nat /\ t.node \in [In(t) -> Cell]
  BY <1>1, LenProperties DEF In
<1>3. \A n \in In(t) : Key(t, n) \in Name
  BY <1>2 DEF Key, Cell
<1>4. In(t) \subseteq Nat /\ NULL \notin In(t)
  BY <1>2 DEF In
<1>5. \A n \in In(t) :
        Parent(t, n) \in At(t) /\ \A s \in Side : Child(t, n, s) \in At(t)
  BY DEF Shape
<1> QED BY <1>2, <1>3, <1>4, <1>5, NameAssumption

(* The same nodes, names and pointers.                                     *)
Alike(t, u) ==
  /\ Len(u.node) = Len(t.node) /\ u.root = t.root
  /\ \A n \in In(t) :
       /\ Key(u, n) = Key(t, n) /\ Parent(u, n) = Parent(t, n)
       /\ \A s \in Side : Child(u, n, s) = Child(t, n, s)

Paint(t, n, c) == [t EXCEPT !.node[n].cflag = c]

LEMMA Painted ==
  ASSUME NEW t, Shape(t), NEW n \in In(t), NEW c \in {"red", "black"}
  PROVE  /\ Paint(t, n, c) \in [root : Nat, node : Seq(Cell)]
         /\ Alike(t, Paint(t, n, c))
         /\ \A m \in In(t) :
              IsRed(Paint(t, n, c), m) <=> IF m = n THEN c = "red" ELSE IsRed(t, m)
<1> DEFINE new  == [t.node[n] EXCEPT !.cflag = c]
           node == [t.node EXCEPT ![n] = new]
           u    == Paint(t, n, c)
<1>1. t \in [root : Nat, node : Seq(Cell)] /\ t.node \in [In(t) -> Cell]
  BY ShapeType DEF Shape
<1>2. u = [t EXCEPT !.node = [t.node EXCEPT ![n] = [t.node[n] EXCEPT !.cflag = c]]]
  BY <1>1 DEF Paint
<1>3. /\ new \in Cell
      /\ new.room = t.node[n].room /\ new.parent = t.node[n].parent
      /\ new.child = t.node[n].child /\ new.cflag = c
  BY <1>1 DEF Cell
<1>4. u = [t EXCEPT !.node = node]
  BY <1>2
<1>5. t.node \in Seq(Cell) /\ n \in 1 .. Len(t.node)
  BY <1>1 DEF In
<1> HIDE DEF u, new
<1>6. /\ node \in Seq(Cell) /\ Len(node) = Len(t.node)
      /\ \A m \in 1 .. Len(t.node) : node[m] = IF m = n THEN new ELSE t.node[m]
  BY <1>3, <1>5, ExceptSeq
<1> HIDE DEF node
<1>7. u = [root |-> t.root, node |-> node]
  BY <1>1, <1>4
<1>8. /\ u \in [root : Nat, node : Seq(Cell)] /\ u.root = t.root
      /\ u.node \in Seq(Cell) /\ Len(u.node) = Len(t.node)
      /\ \A m \in In(t) : u.node[m] = IF m = n THEN new ELSE t.node[m]
  BY <1>1, <1>6, <1>7 DEF In
<1>9. Alike(t, u)
  BY <1>3, <1>8 DEF Alike, Key, Parent, Child
<1>10. \A m \in In(t) : m # NULL
  BY ShapeType
<1>11. \A m \in In(t) : IsRed(u, m) <=> IF m = n THEN c = "red" ELSE IsRed(t, m)
  BY <1>3, <1>8, <1>10 DEF IsRed
<1> QED BY <1>8, <1>9, <1>11 DEF u

LEMMA PaintedBlack ==
  ASSUME NEW t, Shape(t), NEW n \in In(t)
  PROVE  /\ Black(t, n) \in [root : Nat, node : Seq(Cell)]
         /\ Alike(t, Black(t, n))
         /\ \A m \in In(t) : IsRed(Black(t, n), m) <=> m # n /\ IsRed(t, m)
<1>1. Black(t, n) = Paint(t, n, "black")
  BY DEF Black, Paint
<1> QED BY <1>1, Painted

LEMMA PaintedRed ==
  ASSUME NEW t, Shape(t), NEW n \in In(t)
  PROVE  /\ Red(t, n) \in [root : Nat, node : Seq(Cell)]
         /\ Alike(t, Red(t, n))
         /\ \A m \in In(t) : IsRed(Red(t, n), m) <=> m = n \/ IsRed(t, m)
<1>1. Red(t, n) = Paint(t, n, "red")
  BY DEF Red, Paint
<1> QED BY <1>1, Painted

(* Such a tree keeps its form.                                             *)
LEMMA AlikeKeeps ==
  ASSUME NEW t, NEW S, SearchTree(t, S), NEW u, Alike(t, u),
         u \in [root : Nat, node : Seq(Cell)]
  PROVE  SearchTree(u, S) /\ In(u) = In(t)
<1>1. In(u) = In(t) /\ At(u) = At(t) /\ u.root = t.root
  BY DEF Alike, In, At
<1>2. \A n \in In(t) :
        /\ Key(u, n) = Key(t, n) /\ Parent(u, n) = Parent(t, n)
        /\ \A s \in Side : Child(u, n, s) = Child(t, n, s)
  BY DEF Alike
<1>3. \A n \in In(t), s \in Side :
        Child(t, n, s) # NULL => Child(t, n, s) \in In(t)
  BY DEF SearchTree, Shape, At
<1>4. Shape(u)
  BY <1>1, <1>2 DEF Shape, SearchTree
<1>5. Linked(u)
  <2>1. t.root # NULL => t.root \in In(t)
    BY DEF SearchTree, Shape, At
  <2>2. Linked(t)
    BY DEF SearchTree
  <2>3. \A n \in In(t) : Parent(t, n) # NULL => Parent(t, n) \in In(t)
    BY DEF SearchTree, Shape, At
  <2>4. \A n \in In(u) : Parent(u, n) = NULL => n = u.root
    BY <1>1, <1>2, <2>2 DEF Linked
  <2>5. u.root # NULL => Parent(u, u.root) = NULL
    BY <1>1, <1>2, <2>1, <2>2 DEF Linked
  <2>6. \A n \in In(u), s \in Side :
          Child(u, n, s) # NULL => Parent(u, Child(u, n, s)) = n
    BY <1>1, <1>2, <1>3, <2>2 DEF Linked
  <2>7. \A n \in In(u) :
          Parent(u, n) # NULL => \E s \in Side : Child(u, Parent(u, n), s) = n
    BY <1>1, <1>2, <2>2, <2>3 DEF Linked
  <2> QED BY <2>4, <2>5, <2>6, <2>7 DEF Linked
<1>6. Covers(u, S)
  <2>1. \A m \in In(t) : \A x \in S[m] : x \in In(t)
    BY DEF SearchTree, Covers, At
  <2> QED BY <1>1, <1>2, <2>1 DEF Covers, SearchTree
<1>7. Ordered(u, S)
  <2>1. \A n \in In(t), s \in Side : \A m \in S[Child(t, n, s)] : m \in In(t)
    BY DEF SearchTree, Covers, Shape
  <2> QED BY <1>1, <1>2, <2>1 DEF Ordered, SearchTree
<1> QED BY <1>1, <1>4, <1>5, <1>6, <1>7 DEF SearchTree

-----------------------------------------------------------------------------
(* Rotating a node down.                                                   *)

LEMMA Below ==
  ASSUME NEW t, NEW S, SearchTree(t, S), NEW n \in In(t), NEW s \in Side,
         NEW c, c = Child(t, n, s), c # NULL
  PROVE  /\ c \in In(t) /\ Parent(t, c) = n
         /\ c \in S[c] /\ c \in S[n] /\ S[c] \subseteq S[n]
         /\ n \notin S[c] /\ c # n
<1>1. c \in In(t) /\ Parent(t, c) = n
  BY DEF SearchTree, Shape, Linked, At
<1>2. c \in S[c] /\ S[c] \subseteq S[n]
  BY <1>1 DEF SearchTree, Covers
<1>3. n \notin S[c]
  BY DEF SearchTree, Ordered
<1> QED BY <1>1, <1>2, <1>3

(* The nodes that a rotation changes are different ones.                   *)
LEMMA Family ==
  ASSUME NEW t, NEW S, SearchTree(t, S), NEW n \in In(t), NEW side \in Side,
         NEW up, up = Child(t, n, 1 - side), up # NULL,
         NEW over, over = Child(t, up, side)
  PROVE  /\ up \in In(t) /\ over \in At(t) /\ up # n /\ over # n /\ over # up
         /\ Parent(t, up) = n /\ (over # NULL => Parent(t, over) = up)
         /\ Parent(t, n) \in At(t) /\ Parent(t, n) \notin {n, up}
         /\ Parent(t, n) = over => over = NULL
<1>0. 1 - side \in Side
  OBVIOUS
<1>1. /\ up \in In(t) /\ Parent(t, up) = n /\ up # n
      /\ n \notin S[up]
  BY <1>0, Below
<1>2. over \in At(t) /\ Parent(t, n) \in At(t)
  BY <1>1 DEF SearchTree, Shape
<1>3. over # NULL =>
        /\ over \in In(t) /\ Parent(t, over) = up /\ over # up
        /\ over \in S[up] /\ S[over] \subseteq S[up]
  BY <1>1, Below
<1>4. over # n /\ over # up
  <2>1. n # NULL /\ up # NULL
    BY ShapeType DEF SearchTree
  <2> QED BY <1>1, <1>3, <2>1
<1>5. ASSUME Parent(t, n) \in {n, up, over}, Parent(t, n) # NULL
      PROVE  FALSE
  <2>1. PICK s \in Side : Child(t, Parent(t, n), s) = n
    BY <1>5 DEF SearchTree, Linked
  <2>2. n # NULL /\ Parent(t, n) \in In(t)
    BY <1>2, <1>5, ShapeType DEF SearchTree, At
  <2>3. n # Parent(t, n) /\ n \in S[Parent(t, n)]
    BY <2>1, <2>2, Below
  <2> QED BY <1>1, <1>3, <1>5, <2>3
<1>6. n # NULL /\ up # NULL
  BY ShapeType DEF SearchTree
<1> QED BY <1>1, <1>2, <1>3, <1>4, <1>5, <1>6

(* A rotation, pointer by pointer.                                         *)
LEMMA RotatedNodes ==
  ASSUME NEW t, NEW S, SearchTree(t, S), NEW n \in In(t), NEW side \in Side,
         Child(t, n, 1 - side) # NULL
  PROVE  LET up   == Child(t, n, 1 - side)
             over == Child(t, up, side)
             r    == Rotated(t, n, side)
         IN
         /\ r \in [root : Nat, node : Seq(Cell)]
         /\ Len(r.node) = Len(t.node)
         /\ r.root = IF Parent(t, n) = NULL THEN up ELSE t.root
         /\ \A m \in In(t) :
              /\ Key(r, m) = Key(t, m) /\ (IsRed(r, m) <=> IsRed(t, m))
              /\ Parent(r, m) = IF m = n THEN up
                                ELSE IF m = up THEN Parent(t, n)
                                ELSE IF m = over THEN n ELSE Parent(t, m)
              /\ \A s \in Side :
                   Child(r, m, s) = IF m = n /\ s = 1 - side THEN over
                                    ELSE IF m = up /\ s = side THEN n
                                    ELSE IF m = Parent(t, n) /\ Child(t, m, s) = n THEN up
                                    ELSE Child(t, m, s)
<1> DEFINE p    == Parent(t, n)
           up   == Child(t, n, 1 - side)
           over == Child(t, up, side)
           r    == Rotated(t, n, side)
           New(m) ==
             CASE m = n -> [t.node[n] EXCEPT !.child[1 - side] = over, !.parent = up]
               [] m = up -> [t.node[up] EXCEPT !.child[side] = n, !.parent = p]
               [] m = over -> [t.node[over] EXCEPT !.parent = n]
               [] m = p ->
                    [t.node[m] EXCEPT !.child = [s \in Side |-> IF @[s] = n THEN up ELSE @[s]]]
               [] OTHER -> t.node[m]
           node == [m \in DOMAIN t.node |-> New(m)]
<1>1. /\ up \in In(t) /\ over \in At(t) /\ up # n /\ over # n /\ over # up
      /\ p \in At(t) /\ p \notin {n, up} /\ (p = over => over = NULL)
  BY Family
<1>2. /\ t \in [root : Nat, node : Seq(Cell)] /\ t.node \in [In(t) -> Cell]
      /\ In(t) \subseteq Nat /\ At(t) \subseteq Nat /\ n \in Nat
      /\ Len(t.node) \in Nat /\ In(t) = 1 .. Len(t.node) /\ DOMAIN t.node = In(t)
  BY ShapeType DEF SearchTree, Shape, At, In
<1>3. r = [root |-> IF p = NULL THEN up ELSE t.root, node |-> node]
  BY Zenon DEF Rotated
<1> HIDE DEF New, up, over, r, p
<1>4. ASSUME NEW m \in In(t)
      PROVE  /\ New(m) \in Cell
             /\ New(m).room = t.node[m].room /\ New(m).cflag = t.node[m].cflag
             /\ New(m).parent = IF m = n THEN up
                                ELSE IF m = up THEN p
                                ELSE IF m = over THEN n ELSE t.node[m].parent
             /\ \A s \in Side :
                  New(m).child[s] = IF m = n /\ s = 1 - side THEN over
                                    ELSE IF m = up /\ s = side THEN n
                                    ELSE IF m = p /\ t.node[m].child[s] = n THEN up
                                    ELSE t.node[m].child[s]
  <2>1. /\ t.node[m] \in Cell /\ t.node[n] \in Cell /\ t.node[up] \in Cell
        /\ t.node[m].child \in [Side -> Nat]
    BY <1>1, <1>2 DEF Cell
  <2>2. CASE m = n
    <3> DEFINE child == [t.node[n].child EXCEPT ![1 - side] = over]
    <3>1. New(m) = [t.node[n] EXCEPT !.child[1 - side] = over, !.parent = up]
      BY <1>1, <2>2 DEF New
    <3>2. New(m) = [t.node[n] EXCEPT !.child = child, !.parent = up]
      BY <3>1
    <3>3. /\ child \in [Side -> Nat]
          /\ \A s \in Side : child[s] = IF s = 1 - side THEN over
                                        ELSE t.node[n].child[s]
      BY <1>1, <1>2, <2>1, <2>2
    <3> HIDE DEF child
    <3>4. /\ New(m) \in Cell
          /\ New(m).room = t.node[m].room /\ New(m).cflag = t.node[m].cflag
          /\ New(m).parent = up /\ New(m).child = child
      BY <1>1, <1>2, <2>1, <2>2, <3>2, <3>3 DEF Cell
    <3> QED BY <1>1, <2>2, <3>3, <3>4
  <2>3. CASE m = up
    <3> DEFINE child == [t.node[up].child EXCEPT ![side] = n]
    <3>1. New(m) = [t.node[up] EXCEPT !.child[side] = n, !.parent = p]
      BY <1>1, <2>3 DEF New
    <3>2. New(m) = [t.node[up] EXCEPT !.child = child, !.parent = p]
      BY <3>1
    <3>3. /\ child \in [Side -> Nat]
          /\ \A s \in Side : child[s] = IF s = side THEN n
                                        ELSE t.node[up].child[s]
      BY <1>1, <1>2, <2>1, <2>3
    <3> HIDE DEF child
    <3>4. /\ New(m) \in Cell
          /\ New(m).room = t.node[m].room /\ New(m).cflag = t.node[m].cflag
          /\ New(m).parent = p /\ New(m).child = child
      BY <1>1, <1>2, <2>1, <2>3, <3>2, <3>3 DEF Cell
    <3> QED BY <1>1, <2>3, <3>3, <3>4
  <2>4. CASE m = over
    <3>1. New(m) = [t.node[over] EXCEPT !.parent = n]
      <4>1. m # n /\ m # up /\ m = over /\ m # p
        BY <1>1, <1>2, <2>4
      <4> QED BY <4>1, Zenon DEF New
    <3>2. m # p
      BY <1>1, <1>2, <2>4
    <3> QED BY <1>1, <1>2, <2>1, <2>4, <3>1, <3>2 DEF Cell
  <2>5. CASE m = p
    <3> DEFINE child == [s \in Side |-> IF t.node[m].child[s] = n THEN up
                                        ELSE t.node[m].child[s]]
    <3>0. m # over
      BY <1>1, <1>2, <2>5 DEF In
    <3>1. New(m) = [t.node[m] EXCEPT !.child = child]
      BY <1>1, <2>5, <3>0 DEF New
    <3>2. child \in [Side -> Nat]
      BY <1>1, <1>2, <2>1
    <3>3. \A s \in Side : child[s] = IF t.node[m].child[s] = n THEN up
                                      ELSE t.node[m].child[s]
      OBVIOUS
    <3> HIDE DEF child
    <3>4. /\ New(m) \in Cell
          /\ New(m).room = t.node[m].room /\ New(m).cflag = t.node[m].cflag
          /\ New(m).parent = t.node[m].parent /\ New(m).child = child
      BY <2>1, <3>1, <3>2 DEF Cell
    <3> QED BY <1>1, <2>5, <3>0, <3>3, <3>4
  <2>6. CASE m \notin {n, up, over, p}
    <3>1. New(m) = t.node[m]
      BY <2>6 DEF New
    <3> QED BY <2>1, <2>6, <3>1
  <2> QED BY <2>2, <2>3, <2>4, <2>5, <2>6
<1>5. node \in [1 .. Len(t.node) -> Cell] /\ \A m \in In(t) : node[m] = New(m)
  BY <1>2, <1>4
<1> HIDE DEF node
<1>6. node \in Seq(Cell) /\ Len(node) = Len(t.node)
  BY <1>2, <1>5
<1>7. /\ r \in [root : Nat, node : Seq(Cell)]
      /\ r.root = (IF p = NULL THEN up ELSE t.root) /\ r.node = node
  BY <1>1, <1>2, <1>3, <1>6
<1>9. ASSUME NEW m \in In(t)
      PROVE  /\ Key(r, m) = Key(t, m) /\ (IsRed(r, m) <=> IsRed(t, m))
             /\ Parent(r, m) = IF m = n THEN up
                               ELSE IF m = up THEN p
                               ELSE IF m = over THEN n ELSE Parent(t, m)
             /\ \A s \in Side :
                  Child(r, m, s) = IF m = n /\ s = 1 - side THEN over
                                   ELSE IF m = up /\ s = side THEN n
                                   ELSE IF m = p /\ Child(t, m, s) = n THEN up
                                   ELSE Child(t, m, s)
  <2>1. r.node[m] = New(m)
    BY <1>5, <1>7
  <2>2. Key(r, m) = Key(t, m) /\ (IsRed(r, m) <=> IsRed(t, m))
    BY <1>4, <2>1 DEF Key, IsRed
  <2>3. Parent(r, m) = IF m = n THEN up
                       ELSE IF m = up THEN p
                       ELSE IF m = over THEN n ELSE Parent(t, m)
    BY <1>4, <2>1 DEF Parent
  <2>4. \A s \in Side :
          Child(r, m, s) = IF m = n /\ s = 1 - side THEN over
                           ELSE IF m = up /\ s = side THEN n
                           ELSE IF m = p /\ Child(t, m, s) = n THEN up
                           ELSE Child(t, m, s)
    BY <1>4, <2>1 DEF Child
  <2> QED BY <2>2, <2>3, <2>4
<1>10. Len(r.node) = Len(t.node)
  BY <1>6, <1>7
<1> QED BY <1>7, <1>9, <1>10 DEF up, over, r, p

(* Turn is a strict order, from either side.                               *)
LEMMA TurnOrder ==
  ASSUME NEW i \in Nat, NEW j \in Nat, NEW k \in Nat, NEW s \in Side
  PROVE  /\ i # j /\ s = Turn(i, j) => 1 - s = Turn(j, i)
         /\ i # j /\ j # k /\ s = Turn(i, j) /\ s = Turn(j, k) =>
              i # k /\ s = Turn(i, k)
BY DEF Turn

LEMMA RotatedTree ==
  ASSUME NEW t, NEW S, SearchTree(t, S), NEW n \in In(t), NEW side \in Side,
         Child(t, n, 1 - side) # NULL
  PROVE  \E S2 : SearchTree(Rotated(t, n, side), S2)
<1> DEFINE p    == Parent(t, n)
           up   == Child(t, n, 1 - side)
           over == Child(t, up, side)
           a    == Child(t, n, side)
           z    == Child(t, up, 1 - side)
           r    == Rotated(t, n, side)
<1>1. /\ up \in In(t) /\ over \in At(t) /\ up # n /\ over # n /\ over # up
      /\ Parent(t, up) = n /\ (over # NULL => Parent(t, over) = up)
      /\ p \in At(t) /\ p \notin {n, up} /\ (p = over => over = NULL)
  BY Family
<1>2. /\ r \in [root : Nat, node : Seq(Cell)] /\ Len(r.node) = Len(t.node)
      /\ r.root = IF p = NULL THEN up ELSE t.root
      /\ \A m \in In(t) :
           /\ Key(r, m) = Key(t, m)
           /\ Parent(r, m) = IF m = n THEN up
                             ELSE IF m = up THEN p
                             ELSE IF m = over THEN n ELSE Parent(t, m)
           /\ \A s \in Side :
                Child(r, m, s) = IF m = n /\ s = 1 - side THEN over
                                 ELSE IF m = up /\ s = side THEN n
                                 ELSE IF m = p /\ Child(t, m, s) = n THEN up
                                 ELSE Child(t, m, s)
  BY RotatedNodes
<1>3. up # NULL /\ up = Child(t, n, 1 - side) /\ over = Child(t, up, side)
      /\ a = Child(t, n, side) /\ z = Child(t, up, 1 - side) /\ p = Parent(t, n)
  OBVIOUS
<1> HIDE DEF p, up, over, a, z, r
<1>4. /\ In(r) = In(t) /\ At(r) = At(t)
      /\ At(t) = In(t) \cup {NULL} /\ NULL \notin In(t)
      /\ \A m \in In(t) : Key(t, m) \in Nat /\ Parent(t, m) \in At(t)
      /\ \A m \in In(t), s \in Side : Child(t, m, s) \in At(t)
      /\ t.root \in At(t) /\ a \in At(t) /\ z \in At(t)
  <2>1. Shape(t) /\ t.root \in At(t)
    BY DEF SearchTree, Shape
  <2>2. In(r) = In(t) /\ At(r) = At(t)
    BY <1>2 DEF In, At
  <2>3. /\ NULL \notin In(t)
        /\ \A m \in In(t) : Key(t, m) \in Nat /\ Parent(t, m) \in At(t)
        /\ \A m \in In(t), s \in Side : Child(t, m, s) \in At(t)
    BY <2>1, ShapeType
  <2>4. a \in At(t) /\ z \in At(t)
    BY <1>1, <1>3, <2>3
  <2> QED BY <2>1, <2>2, <2>3, <2>4 DEF At
<1>5. 1 - side \in Side /\ 1 - side # side /\ \A s \in Side : s \in {side, 1 - side}
  OBVIOUS
<1>6. Linked(t)
  BY DEF SearchTree
<1>7. \A m \in In(t), s \in Side :
        /\ Child(t, m, s) = n => m = p
        /\ Child(t, m, s) = up => m = n
        /\ Child(t, m, s) = over /\ over # NULL => m = up
  BY <1>1, <1>3, <1>4, <1>6 DEF Linked
<1>8. a \notin {n, up} /\ z \notin {n, up}
  <2>1. a # n /\ z # up
    BY <1>1, <1>3, <1>4, <1>5, Below
  <2>2. z # n
    BY <1>1, <1>3, <1>5, <1>7
  <2>3. a = up => FALSE
    <3>1. up \in S[up]
      BY <1>1, <1>3, <1>5, Below
    <3>2. /\ \A m \in S[a] : side = Turn(Key(t, m), Key(t, n))
          /\ \A m \in S[up] : 1 - side = Turn(Key(t, m), Key(t, n))
      BY <1>3, <1>5 DEF SearchTree, Ordered
    <3> QED BY <1>5, <3>1, <3>2
  <2> QED BY <2>1, <2>2, <2>3
<1>9. Shape(r)
  <2>1. r.root \in At(t)
    BY <1>1, <1>2, <1>4
  <2>2. \A m \in In(t) : Parent(r, m) \in At(t)
    BY <1>1, <1>2, <1>4
  <2>3. \A m \in In(t), s \in Side : Child(r, m, s) \in At(t)
    BY <1>1, <1>2, <1>4
  <2> QED BY <1>2, <1>4, <2>1, <2>2, <2>3 DEF Shape
<1>10. Linked(r)
  <2>1. \A m \in In(t) : Parent(t, m) = NULL => m = t.root
    BY <1>6 DEF Linked
  <2>2. t.root # NULL => Parent(t, t.root) = NULL
    BY <1>6 DEF Linked
  <2>3. \A m \in In(t), s \in Side :
          Child(t, m, s) # NULL => Parent(t, Child(t, m, s)) = m
    BY <1>6 DEF Linked
  <2>4. \A m \in In(t) :
          Parent(t, m) # NULL => \E s \in Side : Child(t, Parent(t, m), s) = m
    BY <1>6 DEF Linked
  <2>5. \A m \in In(r) : Parent(r, m) = NULL => m = r.root
    BY <1>1, <1>2, <1>3, <1>4, <2>1
  <2>6. r.root # NULL => Parent(r, r.root) = NULL
    <3>1. CASE p = NULL
      BY <1>1, <1>2, <1>3, <3>1
    <3>2. CASE p # NULL
      <4>1. t.root \notin {n, up}
        BY <1>1, <1>3, <1>4, <2>2, <3>2
      <4>2. t.root = over => over = NULL
        BY <1>1, <1>3, <2>2
      <4> QED BY <1>2, <1>4, <2>2, <3>2, <4>1, <4>2
    <3> QED BY <3>1, <3>2
  <2>7. ASSUME NEW m \in In(t), NEW s \in Side, Child(r, m, s) # NULL
        PROVE  Parent(r, Child(r, m, s)) = m
    <3>1. CASE m = n /\ s = 1 - side
      BY <1>1, <1>2, <1>4, <2>7, <3>1
    <3>2. CASE m = up /\ s = side
      BY <1>1, <1>2, <1>4, <3>2
    <3>3. CASE m = p /\ Child(t, m, s) = n
      BY <1>1, <1>2, <1>4, <3>3
    <3>4. CASE ~(m = n /\ s = 1 - side) /\ ~(m = up /\ s = side)
               /\ ~(m = p /\ Child(t, m, s) = n)
      <4> DEFINE c == Child(t, m, s)
      <4>1. Child(r, m, s) = c /\ c # NULL /\ c \in In(t)
        BY <1>2, <1>4, <2>7, <3>4
      <4>2. Parent(t, c) = m
        BY <2>3, <4>1
      <4>3. c # n
        BY <1>7, <3>4
      <4>4. c # up
        <5>1. CASE m = n
          BY <1>3, <1>5, <1>8, <3>4, <5>1
        <5> QED BY <1>7, <5>1
      <4>5. c # over
        <5>1. CASE m = up
          <6>1. s = 1 - side
            BY <1>5, <3>4, <5>1
          <6>2. c = z /\ z \in In(t)
            BY <1>3, <4>1, <5>1, <6>1
          <6>3. z = over => FALSE
            <7>1. z \in S[z]
              BY <6>2 DEF SearchTree, Covers
            <7>2. \A q \in Side : \A x \in S[Child(t, up, q)] : q = Turn(Key(t, x), Key(t, up))
              BY <1>1 DEF SearchTree, Ordered
            <7> QED BY <1>3, <1>5, <7>1, <7>2
          <6> QED BY <6>2, <6>3
        <5> QED BY <1>7, <4>1, <5>1
      <4> QED BY <1>2, <4>1, <4>2, <4>3, <4>4, <4>5
    <3> QED BY <3>1, <3>2, <3>3, <3>4
  <2>8. ASSUME NEW m \in In(t), Parent(r, m) # NULL
        PROVE  \E s \in Side : Child(r, Parent(r, m), s) = m
    <3>1. CASE m = n
      BY <1>1, <1>2, <3>1
    <3>2. CASE m = up
      <4>1. p # NULL /\ p \in In(t) /\ Parent(r, m) = p
        BY <1>1, <1>2, <1>4, <2>8, <3>2
      <4>2. PICK s \in Side : Child(t, p, s) = n
        BY <1>3, <2>4, <4>1
      <4>3. Child(r, p, s) = up
        BY <1>1, <1>2, <4>1, <4>2
      <4> QED BY <3>2, <4>1, <4>3
    <3>3. CASE m = over
      <4>1. Parent(r, m) = n
        BY <1>1, <1>2, <3>3
      <4>2. Child(r, n, 1 - side) = over
        BY <1>2, <1>5
      <4> QED BY <1>5, <3>3, <4>1, <4>2
    <3>4. CASE m \notin {n, up, over}
      <4> DEFINE q == Parent(t, m)
      <4>1. Parent(r, m) = q /\ q # NULL /\ q \in In(t)
        BY <1>2, <1>4, <2>8, <3>4
      <4>2. PICK s \in Side : Child(t, q, s) = m
        BY <2>4, <4>1
      <4>3. ~(q = n /\ s = 1 - side) /\ ~(q = up /\ s = side)
        BY <1>3, <3>4, <4>2
      <4>4. Child(r, q, s) = m
        BY <1>2, <3>4, <4>1, <4>2, <4>3
      <4> QED BY <4>1, <4>4
    <3> QED BY <3>1, <3>2, <3>3, <3>4
  <2> QED BY <1>4, <2>5, <2>6, <2>7, <2>8 DEF Linked
<1> DEFINE S2 == [S EXCEPT ![up] = S[n], ![n] = {n} \cup S[a] \cup S[over]]
<1>11. /\ S \in [At(t) -> SUBSET In(t)] /\ S[NULL] = {} /\ S[t.root] = In(t)
       /\ \A m \in In(t) : S[m] = {m} \cup S[Child(t, m, side)] \cup S[Child(t, m, 1 - side)]
       /\ \A m \in In(t) : \A x \in S[m] : S[x] \subseteq S[m]
       /\ \A m \in In(t) : \A x \in S[m] : x # m => Parent(t, x) \in S[m]
  BY <1>5 DEF SearchTree, Covers
<1>12. /\ S2[up] = S[n] /\ S2[n] = {n} \cup S[a] \cup S[over]
       /\ \A m \in At(t) : m \notin {n, up} => S2[m] = S[m]
       /\ S2 \in [At(t) -> SUBSET In(t)]
  BY <1>1, <1>4, <1>11
<1> HIDE DEF S2
<1>13. S[n] = {n} \cup S[a] \cup S[up] /\ S[up] = {up} \cup S[over] \cup S[z]
  BY <1>1, <1>3, <1>11
<1>14. /\ \A x \in S[a] : x \in In(t) /\ Key(t, x) # Key(t, n) /\ side = Turn(Key(t, x), Key(t, n))
       /\ \A x \in S[up] : x \in In(t) /\ Key(t, x) # Key(t, n) /\ 1 - side = Turn(Key(t, x), Key(t, n))
       /\ \A x \in S[over] : x \in In(t) /\ Key(t, x) # Key(t, up) /\ side = Turn(Key(t, x), Key(t, up))
       /\ \A x \in S[z] : x \in In(t) /\ Key(t, x) # Key(t, up) /\ 1 - side = Turn(Key(t, x), Key(t, up))
  BY <1>1, <1>3, <1>4, <1>5, <1>11 DEF SearchTree, Ordered
<1>15. Covers(r, S2)
  <2>1. S2[NULL] = {}
    BY <1>1, <1>4, <1>11, <1>12
  <2>2. S2[r.root] = In(r)
    <3>1. CASE p = NULL
      <4>1. t.root = n
        BY <1>3, <1>6, <3>1 DEF Linked
      <4> QED BY <1>2, <1>4, <1>11, <1>12, <3>1, <4>1
    <3>2. CASE p # NULL
      <4>1. t.root \notin {n, up}
        BY <1>1, <1>3, <1>4, <1>6, <3>2 DEF Linked
      <4> QED BY <1>2, <1>4, <1>11, <1>12, <3>2, <4>1
    <3> QED BY <3>1, <3>2
  <2>3. ASSUME NEW m \in In(t)
        PROVE  S2[m] = {m} \cup S2[Child(r, m, side)] \cup S2[Child(r, m, 1 - side)]
    <3>0. S2[a] = S[a] /\ S2[z] = S[z] /\ S2[over] = S[over]
      BY <1>1, <1>4, <1>8, <1>12
    <3>1. CASE m = n
      <4>1. Child(r, m, side) = a /\ Child(r, m, 1 - side) = over
        BY <1>1, <1>2, <1>3, <1>5, <3>1
      <4> QED BY <1>12, <3>0, <3>1, <4>1
    <3>2. CASE m = up
      <4>1. Child(r, m, side) = n /\ Child(r, m, 1 - side) = z
        BY <1>1, <1>2, <1>3, <1>5, <3>2
      <4> QED BY <1>12, <1>13, <3>0, <3>2, <4>1
    <3>3. CASE m \notin {n, up}
      <4>1. \A s \in Side : S2[Child(r, m, s)] = S[Child(t, m, s)]
        <5>1. SUFFICES ASSUME NEW s \in Side
                       PROVE  S2[Child(r, m, s)] = S[Child(t, m, s)]
          OBVIOUS
        <5>2. CASE m = p /\ Child(t, m, s) = n
          BY <1>2, <1>12, <3>3, <5>2
        <5>3. CASE ~(m = p /\ Child(t, m, s) = n)
          <6>1. Child(r, m, s) = Child(t, m, s) /\ Child(t, m, s) \in At(t)
            BY <1>2, <1>4, <3>3, <5>3
          <6>2. Child(t, m, s) \notin {n, up}
            BY <1>7, <3>3, <5>3
          <6> QED BY <1>12, <6>1, <6>2
        <5> QED BY <5>2, <5>3
      <4>2. S2[m] = S[m]
        BY <1>4, <1>12, <3>3
      <4> QED BY <1>5, <1>11, <4>1, <4>2
    <3> QED BY <3>1, <3>2, <3>3
  <2>4. ASSUME NEW m \in In(t), NEW x \in S2[m]
        PROVE  S2[x] \subseteq S2[m] /\ (x # m => Parent(r, x) \in S2[m])
    <3>0. x \in In(t) /\ n \in S[n] /\ up \in S[n] /\ S2[n] \subseteq S[n]
      BY <1>4, <1>12, <1>13
    <3>1. CASE m = up
      <4>1. x \in S[n] /\ S2[m] = S[n]
        BY <1>12, <3>1
      <4>2. S2[x] \subseteq S[n]
        BY <1>4, <1>11, <1>12, <3>0, <4>1
      <4>3. x # m => Parent(r, x) \in S[n]
        BY <1>2, <1>11, <3>0, <3>1, <4>1
      <4> QED BY <4>1, <4>2, <4>3
    <3>2. CASE m = n
      <4>1. CASE x = n
        BY <3>2, <4>1
      <4>2. CASE x \in S[a]
        <5>1. a \in In(t)
          BY <1>4, <1>11, <4>2
        <5>2. n \notin S[a]
          BY <1>14
        <5>3. up \notin S[a] /\ \A y \in S[up] : y \notin S[a]
          BY <1>5, <1>13, <1>14
        <5>4. over \in In(t) => over \notin S[a]
          BY <1>13, <5>3, <1>11
        <5>5. x \notin {n, up, over}
          BY <3>0, <4>2, <5>2, <5>3, <5>4
        <5>6. S2[x] = S[x] /\ S[x] \subseteq S[a]
          BY <1>4, <1>11, <1>12, <3>0, <4>2, <5>1, <5>5
        <5>7. Parent(r, x) = Parent(t, x)
          BY <1>2, <3>0, <5>5
        <5>8. x = a => Parent(t, x) = n
          BY <1>3, <1>4, <1>6, <5>1 DEF Linked
        <5>9. x # a => Parent(t, x) \in S[a]
          BY <1>11, <4>2, <5>1
        <5> QED BY <1>12, <3>2, <5>6, <5>7, <5>8, <5>9
      <4>3. CASE x \in S[over]
        <5>1. over \in In(t)
          BY <1>1, <1>4, <1>11, <4>3
        <5>2. n \notin S[over] /\ up \notin S[over]
          BY <1>13, <1>14
        <5>3. S2[x] = S[x] /\ S[x] \subseteq S[over]
          BY <1>4, <1>11, <1>12, <3>0, <4>3, <5>1, <5>2
        <5>4. x = over => Parent(r, x) = n
          BY <1>1, <1>2, <5>1
        <5>5. x # over => Parent(r, x) \in S[over]
          BY <1>2, <1>11, <3>0, <4>3, <5>1, <5>2
        <5> QED BY <1>12, <3>2, <5>3, <5>4, <5>5
      <4> QED BY <1>12, <3>2, <4>1, <4>2, <4>3
    <3>3. CASE m \notin {n, up}
      <4>1. S2[m] = S[m] /\ x \in S[m]
        BY <1>4, <1>12, <3>3
      <4>2. CASE x = n
        <5>1. S2[x] \subseteq S[m] /\ up \in S[m]
          BY <1>11, <3>0, <4>1, <4>2
        <5> QED BY <1>2, <4>1, <4>2, <5>1
      <4>3. CASE x = up
        <5>1. n \in S[m]
          BY <1>1, <1>11, <3>3, <4>1, <4>3
        <5>2. S[n] \subseteq S[m] /\ p \in S[m]
          BY <1>3, <1>11, <3>3, <5>1
        <5> QED BY <1>1, <1>2, <1>12, <4>1, <4>3, <5>2
      <4>4. CASE x = over
        <5>1. S2[x] \subseteq S[m]
          BY <1>1, <1>4, <1>11, <1>12, <3>0, <4>1, <4>4
        <5>2. ASSUME x # m PROVE n \in S[m]
          <6>1. Parent(t, over) = up /\ over # NULL
            BY <1>1, <1>4, <3>0, <4>4
          <6>2. up \in S[m]
            BY <1>11, <4>1, <4>4, <5>2, <6>1
          <6> QED BY <1>1, <1>11, <3>3, <6>2
        <5>3. Parent(r, x) = n
          BY <1>1, <1>2, <3>0, <4>4
        <5> QED BY <4>1, <5>1, <5>2, <5>3
      <4>5. CASE x \notin {n, up, over}
        BY <1>2, <1>4, <1>11, <1>12, <3>0, <4>1, <4>5
      <4> QED BY <4>2, <4>3, <4>4, <4>5
    <3> QED BY <3>1, <3>2, <3>3
  <2>5. \A m \in In(t) : S2[m] = {m} \cup S2[Child(r, m, LEFT)] \cup S2[Child(r, m, RIGHT)]
    <3>1. side = LEFT \/ side = RIGHT
      OBVIOUS
    <3> QED BY <2>3, <3>1
  <2> QED BY <1>4, <1>12, <2>1, <2>2, <2>4, <2>5 DEF Covers
<1>16. Ordered(r, S2)
  <2>1. SUFFICES ASSUME NEW m \in In(t), NEW s \in Side, NEW x \in S2[Child(r, m, s)]
                 PROVE  Key(t, x) # Key(t, m) /\ s = Turn(Key(t, x), Key(t, m))
    <3>1. \A m \in In(t), s \in Side : \A x \in S2[Child(r, m, s)] : x \in In(t)
      <4>1. \A m \in In(t), s \in Side : Child(r, m, s) \in At(t)
        BY <1>4, <1>9 DEF Shape
      <4> QED BY <1>12, <4>1
    <3> QED BY <1>2, <1>4, <2>1, <3>1 DEF Ordered
  <2>2. Key(t, n) \in Nat /\ Key(t, up) \in Nat /\ Key(t, m) \in Nat
    BY <1>1, <1>4
  <2>3. S2[a] = S[a] /\ S2[z] = S[z] /\ S2[over] = S[over]
    BY <1>1, <1>4, <1>8, <1>12
  <2>4. Key(t, up) # Key(t, n) /\ 1 - side = Turn(Key(t, up), Key(t, n))
    BY <1>13, <1>14
  <2>5. CASE m = n
    <3>1. CASE s = side
      <4>1. Child(r, m, s) = a
        BY <1>1, <1>2, <1>3, <1>5, <2>5, <3>1
      <4> QED BY <1>14, <2>1, <2>3, <2>5, <3>1, <4>1
    <3>2. CASE s = 1 - side
      <4>1. Child(r, m, s) = over
        BY <1>2, <2>5, <3>2
      <4> QED BY <1>13, <1>14, <2>1, <2>3, <2>5, <3>2, <4>1
    <3> QED BY <1>5, <3>1, <3>2
  <2>6. CASE m = up
    <3>1. CASE s = side
      <4>1. Child(r, m, s) = n
        BY <1>1, <1>2, <2>6, <3>1
      <4>2. Key(t, n) # Key(t, up) /\ side = Turn(Key(t, n), Key(t, up))
        <5>1. side = 1 - (1 - side)
          OBVIOUS
        <5> QED BY <1>5, <2>2, <2>4, <5>1, TurnOrder
      <4>3. CASE x = n
        BY <2>6, <3>1, <4>2, <4>3
      <4>4. CASE x \in S[over]
        BY <1>14, <2>6, <3>1, <4>4
      <4>5. CASE x \in S[a]
        <5>1. Key(t, x) \in Nat /\ Key(t, x) # Key(t, n) /\ side = Turn(Key(t, x), Key(t, n))
          BY <1>4, <1>14, <4>5
        <5>2. Key(t, x) # Key(t, up) /\ side = Turn(Key(t, x), Key(t, up))
          BY <2>2, <4>2, <5>1 DEF Turn
        <5> QED BY <2>6, <3>1, <5>2
      <4> QED BY <1>12, <2>1, <4>1, <4>3, <4>4, <4>5
    <3>2. CASE s = 1 - side
      <4>1. Child(r, m, s) = z
        BY <1>1, <1>2, <1>3, <1>5, <2>6, <3>2
      <4> QED BY <1>14, <2>1, <2>3, <2>6, <3>2, <4>1
    <3> QED BY <1>5, <3>1, <3>2
  <2>7. CASE m \notin {n, up}
    <3>1. S2[Child(r, m, s)] = S[Child(t, m, s)]
      <4>1. CASE m = p /\ Child(t, m, s) = n
        BY <1>2, <1>12, <2>7, <4>1
      <4>2. CASE ~(m = p /\ Child(t, m, s) = n)
        <5>1. Child(r, m, s) = Child(t, m, s) /\ Child(t, m, s) \in At(t)
          BY <1>2, <1>4, <2>7, <4>2
        <5>2. Child(t, m, s) \notin {n, up}
          BY <1>7, <2>7, <4>2
        <5> QED BY <1>12, <5>1, <5>2
      <4> QED BY <4>1, <4>2
    <3> QED BY <2>1, <3>1 DEF SearchTree, Ordered
  <2> QED BY <2>5, <2>6, <2>7
<1> QED BY <1>9, <1>10, <1>15, <1>16 DEF SearchTree, r

-----------------------------------------------------------------------------
(* A new leaf.                                                             *)

Placed(t, k, prev, side) ==
  LET new == Len(t.node) + 1
      node == [room |-> k, cflag |-> "red", parent |-> prev,
               child |-> [s \in Side |-> NULL]]
      below == IF prev = NULL THEN t.node
               ELSE [t.node EXCEPT ![prev].child[side] = new]
  IN [root |-> IF prev = NULL THEN new ELSE t.root, node |-> Append(below, node)]

LEMMA PlacedNodes ==
  ASSUME NEW t, Shape(t), NEW k \in Name, NEW prev \in At(t), NEW side \in Side,
         NEW new, new = Len(t.node) + 1,
         NEW r, r = Placed(t, k, prev, side)
  PROVE  /\ r \in [root : Nat, node : Seq(Cell)]
         /\ In(r) = In(t) \cup {new} /\ new \notin At(t)
         /\ r.root = IF prev = NULL THEN new ELSE t.root
         /\ Key(r, new) = k /\ IsRed(r, new) /\ Parent(r, new) = prev
         /\ \A s \in Side : Child(r, new, s) = NULL
         /\ \A m \in In(t) :
              /\ Key(r, m) = Key(t, m) /\ (IsRed(r, m) <=> IsRed(t, m))
              /\ Parent(r, m) = Parent(t, m)
              /\ \A s \in Side :
                   Child(r, m, s) = IF m = prev /\ s = side THEN new
                                    ELSE Child(t, m, s)
<1> DEFINE node  == [room |-> k, cflag |-> "red", parent |-> prev,
                     child |-> [s \in Side |-> NULL]]
           below == IF prev = NULL THEN t.node
                    ELSE [t.node EXCEPT ![prev].child[side] = new]
<1>1. /\ t.node \in Seq(Cell) /\ t.node \in [In(t) -> Cell]
      /\ Len(t.node) \in Nat /\ In(t) = 1 .. Len(t.node) /\ t.root \in Nat
      /\ At(t) \subseteq Nat /\ prev \in Nat /\ new \in Nat /\ new \notin At(t)
  BY ShapeType DEF Shape, In, At
<1>2. r = [root |-> IF prev = NULL THEN new ELSE t.root, node |-> Append(below, node)]
  BY DEF Placed
<1>3. /\ node \in Cell /\ node.room = k /\ node.cflag = "red"
      /\ node.parent = prev /\ \A s \in Side : node.child[s] = NULL
  BY <1>1 DEF Cell
<1>4. /\ below \in Seq(Cell) /\ Len(below) = Len(t.node)
      /\ \A m \in In(t) :
           /\ below[m].room = t.node[m].room /\ below[m].cflag = t.node[m].cflag
           /\ below[m].parent = t.node[m].parent
           /\ \A s \in Side :
                below[m].child[s] = IF m = prev /\ s = side THEN new
                                    ELSE t.node[m].child[s]
  <2>1. CASE prev = NULL
    BY <1>1, <2>1
  <2>2. CASE prev # NULL
    <3> DEFINE child == [t.node[prev].child EXCEPT ![side] = new]
               cell  == [t.node[prev] EXCEPT !.child = child]
    <3>1. prev \in In(t) /\ t.node[prev] \in Cell
          /\ t.node[prev].child \in [Side -> Nat]
      BY <1>1, <2>2 DEF At, Cell
    <3>2. below = [t.node EXCEPT ![prev] = cell]
      BY <2>2
    <3>3. /\ child \in [Side -> Nat]
          /\ \A s \in Side : child[s] = IF s = side THEN new ELSE t.node[prev].child[s]
      BY <1>1, <3>1
    <3> HIDE DEF child
    <3>4. /\ cell \in Cell /\ cell.child = child
          /\ cell.room = t.node[prev].room /\ cell.cflag = t.node[prev].cflag
          /\ cell.parent = t.node[prev].parent
      BY <3>1, <3>3 DEF Cell
    <3> HIDE DEF cell
    <3>5. /\ [t.node EXCEPT ![prev] = cell] \in Seq(Cell)
          /\ Len([t.node EXCEPT ![prev] = cell]) = Len(t.node)
          /\ \A m \in 1 .. Len(t.node) :
               [t.node EXCEPT ![prev] = cell][m] = IF m = prev THEN cell ELSE t.node[m]
      BY <1>1, <3>1, <3>4, ExceptSeq
    <3> HIDE DEF below
    <3> QED BY <1>1, <3>2, <3>3, <3>4, <3>5
  <2> QED BY <2>1, <2>2
<1> HIDE DEF node, below
<1>5. /\ Append(below, node) \in Seq(Cell)
      /\ Len(Append(below, node)) = new
      /\ \A m \in In(t) : Append(below, node)[m] = below[m]
      /\ Append(below, node)[new] = node
  BY <1>1, <1>3, <1>4, AppendProperties
<1>6. /\ r.node = Append(below, node)
      /\ r.root = IF prev = NULL THEN new ELSE t.root
  BY <1>2
<1>7. r \in [root : Nat, node : Seq(Cell)]
  BY <1>1, <1>2, <1>5
<1>8. In(r) = In(t) \cup {new}
  BY <1>1, <1>5, <1>6 DEF In
<1>9. /\ Key(r, new) = k /\ IsRed(r, new) /\ Parent(r, new) = prev
      /\ \A s \in Side : Child(r, new, s) = NULL
  BY <1>1, <1>3, <1>5, <1>6 DEF Key, IsRed, Parent, Child
<1>10. ASSUME NEW m \in In(t)
       PROVE  /\ Key(r, m) = Key(t, m) /\ (IsRed(r, m) <=> IsRed(t, m))
              /\ Parent(r, m) = Parent(t, m)
              /\ \A s \in Side :
                   Child(r, m, s) = IF m = prev /\ s = side THEN new
                                    ELSE Child(t, m, s)
  <2>1. r.node[m] = below[m]
    BY <1>5, <1>6
  <2> QED BY <1>4, <2>1 DEF Key, IsRed, Parent, Child
<1> QED BY <1>1, <1>6, <1>7, <1>8, <1>9, <1>10

(* The way down to prev is the one that a lookup of k takes.               *)
LeadsTo(t, S, k, prev) ==
  \A m \in In(t) : prev \in S[m] /\ m # prev =>
    prev \in S[Child(t, m, Turn(k, Key(t, m)))]

LEMMA PlacedTree ==
  ASSUME NEW t, NEW S, SearchTree(t, S), NEW k \in Name, NEW prev \in At(t),
         NEW side \in Side, \A m \in In(t) : Key(t, m) # k,
         prev = NULL => t.root = NULL,
         prev # NULL => Child(t, prev, side) = NULL /\ side = Turn(k, Key(t, prev)),
         LeadsTo(t, S, k, prev)
  PROVE  \E S2 : SearchTree(Placed(t, k, prev, side), S2)
<1> DEFINE new == Len(t.node) + 1
           r   == Placed(t, k, prev, side)
           S2  == [m \in At(r) |-> IF m = new THEN {new}
                                   ELSE IF prev \in S[m] THEN S[m] \cup {new} ELSE S[m]]
<1>1. /\ r \in [root : Nat, node : Seq(Cell)]
      /\ In(r) = In(t) \cup {new} /\ new \notin At(t)
      /\ r.root = (IF prev = NULL THEN new ELSE t.root)
      /\ Key(r, new) = k /\ Parent(r, new) = prev
      /\ \A s \in Side : Child(r, new, s) = NULL
      /\ \A m \in In(t) :
           /\ Key(r, m) = Key(t, m) /\ Parent(r, m) = Parent(t, m)
           /\ \A s \in Side :
                Child(r, m, s) = IF m = prev /\ s = side THEN new
                                 ELSE Child(t, m, s)
  BY PlacedNodes DEF SearchTree
<1>2. /\ NULL \notin In(t) /\ t.root \in At(t)
      /\ \A m \in In(t) : Parent(t, m) \in At(t)
      /\ \A m \in In(t), s \in Side : Child(t, m, s) \in At(t)
  BY ShapeType DEF SearchTree, Shape
<1>3. /\ S \in [At(t) -> SUBSET In(t)] /\ S[NULL] = {} /\ S[t.root] = In(t)
      /\ \A m \in In(t) : S[m] = {m} \cup S[Child(t, m, LEFT)] \cup S[Child(t, m, RIGHT)]
      /\ \A m \in In(t) : \A x \in S[m] : S[x] \subseteq S[m]
      /\ \A m \in In(t) : \A x \in S[m] : x # m => Parent(t, x) \in S[m]
  BY DEF SearchTree, Covers
<1>4. At(r) = At(t) \cup {new} /\ At(t) = In(t) \cup {NULL} /\ At(r) = In(r) \cup {NULL}
  BY <1>1 DEF At
<1>5. prev = NULL => In(t) = {}
  BY <1>3
<1>6. prev # NULL => prev \in In(t) /\ t.root # NULL
  BY <1>3, <1>4
<1>7. /\ S2[new] = {new}
      /\ \A m \in At(t) : prev \in S[m] => S2[m] = S[m] \cup {new}
      /\ \A m \in At(t) : prev \notin S[m] => S2[m] = S[m]
      /\ \A m \in At(t) : S[m] \subseteq S2[m] /\ S2[m] \subseteq S[m] \cup {new}
      /\ S2 \in [At(r) -> SUBSET In(r)]
  BY <1>1, <1>3, <1>4
<1> HIDE DEF new, r, S2
<1>8. Shape(r)
  <2>1. \A n \in In(r) : Parent(r, n) \in At(r)
    BY <1>1, <1>2, <1>4
  <2>2. \A n \in In(r), s \in Side : Child(r, n, s) \in At(r)
    BY <1>1, <1>2, <1>4
  <2> QED BY <1>1, <1>2, <1>4, <2>1, <2>2 DEF Shape
<1>9. Linked(r)
  <2>1. \A m \in In(t) : Parent(t, m) = NULL => m = t.root
    BY DEF SearchTree, Linked
  <2>2. t.root # NULL => Parent(t, t.root) = NULL
    BY DEF SearchTree, Linked
  <2>3. \A m \in In(t), s \in Side :
          Child(t, m, s) # NULL => Parent(t, Child(t, m, s)) = m
    BY DEF SearchTree, Linked
  <2>4. \A m \in In(t) :
          Parent(t, m) # NULL => \E s \in Side : Child(t, Parent(t, m), s) = m
    BY DEF SearchTree, Linked
  <2>5. \A m \in In(r) : Parent(r, m) = NULL => m = r.root
    BY <1>1, <1>5, <1>6, <2>1
  <2>6. r.root # NULL => Parent(r, r.root) = NULL
    BY <1>1, <1>2, <1>4, <1>6, <2>2
  <2>7. ASSUME NEW m \in In(r), NEW s \in Side, Child(r, m, s) # NULL
        PROVE  Parent(r, Child(r, m, s)) = m
    <3>1. m \in In(t)
      BY <1>1, <2>7
    <3>2. CASE m = prev /\ s = side
      BY <1>1, <3>1, <3>2
    <3>3. CASE ~(m = prev /\ s = side)
      BY <1>1, <1>2, <1>4, <2>3, <2>7, <3>1, <3>3
    <3> QED BY <3>2, <3>3
  <2>8. ASSUME NEW m \in In(r), Parent(r, m) # NULL
        PROVE  \E s \in Side : Child(r, Parent(r, m), s) = m
    <3>1. CASE m = new
      BY <1>1, <1>6, <2>8, <3>1
    <3>2. CASE m # new
      <4>1. m \in In(t) /\ Parent(r, m) = Parent(t, m) /\ Parent(t, m) \in In(t)
        BY <1>1, <1>2, <1>4, <2>8, <3>2
      <4>2. PICK s \in Side : Child(t, Parent(t, m), s) = m
        BY <2>4, <2>8, <4>1
      <4>3. ~(Parent(t, m) = prev /\ s = side)
        BY <1>2, <1>6, <4>1, <4>2
      <4>4. Child(r, Parent(t, m), s) = m
        BY <1>1, <4>1, <4>2, <4>3
      <4> QED BY <4>1, <4>4
    <3> QED BY <3>1, <3>2
  <2> QED BY <2>5, <2>6, <2>7, <2>8 DEF Linked
<1>10. Covers(r, S2)
  <2>1. S2[NULL] = {} /\ S2[r.root] = In(r)
    BY <1>1, <1>2, <1>3, <1>4, <1>5, <1>6, <1>7
  <2>2. ASSUME NEW m \in In(r)
        PROVE  S2[m] = {m} \cup S2[Child(r, m, LEFT)] \cup S2[Child(r, m, RIGHT)]
    <3>1. CASE m = new
      BY <1>1, <1>7, <2>1, <3>1
    <3>2. CASE m \in In(t) /\ m # prev
      <4>1. /\ Child(r, m, LEFT) = Child(t, m, LEFT) /\ Child(t, m, LEFT) \in At(t)
            /\ Child(r, m, RIGHT) = Child(t, m, RIGHT) /\ Child(t, m, RIGHT) \in At(t)
        BY <1>1, <1>2, <3>2
      <4>2. prev \in S[m] <=> prev \in S[Child(t, m, LEFT)] \/ prev \in S[Child(t, m, RIGHT)]
        BY <1>3, <3>2
      <4> QED BY <1>3, <1>4, <1>7, <3>2, <4>1, <4>2
    <3>3. CASE m \in In(t) /\ m = prev
      <4>1. prev \in S[prev]
        BY <1>3, <3>3
      <4>2. \A s \in Side : prev \notin S[Child(t, prev, s)]
        BY <3>3 DEF SearchTree, Ordered
      <4>3. Child(r, m, side) = new /\ S[Child(t, m, side)] = {}
        BY <1>1, <1>2, <1>3, <3>3
      <4>4. \A s \in Side : s # side =>
              Child(r, m, s) = Child(t, m, s) /\ S2[Child(t, m, s)] = S[Child(t, m, s)]
        BY <1>1, <1>2, <1>7, <3>3, <4>2
      <4>0. /\ S2[m] = S[m] \cup {new} /\ S2[new] = {new}
            /\ S[m] = {m} \cup S[Child(t, m, LEFT)] \cup S[Child(t, m, RIGHT)]
        BY <1>3, <1>4, <1>7, <3>3, <4>1
      <4>5. CASE side = LEFT
        <5>1. S2[Child(r, m, LEFT)] = {new} /\ S[Child(t, m, LEFT)] = {}
          BY <4>0, <4>3, <4>5
        <5>2. S2[Child(r, m, RIGHT)] = S[Child(t, m, RIGHT)]
          BY <3>3, <4>4, <4>5
        <5> QED BY <4>0, <5>1, <5>2
      <4>6. CASE side = RIGHT
        <5>1. S2[Child(r, m, RIGHT)] = {new} /\ S[Child(t, m, RIGHT)] = {}
          BY <4>0, <4>3, <4>6
        <5>2. S2[Child(r, m, LEFT)] = S[Child(t, m, LEFT)]
          BY <3>3, <4>4, <4>6
        <5> QED BY <4>0, <5>1, <5>2
      <4> QED BY <4>5, <4>6
    <3> QED BY <1>1, <3>1, <3>2, <3>3
  <2>3. ASSUME NEW m \in In(r), NEW x \in S2[m]
        PROVE  S2[x] \subseteq S2[m] /\ (x # m => Parent(r, x) \in S2[m])
    <3>1. CASE m = new
      BY <1>7, <3>1
    <3>2. CASE m \in In(t) /\ x = new
      <4>1. prev \in S[m]
        <5>1. new \notin S[m] /\ m \in At(t)
          BY <1>1, <1>3, <1>4, <3>2
        <5> QED BY <1>7, <3>2, <5>1
      <4>2. S2[m] = S[m] \cup {new}
        BY <1>4, <1>7, <3>2, <4>1
      <4> QED BY <1>1, <1>7, <3>2, <4>1, <4>2
    <3>3. CASE m \in In(t) /\ x # new
      <4>1. x \in S[m] /\ x \in In(t) /\ S[x] \subseteq S[m]
        BY <1>3, <1>4, <1>7, <3>3
      <4>2. S2[x] \subseteq S2[m]
        BY <1>4, <1>7, <3>3, <4>1
      <4>3. x # m => Parent(r, x) \in S2[m]
        <5>1. x # m => Parent(t, x) \in S[m]
          BY <1>3, <3>3, <4>1
        <5>2. S[m] \subseteq S2[m] /\ Parent(r, x) = Parent(t, x)
          BY <1>1, <1>4, <1>7, <3>3, <4>1
        <5> QED BY <5>1, <5>2
      <4> QED BY <4>2, <4>3
    <3> QED BY <1>1, <3>1, <3>2, <3>3
  <2> QED BY <1>7, <2>1, <2>2, <2>3 DEF Covers
<1>11. Ordered(r, S2)
  <2>1. SUFFICES ASSUME NEW m \in In(r), NEW s \in Side, NEW x \in S2[Child(r, m, s)]
                 PROVE  Key(r, x) # Key(r, m) /\ s = Turn(Key(r, x), Key(r, m))
    BY DEF Ordered
  <2>2. m \in In(t) /\ Key(r, m) = Key(t, m)
    BY <1>1, <1>3, <1>4, <1>7, <2>1
  <2>3. CASE m = prev /\ s = side
    <3>1. x = new
      BY <1>1, <1>7, <2>1, <2>2, <2>3
    <3> QED BY <1>1, <1>2, <2>2, <2>3, <3>1
  <2>4. CASE ~(m = prev /\ s = side)
    <3> DEFINE c == Child(t, m, s)
    <3>1. Child(r, m, s) = c /\ c \in At(t)
      BY <1>1, <1>2, <2>2, <2>4
    <3>2. \A q \in Side : \A y \in S[Child(t, m, q)] :
            Key(t, y) # Key(t, m) /\ q = Turn(Key(t, y), Key(t, m))
      BY <2>2 DEF SearchTree, Ordered
    <3>3. CASE x = new
      <4>1. prev \in S[c]
        BY <1>1, <1>3, <1>4, <1>7, <2>1, <3>1, <3>3
      <4>2. prev # m /\ prev \in S[m]
        <5>1. prev # m
          BY <3>2, <4>1
        <5>2. c # NULL
          BY <1>3, <4>1
        <5>3. S[c] \subseteq S[m]
          BY <2>2, <5>2, Below
        <5> QED BY <4>1, <5>1, <5>3
      <4>3. prev \in S[Child(t, m, Turn(k, Key(t, m)))]
        BY <2>2, <4>2 DEF LeadsTo
      <4>4. Turn(k, Key(t, m)) \in Side
        BY DEF Turn
      <4>5. s = Turn(k, Key(t, m))
        BY <3>2, <4>1, <4>3, <4>4
      <4> QED BY <1>1, <2>2, <3>3, <4>5
    <3>4. CASE x # new
      <4>1. x \in S[c] /\ x \in In(t)
        <5>1. x \in S2[c] /\ c \in At(t)
          BY <2>1, <3>1
        <5>2. x \in S[c]
          BY <1>7, <3>4, <5>1
        <5> QED BY <1>3, <5>1, <5>2
      <4> QED BY <1>1, <2>2, <3>2, <4>1
    <3> QED BY <3>3, <3>4
  <2> QED BY <2>3, <2>4
<1> QED BY <1>8, <1>9, <1>10, <1>11 DEF SearchTree, r

-----------------------------------------------------------------------------
(* The colours.                                                            *)

LEMMA OneSide ==
  ASSUME NEW t, NEW S, SearchTree(t, S), NEW n \in In(t), NEW s \in Side,
         NEW q \in Side, Child(t, n, s) # NULL, Child(t, n, s) = Child(t, n, q)
  PROVE  s = q
<1> DEFINE c == Child(t, n, s)
<1>1. c \in S[c]
  BY Below
<1> QED BY <1>1 DEF SearchTree, Ordered

(* What h says of a node, its children and the root.                       *)
LEMMA Heights ==
  ASSUME NEW t, NEW S, SearchTree(t, S), NEW h, NEW x, Coloured(t, h, x)
  PROVE  /\ h \in [At(t) -> Nat] /\ h[NULL] = 0
         /\ \A n \in In(t), s \in Side :
              /\ IsRed(t, n) => h[n] = h[Child(t, n, s)]
              /\ ~IsRed(t, n) => h[n] = h[Child(t, n, s)] + 1
              /\ h[n] \in Nat /\ h[Child(t, n, s)] \in Nat
         /\ \A n \in In(t), s \in Side :
              IsRed(t, n) /\ IsRed(t, Child(t, n, s)) => Child(t, n, s) = x
         /\ IsRed(t, t.root) => t.root = x
<1>1. h \in [At(t) -> Nat] /\ h[NULL] = 0
  BY DEF Coloured
<1>2. ASSUME NEW n \in In(t), NEW s \in Side
      PROVE  /\ IsRed(t, n) => h[n] = h[Child(t, n, s)]
             /\ ~IsRed(t, n) => h[n] = h[Child(t, n, s)] + 1
             /\ h[n] \in Nat /\ h[Child(t, n, s)] \in Nat
  <2>1. n \in At(t) /\ Child(t, n, s) \in At(t)
    BY DEF SearchTree, Shape, At
  <2>2. h[n] = h[Child(t, n, s)] + Blacks(t, n)
    BY DEF Coloured
  <2>3. h[n] \in Nat /\ h[Child(t, n, s)] \in Nat
    BY <1>1, <2>1
  <2> QED BY <2>2, <2>3 DEF Blacks
<1> QED BY <1>1, <1>2 DEF Coloured

LEMMA ColouredBy ==
  ASSUME NEW t, NEW h, NEW x,
         h \in [At(t) -> Nat], h[NULL] = 0,
         \A n \in In(t), s \in Side :
           /\ IsRed(t, n) => h[n] = h[Child(t, n, s)]
           /\ ~IsRed(t, n) => h[n] = h[Child(t, n, s)] + 1,
         \A n \in In(t), s \in Side :
           Child(t, n, s) \in At(t),
         \A n \in In(t), s \in Side :
           IsRed(t, n) /\ IsRed(t, Child(t, n, s)) => Child(t, n, s) = x,
         IsRed(t, t.root) => t.root = x
  PROVE  Coloured(t, h, x)
<1>1. ASSUME NEW n \in In(t), NEW s \in Side
      PROVE  h[n] = h[Child(t, n, s)] + Blacks(t, n)
  <2>1. h[Child(t, n, s)] \in Nat
    OBVIOUS
  <2> QED BY <2>1 DEF Blacks
<1> QED BY <1>1 DEF Coloured

(* A new leaf is red, and its parent may be red as well.                   *)
LEMMA PlacedColours ==
  ASSUME NEW t, NEW S, SearchTree(t, S), NEW h, Coloured(t, h, NULL),
         NEW k \in Name, NEW prev \in At(t), NEW side \in Side,
         prev = NULL => t.root = NULL,
         prev # NULL => Child(t, prev, side) = NULL,
         NEW new, new = Len(t.node) + 1
  PROVE  \E h2 : Coloured(Placed(t, k, prev, side), h2, new)
<1> DEFINE r  == Placed(t, k, prev, side)
           h2 == [m \in At(r) |-> IF m = new THEN 0 ELSE h[m]]
<1>1. /\ In(r) = In(t) \cup {new} /\ new \notin At(t)
      /\ r.root = (IF prev = NULL THEN new ELSE t.root)
      /\ IsRed(r, new)
      /\ \A s \in Side : Child(r, new, s) = NULL
      /\ \A m \in In(t) :
           /\ (IsRed(r, m) <=> IsRed(t, m))
           /\ \A s \in Side :
                Child(r, m, s) = IF m = prev /\ s = side THEN new
                                 ELSE Child(t, m, s)
  BY PlacedNodes DEF SearchTree
<1>2. /\ NULL \notin In(t) /\ t.root \in At(t)
      /\ \A m \in In(t), s \in Side : Child(t, m, s) \in At(t)
      /\ At(r) = At(t) \cup {new} /\ At(t) = In(t) \cup {NULL} /\ At(r) = In(r) \cup {NULL}
  BY <1>1, ShapeType DEF SearchTree, Shape, At
<1>3. /\ h \in [At(t) -> Nat] /\ h[NULL] = 0
      /\ \A n \in In(t), s \in Side :
           /\ IsRed(t, n) => h[n] = h[Child(t, n, s)]
           /\ ~IsRed(t, n) => h[n] = h[Child(t, n, s)] + 1
      /\ \A n \in In(t), s \in Side :
           IsRed(t, n) /\ IsRed(t, Child(t, n, s)) => Child(t, n, s) = NULL
      /\ IsRed(t, t.root) => t.root = NULL
  BY Heights
<1>4. /\ h2 \in [At(r) -> Nat] /\ h2[new] = 0
      /\ \A m \in At(t) : h2[m] = h[m]
  BY <1>1, <1>2, <1>3
<1>5. \A q : IsRed(r, q) => q # NULL
  BY DEF IsRed
<1>6. \A q : IsRed(t, q) => q # NULL
  BY DEF IsRed
<1> HIDE DEF h2, r
<1>7. \A m \in In(r), s \in Side : Child(r, m, s) \in At(r)
  BY <1>1, <1>2
<1>8. ASSUME NEW m \in In(r), NEW s \in Side
      PROVE  /\ IsRed(r, m) => h2[m] = h2[Child(r, m, s)]
             /\ ~IsRed(r, m) => h2[m] = h2[Child(r, m, s)] + 1
             /\ IsRed(r, m) /\ IsRed(r, Child(r, m, s)) => Child(r, m, s) = new
  <2>1. CASE m = new
    BY <1>1, <1>2, <1>3, <1>4, <1>5, <2>1
  <2>2. CASE m \in In(t) /\ m = prev /\ s = side
    <3>1. Child(r, m, s) = new /\ Child(t, m, s) = NULL
      BY <1>1, <1>2, <2>2
    <3> QED BY <1>1, <1>2, <1>3, <1>4, <2>2, <3>1
  <2>3. CASE m \in In(t) /\ ~(m = prev /\ s = side)
    <3>1. Child(r, m, s) = Child(t, m, s) /\ Child(t, m, s) \in At(t)
      BY <1>1, <1>2, <2>3
    <3> QED BY <1>1, <1>2, <1>3, <1>4, <1>5, <1>6, <2>3, <3>1
  <2> QED BY <1>1, <2>1, <2>2, <2>3
<1>9. IsRed(r, r.root) => r.root = new
  BY <1>1, <1>2, <1>3, <1>5, <1>6
<1>10. h2[NULL] = 0
  BY <1>2, <1>3, <1>4
<1>11. Coloured(r, h2, new)
  BY <1>4, <1>7, <1>8, <1>9, <1>10, ColouredBy
<1> QED BY <1>11 DEF r

(* Case 1: the red root turns black.                                       *)
LEMMA RootTurnsBlack ==
  ASSUME NEW t, NEW S, SearchTree(t, S), NEW h, NEW n \in In(t), Coloured(t, h, n),
         IsRed(t, n), Parent(t, n) = NULL
  PROVE  \E h2 : Coloured(Black(t, n), h2, NULL)
<1> DEFINE r  == Black(t, n)
           h2 == [h EXCEPT ![n] = @ + 1]
<1>1. /\ Alike(t, r)
      /\ \A m \in In(t) : IsRed(r, m) <=> m # n /\ IsRed(t, m)
  BY PaintedBlack DEF SearchTree
<1>2. /\ In(r) = In(t) /\ At(r) = At(t) /\ r.root = t.root
      /\ \A m \in In(t), s \in Side : Child(r, m, s) = Child(t, m, s)
  BY <1>1 DEF Alike, In, At
<1>3. /\ \A m \in In(t), s \in Side : Child(t, m, s) \in At(t)
      /\ n \in At(t) /\ n # NULL /\ n = t.root
      /\ At(t) = In(t) \cup {NULL}
  BY ShapeType DEF SearchTree, Shape, Linked, At
<1>4. /\ h \in [At(t) -> Nat] /\ h[NULL] = 0
      /\ \A m \in In(t), s \in Side :
           /\ IsRed(t, m) => h[m] = h[Child(t, m, s)]
           /\ ~IsRed(t, m) => h[m] = h[Child(t, m, s)] + 1
      /\ \A m \in In(t), s \in Side :
           IsRed(t, m) /\ IsRed(t, Child(t, m, s)) => Child(t, m, s) = n
  BY Heights
<1>5. \A m \in In(t), s \in Side : Child(t, m, s) # n
  <2>1. \A m \in In(t), s \in Side :
          Child(t, m, s) # NULL => Parent(t, Child(t, m, s)) = m /\ m # NULL
    BY ShapeType DEF SearchTree, Linked
  <2> QED BY <1>3, <2>1
<1>6. /\ h2 \in [At(t) -> Nat] /\ h2[NULL] = 0 /\ h2[n] = h[n] + 1
      /\ \A m \in At(t) : m # n => h2[m] = h[m]
  BY <1>3, <1>4
<1>7. \A q : (IsRed(r, q) => q # NULL) /\ (IsRed(t, q) => q # NULL)
  BY DEF IsRed
<1> HIDE DEF r, h2
<1>8. ASSUME NEW m \in In(t), NEW s \in Side
      PROVE  /\ IsRed(r, m) => h2[m] = h2[Child(r, m, s)]
             /\ ~IsRed(r, m) => h2[m] = h2[Child(r, m, s)] + 1
             /\ IsRed(r, m) /\ IsRed(r, Child(r, m, s)) => Child(r, m, s) = NULL
  <2>1. Child(r, m, s) = Child(t, m, s) /\ Child(t, m, s) \in At(t) /\ m \in At(t)
    BY <1>2, <1>3
  <2>2. h2[Child(r, m, s)] = h[Child(t, m, s)]
    BY <1>5, <1>6, <2>1
  <2>3. IsRed(r, m) => h2[m] = h2[Child(r, m, s)]
    BY <1>1, <1>4, <1>6, <2>1, <2>2
  <2>4. ~IsRed(r, m) => h2[m] = h2[Child(r, m, s)] + 1
    <3>1. CASE m = n
      BY <1>4, <1>6, <2>1, <2>2, <3>1
    <3>2. CASE m # n
      BY <1>1, <1>4, <1>6, <2>1, <2>2, <3>2
    <3> QED BY <3>1, <3>2
  <2>5. IsRed(r, m) /\ IsRed(r, Child(r, m, s)) => Child(r, m, s) = NULL
    BY <1>1, <1>3, <1>4, <1>5, <1>7, <2>1
  <2> QED BY <2>3, <2>4, <2>5
<1>9. ~IsRed(r, r.root)
  BY <1>1, <1>2, <1>3
<1>10. Coloured(r, h2, NULL)
  BY <1>2, <1>3, <1>6, <1>8, <1>9, ColouredBy
<1> QED BY <1>10 DEF r

(* Case 2: a red node below a black one is in order.                       *)
LEMMA BelowBlack ==
  ASSUME NEW t, NEW S, SearchTree(t, S), NEW h, NEW n \in In(t), Coloured(t, h, n),
         Parent(t, n) # NULL, ~IsRed(t, Parent(t, n))
  PROVE  Coloured(t, h, NULL)
<1>1. \A m \in In(t), s \in Side :
        Child(t, m, s) # NULL => Parent(t, Child(t, m, s)) = m
  BY DEF SearchTree, Linked
<1>2. t.root # NULL => Parent(t, t.root) = NULL
  BY DEF SearchTree, Linked
<1>3. \A q : IsRed(t, q) => q # NULL
  BY DEF IsRed
<1>4. n # NULL
  BY ShapeType DEF SearchTree
<1>5. ~IsRed(t, t.root)
  BY <1>2, <1>3, <1>4 DEF Coloured
<1>6. \A m \in In(t), s \in Side : ~(IsRed(t, m) /\ IsRed(t, Child(t, m, s)))
  BY <1>1, <1>3 DEF Coloured
<1> QED BY <1>5, <1>6 DEF Coloured

(* A red node with a red parent has a black grandparent.                   *)
LEMMA RedFamily ==
  ASSUME NEW t, NEW S, SearchTree(t, S), NEW h, NEW n \in In(t), Coloured(t, h, n),
         IsRed(t, n), NEW p, p = Parent(t, n), IsRed(t, p), NEW g, g = Parent(t, p)
  PROVE  /\ p \in In(t) /\ g \in In(t) /\ ~IsRed(t, g)
         /\ n # p /\ p # g /\ n # g
         /\ t.root # n /\ t.root # p /\ ~IsRed(t, t.root)
         /\ \E s, q \in Side :
              /\ Child(t, p, s) = n /\ Child(t, g, q) = p
              /\ Uncle(t, n) = Child(t, g, 1 - q)
<1>1. /\ t.root # NULL => Parent(t, t.root) = NULL
      /\ \A m \in In(t) : Parent(t, m) \in At(t)
      /\ \A m \in In(t) :
           Parent(t, m) # NULL => \E s \in Side : Child(t, Parent(t, m), s) = m
      /\ \A m \in In(t) : Parent(t, m) = NULL => m = t.root
  BY DEF SearchTree, Linked, Shape
<1>2. p # NULL /\ n # NULL /\ p \in In(t)
  BY <1>1, ShapeType DEF IsRed, SearchTree, At
<1>3. IsRed(t, t.root) => t.root = n
  BY DEF Coloured
<1>4. t.root # n /\ ~IsRed(t, t.root) /\ t.root # p
  BY <1>1, <1>2, <1>3
<1>5. g # NULL /\ g \in In(t)
  BY <1>1, <1>2, <1>4 DEF At
<1>6. PICK s \in Side : Child(t, p, s) = n
  BY <1>1, <1>2
<1>7. PICK q \in Side : Child(t, g, q) = p
  BY <1>1, <1>2, <1>5
<1>8. n # p /\ n \in S[p]
  BY <1>2, <1>6, Below
<1>9. p # g /\ g \notin S[p]
  BY <1>2, <1>5, <1>7, Below
<1>10. ~IsRed(t, g)
  BY <1>5, <1>7, <1>8 DEF Coloured
<1>11. Uncle(t, n) = Child(t, g, 1 - q)
  <2>1. CASE q = LEFT
    BY <1>2, <1>5, <1>7, <2>1 DEF Uncle
  <2>2. CASE q = RIGHT
    <3>1. Child(t, g, LEFT) # p
      BY <1>2, <1>5, <1>7, <2>2, OneSide
    <3> QED BY <1>2, <1>5, <1>7, <2>2, <3>1 DEF Uncle
  <2> QED BY <2>1, <2>2
<1> QED BY <1>2, <1>4, <1>5, <1>6, <1>7, <1>8, <1>9, <1>10, <1>11

(* Case 3: the colours of the parents and the grandparent are swapped, and *)
(* only the grandparent may now be a red node below a red one.             *)
Swapped(t, n) ==
  LET p == Parent(t, n) IN Red(Black(Black(t, p), Uncle(t, n)), Parent(t, p))

LEMMA SwappedColours ==
  ASSUME NEW t, NEW S, SearchTree(t, S), NEW h, NEW n \in In(t), Coloured(t, h, n),
         IsRed(t, n), IsRed(t, Parent(t, n)), IsRed(t, Uncle(t, n)),
         NEW g, g = Parent(t, Parent(t, n)), NEW r, r = Swapped(t, n)
  PROVE  /\ SearchTree(r, S) /\ Alike(t, r)
         /\ g \in In(t) /\ IsRed(r, g)
         /\ \E h2 : Coloured(r, h2, g)
<1> DEFINE p  == Parent(t, n)
           u  == Uncle(t, n)
           t1 == Black(t, p)
           t2 == Black(t1, u)
           h2 == [h EXCEPT ![p] = @ + 1, ![u] = @ + 1]
<1>1. /\ p \in In(t) /\ g \in In(t) /\ ~IsRed(t, g)
      /\ n # p /\ p # g /\ n # g /\ t.root # n /\ t.root # p /\ ~IsRed(t, t.root)
  BY RedFamily
<1>2. PICK s0, q0 \in Side :
        /\ Child(t, p, s0) = n /\ Child(t, g, q0) = p /\ u = Child(t, g, 1 - q0)
  BY RedFamily
<1>3. /\ p # NULL /\ u # NULL /\ 1 - q0 \in Side
      /\ \A q : (IsRed(r, q) => q # NULL) /\ (IsRed(t, q) => q # NULL)
  BY DEF IsRed
<1>4. u \in In(t) /\ Parent(t, u) = g /\ u # g /\ u # p /\ u # t.root
  <2>1. u \in In(t) /\ Parent(t, u) = g /\ u # g
    BY <1>1, <1>2, <1>3, Below
  <2>2. u # p
    BY <1>1, <1>2, <1>3, OneSide
  <2> QED BY <1>1, <2>1, <2>2
<1>5. /\ Alike(t, t1) /\ SearchTree(t1, S) /\ In(t1) = In(t)
      /\ \A m \in In(t) : IsRed(t1, m) <=> m # p /\ IsRed(t, m)
  BY <1>1, PaintedBlack, AlikeKeeps DEF SearchTree
<1> HIDE DEF t1
<1>6. /\ Alike(t1, t2) /\ SearchTree(t2, S) /\ In(t2) = In(t)
      /\ \A m \in In(t) : IsRed(t2, m) <=> m # u /\ IsRed(t1, m)
  BY <1>4, <1>5, PaintedBlack, AlikeKeeps DEF SearchTree
<1> HIDE DEF t2
<1>7. r = Red(t2, g)
  BY DEF Swapped, t1, t2
<1>8. /\ Alike(t2, r) /\ SearchTree(r, S) /\ In(r) = In(t)
      /\ \A m \in In(t) : IsRed(r, m) <=> m = g \/ IsRed(t2, m)
  <2>1. Shape(t2) /\ g \in In(t2)
    BY <1>1, <1>6 DEF SearchTree
  <2>2. /\ r \in [root : Nat, node : Seq(Cell)] /\ Alike(t2, r)
        /\ \A m \in In(t2) : IsRed(r, m) <=> m = g \/ IsRed(t2, m)
    BY <1>7, <2>1, PaintedRed
  <2>3. SearchTree(r, S) /\ In(r) = In(t2)
    BY <1>6, <2>2, AlikeKeeps
  <2> QED BY <1>6, <2>2, <2>3
<1>9. /\ Alike(t, r)
      /\ \A m \in In(t) : IsRed(r, m) <=> m = g \/ (m \notin {p, u} /\ IsRed(t, m))
  BY <1>5, <1>6, <1>8 DEF Alike, In
<1>10. /\ At(r) = At(t) /\ r.root = t.root /\ At(t) = In(t) \cup {NULL}
       /\ \A m \in In(t), s \in Side :
            Child(r, m, s) = Child(t, m, s) /\ Child(t, m, s) \in At(t)
       /\ \A m \in In(t), s \in Side :
            Child(t, m, s) # NULL => Parent(t, Child(t, m, s)) = m
  BY <1>8, <1>9 DEF Alike, At, SearchTree, Shape, Linked
<1>11. /\ h \in [At(t) -> Nat] /\ h[NULL] = 0
       /\ \A m \in In(t), s \in Side :
            /\ IsRed(t, m) => h[m] = h[Child(t, m, s)]
            /\ ~IsRed(t, m) => h[m] = h[Child(t, m, s)] + 1
       /\ \A m \in In(t), s \in Side :
            IsRed(t, m) /\ IsRed(t, Child(t, m, s)) => Child(t, m, s) = n
  BY Heights
<1>12. /\ h2 \in [At(t) -> Nat] /\ h2[NULL] = 0
       /\ h2[p] = h[p] + 1 /\ h2[u] = h[u] + 1
       /\ \A m \in At(t) : m \notin {p, u} => h2[m] = h[m]
  BY <1>1, <1>3, <1>4, <1>10, <1>11
<1> HIDE DEF h2, p, u
<1>13. ASSUME NEW m \in In(t), NEW s \in Side
       PROVE  /\ IsRed(r, m) => h2[m] = h2[Child(r, m, s)]
              /\ ~IsRed(r, m) => h2[m] = h2[Child(r, m, s)] + 1
              /\ IsRed(r, m) /\ IsRed(r, Child(r, m, s)) => Child(r, m, s) = g
  <2> DEFINE c == Child(t, m, s)
  <2>1. Child(r, m, s) = c /\ c \in At(t) /\ m \in At(t) /\ h[c] \in Nat /\ h[m] \in Nat
    BY <1>10, <1>11
  <2>2. (c \in {p, u} => m = g) /\ (c = n => m = p)
    BY <1>3, <1>4, <1>10 DEF p
  <2>3. m = g => c \in {p, u}
    <3>1. s = q0 \/ s = 1 - q0
      OBVIOUS
    <3> QED BY <1>2, <3>1
  <2> HIDE DEF c
  <2>4. /\ IsRed(t, m) => h[m] = h[c]
        /\ ~IsRed(t, m) => h[m] = h[c] + 1
        /\ IsRed(t, m) /\ IsRed(t, c) => c = n
    BY <1>11, <2>1 DEF c
  <2>5. CASE m = g
    <3>1. IsRed(r, m) /\ ~IsRed(r, c)
      BY <1>1, <1>4, <1>9, <2>3, <2>5
    <3>2. h2[c] = h[c] + 1 /\ h2[m] = h[m]
      BY <1>1, <1>4, <1>12, <2>1, <2>3, <2>5
    <3> QED BY <1>1, <2>1, <2>4, <2>5, <3>1, <3>2
  <2>6. CASE m \in {p, u}
    <3>1. ~IsRed(r, m) /\ IsRed(t, m) /\ c \notin {p, u}
      BY <1>1, <1>3, <1>4, <1>9, <2>2, <2>6 DEF p, u
    <3>2. h2[c] = h[c] /\ h2[m] = h[m] + 1
      BY <1>12, <2>1, <2>6, <3>1
    <3> QED BY <2>1, <2>4, <3>1, <3>2
  <2>7. CASE m \notin {g, p, u}
    <3>1. c \notin {p, u} /\ c # n /\ (IsRed(r, m) <=> IsRed(t, m))
      BY <1>9, <2>2, <2>7
    <3>2. h2[c] = h[c] /\ h2[m] = h[m]
      BY <1>12, <2>1, <2>7, <3>1
    <3>3. IsRed(r, c) /\ c # g => IsRed(t, c)
      BY <1>3, <1>9, <1>10, <2>1
    <3> QED BY <2>1, <2>4, <3>1, <3>2, <3>3
  <2> QED BY <2>5, <2>6, <2>7
<1>14. IsRed(r, r.root) => r.root = g
  BY <1>1, <1>3, <1>8, <1>9, <1>10 DEF SearchTree, Shape
<1>15. Coloured(r, h2, g)
  BY <1>8, <1>10, <1>12, <1>13, <1>14, ColouredBy
<1> QED BY <1>1, <1>8, <1>9, <1>15

(* A rotation keeps the names.                                             *)
SameNames(t, u) == In(u) = In(t) /\ \A n \in In(t) : Key(u, n) = Key(t, n)

(* Case 4, first half: a red node rotated below its red child.             *)
LEMMA RotatedReds ==
  ASSUME NEW t, NEW S, SearchTree(t, S), NEW p \in In(t), NEW side \in Side,
         NEW n, n = Child(t, p, 1 - side), IsRed(t, p), IsRed(t, n),
         NEW h, Coloured(t, h, n), NEW r, r = Rotated(t, p, side)
  PROVE  Coloured(r, h, p)
<1> DEFINE g    == Parent(t, p)
           over == Child(t, n, side)
<1>1. n # NULL /\ 1 - side \in Side
  BY DEF IsRed
<1>2. /\ n \in In(t) /\ over \in At(t) /\ n # p /\ over # p /\ over # n
      /\ Parent(t, n) = p
  BY <1>1, Family
<1>3. /\ g \in In(t) /\ ~IsRed(t, g) /\ g # p /\ g # n
      /\ t.root # n /\ t.root # p /\ ~IsRed(t, t.root)
  BY <1>2, RedFamily
<1>4. /\ Len(r.node) = Len(t.node)
      /\ r.root = IF g = NULL THEN n ELSE t.root
      /\ \A m \in In(t) :
           /\ (IsRed(r, m) <=> IsRed(t, m))
           /\ \A s \in Side :
                Child(r, m, s) = IF m = p /\ s = 1 - side THEN over
                                 ELSE IF m = n /\ s = side THEN p
                                 ELSE IF m = g /\ Child(t, m, s) = p THEN n
                                 ELSE Child(t, m, s)
  BY <1>1, RotatedNodes
<1>5. /\ In(r) = In(t) /\ At(r) = At(t) /\ At(t) = In(t) \cup {NULL} /\ NULL \notin In(t)
      /\ r.root = t.root /\ t.root \in At(t)
      /\ \A m \in In(t), s \in Side : Child(t, m, s) \in At(t)
      /\ \A m \in In(t), s \in Side :
           Child(t, m, s) # NULL => Parent(t, Child(t, m, s)) = m
  BY <1>3, <1>4, ShapeType DEF In, At, SearchTree, Shape, Linked
<1>6. /\ h \in [At(t) -> Nat] /\ h[NULL] = 0
      /\ \A m \in In(t), s \in Side :
           /\ IsRed(t, m) => h[m] = h[Child(t, m, s)]
           /\ ~IsRed(t, m) => h[m] = h[Child(t, m, s)] + 1
      /\ \A m \in In(t), s \in Side :
           IsRed(t, m) /\ IsRed(t, Child(t, m, s)) => Child(t, m, s) = n
  BY Heights
<1>7. \A q : (IsRed(r, q) => q # NULL) /\ (IsRed(t, q) => q # NULL)
  BY DEF IsRed
<1>8. \A q \in At(t) : IsRed(r, q) <=> IsRed(t, q)
  BY <1>4, <1>5, <1>7
<1>9. h[n] = h[p] /\ h[over] = h[n] /\ ~IsRed(t, over)
  BY <1>1, <1>2, <1>6
<1> HIDE DEF over, g
<1>10. ASSUME NEW m \in In(t), NEW s \in Side
       PROVE  /\ IsRed(r, m) => h[m] = h[Child(r, m, s)]
              /\ ~IsRed(r, m) => h[m] = h[Child(r, m, s)] + 1
              /\ IsRed(r, m) /\ IsRed(r, Child(r, m, s)) => Child(r, m, s) = p
              /\ Child(r, m, s) \in At(r)
  <2>1. CASE m = p /\ s = 1 - side
    <3>1. Child(r, m, s) = over
      BY <1>4, <2>1
    <3> QED BY <1>2, <1>4, <1>5, <1>8, <1>9, <2>1, <3>1
  <2>2. CASE m = n /\ s = side
    <3>1. Child(r, m, s) = p
      BY <1>2, <1>4, <2>2
    <3> QED BY <1>2, <1>4, <1>5, <1>8, <1>9, <2>2, <3>1
  <2>3. CASE m = g /\ Child(t, m, s) = p
    <3>1. Child(r, m, s) = n
      BY <1>3, <1>4, <2>3
    <3> QED BY <1>2, <1>3, <1>4, <1>5, <1>6, <1>8, <1>9, <2>3, <3>1
  <2>4. CASE /\ ~(m = p /\ s = 1 - side) /\ ~(m = n /\ s = side)
             /\ ~(m = g /\ Child(t, m, s) = p)
    <3>1. Child(r, m, s) = Child(t, m, s) /\ Child(t, m, s) \in At(t)
      BY <1>4, <1>5, <2>4
    <3>2. Child(t, m, s) # n
      <4>1. Child(t, m, s) = n => m = p
        BY <1>1, <1>2, <1>5
      <4>2. Child(t, p, s) = n => s = 1 - side
        BY <1>1, OneSide
      <4> QED BY <2>4, <4>1, <4>2
    <3> QED BY <1>4, <1>5, <1>6, <1>8, <3>1, <3>2
  <2> QED BY <2>1, <2>2, <2>3, <2>4
<1>11. ~IsRed(r, r.root)
  BY <1>3, <1>5, <1>8
<1> QED BY <1>5, <1>6, <1>10, <1>11, ColouredBy

(* Case 5: parent and grandparent swap colours, and the grandparent goes   *)
(* down.                                                                   *)
LEMMA RotatedBlack ==
  ASSUME NEW t, NEW S, SearchTree(t, S), NEW n \in In(t), NEW h, Coloured(t, h, n),
         IsRed(t, n), NEW p, p = Parent(t, n), IsRed(t, p), NEW g, g = Parent(t, p),
         NEW side \in Side, Child(t, p, 1 - side) = n, Child(t, g, 1 - side) = p,
         ~IsRed(t, Child(t, g, side)),
         NEW r, r = Rotated(Red(Black(t, p), g), g, side)
  PROVE  /\ \E S2 : SearchTree(r, S2)
         /\ SameNames(t, r)
         /\ \E h2 : Coloured(r, h2, NULL)
<1> DEFINE t1   == Black(t, p)
           t2   == Red(t1, g)
           gg   == Parent(t, g)
           over == Child(t, p, side)
           u    == Child(t, g, side)
           h2   == [h EXCEPT ![p] = h[g], ![g] = h[p]]
<1>1. /\ p \in In(t) /\ g \in In(t) /\ ~IsRed(t, g)
      /\ n # p /\ p # g /\ n # g /\ t.root # n /\ t.root # p /\ ~IsRed(t, t.root)
  BY RedFamily
<1>2. p # NULL /\ n # NULL /\ g # NULL /\ 1 - side \in Side
  BY <1>1, ShapeType DEF SearchTree
<1>3. /\ over \in At(t) /\ over # g /\ over # p /\ over # n
      /\ gg \in At(t) /\ gg \notin {g, p} /\ (gg = over => over = NULL)
  <2>1. over \in At(t) /\ over # g /\ over # p
        /\ gg \in At(t) /\ gg \notin {g, p} /\ (gg = over => over = NULL)
    BY <1>1, <1>2, Family
  <2>2. over = n => side = 1 - side
    BY <1>1, <1>2, OneSide
  <2> QED BY <2>1, <2>2
<1>4. /\ Alike(t, t1) /\ SearchTree(t1, S) /\ In(t1) = In(t)
      /\ \A m \in In(t) : IsRed(t1, m) <=> m # p /\ IsRed(t, m)
  BY <1>1, PaintedBlack, AlikeKeeps DEF SearchTree
<1> HIDE DEF t1
<1>5. /\ Alike(t1, t2) /\ SearchTree(t2, S) /\ In(t2) = In(t)
      /\ \A m \in In(t) : IsRed(t2, m) <=> m = g \/ IsRed(t1, m)
  <2>1. Shape(t1) /\ g \in In(t1)
    BY <1>1, <1>4 DEF SearchTree
  <2>2. /\ t2 \in [root : Nat, node : Seq(Cell)] /\ Alike(t1, t2)
        /\ \A m \in In(t1) : IsRed(t2, m) <=> m = g \/ IsRed(t1, m)
    BY <2>1, PaintedRed
  <2>3. SearchTree(t2, S) /\ In(t2) = In(t1)
    BY <1>4, <2>2, AlikeKeeps
  <2> QED BY <1>4, <2>2, <2>3
<1>6. r = Rotated(t2, g, side)
  BY DEF t1
<1> HIDE DEF t2
<1>7. /\ Len(t2.node) = Len(t.node) /\ t2.root = t.root
      /\ \A m \in In(t) :
           /\ Key(t2, m) = Key(t, m) /\ Parent(t2, m) = Parent(t, m)
           /\ \A s \in Side : Child(t2, m, s) = Child(t, m, s)
           /\ IsRed(t2, m) <=> m = g \/ (m # p /\ IsRed(t, m))
  BY <1>4, <1>5 DEF Alike
<1>8. Child(t2, g, 1 - side) = p /\ Child(t2, p, side) = over /\ Parent(t2, g) = gg
  BY <1>1, <1>2, <1>7
<1>9. /\ Len(r.node) = Len(t2.node)
      /\ r.root = IF gg = NULL THEN p ELSE t2.root
      /\ \A m \in In(t2) :
           /\ Key(r, m) = Key(t2, m) /\ (IsRed(r, m) <=> IsRed(t2, m))
           /\ \A s \in Side :
                Child(r, m, s) = IF m = g /\ s = 1 - side THEN over
                                 ELSE IF m = p /\ s = side THEN g
                                 ELSE IF m = gg /\ Child(t2, m, s) = g THEN p
                                 ELSE Child(t2, m, s)
  <2>1. g \in In(t2) /\ Child(t2, g, 1 - side) # NULL
    BY <1>1, <1>2, <1>5, <1>8
  <2> QED BY <1>5, <1>6, <1>8, <2>1, RotatedNodes
<1>10. \E S2 : SearchTree(r, S2)
  <2>1. g \in In(t2) /\ Child(t2, g, 1 - side) # NULL
    BY <1>1, <1>2, <1>5, <1>8
  <2> QED BY <1>5, <1>6, <2>1, RotatedTree
<1>11. /\ In(r) = In(t) /\ At(r) = At(t) /\ At(t) = In(t) \cup {NULL} /\ NULL \notin In(t)
       /\ r.root = (IF gg = NULL THEN p ELSE t.root) /\ t.root \in At(t)
       /\ \A m \in In(t) : Key(r, m) = Key(t, m)
       /\ \A m \in In(t) : IsRed(r, m) <=> m = g \/ (m # p /\ IsRed(t, m))
       /\ \A m \in In(t), s \in Side :
            Child(r, m, s) = IF m = g /\ s = 1 - side THEN over
                             ELSE IF m = p /\ s = side THEN g
                             ELSE IF m = gg /\ Child(t, m, s) = g THEN p
                             ELSE Child(t, m, s)
  <2>1. In(r) = In(t) /\ At(r) = At(t) /\ At(t) = In(t) \cup {NULL} /\ NULL \notin In(t)
    BY <1>7, <1>9, ShapeType DEF In, At, SearchTree
  <2>2. t.root \in At(t)
    BY DEF SearchTree, Shape
  <2> QED BY <1>5, <1>7, <1>9, <2>1, <2>2
<1>12. /\ \A m \in In(t), s \in Side : Child(t, m, s) \in At(t)
       /\ \A m \in In(t), s \in Side :
            Child(t, m, s) # NULL => Parent(t, Child(t, m, s)) = m
       /\ t.root # NULL => Parent(t, t.root) = NULL
  BY DEF SearchTree, Shape, Linked
<1>13. /\ h \in [At(t) -> Nat] /\ h[NULL] = 0
       /\ \A m \in In(t), s \in Side :
            /\ IsRed(t, m) => h[m] = h[Child(t, m, s)]
            /\ ~IsRed(t, m) => h[m] = h[Child(t, m, s)] + 1
       /\ \A m \in In(t), s \in Side :
            IsRed(t, m) /\ IsRed(t, Child(t, m, s)) => Child(t, m, s) = n
  BY Heights
<1>14. /\ h2 \in [At(t) -> Nat] /\ h2[NULL] = 0
       /\ h2[p] = h[g] /\ h2[g] = h[p]
       /\ \A m \in At(t) : m \notin {p, g} => h2[m] = h[m]
  BY <1>1, <1>2, <1>11, <1>13
<1>15. /\ h[g] = h[p] + 1 /\ h[p] = h[n] /\ h[p] = h[over] /\ h[p] = h[u]
       /\ h[p] \in Nat /\ ~IsRed(t, over)
  <2>1. h[p] \in Nat /\ h[u] \in Nat
    BY <1>1, <1>11, <1>12, <1>13
  <2>2. h[g] = h[p] + 1 /\ h[g] = h[u] + 1
    BY <1>1, <1>2, <1>13
  <2>3. h[p] = h[n] /\ h[p] = h[over]
    BY <1>1, <1>2, <1>13
  <2>4. ~IsRed(t, over)
    BY <1>1, <1>2, <1>3, <1>13
  <2> QED BY <2>1, <2>2, <2>3, <2>4
<1>16. \A q : (IsRed(r, q) => q # NULL) /\ (IsRed(t, q) => q # NULL)
  BY DEF IsRed
<1>17. u \in At(t) /\ u \notin {g, p}
  <2>1. u = p => side = 1 - side
    BY <1>1, <1>2, OneSide
  <2>2. u # g
    <3>1. u # NULL => u # g
      BY <1>1, Below
    <3> QED BY <1>2, <3>1
  <2> QED BY <1>1, <1>12, <2>1, <2>2
<1> HIDE DEF over, gg, h2, u
<1>18. ASSUME NEW m \in In(t), NEW s \in Side
       PROVE  /\ IsRed(r, m) => h2[m] = h2[Child(r, m, s)]
              /\ ~IsRed(r, m) => h2[m] = h2[Child(r, m, s)] + 1
              /\ IsRed(r, m) /\ IsRed(r, Child(r, m, s)) => Child(r, m, s) = NULL
              /\ Child(r, m, s) \in At(r)
  <2>0. m \in At(t)
    BY <1>11
  <2>1. CASE m = g /\ s = 1 - side
    <3>1. Child(r, m, s) = over /\ IsRed(r, m) /\ ~IsRed(r, over)
      BY <1>3, <1>11, <1>15, <1>16, <2>1
    <3>2. h2[over] = h[over]
      BY <1>3, <1>14
    <3> QED BY <1>3, <1>11, <1>14, <1>15, <2>1, <3>1, <3>2
  <2>2. CASE m = g /\ s = side
    <3>1. Child(r, m, s) = u
      BY <1>1, <1>3, <1>11, <2>2 DEF u
    <3>2. IsRed(r, m) /\ ~IsRed(r, u)
      BY <1>11, <1>16, <1>17, <2>2 DEF u
    <3>3. h2[u] = h[u]
      BY <1>14, <1>17
    <3> QED BY <1>11, <1>14, <1>15, <1>17, <2>2, <3>1, <3>2, <3>3
  <2>3. CASE m = p /\ s = side
    <3>1. Child(r, m, s) = g /\ ~IsRed(r, m)
      BY <1>1, <1>11, <2>3
    <3> QED BY <1>1, <1>11, <1>14, <1>15, <2>3, <3>1
  <2>4. CASE m = p /\ s = 1 - side
    <3>1. Child(r, m, s) = n /\ ~IsRed(r, m)
      BY <1>1, <1>3, <1>11, <2>4
    <3>2. h2[n] = h[n]
      BY <1>1, <1>11, <1>14
    <3> QED BY <1>1, <1>11, <1>14, <1>15, <2>4, <3>1, <3>2
  <2>5. CASE m \notin {g, p} /\ m = gg /\ Child(t, m, s) = g
    <3>1. Child(r, m, s) = p /\ ~IsRed(r, p)
      BY <1>1, <1>11, <2>5
    <3>2. h2[m] = h[m] /\ h2[p] = h[Child(t, m, s)]
      BY <1>14, <2>0, <2>5
    <3>3. IsRed(r, m) <=> IsRed(t, m)
      BY <1>11, <2>5
    <3> QED BY <1>1, <1>11, <1>13, <2>5, <3>1, <3>2, <3>3
  <2>6. CASE m \notin {g, p} /\ ~(m = gg /\ Child(t, m, s) = g)
    <3> DEFINE c == Child(t, m, s)
    <3>1. Child(r, m, s) = c /\ c \in At(t)
      BY <1>11, <1>12, <2>6
    <3>2. c # p /\ c # n /\ c # g
      <4>1. c = p => m = g
        BY <1>2, <1>12
      <4>2. c = n => m = p
        BY <1>2, <1>12
      <4>3. c = g => m = gg
        BY <1>2, <1>12 DEF gg
      <4> QED BY <2>6, <4>1, <4>2, <4>3
    <3>3. h2[c] = h[c] /\ h2[m] = h[m]
      BY <1>14, <2>0, <2>6, <3>1, <3>2
    <3>4. (IsRed(r, m) <=> IsRed(t, m)) /\ (IsRed(r, c) => IsRed(t, c))
      BY <1>11, <1>16, <2>6, <3>1, <3>2
    <3> QED BY <1>11, <1>13, <3>1, <3>2, <3>3, <3>4
  <2>7. s = side \/ s = 1 - side
    OBVIOUS
  <2> QED BY <2>1, <2>2, <2>3, <2>4, <2>5, <2>6, <2>7
<1>19. ~IsRed(r, r.root)
  <2>1. CASE gg = NULL
    BY <1>1, <1>11, <2>1
  <2>2. CASE gg # NULL
    <3>1. t.root # g
      BY <1>2, <1>12, <2>2 DEF gg
    <3> QED BY <1>1, <1>11, <1>16, <2>2, <3>1
  <2> QED BY <2>1, <2>2
<1>20. Coloured(r, h2, NULL)
  <2>1. h2 \in [At(r) -> Nat] /\ h2[NULL] = 0
    BY <1>11, <1>14
  <2>2. \A m \in In(r), s \in Side :
          /\ IsRed(r, m) => h2[m] = h2[Child(r, m, s)]
          /\ ~IsRed(r, m) => h2[m] = h2[Child(r, m, s)] + 1
    BY <1>11, <1>18
  <2>3. \A m \in In(r), s \in Side :
          IsRed(r, m) /\ IsRed(r, Child(r, m, s)) => Child(r, m, s) = NULL
    BY <1>11, <1>18
  <2>4. \A m \in In(r), s \in Side : Child(r, m, s) \in At(r)
    BY <1>11, <1>18
  <2> QED BY <1>19, <2>1, <2>2, <2>3, <2>4, ColouredBy
<1> QED BY <1>10, <1>11, <1>20 DEF SameNames

LEMMA Case5 ==
  ASSUME NEW t, NEW S, SearchTree(t, S), NEW n \in In(t), NEW h, Coloured(t, h, n),
         IsRed(t, n), NEW p, p = Parent(t, n), IsRed(t, p), NEW g, g = Parent(t, p),
         NEW q \in Side, Child(t, p, q) = n, Child(t, g, q) = p,
         ~IsRed(t, Child(t, g, 1 - q)),
         NEW r, r = InsertCase5(t, n)
  PROVE  /\ \E S2 : SearchTree(r, S2)
         /\ SameNames(t, r)
         /\ \E h2 : Coloured(r, h2, NULL)
<1>1. n # NULL /\ p \in In(t)
  BY RedFamily DEF IsRed
<1>2. (n = Child(t, p, LEFT) /\ p = Child(t, g, LEFT)) <=> q = LEFT
  BY <1>1, OneSide
<1>3. r = Rotated(Red(Black(t, p), g), g, 1 - q)
  <2>1. CASE q = LEFT
    BY <1>2, <2>1 DEF InsertCase5
  <2>2. CASE q = RIGHT
    BY <1>2, <2>2 DEF InsertCase5
  <2> QED BY <2>1, <2>2
<1>4. 1 - q \in Side /\ 1 - (1 - q) = q
  OBVIOUS
<1> QED BY <1>3, <1>4, RotatedBlack

LEMMA Case4 ==
  ASSUME NEW t, NEW S, SearchTree(t, S), NEW n \in In(t), NEW h, Coloured(t, h, n),
         IsRed(t, n), NEW p, p = Parent(t, n), IsRed(t, p), NEW g, g = Parent(t, p),
         NEW q \in Side, Child(t, p, 1 - q) = n, Child(t, g, q) = p,
         ~IsRed(t, Child(t, g, 1 - q)),
         NEW r, r = InsertCase4(t, n, q)
  PROVE  /\ \E S2 : SearchTree(r, S2)
         /\ SameNames(t, r)
         /\ \E h2 : Coloured(r, h2, NULL)
<1> DEFINE t1   == Rotated(t, p, q)
           over == Child(t, n, q)
<1>1. /\ p \in In(t) /\ g \in In(t) /\ ~IsRed(t, g)
      /\ n # p /\ p # g /\ n # g
  BY RedFamily
<1>2. n # NULL /\ 1 - q \in Side
  BY DEF IsRed
<1>3. over # p /\ over # n /\ (g = over => over = NULL)
  BY <1>1, <1>2, Family
<1>4. \E S2 : SearchTree(t1, S2)
  BY <1>1, <1>2, RotatedTree
<1>5. PICK S2 : SearchTree(t1, S2)
  BY <1>4
<1>6. Coloured(t1, h, p)
  BY <1>1, <1>2, RotatedReds
<1>7. /\ Len(t1.node) = Len(t.node)
      /\ \A m \in In(t) :
           /\ Key(t1, m) = Key(t, m) /\ (IsRed(t1, m) <=> IsRed(t, m))
           /\ Parent(t1, m) = IF m = p THEN n
                              ELSE IF m = n THEN g
                              ELSE IF m = over THEN p ELSE Parent(t, m)
           /\ \A s \in Side :
                Child(t1, m, s) = IF m = p /\ s = 1 - q THEN over
                                  ELSE IF m = n /\ s = q THEN p
                                  ELSE IF m = g /\ Child(t, m, s) = p THEN n
                                  ELSE Child(t, m, s)
  BY <1>1, <1>2, RotatedNodes
<1>8. In(t1) = In(t) /\ \A m \in In(t) : Key(t1, m) = Key(t, m)
  BY <1>7 DEF In
<1>9. r = InsertCase5(t1, p)
  BY DEF InsertCase4
<1> HIDE DEF t1
<1>10. /\ Parent(t1, p) = n /\ Parent(t1, n) = g
       /\ Child(t1, n, q) = p /\ Child(t1, g, q) = n
       /\ IsRed(t1, p) /\ IsRed(t1, n)
  BY <1>1, <1>7
<1>11. ~IsRed(t1, Child(t1, g, 1 - q))
  <2> DEFINE u == Child(t, g, 1 - q)
  <2>1. u # p
    <3>1. u = p => q = 1 - q
      BY <1>1, <1>2, OneSide DEF IsRed
    <3> QED BY <3>1
  <2>2. Child(t1, g, 1 - q) = u
    BY <1>1, <1>2, <1>7, <2>1
  <2>3. u # NULL => u \in In(t)
    BY <1>1, <1>2 DEF SearchTree, Shape, At
  <2> QED BY <1>7, <2>2, <2>3 DEF IsRed
<1>12. /\ \E S3 : SearchTree(r, S3)
       /\ SameNames(t1, r)
       /\ \E h2 : Coloured(r, h2, NULL)
  BY <1>1, <1>5, <1>6, <1>8, <1>9, <1>10, <1>11, Case5
<1>13. SameNames(t, r)
  BY <1>8, <1>12 DEF SameNames
<1> QED BY <1>12, <1>13

Rebalanced(t, n) ==
  IF \E side \in Side : Inner(t, n, side)
  THEN InsertCase4(t, n, CHOOSE side \in Side : Inner(t, n, side))
  ELSE InsertCase5(t, n)

LEMMA RebalancedTree ==
  ASSUME NEW t, NEW S, SearchTree(t, S), NEW n \in In(t), NEW h, Coloured(t, h, n),
         IsRed(t, n), IsRed(t, Parent(t, n)), ~IsRed(t, Uncle(t, n)),
         NEW r, r = Rebalanced(t, n)
  PROVE  /\ \E S2 : SearchTree(r, S2)
         /\ SameNames(t, r)
         /\ \E h2 : Coloured(r, h2, NULL)
<1> DEFINE p == Parent(t, n)
           g == Parent(t, p)
<1>1. /\ p \in In(t) /\ g \in In(t)
  BY RedFamily
<1>2. PICK s, q \in Side :
        Child(t, p, s) = n /\ Child(t, g, q) = p /\ Uncle(t, n) = Child(t, g, 1 - q)
  BY RedFamily
<1>3. p # NULL
  BY DEF IsRed
<1>4. CASE \E side \in Side : Inner(t, n, side)
  <2>1. PICK side \in Side : Inner(t, n, side) /\ r = InsertCase4(t, n, side)
    BY <1>4, Zenon DEF Rebalanced
  <2>2. Child(t, p, 1 - side) = n /\ Child(t, g, side) = p
    BY <2>1 DEF Inner
  <2>3. side = q
    BY <1>1, <1>2, <1>3, <2>2, OneSide
  <2> QED BY <1>2, <2>1, <2>2, <2>3, Case4
<1>5. CASE ~ \E side \in Side : Inner(t, n, side)
  <2>1. r = InsertCase5(t, n)
    BY <1>5 DEF Rebalanced
  <2>2. ~Inner(t, n, q)
    BY <1>5
  <2>3. s = q
    <3>1. s = q \/ s = 1 - q
      OBVIOUS
    <3>2. s # 1 - q
      BY <1>2, <2>2 DEF Inner
    <3> QED BY <3>1, <3>2
  <2> QED BY <1>2, <2>1, <2>3, Case5
<1> QED BY <1>4, <1>5

-----------------------------------------------------------------------------
(* The invariant.                                                          *)

(* Where the call in progress is.                                          *)
Place ==
  /\ pc \in {"idle", "finding", "found", "placing", "checking"}
  /\ sought \in Name \cup {NULL}
  /\ pc \in {"finding", "found", "placing"} => sought \in Name
  /\ current \in At(tree) /\ previous \in At(tree) /\ lastTurn \in Side
  /\ pc = "checking" => current \in In(tree) /\ IsRed(tree, current)

(* A lookup has the room it looks for, if there is one, below it.          *)
Lookup(S) ==
  pc = "finding" => \A m \in In(tree) : Key(tree, m) = sought => m \in S[current]

(* An insertion is where a lookup of the same name would be.               *)
Insertion(S) ==
  pc = "placing" =>
    /\ \A m \in In(tree) : Key(tree, m) # sought
    /\ LeadsTo(tree, S, sought, previous)
    /\ previous = NULL => current = tree.root
    /\ previous # NULL =>
         /\ current = Child(tree, previous, lastTurn)
         /\ lastTurn = Turn(sought, Key(tree, previous))

OnTheWay(S) == SearchTree(tree, S) /\ Lookup(S) /\ Insertion(S)

(* The node whose parent may be red: the one that is being checked.        *)
Checked == IF pc = "checking" THEN current ELSE NULL

Colours == \E h : Coloured(tree, h, Checked)

IInv ==
  /\ Place
  /\ Unique(tree)
  /\ \E S : OnTheWay(S)
  /\ Colours
  /\ FindMatchFinds

LEMMA InitHolds == Init => IInv
<1> SUFFICES ASSUME Init PROVE IInv
  OBVIOUS
<1>1. /\ tree = [root |-> NULL, node |-> <<>>] /\ pc = "idle"
      /\ sought = NULL /\ current = NULL /\ previous = NULL /\ lastTurn = LEFT
  BY DEF Init
<1>2. /\ tree.root = NULL /\ tree.node = <<>> /\ Len(tree.node) = 0
      /\ tree.node \in Seq(Cell)
  BY <1>1
<1>3. In(tree) = {} /\ At(tree) = {NULL}
  BY <1>2 DEF In, At
<1> DEFINE S == [m \in {NULL} |-> {}]
           h == [m \in {NULL} |-> 0]
<1>4. SearchTree(tree, S)
  <2>1. Shape(tree)
    BY <1>1, <1>2, <1>3 DEF Shape
  <2>2. Linked(tree)
    BY <1>2, <1>3 DEF Linked
  <2>3. Covers(tree, S)
    BY <1>2, <1>3 DEF Covers
  <2>4. Ordered(tree, S)
    BY <1>3 DEF Ordered
  <2> QED BY <2>1, <2>2, <2>3, <2>4 DEF SearchTree
<1>5. Coloured(tree, h, NULL)
  BY <1>2, <1>3 DEF Coloured, IsRed
<1>6. Unique(tree)
  BY <1>3 DEF Unique
<1>7. Place
  BY <1>1, <1>3 DEF Place
<1>8. OnTheWay(S)
  BY <1>1, <1>4 DEF OnTheWay, Lookup, Insertion
<1>9. Colours
  BY <1>1, <1>5 DEF Colours, Checked
<1>10. FindMatchFinds
  BY <1>1 DEF FindMatchFinds
<1> QED BY <1>6, <1>7, <1>8, <1>9, <1>10 DEF IInv

(* Steps that leave the tree alone.                                        *)

LEMMA FindMatchKeeps ==
  ASSUME IInv, NEW k \in Name, FindMatch(k)
  PROVE  IInv'
<1>1. /\ pc = "idle" /\ pc' = "finding" /\ sought' = k /\ current' = tree.root
      /\ tree' = tree /\ previous' = previous /\ lastTurn' = lastTurn
  BY DEF FindMatch
<1>2. PICK S : OnTheWay(S)
  BY DEF IInv
<1>3. tree.root \in At(tree) /\ S[tree.root] = In(tree)
  BY <1>2 DEF OnTheWay, SearchTree, Shape, Covers
<1>4. Place'
  BY <1>1, <1>3 DEF IInv, Place
<1>5. OnTheWay(S)'
  BY <1>1, <1>2, <1>3 DEF OnTheWay, Lookup, Insertion
<1>6. Colours'
  BY <1>1 DEF IInv, Colours, Checked
<1> QED BY <1>1, <1>4, <1>5, <1>6 DEF IInv, FindMatchFinds

LEMMA RetrieveMatchKeeps ==
  ASSUME IInv, RetrieveMatch
  PROVE  IInv'
<1>1. /\ pc = "finding"
      /\ tree' = tree /\ sought' = sought /\ previous' = previous /\ lastTurn' = lastTurn
  BY DEF RetrieveMatch
<1>2. PICK S : OnTheWay(S)
  BY DEF IInv
<1>3. Place
  BY DEF IInv
<1>4. SearchTree(tree, S) /\ \A m \in In(tree) : Key(tree, m) = sought => m \in S[current]
  BY <1>1, <1>2 DEF OnTheWay, Lookup
<1>5. CASE current = NULL \/ tree.node[current].room = sought
  <2>1. pc' = "found" /\ current' = current
    BY <1>5 DEF RetrieveMatch
  <2>2. FindMatchFinds'
    <3>1. CASE current = NULL
      <4>1. S[current] = {}
        BY <1>4, <3>1 DEF SearchTree, Covers
      <4>2. \A m \in In(tree) : tree.node[m].room # sought
        BY <1>4, <4>1 DEF Key
      <4> QED BY <1>1, <2>1, <3>1, <4>2 DEF FindMatchFinds, Nodes, In
    <3>2. CASE current # NULL
      BY <1>1, <1>5, <2>1, <3>2 DEF FindMatchFinds
    <3> QED BY <3>1, <3>2
  <2>3. Place'
    BY <1>1, <1>3, <2>1 DEF Place
  <2>4. OnTheWay(S)'
    BY <1>1, <1>2, <2>1 DEF OnTheWay, Lookup, Insertion
  <2>5. Colours'
    BY <1>1, <2>1 DEF IInv, Colours, Checked
  <2> QED BY <1>1, <2>2, <2>3, <2>4, <2>5 DEF IInv
<1>6. CASE ~(current = NULL \/ tree.node[current].room = sought)
  <2> DEFINE s == Turn(sought, Key(tree, current))
  <2>1. pc' = "finding" /\ current' = Child(tree, current, s) /\ s \in Side
    BY <1>1, <1>6 DEF RetrieveMatch, Turn, Key
  <2>2. current \in In(tree) /\ Key(tree, current) # sought
    BY <1>3, <1>6 DEF Place, At, Key
  <2>3. current' \in At(tree)
    BY <1>4, <2>1, <2>2 DEF SearchTree, Shape
  <2>4. ASSUME NEW m \in In(tree), Key(tree, m) = sought
        PROVE  m \in S[current']
    <3>1. m \in S[current] /\ m # current
      BY <1>4, <2>2, <2>4
    <3>2. S[current] = {current} \cup S[Child(tree, current, LEFT)]
                                 \cup S[Child(tree, current, RIGHT)]
      BY <1>4, <2>2 DEF SearchTree, Covers
    <3>3. PICK q \in Side : m \in S[Child(tree, current, q)]
      BY <3>1, <3>2
    <3>4. q = Turn(Key(tree, m), Key(tree, current))
      BY <1>4, <2>2, <3>3 DEF SearchTree, Ordered
    <3> QED BY <2>1, <2>4, <3>3, <3>4
  <2>5. Place'
    BY <1>1, <1>3, <2>1, <2>3 DEF Place
  <2>6. OnTheWay(S)'
    BY <1>1, <1>2, <2>1, <2>4 DEF OnTheWay, Lookup, Insertion
  <2>7. Colours'
    BY <1>1, <2>1 DEF IInv, Colours, Checked
  <2> QED BY <1>1, <2>1, <2>5, <2>6, <2>7 DEF IInv, FindMatchFinds
<1> QED BY <1>5, <1>6

LEMMA ReturnKeeps ==
  ASSUME IInv, Return
  PROVE  IInv'
<1>1. /\ pc = "found" /\ pc' = "idle" /\ current' = NULL /\ sought' = NULL
      /\ tree' = tree /\ previous' = previous /\ lastTurn' = lastTurn
  BY DEF Return
<1>2. PICK S : OnTheWay(S)
  BY DEF IInv
<1>3. Place'
  BY <1>1 DEF IInv, Place, At
<1>4. OnTheWay(S)'
  BY <1>1, <1>2 DEF OnTheWay, Lookup, Insertion
<1>5. Colours'
  BY <1>1 DEF IInv, Colours, Checked
<1> QED BY <1>1, <1>3, <1>4, <1>5 DEF IInv, FindMatchFinds

LEMMA GiveDataKeeps ==
  ASSUME IInv, GiveData
  PROVE  IInv'
<1>1. /\ pc = "found" /\ current = NULL /\ pc' = "placing"
      /\ current' = tree.root /\ previous' = NULL
      /\ tree' = tree /\ sought' = sought /\ lastTurn' = lastTurn
  BY DEF GiveData
<1>2. PICK S : OnTheWay(S)
  BY DEF IInv
<1>3. \A m \in In(tree) : Key(tree, m) # sought
  BY <1>1 DEF IInv, FindMatchFinds, Nodes, In, Key
<1>4. tree.root \in At(tree) /\ \A m \in In(tree) : NULL \notin S[m]
  BY <1>2, ShapeType DEF OnTheWay, SearchTree, Shape, Covers, At
<1>5. Place'
  BY <1>1, <1>4 DEF IInv, Place, At
<1>6. LeadsTo(tree, S, sought, NULL)
  BY <1>4 DEF LeadsTo
<1>7. OnTheWay(S)'
  BY <1>1, <1>2, <1>3, <1>6 DEF OnTheWay, Lookup, Insertion
<1>8. Colours'
  BY <1>1 DEF IInv, Colours, Checked
<1> QED BY <1>1, <1>5, <1>7, <1>8 DEF IInv, FindMatchFinds

LEMMA DescendKeeps ==
  ASSUME IInv, Descend
  PROVE  IInv'
<1> DEFINE s == Turn(sought, Key(tree, current))
<1>1. /\ pc = "placing" /\ pc' = "placing" /\ current # NULL /\ previous' = current
      /\ lastTurn' = s /\ current' = Child(tree, current, s) /\ s \in Side
      /\ tree' = tree /\ sought' = sought
  BY DEF Descend, Turn, Key
<1>2. PICK S : OnTheWay(S)
  BY DEF IInv
<1>3. current \in In(tree) /\ previous \in At(tree)
  BY <1>1 DEF IInv, Place, At
<1>4. /\ \A m \in In(tree) : Key(tree, m) # sought
      /\ LeadsTo(tree, S, sought, previous)
      /\ previous = NULL => current = tree.root
      /\ previous # NULL =>
           current = Child(tree, previous, Turn(sought, Key(tree, previous)))
  BY <1>1, <1>2 DEF OnTheWay, Insertion
<1>5. SearchTree(tree, S)
  BY <1>2 DEF OnTheWay
<1>6. LeadsTo(tree, S, sought, current)
  <2>1. SUFFICES ASSUME NEW m \in In(tree), current \in S[m], m # current
                 PROVE  current \in S[Child(tree, m, Turn(sought, Key(tree, m)))]
    BY DEF LeadsTo
  <2>2. Parent(tree, current) \in S[m] /\ S[m] \subseteq In(tree)
    BY <1>5, <2>1 DEF SearchTree, Covers, At
  <2>3. Parent(tree, current) # NULL
    BY <1>5, <2>2, ShapeType DEF SearchTree
  <2>4. previous # NULL /\ previous \in In(tree)
    BY <1>1, <1>3, <1>4, <1>5, <2>3 DEF SearchTree, Linked, At
  <2>5. Turn(sought, Key(tree, previous)) \in Side
    BY DEF Turn
  <2>6. /\ Parent(tree, current) = previous /\ current \in S[current]
        /\ current \in S[previous]
    BY <1>1, <1>4, <1>5, <2>4, <2>5, Below
  <2>7. CASE m = previous
    BY <1>4, <2>4, <2>6, <2>7
  <2>8. CASE m # previous
    <3> DEFINE d == Child(tree, m, Turn(sought, Key(tree, m)))
    <3>1. previous \in S[d]
      BY <1>4, <2>2, <2>6, <2>8 DEF LeadsTo
    <3>2. d \in In(tree)
      <4>1. d \in At(tree)
        BY <1>5 DEF SearchTree, Shape, Turn
      <4> QED BY <1>5, <3>1, <4>1 DEF SearchTree, Covers, At
    <3>3. S[previous] \subseteq S[d]
      BY <1>5, <3>1, <3>2 DEF SearchTree, Covers
    <3> QED BY <2>6, <3>3
  <2> QED BY <2>7, <2>8
<1>7. current' \in At(tree)
  BY <1>1, <1>3, <1>5 DEF SearchTree, Shape
<1>8. Place'
  BY <1>1, <1>3, <1>7 DEF IInv, Place, At
<1>9. OnTheWay(S)'
  BY <1>1, <1>2, <1>4, <1>6 DEF OnTheWay, Lookup, Insertion
<1>10. Colours'
  BY <1>1 DEF IInv, Colours, Checked
<1> QED BY <1>1, <1>8, <1>9, <1>10 DEF IInv, FindMatchFinds

(* Steps that change the tree.                                             *)

LEMMA SameNamesKeep ==
  ASSUME NEW t, NEW u, SameNames(t, u), Unique(t)
  PROVE  Unique(u)
BY DEF SameNames, Unique

LEMMA AlikeNames ==
  ASSUME NEW t, NEW u, Alike(t, u)
  PROVE  SameNames(t, u)
BY DEF Alike, SameNames, In

(* The end of a call.                                                      *)
LEMMA DoneKeeps ==
  ASSUME IInv, Done, Unique(tree)', \E S : SearchTree(tree', S),
         \E h : Coloured(tree', h, NULL)
  PROVE  IInv'
<1>1. /\ pc' = "idle" /\ sought' = NULL
      /\ current' = NULL /\ previous' = NULL /\ lastTurn' = LEFT
  BY DEF Done
<1>2. PICK S : SearchTree(tree', S)
  OBVIOUS
<1>3. OnTheWay(S)'
  BY <1>1, <1>2 DEF OnTheWay, Lookup, Insertion
<1>4. Place'
  BY <1>1 DEF Place, At
<1>5. Colours'
  BY <1>1 DEF Colours, Checked
<1> QED BY <1>1, <1>3, <1>4, <1>5 DEF IInv, FindMatchFinds

LEMMA PlaceDataKeeps ==
  ASSUME IInv, PlaceData
  PROVE  IInv'
<1> DEFINE new == Len(tree.node) + 1
<1>1. /\ pc = "placing" /\ pc' = "checking" /\ current = NULL /\ current' = new
      /\ sought' = sought /\ previous' = previous /\ lastTurn' = lastTurn
      /\ tree' = Placed(tree, sought, previous, lastTurn)
  BY Zenon DEF PlaceData, Placed
<1>2. PICK S : OnTheWay(S)
  BY DEF IInv
<1>3. /\ \A m \in In(tree) : Key(tree, m) # sought
      /\ LeadsTo(tree, S, sought, previous)
      /\ previous = NULL => tree.root = NULL
      /\ previous # NULL =>
           /\ Child(tree, previous, lastTurn) = NULL
           /\ lastTurn = Turn(sought, Key(tree, previous))
      /\ SearchTree(tree, S)
  BY <1>1, <1>2 DEF OnTheWay, Insertion
<1>4. /\ sought \in Name /\ previous \in At(tree) /\ lastTurn \in Side
  BY <1>1 DEF IInv, Place
<1>5. PICK h : Coloured(tree, h, NULL)
  BY <1>1 DEF IInv, Colours, Checked
<1>6. \E S2 : SearchTree(tree', S2)
  BY <1>1, <1>3, <1>4, PlacedTree
<1>7. \E h2 : Coloured(tree', h2, new)
  BY <1>1, <1>3, <1>4, <1>5, PlacedColours
<1>8. /\ In(tree') = In(tree) \cup {new} /\ At(tree) \subseteq At(tree')
      /\ Key(tree', new) = sought /\ IsRed(tree', new)
      /\ \A m \in In(tree) : Key(tree', m) = Key(tree, m)
  <2>1. Shape(tree)
    BY <1>3 DEF SearchTree
  <2>2. /\ In(tree') = In(tree) \cup {new}
        /\ Key(tree', new) = sought /\ IsRed(tree', new)
        /\ \A m \in In(tree) : Key(tree', m) = Key(tree, m)
    BY <1>1, <1>4, <2>1, PlacedNodes
  <2> QED BY <2>2 DEF At
<1> HIDE DEF new
<1>9. Unique(tree')
  BY <1>3, <1>8 DEF IInv, Unique
<1>10. Place'
  BY <1>1, <1>4, <1>8 DEF Place, At
<1>11. PICK S2 : SearchTree(tree', S2)
  BY <1>6
<1>12. OnTheWay(S2)'
  BY <1>1, <1>11 DEF OnTheWay, Lookup, Insertion
<1>13. Colours'
  BY <1>1, <1>7 DEF Colours, Checked
<1>14. Unique(tree)'
  BY <1>9
<1>15. FindMatchFinds'
  BY <1>1 DEF FindMatchFinds
<1> QED BY <1>10, <1>12, <1>13, <1>14, <1>15 DEF IInv

(* What a check begins with.                                               *)
LEMMA Checking ==
  ASSUME IInv, pc = "checking"
  PROVE  /\ current \in In(tree) /\ IsRed(tree, current) /\ Unique(tree)
         /\ \E S : SearchTree(tree, S)
         /\ \E h : Coloured(tree, h, current)
BY DEF IInv, Place, OnTheWay, Colours, Checked

LEMMA CheckRootKeeps ==
  ASSUME IInv, CheckRoot
  PROVE  IInv'
<1>1. Parent(tree, current) = NULL /\ tree' = Black(tree, current) /\ Done
      /\ pc = "checking"
  BY DEF CheckRoot
<1>2. PICK S : SearchTree(tree, S)
  BY <1>1, Checking
<1>3. \E h : Coloured(tree, h, current)
  BY <1>1, Checking
<1>4. current \in In(tree) /\ IsRed(tree, current) /\ Unique(tree)
  BY <1>1, Checking
<1>5. \E h : Coloured(tree', h, NULL)
  BY <1>1, <1>2, <1>3, <1>4, RootTurnsBlack
<1>6. tree' \in [root : Nat, node : Seq(Cell)] /\ Alike(tree, tree')
  BY <1>1, <1>2, <1>4, PaintedBlack DEF SearchTree
<1>7. SearchTree(tree', S)
  BY <1>2, <1>6, AlikeKeeps
<1>8. Unique(tree')
  BY <1>4, <1>6, AlikeNames, SameNamesKeep
<1>9. Unique(tree)'
  BY <1>8
<1> QED BY <1>1, <1>5, <1>7, <1>9, DoneKeeps

LEMMA CheckBlackParentKeeps ==
  ASSUME IInv, CheckBlackParent
  PROVE  IInv'
<1>1. /\ Parent(tree, current) # NULL /\ ~IsRed(tree, Parent(tree, current)) /\ Done
      /\ pc = "checking" /\ tree' = tree
  BY DEF CheckBlackParent
<1>2. PICK S : SearchTree(tree, S)
  BY <1>1, Checking
<1>3. PICK h : Coloured(tree, h, current)
  BY <1>1, Checking
<1>4. current \in In(tree) /\ Unique(tree)
  BY <1>1, Checking
<1>5. Coloured(tree, h, NULL)
  BY <1>1, <1>2, <1>3, <1>4, BelowBlack
<1>6. Unique(tree)'
  BY <1>1, <1>4
<1> QED BY <1>1, <1>2, <1>5, <1>6, DoneKeeps

LEMMA CheckRedUncleKeeps ==
  ASSUME IInv, CheckRedUncle
  PROVE  IInv'
<1>1. /\ IsRed(tree, Parent(tree, current)) /\ IsRed(tree, Uncle(tree, current))
      /\ pc = "checking" /\ pc' = "checking"
      /\ tree' = Swapped(tree, current)
      /\ current' = Parent(tree, Parent(tree, current))
      /\ sought' = sought /\ previous' = previous /\ lastTurn' = lastTurn
  BY DEF CheckRedUncle, RedParent, Swapped
<1>2. PICK S : SearchTree(tree, S)
  BY <1>1, Checking
<1>3. PICK h : Coloured(tree, h, current)
  BY <1>1, Checking
<1>4. current \in In(tree) /\ IsRed(tree, current) /\ Unique(tree)
  BY <1>1, Checking
<1>5. /\ SearchTree(tree', S) /\ Alike(tree, tree')
      /\ current' \in In(tree) /\ IsRed(tree', current')
      /\ \E h2 : Coloured(tree', h2, current')
  BY <1>1, <1>2, <1>3, <1>4, SwappedColours
<1>6. Unique(tree')
  BY <1>4, <1>5, AlikeNames, SameNamesKeep
<1>7. In(tree') = In(tree) /\ At(tree') = At(tree)
  BY <1>5 DEF Alike, In, At
<1>8. Place'
  BY <1>1, <1>5, <1>7 DEF IInv, Place, At
<1>9. OnTheWay(S)'
  BY <1>1, <1>5 DEF OnTheWay, Lookup, Insertion
<1>10. Colours'
  BY <1>1, <1>5 DEF Colours, Checked
<1>11. Unique(tree)'
  BY <1>6
<1>12. FindMatchFinds'
  BY <1>1 DEF FindMatchFinds
<1> QED BY <1>8, <1>9, <1>10, <1>11, <1>12 DEF IInv

LEMMA CheckRotateKeeps ==
  ASSUME IInv, CheckRotate
  PROVE  IInv'
<1>1. /\ IsRed(tree, Parent(tree, current)) /\ ~IsRed(tree, Uncle(tree, current))
      /\ pc = "checking" /\ Done /\ tree' = Rebalanced(tree, current)
  BY DEF CheckRotate, RedParent, Rebalanced
<1>2. PICK S : SearchTree(tree, S)
  BY <1>1, Checking
<1>3. PICK h : Coloured(tree, h, current)
  BY <1>1, Checking
<1>4. current \in In(tree) /\ IsRed(tree, current) /\ Unique(tree)
  BY <1>1, Checking
<1>5. /\ \E S2 : SearchTree(tree', S2)
      /\ SameNames(tree, tree')
      /\ \E h2 : Coloured(tree', h2, NULL)
  BY <1>1, <1>2, <1>3, <1>4, RebalancedTree
<1>6. Unique(tree)'
  BY <1>4, <1>5, SameNamesKeep
<1> QED BY <1>1, <1>5, <1>6, DoneKeeps

LEMMA NextHolds == IInv /\ [Next]_vars => IInv'
<1> SUFFICES ASSUME IInv, [Next]_vars PROVE IInv'
  OBVIOUS
<1>1. CASE \E k \in Name : FindMatch(k)
  BY <1>1, FindMatchKeeps
<1>2. CASE Return
  BY <1>2, ReturnKeeps
<1>3. CASE GiveData
  BY <1>3, GiveDataKeeps
<1>4. CASE RetrieveMatch
  BY <1>4, RetrieveMatchKeeps
<1>5. CASE Descend
  BY <1>5, DescendKeeps
<1>6. CASE PlaceData
  BY <1>6, PlaceDataKeeps
<1>7. CASE CheckRoot
  BY <1>7, CheckRootKeeps
<1>8. CASE CheckBlackParent
  BY <1>8, CheckBlackParentKeeps
<1>9. CASE CheckRedUncle
  BY <1>9, CheckRedUncleKeeps
<1>10. CASE CheckRotate
  BY <1>10, CheckRotateKeeps
<1>11. CASE UNCHANGED vars
  BY <1>11 DEF vars, IInv, Place, Unique, OnTheWay, Lookup, Insertion, Colours, Checked,
               FindMatchFinds, Nodes
<1> QED BY <1>1, <1>2, <1>3, <1>4, <1>5, <1>6, <1>7, <1>8, <1>9, <1>10, <1>11
        DEF Next, Step

LEMMA Invariance == Spec => []IInv
BY InitHolds, NextHolds, PTL DEF Spec

-----------------------------------------------------------------------------
(* The theorems.                                                           *)

(* Every value that the code stores in the tree, or keeps while it goes    *)
(* through it, has its type, and no pointer leads out of the nodes that    *)
(* have been allocated.                                                    *)
THEOREM TypeCorrect == Spec => []TypeOK
<1>1. IInv => TypeOK
  <2> SUFFICES ASSUME IInv PROVE TypeOK
    OBVIOUS
  <2>1. PICK S : SearchTree(tree, S)
    BY DEF IInv, OnTheWay
  <2>2. /\ Len(tree.node) \in Nat /\ tree.node \in [In(tree) -> Cell]
        /\ \A n \in In(tree) :
             /\ Parent(tree, n) \in At(tree)
             /\ \A s \in Side : Child(tree, n, s) \in At(tree)
    BY <2>1, ShapeType DEF SearchTree
  <2>3. Nodes = In(tree) /\ At(tree) = {NULL} \cup Nodes
    BY DEF Nodes, In, At
  <2>4. ASSUME NEW n \in In(tree)
        PROVE  tree.node[n] \in Node
    <3>1. /\ tree.node[n] \in Cell
          /\ tree.node[n].parent \in {NULL} \cup Nodes
          /\ \A s \in Side : tree.node[n].child[s] \in {NULL} \cup Nodes
      BY <2>2, <2>3, <2>4 DEF Parent, Child
    <3>2. tree.node[n].child \in [Side -> {NULL} \cup Nodes]
      BY <3>1 DEF Cell
    <3> HIDE DEF Side
    <3> QED BY <3>1, <3>2 DEF Cell, Node
  <2>5. tree.node \in Seq(Node)
    <3>1. tree.node \in [1 .. Len(tree.node) -> Node]
      BY <2>2, <2>4 DEF In
    <3> QED BY <2>2, <3>1
  <2>6. tree.root \in {NULL} \cup Nodes
    BY <2>1, <2>3 DEF SearchTree, Shape
  <2> QED BY <2>3, <2>5, <2>6 DEF IInv, Place, TypeOK
<1> QED BY <1>1, Invariance, PTL

(* find_match returns the room of that name, or NULL if and only if there  *)
(* is none, for any names, in any order, whatever was rotated on the way.  *)
THEOREM LookupIsRight == Spec => []FindMatchFinds
<1>1. IInv => FindMatchFinds
  BY DEF IInv
<1> QED BY <1>1, Invariance, PTL

(* room_add_user never gives the tree a second room of the same name.      *)
THEOREM NamesAreUnique == Spec => []OneRoomPerName
<1>1. IInv => OneRoomPerName
  BY DEF IInv, Unique, OneRoomPerName, Nodes, In, Key
<1> QED BY <1>1, Invariance, PTL

-----------------------------------------------------------------------------
(* The ways down from the root.                                            *)

(* One level further down.                                                 *)
Onward(t, X) ==
  {<<Child(t, x[1], s), x[2] + (IF IsRed(t, x[1]) THEN 0 ELSE 1)>> :
     x \in {y \in X : y[1] # NULL}, s \in Side}

(* The first n levels.                                                     *)
Levels(t, f, n) ==
  f = [d \in 0 .. n |-> IF d = 0 THEN {<<t.root, 0>>} ELSE Onward(t, f[d - 1])]

LEMMA LevelsExist ==
  ASSUME NEW t
  PROVE  \A n \in Nat : \E f : Levels(t, f, n)
<1> DEFINE X == {n \in Nat : \E f : Levels(t, f, n)}
<1>1. 0 \in X
  <2> DEFINE f == [d \in 0 .. 0 |-> {<<t.root, 0>>}]
  <2>1. Levels(t, f, 0)
    <3>1. \A d \in 0 .. 0 : d = 0
      OBVIOUS
    <3> QED BY <3>1 DEF Levels
  <2> QED BY <2>1
<1>2. ASSUME NEW n \in X
      PROVE  n + 1 \in X
  <2>1. PICK f : Levels(t, f, n)
    OBVIOUS
  <2> DEFINE g == [d \in 0 .. n + 1 |-> IF d = n + 1 THEN Onward(t, f[n]) ELSE f[d]]
             k == [d \in 0 .. n + 1 |-> IF d = 0 THEN {<<t.root, 0>>}
                                        ELSE Onward(t, g[d - 1])]
  <2>2. n \in Nat
    OBVIOUS
  <2>3. \A d \in 0 .. n : f[d] = IF d = 0 THEN {<<t.root, 0>>} ELSE Onward(t, f[d - 1])
    BY <2>1, <2>2 DEF Levels
  <2>4. \A d \in 0 .. n + 1 : d # n + 1 => d \in 0 .. n
    BY <2>2
  <2>5. \A d \in 0 .. n + 1 : d # 0 => d - 1 \in 0 .. n /\ d - 1 # n + 1
    BY <2>2
  <2>6. \A d \in 0 .. n : d \in 0 .. n + 1 /\ d # n + 1
    BY <2>2
  <2>7. g[n + 1] = Onward(t, f[n]) /\ \A d \in 0 .. n : g[d] = f[d]
    BY <2>2, <2>6
  <2> HIDE DEF g
  <2>8. ASSUME NEW d \in 0 .. n + 1
        PROVE  g[d] = k[d]
    <3>1. CASE d = n + 1
      BY <2>2, <2>5, <2>7, <3>1
    <3>2. CASE d # n + 1 /\ d = 0
      BY <2>3, <2>4, <2>7, <3>2
    <3>3. CASE d # n + 1 /\ d # 0
      <4>1. d \in 0 .. n /\ d - 1 \in 0 .. n
        BY <2>4, <2>5, <3>3
      <4> QED BY <2>3, <2>7, <3>3, <4>1
    <3> QED BY <3>1, <3>2, <3>3
  <2>9. g = k
    BY <2>8 DEF g
  <2>10. Levels(t, g, n + 1)
    BY <2>9 DEF Levels
  <2> QED BY <2>2, <2>10
<1> HIDE DEF X
<1>3. X = Nat
  <2>1. X \in SUBSET Nat
    BY DEF X
  <2> QED BY <1>1, <1>2, <2>1, SetInduction
<1> QED BY <1>3 DEF X

LEMMA WaysAre ==
  ASSUME Len(tree.node) \in Nat
  PROVE  /\ DOMAIN Ways = 0 .. Len(tree.node) + 1
         /\ Ways[0] = {<<tree.root, 0>>}
         /\ \A d \in 0 .. Len(tree.node) : Ways[d + 1] = Onward(tree, Ways[d])
<1> DEFINE n == Len(tree.node) + 1
<1>1. \E f : Levels(tree, f, n)
  <2>1. n \in Nat
    OBVIOUS
  <2> HIDE DEF n
  <2> QED BY <2>1, LevelsExist
<1>2. Ways = CHOOSE f : Levels(tree, f, n)
  BY DEF Ways, Levels, Onward
<1>3. Levels(tree, Ways, n)
  BY <1>1, <1>2
<1>4. Ways = [d \in 0 .. n |-> IF d = 0 THEN {<<tree.root, 0>>}
                               ELSE Onward(tree, Ways[d - 1])]
  BY <1>3 DEF Levels
<1> HIDE DEF Ways
<1>5. \A d \in 0 .. Len(tree.node) :
        d + 1 \in 0 .. n /\ d + 1 # 0 /\ (d + 1) - 1 = d
  OBVIOUS
<1>6. 0 \in 0 .. n
  OBVIOUS
<1>7. DOMAIN Ways = 0 .. n
  BY <1>4
<1>8. \A d \in 0 .. n : Ways[d] = IF d = 0 THEN {<<tree.root, 0>>}
                                  ELSE Onward(tree, Ways[d - 1])
  BY <1>4
<1> HIDE DEF n
<1> QED BY <1>5, <1>6, <1>7, <1>8 DEF n

(* A way passes as many black nodes as h says, less those still to come.   *)
LEMMA WaysCount ==
  ASSUME NEW S, SearchTree(tree, S), NEW h, Coloured(tree, h, NULL),
         NEW d \in 0 .. Len(tree.node) + 1, NEW x \in Ways[d]
  PROVE  /\ x = <<x[1], x[2]>> /\ x[1] \in At(tree) /\ x[2] \in Nat
         /\ x[2] + h[x[1]] = h[tree.root]
<1> DEFINE L == Len(tree.node)
           Right(y) == /\ y = <<y[1], y[2]>> /\ y[1] \in At(tree) /\ y[2] \in Nat
                       /\ y[2] + h[y[1]] = h[tree.root]
           X == {n \in Nat : n \in 0 .. L + 1 => \A y \in Ways[n] : Right(y)}
<1>1. /\ L \in Nat /\ tree.root \in At(tree) /\ h \in [At(tree) -> Nat]
      /\ \A n \in In(tree), s \in Side : Child(tree, n, s) \in At(tree)
      /\ At(tree) = In(tree) \cup {NULL}
  BY ShapeType DEF SearchTree, Shape, Coloured, At
<1>2. /\ Ways[0] = {<<tree.root, 0>>}
      /\ \A n \in 0 .. L : Ways[n + 1] = Onward(tree, Ways[n])
  BY <1>1, WaysAre
<1>3. 0 \in X
  <2>1. Right(<<tree.root, 0>>)
    BY <1>1
  <2> QED BY <1>2, <2>1
<1>4. ASSUME NEW n \in X
      PROVE  n + 1 \in X
  <2>1. SUFFICES ASSUME n + 1 \in 0 .. L + 1, NEW z \in Ways[n + 1]
                 PROVE  Right(z)
    OBVIOUS
  <2>2. n \in 0 .. L /\ n \in 0 .. L + 1
    BY <1>1, <2>1
  <2>3. z \in Onward(tree, Ways[n])
    BY <1>2, <2>1, <2>2
  <2>4. PICK y \in Ways[n], s \in Side :
          /\ y[1] # NULL
          /\ z = <<Child(tree, y[1], s), y[2] + (IF IsRed(tree, y[1]) THEN 0 ELSE 1)>>
    BY <2>3 DEF Onward
  <2>5. Right(y)
    BY <2>2, <2>4
  <2>6. y[1] \in In(tree) /\ y[2] \in Nat /\ h[y[1]] \in Nat
    BY <1>1, <2>4, <2>5
  <2>7. /\ z[1] = Child(tree, y[1], s)
        /\ z[2] = y[2] + Blacks(tree, y[1]) /\ z = <<z[1], z[2]>>
    BY <2>4 DEF Blacks
  <2>8. h[y[1]] = h[z[1]] + Blacks(tree, y[1])
    BY <2>6, <2>7 DEF Coloured
  <2>9. z[1] \in At(tree) /\ h[z[1]] \in Nat /\ Blacks(tree, y[1]) \in Nat
    BY <1>1, <2>6, <2>7 DEF Blacks
  <2> QED BY <2>5, <2>6, <2>7, <2>8, <2>9
<1>5. X = Nat
  <2>1. X \in SUBSET Nat
    OBVIOUS
  <2> HIDE DEF X
  <2> QED BY <1>3, <1>4, <2>1, SetInduction
<1>6. d \in X
  BY <1>1, <1>5
<1> QED BY <1>6

LEMMA AllOfThem ==
  ASSUME NEW t, Len(t.node) \in Nat
  PROVE  IsFiniteSet(In(t)) /\ Cardinality(In(t)) = Len(t.node)
<1> DEFINE L == Len(t.node)
<1>1. L \in Nat
  OBVIOUS
<1> HIDE DEF L
<1>2. /\ IsFiniteSet(1 .. L)
      /\ Cardinality(1 .. L) = IF 1 > L THEN 0 ELSE L - 1 + 1
  BY <1>1, FS_Interval
<1>3. Cardinality(1 .. L) = L
  BY <1>1, <1>2
<1> QED BY <1>2, <1>3 DEF In, L

(* A way that always turns left comes to its end.                          *)
LEMMA SomeWayEnds ==
  ASSUME NEW S, SearchTree(tree, S)
  PROVE  \E d \in 0 .. Len(tree.node) + 1 : \E x \in Ways[d] : x[1] = NULL
<1> DEFINE L == Len(tree.node)
           X == {n \in Nat : n \in 0 .. L + 1 =>
                   \E y \in Ways[n] : /\ y[1] \in In(tree)
                                      /\ Cardinality(S[y[1]]) + n <= L}
<1> SUFFICES ASSUME \A d \in 0 .. L + 1 : \A x \in Ways[d] : x[1] # NULL
             PROVE  FALSE
  OBVIOUS
<1>1. /\ L \in Nat /\ tree.root \in At(tree)
      /\ \A n \in In(tree), s \in Side : Child(tree, n, s) \in At(tree)
      /\ At(tree) = In(tree) \cup {NULL}
  BY ShapeType DEF SearchTree, Shape, At
<1>2. /\ Ways[0] = {<<tree.root, 0>>}
      /\ \A n \in 0 .. L : Ways[n + 1] = Onward(tree, Ways[n])
  BY <1>1, WaysAre
<1>3. /\ S[tree.root] = In(tree) /\ \A n \in At(tree) : S[n] \subseteq In(tree)
  BY DEF SearchTree, Covers
<1>4. IsFiniteSet(In(tree)) /\ Cardinality(In(tree)) = L
  BY <1>1, AllOfThem
<1>5. 0 \in X
  <2> DEFINE y == <<tree.root, 0>>
  <2>1. y \in Ways[0] /\ y[1] = tree.root
    BY <1>2
  <2>2. tree.root \in In(tree)
    BY <1>1, <2>1
  <2>3. Cardinality(S[y[1]]) + 0 <= L
    BY <1>1, <1>3, <1>4, <2>1
  <2> HIDE DEF y
  <2>4. \E z \in Ways[0] : z[1] \in In(tree) /\ Cardinality(S[z[1]]) + 0 <= L
    BY <2>1, <2>2, <2>3
  <2> QED BY <2>4
<1>6. ASSUME NEW n \in X
      PROVE  n + 1 \in X
  <2>1. SUFFICES ASSUME n + 1 \in 0 .. L + 1
                 PROVE  \E z \in Ways[n + 1] : /\ z[1] \in In(tree)
                                               /\ Cardinality(S[z[1]]) + (n + 1) <= L
    OBVIOUS
  <2>2. n \in 0 .. L /\ n \in 0 .. L + 1 /\ n \in Nat
    BY <1>1, <2>1
  <2>3. PICK y \in Ways[n] : y[1] \in In(tree) /\ Cardinality(S[y[1]]) + n <= L
    BY <2>2
  <2> DEFINE m == y[1]
             c == Child(tree, m, LEFT)
             z == <<c, y[2] + (IF IsRed(tree, m) THEN 0 ELSE 1)>>
  <2>4. z \in Ways[n + 1] /\ z[1] = c
    <3>1. m # NULL
      BY <2>2
    <3>2. z \in Onward(tree, Ways[n])
      BY <3>1 DEF Onward
    <3> QED BY <1>2, <2>2, <3>2
  <2>5. c # NULL
    BY <2>1, <2>4
  <2>6. c \in In(tree) /\ S[c] \subseteq S[m] /\ m \notin S[c]
    BY <2>3, <2>5, Below
  <2>7. m \in S[m]
    BY <2>3 DEF SearchTree, Covers
  <2>8. S[m] \subseteq In(tree)
    BY <1>1, <1>3, <2>3
  <2>9. IsFiniteSet(S[m]) /\ Cardinality(S[m]) \in Nat
    BY <1>4, <2>8, FS_Subset, FS_CardinalityType
  <2>10. /\ Cardinality(S[c]) \in Nat
         /\ Cardinality(S[c]) <= Cardinality(S[m])
         /\ Cardinality(S[m]) # Cardinality(S[c])
    BY <2>6, <2>7, <2>9, FS_Subset, FS_CardinalityType
  <2>11. Cardinality(S[c]) + (n + 1) <= L
    BY <1>1, <2>2, <2>3, <2>9, <2>10
  <2> HIDE DEF z, c
  <2> QED BY <2>4, <2>6, <2>11
<1>7. X = Nat
  <2>1. X \in SUBSET Nat
    OBVIOUS
  <2> HIDE DEF X
  <2> QED BY <1>5, <1>6, <2>1, SetInduction
<1>8. PICK y \in Ways[L + 1] : y[1] \in In(tree) /\ Cardinality(S[y[1]]) + (L + 1) <= L
  <2>1. L + 1 \in X /\ L + 1 \in 0 .. L + 1
    BY <1>1, <1>7
  <2> QED BY <2>1
<1>9. Cardinality(S[y[1]]) \in Nat
  BY <1>1, <1>3, <1>4, <1>8, FS_Subset, FS_CardinalityType
<1> QED BY <1>1, <1>8, <1>9

(* Between two calls the tree is a red-black tree, after any insertions:   *)
(* the root is black, a red node has black children, parents and children  *)
(* agree, and every way down passes as many black nodes.                   *)
THEOREM ColoursAreRight == Spec => []RedBlackRules
<1>1. IInv => RedBlackRules
  <2> SUFFICES ASSUME IInv, pc = "idle" PROVE RedBlackRules
    BY DEF RedBlackRules
  <2>1. PICK S : SearchTree(tree, S)
    BY DEF IInv, OnTheWay
  <2>2. PICK h : Coloured(tree, h, NULL)
    BY DEF IInv, Colours, Checked
  <2>3. ~IsRed(tree, tree.root)
    BY <2>2 DEF Coloured, IsRed
  <2>4. ASSUME NEW n \in Nodes, NEW s \in Side, NEW c, c = Child(tree, n, s), c # NULL
        PROVE  Parent(tree, c) = n /\ ~(IsRed(tree, n) /\ IsRed(tree, c))
    <3>1. n \in In(tree)
      BY DEF Nodes, In
    <3> QED BY <2>1, <2>2, <2>4, <3>1 DEF SearchTree, Linked, Coloured
  <2> DEFINE Ends == {y \in UNION {Ways[d] : d \in DOMAIN Ways} : y[1] = NULL}
             Counts == {x[2] : x \in Ends}
  <2>5. DOMAIN Ways = 0 .. Len(tree.node) + 1
    BY <2>1, ShapeType, WaysAre DEF SearchTree
  <2>6. \A x \in Ends : x[2] = h[tree.root]
    <3>1. SUFFICES ASSUME NEW d \in 0 .. Len(tree.node) + 1, NEW x \in Ways[d], x[1] = NULL
                   PROVE  x[2] = h[tree.root]
      BY <2>5
    <3>2. x[2] \in Nat /\ x[2] + h[x[1]] = h[tree.root]
      BY <2>1, <2>2, WaysCount
    <3>3. h[NULL] = 0
      BY <2>2 DEF Coloured
    <3> QED BY <3>1, <3>2, <3>3
  <2>7. Ends # {}
    <3>1. PICK d \in 0 .. Len(tree.node) + 1 : \E x \in Ways[d] : x[1] = NULL
      BY <2>1, SomeWayEnds
    <3> QED BY <2>5, <3>1
  <2> HIDE DEF Ends
  <2>8. Counts = {h[tree.root]}
    BY <2>6, <2>7
  <2>9. Cardinality(Counts) = 1
    BY <2>8, FS_Singleton
  <2> QED BY <2>3, <2>4, <2>9 DEF RedBlackRules, Ends
<1> QED BY <1>1, Invariance, PTL

-----------------------------------------------------------------------------
(* The height of the tree.                                                 *)

(* The powers of two up to the n-th.                                       *)
Doubles(p, n) == p = [d \in 0 .. n |-> IF d = 0 THEN 1 ELSE 2 * p[d - 1]]

LEMMA DoublesExist == \A n \in Nat : \E p : Doubles(p, n)
<1> DEFINE X == {n \in Nat : \E p : Doubles(p, n)}
<1>1. 0 \in X
  <2> DEFINE p == [d \in 0 .. 0 |-> 1]
  <2>1. Doubles(p, 0)
    <3>1. \A d \in 0 .. 0 : d = 0
      OBVIOUS
    <3> QED BY <3>1 DEF Doubles
  <2> QED BY <2>1
<1>2. ASSUME NEW n \in X
      PROVE  n + 1 \in X
  <2>1. PICK p : Doubles(p, n)
    OBVIOUS
  <2> DEFINE g == [d \in 0 .. n + 1 |-> IF d = n + 1 THEN 2 * p[n] ELSE p[d]]
             k == [d \in 0 .. n + 1 |-> IF d = 0 THEN 1 ELSE 2 * g[d - 1]]
  <2>2. n \in Nat
    OBVIOUS
  <2>3. \A d \in 0 .. n : p[d] = IF d = 0 THEN 1 ELSE 2 * p[d - 1]
    BY <2>1, <2>2 DEF Doubles
  <2>4. \A d \in 0 .. n + 1 : d # n + 1 => d \in 0 .. n
    BY <2>2
  <2>5. \A d \in 0 .. n + 1 : d # 0 => d - 1 \in 0 .. n /\ d - 1 # n + 1
    BY <2>2
  <2>6. \A d \in 0 .. n : d \in 0 .. n + 1 /\ d # n + 1
    BY <2>2
  <2>7. g[n + 1] = 2 * p[n] /\ \A d \in 0 .. n : g[d] = p[d]
    BY <2>2, <2>6
  <2> HIDE DEF g
  <2>8. ASSUME NEW d \in 0 .. n + 1
        PROVE  g[d] = k[d]
    <3>1. CASE d = n + 1
      BY <2>2, <2>5, <2>7, <3>1
    <3>2. CASE d # n + 1 /\ d = 0
      BY <2>3, <2>4, <2>7, <3>2
    <3>3. CASE d # n + 1 /\ d # 0
      <4>1. d \in 0 .. n /\ d - 1 \in 0 .. n
        BY <2>4, <2>5, <3>3
      <4> QED BY <2>3, <2>7, <3>3, <4>1
    <3> QED BY <3>1, <3>2, <3>3
  <2>9. g = k
    BY <2>8 DEF g
  <2>10. Doubles(g, n + 1)
    BY <2>9 DEF Doubles
  <2> QED BY <2>2, <2>10
<1> HIDE DEF X
<1>3. X = Nat
  <2>1. X \in SUBSET Nat
    BY DEF X
  <2> QED BY <1>1, <1>2, <2>1, SetInduction
<1> QED BY <1>3 DEF X

LEMMA DoublesAre ==
  ASSUME NEW n \in Nat, NEW p, Doubles(p, n)
  PROVE  /\ p[0] = 1
         /\ \A d \in Nat : d + 1 <= n => p[d + 1] = 2 * p[d]
         /\ \A d \in Nat : d <= n => p[d] \in Nat
<1>1. \A d \in 0 .. n : p[d] = IF d = 0 THEN 1 ELSE 2 * p[d - 1]
  BY DEF Doubles
<1>2. p[0] = 1
  BY <1>1
<1>3. ASSUME NEW d \in Nat, d + 1 <= n
      PROVE  p[d + 1] = 2 * p[d]
  <2>1. d + 1 \in 0 .. n /\ d + 1 # 0 /\ (d + 1) - 1 = d
    BY <1>3
  <2> QED BY <1>1, <2>1
<1> DEFINE X == {d \in Nat : d <= n => p[d] \in Nat}
<1>4. 0 \in X
  BY <1>2
<1>5. ASSUME NEW d \in X PROVE d + 1 \in X
  BY <1>3
<1>6. X = Nat
  <2>1. X \in SUBSET Nat
    OBVIOUS
  <2> HIDE DEF X
  <2> QED BY <1>4, <1>5, <2>1, SetInduction
<1> QED BY <1>2, <1>3, <1>6

LEMMA DoublesAgree ==
  ASSUME NEW m \in Nat, NEW n \in Nat, NEW p, NEW q, Doubles(p, m), Doubles(q, n),
         NEW d \in Nat, d <= m, d <= n
  PROVE  p[d] = q[d]
<1> DEFINE X == {i \in Nat : i <= m /\ i <= n => p[i] = q[i]}
<1>1. 0 \in X
  BY DoublesAre
<1>2. ASSUME NEW i \in X PROVE i + 1 \in X
  <2>1. SUFFICES ASSUME i + 1 <= m, i + 1 <= n PROVE p[i + 1] = q[i + 1]
    OBVIOUS
  <2>2. p[i + 1] = 2 * p[i] /\ q[i + 1] = 2 * q[i]
    BY <2>1, DoublesAre
  <2> QED BY <2>1, <2>2
<1>3. X = Nat
  <2>1. X \in SUBSET Nat
    OBVIOUS
  <2> HIDE DEF X
  <2> QED BY <1>1, <1>2, <2>1, SetInduction
<1> QED BY <1>3

LEMMA DoublesAdd ==
  ASSUME NEW n \in Nat, NEW p, Doubles(p, n), NEW i \in Nat, NEW j \in Nat, i + j <= n
  PROVE  p[i + j] = p[i] * p[j] /\ p[i] <= p[i + j]
<1> DEFINE X == {k \in Nat : i + k <= n => p[i + k] = p[i] * p[k] /\ p[i] <= p[i + k]}
<1>1. p[i] \in Nat /\ p[0] = 1
  BY DoublesAre
<1>2. 0 \in X
  BY <1>1
<1>3. ASSUME NEW k \in X PROVE k + 1 \in X
  <2>1. SUFFICES ASSUME i + (k + 1) <= n
                 PROVE  p[i + (k + 1)] = p[i] * p[k + 1] /\ p[i] <= p[i + (k + 1)]
    OBVIOUS
  <2>2. (i + k) + 1 = i + (k + 1) /\ i + k \in Nat /\ k \in Nat
    OBVIOUS
  <2>3. p[i + (k + 1)] = 2 * p[i + k] /\ p[k + 1] = 2 * p[k]
    BY <2>1, <2>2, DoublesAre
  <2>4. p[i + k] = p[i] * p[k] /\ p[i] <= p[i + k]
    BY <2>1
  <2>5. p[k] \in Nat /\ p[i + k] \in Nat
    BY <2>1, <2>2, DoublesAre
  <2> DEFINE a == p[i]
             b == p[k]
  <2>6. a \in Nat /\ b \in Nat
    BY <1>1, <2>5
  <2> HIDE DEF a, b
  <2>7. 2 * (a * b) = a * (2 * b)
    BY <2>6
  <2> QED BY <1>1, <2>3, <2>4, <2>5, <2>7 DEF a, b
<1>4. X = Nat
  <2>1. X \in SUBSET Nat
    OBVIOUS
  <2> HIDE DEF X
  <2> QED BY <1>2, <1>3, <2>1, SetInduction
<1> QED BY <1>4

(* Below a node there are enough nodes for its black ones.                 *)
LEMMA Wide ==
  ASSUME NEW S, SearchTree(tree, S), NEW h, Coloured(tree, h, NULL),
         NEW n \in Nat, Len(tree.node) <= n, NEW p, Doubles(p, n)
  PROVE  \A m \in At(tree) :
           /\ Cardinality(S[m]) \in Nat
           /\ h[m] <= Cardinality(S[m])
           /\ p[h[m]] <= Cardinality(S[m]) + 1
<1> DEFINE L == Len(tree.node)
           C(m) == Cardinality(S[m])
           Good(m) == h[m] <= C(m) /\ p[h[m]] <= C(m) + 1
           X == {k \in Nat : \A m \in At(tree) : C(m) <= k => Good(m)}
<1>1. /\ L \in Nat /\ h \in [At(tree) -> Nat] /\ h[NULL] = 0
      /\ \A m \in In(tree), s \in Side : Child(tree, m, s) \in At(tree)
      /\ At(tree) = In(tree) \cup {NULL}
      /\ S[NULL] = {} /\ \A m \in At(tree) : S[m] \subseteq In(tree)
      /\ \A m \in In(tree) :
           S[m] = {m} \cup S[Child(tree, m, LEFT)] \cup S[Child(tree, m, RIGHT)]
  BY ShapeType DEF SearchTree, Shape, Covers, Coloured, At
<1>2. IsFiniteSet(In(tree)) /\ Cardinality(In(tree)) = L
  BY <1>1, AllOfThem
<1>3. \A m \in At(tree) : IsFiniteSet(S[m]) /\ C(m) \in Nat /\ C(m) <= L
  BY <1>1, <1>2, FS_Subset, FS_CardinalityType
<1>4. C(NULL) = 0 /\ Good(NULL)
  <2>1. C(NULL) = 0
    BY <1>1, FS_EmptySet
  <2> QED BY <1>1, <2>1, DoublesAre
<1>5. ASSUME NEW m \in In(tree)
      PROVE  C(m) = C(Child(tree, m, LEFT)) + C(Child(tree, m, RIGHT)) + 1
  <2> DEFINE l == Child(tree, m, LEFT)
             r == Child(tree, m, RIGHT)
  <2>1. l \in At(tree) /\ r \in At(tree)
    BY <1>1
  <2>2. m \notin S[l] /\ m \notin S[r]
    BY DEF SearchTree, Ordered
  <2>3. S[l] \cap S[r] = {}
    BY DEF SearchTree, Ordered
  <2>4. Cardinality(S[l] \cap S[r]) = 0
    BY <2>3, FS_EmptySet
  <2>5. /\ IsFiniteSet(S[l] \cup S[r])
        /\ Cardinality(S[l] \cup S[r]) = C(l) + C(r) - Cardinality(S[l] \cap S[r])
    BY <1>3, <2>1, FS_Union
  <2>6. Cardinality((S[l] \cup S[r]) \cup {m}) = Cardinality(S[l] \cup S[r]) + 1
    BY <2>2, <2>5, FS_AddElement
  <2>7. S[m] = (S[l] \cup S[r]) \cup {m}
    BY <1>1
  <2>8. C(l) \in Nat /\ C(r) \in Nat
    BY <1>3, <2>1
  <2> HIDE DEF l, r
  <2>9. C(m) = C(l) + C(r) + 1
    BY <2>4, <2>5, <2>6, <2>7, <2>8
  <2> QED BY <2>9 DEF l, r
<1> HIDE DEF C
<1>6. 0 \in X
  <2>1. \A m \in In(tree) : C(m) # 0
    BY <1>1, <1>3, <1>5
  <2> QED BY <1>1, <1>3, <1>4, <2>1
<1>7. ASSUME NEW k \in X PROVE k + 1 \in X
  <2>1. SUFFICES ASSUME NEW m \in In(tree), C(m) <= k + 1 PROVE Good(m)
    BY <1>1, <1>4
  <2> DEFINE l == Child(tree, m, LEFT)
             r == Child(tree, m, RIGHT)
  <2>2. l \in At(tree) /\ r \in At(tree) /\ m \in At(tree)
    BY <1>1
  <2>3. C(m) = C(l) + C(r) + 1 /\ C(l) \in Nat /\ C(r) \in Nat /\ C(m) \in Nat /\ C(m) <= L
    BY <1>3, <1>5, <2>2
  <2>4. Good(l) /\ Good(r)
    <3>1. k \in Nat /\ C(l) <= k /\ C(r) <= k
      BY <2>1, <2>3
    <3> QED BY <2>2, <3>1
  <2>5. /\ h[l] \in Nat /\ h[r] \in Nat /\ h[m] \in Nat
        /\ h[l] <= L /\ h[r] <= L
    BY <1>1, <2>2, <2>3, <2>4
  <2>6. p[h[l]] \in Nat /\ p[h[r]] \in Nat
    BY <1>1, <2>5, DoublesAre
  <2>7. CASE IsRed(tree, m)
    <3>1. h[m] = h[l]
      BY <2>7, Heights
    <3> QED BY <2>3, <2>4, <2>5, <2>6, <3>1
  <2>8. CASE ~IsRed(tree, m)
    <3>1. h[m] = h[l] + 1 /\ h[m] = h[r] + 1
      BY <2>8, Heights
    <3>2. h[l] = h[r] /\ h[m] <= C(m) /\ h[l] + 1 <= n
      BY <1>1, <2>3, <2>4, <2>5, <3>1
    <3>3. p[h[m]] = 2 * p[h[l]]
      BY <2>5, <3>1, <3>2, DoublesAre
    <3>4. p[h[l]] <= C(l) + 1 /\ p[h[l]] <= C(r) + 1
      BY <2>4, <3>2
    <3> QED BY <2>3, <2>6, <3>2, <3>3, <3>4
  <2> QED BY <2>7, <2>8
<1>8. X = Nat
  <2>1. X \in SUBSET Nat
    OBVIOUS
  <2> HIDE DEF X
  <2> QED BY <1>6, <1>7, <2>1, SetInduction
<1>9. \A m \in At(tree) : Good(m)
  BY <1>3, <1>8
<1> QED BY <1>3, <1>9 DEF C

(* On a way red nodes do not outnumber the black ones.                     *)
LEMMA WaysAreShort ==
  ASSUME NEW S, SearchTree(tree, S), NEW h, Coloured(tree, h, NULL),
         NEW d \in 0 .. Len(tree.node) + 1, NEW x \in Ways[d]
  PROVE  d <= 2 * x[2]
<1> DEFINE L == Len(tree.node)
           Short(n, y) == /\ n <= 2 * y[2]
                          /\ IsRed(tree, y[1]) => n + 1 <= 2 * y[2]
           X == {n \in Nat : n \in 0 .. L + 1 => \A y \in Ways[n] : Short(n, y)}
<1>1. L \in Nat
  BY ShapeType DEF SearchTree
<1>2. /\ Ways[0] = {<<tree.root, 0>>}
      /\ \A n \in 0 .. L : Ways[n + 1] = Onward(tree, Ways[n])
  BY <1>1, WaysAre
<1>3. 0 \in X
  <2>1. ~IsRed(tree, tree.root)
    BY DEF Coloured, IsRed
  <2>2. Short(0, <<tree.root, 0>>)
    BY <2>1
  <2> QED BY <1>2, <2>2
<1>4. ASSUME NEW n \in X
      PROVE  n + 1 \in X
  <2>1. SUFFICES ASSUME n + 1 \in 0 .. L + 1, NEW z \in Ways[n + 1]
                 PROVE  Short(n + 1, z)
    OBVIOUS
  <2>2. n \in 0 .. L /\ n \in 0 .. L + 1 /\ n \in Nat
    BY <1>1, <2>1
  <2>3. z \in Onward(tree, Ways[n])
    BY <1>2, <2>1, <2>2
  <2>4. PICK y \in Ways[n], s \in Side :
          /\ y[1] # NULL
          /\ z = <<Child(tree, y[1], s), y[2] + (IF IsRed(tree, y[1]) THEN 0 ELSE 1)>>
    BY <2>3 DEF Onward
  <2>5. Short(n, y)
    BY <2>2, <2>4
  <2>6. y[1] \in In(tree) /\ y[2] \in Nat
    BY <2>2, <2>4, WaysCount DEF At
  <2>7. /\ z[1] = Child(tree, y[1], s)
        /\ IsRed(tree, y[1]) => z[2] = y[2]
        /\ ~IsRed(tree, y[1]) => z[2] = y[2] + 1
    <3>1. /\ z[1] = Child(tree, y[1], s)
          /\ z[2] = y[2] + (IF IsRed(tree, y[1]) THEN 0 ELSE 1)
      BY <2>4
    <3> QED BY <2>6, <3>1
  <2>8. IsRed(tree, y[1]) => ~IsRed(tree, z[1])
    BY <2>6, <2>7 DEF Coloured, IsRed
  <2> QED BY <2>2, <2>5, <2>6, <2>7, <2>8
<1>5. X = Nat
  <2>1. X \in SUBSET Nat
    OBVIOUS
  <2> HIDE DEF X
  <2> QED BY <1>3, <1>4, <2>1, SetInduction
<1>6. d \in X
  BY <1>1, <1>5
<1> QED BY <1>6

LEMMA TwoToDoubles ==
  ASSUME Len(tree.node) \in Nat
  PROVE  Doubles(TwoTo, Len(tree.node) + 1)
<1> DEFINE n == Len(tree.node) + 1
<1>1. \E p : Doubles(p, n)
  <2>1. n \in Nat
    OBVIOUS
  <2> HIDE DEF n
  <2> QED BY <2>1, DoublesExist
<1>2. TwoTo = CHOOSE p : Doubles(p, n)
  BY DEF TwoTo, Doubles
<1> QED BY <1>1, <1>2

(* No way down is longer than twice the logarithm of the number of rooms:  *)
(* the recursion of retrieve_match, which takes a way down, is that deep   *)
(* at most, however many rooms there are and in whatever order they came.  *)
THEOREM HeightIsLogarithmic == Spec => []Shallow
<1>1. IInv => Shallow
  <2> DEFINE L == Len(tree.node)
  <2>1. SUFFICES ASSUME IInv, pc = "idle", NEW d \in DOMAIN Ways,
                        TwoTo[d] > (L + 1) * (L + 1), NEW x \in Ways[d]
                 PROVE  FALSE
    BY DEF Shallow
  <2>2. PICK S : SearchTree(tree, S)
    BY <2>1 DEF IInv, OnTheWay
  <2>3. PICK h : Coloured(tree, h, NULL)
    BY <2>1 DEF IInv, Colours, Checked
  <2>4. L \in Nat /\ tree.root \in At(tree) /\ h \in [At(tree) -> Nat]
    BY <2>2, <2>3, ShapeType DEF SearchTree, Shape, Coloured
  <2>5. d \in 0 .. L + 1
    BY <2>1, <2>4, WaysAre
  <2> DEFINE b == h[tree.root]
             n == 2 * L + 1
  <2>6. d <= 2 * x[2] /\ x[2] \in Nat /\ x[1] \in At(tree) /\ x[2] + h[x[1]] = b
    BY <2>2, <2>3, <2>5, WaysAreShort, WaysCount
  <2>7. b \in Nat /\ d <= 2 * b /\ d \in Nat
    BY <2>4, <2>5, <2>6
  <2>8. PICK p : Doubles(p, n)
    <3>1. n \in Nat
      BY <2>4
    <3> HIDE DEF n
    <3> QED BY <3>1, DoublesExist
  <2>9. n \in Nat /\ L <= n
    BY <2>4
  <2>10. Cardinality(S[tree.root]) = L
    BY <2>2, <2>4, AllOfThem DEF SearchTree, Covers
  <2>11. b <= L /\ p[b] <= L + 1
    BY <2>2, <2>3, <2>4, <2>8, <2>9, <2>10, Wide
  <2>12. b + b <= n /\ d <= b + b
    BY <2>4, <2>7, <2>11
  <2>13. p[b + b] = p[b] * p[b]
    BY <2>7, <2>8, <2>9, <2>12, DoublesAdd
  <2>14. p[d] <= p[b + b]
    <3> DEFINE j == b + b - d
    <3>1. j \in Nat /\ d + j = b + b
      BY <2>7, <2>12
    <3> HIDE DEF j, b, n
    <3>2. d + j <= n
      BY <2>12, <3>1
    <3>3. p[d] <= p[d + j]
      BY <2>7, <2>8, <2>9, <3>1, <3>2, DoublesAdd
    <3> QED BY <3>1, <3>3
  <2>15. TwoTo[d] = p[d]
    <3>1. Doubles(TwoTo, L + 1) /\ L + 1 \in Nat /\ d <= L + 1 /\ d <= n
      BY <2>4, <2>5, <2>7, <2>12, TwoToDoubles
    <3> HIDE DEF n, L
    <3> QED BY <2>7, <2>8, <2>9, <3>1, DoublesAgree
  <2>16. p[b] \in Nat /\ p[d] \in Nat /\ p[b + b] \in Nat
    <3>1. b <= n /\ d <= n
      BY <2>4, <2>7, <2>11, <2>12
    <3>2. b + b \in Nat
      BY <2>7
    <3> HIDE DEF n, b
    <3> QED BY <2>7, <2>8, <2>9, <2>12, <3>1, <3>2, DoublesAre
  <2> DEFINE a == p[b]
  <2>17. p[d] > (L + 1) * (L + 1)
    BY <2>1, <2>15
  <2> HIDE DEF a, L, b
  <2>18. a \in Nat /\ a <= L + 1
    BY <2>11, <2>16 DEF a
  <2>19. a * a <= (L + 1) * (L + 1)
    <3> DEFINE e == L + 1
    <3>1. e \in Nat /\ a <= e
      BY <2>4, <2>18
    <3> HIDE DEF e
    <3>2. a * a <= a * e /\ a * e <= e * e
      BY <2>18, <3>1
    <3>3. a * a \in Nat /\ a * e \in Nat /\ e * e \in Nat
      BY <2>18, <3>1
    <3> QED BY <3>2, <3>3 DEF e
  <2>20. a * a \in Nat /\ (L + 1) * (L + 1) \in Nat
    BY <2>4, <2>18
  <2>21. p[d] <= a * a
    BY <2>13, <2>14 DEF a
  <2> QED BY <2>16, <2>17, <2>19, <2>20, <2>21
<1> QED BY <1>1, Invariance, PTL
=============================================================================
