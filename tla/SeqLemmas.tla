----------------------------- MODULE SeqLemmas -----------------------------
(***************************************************************************)
(* Lemmas about the two changes the server makes to its lists, where a new *)
(* element is appended, or an element is removed and the gap closed; about *)
(* the first match in a sequence; about sequences put one behind the       *)
(* other; and about a sequence whose elements are steps from one state to  *)
(* the next.  Induction is stated for sets, because the provers cannot     *)
(* give an operator to a theorem.                                          *)
(***************************************************************************)
EXTENDS SequencesExt, SequenceTheorems, WellFoundedInduction, TLAPS

(* Induction over the natural numbers, for a set.                          *)
LEMMA SetInduction ==
  ASSUME NEW X \in SUBSET Nat, 0 \in X, \A n \in X : n + 1 \in X
  PROVE  X = Nat
<1> SUFFICES ASSUME Nat \ X # {} PROVE FALSE
  OBVIOUS
<1>1. PICK n \in Nat \ X : \A y \in Nat \ X : ~ (<<y, n>> \in OpToRel(<, Nat))
  BY NatLessThanWellFounded, WFMin
<1>2. n # 0 /\ n - 1 \in Nat /\ n - 1 < n
  OBVIOUS
<1>3. <<n - 1, n>> \in OpToRel(<, Nat)
  BY <1>2 DEF OpToRel
<1>4. n - 1 \in X
  BY <1>1, <1>2, <1>3
<1>5. (n - 1) + 1 \in X
  BY <1>4
<1> QED BY <1>2, <1>5

(* RemoveAt closes the gap the removed element leaves.                     *)
LEMMA RemoveAtElements ==
  ASSUME NEW S, NEW s \in Seq(S), NEW i \in 1 .. Len(s)
  PROVE  /\ RemoveAt(s, i) \in Seq(S)
         /\ Len(RemoveAt(s, i)) = Len(s) - 1
         /\ \A j \in 1 .. Len(s) - 1 :
              RemoveAt(s, i)[j] = IF j < i THEN s[j] ELSE s[j + 1]
<1> DEFINE a == SubSeq(s, 1, i - 1)
           b == SubSeq(s, i + 1, Len(s))
<1>0. Len(s) \in Nat /\ i \in Nat /\ 1 <= i /\ i <= Len(s)
  BY LenProperties
<1>1. /\ a \in Seq(S) /\ Len(a) = i - 1
      /\ \A j \in 1 .. i - 1 : a[j] = s[j]
  <2>1. \A j \in 1 .. i - 1 : s[j] \in S
    BY <1>0, ElementOfSeq
  <2>2. /\ a \in Seq(S)
        /\ Len(a) = IF 1 <= i - 1 THEN (i - 1) - 1 + 1 ELSE 0
        /\ \A j \in 1 .. (i - 1) - 1 + 1 : a[j] = s[1 + j - 1]
    BY <1>0, <2>1, SubSeqProperties
  <2> QED BY <1>0, <2>2
<1>2. /\ b \in Seq(S) /\ Len(b) = Len(s) - i
      /\ \A j \in 1 .. Len(s) - i : b[j] = s[i + j]
  <2>1. \A j \in i + 1 .. Len(s) : s[j] \in S
    BY <1>0, ElementOfSeq
  <2>2. /\ b \in Seq(S)
        /\ Len(b) = IF i + 1 <= Len(s) THEN Len(s) - (i + 1) + 1 ELSE 0
        /\ \A j \in 1 .. Len(s) - (i + 1) + 1 : b[j] = s[(i + 1) + j - 1]
    BY <1>0, <2>1, SubSeqProperties
  <2> QED BY <1>0, <2>2
<1>3. /\ a \o b \in Seq(S)
      /\ Len(a \o b) = Len(a) + Len(b)
      /\ \A j \in 1 .. Len(a) + Len(b) :
           (a \o b)[j] = IF j <= Len(a) THEN a[j] ELSE b[j - Len(a)]
  BY <1>1, <1>2, ConcatProperties
<1>4. RemoveAt(s, i) = a \o b
  BY DEF RemoveAt
<1> HIDE DEF a, b
<1>5. Len(a) + Len(b) = Len(s) - 1
  BY <1>0, <1>1, <1>2
<1>6. ASSUME NEW j \in 1 .. Len(s) - 1
      PROVE  (a \o b)[j] = IF j < i THEN s[j] ELSE s[j + 1]
  <2>1. CASE j < i
    BY <1>0, <1>1, <1>3, <1>5, <2>1
  <2>2. CASE ~(j < i)
    <3>1. j - (i - 1) \in 1 .. Len(s) - i /\ i + (j - (i - 1)) = j + 1
      BY <1>0, <2>2
    <3>2. (a \o b)[j] = b[j - (i - 1)]
      BY <1>0, <1>1, <1>3, <1>5, <2>2
    <3> QED BY <1>2, <2>2, <3>1, <3>2
  <2> QED BY <2>1, <2>2
<1> QED BY <1>3, <1>4, <1>5, <1>6

(* Removing an element of a list without repetitions removes it from the   *)
(* list's range and repeats nothing.                                       *)
LEMMA RemoveAtRange ==
  ASSUME NEW S, NEW s \in Seq(S), NEW i \in 1 .. Len(s), IsInjective(s)
  PROVE  /\ Range(RemoveAt(s, i)) = Range(s) \ {s[i]}
         /\ IsInjective(RemoveAt(s, i))
<1> DEFINE t == RemoveAt(s, i)
<1>1. /\ t \in Seq(S) /\ Len(t) = Len(s) - 1
      /\ \A j \in 1 .. Len(s) - 1 : t[j] = IF j < i THEN s[j] ELSE s[j + 1]
  BY RemoveAtElements
<1>2. /\ DOMAIN t = 1 .. Len(s) - 1 /\ DOMAIN s = 1 .. Len(s)
      /\ Len(s) \in Nat /\ i \in Nat /\ 1 <= i /\ i <= Len(s)
  BY <1>1, LenProperties
<1> HIDE DEF t
<1>3. \A j \in 1 .. Len(s) - 1 : t[j] \in Range(s) \ {s[i]}
  <2>1. SUFFICES ASSUME NEW j \in 1 .. Len(s) - 1
                 PROVE  t[j] \in Range(s) \ {s[i]}
    OBVIOUS
  <2>2. PICK k \in 1 .. Len(s) : k # i /\ t[j] = s[k]
    BY <1>1, <1>2
  <2> QED BY <1>2, <2>2 DEF IsInjective, Range
<1>4. \A k \in 1 .. Len(s) : k # i => \E j \in 1 .. Len(s) - 1 : t[j] = s[k]
  <2>1. SUFFICES ASSUME NEW k \in 1 .. Len(s), k # i
                 PROVE  \E j \in 1 .. Len(s) - 1 : t[j] = s[k]
    OBVIOUS
  <2>2. CASE k < i
    BY <1>1, <1>2, <2>2
  <2>3. CASE k > i
    <3>1. k - 1 \in 1 .. Len(s) - 1 /\ ~(k - 1 < i) /\ (k - 1) + 1 = k
      BY <1>2, <2>3
    <3> QED BY <1>1, <3>1
  <2> QED BY <1>2, <2>1, <2>2, <2>3
<1>5. Range(t) = Range(s) \ {s[i]}
  <2>1. Range(t) = {t[j] : j \in 1 .. Len(s) - 1}
    BY <1>2 DEF Range
  <2>2. Range(t) \subseteq Range(s) \ {s[i]}
    BY <1>3, <2>1
  <2>3. ASSUME NEW x \in Range(s) \ {s[i]} PROVE x \in Range(t)
    <3>1. PICK k \in 1 .. Len(s) : s[k] = x
      BY <1>2 DEF Range
    <3>2. k # i
      BY <3>1, <2>3
    <3> QED BY <1>4, <2>1, <3>1, <3>2
  <2> QED BY <2>2, <2>3
<1>6. IsInjective(t)
  <2>1. SUFFICES ASSUME NEW j \in 1 .. Len(s) - 1, NEW k \in 1 .. Len(s) - 1,
                        t[j] = t[k]
                 PROVE  j = k
    BY <1>2 DEF IsInjective
  <2> DEFINE at(x) == IF x < i THEN x ELSE x + 1
  <2>2. /\ at(j) \in 1 .. Len(s) /\ at(k) \in 1 .. Len(s)
        /\ t[j] = s[at(j)] /\ t[k] = s[at(k)]
    BY <1>1, <1>2
  <2>3. at(j) = at(k)
    BY <1>2, <2>1, <2>2 DEF IsInjective
  <2> QED BY <1>2, <2>3
<1> QED BY <1>5, <1>6 DEF t

(* The elements of a sequence stay where they are when one is appended.    *)
Appended(t, s, x) == t = Append(s, x)

LEMMA AppendElements ==
  ASSUME NEW S, NEW s \in Seq(S), NEW x \in S, NEW t, Appended(t, s, x)
  PROVE  /\ t \in Seq(S) /\ Len(t) = Len(s) + 1 /\ Len(s) \in Nat
         /\ DOMAIN s = 1 .. Len(s) /\ DOMAIN t = 1 .. Len(s) + 1
         /\ \A i \in 1 .. Len(s) : t[i] = s[i]
         /\ t[Len(s) + 1] = x
BY LenProperties DEF Appended

(* Appending a new element adds it to the range and repeats nothing.       *)
LEMMA AppendRange ==
  ASSUME NEW S, NEW s \in Seq(S), NEW x \in S
  PROVE  /\ Append(s, x) \in Seq(S)
         /\ Len(Append(s, x)) = Len(s) + 1
         /\ Range(Append(s, x)) = Range(s) \cup {x}
         /\ IsInjective(s) /\ x \notin Range(s) => IsInjective(Append(s, x))
<1> DEFINE t == Append(s, x)
<1>1. /\ Len(s) \in Nat /\ DOMAIN s = 1 .. Len(s)
      /\ t \in Seq(S) /\ Len(t) = Len(s) + 1
      /\ DOMAIN t = 1 .. Len(s) + 1
      /\ \A i \in 1 .. Len(s) : t[i] = s[i]
      /\ t[Len(s) + 1] = x
  BY LenProperties
<1> HIDE DEF t
<1>2. \A i \in 1 .. Len(s) + 1 : i \in 1 .. Len(s) \/ i = Len(s) + 1
  BY <1>1
<1>3. 1 .. Len(s) \subseteq 1 .. Len(s) + 1 /\ Len(s) + 1 \in 1 .. Len(s) + 1
  BY <1>1
<1>4. Range(t) = Range(s) \cup {x}
  BY <1>1, <1>2, <1>3 DEF Range
<1>5. IsInjective(s) /\ x \notin Range(s) => IsInjective(t)
  BY <1>1, <1>2 DEF IsInjective, Range
<1> QED BY <1>1, <1>4, <1>5 DEF t

(* Sequences one behind the other.                                         *)

Flattened(f, s, n) == f = [i \in 1 .. n |-> IF i = 1 THEN s[i] ELSE f[i - 1] \o s[i]]

LEMMA FlattenedFirst ==
  ASSUME NEW s, NEW n \in Nat, NEW f, Flattened(f, s, n), n >= 1
  PROVE  f[1] = s[1]
BY DEF Flattened

LEMMA FlattenedNext ==
  ASSUME NEW s, NEW n \in Nat, NEW f, Flattened(f, s, n),
         NEW i \in Nat, i >= 1, i + 1 <= n
  PROVE  f[i + 1] = f[i] \o s[i + 1]
<1>1. \A k \in 1 .. n : f[k] = IF k = 1 THEN s[k] ELSE f[k - 1] \o s[k]
  BY DEF Flattened
<1>2. i + 1 \in 1 .. n /\ i + 1 # 1 /\ (i + 1) - 1 = i
  OBVIOUS
<1> QED BY <1>1, <1>2

LEMMA FlattenedExist ==
  ASSUME NEW s
  PROVE  \A n \in Nat : \E f : Flattened(f, s, n)
<1> DEFINE X == {n \in Nat : \E f : Flattened(f, s, n)}
<1>1. 0 \in X
  <2> DEFINE f == [i \in 1 .. 0 |-> 0]
  <2>1. Flattened(f, s, 0)
    <3>1. \A i \in 1 .. 0 : FALSE
      OBVIOUS
    <3> QED BY <3>1 DEF Flattened
  <2> QED BY <2>1
<1>2. ASSUME NEW n \in X
      PROVE  n + 1 \in X
  <2>1. PICK f : Flattened(f, s, n)
    OBVIOUS
  <2> DEFINE g == [i \in 1 .. n + 1 |-> IF i = n + 1
                                        THEN IF i = 1 THEN s[i] ELSE f[n] \o s[i]
                                        ELSE f[i]]
             k == [i \in 1 .. n + 1 |-> IF i = 1 THEN s[i] ELSE g[i - 1] \o s[i]]
  <2>2. n \in Nat
    OBVIOUS
  <2>3. \A i \in 1 .. n : f[i] = IF i = 1 THEN s[i] ELSE f[i - 1] \o s[i]
    BY <2>1, <2>2 DEF Flattened
  <2>4. \A i \in 1 .. n + 1 : i # n + 1 => i \in 1 .. n
    BY <2>2
  <2>5. \A i \in 1 .. n + 1 : i # 1 => i - 1 \in 1 .. n /\ i - 1 # n + 1
    BY <2>2
  <2>6. n + 1 \in 1 .. n + 1 /\ \A i \in 1 .. n : i \in 1 .. n + 1 /\ i # n + 1
    BY <2>2
  <2>7. /\ g[n + 1] = IF n + 1 = 1 THEN s[n + 1] ELSE f[n] \o s[n + 1]
        /\ \A i \in 1 .. n : g[i] = f[i]
    BY <2>6
  <2> HIDE DEF g
  <2>8. ASSUME NEW i \in 1 .. n + 1
        PROVE  g[i] = k[i]
    <3>1. CASE i = n + 1 /\ i = 1
      BY <2>7, <3>1
    <3>2. CASE i = n + 1 /\ i # 1
      <4>1. i - 1 = n /\ n \in 1 .. n
        BY <2>2, <2>5, <3>2
      <4>2. g[n] = f[n] /\ g[i] = f[n] \o s[i]
        BY <2>7, <3>2, <4>1
      <4> QED BY <3>2, <4>1, <4>2
    <3>3. CASE i # n + 1 /\ i = 1
      BY <2>3, <2>4, <2>7, <3>3
    <3>4. CASE i # n + 1 /\ i # 1
      <4>1. i \in 1 .. n /\ i - 1 \in 1 .. n
        BY <2>4, <2>5, <3>4
      <4> QED BY <2>3, <2>7, <3>4, <4>1
    <3> QED BY <3>1, <3>2, <3>3, <3>4
  <2>9. g = k
    BY <2>8 DEF g
  <2>10. Flattened(g, s, n + 1)
    BY <2>9 DEF Flattened
  <2> QED BY <2>2, <2>10
<1> HIDE DEF X
<1>3. X = Nat
  <2>1. X \in SUBSET Nat
    BY DEF X
  <2> QED BY <1>1, <1>2, <2>1, SetInduction
<1> QED BY <1>3 DEF X

LEMMA FlattenedSame ==
  ASSUME NEW s, NEW u, NEW m \in Nat, NEW n \in Nat, NEW f, Flattened(f, s, m),
         NEW g, Flattened(g, u, n), NEW j \in Nat, j >= 1, j + 1 <= m, j + 1 <= n,
         s[j + 1] = u[j + 1], f[j] = g[j]
  PROVE  f[j + 1] = g[j + 1]
<1>1. f[j + 1] = f[j] \o s[j + 1]
  BY FlattenedNext
<1>2. g[j + 1] = g[j] \o u[j + 1]
  BY FlattenedNext
<1> QED BY <1>1, <1>2

LEMMA FlattenedAgree ==
  ASSUME NEW s, NEW u, NEW k \in Nat, k >= 1, NEW n \in Nat, k <= n,
         NEW f, Flattened(f, s, k), NEW g, Flattened(g, u, n),
         \A i \in 1 .. k : s[i] = u[i]
  PROVE  f[k] = g[k]
<1> DEFINE X == {j \in Nat : j >= 1 /\ j <= k => f[j] = g[j]}
<1>1. 0 \in X
  OBVIOUS
<1>2. ASSUME NEW j \in X PROVE j + 1 \in X
  <2>1. SUFFICES ASSUME j + 1 <= k PROVE f[j + 1] = g[j + 1]
    OBVIOUS
  <2>2. j + 1 \in 1 .. k /\ j \in Nat /\ j + 1 <= k /\ j + 1 <= n
    BY <2>1
  <2>3. s[j + 1] = u[j + 1]
    BY <2>2
  <2>4. CASE j = 0
    <3>1. 1 <= k /\ 1 <= n /\ j + 1 = 1
      BY <2>2, <2>4
    <3>2. f[1] = s[1]
      BY <3>1, FlattenedFirst
    <3>3. g[1] = u[1]
      BY <3>1, FlattenedFirst
    <3> QED BY <2>3, <3>1, <3>2, <3>3
  <2>5. CASE j # 0
    <3>1. j >= 1 /\ f[j] = g[j]
      BY <2>1, <2>2, <2>5
    <3> HIDE DEF X
    <3> QED BY <2>2, <2>3, <3>1, FlattenedSame
  <2> QED BY <2>4, <2>5
<1>3. X = Nat
  <2>1. X \in SUBSET Nat
    OBVIOUS
  <2> HIDE DEF X
  <2> QED BY <1>1, <1>2, <2>1, SetInduction
<1>4. k \in X
  BY <1>3
<1> QED BY <1>4

SameUpTo(s, u, n) == \A i \in 1 .. n : s[i] = u[i]

Joined(a, b) == a \o b

LEMMA FlattenedMore ==
  ASSUME NEW s, NEW u, NEW f, NEW g, NEW n \in Nat,
         n >= 1 /\ Flattened(f, s, n) /\ Flattened(g, u, n + 1) /\ SameUpTo(s, u, n)
  PROVE  g[n + 1] = Joined(f[n], u[n + 1])
<1>1. n \in Nat /\ n + 1 \in Nat /\ n <= n + 1 /\ n + 1 <= n + 1
  OBVIOUS
<1>2. f[n] = g[n]
  BY <1>1, FlattenedAgree DEF SameUpTo
<1>3. g[n + 1] = g[n] \o u[n + 1]
  BY <1>1, FlattenedNext
<1> QED BY <1>2, <1>3 DEF Joined

Flattens(b, s, n) == \E f : Flattened(f, s, n) /\ b = f[n]

LEMMA FlattensMore ==
  ASSUME NEW s, NEW u, NEW n \in Nat, n >= 1, NEW a, NEW b,
         Flattens(a, s, n), Flattens(b, u, n + 1), SameUpTo(s, u, n)
  PROVE  b = Joined(a, u[n + 1])
<1>1. PICK f : Flattened(f, s, n) /\ a = f[n]
  BY DEF Flattens
<1>2. PICK g : Flattened(g, u, n + 1) /\ b = g[n + 1]
  BY DEF Flattens
<1>3. g[n + 1] = Joined(f[n], u[n + 1])
  BY <1>1, <1>2, FlattenedMore
<1> QED BY <1>1, <1>2, <1>3

LEMMA FlattenSeqIs ==
  ASSUME NEW T, NEW s \in Seq(T), Len(s) > 0
  PROVE  Flattens(FlattenSeq(s), s, Len(s))
<1> DEFINE f == CHOOSE f : Flattened(f, s, Len(s))
<1>1. Len(s) \in Nat
  OBVIOUS
<1>2. \E g : Flattened(g, s, Len(s))
  BY <1>1, FlattenedExist
<1>3. Flattened(f, s, Len(s))
  BY <1>2
<1>4. FlattenSeq(s) = f[Len(s)]
  BY <1>1 DEF FlattenSeq, Flattened
<1> QED BY <1>3, <1>4 DEF Flattens

(* One more sequence at the end.                                           *)
LEMMA FlattenSeqStep ==
  ASSUME NEW T, NEW s \in Seq(Seq(T)), NEW u \in Seq(Seq(T)), Len(u) = Len(s) + 1,
         \A i \in 1 .. Len(s) : u[i] = s[i]
  PROVE  FlattenSeq(u) = FlattenSeq(s) \o u[Len(s) + 1]
<1>1. Len(s) \in Nat /\ Len(u) \in Nat /\ Len(u) > 0
  OBVIOUS
<1>2. u[Len(s) + 1] \in Seq(T)
  <2>1. Len(s) + 1 \in 1 .. Len(u)
    BY <1>1
  <2> QED BY <2>1, ElementOfSeq
<1>3. Flattens(FlattenSeq(u), u, Len(s) + 1)
  <2>1. Flattens(FlattenSeq(u), u, Len(u))
    BY <1>1, FlattenSeqIs
  <2> QED BY <2>1
<1>4. CASE Len(s) = 0
  <2>1. s = <<>> /\ FlattenSeq(s) = s
    BY <1>4 DEF FlattenSeq
  <2>2. PICK g : Flattened(g, u, 1) /\ FlattenSeq(u) = g[1]
    BY <1>3, <1>4 DEF Flattens
  <2>3. g[1] = u[1]
    BY <2>2, FlattenedFirst
  <2>4. <<>> \o u[1] = u[1]
    BY <1>2, <1>4, ConcatEmptySeq
  <2> QED BY <1>4, <2>1, <2>2, <2>3, <2>4
<1>5. CASE Len(s) # 0
  <2>1. Len(s) >= 1 /\ Len(s) > 0
    BY <1>1, <1>5
  <2>2. Flattens(FlattenSeq(s), s, Len(s))
    BY <2>1, FlattenSeqIs
  <2>3. SameUpTo(s, u, Len(s))
    BY DEF SameUpTo
  <2> QED BY <1>1, <1>3, <2>1, <2>2, <2>3, FlattensMore DEF Joined
<1> QED BY <1>4, <1>5

-----------------------------------------------------------------------------
(* A sequence read as steps: each of its elements leads from a state to    *)
(* the next one, as R allows, and all of them together from v to w.        *)

StepsOf(R, s, h) == \A i \in 1 .. Len(s) : <<h[i - 1], s[i], h[i]>> \in R

Leads(R, V, v, s, w) ==
  \E h \in [0 .. Len(s) -> V] : h[0] = v /\ h[Len(s)] = w /\ StepsOf(R, s, h)

LEMMA EmptyLeads ==
  ASSUME NEW R, NEW V, NEW v \in V, NEW s, Len(s) = 0
  PROVE  \A w : Leads(R, V, v, s, w) <=> w = v
<1>1. ASSUME NEW w, Leads(R, V, v, s, w) PROVE w = v
  BY <1>1 DEF Leads
<1>2. Leads(R, V, v, s, v)
  <2> DEFINE h == [i \in 0 .. 0 |-> v]
  <2>1. h \in [0 .. Len(s) -> V] /\ h[0] = v /\ h[Len(s)] = v
    OBVIOUS
  <2>2. StepsOf(R, s, h)
    BY DEF StepsOf
  <2> QED BY <2>1, <2>2 DEF Leads
<1> QED BY <1>1, <1>2

LEMMA OneLeads ==
  ASSUME NEW R, NEW V, NEW v \in V, NEW w \in V, NEW s, Len(s) = 1,
         <<v, s[1], w>> \in R
  PROVE  Leads(R, V, v, s, w)
<1> DEFINE h == [i \in 0 .. 1 |-> IF i = 0 THEN v ELSE w]
<1>1. h \in [0 .. Len(s) -> V] /\ h[0] = v /\ h[Len(s)] = w /\ h[1] = w
  OBVIOUS
<1>2. \A i \in 1 .. Len(s) : i = 1 /\ i - 1 = 0
  OBVIOUS
<1> HIDE DEF h
<1>3. StepsOf(R, s, h)
  BY <1>1, <1>2 DEF StepsOf
<1> QED BY <1>1, <1>3 DEF Leads

(* Elements that lead nowhere.                                             *)
LEMMA StillLeads ==
  ASSUME NEW R, NEW V, NEW v \in V, NEW s, Len(s) \in Nat,
         \A i \in 1 .. Len(s) : <<v, s[i], v>> \in R
  PROVE  Leads(R, V, v, s, v)
<1> DEFINE h == [i \in 0 .. Len(s) |-> v]
<1>1. h \in [0 .. Len(s) -> V] /\ h[0] = v /\ h[Len(s)] = v
  OBVIOUS
<1>2. \A i \in 1 .. Len(s) : h[i - 1] = v /\ h[i] = v
  OBVIOUS
<1> HIDE DEF h
<1>3. StepsOf(R, s, h)
  BY <1>2 DEF StepsOf
<1> QED BY <1>1, <1>3 DEF Leads

LEMMA RestElements ==
  ASSUME NEW A, NEW s \in Seq(A), s # <<>>
  PROVE  /\ Len(s) \in Nat /\ Len(s) >= 1
         /\ SubSeq(s, 2, Len(s)) \in Seq(A)
         /\ Len(SubSeq(s, 2, Len(s))) = Len(s) - 1
         /\ \A i \in 1 .. Len(s) - 1 : SubSeq(s, 2, Len(s))[i] = s[i + 1]
<1>1. Len(s) \in Nat /\ Len(s) >= 1
  OBVIOUS
<1>2. CASE Len(s) = 1
  <2>1. SubSeq(s, 2, Len(s)) = <<>>
    BY <1>2
  <2>2. \A i \in 1 .. Len(s) - 1 : FALSE
    BY <1>2
  <2> QED BY <1>1, <1>2, <2>1, <2>2
<1>3. CASE Len(s) # 1
  <2>0. \A n \in Nat : n >= 1 /\ n # 1 => 2 \in 1 .. n /\ n \in 1 .. n
    OBVIOUS
  <2>1. 2 \in 1 .. Len(s) /\ Len(s) \in 1 .. Len(s)
    BY <1>1, <1>3, <2>0
  <2>2. /\ SubSeq(s, 2, Len(s)) \in Seq(A)
        /\ Len(SubSeq(s, 2, Len(s))) = Len(s) - 1
    BY <1>1, <2>1
  <2>3. ASSUME NEW i \in 1 .. Len(s) - 1
        PROVE  SubSeq(s, 2, Len(s))[i] = s[i + 1]
    BY <1>1, <2>1
  <2> QED BY <1>1, <2>2, <2>3
<1> QED BY <1>2, <1>3

(* The first element is taken.                                             *)
LEMMA FirstLeads ==
  ASSUME NEW R, NEW V, NEW A, NEW s \in Seq(A), s # <<>>, NEW v, NEW w,
         Leads(R, V, v, s, w)
  PROVE  \E x \in V : /\ <<v, s[1], x>> \in R
                      /\ Leads(R, V, x, SubSeq(s, 2, Len(s)), w)
<1> DEFINE t == SubSeq(s, 2, Len(s))
<1>1. /\ Len(s) \in Nat /\ Len(s) >= 1 /\ Len(t) = Len(s) - 1
      /\ \A i \in 1 .. Len(s) - 1 : t[i] = s[i + 1]
  BY RestElements
<1>2. PICK h \in [0 .. Len(s) -> V] :
        h[0] = v /\ h[Len(s)] = w /\ StepsOf(R, s, h)
  BY DEF Leads
<1> DEFINE g == [i \in 0 .. Len(s) - 1 |-> h[i + 1]]
<1> HIDE DEF t
<1>3. \A i \in 0 .. Len(s) - 1 : i + 1 \in 0 .. Len(s) /\ g[i] = h[i + 1]
  BY <1>1
<1>4. g \in [0 .. Len(t) -> V]
  BY <1>1, <1>2, <1>3
<1>5. 0 \in 0 .. Len(s) - 1 /\ Len(t) \in 0 .. Len(s) - 1 /\ Len(t) + 1 = Len(s)
  BY <1>1
<1>6. g[0] = h[1] /\ g[Len(t)] = w
  BY <1>2, <1>3, <1>5
<1>7. \A i \in 1 .. Len(s) - 1 : /\ i \in 0 .. Len(s) - 1 /\ i - 1 \in 0 .. Len(s) - 1
                                 /\ i + 1 \in 1 .. Len(s)
                                 /\ (i + 1) - 1 = i /\ (i - 1) + 1 = i
  BY <1>1
<1>8. StepsOf(R, t, g)
  <2> SUFFICES ASSUME NEW i \in 1 .. Len(s) - 1
               PROVE  <<g[i - 1], t[i], g[i]>> \in R
    BY <1>1 DEF StepsOf
  <2>1. g[i - 1] = h[i] /\ g[i] = h[i + 1] /\ t[i] = s[i + 1]
    BY <1>1, <1>3, <1>7
  <2>2. <<h[i], s[i + 1], h[i + 1]>> \in R
    BY <1>2, <1>7 DEF StepsOf
  <2> QED BY <2>1, <2>2
<1>9. 1 \in 1 .. Len(s) /\ 1 - 1 = 0 /\ 1 \in 0 .. Len(s)
  BY <1>1
<1>10. <<v, s[1], h[1]>> \in R /\ h[1] \in V
  BY <1>2, <1>9 DEF StepsOf
<1>11. Leads(R, V, h[1], t, w)
  BY <1>4, <1>6, <1>8 DEF Leads
<1> QED BY <1>10, <1>11 DEF t

(* One sequence behind the other.                                          *)
LEMMA JoinedLeads ==
  ASSUME NEW R, NEW V, NEW A, NEW s \in Seq(A), NEW t \in Seq(A),
         NEW v, NEW x, NEW w, Leads(R, V, v, s, x), Leads(R, V, x, t, w)
  PROVE  Leads(R, V, v, s \o t, w)
<1> DEFINE u == s \o t
<1>1. /\ Len(s) \in Nat /\ Len(t) \in Nat /\ Len(u) = Len(s) + Len(t)
      /\ \A i \in 1 .. Len(s) : u[i] = s[i]
      /\ \A i \in 1 .. Len(t) : u[Len(s) + i] = t[i]
  BY LenProperties
<1>2. PICK h \in [0 .. Len(s) -> V] :
        h[0] = v /\ h[Len(s)] = x /\ StepsOf(R, s, h)
  BY DEF Leads
<1>3. PICK k \in [0 .. Len(t) -> V] :
        k[0] = x /\ k[Len(t)] = w /\ StepsOf(R, t, k)
  BY DEF Leads
<1> DEFINE g == [i \in 0 .. Len(s) + Len(t) |->
                   IF i <= Len(s) THEN h[i] ELSE k[i - Len(s)]]
<1> HIDE DEF u
<1>4. \A i \in 0 .. Len(s) + Len(t) :
        /\ i <= Len(s) => i \in 0 .. Len(s)
        /\ ~(i <= Len(s)) => i - Len(s) \in 0 .. Len(t)
  BY <1>1
<1>5. \A i \in 0 .. Len(s) : i \in 0 .. Len(s) + Len(t) /\ i <= Len(s)
  BY <1>1
<1>6. \A i \in 0 .. Len(s) : g[i] = h[i]
  BY <1>5
<1>7. \A i \in 0 .. Len(t) :
        /\ Len(s) + i \in 0 .. Len(s) + Len(t) /\ (Len(s) + i) - Len(s) = i
        /\ Len(s) + i <= Len(s) => i = 0 /\ Len(s) + i = Len(s)
  BY <1>1
<1>8. Len(s) \in 0 .. Len(s)
  BY <1>1
<1>9. \A i \in 0 .. Len(t) : g[Len(s) + i] = k[i]
  BY <1>2, <1>3, <1>6, <1>7, <1>8
<1>10. g \in [0 .. Len(u) -> V]
  BY <1>1, <1>2, <1>3, <1>4
<1>11. 0 \in 0 .. Len(s) /\ Len(t) \in 0 .. Len(t)
  BY <1>1
<1> HIDE DEF g
<1>12. g[0] = v /\ g[Len(u)] = w
  BY <1>1, <1>2, <1>3, <1>6, <1>9, <1>11
<1>13. ASSUME NEW i \in 1 .. Len(s)
       PROVE  <<g[i - 1], u[i], g[i]>> \in R
  <2>1. i \in 0 .. Len(s) /\ i - 1 \in 0 .. Len(s)
    BY <1>1
  <2>2. g[i] = h[i] /\ g[i - 1] = h[i - 1] /\ u[i] = s[i]
    BY <1>1, <1>6, <2>1
  <2>3. <<h[i - 1], s[i], h[i]>> \in R
    BY <1>2 DEF StepsOf
  <2> QED BY <2>2, <2>3
<1>14. ASSUME NEW i \in 1 .. Len(t)
       PROVE  <<g[Len(s) + i - 1], u[Len(s) + i], g[Len(s) + i]>> \in R
  <2>1. i \in 0 .. Len(t) /\ i - 1 \in 0 .. Len(t)
        /\ Len(s) + i - 1 = Len(s) + (i - 1)
    BY <1>1
  <2>2. g[Len(s) + i] = k[i] /\ g[Len(s) + i - 1] = k[i - 1] /\ u[Len(s) + i] = t[i]
    BY <1>1, <1>9, <2>1
  <2>3. <<k[i - 1], t[i], k[i]>> \in R
    BY <1>3 DEF StepsOf
  <2> QED BY <2>2, <2>3
<1>15. StepsOf(R, u, g)
  <2> SUFFICES ASSUME NEW i \in 1 .. Len(s) + Len(t)
               PROVE  <<g[i - 1], u[i], g[i]>> \in R
    BY <1>1 DEF StepsOf
  <2>1. CASE i \in 1 .. Len(s)
    BY <1>13, <2>1
  <2>2. CASE ~(i \in 1 .. Len(s))
    <3>1. i - Len(s) \in 1 .. Len(t) /\ Len(s) + (i - Len(s)) = i
          /\ Len(s) + (i - Len(s)) - 1 = i - 1
      BY <1>1, <2>2
    <3> QED BY <1>14, <3>1
  <2> QED BY <2>1, <2>2
<1>16. Leads(R, V, v, u, w)
  BY <1>10, <1>12, <1>15 DEF Leads
<1> QED BY <1>16 DEF u
=============================================================================
