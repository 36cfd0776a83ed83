----------------------------- MODULE WireProofs -----------------------------
(***************************************************************************)
(* Proofs about Wire: whatever has arrived in one recv(), the side that    *)
(* reads from the beginning of a message understands that message.         *)
(*                                                                         *)
(* The argument is about places in a string of bytes.  Found(q, k, b) says *)
(* that the bytes b are in q behind its first k bytes.  What is sent is at *)
(* the beginning of what is received, a string's first NUL is the one put  *)
(* behind it, a payload's first carriage return the one at its end, and so *)
(* the parser's searches stop where the sender meant them to.              *)
(***************************************************************************)
EXTENDS Wire, SeqLemmas

Byte   == Nat
Inside == Nat \ {CR} \* what may be in front of the end of a message

Found(q, k, b) ==
  k + Len(b) <= Len(q) /\ \A i \in 1 .. Len(b) : q[k + i] = b[i]

-----------------------------------------------------------------------------
(* Numbers.                                                                *)

LEMMA MinOfNats ==
  ASSUME NEW S \in SUBSET Nat, S # {}
  PROVE  Min(S) \in S /\ \A y \in S : Min(S) <= y
<1>1. PICK x \in S : \A y \in S : ~ (<<y, x>> \in OpToRel(<, Nat))
  BY NatLessThanWellFounded, WFMin
<1>2. ASSUME NEW y \in S PROVE x <= y
  <2>1. SUFFICES ASSUME y < x PROVE FALSE
    OBVIOUS
  <2>2. <<y, x>> \in OpToRel(<, Nat)
    BY <2>1 DEF OpToRel
  <2> QED BY <1>1, <2>2
<1>3. \E z \in S : \A y \in S : z <= y
  BY <1>2
<1> QED BY <1>3 DEF Min

LEMMA MaxOfNats ==
  ASSUME NEW n \in Nat, NEW S \in SUBSET (0 .. n), S # {}
  PROVE  Max(S) \in S /\ \A y \in S : y <= Max(S)
<1> DEFINE R == {n - y : y \in S}
<1>1. R \in SUBSET Nat /\ R # {}
  <2>1. \A y \in S : n - y \in Nat
    OBVIOUS
  <2> QED BY <2>1
<1>2. Min(R) \in R /\ \A y \in R : Min(R) <= y
  BY <1>1, MinOfNats
<1>3. PICK x \in S : Min(R) = n - x
  BY <1>2
<1>4. \A y \in S : x >= y
  BY <1>2, <1>3
<1>5. \E z \in S : \A y \in S : z >= y
  BY <1>4
<1>6. Max(S) \in S /\ \A y \in S : Max(S) >= y
  BY <1>5 DEF Max
<1> QED BY <1>6

-----------------------------------------------------------------------------
(* Places in a string of bytes.                                            *)

LEMMA FoundParts ==
  ASSUME NEW q \in Seq(Byte), NEW a \in Seq(Byte), NEW b \in Seq(Byte), NEW k \in Nat,
         Found(q, k, Joined(a, b))
  PROVE  Found(q, k, a) /\ Found(q, k + Len(a), b)
<1> DEFINE c == Joined(a, b)
<1>1. Len(a) \in Nat /\ Len(b) \in Nat /\ Len(q) \in Nat
  OBVIOUS
<1>2. /\ c \in Seq(Byte) /\ Len(c) = Len(a) + Len(b)
      /\ \A i \in 1 .. Len(a) + Len(b) : c[i] = IF i <= Len(a) THEN a[i] ELSE b[i - Len(a)]
  BY ConcatProperties DEF Joined
<1> HIDE DEF c
<1>3. k + Len(c) <= Len(q) /\ \A i \in 1 .. Len(c) : q[k + i] = c[i]
  BY DEF Found, c
<1>4. Found(q, k, a)
  <2>1. ASSUME NEW i \in 1 .. Len(a) PROVE q[k + i] = a[i]
    <3>1. i \in 1 .. Len(c) /\ i <= Len(a)
      BY <1>1, <1>2
    <3> QED BY <1>2, <1>3, <3>1
  <2> QED BY <1>1, <1>2, <1>3, <2>1 DEF Found
<1>5. Found(q, k + Len(a), b)
  <2>1. ASSUME NEW i \in 1 .. Len(b) PROVE q[(k + Len(a)) + i] = b[i]
    <3>1. /\ Len(a) + i \in 1 .. Len(c) /\ ~(Len(a) + i <= Len(a))
          /\ (Len(a) + i) - Len(a) = i /\ (k + Len(a)) + i = k + (Len(a) + i)
      BY <1>1, <1>2
    <3>2. c[Len(a) + i] = b[i]
      BY <1>2, <3>1
    <3> QED BY <1>3, <3>1, <3>2
  <2> QED BY <1>1, <1>2, <1>3, <2>1 DEF Found
<1> QED BY <1>4, <1>5

LEMMA FoundJoined ==
  ASSUME NEW q \in Seq(Byte), NEW a \in Seq(Byte), NEW b \in Seq(Byte), NEW k \in Nat,
         Found(q, k, a), Found(q, k + Len(a), b)
  PROVE  Found(q, k, Joined(a, b))
<1> DEFINE c == Joined(a, b)
<1>1. Len(a) \in Nat /\ Len(b) \in Nat /\ Len(q) \in Nat
  OBVIOUS
<1>2. /\ c \in Seq(Byte) /\ Len(c) = Len(a) + Len(b)
      /\ \A i \in 1 .. Len(a) + Len(b) : c[i] = IF i <= Len(a) THEN a[i] ELSE b[i - Len(a)]
  BY ConcatProperties DEF Joined
<1> HIDE DEF c
<1>3. k + Len(c) <= Len(q)
  BY <1>1, <1>2 DEF Found
<1>4. ASSUME NEW i \in 1 .. Len(c) PROVE q[k + i] = c[i]
  <2>1. CASE i <= Len(a)
    <3>1. i \in 1 .. Len(a)
      BY <1>1, <1>2, <2>1
    <3> QED BY <1>2, <2>1, <3>1 DEF Found
  <2>2. CASE ~(i <= Len(a))
    <3>1. i - Len(a) \in 1 .. Len(b) /\ (k + Len(a)) + (i - Len(a)) = k + i
      BY <1>1, <1>2, <2>2
    <3>2. c[i] = b[i - Len(a)]
      BY <1>1, <1>2, <2>2
    <3>3. q[(k + Len(a)) + (i - Len(a))] = b[i - Len(a)]
      BY <3>1 DEF Found
    <3> QED BY <3>1, <3>2, <3>3
  <2> QED BY <2>1, <2>2
<1>5. Found(q, k, c)
  BY <1>3, <1>4 DEF Found
<1> QED BY <1>5 DEF c

LEMMA JoinedType ==
  ASSUME NEW T, NEW a \in Seq(T), NEW b \in Seq(T)
  PROVE  Joined(a, b) \in Seq(T) /\ Len(Joined(a, b)) = Len(a) + Len(b)
BY ConcatProperties DEF Joined

LEMMA FoundWhole ==
  ASSUME NEW q \in Seq(Byte)
  PROVE  Found(q, 0, q)
BY DEF Found, Byte

LEMMA FoundInFound ==
  ASSUME NEW q \in Seq(Byte), NEW a \in Seq(Byte), NEW b \in Seq(Byte),
         Found(q, 0, a), Found(a, 0, b)
  PROVE  Found(q, 0, b)
<1>1. Len(a) \in Nat /\ Len(b) \in Nat /\ Len(q) \in Nat /\ Len(b) <= Len(a)
  BY DEF Found
<1>2. ASSUME NEW i \in 1 .. Len(b) PROVE q[0 + i] = b[i]
  <2>1. i \in 1 .. Len(a) /\ 0 + i = i
    BY <1>1
  <2> QED BY <2>1 DEF Found
<1> QED BY <1>1, <1>2 DEF Found

LEMMA FoundInPrefix ==
  ASSUME NEW q \in Seq(Byte), NEW b \in Seq(Byte), NEW n \in Nat,
         Found(q, 0, b), Len(b) <= n, n <= Len(q)
  PROVE  SubSeq(q, 1, n) \in Seq(Byte) /\ Found(SubSeq(q, 1, n), 0, b)
<1> DEFINE c == SubSeq(q, 1, n)
<1>1. Len(b) \in Nat /\ Len(q) \in Nat
  OBVIOUS
<1>2. \A i \in 1 .. n : q[i] \in Byte
  BY <1>1, ElementOfSeq
<1>3. /\ c \in Seq(Byte) /\ Len(c) = IF 1 <= n THEN n - 1 + 1 ELSE 0
      /\ \A i \in 1 .. n - 1 + 1 : c[i] = q[1 + i - 1]
  BY <1>2, SubSeqProperties
<1> HIDE DEF c
<1>4. Len(c) = n
  BY <1>3
<1>5. ASSUME NEW i \in 1 .. Len(b) PROVE c[0 + i] = b[i]
  <2>1. i \in 1 .. n - 1 + 1 /\ 1 + i - 1 = i /\ 0 + i = i
    BY <1>1
  <2> QED BY <1>3, <2>1 DEF Found
<1>6. Found(c, 0, b)
  BY <1>1, <1>4, <1>5 DEF Found
<1> QED BY <1>3, <1>6 DEF c

(* The bytes found are those between the place and their end.              *)
LEMMA FoundIs ==
  ASSUME NEW q \in Seq(Byte), NEW k \in Nat, NEW b \in Seq(Byte), Found(q, k, b)
  PROVE  SubSeq(q, k + 1, k + Len(b)) = b
<1>1. Len(b) \in Nat /\ Len(q) \in Nat /\ k + Len(b) <= Len(q)
  BY DEF Found
<1>2. \A i \in k + 1 .. k + Len(b) : q[i] \in Byte
  BY <1>1, ElementOfSeq
<1> DEFINE c == SubSeq(q, k + 1, k + Len(b))
<1>3. /\ c \in Seq(Byte)
      /\ Len(c) = IF k + 1 <= k + Len(b) THEN (k + Len(b)) - (k + 1) + 1 ELSE 0
      /\ \A i \in 1 .. (k + Len(b)) - (k + 1) + 1 : c[i] = q[(k + 1) + i - 1]
  BY <1>1, <1>2, SubSeqProperties
<1> HIDE DEF c
<1>4. Len(c) = Len(b)
  BY <1>1, <1>3
<1>5. ASSUME NEW i \in 1 .. Len(b) PROVE c[i] = b[i]
  <2>1. i \in 1 .. (k + Len(b)) - (k + 1) + 1 /\ (k + 1) + i - 1 = k + i
    BY <1>1
  <2> QED BY <1>3, <2>1 DEF Found
<1>6. c = b
  BY <1>3, <1>4, <1>5, SeqEqual
<1> QED BY <1>6 DEF c

-----------------------------------------------------------------------------
(* What the parser's searches find.                                        *)

LEMMA StrType ==
  ASSUME NEW s \in Seq(Char)
  PROVE  /\ s \in Seq(Byte) /\ Str(s) \in Seq(Inside) /\ Str(s) \in Seq(Byte)
         /\ Len(Str(s)) = Len(s) + 1 /\ Str(s)[Len(s) + 1] = NUL
         /\ \A i \in 1 .. Len(s) : Str(s)[i] = s[i] /\ s[i] # NUL /\ s[i] # CR
<1>1. \A c \in Char : c \in Inside /\ c # NUL /\ c # CR
  BY DEF Char, Inside, CR, NUL
<1>2. \A i \in 1 .. Len(s) : s[i] \in Char
  BY ElementOfSeq
<1>3. NUL \in Inside /\ Inside \subseteq Byte
  BY DEF NUL, Inside, CR, Byte
<1>4. s \in Seq(Inside)
  BY <1>1, <1>2, SeqDef
<1>5. Str(s) \in Seq(Inside) /\ Len(Str(s)) = Len(s) + 1
  BY <1>3, <1>4 DEF Str
<1>6. s \in Seq(Byte) /\ Str(s) \in Seq(Byte)
  BY <1>3, <1>4 DEF Str
<1>7. Str(s)[Len(s) + 1] = NUL /\ \A i \in 1 .. Len(s) : Str(s)[i] = s[i]
  BY <1>4 DEF Str
<1> QED BY <1>1, <1>2, <1>5, <1>6, <1>7

(* The C string at a place is the one that was put there.                  *)
LEMMA CStringIs ==
  ASSUME NEW p \in Seq(Byte), NEW k \in Nat, NEW s \in Seq(Char), Found(p, k, Str(s))
  PROVE  CString(p, k + 1) = s /\ Behind(p, k + 1) = k + Len(s) + 2
<1> DEFINE I == {j \in k + 1 .. Len(p) : p[j] = NUL}
<1>1. Len(s) \in Nat /\ Len(p) \in Nat /\ k + Len(s) + 1 <= Len(p)
  BY StrType DEF Found
<1>2. p[k + Len(s) + 1] = NUL
  <2>1. Len(s) + 1 \in 1 .. Len(Str(s)) /\ k + (Len(s) + 1) = k + Len(s) + 1
    BY <1>1, StrType
  <2> QED BY <2>1, StrType DEF Found
<1>3. ASSUME NEW i \in 1 .. Len(s) PROVE p[k + i] = s[i] /\ p[k + i] # NUL
  <2>1. i \in 1 .. Len(Str(s))
    BY <1>1, StrType
  <2>2. p[k + i] = Str(s)[i]
    BY <2>1 DEF Found
  <2> QED BY <2>2, StrType
<1>4. k + Len(s) + 1 \in I /\ I \subseteq Nat /\ I # {}
  BY <1>1, <1>2
<1>5. \A j \in I : k + Len(s) + 1 <= j
  <2>1. SUFFICES ASSUME NEW j \in I, j < k + Len(s) + 1 PROVE FALSE
    BY <1>1
  <2>2. j - k \in 1 .. Len(s) /\ k + (j - k) = j
    BY <1>1, <2>1
  <2> QED BY <1>3, <2>1, <2>2
<1>6. Min(I) = k + Len(s) + 1
  <2>1. Min(I) \in I /\ \A y \in I : Min(I) <= y
    BY <1>4, MinOfNats
  <2> QED BY <1>1, <1>4, <1>5, <2>1
<1>7. SelectInSubSeq(p, k + 1, Len(p), LAMBDA b : b = NUL) = k + Len(s) + 1
  BY <1>4, <1>6 DEF SelectInSubSeq
<1>8. CString(p, k + 1) = SubSeq(p, k + 1, k + Len(s))
  <2>1. k + Len(s) + 1 # 0 /\ (k + Len(s) + 1) - 1 = k + Len(s)
    BY <1>1
  <2> QED BY <1>7, <2>1 DEF CString
<1>9. Found(p, k, s)
  BY <1>1, <1>3 DEF Found
<1>10. s \in Seq(Byte)
  BY StrType
<1>11. CString(p, k + 1) = s
  BY <1>8, <1>9, <1>10, FoundIs
<1> QED BY <1>1, <1>11 DEF Behind

(* What a message carries: a payload, and the carriage return behind it.   *)
Carried(rx, k, w) ==
  /\ Found(rx, k, w)
  /\ k + Len(w) + 1 <= Len(rx)
  /\ rx[k + Len(w) + 1] = CR

LEMMA PayloadIs ==
  ASSUME NEW rx \in Seq(Byte), NEW k \in Nat, NEW w \in Seq(Inside), Carried(rx, k, w)
  PROVE  Payload(rx, k + 1) = w /\ HasEnd(rx, k + 1)
<1> DEFINE I == {j \in k + 1 .. Len(rx) : rx[j] = CR}
           e == k + Len(w) + 1
<1>1. /\ Len(w) \in Nat /\ Len(rx) \in Nat /\ e <= Len(rx) /\ e \in Nat
      /\ e \in k + 1 .. Len(rx) /\ e - 1 = k + Len(w) /\ rx[e] = CR
  BY DEF Carried
<1>2. ASSUME NEW i \in 1 .. Len(w) PROVE rx[k + i] # CR
  <2>1. w[i] \in Inside
    BY ElementOfSeq
  <2>2. rx[k + i] = w[i]
    BY DEF Carried, Found
  <2> QED BY <2>1, <2>2 DEF Inside
<1>3. e \in I /\ I \subseteq Nat /\ I # {}
  BY <1>1
<1>4. \A j \in I : e <= j
  <2>1. SUFFICES ASSUME NEW j \in I, j < e PROVE FALSE
    BY <1>1
  <2>2. j - k \in 1 .. Len(w) /\ k + (j - k) = j
    BY <1>1, <2>1
  <2> QED BY <1>2, <2>1, <2>2
<1> HIDE DEF e
<1>5. Min(I) = e
  <2>1. Min(I) \in I /\ \A y \in I : Min(I) <= y
    BY <1>3, MinOfNats
  <2> QED BY <1>1, <1>3, <1>4, <2>1
<1>6. SelectInSubSeq(rx, k + 1, Len(rx), LAMBDA b : b = CR) = e
  BY <1>3, <1>5 DEF SelectInSubSeq
<1>7. Payload(rx, k + 1) = SubSeq(rx, k + 1, k + Len(w))
  BY <1>1, <1>6 DEF Payload
<1>8. w \in Seq(Byte)
  <2>1. \A i \in 1 .. Len(w) : w[i] \in Inside /\ Inside \subseteq Byte
    BY ElementOfSeq DEF Inside, Byte
  <2> QED BY <2>1, SeqDef
<1>9. Payload(rx, k + 1) = w
  BY <1>7, <1>8, FoundIs DEF Carried
<1>10. HasEnd(rx, k + 1)
  BY <1>1 DEF HasEnd
<1> QED BY <1>9, <1>10

-----------------------------------------------------------------------------
(* Requests.                                                               *)

LEMMA OneByte ==
  ASSUME NEW q \in Seq(Byte), NEW k \in Nat, NEW x \in Byte, Found(q, k, <<x>>)
  PROVE  k + 1 <= Len(q) /\ q[k + 1] = x
<1>1. Len(<<x>>) = 1 /\ <<x>>[1] = x
  OBVIOUS
<1> QED BY <1>1 DEF Found

LEMMA CarriedIs ==
  ASSUME NEW q \in Seq(Byte), NEW k \in Nat, NEW w \in Seq(Inside),
         Found(q, k, Joined(w, <<CR>>))
  PROVE  Carried(q, k, w)
<1>1. w \in Seq(Byte) /\ Len(w) \in Nat
  <2>1. Inside \subseteq Byte
    BY DEF Inside, Byte
  <2>2. \A i \in 1 .. Len(w) : w[i] \in Inside
    BY ElementOfSeq
  <2> QED BY <2>1, <2>2, SeqDef
<1>2. CR \in Byte /\ <<CR>> \in Seq(Byte)
  BY DEF CR, Byte
<1>3. Found(q, k, w) /\ Found(q, k + Len(w), <<CR>>)
  BY <1>1, <1>2, FoundParts
<1>4. k + Len(w) + 1 <= Len(q) /\ q[k + Len(w) + 1] = CR
  <2>1. k + Len(w) \in Nat
    BY <1>1
  <2> QED BY <1>2, <1>3, <2>1, OneByte
<1> QED BY <1>3, <1>4 DEF Carried

LEMMA InsideIsByte ==
  \A w \in Seq(Inside) : w \in Seq(Byte)
<1> SUFFICES ASSUME NEW w \in Seq(Inside) PROVE w \in Seq(Byte)
  OBVIOUS
<1>1. Inside \subseteq Byte
  BY DEF Inside, Byte
<1>2. \A i \in 1 .. Len(w) : w[i] \in Inside
  BY ElementOfSeq
<1> QED BY <1>1, <1>2, SeqDef

(* A request: who sends it, its type, and up to two strings.               *)
RequestOf(name, type, r, t) ==
  Joined(Joined(Joined(Joined(Str(name), <<type>>), r), t), <<CR>>)

LEMMA RequestParts ==
  ASSUME NEW rx \in Seq(Byte), NEW name \in Seq(Char), NEW type \in Byte,
         NEW r \in Seq(Inside), NEW t \in Seq(Inside),
         Found(rx, 0, RequestOf(name, type, r, t))
  PROVE  /\ CString(rx, 1) = name
         /\ Behind(rx, 1) = Len(name) + 2
         /\ rx[Len(name) + 2] = type
         /\ Payload(rx, (Len(name) + 2) + 1) = Joined(r, t)
         /\ HasEnd(rx, (Len(name) + 2) + 1)
<1> DEFINE a == Str(name)
           b == Joined(a, <<type>>)
           c == Joined(b, r)
           d == Joined(c, t)
           k == Len(name) + 2
<1>1. /\ a \in Seq(Byte) /\ Len(a) = Len(name) + 1 /\ Len(name) \in Nat
      /\ r \in Seq(Byte) /\ t \in Seq(Byte) /\ <<type>> \in Seq(Byte)
      /\ <<CR>> \in Seq(Byte) /\ Len(r) \in Nat /\ Len(t) \in Nat
  <2>1. a \in Seq(Byte) /\ Len(a) = Len(name) + 1
    BY StrType
  <2>2. r \in Seq(Byte) /\ t \in Seq(Byte)
    BY InsideIsByte
  <2>3. <<type>> \in Seq(Byte) /\ <<CR>> \in Seq(Byte)
    BY DEF CR, Byte
  <2> QED BY <2>1, <2>2, <2>3
<1> HIDE DEF a
<1>2. b \in Seq(Byte) /\ Len(b) = k
  <2>1. b \in Seq(Byte) /\ Len(b) = Len(a) + Len(<<type>>)
    BY <1>1, JoinedType
  <2>2. Len(<<type>>) = 1
    OBVIOUS
  <2> QED BY <1>1, <2>1, <2>2
<1> HIDE DEF b
<1>3. c \in Seq(Byte) /\ Len(c) = k + Len(r)
  BY <1>1, <1>2, JoinedType
<1> HIDE DEF c
<1>4. d \in Seq(Byte) /\ Len(d) = (k + Len(r)) + Len(t)
  BY <1>1, <1>3, JoinedType
<1> HIDE DEF d
<1>5. Found(rx, 0, Joined(d, <<CR>>))
  BY DEF RequestOf, a, b, c, d
<1>6. Found(rx, 0, d) /\ Found(rx, Len(d), <<CR>>)
  <2>1. Found(rx, 0, d) /\ Found(rx, 0 + Len(d), <<CR>>)
    BY <1>1, <1>4, <1>5, FoundParts
  <2>2. 0 + Len(d) = Len(d)
    BY <1>1, <1>4
  <2> QED BY <2>1, <2>2
<1>7. Found(rx, 0, c) /\ Found(rx, Len(c), t)
  <2>1. Found(rx, 0, Joined(c, t))
    BY <1>6 DEF d
  <2>2. Found(rx, 0, c) /\ Found(rx, 0 + Len(c), t)
    BY <1>1, <1>3, <2>1, FoundParts
  <2> QED BY <1>3, <2>2
<1>8. Found(rx, 0, b) /\ Found(rx, Len(b), r)
  <2>1. Found(rx, 0, Joined(b, r))
    BY <1>7 DEF c
  <2>2. Found(rx, 0, b) /\ Found(rx, 0 + Len(b), r)
    BY <1>1, <1>2, <2>1, FoundParts
  <2> QED BY <1>2, <2>2
<1>9. Found(rx, 0, a) /\ Found(rx, Len(a), <<type>>)
  <2>1. Found(rx, 0, Joined(a, <<type>>))
    BY <1>8 DEF b
  <2>2. Found(rx, 0, a) /\ Found(rx, 0 + Len(a), <<type>>)
    BY <1>1, <2>1, FoundParts
  <2> QED BY <1>1, <2>2
<1>10. CString(rx, 1) = name /\ Behind(rx, 1) = Len(name) + 2
  <2>1. Found(rx, 0, Str(name))
    BY <1>9 DEF a
  <2>2. CString(rx, 0 + 1) = name /\ Behind(rx, 0 + 1) = 0 + Len(name) + 2
    BY <2>1, CStringIs
  <2> QED BY <1>1, <2>2
<1>11. rx[k] = type
  <2>1. rx[Len(a) + 1] = type
    BY <1>1, <1>9, OneByte
  <2>2. Len(a) + 1 = k
    BY <1>1
  <2> QED BY <2>1, <2>2
<1> DEFINE w == Joined(r, t)
<1>12. w \in Seq(Inside) /\ Len(w) = Len(r) + Len(t) /\ w \in Seq(Byte)
  BY JoinedType, InsideIsByte
<1>13. Found(rx, k, w)
  <2>1. k \in Nat /\ Found(rx, k, r) /\ Found(rx, k + Len(r), t)
    BY <1>1, <1>2, <1>3, <1>7, <1>8
  <2> HIDE DEF k
  <2> QED BY <1>1, <2>1, FoundJoined
<1>14. k + Len(w) + 1 <= Len(rx) /\ rx[k + Len(w) + 1] = CR
  <2>1. Len(d) = k + Len(w) /\ Len(d) \in Nat /\ CR \in Byte
    BY <1>1, <1>4, <1>12 DEF CR, Byte
  <2>2. Len(d) + 1 <= Len(rx) /\ rx[Len(d) + 1] = CR
    BY <1>6, <2>1, OneByte
  <2> QED BY <2>1, <2>2
<1>15. Payload(rx, k + 1) = w /\ HasEnd(rx, k + 1)
  <2>1. Carried(rx, k, w) /\ k \in Nat
    BY <1>1, <1>13, <1>14 DEF Carried
  <2> HIDE DEF k, w
  <2> QED BY <1>12, <2>1, PayloadIs
<1> QED BY <1>10, <1>11, <1>15

LEMMA OneString ==
  ASSUME NEW s \in Seq(Char)
  PROVE  /\ Joined(Str(s), <<>>) = Str(s)
         /\ CString(Str(s), 1) = s /\ Behind(Str(s), 1) = Len(s) + 2
<1>1. Str(s) \in Seq(Byte)
  BY StrType
<1>2. Joined(Str(s), <<>>) = Str(s)
  BY <1>1, ConcatEmptySeq DEF Joined
<1>3. Found(Str(s), 0, Str(s))
  BY <1>1, FoundWhole
<1>4. CString(Str(s), 0 + 1) = s /\ Behind(Str(s), 0 + 1) = 0 + Len(s) + 2
  BY <1>1, <1>3, CStringIs
<1> QED BY <1>2, <1>4

LEMMA TwoStrings ==
  ASSUME NEW s \in Seq(Char), NEW t \in Seq(Char), NEW p, p = Joined(Str(s), Str(t))
  PROVE  /\ CString(p, 1) = s /\ Behind(p, 1) = Len(s) + 2
         /\ CString(p, Len(s) + 2) = t
<1>1. /\ Str(s) \in Seq(Byte) /\ Str(t) \in Seq(Byte)
      /\ Len(Str(s)) = Len(s) + 1 /\ Len(s) \in Nat
  BY StrType
<1>2. p \in Seq(Byte)
  BY <1>1, JoinedType
<1>3. Found(p, 0, Str(s)) /\ Found(p, 0 + Len(Str(s)), Str(t))
  <2>1. Found(p, 0, p)
    BY <1>2, FoundWhole
  <2>2. Found(p, 0, Joined(Str(s), Str(t)))
    BY <2>1
  <2> QED BY <1>1, <1>2, <2>2, FoundParts
<1>4. Found(p, Len(s) + 1, Str(t)) /\ Len(s) + 1 \in Nat
  BY <1>1, <1>3
<1>5. CString(p, 0 + 1) = s /\ Behind(p, 0 + 1) = 0 + Len(s) + 2
  BY <1>2, <1>3, CStringIs
<1>6. CString(p, (Len(s) + 1) + 1) = t
  BY <1>2, <1>4, CStringIs
<1> QED BY <1>1, <1>5, <1>6

(* The strings and the codes the messages are made of.                     *)
LEMMA Strings ==
  /\ \A s \in Name : s \in Seq(Char) /\ s # <<>>
  /\ \A s \in Room : s \in Seq(Char) /\ s # <<>>
  /\ \A s \in Text : s \in Seq(Char)
  /\ <<>> \in Seq(Char) /\ <<>> \in Seq(Inside)
BY StringsAssumption

Codes ==
  /\ RC_LOGON = 17 /\ RC_EXIT = 8 /\ RC_JOIN = 7
  /\ RC_LEAVE = 21 /\ RC_MSG = 22 /\ RC_RUL = 23

LEMMA CodesAre == Codes
BY DEF Codes, RC_LOGON, RC_EXIT, RC_JOIN, RC_LEAVE, RC_MSG, RC_RUL

Room0(m) == IF m.type \in {RC_LOGON, RC_EXIT} THEN <<>> ELSE Str(m.room)
Text0(m) == IF m.type = RC_MSG THEN Str(m.text) ELSE <<>>

LEMMA RequestBytesAre ==
  ASSUME NEW m
  PROVE  RequestBytes(m) = RequestOf(m.name, m.type, Room0(m), Text0(m))
BY DEF RequestBytes, RequestOf, Room0, Text0, Joined

(* The server understands a request, whatever is behind it.                *)
LEMMA LogonOrExitRead ==
  ASSUME NEW rx \in Seq(Byte), NEW m \in [type : {RC_LOGON, RC_EXIT}, name : Name],
         Found(rx, 0, RequestBytes(m))
  PROVE  ServerReads(rx) = m
<1>1. m.name \in Seq(Char) /\ m.type \in {RC_LOGON, RC_EXIT} /\ m.type \in Byte
  BY Strings, CodesAre DEF Codes, Byte
<1>2. Room0(m) = <<>> /\ Text0(m) = <<>>
  BY <1>1, CodesAre DEF Room0, Text0, Codes
<1>3. <<>> \in Seq(Inside)
  BY Strings
<1>4. Found(rx, 0, RequestOf(m.name, m.type, <<>>, <<>>))
  BY <1>2, RequestBytesAre
<1>5. /\ CString(rx, 1) = m.name /\ Behind(rx, 1) = Len(m.name) + 2
      /\ rx[Len(m.name) + 2] = m.type /\ HasEnd(rx, (Len(m.name) + 2) + 1)
  BY <1>1, <1>3, <1>4, RequestParts
<1>6. ServerReads(rx) = [type |-> m.type, name |-> m.name]
  BY <1>1, <1>5, CodesAre DEF ServerReads, Codes
<1> QED BY <1>6

LEMMA RoomRequestRead ==
  ASSUME NEW rx \in Seq(Byte),
         NEW m \in [type : {RC_JOIN, RC_LEAVE, RC_RUL}, name : Name,
                    room : Room \cup {<<>>}],
         Found(rx, 0, RequestBytes(m))
  PROVE  ServerReads(rx) = m
<1>1. /\ m.name \in Seq(Char) /\ m.type \in {RC_JOIN, RC_LEAVE, RC_RUL}
      /\ m.type \in Byte /\ m.room \in Seq(Char)
  <2>1. m.room \in Room \/ m.room = <<>>
    OBVIOUS
  <2>2. m.room \in Seq(Char)
    BY <2>1, Strings
  <2> QED BY <2>2, Strings, CodesAre DEF Codes, Byte
<1>2. Room0(m) = Str(m.room) /\ Text0(m) = <<>>
  BY <1>1, CodesAre DEF Room0, Text0, Codes
<1>3. <<>> \in Seq(Inside) /\ Str(m.room) \in Seq(Inside)
  BY <1>1, Strings, StrType
<1>4. Found(rx, 0, RequestOf(m.name, m.type, Str(m.room), <<>>))
  BY <1>2, RequestBytesAre
<1>5. /\ CString(rx, 1) = m.name /\ Behind(rx, 1) = Len(m.name) + 2
      /\ rx[Len(m.name) + 2] = m.type /\ HasEnd(rx, (Len(m.name) + 2) + 1)
      /\ Payload(rx, (Len(m.name) + 2) + 1) = Joined(Str(m.room), <<>>)
  BY <1>1, <1>3, <1>4, RequestParts
<1>6. CString(Payload(rx, (Len(m.name) + 2) + 1), 1) = m.room
  BY <1>1, <1>5, OneString
<1>7. ServerReads(rx) = [type |-> m.type, name |-> m.name, room |-> m.room]
  BY <1>1, <1>5, <1>6, CodesAre DEF ServerReads, Codes
<1> QED BY <1>7

LEMMA MessageRead ==
  ASSUME NEW rx \in Seq(Byte),
         NEW m \in [type : {RC_MSG}, name : Name, room : Room, text : Text],
         Found(rx, 0, RequestBytes(m))
  PROVE  ServerReads(rx) = IF TooLong(m.room) THEN Ignored ELSE m
<1>1. /\ m.name \in Seq(Char) /\ m.type = RC_MSG /\ m.type \in Byte
      /\ m.room \in Seq(Char) /\ m.text \in Seq(Char)
  BY Strings, CodesAre DEF Codes, Byte
<1>2. Room0(m) = Str(m.room) /\ Text0(m) = Str(m.text)
  BY <1>1, CodesAre DEF Room0, Text0, Codes
<1>3. Str(m.room) \in Seq(Inside) /\ Str(m.text) \in Seq(Inside)
  BY <1>1, StrType
<1>4. Found(rx, 0, RequestOf(m.name, m.type, Str(m.room), Str(m.text)))
  BY <1>2, RequestBytesAre
<1> DEFINE k == Len(m.name) + 2
           p == Payload(rx, k + 1)
<1>5. /\ CString(rx, 1) = m.name /\ Behind(rx, 1) = k
      /\ rx[k] = m.type /\ HasEnd(rx, k + 1)
      /\ p = Joined(Str(m.room), Str(m.text))
  BY <1>1, <1>3, <1>4, RequestParts
<1> HIDE DEF p
<1>6. /\ CString(p, 1) = m.room /\ Behind(p, 1) = Len(m.room) + 2
      /\ CString(p, Len(m.room) + 2) = m.text
  BY <1>1, <1>5, TwoStrings
<1>7. ServerReads(rx) = IF TooLong(m.room) THEN Ignored
                        ELSE [type |-> RC_MSG, name |-> m.name, room |-> m.room,
                              text |-> m.text]
  BY <1>1, <1>5, <1>6, CodesAre DEF ServerReads, Codes, p
<1>8. m = [type |-> RC_MSG, name |-> m.name, room |-> m.room, text |-> m.text]
  BY <1>1
<1> QED BY <1>7, <1>8

(* Every request is one of the three kinds.                                *)
LEMMA RequestRead ==
  ASSUME NEW rx \in Seq(Byte), NEW m \in Request, Found(rx, 0, RequestBytes(m))
  PROVE  ServerReads(rx) = IF m.type = RC_MSG /\ TooLong(m.room) THEN Ignored ELSE m
<1>1. CASE m \in [type : {RC_LOGON, RC_EXIT}, name : Name]
  <2>1. m.type # RC_MSG
    BY <1>1, CodesAre DEF Codes
  <2>2. ServerReads(rx) = m
    BY <1>1, LogonOrExitRead
  <2> QED BY <2>1, <2>2
<1>2. CASE m \in [type : {RC_JOIN, RC_LEAVE, RC_RUL}, name : Name, room : Room \cup {<<>>}]
  <2>1. m.type # RC_MSG
    BY <1>2, CodesAre DEF Codes
  <2>2. ServerReads(rx) = m
    BY <1>2, RoomRequestRead
  <2> QED BY <2>1, <2>2
<1>3. CASE m \in [type : {RC_MSG}, name : Name, room : Room, text : Text]
  <2>1. m.type = RC_MSG
    BY <1>3
  <2>2. ServerReads(rx) = IF TooLong(m.room) THEN Ignored ELSE m
    BY <1>3, MessageRead
  <2> QED BY <2>1, <2>2
<1>4. \/ m \in [type : {RC_LOGON, RC_EXIT}, name : Name]
      \/ m \in [type : {RC_JOIN, RC_LEAVE}, name : Name, room : Room]
      \/ m \in [type : {RC_RUL}, name : Name, room : Room \cup {<<>>}]
      \/ m \in [type : {RC_MSG}, name : Name, room : Room, text : Text]
  BY DEF Request
<1>5. m \in [type : {RC_JOIN, RC_LEAVE}, name : Name, room : Room]
        => m \in [type : {RC_JOIN, RC_LEAVE, RC_RUL}, name : Name, room : Room \cup {<<>>}]
  OBVIOUS
<1>6. m \in [type : {RC_RUL}, name : Name, room : Room \cup {<<>>}]
        => m \in [type : {RC_JOIN, RC_LEAVE, RC_RUL}, name : Name, room : Room \cup {<<>>}]
  OBVIOUS
<1> QED BY <1>1, <1>2, <1>3, <1>4, <1>5, <1>6

-----------------------------------------------------------------------------
(* Answers.                                                                *)

(* An answer: its type, what it carries, and the carriage return.          *)
AnswerOf(type, w) == Joined(Joined(<<type>>, w), <<CR>>)

LEMMA AnswerParts ==
  ASSUME NEW rx \in Seq(Byte), NEW type \in Byte, NEW w \in Seq(Inside),
         Found(rx, 0, AnswerOf(type, w))
  PROVE  rx[1] = type /\ Payload(rx, 2) = w /\ HasEnd(rx, 2)
<1> DEFINE a == <<type>>
           b == Joined(a, w)
<1>1. /\ a \in Seq(Byte) /\ Len(a) = 1 /\ w \in Seq(Byte) /\ Len(w) \in Nat
      /\ <<CR>> \in Seq(Byte) /\ CR \in Byte
  <2>1. w \in Seq(Byte)
    BY InsideIsByte
  <2> QED BY <2>1 DEF CR, Byte
<1> HIDE DEF a
<1>2. b \in Seq(Byte) /\ Len(b) = 1 + Len(w)
  BY <1>1, JoinedType
<1> HIDE DEF b
<1>3. Found(rx, 0, b) /\ Found(rx, 0 + Len(b), <<CR>>)
  <2>1. Found(rx, 0, Joined(b, <<CR>>))
    BY DEF AnswerOf, a, b
  <2> QED BY <1>1, <1>2, <2>1, FoundParts
<1>4. Found(rx, 0, a) /\ Found(rx, 0 + Len(a), w)
  <2>1. Found(rx, 0, Joined(a, w))
    BY <1>3 DEF b
  <2> QED BY <1>1, <2>1, FoundParts
<1>5. Len(b) \in Nat /\ 0 + Len(b) = Len(b) /\ 0 + Len(a) = 1
  BY <1>1, <1>2
<1>6. rx[0 + 1] = type
  <2>1. Found(rx, 0, <<type>>)
    BY <1>4 DEF a
  <2> QED BY <2>1, OneByte
<1>7. Len(b) + 1 <= Len(rx) /\ rx[Len(b) + 1] = CR
  BY <1>1, <1>3, <1>5, OneByte
<1>8. Carried(rx, 1, w)
  BY <1>2, <1>4, <1>5, <1>7 DEF Carried
<1>9. Payload(rx, 1 + 1) = w /\ HasEnd(rx, 1 + 1)
  BY <1>8, PayloadIs
<1> QED BY <1>6, <1>9

LEMMA JoinedAssociative ==
  ASSUME NEW T, NEW a \in Seq(T), NEW b \in Seq(T), NEW c \in Seq(T)
  PROVE  Joined(Joined(a, b), c) = Joined(a, Joined(b, c))
BY ConcatAssociative DEF Joined

(* Three things one behind the other.                                      *)
InThree(p, a, b, c) ==
  /\ p \in Seq(Byte)
  /\ Len(p) = Len(a) + Len(b) + Len(c)
  /\ Found(p, 0, a) /\ Found(p, Len(a), b) /\ Found(p, Len(a) + Len(b), c)

LEMMA ThreeParts ==
  ASSUME NEW T, T \in {Byte, Inside}, NEW a \in Seq(T), NEW b \in Seq(T), NEW c \in Seq(T),
         NEW p, p = Joined(Joined(a, b), c)
  PROVE  p \in Seq(T) /\ InThree(p, a, b, c)
<1> DEFINE d == Joined(a, b)
<1>1. d \in Seq(T) /\ Len(d) = Len(a) + Len(b)
  BY JoinedType
<1>2. p = Joined(d, c)
  OBVIOUS
<1> HIDE DEF d
<1>3. p \in Seq(T) /\ Len(p) = Len(d) + Len(c)
  BY <1>1, <1>2, JoinedType
<1>4. \A s \in Seq(T) : s \in Seq(Byte)
  BY InsideIsByte
<1>5. /\ a \in Seq(Byte) /\ b \in Seq(Byte) /\ c \in Seq(Byte)
      /\ d \in Seq(Byte) /\ p \in Seq(Byte)
  BY <1>1, <1>3, <1>4
<1>6. Found(p, 0, Joined(d, c))
  BY <1>2, <1>5, FoundWhole
<1>7. Found(p, 0, d) /\ Found(p, 0 + Len(d), c)
  BY <1>5, <1>6, FoundParts
<1>8. Found(p, 0, Joined(a, b))
  BY <1>7 DEF d
<1>9. Found(p, 0, a) /\ Found(p, 0 + Len(a), b)
  BY <1>5, <1>8, FoundParts
<1>10. Len(a) \in Nat /\ Len(b) \in Nat /\ 0 + Len(d) = Len(a) + Len(b) /\ 0 + Len(a) = Len(a)
  BY <1>1, <1>5
<1>11. Found(p, Len(a), b) /\ Found(p, Len(a) + Len(b), c)
  BY <1>7, <1>9, <1>10
<1>12. Len(p) = Len(a) + Len(b) + Len(c)
  BY <1>1, <1>3, <1>10
<1> QED BY <1>3, <1>5, <1>9, <1>11, <1>12 DEF InThree

(* An answer whose payload is in three parts.                              *)
AnswerOf3(type, a, b, c) == AnswerOf(type, Joined(Joined(a, b), c))

LEMMA AnswerOf3Is ==
  ASSUME NEW type \in Byte, NEW a \in Seq(Byte), NEW b \in Seq(Byte), NEW c \in Seq(Byte)
  PROVE  AnswerOf3(type, a, b, c)
           = Joined(Joined(Joined(Joined(<<type>>, a), b), c), <<CR>>)
<1>1. <<type>> \in Seq(Byte)
  OBVIOUS
<1> DEFINE t == <<type>>
<1> HIDE DEF t
<1>2. t \in Seq(Byte) /\ Joined(a, b) \in Seq(Byte) /\ Joined(t, a) \in Seq(Byte)
  BY <1>1, JoinedType DEF t
<1>3. Joined(Joined(t, a), b) = Joined(t, Joined(a, b))
  BY <1>2, JoinedAssociative
<1>4. Joined(Joined(t, Joined(a, b)), c) = Joined(t, Joined(Joined(a, b), c))
  BY <1>2, JoinedAssociative
<1> QED BY <1>3, <1>4 DEF AnswerOf3, AnswerOf, t

LEMMA AnswerOf3Start ==
  ASSUME NEW rx \in Seq(Byte), NEW type \in Byte,
         NEW a \in Seq(Byte), NEW b \in Seq(Byte), NEW c \in Seq(Byte),
         Found(rx, 0, AnswerOf3(type, a, b, c))
  PROVE  rx[1] = type /\ Found(rx, 1, a)
<1> DEFINE t == <<type>>
           h == Joined(t, a)
           d == Joined(h, b)
           e == Joined(d, c)
           z == <<CR>>
<1>1. t \in Seq(Byte) /\ z \in Seq(Byte) /\ Len(t) = 1
  BY DEF CR, Byte
<1>2. AnswerOf3(type, a, b, c) = Joined(e, z)
  BY AnswerOf3Is
<1> HIDE DEF t, z
<1>3. h \in Seq(Byte)
  BY <1>1, JoinedType
<1> HIDE DEF h
<1>4. d \in Seq(Byte)
  BY <1>3, JoinedType
<1> HIDE DEF d
<1>5. e \in Seq(Byte)
  BY <1>4, JoinedType
<1> HIDE DEF e
<1>6. Found(rx, 0, e)
  BY <1>1, <1>2, <1>5, FoundParts
<1>7. Found(rx, 0, d)
  BY <1>4, <1>6, FoundParts DEF e
<1>8. Found(rx, 0, h)
  BY <1>3, <1>7, FoundParts DEF d
<1>9. Found(rx, 0, t) /\ Found(rx, 0 + Len(t), a)
  BY <1>1, <1>8, FoundParts DEF h
<1>10. rx[0 + 1] = type
  BY <1>9, OneByte DEF t
<1> QED BY <1>1, <1>9, <1>10

LEMMA AnswerOf3Parts ==
  ASSUME NEW rx \in Seq(Byte), NEW type \in Byte,
         NEW a \in Seq(Inside), NEW b \in Seq(Inside), NEW c \in Seq(Inside),
         Found(rx, 0, AnswerOf3(type, a, b, c))
  PROVE  rx[1] = type /\ HasEnd(rx, 2) /\ InThree(Payload(rx, 2), a, b, c)
<1> DEFINE w == Joined(Joined(a, b), c)
<1>1. w \in Seq(Inside) /\ Found(rx, 0, AnswerOf(type, w))
  BY ThreeParts DEF AnswerOf3
<1> HIDE DEF w
<1>2. rx[1] = type /\ Payload(rx, 2) = w /\ HasEnd(rx, 2)
  BY <1>1, AnswerParts
<1>3. Payload(rx, 2) = Joined(Joined(a, b), c)
  BY <1>2 DEF w
<1> QED BY <1>2, <1>3, ThreeParts

(* The first byte of a string that is not empty is no NUL.                 *)
LEMMA FirstByte ==
  ASSUME NEW p \in Seq(Byte), NEW s \in Seq(Char), s # <<>>, Found(p, 0, Str(s))
  PROVE  p # <<>> /\ p[1] # NUL
<1>1. Len(s) \in Nat /\ Len(s) # 0 /\ 1 \in 1 .. Len(s)
  OBVIOUS
<1>2. 1 \in 1 .. Len(Str(s)) /\ Str(s)[1] = s[1] /\ s[1] # NUL
  BY <1>1, StrType
<1>3. p[0 + 1] = Str(s)[1] /\ 0 + Len(Str(s)) <= Len(p)
  BY <1>2 DEF Found
<1>4. Len(p) >= 1
  BY <1>1, <1>3, StrType
<1> QED BY <1>2, <1>3, <1>4

LEMMA ExitAnswerRead ==
  ASSUME NEW rx \in Seq(Byte), NEW m \in [type : {RC_EXIT}],
         Found(rx, 0, AnswerBytes(m))
  PROVE  ClientReads(rx) = m
<1>1. m.type = RC_EXIT /\ m = [type |-> RC_EXIT]
  OBVIOUS
<1>2. AnswerBytes(m) = <<RC_EXIT, CR>>
  BY <1>1, CodesAre DEF AnswerBytes, Codes
<1>3. rx[0 + 1] = RC_EXIT
  BY <1>2 DEF Found
<1> QED BY <1>1, <1>3 DEF ClientReads

LEMMA LogonAnswerRead ==
  ASSUME NEW rx \in Seq(Byte), NEW m \in LogonAnswer, Found(rx, 0, AnswerBytes(m))
  PROVE  GetLogonResult(rx) = m
<1>1. m.type = RC_LOGON /\ m.res \in {0, 1} /\ m = [type |-> RC_LOGON, res |-> m.res]
  BY DEF LogonAnswer
<1>2. AnswerBytes(m) = <<RC_LOGON, m.res, CR>>
  BY <1>1, CodesAre DEF AnswerBytes, Codes
<1>3. rx[0 + 1] = RC_LOGON /\ rx[0 + 2] = m.res
  BY <1>2 DEF Found
<1> QED BY <1>1, <1>3 DEF GetLogonResult

LEMMA RulAnswerRead ==
  ASSUME NEW rx \in Seq(Byte), NEW m \in [type : {RC_RUL}, name : Name \cup {<<>>}],
         Found(rx, 0, AnswerBytes(m))
  PROVE  ClientReads(rx) = IF m.name = <<>> THEN Ignored ELSE m
<1> DEFINE w == IF m.name = <<>> THEN <<>> ELSE Str(m.name)
<1>1. m.type = RC_RUL /\ m = [type |-> RC_RUL, name |-> m.name] /\ RC_RUL \in Byte
  BY CodesAre DEF Codes, Byte
<1>2. AnswerBytes(m) = AnswerOf(RC_RUL, w)
  BY <1>1, CodesAre DEF AnswerBytes, AnswerOf, Joined, Codes
<1>3. m.name # <<>> => m.name \in Seq(Char)
  BY Strings
<1>4. w \in Seq(Inside)
  BY <1>3, Strings, StrType
<1> HIDE DEF w
<1>5. rx[1] = RC_RUL /\ Payload(rx, 2) = w /\ HasEnd(rx, 2)
  BY <1>1, <1>2, <1>4, AnswerParts
<1>6. CASE m.name = <<>>
  <2>1. w = <<>>
    BY <1>6 DEF w
  <2> QED BY <1>5, <1>6, <2>1, CodesAre DEF ClientReads, Codes
<1>7. CASE m.name # <<>>
  <2>1. w = Str(m.name) /\ m.name \in Seq(Char) /\ w \in Seq(Byte)
    BY <1>3, <1>7, StrType DEF w
  <2>2. Found(w, 0, Str(m.name))
    BY <2>1, FoundWhole
  <2>3. w # <<>> /\ w[1] # NUL
    BY <1>7, <2>1, <2>2, FirstByte
  <2>4. CString(w, 1) = m.name
    BY <2>1, OneString
  <2>5. ClientReads(rx) = [type |-> RC_RUL, name |-> m.name]
    BY <1>5, <2>3, <2>4, CodesAre DEF ClientReads, Codes
  <2> QED BY <1>1, <1>7, <2>5
<1> QED BY <1>6, <1>7

LEMMA MsgAnswerRead ==
  ASSUME NEW rx \in Seq(Byte),
         NEW m \in [type : {RC_MSG}, room : Existing, name : Name, text : Text],
         Found(rx, 0, AnswerBytes(m))
  PROVE  ClientReads(rx) = m
<1> DEFINE a == Str(m.room)
           b == Str(m.name)
           c == Str(m.text)
           p == Payload(rx, 2)
<1>1. /\ m.type = RC_MSG /\ RC_MSG \in Byte
      /\ m = [type |-> RC_MSG, room |-> m.room, name |-> m.name, text |-> m.text]
  BY CodesAre DEF Codes, Byte
<1>2. /\ m.room \in Seq(Char) /\ m.room # <<>> /\ m.name \in Seq(Char)
      /\ m.text \in Seq(Char)
  BY Strings DEF Existing
<1>3. /\ a \in Seq(Inside) /\ b \in Seq(Inside) /\ c \in Seq(Inside)
      /\ a \in Seq(Byte) /\ b \in Seq(Byte) /\ c \in Seq(Byte)
      /\ Len(a) = Len(m.room) + 1 /\ Len(b) = Len(m.name) + 1
      /\ Len(m.room) \in Nat /\ Len(m.name) \in Nat
  BY <1>2, StrType
<1>4. AnswerBytes(m) = Joined(Joined(Joined(Joined(<<RC_MSG>>, a), b), c), <<CR>>)
  BY <1>1, CodesAre DEF AnswerBytes, Joined, Codes
<1> HIDE DEF a, b, c, p
<1>5. Found(rx, 0, AnswerOf3(RC_MSG, a, b, c))
  BY <1>1, <1>3, <1>4, AnswerOf3Is
<1>6. /\ rx[1] = RC_MSG /\ HasEnd(rx, 2)
      /\ p \in Seq(Byte)
      /\ Found(p, 0, a) /\ Found(p, Len(a), b) /\ Found(p, Len(a) + Len(b), c)
  <2>1. rx[1] = RC_MSG /\ HasEnd(rx, 2) /\ InThree(p, a, b, c)
    BY <1>1, <1>3, <1>5, AnswerOf3Parts DEF p
  <2> QED BY <2>1 DEF InThree
<1>7. p # <<>> /\ p[1] # NUL
  BY <1>2, <1>6, FirstByte DEF a
<1>8. CString(p, 0 + 1) = m.room /\ Behind(p, 0 + 1) = 0 + Len(m.room) + 2
  BY <1>2, <1>6, CStringIs DEF a
<1>9. /\ CString(p, (Len(m.room) + 1) + 1) = m.name
      /\ Behind(p, (Len(m.room) + 1) + 1) = (Len(m.room) + 1) + Len(m.name) + 2
  <2>1. Found(p, Len(m.room) + 1, Str(m.name)) /\ Len(m.room) + 1 \in Nat
    BY <1>3, <1>6 DEF b
  <2> QED BY <1>2, <1>6, <2>1, CStringIs
<1>10. CString(p, (Len(m.room) + Len(m.name) + 2) + 1) = m.text
  <2>1. Found(p, Len(m.room) + Len(m.name) + 2, Str(m.text))
    <3>1. Len(a) + Len(b) = Len(m.room) + Len(m.name) + 2
      BY <1>3
    <3> QED BY <1>6, <3>1 DEF c
  <2>2. Len(m.room) + Len(m.name) + 2 \in Nat
    BY <1>3
  <2> QED BY <1>2, <1>6, <2>1, <2>2, CStringIs
<1>11. /\ CString(p, 1) = m.room
       /\ CString(p, Behind(p, 1)) = m.name
       /\ CString(p, Behind(p, Behind(p, 1))) = m.text
  <2>1. Behind(p, 1) = (Len(m.room) + 1) + 1
    BY <1>3, <1>8
  <2>2. Behind(p, (Len(m.room) + 1) + 1) = (Len(m.room) + Len(m.name) + 2) + 1
    BY <1>3, <1>9
  <2> QED BY <1>8, <1>9, <1>10, <2>1, <2>2
<1>12. ClientReads(rx) = [type |-> RC_MSG, room |-> m.room, name |-> m.name, text |-> m.text]
  BY <1>6, <1>7, <1>11, CodesAre DEF ClientReads, Codes, p
<1> QED BY <1>1, <1>12

(* com_send_join_leave_result's message, its number a in a sequence.       *)
JoinLeaveOf(type, a, r, res) ==
  Joined(Joined(Joined(<<type>>, a), r), <<res, CR>>)

LEMMA JoinLeaveIs ==
  ASSUME NEW type \in Byte, NEW a \in Seq(Byte), NEW r \in Seq(Byte), NEW res \in Byte
  PROVE  JoinLeaveOf(type, a, r, res) = AnswerOf3(type, a, r, <<res>>)
<1> DEFINE b == Joined(Joined(<<type>>, a), r)
           c == <<res>>
           d == <<CR>>
<1>1. /\ <<type>> \in Seq(Byte) /\ c \in Seq(Byte) /\ d \in Seq(Byte)
      /\ <<res, CR>> = Joined(c, d)
  <2>1. <<res, CR>> = <<res>> \o <<CR>>
    OBVIOUS
  <2> QED BY <2>1 DEF Joined, CR, Byte
<1>2. b \in Seq(Byte)
  BY <1>1, JoinedType
<1> HIDE DEF b, c, d
<1>3. Joined(Joined(b, c), d) = Joined(b, Joined(c, d))
  BY <1>1, <1>2, JoinedAssociative
<1>4. JoinLeaveOf(type, a, r, res) = Joined(b, Joined(c, d))
  BY <1>1 DEF JoinLeaveOf, b
<1>5. AnswerOf3(type, a, r, c) = Joined(Joined(Joined(Joined(<<type>>, a), r), c), <<CR>>)
  BY <1>1, AnswerOf3Is
<1> QED BY <1>3, <1>4, <1>5 DEF b, c, d

LEMMA LeaveAnswerRead ==
  ASSUME NEW rx \in Seq(Byte),
         NEW m \in [type : {RC_LEAVE}, room : Room, res : {0, 1}],
         Found(rx, 0, AnswerBytes(m))
  PROVE  ClientReads(rx) = m
<1> DEFINE a == <<>>
           b == Str(m.room)
           c == <<m.res>>
           p == Payload(rx, 2)
<1>1. /\ m.type = RC_LEAVE /\ RC_LEAVE \in Byte /\ m.res \in Byte /\ m.res \in Inside
      /\ m = [type |-> RC_LEAVE, room |-> m.room, res |-> m.res]
  BY CodesAre DEF Codes, Byte, Inside, CR
<1>2. m.room \in Seq(Char) /\ m.room # <<>>
  <2>1. m.room \in Room
    OBVIOUS
  <2> QED BY <2>1, Strings, StringsAssumption
<1>3. /\ a \in Seq(Inside) /\ b \in Seq(Inside) /\ c \in Seq(Inside)
      /\ a \in Seq(Byte) /\ b \in Seq(Byte)
      /\ Len(a) = 0 /\ Len(b) = Len(m.room) + 1 /\ Len(m.room) \in Nat
  BY <1>1, <1>2, StrType
<1>4. AnswerBytes(m) = JoinLeaveOf(RC_LEAVE, a, b, m.res)
  <2>1. AnswerBytes(m) = JoinLeaveBytes(m)
    BY <1>1, CodesAre DEF AnswerBytes, Codes
  <2>2. JoinLeaveBytes(m) = JoinLeaveOf(RC_LEAVE, a, b, m.res)
    BY <1>1, CodesAre DEF JoinLeaveBytes, JoinLeaveOf, Joined, Codes
  <2> QED BY <2>1, <2>2
<1> HIDE DEF a, b, p
<1>5. Found(rx, 0, AnswerOf3(RC_LEAVE, a, b, c))
  BY <1>1, <1>3, <1>4, JoinLeaveIs
<1>6. /\ rx[1] = RC_LEAVE /\ HasEnd(rx, 2) /\ p \in Seq(Byte)
      /\ Found(p, 0, b) /\ Found(p, Len(b), c)
  <2>1. rx[1] = RC_LEAVE /\ HasEnd(rx, 2) /\ InThree(p, a, b, c)
    BY <1>1, <1>3, <1>5, AnswerOf3Parts DEF p
  <2>2. 0 + Len(b) = Len(b)
    BY <1>3
  <2> QED BY <1>3, <2>1, <2>2 DEF InThree
<1>7. Len(b) + 1 <= Len(p) /\ p[Len(b) + 1] = m.res
  <2>1. Len(b) \in Nat
    BY <1>3
  <2> QED BY <1>1, <1>6, <2>1, OneByte
<1>8. p # <<>> /\ p[1] # NUL
  BY <1>2, <1>6, FirstByte DEF b
<1>9. CString(p, 0 + 1) = m.room /\ Behind(p, 0 + 1) = 0 + Len(m.room) + 2
  BY <1>2, <1>6, CStringIs DEF b
<1>10. CString(p, 1) = m.room /\ p[Behind(p, 1)] = m.res
  BY <1>3, <1>7, <1>9
<1>11. ClientReads(rx) = [type |-> RC_LEAVE, room |-> m.room, res |-> m.res]
  BY <1>6, <1>8, <1>10, CodesAre DEF ClientReads, Codes, p
<1> QED BY <1>1, <1>11

LEMMA JoinAnswerRead ==
  ASSUME NEW rx \in Seq(Byte),
         NEW m \in [type : {RC_JOIN}, num : Nat, room : Room, res : {0, 1}],
         Found(rx, 0, AnswerBytes(m))
  PROVE  ClientReads(rx) = IF m.num \in {0, CR} THEN Ignored ELSE m
<1> DEFINE a == <<m.num>>
           b == Str(m.room)
           c == <<m.res>>
           p == Payload(rx, 2)
<1>1. /\ m.type = RC_JOIN /\ RC_JOIN \in Byte /\ m.num \in Byte
      /\ m.res \in Byte /\ m.res \in Inside
      /\ m = [type |-> RC_JOIN, num |-> m.num, room |-> m.room, res |-> m.res]
  BY CodesAre DEF Codes, Byte, Inside, CR
<1>2. m.room \in Seq(Char)
  BY Strings
<1>3. /\ b \in Seq(Inside) /\ c \in Seq(Inside) /\ a \in Seq(Byte) /\ b \in Seq(Byte)
      /\ c \in Seq(Byte)
      /\ Len(a) = 1 /\ a[1] = m.num /\ Len(b) = Len(m.room) + 1 /\ Len(m.room) \in Nat
  BY <1>1, <1>2, StrType
<1>4. AnswerBytes(m) = JoinLeaveOf(RC_JOIN, a, b, m.res)
  <2>1. AnswerBytes(m) = JoinLeaveBytes(m)
    BY <1>1, CodesAre DEF AnswerBytes, Codes
  <2>2. JoinLeaveBytes(m) = JoinLeaveOf(RC_JOIN, a, b, m.res)
    BY <1>1, CodesAre DEF JoinLeaveBytes, JoinLeaveOf, Joined, Codes
  <2> QED BY <2>1, <2>2
<1> HIDE DEF a, b, p
<1>5. Found(rx, 0, AnswerOf3(RC_JOIN, a, b, c))
  BY <1>1, <1>3, <1>4, JoinLeaveIs
<1>6. CASE m.num = CR
  <2>7. rx[1] = RC_JOIN /\ Found(rx, 1, a)
    BY <1>1, <1>3, <1>5, AnswerOf3Start
  <2>8. Found(rx, 1, <<m.num>>)
    BY <2>7 DEF a
  <2>9. 1 + 1 <= Len(rx) /\ rx[1 + 1] = CR
    BY <1>1, <1>6, <2>8, OneByte
  <2>10. Carried(rx, 1, <<>>)
    BY <2>9 DEF Carried, Found
  <2>11. Payload(rx, 1 + 1) = <<>> /\ HasEnd(rx, 1 + 1)
    BY <2>10, Strings, PayloadIs
  <2> QED BY <1>6, <2>7, <2>11, CodesAre DEF ClientReads, Codes
<1>7. CASE m.num # CR
  <2>1. a \in Seq(Inside)
    BY <1>1, <1>7 DEF Inside, Byte, a
  <2>2. /\ rx[1] = RC_JOIN /\ HasEnd(rx, 2) /\ p \in Seq(Byte)
        /\ Len(p) = 1 + Len(b) + Len(c)
        /\ Found(p, 0, a) /\ Found(p, 1, b) /\ Found(p, 1 + Len(b), c)
    <3>1. rx[1] = RC_JOIN /\ HasEnd(rx, 2) /\ InThree(p, a, b, c)
      BY <1>1, <1>3, <1>5, <2>1, AnswerOf3Parts DEF p
    <3> QED BY <1>3, <3>1 DEF InThree
  <2>3. 0 + 1 <= Len(p) /\ p[0 + 1] = m.num
    <3>1. Found(p, 0, <<m.num>>)
      BY <2>2 DEF a
    <3> QED BY <1>1, <2>2, <3>1, OneByte
  <2>4. p # <<>>
    BY <2>3
  <2>5. CASE m.num = 0
    BY <2>2, <2>3, <2>5, CodesAre DEF ClientReads, Codes, NUL, p
  <2>6. CASE m.num # 0
    <3>1. CString(p, 1 + 1) = m.room /\ Behind(p, 1 + 1) = 1 + Len(m.room) + 2
      BY <1>2, <2>2, CStringIs DEF b
    <3>2. p[(1 + Len(b)) + 1] = m.res
      <4>1. 1 + Len(b) \in Nat
        BY <1>3
      <4> QED BY <1>1, <2>2, <4>1, OneByte
    <3>3. CString(p, 2) = m.room /\ p[Behind(p, 2)] = m.res /\ p[1] = m.num /\ p[1] # NUL
      BY <1>3, <2>3, <2>6, <3>1, <3>2 DEF NUL
    <3>4. ClientReads(rx) = [type |-> RC_JOIN, num |-> m.num, room |-> m.room, res |-> m.res]
      BY <2>2, <2>4, <3>3, CodesAre DEF ClientReads, Codes, p
    <3> QED BY <1>1, <1>7, <2>6, <3>4
  <2> QED BY <2>5, <2>6
<1> QED BY <1>6, <1>7

IgnoredAnswer(m) ==
  \/ m.type = RC_RUL /\ m.name = <<>>
  \/ m.type = RC_JOIN /\ m.num \in {0, CR}

(* Every answer is one of the five kinds.                                  *)
LEMMA AnswerKinds ==
  ASSUME NEW m \in Answer
  PROVE  \/ m \in [type : {RC_EXIT}]
         \/ m \in [type : {RC_JOIN}, num : Nat, room : Room, res : {0, 1}]
         \/ m \in [type : {RC_LEAVE}, room : Room, res : {0, 1}]
         \/ m \in [type : {RC_MSG}, room : Existing, name : Name, text : Text]
         \/ m \in [type : {RC_RUL}, name : Name \cup {<<>>}]
<1>1. Existing \subseteq Room /\ EINVAL \in Nat /\ 1 .. UsrMax \subseteq Nat
  BY SizesAssumption DEF Existing
<1>2. CASE m \in [type : {RC_JOIN}, num : 1 .. UsrMax, room : Existing, res : {1}]
  BY <1>1, <1>2
<1>3. CASE m \in [type : {RC_JOIN}, num : {EINVAL}, room : Room \ Existing, res : {1}]
  BY <1>1, <1>3
<1>4. CASE m \in [type : {RC_JOIN}, num : {0}, room : Room, res : {0}]
  BY <1>4
<1>5. CASE m \in [type : {RC_LEAVE}, room : Existing, res : {1}]
  BY <1>1, <1>5
<1>6. CASE m \in [type : {RC_LEAVE}, room : Room, res : {0}]
  BY <1>6
<1> QED BY <1>2, <1>3, <1>4, <1>5, <1>6 DEF Answer

(* The client understands an answer, or ignores it.                        *)
LEMMA AnswerRead ==
  ASSUME NEW rx \in Seq(Byte), NEW m \in Answer, Found(rx, 0, AnswerBytes(m))
  PROVE  ClientReads(rx) = IF IgnoredAnswer(m) THEN Ignored ELSE m
<1>1. CASE m \in [type : {RC_EXIT}]
  <2>1. ~IgnoredAnswer(m)
    BY <1>1, CodesAre DEF IgnoredAnswer, Codes
  <2>2. ClientReads(rx) = m
    BY <1>1, ExitAnswerRead
  <2> QED BY <2>1, <2>2
<1>2. CASE m \in [type : {RC_JOIN}, num : Nat, room : Room, res : {0, 1}]
  <2>1. IgnoredAnswer(m) <=> m.num \in {0, CR}
    BY <1>2, CodesAre DEF IgnoredAnswer, Codes
  <2>2. ClientReads(rx) = IF m.num \in {0, CR} THEN Ignored ELSE m
    BY <1>2, JoinAnswerRead
  <2> QED BY <2>1, <2>2
<1>3. CASE m \in [type : {RC_LEAVE}, room : Room, res : {0, 1}]
  <2>1. ~IgnoredAnswer(m)
    BY <1>3, CodesAre DEF IgnoredAnswer, Codes
  <2>2. ClientReads(rx) = m
    BY <1>3, LeaveAnswerRead
  <2> QED BY <2>1, <2>2
<1>4. CASE m \in [type : {RC_MSG}, room : Existing, name : Name, text : Text]
  <2>1. ~IgnoredAnswer(m)
    BY <1>4, CodesAre DEF IgnoredAnswer, Codes
  <2>2. ClientReads(rx) = m
    BY <1>4, MsgAnswerRead
  <2> QED BY <2>1, <2>2
<1>5. CASE m \in [type : {RC_RUL}, name : Name \cup {<<>>}]
  <2>1. IgnoredAnswer(m) <=> m.name = <<>>
    BY <1>5, CodesAre DEF IgnoredAnswer, Codes
  <2>2. ClientReads(rx) = IF m.name = <<>> THEN Ignored ELSE m
    BY <1>5, RulAnswerRead
  <2> QED BY <2>1, <2>2
<1> QED BY <1>1, <1>2, <1>3, <1>4, <1>5, AnswerKinds

-----------------------------------------------------------------------------
(* Messages are bytes.                                                     *)

LEMMA StrIsBytes ==
  ASSUME NEW s, s \in Name \cup Room \cup Text \cup {<<>>}
  PROVE  Str(s) \in Seq(Byte)
<1>1. s \in Seq(Char)
  BY Strings
<1> QED BY <1>1, StrType

LEMMA OneIsBytes ==
  ASSUME NEW x \in Byte
  PROVE  <<x>> \in Seq(Byte)
OBVIOUS

LEMMA RequestBytesType ==
  ASSUME NEW m \in Request
  PROVE  RequestBytes(m) \in Seq(Byte)
<1>1. /\ m.name \in Name /\ m.type \in Byte
      /\ m.type \notin {RC_LOGON, RC_EXIT} => m.room \in Room \cup {<<>>}
      /\ m.type = RC_MSG => m.text \in Text
  BY CodesAre DEF Request, Codes, Byte
<1>2. Str(m.name) \in Seq(Byte) /\ <<m.type>> \in Seq(Byte) /\ <<>> \in Seq(Byte)
  BY <1>1, StrIsBytes, OneIsBytes
<1>3. Room0(m) \in Seq(Byte)
  BY <1>1, <1>2, StrIsBytes DEF Room0
<1>4. Text0(m) \in Seq(Byte)
  BY <1>1, <1>2, StrIsBytes DEF Text0
<1>5. CR \in Byte /\ <<CR>> \in Seq(Byte)
  BY DEF CR, Byte
<1> DEFINE a == Joined(Str(m.name), <<m.type>>)
           b == Joined(a, Room0(m))
           c == Joined(b, Text0(m))
<1>6. a \in Seq(Byte)
  BY <1>2, JoinedType
<1> HIDE DEF a
<1>7. b \in Seq(Byte)
  BY <1>3, <1>6, JoinedType
<1> HIDE DEF b
<1>8. c \in Seq(Byte)
  BY <1>4, <1>7, JoinedType
<1> HIDE DEF c
<1>9. Joined(c, <<CR>>) \in Seq(Byte)
  BY <1>5, <1>8, JoinedType
<1> QED BY <1>9, RequestBytesAre DEF RequestOf, a, b, c

LEMMA JoinLeaveBytesType ==
  ASSUME NEW type \in Byte, NEW a \in Seq(Byte), NEW r \in Seq(Byte), NEW res \in Byte
  PROVE  JoinLeaveOf(type, a, r, res) \in Seq(Byte)
<1> DEFINE t == <<type>>
           b == Joined(t, a)
           c == Joined(b, r)
           e == <<res, CR>>
<1>1. t \in Seq(Byte) /\ e \in Seq(Byte)
  BY DEF CR, Byte
<1> HIDE DEF t, e
<1>2. b \in Seq(Byte)
  BY <1>1, JoinedType
<1> HIDE DEF b
<1>3. c \in Seq(Byte)
  BY <1>2, JoinedType
<1> HIDE DEF c
<1>4. Joined(c, e) \in Seq(Byte)
  BY <1>1, <1>3, JoinedType
<1> QED BY <1>4 DEF JoinLeaveOf, t, b, c, e

LEMMA AnswerBytesType ==
  ASSUME NEW m \in Answer \cup LogonAnswer
  PROVE  AnswerBytes(m) \in Seq(Byte)
<1>0. CR \in Byte /\ <<CR>> \in Seq(Byte) /\ <<>> \in Seq(Byte)
  BY DEF CR, Byte
<1>1. CASE m \in LogonAnswer
  <2>1. m.type = RC_LOGON /\ m.res \in Byte /\ RC_LOGON \in Byte
    BY <1>1, CodesAre DEF LogonAnswer, Codes, Byte
  <2>2. AnswerBytes(m) = <<RC_LOGON, m.res, CR>>
    BY <2>1, CodesAre DEF AnswerBytes, Codes
  <2> QED BY <1>0, <2>1, <2>2
<1>2. CASE m \in [type : {RC_EXIT}]
  <2>1. m.type = RC_EXIT /\ RC_EXIT \in Byte
    BY <1>2, CodesAre DEF Codes, Byte
  <2>2. AnswerBytes(m) = <<RC_EXIT, CR>>
    BY <2>1, CodesAre DEF AnswerBytes, Codes
  <2> QED BY <1>0, <2>1, <2>2
<1>3. CASE m \in [type : {RC_JOIN}, num : Nat, room : Room, res : {0, 1}]
  <2>1. /\ m.type = RC_JOIN /\ RC_JOIN \in Byte /\ m.num \in Byte /\ m.res \in Byte
        /\ m.room \in Room
    BY <1>3, CodesAre DEF Codes, Byte
  <2>2. AnswerBytes(m) = JoinLeaveOf(RC_JOIN, <<m.num>>, Str(m.room), m.res)
    <3>1. AnswerBytes(m) = JoinLeaveBytes(m)
      BY <2>1, CodesAre DEF AnswerBytes, Codes
    <3>2. JoinLeaveBytes(m) = JoinLeaveOf(RC_JOIN, <<m.num>>, Str(m.room), m.res)
      BY <2>1, CodesAre DEF JoinLeaveBytes, JoinLeaveOf, Joined, Codes
    <3> QED BY <3>1, <3>2
  <2>3. Str(m.room) \in Seq(Byte) /\ <<m.num>> \in Seq(Byte)
    BY <2>1, StrIsBytes, OneIsBytes
  <2> QED BY <2>1, <2>2, <2>3, JoinLeaveBytesType
<1>4. CASE m \in [type : {RC_LEAVE}, room : Room, res : {0, 1}]
  <2>1. /\ m.type = RC_LEAVE /\ RC_LEAVE \in Byte /\ m.res \in Byte
        /\ m.room \in Room
    BY <1>4, CodesAre DEF Codes, Byte
  <2>2. AnswerBytes(m) = JoinLeaveOf(RC_LEAVE, <<>>, Str(m.room), m.res)
    <3>1. AnswerBytes(m) = JoinLeaveBytes(m)
      BY <2>1, CodesAre DEF AnswerBytes, Codes
    <3>2. JoinLeaveBytes(m) = JoinLeaveOf(RC_LEAVE, <<>>, Str(m.room), m.res)
      BY <2>1, CodesAre DEF JoinLeaveBytes, JoinLeaveOf, Joined, Codes
    <3> QED BY <3>1, <3>2
  <2>3. Str(m.room) \in Seq(Byte)
    BY <2>1, StrIsBytes
  <2> QED BY <1>0, <2>1, <2>2, <2>3, JoinLeaveBytesType
<1>5. CASE m \in [type : {RC_MSG}, room : Existing, name : Name, text : Text]
  <2>1. /\ m.type = RC_MSG /\ RC_MSG \in Byte
        /\ m.room \in Room /\ m.name \in Name /\ m.text \in Text
    BY <1>5, CodesAre DEF Codes, Byte, Existing
  <2> DEFINE t == <<RC_MSG>>
             b == Str(m.room)
             c == Str(m.name)
             d == Str(m.text)
             w == Joined(t, b)
             x == Joined(w, c)
             y == Joined(x, d)
  <2>2. t \in Seq(Byte) /\ b \in Seq(Byte) /\ c \in Seq(Byte) /\ d \in Seq(Byte)
    BY <2>1, StrIsBytes, OneIsBytes
  <2>3. AnswerBytes(m) = Joined(y, <<CR>>)
    BY <2>1, CodesAre DEF AnswerBytes, Joined, Codes
  <2> HIDE DEF t, b, c, d
  <2>4. w \in Seq(Byte)
    BY <2>2, JoinedType
  <2> HIDE DEF w
  <2>5. x \in Seq(Byte)
    BY <2>2, <2>4, JoinedType
  <2> HIDE DEF x
  <2>6. y \in Seq(Byte)
    BY <2>2, <2>5, JoinedType
  <2> HIDE DEF y
  <2> QED BY <1>0, <2>3, <2>6, JoinedType
<1>6. CASE m \in [type : {RC_RUL}, name : Name \cup {<<>>}]
  <2>1. m.type = RC_RUL /\ RC_RUL \in Byte /\ m.name \in Name \cup {<<>>}
    BY <1>6, CodesAre DEF Codes, Byte
  <2> DEFINE w == IF m.name = <<>> THEN <<>> ELSE Str(m.name)
             x == Joined(<<RC_RUL>>, w)
  <2>2. AnswerBytes(m) = Joined(x, <<CR>>)
    BY <2>1, CodesAre DEF AnswerBytes, Joined, Codes
  <2>3. w \in Seq(Byte) /\ <<RC_RUL>> \in Seq(Byte)
    BY <1>0, <2>1, StrIsBytes, OneIsBytes
  <2> HIDE DEF w
  <2>4. x \in Seq(Byte)
    BY <2>3, JoinedType
  <2> HIDE DEF x
  <2> QED BY <1>0, <2>2, <2>4, JoinedType
<1> QED BY <1>1, <1>2, <1>3, <1>4, <1>5, <1>6, AnswerKinds

LEMMA BytesType ==
  ASSUME NEW m \in Message, reader \in {"server", "client", "logon"}
  PROVE  Bytes(m) \in Seq(Byte) /\ Len(Bytes(m)) \in Nat /\ Len(Bytes(m)) <= IoBuff
<1>1. CASE reader = "server"
  <2>1. m \in Request /\ Bytes(m) = RequestBytes(m)
    BY <1>1 DEF Message, Bytes
  <2>2. Bytes(m) \in Seq(Byte)
    BY <2>1, RequestBytesType
  <2> QED BY <2>1, <2>2, BufferAssumption
<1>2. CASE reader # "server"
  <2>1. m \in Answer \cup LogonAnswer /\ Bytes(m) = AnswerBytes(m)
    BY <1>2 DEF Message, Bytes
  <2>2. Bytes(m) \in Seq(Byte)
    BY <2>1, AnswerBytesType
  <2> QED BY <2>1, <2>2, BufferAssumption
<1> QED BY <1>1, <1>2

-----------------------------------------------------------------------------
(* What has been sent and not wholly taken.                                *)

LEMMA StreamStep ==
  ASSUME TypeOK, NEW n \in Nat, n + 1 <= Len(waiting)
  PROVE  Stream(n + 1) = Joined(Stream(n), Bytes(waiting[n + 1]))
<1> DEFINE s == [k \in 1 .. n |-> Bytes(waiting[k])]
           u == [k \in 1 .. n + 1 |-> Bytes(waiting[k])]
<1>1. \A k \in 1 .. n + 1 : Bytes(waiting[k]) \in Seq(Byte)
  <2>1. SUFFICES ASSUME NEW k \in 1 .. n + 1 PROVE Bytes(waiting[k]) \in Seq(Byte)
    OBVIOUS
  <2>2. waiting[k] \in Message /\ reader \in {"server", "client", "logon"}
    BY DEF TypeOK
  <2> QED BY <2>2, BytesType
<1>2. s \in Seq(Seq(Byte)) /\ Len(s) = n
  BY <1>1
<1>3. u \in Seq(Seq(Byte)) /\ Len(u) = n + 1 /\ u[n + 1] = Bytes(waiting[n + 1])
  BY <1>1
<1>4. \A k \in 1 .. Len(s) : u[k] = s[k]
  BY <1>2
<1>5. Stream(n) = FlattenSeq(s) /\ Stream(n + 1) = FlattenSeq(u)
  BY DEF Stream
<1> HIDE DEF s, u
<1>6. FlattenSeq(u) = FlattenSeq(s) \o u[Len(s) + 1]
  BY <1>2, <1>3, <1>4, FlattenSeqStep
<1> QED BY <1>2, <1>3, <1>5, <1>6 DEF Joined

LEMMA StreamFirst ==
  Stream(0) = <<>> /\ Stream(0) \in Seq(Byte)
<1>1. [k \in 1 .. 0 |-> Bytes(waiting[k])] = <<>>
  OBVIOUS
<1>2. Stream(0) = <<>>
  BY <1>1 DEF Stream, FlattenSeq
<1>3. <<>> \in Seq(Byte)
  OBVIOUS
<1> QED BY <1>2, <1>3

(* A stream is bytes, and the first message is at its beginning.           *)
LEMMA StreamFacts ==
  ASSUME TypeOK
  PROVE  \A n \in Nat : n <= Len(waiting) =>
           /\ Stream(n) \in Seq(Byte)
           /\ n >= 1 => Found(Stream(n), 0, Bytes(waiting[1]))
<1> DEFINE P(n) == n <= Len(waiting) =>
                     /\ Stream(n) \in Seq(Byte)
                     /\ n >= 1 => Found(Stream(n), 0, Bytes(waiting[1]))
           X == {n \in Nat : P(n)}
<1>1. 0 \in X
  <2>1. Stream(0) \in Seq(Byte)
    BY StreamFirst
  <2>2. ~(0 >= 1)
    OBVIOUS
  <2> QED BY <2>1, <2>2
<1>2. ASSUME NEW n \in X PROVE n + 1 \in X
  <2>1. SUFFICES ASSUME n + 1 <= Len(waiting) PROVE P(n + 1)
    OBVIOUS
  <2>2. n \in Nat /\ n <= Len(waiting) /\ waiting \in Seq(Message) /\ Len(waiting) \in Nat
    BY <2>1 DEF TypeOK
  <2>3. Stream(n) \in Seq(Byte) /\ (n >= 1 => Found(Stream(n), 0, Bytes(waiting[1])))
    BY <2>2
  <2>4. Stream(n + 1) = Joined(Stream(n), Bytes(waiting[n + 1]))
    BY <2>1, <2>2, StreamStep
  <2> HIDE DEF X
  <2>5. Bytes(waiting[n + 1]) \in Seq(Byte) /\ Bytes(waiting[1]) \in Seq(Byte)
    <3>1. n + 1 \in 1 .. Len(waiting) /\ 1 \in 1 .. Len(waiting)
      BY <2>1, <2>2
    <3>2. waiting[n + 1] \in Message /\ waiting[1] \in Message
      BY <2>2, <3>1, ElementOfSeq
    <3>3. reader \in {"server", "client", "logon"}
      BY DEF TypeOK
    <3> QED BY <3>2, <3>3, BytesType
  <2>6. Stream(n + 1) \in Seq(Byte)
    BY <2>3, <2>4, <2>5, JoinedType
  <2>7. Found(Stream(n + 1), 0, Bytes(waiting[1]))
    <3>1. Found(Stream(n + 1), 0, Joined(Stream(n), Bytes(waiting[n + 1])))
      BY <2>4, <2>6, FoundWhole
    <3>2. /\ Found(Stream(n + 1), 0, Stream(n))
          /\ Found(Stream(n + 1), 0 + Len(Stream(n)), Bytes(waiting[n + 1]))
      BY <2>3, <2>5, <2>6, <3>1, FoundParts
    <3>3. CASE n = 0
      <4>1. Len(Stream(n)) = 0
        BY <3>3, StreamFirst
      <4> QED BY <3>2, <3>3, <4>1
    <3>4. CASE n # 0
      <4>1. n >= 1
        BY <2>2, <3>4
      <4>2. Found(Stream(n), 0, Bytes(waiting[1]))
        BY <2>3, <4>1
      <4> QED BY <2>3, <2>5, <2>6, <3>2, <4>2, FoundInFound
    <3> QED BY <3>3, <3>4
  <2> QED BY <2>6, <2>7
<1>3. X = Nat
  <2>1. X \in SUBSET Nat
    OBVIOUS
  <2> HIDE DEF X
  <2> QED BY <1>1, <1>2, <2>1, SetInduction
<1>4. \A n \in Nat : P(n)
  BY <1>3
<1> QED BY <1>4

(* Receiving: what is taken from the beginning of a message begins with    *)
(* the whole of it.                                                        *)
LEMMA MessageArrived ==
  ASSUME TypeOK, waiting # <<>>, taken = 0, NEW upto,
         upto = Min({taken + IoBuff, Len(Stream(Len(waiting)))}), NEW rx,
         rx = SubSeq(Stream(Len(waiting)), taken + 1, upto)
  PROVE  rx \in Seq(Byte) /\ Found(rx, 0, Bytes(Head(waiting)))
<1> DEFINE s == Stream(Len(waiting))
           b == Bytes(waiting[1])
<1>1. /\ Len(waiting) \in Nat /\ Len(waiting) >= 1 /\ waiting[1] \in Message
      /\ Head(waiting) = waiting[1] /\ reader \in {"server", "client", "logon"}
  <2>1. waiting \in Seq(Message) /\ waiting # <<>>
    BY DEF TypeOK
  <2> QED BY <2>1 DEF TypeOK
<1>2. s \in Seq(Byte) /\ Found(s, 0, b)
  BY <1>1, StreamFacts
<1>3. b \in Seq(Byte) /\ Len(b) \in Nat /\ Len(b) <= IoBuff
  BY <1>1, BytesType
<1> HIDE DEF s, b
<1>4. Len(s) \in Nat /\ Len(b) <= Len(s) /\ \A i \in 1 .. Len(b) : s[0 + i] = b[i]
  BY <1>2, <1>3 DEF Found
<1>5. upto \in Nat /\ Len(b) <= upto /\ upto <= Len(s)
  <2>1. taken + IoBuff \in Nat /\ taken + IoBuff = IoBuff
    BY SizesAssumption
  <2> DEFINE S == {taken + IoBuff, Len(s)}
  <2>2. S \in SUBSET Nat /\ S # {} /\ Len(s) \in S
    BY <1>4, <2>1
  <2>3. Min(S) \in S /\ Min(S) <= Len(s)
    BY <2>2, MinOfNats
  <2>4. upto = Min(S)
    BY DEF s
  <2> QED BY <1>3, <1>4, <2>1, <2>3, <2>4
<1>6. rx = SubSeq(s, 1, upto)
  BY DEF s
<1>7. rx \in Seq(Byte) /\ Found(rx, 0, b)
  BY <1>2, <1>3, <1>5, <1>6, FoundInPrefix
<1> QED BY <1>1, <1>7 DEF b

-----------------------------------------------------------------------------
(* The steps.                                                              *)

Understood(m) ==
  IF reader = "server"
  THEN IF m.type = RC_MSG /\ TooLong(m.room) THEN Ignored ELSE m
  ELSE IF IgnoredAnswer(m) THEN Ignored ELSE m

(* Whoever reads from the beginning of a message understands it.           *)
LEMMA ReadsUnderstood ==
  ASSUME NEW rx \in Seq(Byte), NEW m \in Message, reader \in {"server", "client", "logon"},
         taken = 0, Found(rx, 0, Bytes(m))
  PROVE  Reads(rx) = Understood(m)
<1>1. CASE reader = "server"
  <2>1. m \in Request /\ Bytes(m) = RequestBytes(m)
    BY <1>1 DEF Message, Bytes
  <2>2. ServerReads(rx) = IF m.type = RC_MSG /\ TooLong(m.room) THEN Ignored ELSE m
    BY <2>1, RequestRead
  <2>3. Reads(rx) = ServerReads(rx)
    BY <1>1 DEF Reads
  <2> QED BY <1>1, <2>2, <2>3 DEF Understood
<1>2. CASE reader = "client"
  <2>1. m \in Answer /\ Bytes(m) = AnswerBytes(m)
    BY <1>2 DEF Message, Bytes
  <2>2. ClientReads(rx) = IF IgnoredAnswer(m) THEN Ignored ELSE m
    BY <2>1, AnswerRead
  <2>3. Reads(rx) = ClientReads(rx)
    BY <1>2 DEF Reads
  <2> QED BY <1>2, <2>2, <2>3 DEF Understood
<1>3. CASE reader = "logon"
  <2>1. m \in LogonAnswer /\ Bytes(m) = AnswerBytes(m)
    BY <1>3 DEF Message, Bytes
  <2>2. GetLogonResult(rx) = m
    BY <2>1, LogonAnswerRead
  <2>3. ~IgnoredAnswer(m)
    BY <2>1, CodesAre DEF LogonAnswer, IgnoredAnswer, Codes
  <2>4. Reads(rx) = GetLogonResult(rx)
    BY <1>3 DEF Reads
  <2> QED BY <1>3, <2>2, <2>3, <2>4 DEF Understood
<1> QED BY <1>1, <1>2, <1>3

(* The inductive invariant: what was read is what was meant.               *)
WireInv ==
  /\ TypeOK
  /\ \/ read = Nothing
     \/ read = Garbled
     \/ due \in Message /\ read = Understood(due)

LEMMA InitWire ==
  Init => WireInv
<1> SUFFICES ASSUME Init PROVE WireInv
  OBVIOUS
<1>1. waiting \in Seq(Message) /\ taken \in 0 .. IoBuff
  BY SizesAssumption DEF Init
<1>2. TypeOK
  BY <1>1 DEF Init, TypeOK
<1> QED BY <1>2 DEF Init, WireInv

LEMMA SendKeepsWire ==
  ASSUME WireInv, NEW m \in Message, Send(m)
  PROVE  WireInv'
<1>1. Message' = Message
  BY DEF Send, Message
<1>2. waiting' \in Seq(Message')
  <2>1. waiting \in Seq(Message)
    BY DEF WireInv, TypeOK
  <2>2. waiting' = Append(waiting, m)
    BY DEF Send
  <2> QED BY <1>1, <2>1, <2>2
<1>3. TypeOK'
  <2>1. /\ read' = Nothing /\ due' = Nothing /\ taken' = taken /\ reader' = reader
    BY DEF Send
  <2> QED BY <1>2, <2>1 DEF WireInv, TypeOK
<1>4. read' = Nothing
  BY DEF Send
<1> QED BY <1>3, <1>4 DEF WireInv

(* How many messages are taken whole, and how much of the next one.        *)
LEMMA RestIsShort ==
  ASSUME TypeOK, waiting # <<>>, NEW upto, NEW whole,
         upto = Min({taken + IoBuff, Len(Stream(Len(waiting)))}),
         whole = Max({k \in 0 .. Len(waiting) : Len(Stream(k)) <= upto})
  PROVE  whole \in 0 .. Len(waiting) /\ upto - Len(Stream(whole)) \in 0 .. IoBuff
<1> DEFINE l == Len(waiting)
           K == {k \in 0 .. l : Len(Stream(k)) <= upto}
<1>1. l \in Nat /\ waiting \in Seq(Message) /\ taken \in Nat /\ IoBuff \in Nat
  BY SizesAssumption DEF TypeOK
<1>2. \A k \in 0 .. l : Stream(k) \in Seq(Byte) /\ Len(Stream(k)) \in Nat
  <2>1. SUFFICES ASSUME NEW k \in 0 .. l
                 PROVE  Stream(k) \in Seq(Byte) /\ Len(Stream(k)) \in Nat
    OBVIOUS
  <2>2. Stream(k) \in Seq(Byte)
    BY <1>1, StreamFacts
  <2> QED BY <2>2, LenProperties
<1>3. upto \in Nat /\ upto <= Len(Stream(l))
  <2> DEFINE S == {taken + IoBuff, Len(Stream(l))}
  <2>1. S \in SUBSET Nat /\ S # {} /\ Len(Stream(l)) \in S
    BY <1>1, <1>2
  <2>2. Min(S) \in S /\ Min(S) <= Len(Stream(l))
    BY <2>1, MinOfNats
  <2>3. upto = Min(S)
    OBVIOUS
  <2> HIDE DEF S
  <2> QED BY <2>1, <2>2, <2>3
<1>4. whole \in K /\ \A k \in K : k <= whole
  <2>1. 0 \in K
    <3>1. Len(Stream(0)) = 0
      BY StreamFirst
    <3> QED BY <1>1, <1>3, <3>1
  <2>2. K \in SUBSET (0 .. l) /\ K # {}
    BY <2>1
  <2>3. whole = Max(K)
    OBVIOUS
  <2> HIDE DEF K
  <2> QED BY <1>1, <2>2, <2>3, MaxOfNats
<1>5. whole \in 0 .. l /\ whole \in Nat /\ Len(Stream(whole)) <= upto
  BY <1>1, <1>4
<1>6. Len(Stream(whole)) \in Nat
  BY <1>2, <1>5
<1>7. CASE whole = l
  BY <1>3, <1>5, <1>6, <1>7, <1>1
<1>8. CASE whole # l
  <2>1. whole + 1 \in 0 .. l /\ whole + 1 <= Len(waiting) /\ whole + 1 \in 1 .. Len(waiting)
    BY <1>1, <1>5, <1>8
  <2>2. ~(Len(Stream(whole + 1)) <= upto)
    <3>1. ~(whole + 1 \in K)
      <4>1. ~(whole + 1 <= whole)
        BY <1>5
      <4> HIDE DEF K
      <4> QED BY <1>4, <4>1
    <3> QED BY <2>1, <3>1
  <2>3. /\ Bytes(waiting[whole + 1]) \in Seq(Byte)
        /\ Len(Bytes(waiting[whole + 1])) \in Nat
        /\ Len(Bytes(waiting[whole + 1])) <= IoBuff
    <3>1. waiting[whole + 1] \in Message /\ reader \in {"server", "client", "logon"}
      BY <1>1, <2>1, ElementOfSeq DEF TypeOK
    <3> QED BY <3>1, BytesType
  <2>4. Len(Stream(whole + 1)) = Len(Stream(whole)) + Len(Bytes(waiting[whole + 1]))
    <3>1. Stream(whole + 1) = Joined(Stream(whole), Bytes(waiting[whole + 1]))
      BY <1>5, <2>1, StreamStep
    <3>2. Stream(whole) \in Seq(Byte)
      BY <1>2, <1>5
    <3> QED BY <2>3, <3>1, <3>2, JoinedType
  <2> QED BY <1>1, <1>3, <1>5, <1>6, <2>2, <2>3, <2>4
<1> QED BY <1>5, <1>7, <1>8

LEMMA RecvKeepsWire ==
  ASSUME WireInv, Recv
  PROVE  WireInv'
<1> DEFINE stream == Stream(Len(waiting))
           upto   == Min({taken + IoBuff, Len(stream)})
           whole  == Max({k \in 0 .. Len(waiting) : Len(Stream(k)) <= upto})
           rx     == SubSeq(stream, taken + 1, upto)
<1>1. /\ waiting # <<>> /\ read' = Reads(rx)
      /\ waiting' = SubSeq(waiting, whole + 1, Len(waiting))
      /\ taken' = upto - Len(Stream(whole))
      /\ due' = Head(waiting) /\ reader' = reader
  BY DEF Recv
<1>2. TypeOK /\ waiting \in Seq(Message) /\ reader \in {"server", "client", "logon"}
  BY DEF WireInv, TypeOK
<1>3. Head(waiting) \in Message /\ Len(waiting) \in Nat
  BY <1>1, <1>2
<1>4. whole \in 0 .. Len(waiting) /\ upto - Len(Stream(whole)) \in 0 .. IoBuff
  BY <1>1, <1>2, RestIsShort
<1>5. taken = 0 => rx \in Seq(Byte) /\ Found(rx, 0, Bytes(Head(waiting)))
  BY <1>1, <1>2, MessageArrived
<1> HIDE DEF stream, upto, whole, rx
<1>6. read' = Garbled \/ read' = Understood(Head(waiting))
  <2>1. CASE taken # 0
    BY <1>1, <2>1 DEF Reads
  <2>2. CASE taken = 0
    BY <1>1, <1>2, <1>3, <1>5, <2>2, ReadsUnderstood
  <2> QED BY <2>1, <2>2
<1>7. Message' = Message
  BY <1>1 DEF Message
<1>8. due' \in Message' /\ (read' = Garbled \/ read' = Understood(due)')
  BY <1>1, <1>3, <1>6, <1>7 DEF Understood
<1>9. waiting' \in Seq(Message')
  <2>1. \A i \in whole + 1 .. Len(waiting) : waiting[i] \in Message
    BY <1>2, <1>3, <1>4, ElementOfSeq
  <2>2. SubSeq(waiting, whole + 1, Len(waiting)) \in Seq(Message)
    BY <1>3, <1>4, <2>1, SubSeqProperties
  <2> QED BY <1>1, <1>7, <2>2
<1>10. read' \in Message' \cup {Nothing, Ignored, Overrun, Garbled}
  BY <1>8 DEF Understood
<1>11. TypeOK'
  BY <1>1, <1>2, <1>4, <1>8, <1>9, <1>10 DEF TypeOK
<1> QED BY <1>8, <1>11 DEF WireInv

LEMMA StutterKeepsWire ==
  ASSUME WireInv, UNCHANGED vars
  PROVE  WireInv'
<1>1. /\ reader' = reader /\ waiting' = waiting /\ taken' = taken
      /\ read' = read /\ due' = due
  BY DEF vars
<1>2. Message' = Message
  BY <1>1 DEF Message
<1>3. TypeOK'
  BY <1>1, <1>2 DEF WireInv, TypeOK
<1> QED BY <1>1, <1>2, <1>3 DEF WireInv, Understood

(* What is read is what was meant, in every reachable state.               *)
LEMMA WireInvHolds == Spec => []WireInv
<1>1. WireInv /\ [Next]_vars => WireInv'
  BY SendKeepsWire, RecvKeepsWire, StutterKeepsWire DEF Next
<1> QED BY <1>1, InitWire, PTL DEF Spec

(* The type of the state: socket_receive never leaves more than a buffer's *)
(* length of a message taken, and what the parsers return is one of the    *)
(* outcomes the two properties below speak of.                             *)
THEOREM TypeCorrect == Spec => []TypeOK
<1>1. WireInv => TypeOK
  BY DEF WireInv
<1> QED BY <1>1, WireInvHolds, PTL

(* com_parse_cli_message and the handlers behind it find in every request  *)
(* that they read from its beginning what the client put in, for all names *)
(* of rooms and users and all texts, and whatever is behind it in the      *)
(* buffer.                                                                 *)
THEOREM ServerUnderstands == Spec => []RequestsUnderstood
<1>1. WireInv => RequestsUnderstood
  BY DEF WireInv, RequestsUnderstood, Understood
<1> QED BY <1>1, WireInvHolds, PTL

(* com_parse_server_msg, com_get_logon_result and irc_exec_client_response *)
(* find in every answer that they read from its beginning what the server  *)
(* put in, but for the two counts of an answer to RC_JOIN that end the     *)
(* payload early, 0 and CR; the end of a user listing does nothing.        *)
THEOREM ClientUnderstands == Spec => []AnswersUnderstood
<1>1. WireInv => AnswersUnderstood
  <2> SUFFICES ASSUME WireInv, reader # "server", read \notin {Nothing, Garbled},
                      due.type = RC_JOIN => due.num \notin {0, CR}
               PROVE  read = IF due.type = RC_RUL /\ due.name = <<>>
                             THEN Ignored ELSE due
    BY DEF AnswersUnderstood
  <2>1. read = IF IgnoredAnswer(due) THEN Ignored ELSE due
    BY DEF WireInv, Understood
  <2>2. IgnoredAnswer(due) <=> due.type = RC_RUL /\ due.name = <<>>
    BY DEF IgnoredAnswer
  <2> QED BY <2>1, <2>2
<1> QED BY <1>1, WireInvHolds, PTL
=============================================================================
