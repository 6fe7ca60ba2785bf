--------------------------- MODULE QueryEditorProofs ---------------------------
(* Proofs about QueryEditor, for any characters, statements and limits.     *)
EXTENDS QueryEditor, SequenceTheorems, WellFoundedInduction, TLAPS

-----------------------------------------------------------------------------
(* Least and greatest elements. *)

(* A nonempty set of natural numbers has a least element.                   *)
LEMMA LeastNatural ==
  ASSUME NEW T, T \subseteq Nat, T # {}
  PROVE  \E m \in T : \A n \in T : m <= n
<1> DEFINE R == {p \in Nat \X Nat : p[1] < p[2]}
<1>1. IsWellFoundedOn(R, Nat)
  BY NatLessThanWellFounded DEF OpToRel
<1>2. \A n, m \in Nat : n < m => <<n, m>> \in R
  OBVIOUS
<1> HIDE DEF R
<1>3. \E m \in T : \A n \in T : ~(<<n, m>> \in R)
  BY <1>1, WFMin
<1>4. PICK m \in T : \A n \in T : <<n, m>> \notin R
  BY <1>3
<1>5. \A n \in T : ~(n < m)
  BY <1>2, <1>4
<1>6. \A n \in T : m <= n
  BY <1>5
<1> QED
  BY <1>6

(* A set of numbers has a minimum.                                         *)
LEMMA MinType ==
  ASSUME NEW T, T \subseteq Nat, T # {}
  PROVE  Min(T) \in T /\ \A n \in T : Min(T) <= n
  BY LeastNatural DEF Min

(* A bounded set of numbers has a maximum.                                 *)
LEMMA MaxType ==
  ASSUME NEW n \in Nat, NEW T \in SUBSET (0 .. n), T # {}
  PROVE  Max(T) \in T
<1> DEFINE S == {n - x : x \in T}
<1>1. S \subseteq Nat /\ S # {}
  OBVIOUS
<1>2. PICK m \in S : \A y \in S : m <= y
  BY <1>1, LeastNatural
<1>3. PICK x \in T : m = n - x
  BY <1>2
<1>4. \A y \in T : y <= x
  <2> SUFFICES ASSUME NEW y \in T PROVE y <= x
    OBVIOUS
  <2>1. n - x <= n - y
    BY <1>2, <1>3
  <2> QED
    BY <2>1
<1>5. \E z \in T : \A y \in T : z >= y
  BY <1>4
<1> QED
  BY <1>5 DEF Max

-----------------------------------------------------------------------------
(* Texts: what cutting, joining and trimming them keeps. *)

(* Both ends of a text are boundaries, and a character begins at every     *)
(* other one.                                                              *)
LEMMA BoundaryType ==
  ASSUME NEW t \in Texts
  PROVE  /\ 0 \in Boundaries(t) /\ Len(t) \in Boundaries(t)
         /\ \A i \in Boundaries(t) : i \in 0 .. Len(t) /\ (i < Len(t) => t[i + 1] \in Leading)
<1>1. t \in Seq(Bytes) /\ Len(t) \in Nat
  BY DEF Texts
<1>2. 0 \in Boundaries(t) /\ Len(t) \in Boundaries(t)
  BY <1>1 DEF Boundaries, IsBoundary
<1>3. ASSUME NEW i \in Boundaries(t), i < Len(t) PROVE t[i + 1] \in Leading
  <2>1. CASE i = 0
    <3>1. t[1] \in Leading
      BY <1>1, <1>3, <2>1 DEF Texts
    <3> QED
      BY <2>1, <3>1
  <2>2. CASE i # 0
    BY <1>1, <1>3, <2>2 DEF Boundaries, IsBoundary
  <2> QED
    BY <2>1, <2>2
<1> QED
  BY <1>2, <1>3 DEF Boundaries

(* The bytes from one character's first to another's last are a text.       *)
LEMMA PieceType ==
  ASSUME NEW t \in Texts, NEW m \in 1 .. Len(t) + 1, NEW n \in 0 .. Len(t),
         m <= n => t[m] \in Leading
  PROVE  /\ SubSeq(t, m, n) \in Texts
         /\ Len(SubSeq(t, m, n)) = IF m <= n THEN n - m + 1 ELSE 0
         /\ \A i \in 1 .. n - m + 1 : SubSeq(t, m, n)[i] = t[m + i - 1]
<1> DEFINE p == SubSeq(t, m, n)
<1>1. t \in Seq(Bytes) /\ Len(t) \in Nat
  BY DEF Texts
<1>2. /\ p \in Seq(Bytes) /\ Len(p) = (IF m <= n THEN n - m + 1 ELSE 0)
      /\ \A i \in 1 .. n - m + 1 : p[i] = t[m + i - 1]
  BY <1>1, SubSeqProperties
<1>3. ASSUME NEW i \in DOMAIN p, i = 1 \/ p[i - 1] \in Space PROVE p[i] \in Leading
  <2>1. i \in 1 .. n - m + 1 /\ m <= n
    BY <1>2, <1>3
  <2> HIDE DEF p
  <2>2. CASE i = 1
    BY <1>2, <2>1, <2>2
  <2>3. CASE i # 1
    <3> DEFINE k == m + i - 1
    <3>1. i - 1 \in 1 .. n - m + 1 /\ k \in DOMAIN t /\ k - 1 = m + (i - 1) - 1
      <4>1. DOMAIN t = 1 .. Len(t) /\ m \in Nat /\ n \in Nat /\ n <= Len(t) /\ 1 <= m
        BY <1>1
      <4>2. i \in Nat /\ 1 < i /\ i <= n - m + 1
        BY <2>1, <2>3, <4>1
      <4>3. k \in 1 .. Len(t) /\ i - 1 \in 1 .. n - m + 1
        BY <1>1, <4>1, <4>2
      <4> QED
        BY <4>1, <4>2, <4>3
    <3>2. p[i - 1] = t[k - 1] /\ p[i] = t[k]
      <4>1. p[i - 1] = t[m + (i - 1) - 1]
        BY <1>2, <3>1
      <4> QED
        BY <1>2, <2>1, <3>1, <4>1
    <3> HIDE DEF k
    <3> QED
      BY <1>3, <2>3, <3>1, <3>2 DEF Texts
  <2> QED
    BY <2>2, <2>3
<1> QED
  BY <1>2, <1>3 DEF Texts

(* Two texts make a text, with a boundary between them.                     *)
LEMMA JoinType ==
  ASSUME NEW s \in Texts, NEW t \in Texts
  PROVE  /\ s \o t \in Texts /\ Len(s \o t) = Len(s) + Len(t)
         /\ Len(s) \in Boundaries(s \o t)
         /\ \A b \in Boundaries(s) : b \in Boundaries(s \o t)
<1> DEFINE j == s \o t
<1>1. s \in Seq(Bytes) /\ t \in Seq(Bytes) /\ Len(s) \in Nat /\ Len(t) \in Nat
  BY DEF Texts
<1>2. /\ j \in Seq(Bytes) /\ Len(j) = Len(s) + Len(t)
      /\ \A i \in 1 .. Len(s) : j[i] = s[i]
      /\ \A i \in Len(s) + 1 .. Len(s) + Len(t) : j[i] = t[i - Len(s)]
  BY <1>1
<1> HIDE DEF j
<1>3. t # <<>> => j[Len(s) + 1] \in Leading
  <2> SUFFICES ASSUME t # <<>> PROVE j[Len(s) + 1] \in Leading
    OBVIOUS
  <2>1. 1 \in DOMAIN t /\ Len(t) >= 1
    BY <1>1
  <2>2. t[1] \in Leading
    BY <2>1 DEF Texts
  <2>3. Len(s) + 1 \in Len(s) + 1 .. Len(s) + Len(t) /\ (Len(s) + 1) - Len(s) = 1
    BY <1>1, <2>1
  <2>4. j[Len(s) + 1] = t[(Len(s) + 1) - Len(s)]
    BY <1>2, <2>3
  <2> QED
    BY <2>2, <2>3, <2>4
<1>4. ASSUME NEW i \in DOMAIN j, i = 1 \/ j[i - 1] \in Space PROVE j[i] \in Leading
  <2>1. CASE i \in 1 .. Len(s)
    <3>1. i \in DOMAIN s /\ j[i] = s[i]
      BY <1>1, <1>2, <2>1
    <3>2. i # 1 => i - 1 \in 1 .. Len(s)
      BY <1>1, <2>1
    <3>3. i # 1 => j[i - 1] = s[i - 1]
      BY <1>2, <3>2
    <3> QED
      BY <1>4, <3>1, <3>3 DEF Texts
  <2>2. CASE i = Len(s) + 1
    BY <1>1, <1>2, <1>3, <1>4, <2>2
  <2>3. CASE i \in Len(s) + 2 .. Len(s) + Len(t)
    <3> DEFINE k == i - Len(s)
    <3>1. /\ k \in DOMAIN t /\ i # 1 /\ (i - 1) - Len(s) = k - 1
          /\ {i, i - 1} \subseteq Len(s) + 1 .. Len(s) + Len(t)
      BY <1>1, <2>3
    <3>2. j[i] = t[k] /\ j[i - 1] = t[k - 1]
      <4>1. j[i - 1] = t[(i - 1) - Len(s)]
        BY <1>2, <3>1
      <4> QED
        BY <1>2, <3>1, <4>1
    <3> HIDE DEF k
    <3> QED
      BY <1>4, <3>1, <3>2 DEF Texts
  <2> QED
    BY <1>1, <1>2, <2>1, <2>2, <2>3
<1>5. j \in Texts
  BY <1>2, <1>4 DEF Texts
<1>6. Len(s) \in Boundaries(j)
  <2>1. CASE t = <<>>
    BY <1>1, <1>2, <2>1 DEF Boundaries, IsBoundary
  <2>2. CASE t # <<>>
    BY <1>1, <1>2, <1>3, <2>2 DEF Boundaries, IsBoundary
  <2> QED
    BY <2>1, <2>2
<1>7. ASSUME NEW b \in Boundaries(s) PROVE b \in Boundaries(j)
  <2>1. b \in 0 .. Len(s) /\ (b < Len(s) => s[b + 1] \in Leading)
    BY BoundaryType
  <2>2. CASE b = Len(s)
    BY <1>6, <2>2
  <2>3. CASE b < Len(s)
    BY <1>1, <1>2, <2>1, <2>3 DEF Boundaries, IsBoundary
  <2> QED
    BY <1>1, <2>1, <2>2, <2>3
<1> QED
  BY <1>2, <1>5, <1>6, <1>7 DEF j

(* What is cut away at the start is whole characters: a trimmed text begins *)
(* after a blank, where another character begins.                           *)
LEMMA TrimType ==
  ASSUME NEW t \in Texts
  PROVE  Trim(t) \in Texts
<1> DEFINE solid == {i \in DOMAIN t : t[i] \notin Space}
           m == Min(solid)
           n == Max(solid)
<1>1. t \in Seq(Bytes) /\ Len(t) \in Nat /\ DOMAIN t = 1 .. Len(t)
  BY DEF Texts
<1>2. CASE solid = {}
  <2>1. Trim(t) = <<>>
    BY <1>2 DEF Trim
  <2> QED
    BY <2>1 DEF Texts
<1>3. CASE solid # {}
  <2>1. Trim(t) = SubSeq(t, m, n)
    BY <1>3 DEF Trim
  <2>2. solid \subseteq Nat /\ solid \in SUBSET (0 .. Len(t))
    BY <1>1
  <2>3. m \in solid /\ \A i \in solid : m <= i
    <3> HIDE DEF solid
    <3> QED
      BY <1>3, <2>2, MinType
  <2>4. n \in solid
    <3> HIDE DEF solid
    <3> QED
      BY <1>1, <1>3, <2>2, MaxType
  <2>5. m \in 1 .. Len(t) + 1 /\ n \in 0 .. Len(t) /\ m \in DOMAIN t
    BY <1>1, <2>3, <2>4
  <2>6. m # 1 => t[m - 1] \in Space
    <3> SUFFICES ASSUME m # 1, t[m - 1] \notin Space PROVE FALSE
      OBVIOUS
    <3> HIDE DEF m
    <3>1. m - 1 \in DOMAIN t /\ ~(m <= m - 1)
      BY <1>1, <2>5
    <3> QED
      BY <2>3, <3>1
  <2> HIDE DEF m, n, solid
  <2>7. t[m] \in Leading
    BY <2>5, <2>6 DEF Texts
  <2> QED
    BY <2>1, <2>5, <2>7, PieceType
<1> QED
  BY <1>2, <1>3

(* Recording a statement keeps the history within its cap.                 *)
LEMMA RecordedType ==
  ASSUME list \in Seq(Texts \ {<<>>}), Len(list) <= HistoryLimit, NEW sql \in Texts
  PROVE  Recorded(sql) \in Seq(Texts \ {<<>>}) /\ Len(Recorded(sql)) <= HistoryLimit
<1> DEFINE longer == Append(list, Trim(sql))
<1>1. CASE Trim(sql) = <<>> \/ (list # <<>> /\ Last(list) = Trim(sql))
  BY <1>1 DEF Recorded
<1>2. CASE ~(Trim(sql) = <<>> \/ (list # <<>> /\ Last(list) = Trim(sql)))
  <2>1. Trim(sql) \in Texts \ {<<>>} /\ HistoryLimit \in Nat \ {0}
    BY <1>2, TrimType, LimitsAssumption
  <2>2. longer \in Seq(Texts \ {<<>>}) /\ Len(longer) = Len(list) + 1 /\ longer # <<>>
    BY <2>1
  <2>3. Recorded(sql) = IF Len(longer) > HistoryLimit THEN Tail(longer) ELSE longer
    BY <1>2 DEF Recorded
  <2> HIDE DEF longer
  <2>4. Tail(longer) \in Seq(Texts \ {<<>>}) /\ Len(Tail(longer)) = Len(longer) - 1
    BY <2>2
  <2> QED
    BY <2>1, <2>2, <2>3, <2>4
<1> QED
  BY <1>1, <1>2

-----------------------------------------------------------------------------
(* Cursors. *)

(* The history, and the text with its cursor.                               *)
HistoryOK ==
  /\ {draft, inflight} \subseteq Texts \union {None}
  /\ list \in Seq(Texts \ {<<>>}) /\ Len(list) <= HistoryLimit
  /\ index \in 0 .. Len(list)
  /\ index # 0 => draft # None

TextOK ==
  /\ text \in Texts \union {None} /\ text # None
  /\ cursor \in 0 .. Len(text) /\ CursorOnBoundary

IInv == HistoryOK /\ TextOK

(* What the invariant is for.                                              *)
LEMMA InvariantMeans == IInv => TypeOK /\ CursorOnBoundary
  BY DEF IInv, TypeOK, HistoryOK, TextOK

(* The cursor needs no clamping.                                           *)
LEMMA CursorType ==
  ASSUME IInv
  PROVE  text \in Texts /\ cursor \in Boundaries(text) /\ Clamped = cursor
<1>1. text \in Texts /\ cursor \in 0 .. Len(text)
  BY DEF IInv, TextOK
<1>2. cursor \in Boundaries(text)
  BY <1>1 DEF IInv, TextOK, CursorOnBoundary, Boundaries
<1> DEFINE T == {i \in Boundaries(text) : i <= cursor}
<1>3. cursor \in T /\ \A i \in T : cursor >= i
  BY <1>1, <1>2
<1>4. T \subseteq Nat
  BY DEF Boundaries
<1>5. Max(T) = cursor
  <2>1. \A x \in T : (\A y \in T : x >= y) => x = cursor
    <3> HIDE DEF T
    <3> QED
      BY <1>3, <1>4
  <2> HIDE DEF T
  <2>2. Max(T) \in T /\ \A y \in T : Max(T) >= y
    BY <1>3 DEF Max
  <2> QED
    BY <2>1, <2>2
<1> QED
  BY <1>1, <1>2, <1>5 DEF Clamped

(* One character to the left is a boundary.                                *)
LEMMA PreviousType ==
  ASSUME text \in Texts, NEW i \in Boundaries(text)
  PROVE  PreviousBoundary(i) \in Boundaries(text) /\ PreviousBoundary(i) <= i
<1> DEFINE T == {j \in Boundaries(text) : j < i}
<1>1. Len(text) \in Nat /\ i \in 0 .. Len(text) /\ 0 \in Boundaries(text)
  BY BoundaryType DEF Texts
<1>2. CASE i = 0
  BY <1>2 DEF PreviousBoundary
<1>3. CASE i # 0
  <2>1. 0 \in T /\ T \in SUBSET (0 .. Len(text))
    BY <1>1, <1>3 DEF Boundaries
  <2>2. Max(T) \in T
    <3> HIDE DEF T
    <3> QED
      BY <1>1, <2>1, MaxType
  <2> QED
    BY <1>1, <1>3, <2>2 DEF PreviousBoundary, Boundaries
<1> QED
  BY <1>2, <1>3

(* One character to the right is a boundary.                               *)
LEMMA NextType ==
  ASSUME text \in Texts, NEW i \in Boundaries(text)
  PROVE  NextBoundary(i) \in Boundaries(text)
<1> DEFINE T == {j \in Boundaries(text) : j > i}
<1>1. /\ Len(text) \in Nat /\ i \in 0 .. Len(text)
      /\ Len(text) \in Boundaries(text)
  BY BoundaryType DEF Texts
<1>2. CASE i = Len(text)
  BY <1>2 DEF NextBoundary
<1>3. CASE i # Len(text)
  <2>1. Len(text) \in T /\ T \subseteq Nat
    BY <1>1, <1>3 DEF Boundaries
  <2>2. Min(T) \in T
    <3> HIDE DEF T
    <3> QED
      BY <2>1, MinType
  <2> QED
    BY <1>3, <2>2 DEF NextBoundary
<1> QED
  BY <1>2, <1>3

-----------------------------------------------------------------------------
(* The steps. *)

(* No text stands for the absence of one.                                  *)
LEMMA NotNone == None \notin Texts
<1> SUFFICES ASSUME None \in Texts PROVE FALSE
  OBVIOUS
<1>1. None[1] = "none" /\ 1 \in DOMAIN None
  BY DEF None
<1>2. None[1] \in Bytes
  BY <1>1 DEF Texts
<1> QED
  BY <1>1, <1>2, BytesAssumption

(* A text shown has the cursor at its end.                                  *)
LEMMA ShowStep ==
  ASSUME NEW t \in Texts, Show(t)
  PROVE  /\ text' \in Texts \union {None} /\ text' # None
         /\ cursor' \in 0 .. Len(text') /\ CursorOnBoundary'
<1>1. text' = t /\ cursor' = Len(t) /\ t \in Seq(Bytes) /\ Len(t) \in Nat
  BY DEF Show, Texts
<1>2. t # None
  BY NotNone
<1> QED
  BY <1>1, <1>2 DEF CursorOnBoundary, IsBoundary

(* A piece of the text and what follows it are put together again, with or  *)
(* without something new in between.                                        *)
LEMMA SpliceType ==
  ASSUME NEW t \in Texts, NEW a \in Boundaries(t), NEW b \in Boundaries(t), NEW m \in Texts
  PROVE  /\ SubSeq(t, 1, a) \o m \o SubSeq(t, b + 1, Len(t)) \in Texts
         /\ a + Len(m) \in Boundaries(SubSeq(t, 1, a) \o m \o SubSeq(t, b + 1, Len(t)))
         /\ SubSeq(t, 1, a) \o SubSeq(t, b + 1, Len(t)) \in Texts
         /\ a \in Boundaries(SubSeq(t, 1, a) \o SubSeq(t, b + 1, Len(t)))
<1>1. /\ a \in 0 .. Len(t) /\ b \in 0 .. Len(t) /\ Len(t) \in Nat /\ Len(m) \in Nat
      /\ b < Len(t) => t[b + 1] \in Leading
      /\ 0 < Len(t) => t[1] \in Leading
  BY BoundaryType DEF Texts
<1> DEFINE before == SubSeq(t, 1, a)
           after == SubSeq(t, b + 1, Len(t))
<1>2. before \in Texts /\ Len(before) = a
  <2>1. 1 \in 1 .. Len(t) + 1 /\ (1 <= a => t[1] \in Leading)
    BY <1>1
  <2>2. before \in Texts /\ Len(before) = IF 1 <= a THEN a - 1 + 1 ELSE 0
    BY <1>1, <2>1, PieceType
  <2> QED
    BY <1>1, <2>2
<1>3. after \in Texts
  <2>1. b + 1 \in 1 .. Len(t) + 1 /\ Len(t) \in 0 .. Len(t)
        /\ (b + 1 <= Len(t) => t[b + 1] \in Leading)
    BY <1>1
  <2> QED
    BY <2>1, PieceType
<1> HIDE DEF before, after
<1>4. before \o after \in Texts /\ a \in Boundaries(before \o after)
  BY <1>2, <1>3, JoinType
<1>5. before \o m \in Texts /\ Len(before \o m) = a + Len(m)
  BY <1>2, JoinType
<1>6. /\ (before \o m) \o after \in Texts
      /\ a + Len(m) \in Boundaries((before \o m) \o after)
  <2> DEFINE s == before \o m
  <2>1. s \in Texts /\ Len(s) = a + Len(m)
    BY <1>5
  <2> HIDE DEF s
  <2>2. s \o after \in Texts /\ Len(s) \in Boundaries(s \o after)
    BY <1>3, <2>1, JoinType
  <2> QED
    BY <2>1, <2>2 DEF s
<1> QED
  BY <1>4, <1>6 DEF before, after

(* The invariant holds in the empty editor.                                *)
LEMMA InitTyped == Init => IInv
<1> SUFFICES ASSUME Init PROVE IInv
  OBVIOUS
<1>1. text \in Texts /\ cursor = Len(text) /\ Len(text) \in Nat
  BY TextsAssumption DEF Init, Texts
<1>2. list \in Seq(Texts \ {<<>>}) /\ Len(list) = 0 /\ HistoryLimit \in Nat \ {0}
  BY LimitsAssumption DEF Init
<1>3. index = 0 /\ draft = None /\ inflight = None
  BY DEF Init
<1> QED
  BY <1>1, <1>2, <1>3, NotNone DEF IInv, HistoryOK, TextOK, CursorOnBoundary, IsBoundary

(* A text put into the editor has the cursor at its end.                   *)
LEMMA ShowKeepsText == ASSUME NEW t \in Texts, Show(t) PROVE TextOK'
  BY ShowStep DEF TextOK

(* Typing and erasing.                                                      *)
LEMMA EditStep ==
  ASSUME IInv, (\E t \in Typed \union Snippets : Insert(t)) \/ Backspace
  PROVE  IInv'
<1>1. text \in Texts /\ cursor \in Boundaries(text) /\ Clamped = cursor
  BY CursorType
<1>2. HistoryOK'
  <2>1. index' = 0 /\ UNCHANGED <<list, draft, inflight>>
    BY DEF Insert, Backspace
  <2> QED
    BY <2>1 DEF IInv, HistoryOK
<1>3. ASSUME NEW t \in Typed \union Snippets, Insert(t) PROVE TextOK'
  <2>1. t \in Texts
    BY TextsAssumption
  <2> DEFINE new == SubSeq(text, 1, cursor) \o t \o SubSeq(text, cursor + 1, Len(text))
             at == cursor + Len(t)
  <2>2. new \in Texts /\ at \in Boundaries(new)
    BY <1>1, <2>1, SpliceType
  <2>3. text' = new /\ cursor' = at
    BY <1>1, <1>3 DEF Insert
  <2> HIDE DEF new, at
  <2> QED
    BY <2>2, <2>3, NotNone DEF TextOK, CursorOnBoundary, Boundaries
<1>4. ASSUME Backspace PROVE TextOK'
  <2> DEFINE at == PreviousBoundary(cursor)
             new == SubSeq(text, 1, at) \o SubSeq(text, cursor + 1, Len(text))
  <2>1. at \in Boundaries(text)
    BY <1>1, PreviousType
  <2>2. text' = new /\ cursor' = at
    BY <1>1, <1>4 DEF Backspace
  <2>3. new \in Texts /\ at \in Boundaries(new)
    <3>1. <<>> \in Texts
      BY DEF Texts
    <3> HIDE DEF at
    <3> QED
      BY <1>1, <2>1, <3>1, SpliceType
  <2> HIDE DEF new, at
  <2> QED
    BY <2>2, <2>3, NotNone DEF TextOK, CursorOnBoundary, Boundaries
<1> QED
  BY <1>2, <1>3, <1>4 DEF IInv

(* Moving the cursor preserves the invariant.                              *)
LEMMA MoveStep == ASSUME IInv, Move PROVE IInv'
<1>1. text \in Texts /\ cursor \in Boundaries(text) /\ Clamped = cursor
  BY CursorType
<1>2. cursor' \in {PreviousBoundary(cursor), NextBoundary(cursor)}
      /\ UNCHANGED <<text, list, index, draft, inflight>>
  BY <1>1 DEF Move
<1>3. cursor' \in Boundaries(text)
  BY <1>1, <1>2, PreviousType, NextType
<1>4. TextOK'
  BY <1>1, <1>2, <1>3, NotNone DEF TextOK, CursorOnBoundary, Boundaries
<1>5. HistoryOK'
  BY <1>2 DEF IInv, HistoryOK
<1> QED
  BY <1>4, <1>5 DEF IInv

(* Up, Down, and leaving the history.                                       *)
LEMMA BrowseStep == ASSUME IInv, UsePrevious \/ UseNext \/ Return PROVE IInv'
<1>1. /\ list \in Seq(Texts \ {<<>>}) /\ Len(list) <= HistoryLimit
      /\ index \in 0 .. Len(list) /\ (index # 0 => draft # None) /\ Len(list) \in Nat
      /\ {draft, inflight} \subseteq Texts \union {None} /\ text \in Texts
  BY CursorType DEF IInv, HistoryOK
<1>2. CASE UsePrevious
  <2>1. index' \in 1 .. Len(list)
    <3>1. CASE index = 0
      BY <1>1, <1>2, <3>1 DEF UsePrevious
    <3>2. CASE index # 0
      <4>1. index - 1 \in Nat /\ 1 \in Nat /\ index' = Max({index - 1, 1})
        BY <1>1, <1>2, <3>2 DEF UsePrevious
      <4>2. Max({index - 1, 1}) \in {index - 1, 1}
        <5> DEFINE a == index - 1
                   b == 1
        <5>1. a \in Nat /\ b \in Nat
          BY <4>1
        <5> HIDE DEF a, b
        <5>2. \E x \in {a, b} : \A y \in {a, b} : x >= y
          BY <5>1
        <5>3. Max({a, b}) \in {a, b}
          BY <5>2 DEF Max
        <5> QED
          BY <5>3 DEF a, b
      <4>3. \A y \in {index - 1, 1} : Max({index - 1, 1}) >= y
        <5> DEFINE a == index - 1
                   b == 1
        <5>1. a \in Nat /\ b \in Nat
          BY <4>1
        <5> HIDE DEF a, b
        <5>2. \E x \in {a, b} : \A y \in {a, b} : x >= y
          BY <5>1
        <5>3. \A y \in {a, b} : Max({a, b}) >= y
          BY <5>2 DEF Max
        <5> QED
          BY <5>3 DEF a, b
      <4> QED
        BY <1>1, <3>2, <4>1, <4>2, <4>3
    <3> QED
      BY <3>1, <3>2
  <2>2. draft' \in Texts /\ UNCHANGED <<list, inflight>>
    BY <1>1, <1>2 DEF UsePrevious
  <2>3. TextOK'
    <3>1. list[index'] \in Texts /\ Show(list[index'])
      BY <1>1, <1>2, <2>1 DEF UsePrevious
    <3> QED
      BY <3>1, ShowKeepsText
  <2>4. HistoryOK'
    BY <1>1, <2>1, <2>2, NotNone DEF HistoryOK
  <2> QED
    BY <2>3, <2>4 DEF IInv
<1>3. CASE UseNext
  <2>1. index' = index + 1 /\ index + 1 \in 1 .. Len(list) /\ index # 0
        /\ UNCHANGED <<list, draft, inflight>> /\ Show(list[index + 1])
    BY <1>1, <1>3 DEF UseNext
  <2>2. TextOK'
    <3>1. list[index + 1] \in Texts
      BY <1>1, <2>1
    <3> QED
      BY <2>1, <3>1, ShowKeepsText
  <2>3. HistoryOK'
    BY <1>1, <2>1 DEF HistoryOK
  <2> QED
    BY <2>2, <2>3 DEF IInv
<1>4. CASE Return
  <2>1. Leave /\ UNCHANGED <<list, inflight>> /\ \E t \in {text, draft} : Show(t) /\ t \in Texts
    BY <1>1, <1>4 DEF Return
  <2>2. TextOK'
    BY <2>1, ShowKeepsText
  <2>3. HistoryOK'
    BY <1>1, <2>1 DEF HistoryOK, Leave
  <2> QED
    BY <2>2, <2>3 DEF IInv
<1> QED
  BY <1>2, <1>3, <1>4

(* A statement starts: it is recorded, shown and in flight.                 *)
LEMMA StartStep == ASSUME IInv, NEW sql \in Texts, Start(sql) PROVE IInv'
<1>1. TextOK'
  BY ShowKeepsText DEF Start
<1>2. Recorded(sql) \in Seq(Texts \ {<<>>}) /\ Len(Recorded(sql)) <= HistoryLimit
  BY RecordedType DEF IInv, HistoryOK
<1>3. list' = Recorded(sql) /\ index' = 0 /\ draft' = None /\ inflight' = sql
  BY DEF Start, Leave
<1>4. HistoryOK'
  <2> DEFINE l == Recorded(sql)
  <2>1. l \in Seq(Texts \ {<<>>}) /\ Len(l) <= HistoryLimit /\ list' = l
    BY <1>2, <1>3
  <2> HIDE DEF l
  <2>2. 0 \in 0 .. Len(l)
    BY <2>1
  <2> QED
    BY <1>3, <2>1, <2>2 DEF HistoryOK
<1> QED
  BY <1>1, <1>4 DEF IInv

(* Every step does.                                                        *)
LEMMA StepTyped == IInv /\ [Next]_vars => IInv'
<1> SUFFICES ASSUME IInv, [Next]_vars PROVE IInv'
  OBVIOUS
<1>1. /\ HistoryOK /\ text \in Texts /\ Generated \subseteq Texts
      /\ <<>> \in Texts /\ list \in Seq(Texts \ {<<>>})
  BY CursorType, TextsAssumption DEF IInv, HistoryOK, Texts
<1>2. CASE (\E t \in Typed \union Snippets : Insert(t)) \/ Backspace
  BY <1>2, EditStep
<1>3. CASE Move
  BY <1>3, MoveStep
<1>4. CASE Clear
  BY <1>1, <1>4, ShowKeepsText DEF IInv, Clear, Leave, HistoryOK
<1>5. CASE UsePrevious \/ UseNext \/ Return
  BY <1>5, BrowseStep
<1>6. CASE RunCurrentQuery
  BY <1>1, <1>6, TrimType, StartStep DEF RunCurrentQuery
<1>7. CASE RunAnother
  <2>1. PICK sql \in Generated \union ToSet(list) : Start(sql)
    BY <1>7 DEF RunAnother
  <2>2. sql \in Texts
    BY <1>1, <2>1 DEF ToSet
  <2> QED
    BY <2>1, <2>2, StartStep
<1>8. CASE Ask
  <2>1. PICK sql \in Generated \union {Trim(text)} : Show(sql)
    BY <1>8 DEF Ask
  <2>2. sql \in Texts
    BY <1>1, <2>1, TrimType
  <2>3. TextOK'
    BY <2>1, <2>2, ShowKeepsText
  <2>4. HistoryOK'
    BY <1>1, <1>8 DEF Ask, HistoryOK
  <2> QED
    BY <2>3, <2>4 DEF IInv
<1>9. CASE Retry
  <2>1. inflight \in Texts
    BY <1>1, <1>9 DEF Retry, HistoryOK
  <2>2. TextOK'
    BY <1>9, <2>1, ShowKeepsText DEF Retry
  <2>3. HistoryOK'
    BY <1>1, <1>9 DEF Retry, HistoryOK
  <2> QED
    BY <2>2, <2>3 DEF IInv
<1>10. CASE StatementEnds
  BY <1>10 DEF IInv, StatementEnds, HistoryOK, TextOK, CursorOnBoundary
<1>11. CASE ReplaceText
  <2>1. TextOK'
    BY <1>1, <1>11, ShowKeepsText DEF ReplaceText
  <2>2. HistoryOK'
    BY <1>1, <1>11 DEF ReplaceText, Leave, HistoryOK
  <2> QED
    BY <2>1, <2>2 DEF IInv
<1>12. CASE UNCHANGED vars
  BY <1>12 DEF IInv, vars, HistoryOK, TextOK, CursorOnBoundary
<1> QED
  BY <1>2, <1>3, <1>4, <1>5, <1>6, <1>7, <1>8, <1>9, <1>10, <1>11, <1>12 DEF Next

(* It holds throughout.                                                    *)
LEMMA Invariance == Spec => []IInv
  BY InitTyped, StepTyped, PTL DEF Spec

-----------------------------------------------------------------------------
(* Whatever is typed, recalled, retried or replaced, the history stays      *)
(* within its limit and an index held from browsing it stays inside it.     *)
THEOREM Typing == Spec => []TypeOK
  BY Invariance, InvariantMeans, PTL

(* No key and no other writer leaves the cursor inside a character.         *)
THEOREM CursorStaysOnBoundary == Spec => []CursorOnBoundary
  BY Invariance, InvariantMeans, PTL

=============================================================================
