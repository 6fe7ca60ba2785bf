---------------------------- MODULE AuditTrailProofs ----------------------------
(* Proofs about AuditTrail, for any retention policy and number of records. *)
EXTENDS Integers, AuditTrail, SequenceTheorems, WellFoundedInduction, TLAPS

-----------------------------------------------------------------------------
(* Natural numbers. *)

(* A nonempty set of natural numbers has a least element.                   *)
LEMMA LeastNatural ==
  ASSUME NEW T, T \subseteq Nat, T # {}
  PROVE  \E m \in T : \A n \in T : m <= n
<1> DEFINE R == {p \in Nat \X Nat : p[1] < p[2]}
<1>1. IsWellFoundedOn(R, Nat)
  BY NatLessThanWellFounded DEF OpToRel
<1>2. \A n, m \in Nat : n < m => <<n, m>> \in R
  OBVIOUS
<1> HIDE DEF R
<1>3. \E m \in T : \A n \in T : ~(<<n, m>> \in R)
  BY <1>1, WFMin
<1>4. PICK m \in T : \A n \in T : <<n, m>> \notin R
  BY <1>3
<1>5. \A n \in T : ~(n < m)
  BY <1>2, <1>4
<1>6. \A n \in T : m <= n
  BY <1>5
<1> QED
  BY <1>6

(* A set that holds 0 and every successor of its members holds them all.    *)
LEMMA InductionOnSet ==
  ASSUME NEW S, 0 \in S, \A n \in Nat : n \in S => n + 1 \in S
  PROVE  Nat \subseteq S
<1> SUFFICES ASSUME Nat \ S # {} PROVE FALSE
  OBVIOUS
<1>1. PICK m \in Nat \ S : \A n \in Nat \ S : m <= n
  BY LeastNatural
<1>2. m # 0
  OBVIOUS
<1>3. m - 1 \in Nat /\ m - 1 < m /\ (m - 1) + 1 = m
  BY <1>2
<1>4. m - 1 \in S
  BY <1>1, <1>3
<1> QED
  BY <1>1, <1>3, <1>4

-----------------------------------------------------------------------------
(* Flattening, by its partial results. *)

Sums(f, s) == f = [i \in 1 .. Len(s) |-> IF i = 1 THEN s[i] ELSE f[i - 1] \o s[i]]

(* Partial results exist for every list of sequences.                      *)
LEMMA SumsExist ==
  ASSUME NEW S, NEW s \in Seq(Seq(S))
  PROVE  \E f : Sums(f, s)
<1> DEFINE Part(g, n) ==
             g = [i \in 1 .. n |-> IF i = 1 THEN s[i] ELSE g[i - 1] \o s[i]]
           A == {n \in Nat : \E g : Part(g, n)}
<1>1. 0 \in A
  <2> DEFINE g == [i \in 1 .. 0 |-> <<>>]
  <2>1. Part(g, 0)
    OBVIOUS
  <2> QED
    BY <2>1
<1>2. ASSUME NEW n \in Nat, n \in A PROVE n + 1 \in A
  <2>1. PICK g : Part(g, n)
    BY <1>2
  <2> DEFINE h == [i \in 1 .. n + 1 |-> IF i <= n THEN g[i]
                                        ELSE IF i = 1 THEN s[i] ELSE g[i - 1] \o s[i]]
  <2>2. ASSUME NEW i \in 1 .. n + 1
        PROVE  h[i] = IF i = 1 THEN s[i] ELSE h[i - 1] \o s[i]
    <3>1. i # 1 => i - 1 \in 1 .. n /\ i - 1 \in 1 .. n + 1
      OBVIOUS
    <3>2. i # 1 => h[i - 1] = g[i - 1]
      BY <3>1
    <3>3. CASE i <= n
      <4>1. i \in 1 .. n /\ h[i] = g[i]
        BY <3>3
      <4> HIDE DEF h
      <4> QED
        BY <2>1, <3>2, <4>1
    <3>4. CASE ~(i <= n)
      <4>1. h[i] = IF i = 1 THEN s[i] ELSE g[i - 1] \o s[i]
        BY <3>4
      <4> HIDE DEF h
      <4> QED
        BY <3>2, <4>1
    <3> QED
      BY <3>3, <3>4
  <2>3. DOMAIN h = 1 .. n + 1 /\ h = [i \in 1 .. n + 1 |-> h[i]]
    OBVIOUS
  <2> HIDE DEF h
  <2>4. Part(h, n + 1)
    BY <2>2, <2>3
  <2> HIDE DEF Part
  <2>5. \E p : Part(p, n + 1)
    BY <2>4
  <2> QED
    BY <2>5
<1> HIDE DEF A
<1>3. Nat \subseteq A
  BY <1>1, <1>2, InductionOnSet
<1>4. Len(s) \in A
  BY <1>3
<1> QED
  BY <1>4 DEF A, Sums

(* FlattenSeq returns the last of them.                                    *)
LEMMA FlattenBySums ==
  ASSUME NEW S, NEW s \in Seq(Seq(S)), s # <<>>
  PROVE  \E f \in [1 .. Len(s) -> Seq(S)] : Sums(f, s) /\ FlattenSeq(s) = f[Len(s)]
<1> DEFINE f == CHOOSE f : f = [i \in 1 .. Len(s) |-> IF i = 1 THEN s[i] ELSE f[i - 1] \o s[i]]
<1>1. FlattenSeq(s) = f[Len(s)]
  <2>1. Len(s) # 0
    OBVIOUS
  <2> QED
    BY <2>1, Zenon DEF FlattenSeq
<1>2. f = [i \in 1 .. Len(s) |-> IF i = 1 THEN s[i] ELSE f[i - 1] \o s[i]]
  <2>1. \E h : h = [i \in 1 .. Len(s) |-> IF i = 1 THEN s[i] ELSE h[i - 1] \o s[i]]
    BY SumsExist DEF Sums
  <2> QED
    BY <2>1, Zenon
<1> HIDE DEF f
<1> DEFINE A == {n \in Nat : n \in 1 .. Len(s) => f[n] \in Seq(S)}
<1>3. 0 \in A
  OBVIOUS
<1>4. ASSUME NEW n \in Nat, n \in A PROVE n + 1 \in A
  <2> SUFFICES ASSUME n + 1 \in 1 .. Len(s) PROVE f[n + 1] \in Seq(S)
    OBVIOUS
  <2>1. s[n + 1] \in Seq(S)
    OBVIOUS
  <2>2. f[n + 1] = IF n + 1 = 1 THEN s[n + 1] ELSE f[(n + 1) - 1] \o s[n + 1]
    BY <1>2
  <2>3. CASE n = 0
    BY <2>1, <2>2, <2>3
  <2>4. CASE n # 0
    <3>1. n \in 1 .. Len(s) /\ f[n] \in Seq(S) /\ (n + 1) - 1 = n
      BY <1>4, <2>4
    <3> QED
      BY <2>1, <2>2, <2>4, <3>1
  <2> QED
    BY <2>3, <2>4
<1> HIDE DEF A
<1>5. Nat \subseteq A
  BY <1>3, <1>4, InductionOnSet
<1>6. \A n \in 1 .. Len(s) : f[n] \in Seq(S)
  BY <1>5 DEF A
<1>7. f \in [1 .. Len(s) -> Seq(S)]
  BY <1>2, <1>6
<1> QED
  BY <1>1, <1>2, <1>7 DEF Sums

(* The partial results, one at a time.                                      *)
SumsFrom(f, s) ==
  /\ s # <<>> => f[1] = s[1]
  /\ \A n \in Nat : n + 1 \in 2 .. Len(s) => f[n + 1] = f[n] \o s[n + 1]

LEMMA SumsStep ==
  ASSUME NEW S, NEW s \in Seq(Seq(S)), NEW f \in [1 .. Len(s) -> Seq(S)], Sums(f, s)
  PROVE  SumsFrom(f, s)
<1>1. \A i \in 1 .. Len(s) : f[i] = IF i = 1 THEN s[i] ELSE f[i - 1] \o s[i]
  BY DEF Sums
<1>2. s # <<>> => f[1] = s[1]
  <2> SUFFICES ASSUME s # <<>> PROVE f[1] = s[1]
    OBVIOUS
  <2>1. 1 \in 1 .. Len(s)
    OBVIOUS
  <2> QED
    BY <1>1, <2>1
<1>3. ASSUME NEW n \in Nat, n + 1 \in 2 .. Len(s) PROVE f[n + 1] = f[n] \o s[n + 1]
  <2>1. n + 1 \in 1 .. Len(s) /\ n + 1 # 1 /\ (n + 1) - 1 = n
    BY <1>3
  <2> QED
    BY <1>1, <2>1
<1> QED
  BY <1>2, <1>3 DEF SumsFrom

Cat(u, v) == u \o v

(* Concatenation is associative.                                           *)
LEMMA CatAssociative ==
  ASSUME NEW S, NEW a \in Seq(S), NEW b \in Seq(S), NEW c \in Seq(S)
  PROVE  Cat(Cat(a, b), c) = Cat(a, Cat(b, c))
BY ConcatAssociative DEF Cat

(* A flattened list has the elements of its members.                       *)
LEMMA FlattenType ==
  ASSUME NEW S, NEW s \in Seq(Seq(S))
  PROVE  FlattenSeq(s) \in Seq(S)
<1>1. CASE s = <<>>
  <2>1. FlattenSeq(s) = s
    BY <1>1 DEF FlattenSeq
  <2> QED
    BY <1>1, <2>1, EmptySeq
<1>2. CASE s # <<>>
  <2>1. PICK f \in [1 .. Len(s) -> Seq(S)] : FlattenSeq(s) = f[Len(s)]
    BY <1>2, FlattenBySums
  <2>2. Len(s) \in 1 .. Len(s)
    BY <1>2
  <2> DEFINE r == f[Len(s)]
  <2>3. r \in Seq(S)
    BY <2>1, <2>2
  <2>4. FlattenSeq(s) = r
    BY <2>1
  <2> HIDE DEF r
  <2> QED
    BY <2>3, <2>4, Zenon
<1> QED
  BY <1>1, <1>2

(* What is at the end of the list is at the end of the result.              *)
LEMMA FlattenAppend ==
  ASSUME NEW S, NEW s \in Seq(Seq(S)), NEW x \in Seq(S)
  PROVE  FlattenSeq(Append(s, x)) = FlattenSeq(s) \o x
<1> DEFINE t == Append(s, x)
<1>1. /\ t \in Seq(Seq(S)) /\ t # <<>> /\ Len(t) = Len(s) + 1 /\ t[Len(s) + 1] = x
      /\ \A i \in 1 .. Len(s) : t[i] = s[i]
  BY AppendProperties
<1> HIDE DEF t
<1>2. PICK h \in [1 .. Len(t) -> Seq(S)] : Sums(h, t) /\ FlattenSeq(t) = h[Len(t)]
  BY <1>1, FlattenBySums
<1>3. /\ h[1] = t[1]
      /\ \A n \in Nat : n + 1 \in 2 .. Len(t) => h[n + 1] = h[n] \o t[n + 1]
  <2>1. SumsFrom(h, t)
    BY <1>1, <1>2, SumsStep
  <2> QED
    BY <1>1, <2>1, Zenon DEF SumsFrom
<1>4. CASE s = <<>>
  <2>1. FlattenSeq(s) = <<>>
    BY <1>4 DEF FlattenSeq
  <2>2. FlattenSeq(t) = x
    BY <1>1, <1>2, <1>3, <1>4
  <2>3. <<>> \o x = x
    BY ConcatEmptySeq
  <2> QED
    BY <2>1, <2>2, <2>3 DEF t
<1>5. CASE s # <<>>
  <2>1. PICK f \in [1 .. Len(s) -> Seq(S)] : Sums(f, s) /\ FlattenSeq(s) = f[Len(s)]
    BY <1>5, FlattenBySums
  <2>2. /\ f[1] = s[1]
        /\ \A n \in Nat : n + 1 \in 2 .. Len(s) => f[n + 1] = f[n] \o s[n + 1]
    <3>1. SumsFrom(f, s)
      BY <1>5, <2>1, SumsStep
    <3> QED
      BY <1>5, <3>1, Zenon DEF SumsFrom
  <2> DEFINE A == {n \in Nat : n \in 1 .. Len(s) => h[n] = f[n]}
  <2>3. 0 \in A
    OBVIOUS
  <2>4. ASSUME NEW n \in Nat, n \in A PROVE n + 1 \in A
    <3> SUFFICES ASSUME n + 1 \in 1 .. Len(s) PROVE h[n + 1] = f[n + 1]
      OBVIOUS
    <3>1. CASE n = 0
      BY <1>1, <1>3, <2>2, <3>1
    <3>2. CASE n # 0
      <4>1. n \in 1 .. Len(s) /\ h[n] = f[n] /\ n + 1 \in 2 .. Len(s) /\ n + 1 \in 2 .. Len(t)
            /\ t[n + 1] = s[n + 1]
        BY <1>1, <2>4, <3>2
      <4> QED
        BY <1>3, <2>2, <4>1
    <3> QED
      BY <3>1, <3>2
  <2> HIDE DEF A
  <2>5. Nat \subseteq A
    BY <2>3, <2>4, InductionOnSet
  <2>6. h[Len(s)] = f[Len(s)]
    <3>1. Len(s) \in 1 .. Len(s) /\ Len(s) \in Nat
      BY <1>5
    <3>2. Len(s) \in A
      BY <2>5, <3>1
    <3> QED
      BY <3>1, <3>2 DEF A
  <2>7. h[Len(s) + 1] = h[Len(s)] \o t[Len(s) + 1]
    <3>1. Len(s) \in Nat /\ Len(s) + 1 \in 2 .. Len(t)
      BY <1>1, <1>5
    <3> QED
      BY <1>3, <3>1
  <2> QED
    BY <1>1, <1>2, <2>1, <2>6, <2>7 DEF t
<1> QED
  BY <1>4, <1>5

(* Emptying the first piece removes it from the front of the result.        *)
LEMMA FlattenWithoutFirst ==
  ASSUME NEW S, NEW s \in Seq(Seq(S)), NEW t \in Seq(Seq(S)),
         s # <<>>, Len(t) = Len(s), t[1] = <<>>, \A i \in 2 .. Len(s) : t[i] = s[i]
  PROVE  FlattenSeq(s) = s[1] \o FlattenSeq(t)
<1>1. t # <<>> /\ s # <<>> /\ Len(s) \in Nat \ {0} /\ s[1] \in Seq(S)
  OBVIOUS
<1>2. PICK g \in [1 .. Len(s) -> Seq(S)] : Sums(g, s) /\ FlattenSeq(s) = g[Len(s)]
  BY FlattenBySums
<1>3. PICK h \in [1 .. Len(t) -> Seq(S)] : Sums(h, t) /\ FlattenSeq(t) = h[Len(t)]
  BY <1>1, FlattenBySums
<1>4. /\ g[1] = s[1]
      /\ \A n \in Nat : n + 1 \in 2 .. Len(s) => g[n + 1] = g[n] \o s[n + 1]
  <2>1. SumsFrom(g, s)
    BY <1>2, SumsStep
  <2>2. s # <<>>
    BY <1>1
  <2> QED
    BY <2>1, <2>2, Zenon DEF SumsFrom
<1>5. /\ h[1] = <<>>
      /\ \A n \in Nat : n + 1 \in 2 .. Len(s) => h[n + 1] = h[n] \o s[n + 1]
  <2>1. /\ h[1] = t[1]
        /\ \A n \in Nat : n + 1 \in 2 .. Len(t) => h[n + 1] = h[n] \o t[n + 1]
    <3>1. SumsFrom(h, t)
      BY <1>1, <1>3, SumsStep
    <3> QED
      BY <1>1, <3>1, Zenon DEF SumsFrom
  <2> QED
    BY <2>1
<1> DEFINE P(n) == n \in 1 .. Len(s) => g[n] = s[1] \o h[n]
           A == {n \in Nat : P(n)}
<1>6. P(0)
  OBVIOUS
<1>7. ASSUME NEW n \in Nat, P(n) PROVE P(n + 1)
  <2> SUFFICES ASSUME n + 1 \in 1 .. Len(s) PROVE g[n + 1] = s[1] \o h[n + 1]
    OBVIOUS
  <2>1. CASE n = 0
    <3>1. s[1] \o <<>> = s[1]
      BY <1>1, ConcatEmptySeq
    <3>2. h[n + 1] = <<>> /\ g[n + 1] = s[1]
      BY <1>4, <1>5, <2>1
    <3> QED
      BY <3>1, <3>2, Zenon
  <2>2. CASE n # 0
    <3>1. n \in 1 .. Len(s) /\ n + 1 \in 2 .. Len(s)
      BY <1>1, <2>2
    <3>2. g[n] = s[1] \o h[n]
      BY <1>7, <3>1
    <3>3. h[n] \in Seq(S) /\ s[n + 1] \in Seq(S)
      <4>1. n \in 1 .. Len(t) /\ n + 1 \in 1 .. Len(s)
        BY <3>1
      <4> QED
        BY <4>1
    <3>4. g[n + 1] = g[n] \o s[n + 1] /\ h[n + 1] = h[n] \o s[n + 1]
      BY <1>4, <1>5, <3>1
    <3> DEFINE a == s[1]
               b == h[n]
               c == s[n + 1]
               ab == g[n]
               bc == h[n + 1]
               abc == g[n + 1]
    <3>5. /\ a \in Seq(S) /\ b \in Seq(S) /\ c \in Seq(S)
          /\ ab = Cat(a, b) /\ bc = Cat(b, c) /\ abc = Cat(ab, c)
      BY <1>1, <3>2, <3>3, <3>4 DEF Cat
    <3> HIDE DEF a, b, c, ab, bc, abc
    <3>6. Cat(Cat(a, b), c) = Cat(a, Cat(b, c))
      BY <3>5, CatAssociative
    <3>7. abc = Cat(a, bc)
      BY <3>5, <3>6
    <3> QED
      BY <3>7 DEF a, bc, abc, Cat
  <2> QED
    BY <2>1, <2>2
<1> HIDE DEF P
<1>8. Nat \subseteq A
  <2>1. 0 \in A /\ \A n \in Nat : n \in A => n + 1 \in A
    BY <1>6, <1>7
  <2> HIDE DEF A
  <2> QED
    BY <2>1, InductionOnSet
<1>9. P(Len(s)) /\ Len(s) \in 1 .. Len(s)
  BY <1>1, <1>8
<1> QED
  BY <1>2, <1>3, <1>9 DEF P

(* Moving a piece to the place before it, when that one is empty, changes   *)
(* nothing.                                                                 *)
LEMMA FlattenMoved ==
  ASSUME NEW S, NEW s \in Seq(Seq(S)), NEW t \in Seq(Seq(S)), Len(t) = Len(s),
         NEW j \in 1 .. Len(s) - 1, s[j] = <<>>, t[j] = s[j + 1], t[j + 1] = <<>>,
         \A i \in 1 .. Len(s) : i # j /\ i # j + 1 => t[i] = s[i]
  PROVE  FlattenSeq(t) = FlattenSeq(s)
<1>1. t # <<>> /\ s # <<>> /\ Len(s) \in Nat \ {0} /\ j \in 1 .. Len(s) /\ j + 1 \in 1 .. Len(s)
  OBVIOUS
<1>2. PICK g \in [1 .. Len(s) -> Seq(S)] : Sums(g, s) /\ FlattenSeq(s) = g[Len(s)]
  BY <1>1, FlattenBySums
<1>3. PICK h \in [1 .. Len(t) -> Seq(S)] : Sums(h, t) /\ FlattenSeq(t) = h[Len(t)]
  BY <1>1, FlattenBySums
<1>4. /\ g[1] = s[1]
      /\ \A n \in Nat : n + 1 \in 2 .. Len(s) => g[n + 1] = g[n] \o s[n + 1]
  <2>1. SumsFrom(g, s)
    BY <1>1, <1>2, SumsStep
  <2>2. s # <<>>
    BY <1>1
  <2> QED
    BY <2>1, <2>2, Zenon DEF SumsFrom
<1>5. /\ h[1] = t[1]
      /\ \A n \in Nat : n + 1 \in 2 .. Len(s) => h[n + 1] = h[n] \o t[n + 1]
  <2>1. /\ h[1] = t[1]
        /\ \A n \in Nat : n + 1 \in 2 .. Len(t) => h[n + 1] = h[n] \o t[n + 1]
    <3>1. SumsFrom(h, t)
      BY <1>1, <1>3, SumsStep
    <3> QED
      BY <1>1, <3>1, Zenon DEF SumsFrom
  <2> QED
    BY <2>1
<1>6. \A n \in 1 .. Len(s) : g[n] \in Seq(S) /\ h[n] \in Seq(S) /\ s[n] \in Seq(S)
  <2>1. \A n \in 1 .. Len(s) : s[n] \in Seq(S)
    BY ElementOfSeq
  <2>2. \A n \in 1 .. Len(s) : g[n] \in Seq(S)
    BY <1>2
  <2>3. h \in [1 .. Len(s) -> Seq(S)]
    BY <1>3
  <2> HIDE DEF Sums
  <2>4. \A n \in 1 .. Len(s) : h[n] \in Seq(S)
    BY <2>3
  <2> QED
    BY <2>1, <2>2, <2>4
<1>7. \A q \in Seq(S) : q \o <<>> = q /\ <<>> \o q = q
  BY ConcatEmptySeq
<1> DEFINE P(n) == \A i \in 1 .. Len(s) : i <= n /\ i # j => g[i] = h[i]
           A == {n \in Nat : P(n)}
<1>8. P(0)
  OBVIOUS
<1>9. ASSUME NEW n \in Nat, P(n) PROVE P(n + 1)
  <2> SUFFICES ASSUME n + 1 \in 1 .. Len(s), n + 1 # j PROVE g[n + 1] = h[n + 1]
    <3>1. \A i \in 1 .. Len(s) : i <= n /\ i # j => g[i] = h[i]
      BY <1>9
    <3>2. \A i \in 1 .. Len(s) : i <= n + 1 => i <= n \/ i = n + 1
      OBVIOUS
    <3> QED
      BY <3>1, <3>2
  <2>1. CASE n = 0
    <3>1. 1 \in 1 .. Len(s) /\ 1 # j /\ 1 # j + 1
      BY <1>1, <2>1
    <3>2. t[1] = s[1]
      BY <3>1
    <3> QED
      BY <1>4, <1>5, <2>1, <3>2
  <2>2. CASE n = j
    <3>1. n + 1 \in 2 .. Len(s) /\ n \in 1 .. Len(s)
      BY <1>1, <2>2
    <3>2. g[j + 1] = g[j] \o s[j + 1] /\ h[j + 1] = h[j] \o <<>>
      BY <1>4, <1>5, <2>2, <3>1
    <3>3. h[j + 1] = h[j]
      BY <1>1, <1>6, <1>7, <3>2
    <3>4. CASE j = 1
      <4>1. g[j] = <<>> /\ h[j] = s[j + 1]
        BY <1>4, <1>5, <3>4
      <4>2. <<>> \o s[j + 1] = s[j + 1]
        BY <1>1, <1>6, <1>7
      <4>3. g[j + 1] = s[j + 1]
        BY <3>2, <4>1, <4>2, Zenon
      <4> QED
        BY <2>2, <3>3, <4>1, <4>3
    <3>5. CASE j # 1
      <4> DEFINE m == j - 1
      <4>1. m \in Nat /\ m \in 1 .. Len(s) /\ m + 1 \in 2 .. Len(s) /\ m + 1 = j /\ m <= n /\ m # j
        BY <1>1, <2>2, <3>5
      <4> HIDE DEF m
      <4>2. g[m] = h[m]
        BY <1>9, <4>1
      <4>3. g[m + 1] = g[m] \o s[m + 1] /\ h[m + 1] = h[m] \o t[m + 1]
        BY <1>4, <1>5, <4>1
      <4>4. g[m] \o <<>> = g[m]
        BY <1>6, <1>7, <4>1
      <4>5. g[j] = g[m] \o <<>> /\ h[j] = h[m] \o s[j + 1]
        BY <4>1, <4>3
      <4>6. g[j] = h[m]
        BY <4>2, <4>4, <4>5, Zenon
      <4>7. g[j + 1] = h[m] \o s[j + 1]
        BY <3>2, <4>6, Zenon
      <4> QED
        BY <2>2, <3>3, <4>5, <4>7, Zenon
    <3> QED
      BY <3>4, <3>5
  <2>3. CASE n # 0 /\ n # j
    <3>1. /\ n \in 1 .. Len(s) /\ n <= n /\ n + 1 \in 2 .. Len(s)
          /\ n + 1 # j /\ n + 1 # j + 1
      BY <1>1, <2>3
    <3>2. g[n] = h[n] /\ t[n + 1] = s[n + 1]
      BY <1>9, <2>3, <3>1
    <3>3. g[n + 1] = g[n] \o s[n + 1] /\ h[n + 1] = h[n] \o t[n + 1]
      BY <1>4, <1>5, <3>1
    <3> QED
      BY <3>2, <3>3, Zenon
  <2> QED
    BY <2>1, <2>2, <2>3
<1> HIDE DEF P
<1>10. Nat \subseteq A
  <2>1. 0 \in A
    BY <1>8
  <2>2. ASSUME NEW n \in Nat, n \in A PROVE n + 1 \in A
    BY <1>9, <2>2
  <2> HIDE DEF A
  <2> QED
    BY <2>1, <2>2, InductionOnSet
<1>11. P(Len(s))
  BY <1>1, <1>10
<1>12. Len(s) \in 1 .. Len(s) /\ Len(s) <= Len(s)
  BY <1>1
<1>13. CASE Len(s) # j
  BY <1>2, <1>3, <1>11, <1>12, <1>13 DEF P
<1> QED
  BY <1>1, <1>13

-----------------------------------------------------------------------------
(* What a file reads as, by what its beginnings do. *)

Blank == [kept |-> <<>>, line |-> <<>>]

ReadState(S) == [kept : Seq(S), line : Seq(S)]

Reads(f, b) ==
  f = [i \in 0 .. Len(b) |-> IF i = 0 THEN Blank ELSE ReadByte(f[i - 1], b[i])]

(* A byte of a text goes to the open line.                                  *)
LEMMA ReadTextByte ==
  ASSUME NEW S, NEW s \in ReadState(S), NEW x \in S, x # Newline
  PROVE  ReadByte(s, x) = [kept |-> s.kept, line |-> Append(s.line, x)]
<1>1. ReadByte(s, x) = [s EXCEPT !.line = Append(s.line, x)]
  BY DEF ReadByte
<1>2. s = [kept |-> s.kept, line |-> s.line]
  BY DEF ReadState
<1> QED
  BY <1>1, <1>2

(* A newline closes it.                                                    *)
LEMMA ReadNewline ==
  ASSUME NEW s
  PROVE  ReadByte(s, Newline) =
           [kept |-> IF IsText(s.line) THEN Append(s.kept, s.line[1]) ELSE s.kept,
            line |-> <<>>]
BY DEF ReadByte

(* Either way the records and the line keep their type.                    *)
LEMMA ReadByteType ==
  ASSUME NEW S, NEW s \in ReadState(S), NEW x \in S \union {Newline}
  PROVE  ReadByte(s, x) \in ReadState(S)
<1> DEFINE u == s.kept
           v == s.line
<1>1. u \in Seq(S) /\ v \in Seq(S)
  BY DEF ReadState
<1>2. CASE x # Newline
  <2>1. ReadByte(s, x) = [kept |-> u, line |-> Append(v, x)]
    BY <1>2, ReadTextByte
  <2>2. x \in S
    BY <1>2
  <2> HIDE DEF u, v
  <2>3. Append(v, x) \in Seq(S)
    BY <1>1, <2>2, AppendProperties
  <2> QED
    BY <1>1, <2>1, <2>3 DEF ReadState
<1>3. CASE x = Newline
  <2> DEFINE w == IF IsText(v) THEN Append(u, v[1]) ELSE u
  <2>1. ReadByte(s, x) = [kept |-> w, line |-> <<>>]
    BY <1>3, ReadNewline
  <2> HIDE DEF u, v
  <2>2. w \in Seq(S)
    <3>1. CASE IsText(v)
      <4>1. v \in Seq(S) /\ Len(v) = 2
        BY <1>1, <3>1 DEF IsText
      <4>2. 1 \in 1 .. Len(v)
        BY <4>1
      <4>3. v[1] \in S
        BY <4>1, <4>2, ElementOfSeq
      <4>4. Append(u, v[1]) \in Seq(S)
        BY <1>1, <4>3, AppendProperties
      <4> QED
        BY <3>1, <4>4
    <3>2. CASE ~IsText(v)
      BY <1>1, <3>2
    <3> QED
      BY <3>1, <3>2
  <2> HIDE DEF w
  <2> QED
    BY <2>1, <2>2, EmptySeq DEF ReadState
<1> QED
  BY <1>2, <1>3

(* The readings of the beginnings of a file exist.                         *)
LEMMA ReadsExist ==
  ASSUME NEW S, NEW b \in Seq(S)
  PROVE  \E f : Reads(f, b)
<1> DEFINE Part(g, n) ==
             g = [i \in 0 .. n |-> IF i = 0 THEN Blank ELSE ReadByte(g[i - 1], b[i])]
           A == {n \in Nat : \E g : Part(g, n)}
<1>1. 0 \in A
  <2> DEFINE g == [i \in 0 .. 0 |-> Blank]
  <2>1. Part(g, 0)
    OBVIOUS
  <2> QED
    BY <2>1
<1>2. ASSUME NEW n \in Nat, n \in A PROVE n + 1 \in A
  <2>1. PICK g : Part(g, n)
    BY <1>2
  <2> DEFINE last == ReadByte(g[n], b[n + 1])
             h == [i \in 0 .. n + 1 |-> IF i <= n THEN g[i] ELSE last]
  <2>2. ASSUME NEW i \in 0 .. n + 1
        PROVE  h[i] = IF i = 0 THEN Blank ELSE ReadByte(h[i - 1], b[i])
    <3>1. i # 0 => i - 1 \in 0 .. n /\ i - 1 \in 0 .. n + 1
      OBVIOUS
    <3>2. i # 0 => h[i - 1] = g[i - 1]
      BY <3>1
    <3>3. CASE i <= n
      <4>1. i \in 0 .. n /\ h[i] = g[i]
        BY <3>3
      <4> HIDE DEF h
      <4> QED
        BY <2>1, <3>2, <4>1
    <3>4. CASE ~(i <= n)
      <4>1. i = n + 1 /\ i - 1 = n /\ i # 0 /\ h[i] = last
        BY <3>4
      <4> HIDE DEF h
      <4> QED
        BY <3>2, <4>1
    <3> QED
      BY <3>3, <3>4
  <2>3. DOMAIN h = 0 .. n + 1 /\ h = [i \in 0 .. n + 1 |-> h[i]]
    OBVIOUS
  <2> HIDE DEF h
  <2>4. Part(h, n + 1)
    BY <2>2, <2>3
  <2> HIDE DEF Part
  <2>5. \E p : Part(p, n + 1)
    BY <2>4
  <2> QED
    BY <2>5
<1> HIDE DEF A
<1>3. Nat \subseteq A
  BY <1>1, <1>2, InductionOnSet
<1>4. Len(b) \in A
  BY <1>3
<1> QED
  BY <1>4 DEF A, Reads

(* Read returns that of the whole file.                                    *)
LEMMA ReadByReads ==
  ASSUME NEW S, NEW b \in Seq(S \union {Newline})
  PROVE  \E f \in [0 .. Len(b) -> ReadState(S)] : Reads(f, b) /\ Read(b) = f[Len(b)]
<1> DEFINE f == CHOOSE f : f = [i \in 0 .. Len(b) |->
                                  IF i = 0 THEN [kept |-> <<>>, line |-> <<>>]
                                  ELSE ReadByte(f[i - 1], b[i])]
<1>1. Read(b) = f[Len(b)]
  BY Zenon DEF Read
<1>2. f = [i \in 0 .. Len(b) |-> IF i = 0 THEN Blank ELSE ReadByte(f[i - 1], b[i])]
  <2>1. \E h : h = [i \in 0 .. Len(b) |-> IF i = 0 THEN [kept |-> <<>>, line |-> <<>>]
                                          ELSE ReadByte(h[i - 1], b[i])]
    BY ReadsExist DEF Reads, Blank
  <2> QED
    BY <2>1, Zenon DEF Blank
<1> HIDE DEF f
<1> DEFINE A == {n \in Nat : n \in 0 .. Len(b) => f[n] \in ReadState(S)}
<1>3. 0 \in A
  <2>1. f[0] = Blank
    BY <1>2
  <2>2. Blank \in ReadState(S)
    BY EmptySeq DEF Blank, ReadState
  <2> QED
    BY <2>1, <2>2
<1>4. ASSUME NEW n \in Nat, n \in A PROVE n + 1 \in A
  <2> SUFFICES ASSUME n + 1 \in 0 .. Len(b) PROVE f[n + 1] \in ReadState(S)
    OBVIOUS
  <2>1. n \in 0 .. Len(b) /\ (n + 1) - 1 = n /\ n + 1 # 0
    OBVIOUS
  <2>2. f[n] \in ReadState(S)
    BY <1>4, <2>1
  <2>3. f[n + 1] = ReadByte(f[n], b[n + 1])
    BY <1>2, <2>1
  <2>4. b[n + 1] \in S \union {Newline}
    BY <2>1
  <2> QED
    BY <2>2, <2>3, <2>4, ReadByteType
<1> HIDE DEF A
<1>5. Nat \subseteq A
  BY <1>3, <1>4, InductionOnSet
<1>6. \A n \in 0 .. Len(b) : f[n] \in ReadState(S)
  BY <1>5 DEF A
<1>7. f \in [0 .. Len(b) -> ReadState(S)]
  BY <1>2, <1>6
<1> QED
  BY <1>1, <1>2, <1>7 DEF Reads

(* A reading goes on by one byte at a time.                                *)
LEMMA ReadsStep ==
  ASSUME NEW S, NEW b \in Seq(S), NEW f, Reads(f, b)
  PROVE  /\ f[0] = Blank
         /\ \A n \in Nat : n + 1 \in 1 .. Len(b) => f[n + 1] = ReadByte(f[n], b[n + 1])
<1>1. \A i \in 0 .. Len(b) : f[i] = IF i = 0 THEN Blank ELSE ReadByte(f[i - 1], b[i])
  BY DEF Reads
<1>2. f[0] = Blank
  <2>1. 0 \in 0 .. Len(b)
    OBVIOUS
  <2> QED
    BY <1>1, <2>1
<1>3. ASSUME NEW n \in Nat, n + 1 \in 1 .. Len(b)
      PROVE  f[n + 1] = ReadByte(f[n], b[n + 1])
  <2>1. n + 1 \in 0 .. Len(b) /\ n + 1 # 0 /\ (n + 1) - 1 = n
    BY <1>3
  <2> QED
    BY <1>1, <2>1
<1> QED
  BY <1>2, <1>3

(* A file reads as sequences of the texts' bytes.                          *)
LEMMA ReadType ==
  ASSUME NEW S, NEW b \in Seq(S \union {Newline})
  PROVE  Read(b) \in ReadState(S)
<1>1. PICK f \in [0 .. Len(b) -> ReadState(S)] : Reads(f, b) /\ Read(b) = f[Len(b)]
  BY ReadByReads
<1>2. Len(b) \in 0 .. Len(b)
  OBVIOUS
<1> QED
  BY <1>1, <1>2

(* An empty file holds no record and no line.                              *)
LEMMA ReadEmpty == Read(<<>>) = Blank
<1> DEFINE b == <<>>
<1>1. b \in Seq({} \union {Newline}) /\ Len(b) = 0
  BY EmptySeq
<1> HIDE DEF b
<1>2. PICK f \in [0 .. Len(b) -> ReadState({})] : Reads(f, b) /\ Read(b) = f[Len(b)]
  BY <1>1, ReadByReads
<1>3. f[0] = Blank
  BY <1>1, <1>2 DEF Reads
<1>4. Read(b) = Blank
  BY <1>1, <1>2, <1>3
<1> QED
  BY <1>4 DEF b

(* What is written to a file is read after what it held.                   *)
LEMMA ReadAppend ==
  ASSUME NEW S, NEW b \in Seq(S \union {Newline}), NEW x \in S \union {Newline}
  PROVE  Read(Append(b, x)) = ReadByte(Read(b), x)
<1> DEFINE c == Append(b, x)
<1>1. /\ c \in Seq(S \union {Newline}) /\ Len(c) = Len(b) + 1 /\ c[Len(b) + 1] = x
      /\ \A i \in 1 .. Len(b) : c[i] = b[i]
  BY AppendProperties
<1> HIDE DEF c
<1>2. PICK f \in [0 .. Len(b) -> ReadState(S)] : Reads(f, b) /\ Read(b) = f[Len(b)]
  BY ReadByReads
<1>3. PICK g \in [0 .. Len(c) -> ReadState(S)] : Reads(g, c) /\ Read(c) = g[Len(c)]
  BY <1>1, ReadByReads
<1>4. /\ f[0] = Blank
      /\ \A n \in Nat : n + 1 \in 1 .. Len(b) => f[n + 1] = ReadByte(f[n], b[n + 1])
  BY <1>2, ReadsStep
<1>5. /\ g[0] = Blank
      /\ \A n \in Nat : n + 1 \in 1 .. Len(c) => g[n + 1] = ReadByte(g[n], c[n + 1])
  BY <1>1, <1>3, ReadsStep
<1> DEFINE A == {n \in Nat : n \in 0 .. Len(b) => g[n] = f[n]}
<1>6. 0 \in A
  BY <1>4, <1>5
<1>7. ASSUME NEW n \in Nat, n \in A PROVE n + 1 \in A
  <2> SUFFICES ASSUME n + 1 \in 0 .. Len(b) PROVE g[n + 1] = f[n + 1]
    OBVIOUS
  <2>1. n \in 0 .. Len(b) /\ n + 1 \in 1 .. Len(b) /\ n + 1 \in 1 .. Len(c)
    BY <1>1
  <2>2. g[n] = f[n] /\ c[n + 1] = b[n + 1]
    BY <1>1, <1>7, <2>1
  <2>3. f[n + 1] = ReadByte(f[n], b[n + 1]) /\ g[n + 1] = ReadByte(g[n], c[n + 1])
    BY <1>4, <1>5, <2>1
  <2> QED
    BY <2>2, <2>3, Zenon
<1> HIDE DEF A
<1>8. Nat \subseteq A
  BY <1>6, <1>7, InductionOnSet
<1>9. Len(b) \in Nat /\ Len(b) \in 0 .. Len(b) /\ Len(b) + 1 \in 1 .. Len(c)
  BY <1>1
<1>10. Len(b) \in A
  BY <1>8, <1>9
<1>11. g[Len(b)] = Read(b)
  BY <1>2, <1>9, <1>10 DEF A
<1>12. g[Len(b) + 1] = ReadByte(g[Len(b)], c[Len(b) + 1])
  BY <1>5, <1>9
<1>13. Read(c) = g[Len(b) + 1]
  BY <1>1, <1>3
<1>14. Read(c) = ReadByte(Read(b), x)
  BY <1>1, <1>11, <1>12, <1>13, Zenon
<1> QED
  BY <1>14, Zenon DEF c

-----------------------------------------------------------------------------
USE MaxBytesAssumption, MaxArchivesAssumption, MaxRecordsAssumption

-----------------------------------------------------------------------------
(* The calls of an append, in their order. *)
Rotating == {"purge", "shift"}
Writing  == {"text", "rest", "newline"}

(* Names stand for different files, none of which is still to be created.   *)
NamesDistinct ==
  /\ \A n \in Names : name[n] <= created
  /\ \A n, m \in Names : n # m /\ name[n] # Absent => name[n] # name[m]

(* An append creates at most one file, and writes to the one that is called *)
(* audit.ndjson.                                                            *)
OneFileEach ==
  /\ created <= made
  /\ pc \in Rotating \union {"open"} => created < made
  /\ pc \in Writing => handle = name[0] /\ handle # Absent
  /\ \A f \in Files : f > created => data[f] = <<>>

(* While the archives are renamed, the next rename finds its new name free. *)
RenamesOntoFree == pc = "shift" => name[index + 1] = Absent

IInv == TypeOK /\ NamesDistinct /\ OneFileEach /\ RenamesOntoFree

(* The invariant holds before the first append.                            *)
LEMMA IInvInit == Init => IInv
<1> SUFFICES ASSUME Init PROVE IInv
  OBVIOUS
<1>1. data \in [Files -> Seq(0 .. MaxRecords)]
  BY EmptySeq DEF Init
<1>2. TypeOK
  <2>1. name \in [Names -> Files \union {Absent}] /\ handle \in Files \union {Absent}
    BY DEF Init
  <2>2. faulty \in BOOLEAN
    BY DEF Init
  <2>3. made \in 0 .. MaxRecords /\ created \in 0 .. MaxRecords /\ record \in 0 .. MaxRecords
        /\ index \in 0 .. MaxArchives - 1 /\ acked \in 0 .. MaxRecords
    BY DEF Init
  <2> QED
    BY <1>1, <2>1, <2>2, <2>3 DEF Init, TypeOK
<1>3. NamesDistinct /\ OneFileEach /\ RenamesOntoFree
  BY DEF Init, NamesDistinct, OneFileEach, RenamesOntoFree, Rotating, Writing, Absent
<1> QED
  BY <1>2, <1>3 DEF IInv

(* Every call preserves it, and so do failures and restarts.               *)
LEMMA IInvStep == IInv /\ [Next]_vars => IInv'
<1> SUFFICES ASSUME IInv, [Next]_vars PROVE IInv'
  OBVIOUS
<1> USE DEF Names, Files, Absent
<1>0. TypeOK /\ NamesDistinct /\ OneFileEach /\ RenamesOntoFree
  BY DEF IInv
<1>1. CASE CheckSize
  <2>1. /\ made' = made + 1 /\ record' = made' /\ made < MaxRecords /\ made \in 0 .. MaxRecords
        /\ pc' \in {"purge", "open"} /\ UNCHANGED <<name, data, created, index, handle, faulty, acked>>
    BY <1>0, <1>1 DEF CheckSize, TypeOK
  <2>2. TypeOK'
    BY <1>0, <2>1 DEF TypeOK
  <2>3. NamesDistinct' /\ RenamesOntoFree'
    BY <1>0, <2>1 DEF NamesDistinct, RenamesOntoFree
  <2>4. OneFileEach'
    BY <1>0, <2>1 DEF OneFileEach, Rotating, Writing, TypeOK
  <2> QED
    BY <2>2, <2>3, <2>4 DEF IInv
<1>2. CASE PurgeOldest
  <2>1. /\ pc = "purge" /\ name' = [name EXCEPT ![MaxArchives] = Absent]
        /\ index' = MaxArchives - 1 /\ pc' = "shift"
        /\ UNCHANGED <<data, made, created, record, handle, faulty, acked>>
        /\ MaxArchives \in Names /\ name \in [Names -> Files \union {Absent}]
    BY <1>0, <1>2 DEF PurgeOldest, FirstShift, TypeOK
  <2>2. TypeOK'
    BY <1>0, <2>1 DEF TypeOK
  <2>3. NamesDistinct'
    BY <1>0, <2>1 DEF NamesDistinct, TypeOK
  <2>4. OneFileEach'
    BY <1>0, <2>1 DEF OneFileEach, Rotating, Writing
  <2>5. RenamesOntoFree'
    BY <2>1 DEF RenamesOntoFree
  <2> QED
    BY <2>2, <2>3, <2>4, <2>5 DEF IInv
<1>3. CASE Shift
  <2>1. /\ pc = "shift" /\ index \in 0 .. MaxArchives - 1 /\ index \in Names /\ index + 1 \in Names
        /\ index # index + 1
        /\ name \in [Names -> Files \union {Absent}] /\ created < made
    BY <1>0, <1>3 DEF Shift, TypeOK, OneFileEach, Rotating
  <2>2. name' = IF name[index] = Absent THEN name
                ELSE [name EXCEPT ![index] = Absent, ![index + 1] = name[index]]
    BY <1>3 DEF Shift, Renamed
  <2>3. name' \in [Names -> Files \union {Absent}]
    BY <2>1, <2>2
  <2>4. name'[index] = Absent
    BY <2>1, <2>2
  <2>5. UNCHANGED <<data, made, created, record, handle, faulty, acked>>
    BY <1>3 DEF Shift
  <2>6. \/ index = 0 /\ index' = 0 /\ pc' = "open"
        \/ index # 0 /\ index' = index - 1 /\ pc' = "shift"
    BY <1>3, <2>1 DEF Shift
  <2>7. TypeOK'
    BY <1>0, <2>1, <2>3, <2>5, <2>6 DEF TypeOK
  <2>8. NamesDistinct'
    <3>1. CASE name[index] = Absent
      BY <1>0, <2>2, <2>5, <3>1 DEF NamesDistinct
    <3>2. CASE name[index] # Absent
      <4>1. \A n \in Names : name'[n] = IF n = index THEN Absent
                                         ELSE IF n = index + 1 THEN name[index] ELSE name[n]
        BY <2>1, <2>2, <3>2
      <4>2. \A n \in Names : name'[n] <= created'
        <5>1. created' = created /\ created \in Nat /\ 0 <= created
          BY <1>0, <2>5 DEF TypeOK
        <5>2. \A n \in Names : name[n] <= created
          BY <1>0 DEF NamesDistinct
        <5>3. name[index] <= created
          BY <2>1, <5>2
        <5>4. \A n \in Names : name'[n] \in {0, name[index], name[n]}
          BY <4>1
        <5> QED
          BY <5>1, <5>2, <5>3, <5>4
      <4>3. \A n, m \in Names : n # m /\ name'[n] # Absent => name'[n] # name'[m]
        BY <1>0, <2>1, <4>1 DEF NamesDistinct
      <4> QED
        BY <4>2, <4>3 DEF NamesDistinct
    <3> QED
      BY <3>1, <3>2
  <2>9. OneFileEach'
    BY <1>0, <2>1, <2>5, <2>6 DEF OneFileEach, Rotating, Writing
  <2>10. RenamesOntoFree'
    BY <2>1, <2>4, <2>6 DEF RenamesOntoFree
  <2> QED
    BY <2>7, <2>8, <2>9, <2>10 DEF IInv
<1>4. CASE Open
  <2>1. pc = "open" /\ pc' = "text" /\ UNCHANGED <<data, made, record, index, faulty, acked>>
        /\ created < made /\ created \in 0 .. MaxRecords /\ made \in 0 .. MaxRecords
        /\ name \in [Names -> Files \union {Absent}] /\ 0 \in Names
    BY <1>0, <1>4 DEF Open, TypeOK, OneFileEach, Rotating
  <2>2. CASE name[0] = Absent
    <3>1. created' = created + 1 /\ name' = [name EXCEPT ![0] = created'] /\ handle' = created'
      BY <1>4, <2>2 DEF Open
    <3>2. created' \in Files /\ created' \in 0 .. MaxRecords
      BY <2>1, <3>1
    <3>3. TypeOK'
      BY <1>0, <2>1, <3>1, <3>2 DEF TypeOK
    <3>4. NamesDistinct'
      BY <1>0, <2>1, <3>1, <3>2 DEF NamesDistinct
    <3>5. OneFileEach' /\ RenamesOntoFree'
      BY <1>0, <2>1, <3>1, <3>2 DEF OneFileEach, RenamesOntoFree, Rotating, Writing
    <3> QED
      BY <3>3, <3>4, <3>5 DEF IInv
  <2>3. CASE name[0] # Absent
    <3>1. handle' = name[0] /\ UNCHANGED <<name, created>>
      BY <1>4, <2>3 DEF Open
    <3>2. TypeOK'
      BY <1>0, <2>1, <3>1 DEF TypeOK
    <3>3. NamesDistinct'
      BY <1>0, <3>1 DEF NamesDistinct
    <3>4. OneFileEach' /\ RenamesOntoFree'
      BY <1>0, <2>1, <2>3, <3>1 DEF OneFileEach, RenamesOntoFree, Rotating, Writing
    <3> QED
      BY <3>2, <3>3, <3>4 DEF IInv
  <2> QED
    BY <2>2, <2>3
<1>5. ASSUME NEW byte \in 0 .. MaxRecords, pc \in Writing,
             data' = [data EXCEPT ![handle] = Append(@, byte)],
             UNCHANGED <<name, created, made>>, pc' \in {"rest", "newline", "idle"},
             pc' # "idle" => handle' = handle
      PROVE  /\ data' \in [Files -> Seq(0 .. MaxRecords)]
             /\ NamesDistinct' /\ OneFileEach' /\ RenamesOntoFree'
  <2>1. /\ data \in [Files -> Seq(0 .. MaxRecords)]
        /\ handle = name[0] /\ handle \in Files /\ handle <= created
        /\ created \in Nat /\ made \in Nat /\ created <= made
    BY <1>0, <1>5 DEF TypeOK, OneFileEach, NamesDistinct
  <2>2. data' \in [Files -> Seq(0 .. MaxRecords)]
    BY <1>5, <2>1, AppendProperties
  <2>3. \A f \in Files : f # handle => data'[f] = data[f]
    BY <1>5, <2>1
  <2>4. NamesDistinct' /\ RenamesOntoFree'
    BY <1>0, <1>5 DEF NamesDistinct, RenamesOntoFree
  <2>5. OneFileEach'
    <3>1. \A f \in Files : f > created' => data'[f] = <<>>
      <4>1. created' = created /\ \A f \in Files : f > created => data[f] = <<>>
        BY <1>0, <1>5 DEF OneFileEach
      <4>2. \A f \in Files : f > created => f # handle
        BY <2>1 DEF Files
      <4> QED
        BY <2>3, <4>1, <4>2
    <3>2. pc' \notin Rotating \union {"open"}
      BY <1>5 DEF Rotating
    <3>3. pc' \in Writing => handle' = name'[0] /\ handle' # Absent
      BY <1>5, <2>1 DEF Writing
    <3> QED
      BY <1>5, <2>1, <3>1, <3>2, <3>3 DEF OneFileEach
  <2> QED
    BY <2>2, <2>4, <2>5
<1>6. CASE WriteText
  <2>1. /\ data' \in [Files -> Seq(0 .. MaxRecords)]
        /\ NamesDistinct' /\ OneFileEach' /\ RenamesOntoFree'
    BY <1>0, <1>5, <1>6 DEF WriteText, Writing, TypeOK
  <2> QED
    BY <1>0, <1>6, <2>1 DEF WriteText, TypeOK, IInv
<1>7. CASE WriteNewline
  <2>1. Newline \in 0 .. MaxRecords
    BY DEF Newline
  <2>2. /\ data' \in [Files -> Seq(0 .. MaxRecords)]
        /\ NamesDistinct' /\ OneFileEach' /\ RenamesOntoFree'
    BY <1>0, <1>5, <1>7, <2>1 DEF WriteNewline, Writing, TypeOK
  <2> QED
    BY <1>0, <1>7, <2>2 DEF WriteNewline, TypeOK, IInv
<1>8. CASE Fail
  <2>1. TypeOK'
    BY <1>0, <1>8 DEF Fail, TypeOK
  <2>2. NamesDistinct' /\ OneFileEach' /\ RenamesOntoFree'
    BY <1>0, <1>8 DEF Fail, NamesDistinct, OneFileEach, RenamesOntoFree, Rotating, Writing
  <2> QED
    BY <2>1, <2>2 DEF IInv
<1>9. CASE UNCHANGED vars
  <2>1. TypeOK'
    BY <1>0, <1>9 DEF vars, TypeOK
  <2>2. NamesDistinct' /\ OneFileEach' /\ RenamesOntoFree'
    BY <1>0, <1>9 DEF vars, NamesDistinct, OneFileEach, RenamesOntoFree
  <2> QED
    BY <2>1, <2>2 DEF IInv
<1> QED
  BY <1>1, <1>2, <1>3, <1>4, <1>6, <1>7, <1>8, <1>9 DEF Next

(* It holds throughout.                                                    *)
LEMMA Inductive == Spec => []IInv
  BY IInvInit, IInvStep, PTL DEF Spec

(* The typing invariant, for any policy: above all, no append creates a     *)
(* second file, and every write has a file to go to.                        *)
THEOREM Typing == Spec => []TypeOK
<1>1. IInv => TypeOK
  BY DEF IInv
<1> QED
  BY <1>1, Inductive, PTL

-----------------------------------------------------------------------------
(* Retention. *)

(* Bounds on every file, with room left in the current one for what is      *)
(* still to be written to it.                                               *)
Fits(bytes, more) == bytes + more <= MaxBytes \/ bytes + more <= 3

RoomLeft ==
  /\ pc \in {"open", "text"} => Fits(Size(0), 3)
  /\ pc = "rest" => Fits(Size(0), 2)
  /\ pc = "newline" => Fits(Size(0), 1)

SizeInv == SizeBounded /\ RoomLeft

(* A size is a number.                                                     *)
LEMMA SizeType ==
  ASSUME TypeOK, NEW n \in Names
  PROVE  Size(n) \in Nat
<1>1. CASE name[n] = Absent
  BY <1>1 DEF Size
<1>2. CASE name[n] # Absent
  <2>1. data[name[n]] \in Seq(0 .. MaxRecords)
    BY <1>2 DEF TypeOK
  <2> QED
    BY <1>2, <2>1, LenProperties DEF Size
<1> QED
  BY <1>1, <1>2

(* Every call keeps the files within their bounds.                         *)
LEMMA SizeInvStep == IInv /\ SizeInv /\ [Next]_vars => SizeInv'
<1> SUFFICES ASSUME IInv, SizeInv, [Next]_vars PROVE SizeInv'
  OBVIOUS
<1>0. /\ TypeOK /\ NamesDistinct /\ OneFileEach /\ RenamesOntoFree
      /\ SizeBounded /\ RoomLeft /\ 0 \in Names /\ TypeOK' /\ NamesDistinct'
      /\ OneFileEach'
  BY IInvStep DEF IInv, SizeInv, Names
<1>1. \A n \in Names : Size(n) \in Nat
  BY <1>0, SizeType
<1>2. ASSUME UNCHANGED <<name, data>>
      PROVE  \A n \in Names : Size(n)' = Size(n)
  BY <1>2 DEF Size
<1>3. CASE CheckSize
  <2>1. \A n \in Names : Size(n)' = Size(n)
    BY <1>2, <1>3 DEF CheckSize
  <2>2. SizeBounded'
    BY <1>0, <2>1 DEF SizeBounded
  <2>3. pc' = "open" => Size(0) + 3 <= MaxBytes
    BY <1>0, <1>1, <1>3 DEF CheckSize, Full
  <2>4. pc' \in {"purge", "open"}
    BY <1>3 DEF CheckSize
  <2>5. RoomLeft'
    BY <1>0, <2>1, <2>3, <2>4 DEF RoomLeft, Fits
  <2> QED
    BY <2>2, <2>5 DEF SizeInv
<1>4. CASE PurgeOldest
  <2>1. \A n \in Names : Size(n)' = Size(n) \/ Size(n)' = 0
    BY <1>0, <1>4 DEF PurgeOldest, Size, TypeOK
  <2>2. SizeBounded'
    BY <1>0, <2>1 DEF SizeBounded
  <2>3. pc' = "shift"
    BY <1>4 DEF PurgeOldest
  <2> QED
    BY <2>2, <2>3 DEF SizeInv, RoomLeft
<1>5. CASE Shift
  <2>1. /\ index \in Names /\ index + 1 \in Names /\ index # index + 1
        /\ name \in [Names -> Files \union {Absent}]
        /\ name' = IF name[index] = Absent THEN name
                   ELSE [name EXCEPT ![index] = Absent, ![index + 1] = name[index]]
        /\ data' = data
        /\ \/ index = 0 /\ pc' = "open"
           \/ pc' = "shift"
    BY <1>0, <1>5 DEF Shift, Renamed, TypeOK, Names
  <2>2. \A n \in Names : Size(n)' \in {0, Size(n), Size(index)}
    <3>1. \A n \in Names : name'[n] \in {Absent, name[n], name[index]}
      BY <2>1
    <3> QED
      BY <2>1, <3>1 DEF Size
  <2>3. name'[index] = Absent
    BY <2>1
  <2>4. SizeBounded'
    BY <1>0, <1>1, <2>1, <2>2 DEF SizeBounded
  <2>5. RoomLeft'
    BY <1>1, <2>1, <2>3 DEF RoomLeft, Size, Fits
  <2> QED
    BY <2>4, <2>5 DEF SizeInv
<1>6. CASE Open
  <2>1. /\ \A n \in Names : Size(n)' = Size(n)
    <3>1. CASE name[0] = Absent
      <4>1. /\ name' = [name EXCEPT ![0] = created'] /\ created' = created + 1
            /\ data' = data /\ created' \in Files /\ created \in Nat
        BY <1>0, <1>6, <3>1 DEF Open, TypeOK, OneFileEach, Files, Rotating
      <4>2. data'[created'] = <<>>
        BY <1>0, <4>1 DEF OneFileEach
      <4>3. name'[0] = created' /\ created' # Absent
        BY <1>0, <4>1 DEF TypeOK, Absent, Files
      <4>4. Size(0) = 0 /\ Size(0)' = 0
        BY <3>1, <4>2, <4>3, EmptySeq DEF Size
      <4>5. \A n \in Names \ {0} : name'[n] = name[n]
        BY <1>0, <4>1 DEF TypeOK
      <4>6. \A n \in Names \ {0} : Size(n)' = Size(n)
        BY <4>1, <4>5 DEF Size
      <4> QED
        BY <4>4, <4>6
    <3>2. CASE name[0] # Absent
      BY <1>2, <1>6, <3>2 DEF Open
    <3> QED
      BY <3>1, <3>2
  <2>2. pc = "open" /\ pc' = "text"
    BY <1>6 DEF Open
  <2>3. SizeBounded'
    BY <1>0, <2>1 DEF SizeBounded
  <2>4. RoomLeft'
    BY <1>0, <2>1, <2>2 DEF RoomLeft
  <2> QED
    BY <2>3, <2>4 DEF SizeInv
<1>7. ASSUME NEW byte, NEW more \in Nat, pc \in Writing, Fits(Size(0), more + 1),
             data' = [data EXCEPT ![handle] = Append(@, byte)], name' = name,
             byte \in 0 .. MaxRecords
      PROVE  SizeBounded' /\ Fits(Size(0)', more)
  <2>1. handle = name[0] /\ handle \in Files /\ data[handle] \in Seq(0 .. MaxRecords)
        /\ data \in [Files -> Seq(0 .. MaxRecords)]
    BY <1>0, <1>7 DEF OneFileEach, TypeOK
  <2>2. data'[handle] = Append(data[handle], byte)
    BY <1>7, <2>1
  <2>3. Len(data'[handle]) = Len(data[handle]) + 1
    BY <1>7, <2>1, <2>2, AppendProperties
  <2>4. name[0] # Absent
    BY <2>1 DEF Files, Absent
  <2>5. Size(0)' = Size(0) + 1
    BY <1>7, <2>1, <2>3, <2>4 DEF Size
  <2>6. \A n \in Names \ {0} : Size(n)' = Size(n)
    <3> SUFFICES ASSUME NEW n \in Names \ {0} PROVE Size(n)' = Size(n)
      OBVIOUS
    <3>1. name[n] # Absent => name[n] # handle /\ name[n] \in Files
      BY <1>0, <2>1 DEF NamesDistinct, TypeOK
    <3>2. name[n] # Absent => data'[name[n]] = data[name[n]]
      BY <1>7, <2>1, <3>1
    <3>3. CASE name[n] = Absent
      BY <1>7, <3>3 DEF Size
    <3>4. CASE name[n] # Absent
      <4>1. name'[n] = name[n] /\ data'[name'[n]] = data[name[n]]
        BY <1>7, <3>2, <3>4
      <4> QED
        BY <3>4, <4>1 DEF Size
    <3> QED
      BY <3>3, <3>4
  <2>7. Fits(Size(0)', more)
    BY <1>0, <1>1, <1>7, <2>5 DEF Fits
  <2>8. Size(0)' <= MaxBytes \/ Size(0)' <= 3
    BY <1>0, <1>1, <1>7, <2>5, <2>7 DEF Fits
  <2> QED
    BY <1>0, <2>6, <2>7, <2>8 DEF SizeBounded
<1>8. CASE WriteText
  <2>1. pc \in {"text", "rest"} /\ record \in 0 .. MaxRecords
        /\ data' = [data EXCEPT ![handle] = Append(@, record)] /\ name' = name
    BY <1>0, <1>8 DEF WriteText, TypeOK
  <2>2. CASE pc = "text"
    <3>1. Fits(Size(0), 2 + 1) /\ pc' = "rest"
      BY <1>0, <1>8, <2>2 DEF RoomLeft, WriteText
    <3>2. SizeBounded' /\ Fits(Size(0)', 2)
      BY <1>7, <2>1, <3>1 DEF Writing
    <3> QED
      BY <3>1, <3>2 DEF SizeInv, RoomLeft
  <2>3. CASE pc = "rest"
    <3>1. Fits(Size(0), 1 + 1) /\ pc' = "newline"
      BY <1>0, <1>8, <2>3 DEF RoomLeft, WriteText
    <3>2. SizeBounded' /\ Fits(Size(0)', 1)
      BY <1>7, <2>1, <3>1 DEF Writing
    <3> QED
      BY <3>1, <3>2 DEF SizeInv, RoomLeft
  <2> QED
    BY <2>1, <2>2, <2>3
<1>9. CASE WriteNewline
  <2>1. pc = "newline" /\ pc' = "idle" /\ Newline \in 0 .. MaxRecords
        /\ data' = [data EXCEPT ![handle] = Append(@, Newline)] /\ name' = name
    BY <1>0, <1>9 DEF WriteNewline, TypeOK, Newline
  <2>2. Fits(Size(0), 0 + 1)
    BY <1>0, <2>1 DEF RoomLeft
  <2>3. SizeBounded'
    BY <1>7, <2>1, <2>2 DEF Writing
  <2> QED
    BY <2>1, <2>3 DEF SizeInv, RoomLeft
<1>10. CASE Fail
  <2>1. \A n \in Names : Size(n)' = Size(n)
    BY <1>2, <1>10 DEF Fail
  <2> QED
    BY <1>0, <1>10, <2>1 DEF Fail, SizeInv, SizeBounded, RoomLeft
<1>11. CASE UNCHANGED vars
  <2>1. \A n \in Names : Size(n)' = Size(n)
    BY <1>2, <1>11 DEF vars
  <2> QED
    BY <1>0, <1>11, <2>1 DEF vars, SizeInv, SizeBounded, RoomLeft
<1> QED
  BY <1>3, <1>4, <1>5, <1>6, <1>8, <1>9, <1>10, <1>11 DEF Next

(* Whatever fails and whenever the program ends, no file of the trail grows *)
(* past max_bytes unless it holds a single record.                          *)
THEOREM SizesAreBounded == Spec => []SizeBounded
<1>1. Init => SizeInv
  BY DEF Init, SizeInv, SizeBounded, RoomLeft, Size
<1>2. SizeInv => SizeBounded
  BY DEF SizeInv
<1> QED
  BY <1>1, <1>2, SizeInvStep, Inductive, PTL DEF Spec

-----------------------------------------------------------------------------
(* Rotation. *)

(* Between appends, from the current file on, no name is skipped...         *)
Dense == \A i \in 0 .. MaxArchives - 1 : name[i + 1] # Absent => name[i] # Absent

(* ...after a rotation the current file may be missing...                   *)
DenseArchives == \A i \in 1 .. MaxArchives - 1 : name[i + 1] # Absent => name[i] # Absent

(* ...and during it the name in the gap is the one the loop comes to next:  *)
(* index + 1 is free and its file, if the gap matters, about to be moved.   *)
DenseAroundGap ==
  \A i \in 0 .. MaxArchives - 1 :
    name[i + 1] # Absent =>
      IF i = index + 1 THEN name[index] # Absent ELSE i # index /\ name[i] # Absent

GapInv ==
  ~faulty =>
    /\ pc \in {"idle", "purge"} => Dense
    /\ pc = "shift" => DenseAroundGap
    /\ pc \in Writing \union {"open"} => DenseArchives
    /\ pc \in Writing => name[0] # Absent

(* Every call keeps the archives without a gap, or the gap where the loop  *)
(* is.                                                                     *)
LEMMA GapInvStep == IInv /\ GapInv /\ [Next]_vars => GapInv'
<1> SUFFICES ASSUME IInv, GapInv, [Next]_vars, ~faulty' PROVE GapInv'
  BY DEF GapInv
<1>0. /\ TypeOK /\ OneFileEach /\ 0 \in Names /\ name \in [Names -> Files \union {Absent}]
      /\ pc \in {"idle", "purge", "shift", "open", "text", "rest", "newline"}
      /\ index \in 0 .. MaxArchives - 1
  BY DEF IInv, TypeOK, Names
<1>1. ~faulty /\ ~Fail
  BY DEF Next, vars, CheckSize, PurgeOldest, Shift, Open, WriteText, WriteNewline, Fail
<1>2. CASE CheckSize
  <2>1. pc = "idle" /\ name' = name /\ pc' \in {"purge", "open"}
    BY <1>2 DEF CheckSize
  <2>2. Dense
    BY <1>1, <2>1 DEF GapInv
  <2>3. Dense' /\ DenseArchives'
    BY <2>1, <2>2 DEF Dense, DenseArchives
  <2> QED
    BY <2>1, <2>3 DEF GapInv, Writing
<1>3. CASE PurgeOldest
  <2>1. /\ pc = "purge" /\ pc' = "shift" /\ index' = MaxArchives - 1
        /\ name' = [name EXCEPT ![MaxArchives] = Absent]
    BY <1>3 DEF PurgeOldest, FirstShift
  <2>2. Dense
    BY <1>1, <2>1 DEF GapInv
  <2>3. /\ name'[MaxArchives] = Absent
        /\ \A n \in Names : n # MaxArchives => name'[n] = name[n]
    BY <1>0, <2>1 DEF Names
  <2>4. DenseAroundGap'
    <3> SUFFICES ASSUME NEW i \in 0 .. MaxArchives - 1, name'[i + 1] # Absent
                 PROVE  i # index' + 1 /\ i # index' /\ name'[i] # Absent
      BY DEF DenseAroundGap
    <3>1. i + 1 # MaxArchives /\ i \in Names /\ i + 1 \in Names /\ i # MaxArchives
      BY <2>3 DEF Names
    <3>2. name[i + 1] # Absent
      BY <2>3, <3>1
    <3>3. name[i] # Absent
      BY <2>2, <3>2 DEF Dense
    <3> QED
      BY <2>1, <2>3, <3>1, <3>3
  <2> QED
    BY <2>1, <2>4 DEF GapInv, Writing
<1>4. CASE Shift
  <2>1. /\ pc = "shift" /\ index \in Names /\ index + 1 \in Names
        /\ name' = IF name[index] = Absent THEN name
                   ELSE [name EXCEPT ![index] = Absent, ![index + 1] = name[index]]
        /\ \/ index = 0 /\ index' = 0 /\ pc' = "open"
           \/ index # 0 /\ index' = index - 1 /\ pc' = "shift"
    BY <1>0, <1>4 DEF Shift, Renamed, Names
  <2>2. DenseAroundGap
    BY <1>1, <2>1 DEF GapInv
  <2>3. name[index + 1] = Absent
    BY <2>1 DEF IInv, RenamesOntoFree
  <2>4. /\ name'[index] = Absent
        /\ name'[index + 1] = name[index]
        /\ \A n \in Names : n # index /\ n # index + 1 => name'[n] = name[n]
    BY <1>0, <2>1, <2>3
  <2>5. ASSUME NEW i \in 0 .. MaxArchives - 1, name'[i + 1] # Absent
        PROVE  i + 1 # index /\ (IF i = index THEN name[index] # Absent ELSE name'[i] # Absent)
    <3>1. i \in Names /\ i + 1 \in Names /\ i + 1 # index
      BY <2>4, <2>5 DEF Names
    <3>2. CASE i = index
      BY <2>4, <2>5, <3>1, <3>2
    <3>3. CASE i = index + 1
      <4>1. name[i + 1] # Absent
        BY <2>1, <2>4, <2>5, <3>1, <3>3 DEF Names
      <4>2. name[index] # Absent
        BY <2>2, <3>3, <4>1 DEF DenseAroundGap
      <4> QED
        BY <2>1, <2>4, <3>1, <3>3, <4>2 DEF Names
    <3>4. CASE i # index /\ i # index + 1
      <4>1. name[i + 1] # Absent
        BY <2>1, <2>4, <2>5, <3>1, <3>4 DEF Names
      <4>2. name[i] # Absent
        BY <2>2, <3>4, <4>1 DEF DenseAroundGap
      <4> QED
        BY <2>4, <3>1, <3>4, <4>2
    <3> QED
      BY <3>2, <3>3, <3>4
  <2>6. CASE index = 0
    <3>1. DenseArchives'
      <4> SUFFICES ASSUME NEW i \in 1 .. MaxArchives - 1, name'[i + 1] # Absent
                   PROVE  name'[i] # Absent
        BY DEF DenseArchives
      <4> QED
        BY <2>5, <2>6
    <3> QED
      BY <2>1, <2>6, <3>1 DEF GapInv, Writing
  <2>7. CASE index # 0
    <3>1. DenseAroundGap'
      <4> SUFFICES ASSUME NEW i \in 0 .. MaxArchives - 1, name'[i + 1] # Absent
                   PROVE  IF i = index' + 1 THEN name'[index'] # Absent
                          ELSE i # index' /\ name'[i] # Absent
        BY DEF DenseAroundGap
      <4>1. index' = index - 1 /\ i + 1 # index /\ i # index'
        BY <1>0, <2>1, <2>5, <2>7
      <4>2. CASE i = index
        <5>1. name[index] # Absent
          BY <2>5, <4>2
        <5>2. index' \in Names /\ index' \in 0 .. MaxArchives - 1 /\ index' + 1 = index
              /\ index' # index /\ index' # index + 1
          BY <1>0, <2>1, <4>1, <2>7 DEF Names
        <5>3. name[index'] # Absent
          BY <2>2, <5>1, <5>2 DEF DenseAroundGap
        <5> QED
          BY <2>4, <4>2, <5>2, <5>3
      <4>3. CASE i # index
        BY <1>0, <2>5, <4>1, <4>3
      <4> QED
        BY <4>2, <4>3
    <3> QED
      BY <2>1, <2>7, <3>1 DEF GapInv, Writing
  <2> QED
    BY <2>6, <2>7
<1>5. CASE Open
  <2>1. pc = "open" /\ pc' = "text"
    BY <1>5 DEF Open
  <2>2. DenseArchives
    BY <1>1, <2>1 DEF GapInv
  <2>3. name'[0] # Absent /\ \A n \in Names : n # 0 => name'[n] = name[n]
    <3>1. CASE name[0] = Absent
      <4>1. name' = [name EXCEPT ![0] = created'] /\ created' = created + 1 /\ created \in Nat
        BY <1>0, <1>5, <3>1 DEF Open, TypeOK
      <4> QED
        BY <1>0, <4>1 DEF Absent
    <3>2. CASE name[0] # Absent
      BY <1>5, <3>2 DEF Open
    <3> QED
      BY <3>1, <3>2
  <2>4. DenseArchives'
    BY <2>2, <2>3 DEF DenseArchives, Names
  <2> QED
    BY <2>1, <2>3, <2>4 DEF GapInv
<1>6. CASE WriteText
  BY <1>1, <1>6 DEF WriteText, GapInv, DenseArchives, Writing
<1>7. CASE WriteNewline
  <2>1. pc = "newline" /\ pc' = "idle" /\ name' = name
    BY <1>7 DEF WriteNewline
  <2>2. DenseArchives /\ name[0] # Absent
    BY <1>1, <2>1 DEF GapInv, Writing
  <2>3. Dense'
    BY <2>1, <2>2 DEF Dense, DenseArchives
  <2> QED
    BY <2>1, <2>3 DEF GapInv, Writing
<1>8. CASE UNCHANGED vars
  BY <1>1, <1>8 DEF vars, GapInv, Dense, DenseAroundGap, DenseArchives, Writing
<1> QED
  BY <1>1, <1>2, <1>3, <1>4, <1>5, <1>6, <1>7, <1>8 DEF Next

(* A rotation that was not cut short leaves no gap between the archives,    *)
(* however many of them are kept.                                           *)
THEOREM ArchivesStayContiguous == Spec => []ArchivesContiguous
<1>1. Init => GapInv
  BY DEF Init, GapInv, Dense, Writing, Names, Absent
<1>2. GapInv => ArchivesContiguous
  BY DEF GapInv, Dense, ArchivesContiguous
<1> QED
  BY <1>1, <1>2, GapInvStep, Inductive, PTL DEF Spec

-----------------------------------------------------------------------------
(* The trail only grows at its end and shrinks at its beginning. *)

(* What the file of a name reads as.                                       *)
ReadOf(nm, dt, n) == Read(IF nm[n] = Absent THEN <<>> ELSE dt[nm[n]])

PieceOf(nm, dt, n) == ReadOf(nm, dt, n).kept

LineOf(nm, dt) == ReadOf(nm, dt, 0).line

(* The records of each file, the oldest file first.                         *)
Pieces(nm, dt) == [i \in 1 .. MaxArchives + 1 |-> PieceOf(nm, dt, MaxArchives + 1 - i)]

(* The trail is the pieces one after the other, before and after a step.   *)
LEMMA TrailByPieces ==
  /\ Trail = FlattenSeq(Pieces(name, data))
  /\ Trail' = FlattenSeq(Pieces(name', data'))
BY DEF Trail, Pieces, PieceOf, ReadOf, Contents

(* The open line is that of the current file.                              *)
LEMMA OpenLineByLine ==
  /\ OpenLine = ToSet(LineOf(name, data))
  /\ OpenLine' = ToSet(LineOf(name', data'))
BY DEF OpenLine, LineOf, ReadOf, Contents

(* A file reads as records and a line of parts of records.                 *)
LEMMA ReadOfType ==
  ASSUME NEW k \in Nat, NEW nm \in [Names -> Files \union {Absent}],
         NEW dt \in [Files -> Seq(0 .. k)], NEW n \in Names
  PROVE  /\ ReadOf(nm, dt, n) \in ReadState(1 .. k)
         /\ PieceOf(nm, dt, n) \in Seq(1 .. k)
         /\ n = 0 => LineOf(nm, dt) \in Seq(1 .. k)
<1> DEFINE held == IF nm[n] = Absent THEN <<>> ELSE dt[nm[n]]
<1>1. (1 .. k) \union {Newline} = 0 .. k
  BY DEF Newline
<1>2. held \in Seq(0 .. k)
  BY EmptySeq
<1> HIDE DEF held
<1>3. held \in Seq((1 .. k) \union {Newline})
  BY <1>1, <1>2
<1>4. Read(held) \in ReadState(1 .. k)
  BY <1>3, ReadType
<1>5. ReadOf(nm, dt, n) \in ReadState(1 .. k)
  BY <1>4 DEF ReadOf, held
<1> QED
  BY <1>5 DEF PieceOf, LineOf, ReadState

(* There is a piece for every name, and it holds records.                  *)
LEMMA PiecesType ==
  ASSUME NEW k \in Nat, NEW nm \in [Names -> Files \union {Absent}],
         NEW dt \in [Files -> Seq(0 .. k)]
  PROVE  /\ Pieces(nm, dt) \in Seq(Seq(1 .. k))
         /\ Len(Pieces(nm, dt)) = MaxArchives + 1
         /\ Pieces(nm, dt) # <<>>
<1>1. ASSUME NEW i \in 1 .. MaxArchives + 1
      PROVE  PieceOf(nm, dt, MaxArchives + 1 - i) \in Seq(1 .. k)
  <2>1. MaxArchives + 1 - i \in Names
    BY MaxArchivesAssumption DEF Names
  <2> QED
    BY <2>1, ReadOfType
<1> DEFINE p == Pieces(nm, dt)
<1>2. p \in [1 .. MaxArchives + 1 -> Seq(1 .. k)]
  BY <1>1 DEF Pieces
<1>3. MaxArchives + 1 \in Nat /\ MaxArchives + 1 # 0
  BY MaxArchivesAssumption
<1> HIDE DEF p
<1>4. p \in Seq(Seq(1 .. k)) /\ Len(p) = MaxArchives + 1
  BY <1>2, <1>3
<1>5. p # <<>>
  BY <1>3, <1>4
<1> QED
  BY <1>4, <1>5 DEF p

(* The piece of a name is what its file holds.                             *)
LEMMA PieceAt ==
  ASSUME NEW nm, NEW dt, NEW n \in Names
  PROVE  Pieces(nm, dt)[MaxArchives + 1 - n] = PieceOf(nm, dt, n)
<1> DEFINE i == MaxArchives + 1 - n
<1>1. i \in 1 .. MaxArchives + 1 /\ MaxArchives + 1 - i = n
  BY MaxArchivesAssumption DEF Names
<1> HIDE DEF i
<1>2. Pieces(nm, dt)[i] = PieceOf(nm, dt, n)
  BY <1>1 DEF Pieces
<1> QED
  BY <1>2 DEF i

(* The last piece is that of the current file.                             *)
Archives(nm, dt) == [i \in 1 .. MaxArchives |-> PieceOf(nm, dt, MaxArchives + 1 - i)]

ArchivesFirst(nm, dt, k) ==
  /\ FlattenSeq(Archives(nm, dt)) \in Seq(1 .. k)
  /\ FlattenSeq(Pieces(nm, dt)) = FlattenSeq(Archives(nm, dt)) \o PieceOf(nm, dt, 0)

LEMMA PiecesSplit ==
  ASSUME NEW k \in Nat, NEW nm \in [Names -> Files \union {Absent}],
         NEW dt \in [Files -> Seq(0 .. k)]
  PROVE  ArchivesFirst(nm, dt, k)
<1> DEFINE M == MaxArchives
           front == Archives(nm, dt)
           r == PieceOf(nm, dt, 0)
           p == Pieces(nm, dt)
           q == Append(front, r)
<1>1. 0 \in Names /\ M \in Nat
  BY MaxArchivesAssumption DEF Names
<1>2. p \in Seq(Seq(1 .. k)) /\ Len(p) = M + 1
  BY PiecesType
<1>3. \A i \in 1 .. M : p[i] = front[i]
  BY <1>1 DEF Pieces, Archives
<1>4. p[M + 1] = r
  BY <1>1, PieceAt
<1>5. r \in Seq(1 .. k)
  BY <1>1, ReadOfType
<1>6. front \in Seq(Seq(1 .. k)) /\ Len(front) = M
  <2> HIDE DEF p
  <2>1. \A i \in 1 .. M : p[i] \in Seq(1 .. k)
    BY <1>1, <1>2
  <2>2. front = [i \in 1 .. M |-> front[i]]
    BY DEF Archives
  <2> HIDE DEF front
  <2>3. front \in [1 .. M -> Seq(1 .. k)]
    BY <1>3, <2>1, <2>2
  <2> QED
    BY <1>1, <2>3
<1> HIDE DEF p, q, r, front
<1>7. /\ q \in Seq(Seq(1 .. k)) /\ Len(q) = M + 1
      /\ q[M + 1] = r /\ \A i \in 1 .. M : q[i] = front[i]
  BY <1>5, <1>6, AppendProperties DEF q
<1>8. p = q
  <2>1. \A i \in 1 .. M + 1 : i \in 1 .. M \/ i = M + 1
    BY <1>1
  <2>2. p[M + 1] = q[M + 1] /\ \A i \in 1 .. M : p[i] = q[i]
    BY <1>3, <1>4, <1>7
  <2>3. \A i \in 1 .. M + 1 : p[i] = q[i]
    BY <2>1, <2>2, Zenon
  <2> QED
    BY <1>2, <1>7, <2>3, SeqEqual
<1>9. FlattenSeq(q) = FlattenSeq(front) \o r
  BY <1>5, <1>6, FlattenAppend DEF q
<1>10. FlattenSeq(front) \in Seq(1 .. k)
  BY <1>6, FlattenType
<1> QED
  BY <1>8, <1>9, <1>10 DEF p, r, front, ArchivesFirst

(* While an append has not written anything, every record there is an       *)
(* older one.                                                               *)
Newest == IF pc \in {"purge", "shift", "open", "text"} THEN made - 1 ELSE made

InOrder ==
  /\ pc # "idle" => record = made /\ made # 0
  /\ data \in [Files -> Seq(0 .. Newest)]
  /\ acked \in 0 .. Newest

(* A file of older records is one of newer records.                        *)
LEMMA SeqMonotone ==
  ASSUME NEW k \in Nat, NEW n \in Nat, k <= n
  PROVE  Seq(0 .. k) \subseteq Seq(0 .. n)
<1> SUFFICES ASSUME NEW q \in Seq(0 .. k) PROVE q \in Seq(0 .. n)
  OBVIOUS
<1>1. \A i \in 1 .. Len(q) : q[i] \in 0 .. n
  OBVIOUS
<1> QED
  BY <1>1

(* The newest record is one that was made.                                 *)
LEMMA NewestType == TypeOK /\ InOrder => Newest \in Nat /\ Newest <= made /\ made \in Nat
BY DEF TypeOK, InOrder, Newest

(* Every call keeps the records in order.                                  *)
LEMMA InOrderStep == IInv /\ InOrder /\ [Next]_vars => InOrder'
<1> SUFFICES ASSUME IInv, InOrder, [Next]_vars PROVE InOrder'
  OBVIOUS
<1>0. /\ TypeOK /\ OneFileEach /\ data \in [Files -> Seq(0 .. Newest)]
      /\ Newest \in Nat /\ Newest <= made /\ made \in Nat /\ acked \in 0 .. Newest
      /\ pc # "idle" => record = made /\ made # 0
  BY NewestType DEF IInv, InOrder
<1>1. ASSUME data' = data, acked' = acked, Newest' \in Nat, Newest <= Newest'
      PROVE  data' \in [Files -> Seq(0 .. Newest')] /\ acked' \in 0 .. Newest'
  <2>1. Seq(0 .. Newest) \subseteq Seq(0 .. Newest')
    BY <1>0, <1>1, SeqMonotone
  <2> QED
    BY <1>0, <1>1, <2>1
<1>2. CASE CheckSize
  <2>1. /\ made' = made + 1 /\ record' = made' /\ data' = data /\ pc = "idle"
        /\ pc' \in {"purge", "open"} /\ acked' = acked
    BY <1>2 DEF CheckSize
  <2>2. Newest' = made /\ Newest = made
    BY <1>0, <2>1 DEF Newest
  <2> QED
    BY <1>0, <1>1, <2>1, <2>2 DEF InOrder
<1>3. CASE PurgeOldest \/ Shift \/ Open
  <2>1. /\ UNCHANGED <<data, made, record, acked>>
        /\ pc \in {"purge", "shift", "open"} /\ pc' \in {"shift", "open", "text"}
    BY <1>3 DEF PurgeOldest, Shift, Open
  <2>2. Newest' = made - 1 /\ Newest = made - 1
    BY <1>0, <2>1 DEF Newest
  <2> QED
    BY <1>0, <1>1, <2>1, <2>2 DEF InOrder
<1>4. ASSUME NEW byte \in 0 .. made, data' = [data EXCEPT ![handle] = Append(@, byte)]
      PROVE  data' \in [Files -> Seq(0 .. made)]
  <2>1. data \in [Files -> Seq(0 .. made)]
    <3>1. Seq(0 .. Newest) \subseteq Seq(0 .. made)
      BY <1>0, SeqMonotone
    <3> QED
      BY <1>0, <3>1
  <2> QED
    BY <1>4, <2>1, AppendProperties
<1>5. CASE WriteText
  <2>1. /\ pc \in {"text", "rest"} /\ pc' \in {"rest", "newline"}
        /\ UNCHANGED <<made, record, acked>>
        /\ data' = [data EXCEPT ![handle] = Append(@, record)] /\ record \in 0 .. made
    BY <1>0, <1>5 DEF WriteText
  <2>2. Newest' = made
    BY <2>1 DEF Newest
  <2>3. data' \in [Files -> Seq(0 .. made)]
    BY <1>4, <2>1
  <2> QED
    BY <1>0, <2>1, <2>2, <2>3 DEF InOrder
<1>6. CASE WriteNewline
  <2>1. /\ pc = "newline" /\ pc' = "idle" /\ UNCHANGED <<made, record>> /\ acked' = record
        /\ data' = [data EXCEPT ![handle] = Append(@, Newline)] /\ Newline \in 0 .. made
    BY <1>0, <1>6 DEF WriteNewline, Newline
  <2>2. Newest' = made
    BY <2>1 DEF Newest
  <2>3. data' \in [Files -> Seq(0 .. made)]
    BY <1>4, <2>1
  <2> QED
    BY <1>0, <2>1, <2>2, <2>3 DEF InOrder
<1>7. CASE Fail
  <2>1. data' = data /\ made' = made /\ pc' = "idle" /\ acked' = acked
    BY <1>7 DEF Fail
  <2>2. Newest' = made
    BY <2>1 DEF Newest
  <2> QED
    BY <1>0, <1>1, <2>1, <2>2 DEF InOrder
<1>8. CASE UNCHANGED vars
  BY <1>0, <1>8 DEF vars, InOrder, Newest
<1> QED
  BY <1>2, <1>3, <1>5, <1>6, <1>7, <1>8 DEF Next

(* The trail is a sequence of records, and the open line one of their parts.*)
LEMMA TrailType ==
  IInv /\ InOrder => Trail \in Seq(1 .. Newest) /\ LineOf(name, data) \in Seq(1 .. Newest)
<1> SUFFICES ASSUME IInv, InOrder
             PROVE  Trail \in Seq(1 .. Newest) /\ LineOf(name, data) \in Seq(1 .. Newest)
  OBVIOUS
<1>1. /\ name \in [Names -> Files \union {Absent}]
      /\ data \in [Files -> Seq(0 .. Newest)]
      /\ Newest \in Nat /\ 0 \in Names
  BY NewestType DEF IInv, TypeOK, InOrder, Names
<1> DEFINE p == Pieces(name, data)
<1>2. p \in Seq(Seq(1 .. Newest))
  BY <1>1, PiecesType
<1>3. Trail = FlattenSeq(p)
  BY TrailByPieces
<1>4. LineOf(name, data) \in Seq(1 .. Newest)
  BY <1>1, ReadOfType
<1> HIDE DEF p
<1> QED
  BY <1>2, <1>3, <1>4, FlattenType

(* A byte written is read after what the current file held, and the other   *)
(* files stay as they are.                                                  *)
Writes(byte) == name' = name /\ data' = [data EXCEPT ![handle] = Append(@, byte)]

ReadsOn(byte) ==
  /\ ReadOf(name', data', 0) = ReadByte(ReadOf(name, data, 0), byte)
  /\ ReadOf(name, data, 0) \in ReadState(1 .. made)
  /\ \E f \in Seq(1 .. made) : /\ Trail = f \o PieceOf(name, data, 0)
                               /\ Trail' = f \o PieceOf(name', data', 0)

LEMMA WritingReadsOn ==
  ASSUME IInv, InOrder, pc \in Writing, NEW byte \in 0 .. made, Writes(byte)
  PROVE  ReadsOn(byte)
<1> USE MaxArchivesAssumption
<1>1. /\ TypeOK /\ made \in Nat /\ name \in [Names -> Files \union {Absent}] /\ 0 \in Names
      /\ handle = name[0] /\ handle # Absent /\ handle \in Files
      /\ name' = name /\ data' = [data EXCEPT ![handle] = Append(@, byte)]
  BY DEF IInv, TypeOK, OneFileEach, Writes, Names
<1>2. data \in [Files -> Seq(0 .. made)]
  <2>1. Seq(0 .. Newest) \subseteq Seq(0 .. made)
    BY <1>1, NewestType, SeqMonotone
  <2> QED
    BY <2>1 DEF InOrder
<1>3. /\ data' \in [Files -> Seq(0 .. made)]
      /\ data'[handle] = Append(data[handle], byte)
      /\ \A f \in Files : f # handle => data'[f] = data[f]
  BY <1>1, <1>2, AppendProperties
<1>4. ReadOf(name', data', 0) = ReadByte(ReadOf(name, data, 0), byte)
  <2> DEFINE b == data[handle]
             S == 1 .. made
             x == byte
  <2>1. S \union {Newline} = 0 .. made
    BY <1>1 DEF Newline
  <2>2. b \in Seq(S \union {Newline}) /\ x \in S \union {Newline}
    BY <1>1, <1>2, <2>1
  <2>3. ReadOf(name, data, 0) = Read(b) /\ ReadOf(name', data', 0) = Read(Append(b, x))
    BY <1>1, <1>3 DEF ReadOf
  <2> HIDE DEF b, S, x
  <2>4. Read(Append(b, x)) = ReadByte(Read(b), x)
    BY <2>2, ReadAppend
  <2> QED
    BY <2>3, <2>4 DEF x
<1>5. ReadOf(name, data, 0) \in ReadState(1 .. made)
  BY <1>1, <1>2, ReadOfType
<1>6. Archives(name', data') = Archives(name, data)
  <2>1. ASSUME NEW n \in Names, n # 0
        PROVE  PieceOf(name', data', n) = PieceOf(name, data, n)
    <3>1. name[n] # Absent => name[n] # handle /\ name[n] \in Files
      BY <1>1, <2>1 DEF IInv, NamesDistinct
    <3>2. name[n] # Absent => data'[name[n]] = data[name[n]]
      BY <1>3, <3>1
    <3>3. (IF name'[n] = Absent THEN <<>> ELSE data'[name'[n]])
          = (IF name[n] = Absent THEN <<>> ELSE data[name[n]])
      BY <1>1, <3>2
    <3> QED
      BY <3>3 DEF PieceOf, ReadOf
  <2>2. ASSUME NEW i \in 1 .. MaxArchives
        PROVE  PieceOf(name', data', MaxArchives + 1 - i) = PieceOf(name, data, MaxArchives + 1 - i)
    <3>1. MaxArchives + 1 - i \in Names /\ MaxArchives + 1 - i # 0
      BY DEF Names
    <3> QED
      BY <2>1, <3>1
  <2> QED
    BY <2>2 DEF Archives
<1> DEFINE f == FlattenSeq(Archives(name, data))
<1>7. ArchivesFirst(name, data, made)
  BY <1>1, <1>2, PiecesSplit
<1>8. ArchivesFirst(name', data', made)
  BY <1>1, <1>3, PiecesSplit
<1>9. /\ f \in Seq(1 .. made)
      /\ Trail = f \o PieceOf(name, data, 0)
      /\ Trail' = f \o PieceOf(name', data', 0)
  BY <1>6, <1>7, <1>8, TrailByPieces, Zenon DEF ArchivesFirst
<1> QED
  BY <1>4, <1>5, <1>9 DEF ReadsOn

(* What is appended to the second of two sequences is appended to both.    *)
LEMMA AppendAfter ==
  ASSUME NEW S, NEW a \in Seq(S), NEW b \in Seq(S), NEW x \in S
  PROVE  a \o Append(b, x) = Append(a \o b, x)
OBVIOUS

(* A part of a text goes to the open line.                                 *)
LEMMA WriteTextLine ==
  IInv /\ InOrder /\ WriteText =>
    Trail' = Trail /\ LineOf(name', data') = Append(LineOf(name, data), record)
<1> SUFFICES ASSUME IInv, InOrder, WriteText
             PROVE  Trail' = Trail /\ LineOf(name', data') = Append(LineOf(name, data), record)
  OBVIOUS
<1>1. /\ pc \in Writing /\ Writes(record) /\ record = made /\ made \in Nat \ {0}
  BY DEF IInv, TypeOK, InOrder, WriteText, Writing, Writes
<1>2. record \in 0 .. made /\ record \in 1 .. made /\ record # Newline
  BY <1>1 DEF Newline
<1>3. ReadsOn(record)
  BY <1>1, <1>2, WritingReadsOn
<1> DEFINE s == ReadOf(name, data, 0)
           x == record
           T == 1 .. made
<1>4. s \in ReadState(T) /\ x \in T /\ x # Newline
  BY <1>2, <1>3 DEF ReadsOn
<1>5. ReadOf(name', data', 0) = ReadByte(s, x)
  BY <1>3 DEF ReadsOn
<1> HIDE DEF s, x, T
<1>6. ReadByte(s, x) = [kept |-> s.kept, line |-> Append(s.line, x)]
  BY <1>4, ReadTextByte
<1>7. /\ ReadOf(name', data', 0).kept = s.kept
      /\ ReadOf(name', data', 0).line = Append(s.line, x)
  BY <1>5, <1>6
<1>8. PieceOf(name', data', 0) = PieceOf(name, data, 0)
  BY <1>7 DEF PieceOf, s
<1>9. Trail' = Trail
  BY <1>3, <1>8 DEF ReadsOn
<1> QED
  BY <1>7, <1>9 DEF LineOf, s, x

(* A newline closes the line, which is a record if it has nothing else.    *)
LEMMA WriteNewlineLine ==
  ASSUME IInv, InOrder, WriteNewline, NEW line, line = LineOf(name, data)
  PROVE  /\ LineOf(name', data') = <<>>
         /\ IsText(line) => Trail' = Append(Trail, line[1])
         /\ ~IsText(line) => Trail' = Trail
<1>1. /\ pc \in Writing /\ Writes(Newline) /\ made \in Nat
  BY DEF IInv, TypeOK, WriteNewline, Writing, Writes
<1>2. ReadsOn(Newline)
  BY <1>1, WritingReadsOn DEF Newline
<1> DEFINE s == ReadOf(name, data, 0)
           r == s.kept
           T == 1 .. made
<1>3. s \in ReadState(T) /\ s.line = line
  BY <1>2 DEF ReadsOn, LineOf
<1>4. ReadOf(name', data', 0) = ReadByte(s, Newline)
  BY <1>2 DEF ReadsOn
<1>5. PICK f \in Seq(T) : /\ Trail = f \o PieceOf(name, data, 0)
                          /\ Trail' = f \o PieceOf(name', data', 0)
  BY <1>2 DEF ReadsOn
<1> HIDE DEF s, T
<1>6. ReadByte(s, Newline) =
        [kept |-> IF IsText(line) THEN Append(r, line[1]) ELSE r, line |-> <<>>]
  BY <1>3, ReadNewline
<1>7. /\ PieceOf(name', data', 0) = IF IsText(line) THEN Append(r, line[1]) ELSE r
      /\ LineOf(name', data') = <<>>
  <2> DEFINE w == IF IsText(line) THEN Append(r, line[1]) ELSE r
             t == ReadOf(name', data', 0)
  <2>1. t = [kept |-> w, line |-> <<>>]
    BY <1>4, <1>6
  <2>2. PieceOf(name', data', 0) = t.kept /\ LineOf(name', data') = t.line
    BY DEF PieceOf, LineOf
  <2> HIDE DEF w, t
  <2>3. PieceOf(name', data', 0) = w /\ LineOf(name', data') = <<>>
    BY <2>1, <2>2
  <2> QED
    BY <2>3 DEF w
<1>8. Trail = f \o r
  BY <1>5 DEF PieceOf, s
<1>9. r \in Seq(T) /\ line \in Seq(T)
  BY <1>3 DEF ReadState
<1> HIDE DEF r
<1>10. ASSUME IsText(line) PROVE Trail' = Append(Trail, line[1])
  <2>1. 1 \in 1 .. Len(line)
    BY <1>10 DEF IsText
  <2> DEFINE x == line[1]
  <2>2. x \in T
    BY <1>9, <2>1, ElementOfSeq
  <2>3. Trail' = f \o Append(r, x)
    BY <1>5, <1>7, <1>10
  <2> HIDE DEF x
  <2>4. f \o Append(r, x) = Append(f \o r, x)
    BY <1>9, <2>2, AppendAfter
  <2> QED
    BY <1>8, <2>3, <2>4, Zenon DEF x
<1>11. ASSUME ~IsText(line) PROVE Trail' = Trail
  BY <1>5, <1>7, <1>8, <1>11
<1> QED
  BY <1>7, <1>10, <1>11

(* What is cut off the front of a concatenation leaves the rest.            *)
LEMMA SecondHalf ==
  ASSUME NEW S, NEW a \in Seq(S), NEW b \in Seq(S)
  PROVE  /\ SubSeq(a \o b, Len(a) + 1, Len(a \o b)) = b
         /\ Len(a) \in 0 .. Len(a \o b)
<1> DEFINE c == a \o b
           d == SubSeq(c, Len(a) + 1, Len(c))
<1>1. c \in Seq(S) /\ Len(c) = Len(a) + Len(b)
  OBVIOUS
<1>2. \A i \in 1 .. Len(b) : c[Len(a) + i] = b[i]
  OBVIOUS
<1> HIDE DEF c
<1>3. /\ d \in Seq(S) /\ Len(d) = Len(b)
      /\ \A i \in 1 .. Len(b) : d[i] = c[Len(a) + i]
  <2>1. Len(a) + 1 \in 1 .. Len(c) + 1 /\ Len(c) \in Nat /\ Len(a) \in Nat
    BY <1>1
  <2>2. d \in Seq(S) /\ Len(d) = Len(c) - Len(a)
    BY <1>1, <2>1
  <2>3. \A i \in 1 .. Len(d) : d[i] = c[Len(a) + i]
    BY <1>1, <2>1
  <2> HIDE DEF d
  <2> QED
    BY <1>1, <2>2, <2>3
<1> HIDE DEF d
<1>4. d = b
  BY <1>2, <1>3, SeqEqual
<1>5. Len(a) \in 0 .. Len(c)
  BY <1>1
<1> QED
  BY <1>4, <1>5 DEF c, d

(* A rotation forgets the records of the oldest archive, or nothing.        *)
LEMMA PurgeOldestForgets ==
  IInv /\ InOrder /\ PurgeOldest =>
    /\ LineOf(name', data') = LineOf(name, data)
    /\ \/ Trail' = Trail
       \/ \E n \in 1 .. Len(Trail) : Trail' = SubSeq(Trail, n + 1, Len(Trail))
<1> SUFFICES ASSUME IInv, InOrder, PurgeOldest
             PROVE  /\ LineOf(name', data') = LineOf(name, data)
                    /\ \/ Trail' = Trail
                       \/ \E n \in 1 .. Len(Trail) : Trail' = SubSeq(Trail, n + 1, Len(Trail))
  OBVIOUS
<1> USE MaxArchivesAssumption
<1> DEFINE k == Newest
           M == MaxArchives
           p == Pieces(name, data)
           q == Pieces(name', data')
<1>1. /\ TypeOK /\ k \in Nat
      /\ name \in [Names -> Files \union {Absent}] /\ data \in [Files -> Seq(0 .. k)]
      /\ data' = data /\ name' = [name EXCEPT ![M] = Absent] /\ M \in Names
  BY NewestType DEF IInv, TypeOK, InOrder, PurgeOldest, Names
<1>2. name' \in [Names -> Files \union {Absent}] /\ data' \in [Files -> Seq(0 .. k)]
  BY <1>1
<1>3. /\ p \in Seq(Seq(1 .. k)) /\ Len(p) = M + 1 /\ p # <<>>
      /\ q \in Seq(Seq(1 .. k)) /\ Len(q) = M + 1
  <2> HIDE DEF k
  <2> QED
    BY <1>1, <1>2, PiecesType
<1>4. q[1] = <<>>
  <2>1. q[M + 1 - M] = PieceOf(name', data', M)
    BY <1>1, PieceAt
  <2>2. name'[M] = Absent /\ M + 1 - M = 1
    BY <1>1
  <2>3. PieceOf(name', data', M) = <<>>
    BY <2>2, ReadEmpty DEF PieceOf, ReadOf, Blank
  <2> QED
    BY <2>1, <2>2, <2>3
<1>5. ASSUME NEW n \in Names, n # M
      PROVE  ReadOf(name', data', n) = ReadOf(name, data, n)
  <2>1. name'[n] = name[n]
    BY <1>1, <1>5
  <2> QED
    BY <1>1, <2>1 DEF ReadOf
<1>6. \A i \in 2 .. Len(p) : q[i] = p[i]
  <2> SUFFICES ASSUME NEW i \in 2 .. M + 1 PROVE q[i] = p[i]
    BY <1>3
  <2> DEFINE n == M + 1 - i
  <2>1. n \in Names /\ n # M /\ M + 1 - n = i
    BY DEF Names
  <2> HIDE DEF n
  <2>2. q[M + 1 - n] = PieceOf(name', data', n) /\ p[M + 1 - n] = PieceOf(name, data, n)
    BY <2>1, PieceAt
  <2> QED
    BY <1>5, <2>1, <2>2 DEF PieceOf
<1>7. LineOf(name', data') = LineOf(name, data)
  <2>1. 0 \in Names /\ 0 # M
    BY DEF Names
  <2> QED
    BY <1>5, <2>1 DEF LineOf
<1>8. Trail = FlattenSeq(p) /\ Trail' = FlattenSeq(q)
  BY TrailByPieces
<1> HIDE DEF p, q, k
<1> DEFINE a == p[1]
           b == FlattenSeq(q)
<1>9. a \in Seq(1 .. k) /\ b \in Seq(1 .. k)
  <2>1. a \in Seq(1 .. k)
    BY <1>3
  <2>2. b \in Seq(1 .. k)
    BY <1>3, FlattenType
  <2> QED
    BY <2>1, <2>2
<1>10. Trail = a \o b /\ Trail' = b
  <2>1. FlattenSeq(p) = p[1] \o FlattenSeq(q)
    <3>1. p # <<>> /\ Len(q) = Len(p) /\ q[1] = <<>> /\ \A i \in 2 .. Len(p) : q[i] = p[i]
      BY <1>3, <1>4, <1>6
    <3>2. p \in Seq(Seq(1 .. k)) /\ q \in Seq(Seq(1 .. k))
      BY <1>3
    <3> QED
      BY <3>1, <3>2, FlattenWithoutFirst
  <2> QED
    BY <1>8, <2>1
<1> HIDE DEF a, b
<1>11. SubSeq(Trail, Len(a) + 1, Len(Trail)) = Trail' /\ Len(a) \in 0 .. Len(Trail)
  BY <1>9, <1>10, SecondHalf
<1>12. CASE Len(a) = 0
  <2>1. a = <<>>
    BY <1>9, <1>12
  <2>2. Trail' = Trail
    BY <1>9, <1>10, <2>1, ConcatEmptySeq
  <2> QED
    BY <1>7, <2>2
<1>13. CASE Len(a) # 0
  <2> DEFINE n == Len(a)
  <2>1. n \in 1 .. Len(Trail)
    <3>1. Len(a) \in Nat /\ Len(Trail) \in Nat
      BY <1>9, <1>10
    <3> QED
      BY <1>11, <1>13, <3>1
  <2>2. Trail' = SubSeq(Trail, n + 1, Len(Trail))
    BY <1>11
  <2> QED
    BY <1>7, <2>1, <2>2
<1> QED
  BY <1>12, <1>13

(* The other calls leave the records as they are; a rename that puts the    *)
(* current file away takes its open line out of the way.                    *)
LEMMA ShiftKeepsTrail ==
  IInv /\ InOrder /\ Shift =>
    /\ Trail' = Trail
    /\ LineOf(name', data') = LineOf(name, data) \/ LineOf(name', data') = <<>>
<1> SUFFICES ASSUME IInv, InOrder, Shift
             PROVE  /\ Trail' = Trail
                    /\ LineOf(name', data') = LineOf(name, data) \/ LineOf(name', data') = <<>>
  OBVIOUS
<1> USE MaxArchivesAssumption
<1> DEFINE k == Newest
           M == MaxArchives
           p == Pieces(name, data)
           q == Pieces(name', data')
<1>1. /\ TypeOK /\ k \in Nat /\ index \in 0 .. M - 1 /\ index \in Names /\ index + 1 \in Names
      /\ name \in [Names -> Files \union {Absent}] /\ data \in [Files -> Seq(0 .. k)]
      /\ data' = data
      /\ name' = IF name[index] = Absent THEN name
                 ELSE [name EXCEPT ![index] = Absent, ![index + 1] = name[index]]
  BY NewestType DEF IInv, TypeOK, InOrder, Shift, Renamed, Names
<1>2. name[index + 1] = Absent
  BY DEF IInv, RenamesOntoFree, Shift
<1>3. CASE name[index] = Absent
  <2>1. name' = name
    BY <1>1, <1>3
  <2>2. LineOf(name', data') = LineOf(name, data)
    BY <1>1, <2>1
  <2> QED
    BY <1>1, <2>1, <2>2, TrailByPieces
<1>4. CASE name[index] # Absent
  <2>1. /\ name'[index] = Absent /\ name'[index + 1] = name[index]
        /\ \A n \in Names : n # index /\ n # index + 1 => name'[n] = name[n]
        /\ name' \in [Names -> Files \union {Absent}]
    BY <1>1, <1>4
  <2>2. /\ p \in Seq(Seq(1 .. k)) /\ Len(p) = M + 1
        /\ q \in Seq(Seq(1 .. k)) /\ Len(q) = M + 1
    <3> HIDE DEF k
    <3>1. data' \in [Files -> Seq(0 .. k)]
      BY <1>1
    <3>2. name \in [Names -> Files \union {Absent}] /\ name' \in [Names -> Files \union {Absent}]
      BY <1>1, <2>1
    <3>3. p \in Seq(Seq(1 .. k)) /\ Len(p) = M + 1
      BY <1>1, <3>2, PiecesType
    <3>4. q \in Seq(Seq(1 .. k)) /\ Len(q) = M + 1
      BY <1>1, <3>1, <3>2, PiecesType
    <3> QED
      BY <3>3, <3>4
  <2>3. ASSUME NEW n \in Names
        PROVE  /\ p[M + 1 - n] = PieceOf(name, data, n)
               /\ q[M + 1 - n] = PieceOf(name', data', n)
    BY PieceAt
  <2> DEFINE j == M - index
  <2>4. /\ j \in 1 .. M /\ M + 1 - index = j + 1 /\ M + 1 - (index + 1) = j
    BY <1>1
  <2>5. p[j] = <<>> /\ q[j + 1] = <<>>
    <3>1. p[j] = PieceOf(name, data, index + 1) /\ q[j + 1] = PieceOf(name', data', index)
      BY <1>1, <2>3, <2>4
    <3>2. PieceOf(name, data, index + 1) = <<>> /\ PieceOf(name', data', index) = <<>>
      BY <1>2, <2>1, ReadEmpty DEF PieceOf, ReadOf, Blank
    <3> HIDE DEF p, q, j
    <3> QED
      BY <3>1, <3>2
  <2>6. q[j] = p[j + 1]
    <3>1. p[j + 1] = PieceOf(name, data, index) /\ q[j] = PieceOf(name', data', index + 1)
      BY <1>1, <2>3, <2>4
    <3>2. data' = data
      BY <1>1
    <3>3. PieceOf(name', data', index + 1) = PieceOf(name, data, index)
      BY <1>4, <2>1, <3>2 DEF PieceOf, ReadOf
    <3> HIDE DEF p, q, j
    <3> QED
      BY <3>1, <3>3
  <2>7. \A i \in 1 .. M + 1 : i # j /\ i # j + 1 => q[i] = p[i]
    <3> SUFFICES ASSUME NEW i \in 1 .. M + 1, i # j, i # j + 1 PROVE q[i] = p[i]
      OBVIOUS
    <3> DEFINE n == M + 1 - i
    <3>1. n \in Names /\ n # index /\ n # index + 1 /\ M + 1 - n = i
      BY <1>1 DEF Names
    <3> HIDE DEF n
    <3>2. name'[n] = name[n] /\ data' = data
      BY <1>1, <2>1, <3>1
    <3>3. p[i] = PieceOf(name, data, n) /\ q[i] = PieceOf(name', data', n)
      BY <2>3, <3>1
    <3> HIDE DEF p, q
    <3> QED
      BY <3>2, <3>3 DEF PieceOf, ReadOf
  <2>8. Trail = FlattenSeq(p) /\ Trail' = FlattenSeq(q)
    BY TrailByPieces
  <2> HIDE DEF p, q, j, k
  <2>9. j \in 1 .. Len(p) - 1
    BY <2>2, <2>4
  <2>10. FlattenSeq(q) = FlattenSeq(p)
    BY <2>2, <2>5, <2>6, <2>7, <2>9, FlattenMoved
  <2>11. LineOf(name', data') = LineOf(name, data) \/ LineOf(name', data') = <<>>
    <3>1. CASE index = 0
      <4>1. LineOf(name', data') = Blank.line
        BY <2>1, <3>1, ReadEmpty DEF LineOf, ReadOf
      <4> QED
        BY <4>1 DEF Blank
    <3>2. CASE index # 0
      <4>1. 0 \in Names /\ 0 # index /\ 0 # index + 1
        BY <1>1, <3>2 DEF Names
      <4>2. name'[0] = name[0]
        BY <2>1, <4>1
      <4> QED
        BY <1>1, <4>2 DEF LineOf, ReadOf
    <3> QED
      BY <3>1, <3>2
  <2> QED
    BY <2>8, <2>10, <2>11
<1> QED
  BY <1>3, <1>4

(* Opening the file changes nothing: a new file is empty.                  *)
LEMMA OpenKeepsTrail ==
  IInv /\ Open => Trail' = Trail /\ LineOf(name', data') = LineOf(name, data)
<1> SUFFICES ASSUME IInv, Open
             PROVE  Trail' = Trail /\ LineOf(name', data') = LineOf(name, data)
  OBVIOUS
<1>1. /\ TypeOK /\ name \in [Names -> Files \union {Absent}] /\ 0 \in Names
      /\ created < made /\ created \in 0 .. MaxRecords /\ made \in 0 .. MaxRecords
      /\ data' = data /\ MaxArchives \in Nat
      /\ \A f \in Files : f > created => data[f] = <<>>
  BY MaxArchivesAssumption DEF IInv, TypeOK, OneFileEach, Open, Names, Rotating
<1>2. CASE name[0] # Absent
  <2>1. name' = name
    BY <1>2 DEF Open
  <2> QED
    BY <1>1, <2>1, TrailByPieces
<1>3. CASE name[0] = Absent
  <2>1. created' = created + 1 /\ name' = [name EXCEPT ![0] = created']
    BY <1>3 DEF Open
  <2>2. created' \in Files /\ data[created'] = <<>> /\ created' # Absent
    BY <1>1, <2>1, MaxRecordsAssumption DEF Files, Absent
  <2>3. /\ name'[0] = created' /\ \A n \in Names : n # 0 => name'[n] = name[n]
    BY <1>1, <2>1
  <2>4. \A n \in Names : (IF name'[n] = Absent THEN <<>> ELSE data[name'[n]])
                          = (IF name[n] = Absent THEN <<>> ELSE data[name[n]])
    BY <1>3, <2>2, <2>3
  <2>5. \A n \in Names : ReadOf(name', data', n) = ReadOf(name, data, n)
    BY <1>1, <2>4 DEF ReadOf
  <2>6. \A i \in 1 .. MaxArchives + 1 : MaxArchives + 1 - i \in Names
    BY <1>1 DEF Names
  <2>7. Pieces(name', data') = Pieces(name, data)
    BY <2>5, <2>6 DEF Pieces, PieceOf
  <2> QED
    BY <1>1, <2>5, <2>7, TrailByPieces DEF LineOf
<1> QED
  BY <1>2, <1>3

(* What is on the open line while a text is written: first what was there,  *)
(* then the record's own bytes.                                             *)
LineInv ==
  /\ pc = "rest" => \E u \in Seq(1 .. made - 1) : LineOf(name, data) = Append(u, record)
  /\ pc = "newline" => \E u \in Seq(1 .. made - 1) :
                         LineOf(name, data) = Append(Append(u, record), record)

(* Every call keeps it so.                                                 *)
LEMMA LineInvStep == IInv /\ InOrder /\ LineInv /\ [Next]_vars => LineInv'
<1> SUFFICES ASSUME IInv, InOrder, LineInv, [Next]_vars PROVE LineInv'
  OBVIOUS
<1>1. CASE WriteText
  <2>1. /\ LineOf(name', data') = Append(LineOf(name, data), record)
        /\ UNCHANGED <<made, record>>
    BY <1>1, WriteTextLine DEF WriteText
  <2>2. CASE pc = "text"
    <3>1. LineOf(name, data) \in Seq(1 .. made - 1) /\ pc' = "rest"
      BY <1>1, <2>2, TrailType DEF Newest, WriteText
    <3> QED
      BY <2>1, <3>1 DEF LineInv
  <2>3. CASE pc = "rest"
    <3>1. PICK u \in Seq(1 .. made - 1) : LineOf(name, data) = Append(u, record)
      BY <2>3 DEF LineInv
    <3>2. pc' = "newline"
      BY <1>1, <2>3 DEF WriteText
    <3> QED
      BY <2>1, <3>1, <3>2 DEF LineInv
  <2> QED
    BY <1>1, <2>2, <2>3 DEF WriteText
<1>2. CASE CheckSize \/ PurgeOldest \/ Shift \/ Open \/ WriteNewline \/ Fail
  <2>1. pc' \notin {"rest", "newline"}
    BY <1>2 DEF CheckSize, PurgeOldest, Shift, Open, WriteNewline, Fail
  <2> QED
    BY <2>1 DEF LineInv
<1>3. CASE UNCHANGED vars
  BY <1>3 DEF vars, LineInv
<1> QED
  BY <1>1, <1>2, <1>3 DEF Next

(* What the line holds when the newline is about to be written.            *)
Closing ==
  /\ record \in OpenLine /\ \A r \in OpenLine : r <= record
  /\ OpenLine = {record} <=> IsText(LineOf(name, data))
  /\ IsText(LineOf(name, data)) => LineOf(name, data)[1] = record

LEMMA LineCloses == IInv /\ InOrder /\ LineInv /\ pc = "newline" => Closing
<1> SUFFICES ASSUME IInv, InOrder, LineInv, pc = "newline" PROVE Closing
  OBVIOUS
<1>1. PICK u \in Seq(1 .. made - 1) : LineOf(name, data) = Append(Append(u, record), record)
  BY DEF LineInv
<1>2. made \in Nat \ {0} /\ record = made
  BY DEF IInv, TypeOK, InOrder
<1> DEFINE line == LineOf(name, data)
           n == Len(u)
<1>3. /\ line \in Seq(1 .. made) /\ Len(line) = n + 2 /\ n \in Nat
      /\ line[n + 1] = made /\ line[n + 2] = made
      /\ \A i \in 1 .. n : line[i] = u[i] /\ u[i] \in 1 .. made - 1
  <2> DEFINE v == Append(u, made)
  <2>1. u \in Seq(1 .. made) /\ Len(u) \in Nat /\ \A i \in 1 .. Len(u) : u[i] \in 1 .. made - 1
    BY <1>2
  <2>2. /\ v \in Seq(1 .. made) /\ Len(v) = Len(u) + 1 /\ v[Len(u) + 1] = made
        /\ \A i \in 1 .. Len(u) : v[i] = u[i]
    BY <1>2, <2>1, AppendProperties
  <2>3. line = Append(v, made)
    BY <1>1, <1>2
  <2> HIDE DEF v, line
  <2>4. /\ line \in Seq(1 .. made) /\ Len(line) = Len(v) + 1 /\ line[Len(v) + 1] = made
        /\ \A i \in 1 .. Len(v) : line[i] = v[i]
    BY <1>2, <2>2, <2>3, AppendProperties
  <2> QED
    BY <2>1, <2>2, <2>4
<1>4. OpenLine = {line[i] : i \in 1 .. n + 2}
  <2>1. DOMAIN line = 1 .. n + 2
    BY <1>3
  <2> HIDE DEF line, n
  <2>2. ToSet(line) = {line[i] : i \in 1 .. n + 2}
    BY <2>1 DEF ToSet
  <2> QED
    BY <2>2, OpenLineByLine DEF line
<1> HIDE DEF line, n
<1>5. made \in OpenLine /\ \A r \in OpenLine : r <= made
  <2>1. n + 2 \in 1 .. n + 2
    BY <1>3
  <2>2. \A i \in 1 .. n + 2 : line[i] \in 1 .. made
    BY <1>3, ElementOfSeq
  <2> QED
    BY <1>2, <1>3, <1>4, <2>1, <2>2
<1>6. CASE n = 0
  <2>1. IsText(line) /\ line[1] = made
    BY <1>3, <1>6 DEF IsText
  <2>2. \A i \in 1 .. n + 2 : line[i] = made
    BY <1>3, <1>6
  <2>3. OpenLine = {made}
    BY <1>4, <1>5, <2>2
  <2> QED
    BY <1>2, <1>5, <2>1, <2>3 DEF Closing, line
<1>7. CASE n # 0
  <2>1. ~IsText(line)
    BY <1>3, <1>7 DEF IsText
  <2>2. 1 \in 1 .. n /\ 1 \in 1 .. n + 2 /\ line[1] # made
    BY <1>2, <1>3, <1>7
  <2>3. OpenLine # {made}
    BY <1>4, <2>2
  <2> QED
    BY <1>2, <1>5, <2>1, <2>3 DEF Closing, line
<1> QED
  BY <1>6, <1>7

(* Both begin empty.                                                       *)
LEMMA InitLog == Init => Log!Init /\ InOrder /\ LineInv
<1> SUFFICES ASSUME Init PROVE Log!Init /\ InOrder /\ LineInv
  OBVIOUS
<1>1. Newest = 0 /\ pc = "idle" /\ acked = 0
  BY DEF Init, Newest
<1>2. data \in [Files -> Seq(0 .. 0)]
  BY EmptySeq DEF Init
<1>3. name \in [Names -> Files \union {Absent}] /\ 0 \in Names
  BY MaxArchivesAssumption DEF Init, Names
<1> DEFINE p == Pieces(name, data)
<1>4. p \in Seq(Seq(1 .. 0))
  BY <1>2, <1>3, PiecesType
<1>5. Trail = FlattenSeq(p)
  BY TrailByPieces
<1> HIDE DEF p
<1>6. Trail \in Seq(1 .. 0)
  BY <1>4, <1>5, FlattenType
<1>7. Trail = <<>>
  BY <1>6
<1>8. OpenLine = {}
  <2>1. LineOf(name, data) \in Seq(1 .. 0)
    BY <1>2, <1>3, ReadOfType
  <2>2. DOMAIN LineOf(name, data) = {}
    BY <2>1
  <2> QED
    BY <2>2, OpenLineByLine DEF ToSet
<1> QED
  BY <1>1, <1>2, <1>7, <1>8 DEF Log!Init, InOrder, LineInv

(* The elements of a sequence, and what one more adds to them.              *)
LEMMA ToSetAppend ==
  ASSUME NEW S, NEW s \in Seq(S), NEW x \in S
  PROVE  ToSet(s) \subseteq S /\ ToSet(Append(s, x)) = ToSet(s) \union {x}
<1> DEFINE t == Append(s, x)
<1>1. /\ t \in Seq(S) /\ Len(t) = Len(s) + 1 /\ t[Len(s) + 1] = x
      /\ \A i \in 1 .. Len(s) : t[i] = s[i]
  BY AppendProperties
<1>2. DOMAIN s = 1 .. Len(s) /\ Len(s) \in Nat
  OBVIOUS
<1> HIDE DEF t
<1>3. DOMAIN t = 1 .. Len(s) + 1
  BY <1>1
<1>4. ToSet(s) = {s[i] : i \in 1 .. Len(s)} /\ ToSet(t) = {t[i] : i \in 1 .. Len(s) + 1}
  BY <1>2, <1>3 DEF ToSet
<1>5. ToSet(s) \subseteq S
  BY <1>4, ElementOfSeq
<1>6. \A i \in 1 .. Len(s) + 1 : i \in 1 .. Len(s) \/ i = Len(s) + 1
  BY <1>2
<1>7. \A i \in 1 .. Len(s) : i \in 1 .. Len(s) + 1
  BY <1>2
<1>8. Len(s) + 1 \in 1 .. Len(s) + 1
  BY <1>2
<1>9. ToSet(t) = ToSet(s) \union {x}
  BY <1>1, <1>4, <1>6, <1>7, <1>8
<1> QED
  BY <1>5, <1>9 DEF t

(* The first part of a text begins the record; the second one adds nothing. *)
LEMMA WriteTextLogs ==
  IInv /\ InOrder /\ LineInv /\ WriteText =>
    \/ Log!Begin(record) /\ record \in 1 .. MaxRecords
    \/ UNCHANGED Log!vars
<1> SUFFICES ASSUME IInv, InOrder, LineInv, WriteText
             PROVE  \/ Log!Begin(record) /\ record \in 1 .. MaxRecords
                    \/ UNCHANGED Log!vars
  OBVIOUS
<1>1. /\ Trail' = Trail /\ LineOf(name', data') = Append(LineOf(name, data), record)
      /\ acked' = acked
  BY WriteTextLine DEF WriteText
<1>2. record = made /\ made \in Nat \ {0} /\ record \in 1 .. MaxRecords
  BY DEF IInv, TypeOK, InOrder, WriteText
<1>3. /\ Trail \in Seq(1 .. Newest) /\ LineOf(name, data) \in Seq(1 .. Newest)
      /\ acked \in 0 .. Newest /\ Newest \in Nat /\ Newest <= made
  BY TrailType, NewestType DEF IInv, InOrder
<1>4. OpenLine \subseteq 1 .. Newest /\ OpenLine' = OpenLine \union {record}
  <2> DEFINE line == LineOf(name, data)
             x == record
             N == 1 .. Newest
             T == 1 .. made
  <2>1. line \in Seq(N) /\ line \in Seq(T) /\ x \in T
    BY <1>2, <1>3
  <2>2. OpenLine = ToSet(line) /\ OpenLine' = ToSet(Append(line, x))
    BY <1>1, OpenLineByLine
  <2> HIDE DEF line, x, N, T
  <2>3. \A i \in DOMAIN line : line[i] \in N
    BY <2>1, ElementOfSeq
  <2>4. ToSet(line) \subseteq N
    BY <2>3 DEF ToSet
  <2>5. ToSet(Append(line, x)) = ToSet(line) \union {x}
    BY <2>1, ToSetAppend
  <2> QED
    BY <2>2, <2>4, <2>5 DEF x, N
<1>5. CASE pc = "text"
  <2>1. Newest = record - 1
    BY <1>2, <1>5 DEF Newest
  <2>2. acked < record /\ \A s \in OpenLine : s < record
    BY <1>2, <1>3, <1>4, <2>1
  <2>3. \A i \in 1 .. Len(Trail) : Trail[i] < record
    <3> DEFINE t == Trail
    <3>1. t \in Seq(1 .. record - 1)
      BY <1>3, <2>1
    <3> HIDE DEF t
    <3>2. \A i \in 1 .. Len(t) : t[i] \in 1 .. record - 1
      BY <3>1, ElementOfSeq
    <3>3. \A i \in 1 .. Len(t) : t[i] < record
      BY <1>2, <3>2
    <3> QED
      BY <3>3 DEF t
  <2> QED
    BY <1>1, <1>2, <1>4, <2>2, <2>3 DEF Log!Begin
<1>6. CASE pc = "rest"
  <2>1. PICK u \in Seq(1 .. made - 1) : LineOf(name, data) = Append(u, record)
    BY <1>6 DEF LineInv
  <2>2. record \in OpenLine
    <3> DEFINE T == 1 .. made
               x == record
    <3>1. u \in Seq(T) /\ x \in T
      BY <1>2
    <3>2. OpenLine = ToSet(Append(u, x))
      BY <2>1, OpenLineByLine
    <3> HIDE DEF T, x
    <3>3. ToSet(Append(u, x)) = ToSet(u) \union {x}
      BY <3>1, ToSetAppend
    <3> QED
      BY <3>2, <3>3 DEF x
  <2> QED
    BY <1>1, <1>4, <2>2 DEF Log!vars
<1> QED
  BY <1>5, <1>6 DEF WriteText

(* The newline acknowledges it.                                            *)
LEMMA WriteNewlineLogs ==
  IInv /\ InOrder /\ LineInv /\ WriteNewline =>
    Log!Acknowledge(record) /\ record \in 1 .. MaxRecords
<1> SUFFICES ASSUME IInv, InOrder, LineInv, WriteNewline
             PROVE  Log!Acknowledge(record) /\ record \in 1 .. MaxRecords
  OBVIOUS
<1>1. record \in 1 .. MaxRecords /\ acked' = record /\ pc = "newline"
  BY DEF IInv, TypeOK, InOrder, WriteNewline
<1>2. Closing
  BY <1>1, LineCloses
<1> DEFINE line == LineOf(name, data)
<1>3. /\ LineOf(name', data') = <<>>
      /\ IsText(line) => Trail' = Append(Trail, line[1])
      /\ ~IsText(line) => Trail' = Trail
  BY WriteNewlineLine
<1>4. OpenLine' = {}
  BY <1>3, OpenLineByLine DEF ToSet
<1>5. Trail' = IF OpenLine = {record} THEN Append(Trail, record) ELSE Trail
  BY <1>2, <1>3 DEF Closing
<1> QED
  BY <1>1, <1>2, <1>4, <1>5 DEF Log!Acknowledge, Closing

(* Every step of an append is a step of the log, or none.                  *)
LEMMA StepLog == IInv /\ InOrder /\ LineInv /\ [Next]_vars => [Log!Next]_(Log!vars)
<1> SUFFICES ASSUME IInv, InOrder, LineInv, [Next]_vars PROVE [Log!Next]_(Log!vars)
  OBVIOUS
<1>1. CASE WriteText
  BY <1>1, WriteTextLogs DEF Log!Next
<1>2. CASE WriteNewline
  BY <1>2, WriteNewlineLogs DEF Log!Next
<1>3. CASE PurgeOldest
  <2>1. OpenLine' = OpenLine /\ acked' = acked
    BY <1>3, PurgeOldestForgets, OpenLineByLine DEF PurgeOldest
  <2>2. CASE Trail' = Trail
    BY <2>1, <2>2 DEF Log!vars
  <2>3. ASSUME NEW n \in 1 .. Len(Trail), Trail' = SubSeq(Trail, n + 1, Len(Trail))
        PROVE  Log!Next
    <3>1. Log!Forget(n)
      BY <2>1, <2>3 DEF Log!Forget
    <3> QED
      BY <3>1 DEF Log!Next
  <2> QED
    BY <1>3, <2>2, <2>3, PurgeOldestForgets
<1>4. CASE Shift
  <2>1. Trail' = Trail /\ acked' = acked
    BY <1>4, ShiftKeepsTrail DEF Shift
  <2>2. CASE LineOf(name', data') = LineOf(name, data)
    BY <2>1, <2>2, OpenLineByLine DEF Log!vars
  <2>3. CASE LineOf(name', data') = <<>>
    <3>1. OpenLine' = {}
      BY <2>3, OpenLineByLine DEF ToSet
    <3> QED
      BY <2>1, <3>1 DEF Log!Next, Log!PutAway
  <2> QED
    BY <1>4, <2>2, <2>3, ShiftKeepsTrail
<1>5. CASE Open
  BY <1>5, OpenKeepsTrail, OpenLineByLine DEF Open, Log!vars
<1>6. CASE CheckSize \/ Fail \/ UNCHANGED vars
  <2>1. name' = name /\ data' = data /\ acked' = acked
    BY <1>6 DEF CheckSize, Fail, vars
  <2>2. Trail' = Trail /\ OpenLine' = OpenLine
    BY <2>1, TrailByPieces, OpenLineByLine
  <2> QED
    BY <2>1, <2>2 DEF Log!vars
<1> QED
  BY <1>1, <1>2, <1>3, <1>4, <1>5, <1>6 DEF Next

(* Wherever an append fails or the program ends, and whatever the policy,   *)
(* the lines read from the oldest archive to the current file are a log     *)
(* that takes records at its end, in the order they were made, and forgets  *)
(* only its oldest.  A record whose append returned Ok is among them from   *)
(* then on, unless an earlier append had left its line open.                *)
THEOREM KeepsLog == Spec => ImplementsLog
  BY InitLog, StepLog, InOrderStep, LineInvStep, Inductive, PTL
     DEF Spec, ImplementsLog, Log!Spec

-----------------------------------------------------------------------------
(* Records are also not lost in between: unless a call failed, the trail is *)
(* the consecutive records up to the last one acknowledged.                 *)
NothingMissing ==
  ~faulty => \A i \in 1 .. Len(Trail) : Trail[i] = acked - Len(Trail) + i

(* Until a call fails every record made is acknowledged before the next,    *)
(* and no line is left open.                                                *)
WholeLines ==
  ~faulty =>
    /\ acked = IF pc = "idle" THEN made ELSE made - 1
    /\ OpenLine \subseteq IF pc \in {"rest", "newline"} THEN {record} ELSE {}

(* The place of a record among those left when n are forgotten.            *)
LEMMA Shifted ==
  ASSUME NEW m \in Nat, NEW len \in Nat, NEW n \in 1 .. len, NEW i \in Nat
  PROVE  len - n \in Nat /\ m - len + (i + n) = m - (len - n) + i
OBVIOUS

(* Every step leaves the lines whole.                                      *)
LEMMA WholeLinesStep ==
  IInv /\ InOrder /\ LineInv /\ WholeLines /\ [Next]_vars => WholeLines'
<1> SUFFICES ASSUME IInv, InOrder, LineInv, WholeLines, [Next]_vars, ~faulty'
             PROVE  /\ acked' = IF pc' = "idle" THEN made' ELSE made' - 1
                    /\ OpenLine' \subseteq IF pc' \in {"rest", "newline"} THEN {record'} ELSE {}
  BY DEF WholeLines
<1>1. made \in Nat /\ (pc # "idle" => record = made)
  BY DEF IInv, TypeOK, InOrder
<1>2. ~faulty /\ ~Fail
  BY DEF Next, vars, CheckSize, PurgeOldest, Shift, Open, WriteText, WriteNewline, Fail
<1>3. /\ acked = IF pc = "idle" THEN made ELSE made - 1
      /\ OpenLine \subseteq IF pc \in {"rest", "newline"} THEN {record} ELSE {}
  BY <1>2 DEF WholeLines
<1>4. CASE CheckSize
  <2>1. /\ name' = name /\ data' = data /\ acked' = acked /\ made' = made + 1
        /\ pc = "idle" /\ pc' \in {"purge", "open"}
    BY <1>4 DEF CheckSize
  <2>2. OpenLine' = OpenLine
    BY <2>1, OpenLineByLine
  <2> QED
    BY <1>1, <1>3, <2>1, <2>2
<1>5. CASE PurgeOldest \/ Shift \/ Open
  <2>1. /\ pc \in {"purge", "shift", "open"} /\ pc' \in {"shift", "open", "text"}
        /\ acked' = acked /\ made' = made
    BY <1>5 DEF PurgeOldest, Shift, Open
  <2>2. LineOf(name', data') = LineOf(name, data) \/ LineOf(name', data') = <<>>
    BY <1>5, PurgeOldestForgets, ShiftKeepsTrail, OpenKeepsTrail
  <2>3. OpenLine' = OpenLine \/ OpenLine' = {}
    BY <2>2, OpenLineByLine DEF ToSet
  <2> QED
    BY <1>3, <2>1, <2>3
<1>6. CASE WriteText
  <2>1. /\ pc \in {"text", "rest"} /\ pc' \in {"rest", "newline"}
        /\ acked' = acked /\ made' = made /\ record' = record
    BY <1>6 DEF WriteText
  <2>2. OpenLine' = OpenLine \/ OpenLine' = OpenLine \union {record}
    BY <1>6, WriteTextLogs DEF Log!Begin, Log!vars
  <2> QED
    BY <1>3, <2>1, <2>2
<1>7. CASE WriteNewline
  <2>1. pc' = "idle" /\ acked' = made /\ made' = made /\ OpenLine' = {}
    BY <1>1, <1>7, WriteNewlineLogs DEF WriteNewline, Log!Acknowledge
  <2> QED
    BY <2>1
<1>8. CASE UNCHANGED vars
  <2>1. OpenLine' = OpenLine
    BY <1>8, OpenLineByLine DEF vars
  <2> QED
    BY <1>3, <1>8, <2>1 DEF vars
<1> QED
  BY <1>2, <1>4, <1>5, <1>6, <1>7, <1>8 DEF Next

(* Every step leaves the records consecutive.                              *)
LEMMA NothingMissingStep ==
  IInv /\ InOrder /\ LineInv /\ WholeLines /\ NothingMissing /\ [Next]_vars => NothingMissing'
<1> SUFFICES ASSUME IInv, InOrder, LineInv, WholeLines, NothingMissing, [Next]_vars, ~faulty'
             PROVE  \A i \in 1 .. Len(Trail') : Trail'[i] = acked' - Len(Trail') + i
  BY DEF NothingMissing
<1>1. /\ Trail \in Seq(1 .. Newest) /\ Newest \in Nat /\ made \in Nat /\ acked \in Nat
      /\ pc # "idle" => record = made
  BY TrailType, NewestType DEF IInv, InOrder
<1>2. ~faulty /\ ~Fail
  BY DEF Next, vars, CheckSize, PurgeOldest, Shift, Open, WriteText, WriteNewline, Fail
<1>3. \A i \in 1 .. Len(Trail) : Trail[i] = acked - Len(Trail) + i
  BY <1>2 DEF NothingMissing
<1>4. ASSUME Trail' = Trail, acked' = acked
      PROVE  \A i \in 1 .. Len(Trail') : Trail'[i] = acked' - Len(Trail') + i
  BY <1>3, <1>4
<1>5. CASE WriteNewline
  <2>1. /\ pc = "newline" /\ record = made
        /\ Log!Acknowledge(record)
    BY <1>1, <1>5, WriteNewlineLogs DEF WriteNewline
  <2>2. acked = made - 1 /\ OpenLine \subseteq {record}
    BY <1>2, <2>1 DEF WholeLines
  <2>3. acked' = made /\ Trail' = Append(Trail, made)
    BY <2>1, <2>2 DEF Log!Acknowledge
  <2> DEFINE q == Trail
             r == Trail'
             x == made
  <2>4. q \in Seq(Nat) /\ r = Append(q, x) /\ x \in Nat
    BY <1>1, <2>3
  <2>5. \A i \in 1 .. Len(q) : q[i] = x - 1 - Len(q) + i
    BY <1>3, <2>2
  <2> HIDE DEF q, r, x
  <2>6. \A i \in 1 .. Len(r) : r[i] = x - Len(r) + i
    BY <2>4, <2>5, AppendProperties
  <2> QED
    BY <2>3, <2>6 DEF r, x
<1>6. CASE PurgeOldest
  <2>1. acked' = acked
    BY <1>6 DEF PurgeOldest
  <2>2. CASE Trail' = Trail
    BY <1>4, <2>1, <2>2
  <2>3. ASSUME NEW n \in 1 .. Len(Trail), Trail' = SubSeq(Trail, n + 1, Len(Trail))
        PROVE  \A i \in 1 .. Len(Trail') : Trail'[i] = acked' - Len(Trail') + i
    <3> DEFINE q == Trail
               r == Trail'
               m == acked
    <3>1. q \in Seq(Nat) /\ m \in Nat /\ n \in 1 .. Len(q) /\ r = SubSeq(q, n + 1, Len(q))
      BY <1>1, <2>3
    <3>2. \A i \in 1 .. Len(q) : q[i] = m - Len(q) + i
      BY <1>3
    <3> HIDE DEF q, r, m
    <3>3. Len(r) = Len(q) - n /\ \A i \in 1 .. Len(r) : r[i] = q[i + n]
      BY <3>1
    <3>4. ASSUME NEW i \in 1 .. Len(r) PROVE r[i] = m - Len(r) + i
      <4>1. Len(q) \in Nat /\ Len(r) = Len(q) - n /\ i \in Nat
        BY <3>1, <3>3
      <4>2. i + n \in 1 .. Len(q) /\ r[i] = q[i + n]
        BY <3>1, <3>3, <4>1
      <4>3. r[i] = m - Len(q) + (i + n)
        BY <3>2, <4>2
      <4>4. Len(q) - n \in Nat /\ m - Len(q) + (i + n) = m - (Len(q) - n) + i
        BY <3>1, <4>1, Shifted
      <4>5. r[i] = m - (Len(q) - n) + i
        BY <4>3, <4>4
      <4> QED
        BY <4>1, <4>5, Zenon
    <3> QED
      BY <2>1, <3>4 DEF r, m
  <2> QED
    BY <1>6, <2>2, <2>3, PurgeOldestForgets
<1>7. CASE Shift \/ Open \/ WriteText
  <2>1. Trail' = Trail /\ acked' = acked
    BY <1>7, ShiftKeepsTrail, OpenKeepsTrail, WriteTextLine DEF Shift, Open, WriteText
  <2> QED
    BY <1>4, <2>1
<1>8. CASE CheckSize \/ UNCHANGED vars
  <2>1. name' = name /\ data' = data /\ acked' = acked
    BY <1>8 DEF CheckSize, vars
  <2> QED
    BY <1>4, <2>1, TrailByPieces
<1> QED
  BY <1>2, <1>5, <1>6, <1>7, <1>8 DEF Next

(* A trail no call failed for ends with the last record acknowledged and    *)
(* has every record since its oldest: renames and removals                  *)
(* (rotate_if_needed, audit_trail.rs) lose records from the oldest end only.*)
THEOREM NothingIsMissing == Spec => []NothingMissing
<1>1. Init => NothingMissing /\ WholeLines
  <2> SUFFICES ASSUME Init PROVE NothingMissing /\ WholeLines
    OBVIOUS
  <2>1. Trail = <<>> /\ OpenLine = {} /\ acked = 0
    BY InitLog DEF Log!Init
  <2> QED
    BY <2>1 DEF NothingMissing, WholeLines, Init
<1> QED
  BY <1>1, InitLog, InOrderStep, LineInvStep, WholeLinesStep, NothingMissingStep, Inductive, PTL
     DEF Spec

=============================================================================
