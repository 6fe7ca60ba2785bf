---------------------------- MODULE StatementProofs ----------------------------
(* Proofs about the two parts a statement passes through one after the      *)
(* other: SafeMode, which takes its text apart before it is run, for any    *)
(* text, and QueryStream, which runs it, for any capacity and number of     *)
(* rows.                                                                    *)
EXTENDS Integers, SafeMode, QueryStream, SequenceTheorems, WellFoundedInduction, TLAPS

-----------------------------------------------------------------------------
(* Natural numbers. *)

(* A nonempty set of natural numbers has a least element.                   *)
LEMMA LeastNatural ==
  ASSUME NEW T, T \subseteq Nat, T # {}
  PROVE  \E m \in T : \A n \in T : m <= n
<1> DEFINE R == {p \in Nat \X Nat : p[1] < p[2]}
<1>1. IsWellFoundedOn(R, Nat)
  BY NatLessThanWellFounded DEF OpToRel
<1>2. \A n, m \in Nat : n < m => <<n, m>> \in R
  OBVIOUS
<1> HIDE DEF R
<1>3. \E m \in T : \A n \in T : ~(<<n, m>> \in R)
  BY <1>1, WFMin
<1>4. PICK m \in T : \A n \in T : <<n, m>> \notin R
  BY <1>3
<1>5. \A n \in T : ~(n < m)
  BY <1>2, <1>4
<1>6. \A n \in T : m <= n
  BY <1>5
<1> QED
  BY <1>6

(* A set that holds 0 and every successor of its members holds them all.    *)
LEMMA InductionOnSet ==
  ASSUME NEW S, 0 \in S, \A n \in Nat : n \in S => n + 1 \in S
  PROVE  Nat \subseteq S
<1> SUFFICES ASSUME Nat \ S # {} PROVE FALSE
  OBVIOUS
<1>1. PICK m \in Nat \ S : \A n \in Nat \ S : m <= n
  BY LeastNatural
<1>2. m # 0
  OBVIOUS
<1>3. m - 1 \in Nat /\ m - 1 < m /\ (m - 1) + 1 = m
  BY <1>2
<1>4. m - 1 \in S
  BY <1>1, <1>3
<1> QED
  BY <1>1, <1>3, <1>4

(* A set that holds the first number of an interval and, with each but the  *)
(* last, the next one, holds the interval.                                  *)
LEMMA InductionBetween ==
  ASSUME NEW a \in Nat, NEW b \in Nat, NEW S, a \in S,
         \A i \in a .. b - 1 : i \in S => i + 1 \in S
  PROVE  a .. b \subseteq S
<1> DEFINE T == {n \in Nat : n \in a .. b => n \in S}
<1>1. 0 \in T
  OBVIOUS
<1>2. ASSUME NEW n \in Nat, n \in T PROVE n + 1 \in T
  <2> SUFFICES ASSUME n + 1 \in a .. b PROVE n + 1 \in S
    OBVIOUS
  <2>1. n + 1 = a \/ n \in a .. b - 1
    OBVIOUS
  <2>2. CASE n \in a .. b - 1
    <3>1. n \in S
      BY <1>2, <2>2
    <3> QED
      BY <2>2, <3>1
  <2> QED
    BY <2>1, <2>2
<1> HIDE DEF T
<1>3. Nat \subseteq T
  BY <1>1, <1>2, InductionOnSet
<1> QED
  BY <1>3 DEF T

(* The least of a set of natural numbers.                                  *)
LEMMA MinType ==
  ASSUME NEW T, T \subseteq Nat, T # {}
  PROVE  Min(T) \in T /\ \A n \in T : Min(T) <= n
  BY LeastNatural DEF Min

(* A bounded set of numbers has a greatest element.                        *)
LEMMA GreatestBelow ==
  ASSUME NEW n \in Nat, NEW T \in SUBSET (0 .. n), T # {}
  PROVE  \E x \in T : \A y \in T : y <= x
<1> DEFINE S == {n - x : x \in T}
<1>1. S \subseteq Nat
  <2> SUFFICES ASSUME NEW x \in T PROVE n - x \in Nat
    OBVIOUS
  <2>1. x \in 0 .. n
    OBVIOUS
  <2> QED
    BY <2>1
<1>5. S # {}
  OBVIOUS
<1>2. PICK m \in S : \A y \in S : m <= y
  BY <1>1, <1>5, LeastNatural
<1>3. PICK x \in T : m = n - x
  BY <1>2
<1>4. \A y \in T : y <= x
  <2> SUFFICES ASSUME NEW y \in T PROVE y <= x
    OBVIOUS
  <2>1. n - x <= n - y
    BY <1>2, <1>3
  <2> QED
    BY <2>1
<1> QED
  BY <1>4

-----------------------------------------------------------------------------
(* One turn of the scanner. *)

Trims == {Trim(x) : x \in Seq(STRING)}

Modes == {"plain", "line", "block"} \union Quotes

ScanState ==
  [mode : Modes, current : Seq(STRING), statements : Seq(Trims), skip : BOOLEAN]

(* What a turn does to the statements: nothing, one more character for the *)
(* current one, or its end.                                                *)
Passes(s, r)    == r.current = s.current /\ r.statements = s.statements
Takes(s, r, ch) == r.current = Append(s.current, ch) /\ r.statements = s.statements
Ends(s, r) ==
  /\ r.current = <<>>
  /\ r.statements = IF Trim(s.current) = <<>> THEN s.statements
                    ELSE Append(s.statements, Trim(s.current))

In(r, mode)    == r.mode = mode /\ r.skip = FALSE
Ahead(r, mode) == r.mode = mode /\ r.skip = TRUE

(* The end of a statement.                                                 *)
LEMMA EndedEnds ==
  ASSUME NEW s \in ScanState
  PROVE  /\ Ended(s) \in ScanState
         /\ Ends(s, Ended(s))
         /\ Ended(s).mode = s.mode /\ Ended(s).skip = s.skip
<1> DEFINE x == Trim(s.current)
<1>1. x \in Trims
  BY DEF Trims, ScanState
<1>2. s.statements \in Seq(Trims)
  BY DEF ScanState
<1>3. Append(s.statements, x) \in Seq(Trims)
  BY <1>1, <1>2
<1>4. <<>> \in Seq(STRING)
  BY EmptySeq
<1>5. Ended(s) = [s EXCEPT !.current = <<>>,
                           !.statements = IF x = <<>> THEN @ ELSE Append(@, x)]
  BY DEF Ended
<1> HIDE DEF x
<1>6. Ended(s) \in ScanState /\ Ended(s).mode = s.mode /\ Ended(s).skip = s.skip
  BY <1>2, <1>3, <1>4, <1>5 DEF ScanState
<1>7. /\ Ended(s).current = <<>>
      /\ Ended(s).statements = IF x = <<>> THEN s.statements ELSE Append(s.statements, x)
  BY <1>5 DEF ScanState
<1> QED
  BY <1>6, <1>7 DEF Ends, x

(* A character that was consumed ahead.                                    *)
LEMMA ScannedSkipped ==
  ASSUME NEW t, NEW s \in ScanState, NEW i, s.skip
  PROVE  LET r == Scanned(t, s, i)
         IN  r \in ScanState /\ In(r, s.mode) /\ Passes(s, r)
  BY DEF Quotes, Scanned, ScanState, In, Passes

(* Inside a line comment.                                                  *)
LEMMA ScannedInLine ==
  ASSUME NEW t, NEW s \in ScanState, NEW i, In(s, "line")
  PROVE  LET r == Scanned(t, s, i)
         IN  /\ r \in ScanState /\ Passes(s, r)
             /\ In(r, IF t[i] = NewLine THEN "plain" ELSE "line")
<1> DEFINE mode == IF t[i] = NewLine THEN "plain" ELSE "line"
<1>1. s.mode = "line" /\ s.skip = FALSE
  BY DEF In
<1>2. Scanned(t, s, i) = [s EXCEPT !.mode = mode]
  BY <1>1 DEF Quotes, Scanned
<1>3. mode \in Modes
  BY DEF Modes
<1> HIDE DEF mode
<1>4. /\ Scanned(t, s, i) \in ScanState /\ Passes(s, Scanned(t, s, i))
      /\ In(Scanned(t, s, i), mode)
  BY <1>1, <1>2, <1>3 DEF ScanState, In, Passes
<1> QED
  BY <1>4 DEF mode

(* Inside a block comment.                                                 *)
LEMMA ScannedInBlock ==
  ASSUME NEW t, NEW s \in ScanState, NEW i, In(s, "block")
  PROVE  LET r == Scanned(t, s, i)
         IN  /\ r \in ScanState /\ Passes(s, r)
             /\ IF t[i] = "*" /\ At(t, i + 1) = "/" THEN Ahead(r, "plain")
                ELSE In(r, "block")
<1>1. s.mode = "block" /\ s.skip = FALSE
  BY DEF In
<1>2. CASE t[i] = "*" /\ At(t, i + 1) = "/"
  <2>1. Scanned(t, s, i) = [s EXCEPT !.mode = "plain", !.skip = TRUE]
    BY <1>1, <1>2 DEF Quotes, Scanned
  <2> QED
    BY <1>1, <1>2, <2>1 DEF Modes, ScanState, Ahead, Passes
<1>3. CASE ~(t[i] = "*" /\ At(t, i + 1) = "/")
  <2>1. Scanned(t, s, i) = s
    BY <1>1, <1>3 DEF Quotes, Scanned
  <2> QED
    BY <1>1, <1>3, <2>1 DEF ScanState, In, Passes
<1> QED
  BY <1>2, <1>3

(* Inside a quoted text.                                                   *)
LEMMA ScannedInQuote ==
  ASSUME NEW t \in Seq(STRING), NEW s \in ScanState, NEW i \in DOMAIN t,
         NEW q \in Quotes, In(s, q)
  PROVE  LET r == Scanned(t, s, i)
         IN  /\ r \in ScanState /\ Takes(s, r, t[i])
             /\ In(r, IF t[i] = q THEN "plain" ELSE q)
<1>1. t[i] \in STRING /\ q \in Modes /\ "plain" \in Modes
  BY DEF Modes
<1>2. Append(s.current, t[i]) \in Seq(STRING)
  BY <1>1 DEF ScanState
<1>3. q \notin {"plain", "line", "block"} /\ s.mode = q /\ ~s.skip
  BY DEF Quotes, In
<1>4. CASE t[i] = q
  <2>1. Scanned(t, s, i) = [s EXCEPT !.mode = IF @ = t[i] THEN "plain" ELSE t[i],
                                     !.current = Append(@, t[i])]
    BY <1>3, <1>4 DEF Quotes, Scanned
  <2> QED
    BY <1>1, <1>2, <1>3, <1>4, <2>1 DEF ScanState, In, Takes
<1>5. CASE t[i] # q
  <2>1. Scanned(t, s, i) = [s EXCEPT !.current = Append(@, t[i])]
    BY <1>3, <1>5 DEF Quotes, Scanned
  <2> QED
    BY <1>1, <1>2, <1>3, <1>5, <2>1 DEF ScanState, In, Takes
<1> QED
  BY <1>4, <1>5

(* Outside of quotes and comments.                                         *)
LEMMA ScannedInPlain ==
  ASSUME NEW t \in Seq(STRING), NEW s \in ScanState, NEW i \in DOMAIN t, In(s, "plain")
  PROVE  LET r == Scanned(t, s, i)
         IN  /\ r \in ScanState
             /\ StartsLine(t, i) =>
                  Passes(s, r) /\ (IF t[i] = "#" THEN In(r, "line") ELSE Ahead(r, "line"))
             /\ StartsBlock(t, i) => Passes(s, r) /\ Ahead(r, "block")
             /\ t[i] = ";" => Ends(s, r) /\ In(r, "plain")
             /\ t[i] \in Quotes => Takes(s, r, t[i]) /\ In(r, t[i])
             /\ ~StartsLine(t, i) /\ ~StartsBlock(t, i) /\ t[i] \notin Quotes \union {";"}
                  => Takes(s, r, t[i]) /\ In(r, "plain")
<1> DEFINE r == Scanned(t, s, i)
<1>1. t[i] \in STRING /\ s.mode = "plain" /\ s.skip = FALSE
  BY DEF In
<1> USE DEF Modes
<1>2. Append(s.current, t[i]) \in Seq(STRING)
  BY <1>1 DEF ScanState
<1>3. CASE StartsLine(t, i)
  <2>1. t[i] # "#" => t[i] = "-" /\ At(t, i + 1) = "-"
    BY <1>3 DEF StartsLine
  <2>2. t[i] \notin Quotes \union {";", "/"}
    BY <2>1 DEF Quotes
  <2>3. r = IF t[i] = "#" THEN [s EXCEPT !.mode = "line"]
            ELSE [s EXCEPT !.mode = "line", !.skip = TRUE]
    BY <1>1, <2>1 DEF Quotes, Scanned
  <2>4. ~StartsBlock(t, i)
    BY <2>2 DEF StartsBlock
  <2>5. t[i] = "#" => r \in ScanState /\ Passes(s, r) /\ In(r, "line")
    BY <1>1, <2>3 DEF ScanState, In, Passes
  <2>6. t[i] # "#" => r \in ScanState /\ Passes(s, r) /\ Ahead(r, "line")
    BY <1>1, <2>3 DEF ScanState, Ahead, Passes
  <2> HIDE DEF r
  <2>7. /\ r \in ScanState /\ Passes(s, r)
        /\ IF t[i] = "#" THEN In(r, "line") ELSE Ahead(r, "line")
    BY <2>5, <2>6
  <2> QED
    BY <1>3, <2>2, <2>4, <2>7 DEF r
<1>4. CASE StartsBlock(t, i)
  <2>1. t[i] = "/" /\ At(t, i + 1) = "*"
    BY <1>4 DEF StartsBlock
  <2>2. ~StartsLine(t, i) /\ t[i] \notin Quotes \union {";"}
    BY <2>1 DEF Quotes, StartsLine
  <2>3. r = [s EXCEPT !.mode = "block", !.skip = TRUE]
    BY <1>1, <2>1 DEF Quotes, Scanned
  <2> QED
    BY <1>1, <1>4, <2>2, <2>3 DEF ScanState, Ahead, Passes
<1>5. CASE t[i] = ";"
  <2>1. ~StartsLine(t, i) /\ ~StartsBlock(t, i) /\ t[i] \notin Quotes
    BY <1>5 DEF Quotes, StartsLine, StartsBlock
  <2>2. r = Ended(s)
    BY <1>1, <1>5 DEF Quotes, Scanned
  <2> QED
    BY <1>1, <1>5, <2>1, <2>2, EndedEnds DEF In
<1>6. CASE t[i] \in Quotes
  <2>1. ~StartsLine(t, i) /\ ~StartsBlock(t, i) /\ t[i] # ";" /\ t[i] # "plain"
    BY <1>6 DEF Quotes, StartsLine, StartsBlock
  <2>2. r = [s EXCEPT !.mode = IF @ = t[i] THEN "plain" ELSE t[i],
                      !.current = Append(@, t[i])]
    BY <1>1, <1>6, <2>1 DEF Quotes, Scanned, StartsLine, StartsBlock
  <2> QED
    BY <1>1, <1>2, <1>6, <2>1, <2>2 DEF ScanState, In, Takes
<1>7. CASE ~StartsLine(t, i) /\ ~StartsBlock(t, i) /\ t[i] \notin Quotes \union {";"}
  <2>1. r = [s EXCEPT !.current = Append(@, t[i])]
    BY <1>1, <1>7 DEF Quotes, Scanned, StartsLine, StartsBlock
  <2> QED
    BY <1>1, <1>2, <1>7, <2>1 DEF ScanState, In, Takes
<1> QED
  BY <1>3, <1>4, <1>5, <1>6, <1>7

-----------------------------------------------------------------------------
(* The states of the scanner, from the first character to the last. *)

Scans(f, t) ==
  /\ f[0] = Scanner
  /\ \A i \in 1 .. Len(t) : f[i] = Scanned(t, f[i - 1], i)

(* They exist for every text.                                              *)
LEMMA ScanExists ==
  ASSUME NEW t \in Seq(STRING)
  PROVE  \E f : f = [i \in 0 .. Len(t) |->
                       IF i = 0 THEN Scanner ELSE Scanned(t, f[i - 1], i)]
<1> DEFINE Part(g, n) ==
             g = [i \in 0 .. n |-> IF i = 0 THEN Scanner ELSE Scanned(t, g[i - 1], i)]
           A == {n \in Nat : \E g : Part(g, n)}
<1>1. 0 \in A
  <2> DEFINE g == [i \in 0 .. 0 |-> Scanner]
  <2>1. Part(g, 0)
    OBVIOUS
  <2> QED
    BY <2>1
<1>2. ASSUME NEW n \in Nat, n \in A PROVE n + 1 \in A
  <2>1. PICK g : Part(g, n)
    BY <1>2
  <2> DEFINE last == Scanned(t, g[n], n + 1)
             h == [i \in 0 .. n + 1 |-> IF i <= n THEN g[i] ELSE last]
  <2>2. ASSUME NEW i \in 0 .. n + 1
        PROVE  h[i] = IF i = 0 THEN Scanner ELSE Scanned(t, h[i - 1], i)
    <3>1. i # 0 => i - 1 \in 0 .. n /\ i - 1 \in 0 .. n + 1
      OBVIOUS
    <3>2. i # 0 => h[i - 1] = g[i - 1]
      BY <3>1
    <3>3. CASE i <= n
      <4>1. i \in 0 .. n /\ h[i] = g[i]
        BY <3>3
      <4> HIDE DEF h
      <4> QED
        BY <2>1, <3>2, <4>1
    <3>4. CASE ~(i <= n)
      <4>1. i = n + 1 /\ i - 1 = n /\ i # 0 /\ h[i] = last
        BY <3>4
      <4> HIDE DEF h
      <4> QED
        BY <3>2, <4>1
    <3> QED
      BY <3>3, <3>4
  <2>3. DOMAIN h = 0 .. n + 1 /\ h = [i \in 0 .. n + 1 |-> h[i]]
    OBVIOUS
  <2> HIDE DEF h
  <2>4. Part(h, n + 1)
    BY <2>2, <2>3
  <2> HIDE DEF Part
  <2>5. \E p : Part(p, n + 1)
    BY <2>4
  <2> QED
    BY <2>5
<1> HIDE DEF A
<1>3. Nat \subseteq A
  BY <1>1, <1>2, InductionOnSet
<1>4. Len(t) \in A
  BY <1>3
<1> QED
  BY <1>4 DEF A

(* Statements are those of the state after the last character, once the    *)
(* current one is ended.                                                   *)
LEMMA StatementsByScan ==
  ASSUME NEW t \in Seq(STRING)
  PROVE  \E f : Scans(f, t) /\ Statements(t) = Ended(f[Len(t)]).statements
<1> DEFINE f == CHOOSE f : f = [i \in 0 .. Len(t) |->
                                  IF i = 0 THEN Scanner ELSE Scanned(t, f[i - 1], i)]
<1>1. Statements(t) = Ended(f[Len(t)]).statements
  BY Zenon DEF Statements
<1>2. f = [i \in 0 .. Len(t) |-> IF i = 0 THEN Scanner ELSE Scanned(t, f[i - 1], i)]
  BY ScanExists, Zenon
<1> HIDE DEF f
<1>3. Len(t) \in Nat
  OBVIOUS
<1>4. f[0] = Scanner
  BY <1>2, <1>3
<1>5. ASSUME NEW i \in 1 .. Len(t) PROVE f[i] = Scanned(t, f[i - 1], i)
  <2>1. i \in 0 .. Len(t) /\ i # 0
    BY <1>3
  <2> QED
    BY <1>2, <2>1
<1>6. Scans(f, t)
  BY <1>4, <1>5 DEF Scans
<1> QED
  BY <1>1, <1>6

(* The first state of the scanner.                                         *)
LEMMA ScannerType ==
  Scanner \in ScanState /\ In(Scanner, "plain") /\ Scanner.current = <<>>
  /\ Scanner.statements = <<>>
<1>1. <<>> \in Seq(STRING) /\ <<>> \in Seq(Trims)
  BY EmptySeq
<1> QED
  BY <1>1 DEF Scanner, ScanState, Modes, In

(* A turn of the scanner leads from a state to a state.                    *)
LEMMA ScannedType ==
  ASSUME NEW t \in Seq(STRING), NEW s \in ScanState, NEW i \in DOMAIN t
  PROVE  Scanned(t, s, i) \in ScanState
<1>1. s.mode \in Modes /\ s.skip \in BOOLEAN
  BY DEF ScanState
<1>2. CASE s.skip
  BY <1>2, ScannedSkipped
<1>3. CASE In(s, "line")
  BY <1>3, ScannedInLine
<1>4. CASE In(s, "block")
  BY <1>4, ScannedInBlock
<1>5. CASE In(s, "plain")
  BY <1>5, ScannedInPlain
<1>6. ASSUME NEW q \in Quotes, In(s, q) PROVE Scanned(t, s, i) \in ScanState
  BY <1>6, ScannedInQuote
<1>7. ~s.skip => In(s, s.mode)
  BY <1>1 DEF In
<1> QED
  BY <1>1, <1>2, <1>3, <1>4, <1>5, <1>6, <1>7 DEF Modes

(* So each of them is one.                                                 *)
LEMMA ScansType ==
  ASSUME NEW t \in Seq(STRING), NEW f, Scans(f, t)
  PROVE  \A i \in 0 .. Len(t) : f[i] \in ScanState
<1> DEFINE A == {i \in Nat : f[i] \in ScanState}
<1>1. 0 \in A
  BY ScannerType DEF Scans
<1>2. ASSUME NEW i \in 0 .. Len(t) - 1, i \in A PROVE i + 1 \in A
  <2>1. i + 1 \in 1 .. Len(t) /\ (i + 1) - 1 = i /\ i + 1 \in DOMAIN t
    OBVIOUS
  <2>2. f[i + 1] = Scanned(t, f[i], i + 1)
    BY <2>1 DEF Scans
  <2>3. f[i] \in ScanState
    BY <1>2
  <2>4. f[i + 1] \in ScanState
    BY <2>1, <2>2, <2>3, ScannedType
  <2> QED
    BY <2>1, <2>4
<1> HIDE DEF A
<1>3. 0 \in Nat /\ Len(t) \in Nat
  OBVIOUS
<1>4. 0 .. Len(t) \subseteq A
  BY <1>1, <1>2, <1>3, InductionBetween
<1> QED
  BY <1>4 DEF A

-----------------------------------------------------------------------------
(* Lexemes, as the scanner goes through them. *)

Fresh(f, i) == In(f[i], "plain")

Starts(f, t) == {a \in DOMAIN t : Fresh(f, a - 1)}

Comment(t, a) == StartsLine(t, a) \/ StartsBlock(t, a)

(* What the scanner does with the lexeme that starts at a and ends at e.   *)
Traversed(f, t, a, e) ==
  /\ e \in a .. Len(t)
  /\ \A i \in a .. e - 1 : ~Fresh(f, i)
  /\ e < Len(t) => Fresh(f, e)
  /\ Comment(t, a) => t[a] # ";" /\ \A j \in a .. e : Passes(f[j - 1], f[j])
  /\ t[a] = ";" => e = a /\ Ends(f[a - 1], f[a])
  /\ ~Comment(t, a) /\ t[a] # ";" => \A j \in a .. e : Takes(f[j - 1], f[j], t[j])

(* Where a lexeme ends: at the first of its possible ends, or with the     *)
(* text.                                                                   *)
LEMMA EndsAtType ==
  ASSUME NEW t \in Seq(STRING), NEW ends \in SUBSET (1 .. Len(t))
  PROVE  LET e == EndsAt(t, ends)
         IN  /\ e \in ends \/ (ends = {} /\ e = Len(t))
             /\ \A b \in ends : e <= b
<1>1. CASE ends = {}
  BY <1>1 DEF EndsAt
<1>2. CASE ends # {}
  <2>1. ends \subseteq Nat
    OBVIOUS
  <2>2. Min(ends) \in ends /\ \A b \in ends : Min(ends) <= b
    BY <1>2, <2>1, MinType
  <2> QED
    BY <1>2, <2>2 DEF EndsAt
<1> QED
  BY <1>1, <1>2

(* A turn of the scanner, by the state it starts in.                       *)
LEMMA ScansStep ==
  ASSUME NEW t \in Seq(STRING), NEW f, Scans(f, t), NEW i \in 1 .. Len(t)
  PROVE  /\ f[i] = Scanned(t, f[i - 1], i)
         /\ f[i - 1] \in ScanState
         /\ i \in DOMAIN t
<1>1. i - 1 \in 0 .. Len(t)
  OBVIOUS
<1> QED
  BY <1>1, ScansType DEF Scans

(* The state after a character that was consumed ahead.                    *)
LEMMA StepSkipped ==
  ASSUME NEW t \in Seq(STRING), NEW f, Scans(f, t), NEW i \in 1 .. Len(t), f[i - 1].skip
  PROVE  In(f[i], f[i - 1].mode) /\ Passes(f[i - 1], f[i])
<1>1. f[i] = Scanned(t, f[i - 1], i) /\ f[i - 1] \in ScanState /\ i \in DOMAIN t
  BY ScansStep
<1> DEFINE s == f[i - 1]
<1> HIDE DEF s
<1> QED
  BY <1>1, ScannedSkipped DEF s

(* The state after a character of a line comment.                          *)
LEMMA StepInLine ==
  ASSUME NEW t \in Seq(STRING), NEW f, Scans(f, t), NEW i \in 1 .. Len(t), In(f[i - 1], "line")
  PROVE  Passes(f[i - 1], f[i]) /\ In(f[i], IF t[i] = NewLine THEN "plain" ELSE "line")
<1>1. f[i] = Scanned(t, f[i - 1], i) /\ f[i - 1] \in ScanState /\ i \in DOMAIN t
  BY ScansStep
<1> DEFINE s == f[i - 1]
<1> HIDE DEF s
<1> QED
  BY <1>1, ScannedInLine DEF s

(* The state after a character of a block comment.                         *)
LEMMA StepInBlock ==
  ASSUME NEW t \in Seq(STRING), NEW f, Scans(f, t), NEW i \in 1 .. Len(t), In(f[i - 1], "block")
  PROVE  /\ Passes(f[i - 1], f[i])
         /\ IF t[i] = "*" /\ At(t, i + 1) = "/" THEN Ahead(f[i], "plain")
            ELSE In(f[i], "block")
<1>1. f[i] = Scanned(t, f[i - 1], i) /\ f[i - 1] \in ScanState /\ i \in DOMAIN t
  BY ScansStep
<1> DEFINE s == f[i - 1]
<1> HIDE DEF s
<1> QED
  BY <1>1, ScannedInBlock DEF s

(* The state after a character of a quoted text.                           *)
LEMMA StepInQuote ==
  ASSUME NEW t \in Seq(STRING), NEW f, Scans(f, t), NEW i \in 1 .. Len(t),
         NEW q \in Quotes, In(f[i - 1], q)
  PROVE  Takes(f[i - 1], f[i], t[i]) /\ In(f[i], IF t[i] = q THEN "plain" ELSE q)
<1>1. f[i] = Scanned(t, f[i - 1], i) /\ f[i - 1] \in ScanState /\ i \in DOMAIN t
  BY ScansStep
<1> DEFINE s == f[i - 1]
<1> HIDE DEF s
<1> QED
  BY <1>1, ScannedInQuote DEF s

(* The state after the first character of a lexeme.                        *)
LEMMA StepInPlain ==
  ASSUME NEW t \in Seq(STRING), NEW f, Scans(f, t), NEW i \in 1 .. Len(t), Fresh(f, i - 1)
  PROVE  /\ StartsLine(t, i) =>
              /\ Passes(f[i - 1], f[i])
              /\ IF t[i] = "#" THEN In(f[i], "line") ELSE Ahead(f[i], "line")
         /\ StartsBlock(t, i) => Passes(f[i - 1], f[i]) /\ Ahead(f[i], "block")
         /\ t[i] = ";" => Ends(f[i - 1], f[i]) /\ In(f[i], "plain")
         /\ t[i] \in Quotes => Takes(f[i - 1], f[i], t[i]) /\ In(f[i], t[i])
         /\ ~Comment(t, i) /\ t[i] \notin Quotes \union {";"}
              => Takes(f[i - 1], f[i], t[i]) /\ In(f[i], "plain")
<1>1. f[i] = Scanned(t, f[i - 1], i) /\ f[i - 1] \in ScanState /\ i \in DOMAIN t
  BY ScansStep
<1> DEFINE s == f[i - 1]
<1> HIDE DEF s
<1> QED
  BY <1>1, ScannedInPlain DEF s, Fresh, Comment

(* A quoted text is taken as it is, up to the quote that closes it.        *)
LEMMA QuotedTraversed ==
  ASSUME NEW t \in Seq(STRING), NEW f, Scans(f, t), NEW a \in Starts(f, t),
         t[a] \in Quotes
  PROVE  Traversed(f, t, a, EndOfLexeme(t, a))
<1> DEFINE n    == Len(t)
           q    == t[a]
           ends == {b \in a + 1 .. n : t[b] = q}
           e    == EndOfLexeme(t, a)
<1>1. a \in 1 .. n /\ n \in Nat /\ Fresh(f, a - 1)
  BY DEF Starts
<1>2. e = EndsAt(t, ends)
  <2>1. ~Comment(t, a)
    BY DEF Comment, StartsLine, StartsBlock, Quotes
  <2> QED
    BY <2>1 DEF EndOfLexeme, Comment
<1>3. /\ e \in ends \/ (ends = {} /\ e = n)
      /\ \A b \in ends : e <= b
  <2>1. ends \in SUBSET (1 .. n)
    BY <1>1
  <2> HIDE DEF ends, e
  <2> QED
    BY <1>2, <2>1, EndsAtType
<1>4. e \in a .. n /\ (e < n => e \in ends)
  BY <1>1, <1>3
<1>5. q \in Quotes /\ q # "plain" /\ q # ";" /\ ~Comment(t, a)
  BY DEF Comment, StartsLine, StartsBlock, Quotes
<1> DEFINE A == {j \in a .. e : (j < e => In(f[j], q)) /\ Takes(f[j - 1], f[j], t[j])}
<1>6. a \in A
  <2>1. In(f[a], q) /\ Takes(f[a - 1], f[a], t[a])
    BY <1>1, StepInPlain
  <2> QED
    BY <1>1, <1>4, <2>1
<1>7. ASSUME NEW j \in a .. e - 1, j \in A PROVE j + 1 \in A
  <2>1. j + 1 \in 1 .. n /\ j + 1 \in a .. e /\ (j + 1) - 1 = j /\ j < e
    BY <1>1, <1>4
  <2>2. In(f[j], q)
    BY <1>7, <2>1
  <2>3. Takes(f[j], f[j + 1], t[j + 1]) /\ In(f[j + 1], IF t[j + 1] = q THEN "plain" ELSE q)
    <3> HIDE DEF q
    <3> QED
      BY <1>5, <2>1, <2>2, StepInQuote
  <2>4. ASSUME j + 1 < e PROVE t[j + 1] # q
    <3>1. j + 1 \in a + 1 .. n /\ ~(e <= j + 1)
      BY <1>1, <1>4, <2>1, <2>4
    <3> QED
      BY <1>3, <3>1
  <2> HIDE DEF q, e
  <2> QED
    BY <2>1, <2>3, <2>4
<1>8. a .. e \subseteq A
  <2>1. a \in Nat /\ e \in Nat
    BY <1>1, <1>4
  <2> HIDE DEF A, e
  <2> QED
    BY <1>6, <1>7, <2>1, InductionBetween
<1>9. \A j \in a .. e - 1 : In(f[j], q)
  BY <1>1, <1>4, <1>8
<1>10. \A j \in a .. e : Takes(f[j - 1], f[j], t[j])
  BY <1>8
<1>11. ASSUME e < n PROVE Fresh(f, e)
  <2>1. e \in a + 1 .. n /\ t[e] = q
    BY <1>4, <1>11
  <2>2. e \in 1 .. n /\ e - 1 \in a .. e - 1
    BY <1>1, <2>1
  <2>3. In(f[e - 1], q)
    BY <1>9, <2>2
  <2> HIDE DEF e, q
  <2> QED
    BY <1>5, <2>1, <2>2, <2>3, StepInQuote DEF Fresh
<1>12. \A j \in a .. e - 1 : ~Fresh(f, j)
  BY <1>5, <1>9 DEF Fresh, In
<1> HIDE DEF e, q
<1> QED
  BY <1>4, <1>5, <1>10, <1>11, <1>12 DEF Traversed, q, e

(* A line comment is passed over, up to the end of its line.               *)
LEMMA LineTraversed ==
  ASSUME NEW t \in Seq(STRING), NEW f, Scans(f, t), NEW a \in Starts(f, t),
         StartsLine(t, a)
  PROVE  Traversed(f, t, a, EndOfLexeme(t, a))
<1> DEFINE n    == Len(t)
           ends == {b \in a .. n : t[b] = NewLine}
           e    == EndOfLexeme(t, a)
           Within(j) == In(f[j], "line") \/ (j = a /\ t[a] # "#" /\ Ahead(f[a], "line"))
           A    == {j \in a .. e : (j < e => Within(j)) /\ Passes(f[j - 1], f[j])}
<1>1. a \in 1 .. n /\ n \in Nat /\ Fresh(f, a - 1)
  BY DEF Starts
<1>2. e = EndsAt(t, ends)
  <2>1. t[a] \notin Quotes
    BY DEF StartsLine, Quotes
  <2>2. ~StartsBlock(t, a)
    BY DEF StartsLine, StartsBlock
  <2> QED
    BY <2>1, <2>2 DEF EndOfLexeme
<1>3. /\ e \in ends \/ (ends = {} /\ e = n)
      /\ \A b \in ends : e <= b
  <2>1. ends \in SUBSET (1 .. n)
    BY <1>1
  <2> HIDE DEF ends, e
  <2> QED
    BY <1>2, <2>1, EndsAtType
<1>4. e \in a .. n /\ (e < n => e \in ends)
  BY <1>1, <1>3
<1>5. t[a] # NewLine /\ t[a] # ";" /\ Comment(t, a)
  BY DEF Comment, StartsLine, NewLine
<1>6. t[a] # "#" => a + 1 \in 1 .. n /\ t[a + 1] # NewLine
  <2>1. SUFFICES ASSUME t[a] # "#" PROVE a + 1 \in DOMAIN t /\ t[a + 1] # NewLine
    OBVIOUS
  <2>2. At(t, a + 1) = "-"
    BY <2>1 DEF StartsLine
  <2> QED
    BY <2>2 DEF At, NewLine
<1>7. a \in A
  <2>1. Passes(f[a - 1], f[a]) /\ (In(f[a], "line") \/ (t[a] # "#" /\ Ahead(f[a], "line")))
    BY <1>1, StepInPlain
  <2> QED
    BY <1>1, <1>4, <2>1
<1>8. ASSUME NEW j \in a .. e - 1, Within(j)
      PROVE  /\ Passes(f[j], f[j + 1])
             /\ In(f[j + 1], IF t[j + 1] = NewLine THEN "plain" ELSE "line")
  <2>1. j + 1 \in 1 .. n /\ (j + 1) - 1 = j
    BY <1>1, <1>4
  <2>2. CASE In(f[j], "line")
    BY <2>1, <2>2, StepInLine
  <2>3. CASE j = a /\ t[a] # "#" /\ Ahead(f[a], "line")
    <3>1. f[j].skip /\ f[j].mode = "line"
      BY <2>3 DEF Ahead
    <3>2. In(f[j + 1], "line") /\ Passes(f[j], f[j + 1])
      BY <2>1, <3>1, StepSkipped
    <3> QED
      BY <1>6, <2>3, <3>2
  <2> QED
    BY <1>8, <2>2, <2>3
<1>9. ASSUME NEW j \in a .. e - 1, j \in A PROVE j + 1 \in A
  <2>1. j + 1 \in a .. e /\ (j + 1) - 1 = j /\ j < e
    BY <1>1, <1>4
  <2>2. /\ Passes(f[j], f[j + 1])
        /\ In(f[j + 1], IF t[j + 1] = NewLine THEN "plain" ELSE "line")
    BY <1>8, <1>9, <2>1
  <2>3. ASSUME j + 1 < e PROVE t[j + 1] # NewLine
    <3>1. j + 1 \in a .. n /\ ~(e <= j + 1)
      BY <1>1, <1>4, <2>1, <2>3
    <3> QED
      BY <1>3, <3>1
  <2> HIDE DEF e
  <2> QED
    BY <2>1, <2>2, <2>3
<1>10. a .. e \subseteq A
  <2>1. a \in Nat /\ e \in Nat
    BY <1>1, <1>4
  <2> HIDE DEF A, e
  <2> QED
    BY <1>7, <1>9, <2>1, InductionBetween
<1>11. \A j \in a .. e - 1 : Within(j)
  <2> HIDE DEF Within
  <2> QED
    BY <1>1, <1>4, <1>10
<1>12. \A j \in a .. e : Passes(f[j - 1], f[j])
  BY <1>10
<1>13. ASSUME e < n PROVE Fresh(f, e)
  <2>1. e \in a .. n /\ t[e] = NewLine
    BY <1>4, <1>13
  <2>2. e # a
    BY <1>5, <2>1
  <2>3. e - 1 \in a .. e - 1 /\ (e - 1) + 1 = e
    BY <1>1, <2>1, <2>2
  <2>4. In(f[e], IF t[e] = NewLine THEN "plain" ELSE "line")
    <3> HIDE DEF e, Within
    <3> QED
      BY <1>8, <1>11, <2>3
  <2> QED
    BY <2>1, <2>4 DEF Fresh
<1>14. \A j \in a .. e - 1 : ~Fresh(f, j)
  BY <1>11 DEF Fresh, In, Ahead
<1> HIDE DEF e
<1> QED
  BY <1>4, <1>5, <1>12, <1>13, <1>14 DEF Traversed, e

(* A block comment is passed over, up to the mark that closes it.          *)
LEMMA BlockTraversed ==
  ASSUME NEW t \in Seq(STRING), NEW f, Scans(f, t), NEW a \in Starts(f, t),
         StartsBlock(t, a)
  PROVE  Traversed(f, t, a, EndOfLexeme(t, a))
<1> DEFINE n    == Len(t)
           ends == {b \in a + 3 .. n : t[b - 1] = "*" /\ t[b] = "/"}
           e    == EndOfLexeme(t, a)
           Within(j) == IF j = a THEN Ahead(f[j], "block")
                        ELSE IF e \in ends /\ j = e - 1 THEN Ahead(f[j], "plain")
                        ELSE In(f[j], "block")
           A    == {j \in a .. e : (j < e => Within(j)) /\ Passes(f[j - 1], f[j])}
<1>1. a \in 1 .. n /\ n \in Nat /\ Fresh(f, a - 1)
  BY DEF Starts
<1>2. e = EndsAt(t, ends)
  <2>1. t[a] \notin Quotes
    BY DEF StartsBlock, Quotes
  <2>2. ~StartsLine(t, a)
    BY DEF StartsLine, StartsBlock
  <2> QED
    BY <2>1, <2>2 DEF EndOfLexeme
<1>3. /\ e \in ends \/ (ends = {} /\ e = n)
      /\ \A b \in ends : e <= b
  <2>1. ends \in SUBSET (1 .. n)
    BY <1>1
  <2> HIDE DEF ends, e
  <2> QED
    BY <1>2, <2>1, EndsAtType
<1>4. e \in a .. n /\ (e < n => e \in ends)
  BY <1>1, <1>3
<1>5. t[a] # ";" /\ Comment(t, a)
  BY DEF Comment, StartsBlock
<1>6. a \in A
  <2>1. Passes(f[a - 1], f[a]) /\ Ahead(f[a], "block")
    BY <1>1, StepInPlain
  <2> QED
    BY <1>1, <1>4, <2>1
<1>7. ASSUME NEW j \in a .. e - 1, Within(j)
      PROVE  /\ Passes(f[j], f[j + 1])
             /\ j + 1 < e => Within(j + 1)
             /\ j + 1 = e /\ e \in ends => Fresh(f, e)
  <2>1. j + 1 \in 1 .. n /\ (j + 1) - 1 = j
    BY <1>1, <1>4
  <2>2. CASE j = a
    <3>1. f[j].skip /\ f[j].mode = "block"
      BY <1>7, <2>2 DEF Ahead
    <3>2. In(f[j + 1], "block") /\ Passes(f[j], f[j + 1])
      BY <2>1, <3>1, StepSkipped
    <3>3. e \in ends => j + 1 # e - 1 /\ j + 1 # e
      BY <1>1, <2>2
    <3>4. j + 1 # a
      BY <1>1, <2>2
    <3> QED
      BY <3>2, <3>3, <3>4
  <2>3. CASE j # a /\ e \in ends /\ j = e - 1
    <3>1. f[j].skip /\ f[j].mode = "plain"
      BY <1>7, <2>3 DEF Ahead
    <3>2. In(f[j + 1], "plain") /\ Passes(f[j], f[j + 1])
      BY <2>1, <3>1, StepSkipped
    <3>3. j + 1 = e
      BY <1>1, <1>4, <2>3
    <3> QED
      BY <3>2, <3>3 DEF Fresh
  <2>4. CASE j # a /\ ~(e \in ends /\ j = e - 1)
    <3>1. In(f[j], "block")
      BY <1>7, <2>4
    <3>2. /\ Passes(f[j], f[j + 1])
          /\ IF t[j + 1] = "*" /\ At(t, j + 2) = "/" THEN Ahead(f[j + 1], "plain")
             ELSE In(f[j + 1], "block")
      <4>1. (j + 1) + 1 = j + 2
        BY <2>1
      <4> QED
        BY <2>1, <3>1, <4>1, StepInBlock
    <3>3. j + 1 = e => e \notin ends
      BY <1>1, <1>4, <2>4
    <3>4. ASSUME j + 1 < e PROVE Within(j + 1)
      <4>1. j + 2 \in a + 3 .. n /\ (j + 2) - 1 = j + 1 /\ j + 2 <= e /\ j + 1 # a
        BY <1>1, <1>4, <2>1, <2>4, <3>4
      <4>2. At(t, j + 2) = t[j + 2]
        <5>1. j + 2 \in DOMAIN t
          BY <1>1, <4>1
        <5> QED
          BY <5>1 DEF At
      <4>3. j + 2 \in ends <=> t[j + 1] = "*" /\ At(t, j + 2) = "/"
        BY <4>1, <4>2
      <4>4. j + 2 \in ends <=> e \in ends /\ j + 1 = e - 1
        <5>1. j + 2 \in ends => e <= j + 2 /\ e \in ends
          BY <1>3
        <5>2. e <= j + 2 => e = j + 2
          BY <1>4, <4>1
        <5>3. j + 1 = e - 1 <=> e = j + 2
          BY <1>4, <4>1
        <5> HIDE DEF e, ends
        <5> QED
          BY <5>1, <5>2, <5>3
      <4> HIDE DEF e, ends
      <4> QED
        BY <3>2, <4>1, <4>3, <4>4
    <3> HIDE DEF e, ends, Within
    <3> QED
      BY <3>2, <3>3, <3>4
  <2> QED
    BY <2>2, <2>3, <2>4
<1>8. ASSUME NEW j \in a .. e - 1, j \in A PROVE j + 1 \in A
  <2>1. j + 1 \in a .. e /\ (j + 1) - 1 = j /\ j < e
    BY <1>1, <1>4
  <2>2. Within(j)
    BY <1>8, <2>1
  <2> HIDE DEF e, Within
  <2> QED
    BY <1>7, <2>1, <2>2
<1>9. a .. e \subseteq A
  <2>1. a \in Nat /\ e \in Nat
    BY <1>1, <1>4
  <2> HIDE DEF A, e
  <2> QED
    BY <1>6, <1>8, <2>1, InductionBetween
<1>10. \A j \in a .. e - 1 : Within(j)
  <2> HIDE DEF Within
  <2> QED
    BY <1>1, <1>4, <1>9
<1>11. \A j \in a .. e : Passes(f[j - 1], f[j])
  BY <1>9
<1>12. ASSUME e < n PROVE Fresh(f, e)
  <2>1. e \in ends /\ e \in a + 3 .. n
    BY <1>4, <1>12
  <2>2. e - 1 \in a .. e - 1 /\ (e - 1) + 1 = e
    BY <1>1, <2>1
  <2> HIDE DEF e, Within, ends
  <2> QED
    BY <1>7, <1>10, <2>1, <2>2
<1>13. \A j \in a .. e - 1 : ~Fresh(f, j)
  <2> SUFFICES ASSUME NEW j \in a .. e - 1 PROVE ~Fresh(f, j)
    OBVIOUS
  <2>1. Ahead(f[j], "block") \/ Ahead(f[j], "plain") \/ In(f[j], "block")
    BY <1>10
  <2> QED
    BY <2>1 DEF Fresh, In, Ahead
<1> HIDE DEF e
<1> QED
  BY <1>4, <1>5, <1>11, <1>12, <1>13 DEF Traversed, e

(* Any other character is a lexeme.                                        *)
LEMMA CharacterTraversed ==
  ASSUME NEW t \in Seq(STRING), NEW f, Scans(f, t), NEW a \in Starts(f, t),
         t[a] \notin Quotes, ~Comment(t, a)
  PROVE  Traversed(f, t, a, EndOfLexeme(t, a))
<1>1. a \in 1 .. Len(t) /\ Fresh(f, a - 1)
  BY DEF Starts
<1>2. EndOfLexeme(t, a) = a
  BY DEF EndOfLexeme, Comment
<1>3. /\ Fresh(f, a)
      /\ t[a] = ";" => Ends(f[a - 1], f[a])
      /\ t[a] # ";" => Takes(f[a - 1], f[a], t[a])
  BY <1>1, StepInPlain DEF Fresh
<1>4. a .. a = {a} /\ a .. a - 1 = {} /\ a \in a .. Len(t)
  BY <1>1
<1>5. /\ \A i \in a .. a - 1 : ~Fresh(f, i)
      /\ t[a] # ";" => \A j \in a .. a : Takes(f[j - 1], f[j], t[j])
  BY <1>3, <1>4
<1>6. Traversed(f, t, a, a)
  BY <1>3, <1>4, <1>5, Zenon DEF Traversed
<1> QED
  BY <1>2, <1>6

(* The scanner goes through a text lexeme by lexeme.                       *)
LEMMA LexemeTraversed ==
  ASSUME NEW t \in Seq(STRING), NEW f, Scans(f, t), NEW a \in Starts(f, t)
  PROVE  Traversed(f, t, a, EndOfLexeme(t, a))
<1>1. CASE t[a] \in Quotes
  BY <1>1, QuotedTraversed, Zenon
<1>2. CASE StartsLine(t, a)
  BY <1>2, LineTraversed, Zenon
<1>3. CASE StartsBlock(t, a)
  BY <1>3, BlockTraversed, Zenon
<1>4. CASE t[a] \notin Quotes /\ ~Comment(t, a)
  BY <1>4, CharacterTraversed, Zenon
<1> QED
  BY <1>1, <1>2, <1>3, <1>4 DEF Comment

-----------------------------------------------------------------------------
(* The definition by lexemes describes what the scanner goes through. *)

LexemeStarts(t, starts) ==
  \A a \in DOMAIN t :
    a \in starts <=> a = 1 \/ \E b \in starts : b < a /\ EndOfLexeme(t, b) = a - 1

(* There is one set of lexemes.                                            *)
LEMMA LexemesUnique ==
  ASSUME NEW t \in Seq(STRING),
         NEW X \in SUBSET DOMAIN t, NEW Y \in SUBSET DOMAIN t,
         LexemeStarts(t, X), LexemeStarts(t, Y)
  PROVE  X = Y
<1> DEFINE Differ == {a \in DOMAIN t : ~(a \in X <=> a \in Y)}
<1> SUFFICES ASSUME Differ # {} PROVE FALSE
  OBVIOUS
<1>1. Differ \subseteq Nat
  OBVIOUS
<1>2. PICK m \in Differ : \A n \in Differ : m <= n
  BY <1>1, LeastNatural
<1>3. \A b \in DOMAIN t : b < m => (b \in X <=> b \in Y)
  BY <1>2
<1>4. (\E b \in X : b < m /\ EndOfLexeme(t, b) = m - 1)
      <=> (\E b \in Y : b < m /\ EndOfLexeme(t, b) = m - 1)
  <2> HIDE DEF Differ
  <2> QED
    BY <1>3
<1>5. m \in DOMAIN t
  OBVIOUS
<1>6. m \in X <=> m \in Y
  BY <1>4, <1>5 DEF LexemeStarts
<1> QED
  BY <1>6

(* Every character is in a lexeme the scanner goes through.                *)
LEMMA EveryCharacterTraversed ==
  ASSUME NEW t \in Seq(STRING), NEW f, Scans(f, t), NEW j \in DOMAIN t
  PROVE  \E a \in Starts(f, t) : a <= j /\ j <= EndOfLexeme(t, a)
<1>1. j \in 1 .. Len(t) /\ Len(t) \in Nat /\ j \in Nat /\ DOMAIN t = 1 .. Len(t)
  OBVIOUS
<1> DEFINE B == {a \in Starts(f, t) : a <= j}
<1>2. 1 \in B
  <2>1. Fresh(f, 1 - 1)
    BY ScannerType DEF Scans, Fresh
  <2> QED
    BY <1>1, <2>1 DEF Starts
<1>3. B \in SUBSET (0 .. j)
  BY <1>1 DEF Starts
<1>4. PICK a \in B : \A b \in B : b <= a
  <2> HIDE DEF B
  <2>1. \E x \in B : \A y \in B : y <= x
    BY <1>1, <1>2, <1>3, GreatestBelow
  <2> QED
    BY <2>1
<1> DEFINE e == EndOfLexeme(t, a)
<1>5. Traversed(f, t, a, e)
  BY LexemeTraversed
<1>6. a \in 1 .. j /\ e \in a .. Len(t) /\ (e < Len(t) => Fresh(f, e))
  <2>1. a \in DOMAIN t /\ a <= j
    BY DEF Starts
  <2> HIDE DEF B, e
  <2> QED
    <3>1. e \in a .. Len(t) /\ (e < Len(t) => Fresh(f, e))
      BY <1>5, Zenon DEF Traversed
    <3> QED
      BY <1>1, <2>1, <3>1
<1>7. ASSUME e < j PROVE FALSE
  <2>1. Fresh(f, e) /\ e + 1 \in 1 .. Len(t) /\ (e + 1) - 1 = e /\ e + 1 <= j
    BY <1>1, <1>6, <1>7
  <2> HIDE DEF e
  <2>2. e + 1 \in B
    BY <2>1 DEF Starts
  <2>3. e + 1 <= a
    BY <1>4, <2>2
  <2> QED
    BY <1>6, <2>3
<1> HIDE DEF e
<1>8. j <= e
  BY <1>1, <1>6, <1>7
<1> QED
  BY <1>8 DEF e

(* The lexemes of a text are those the scanner goes through.               *)
LEMMA LexemesAreTraversed ==
  ASSUME NEW t \in Seq(STRING), NEW f, Scans(f, t)
  PROVE  Lexemes(t) = Starts(f, t)
<1> DEFINE S == Starts(f, t)
<1>1. S \in SUBSET DOMAIN t
  BY DEF Starts
<1>2. ASSUME NEW a \in DOMAIN t
      PROVE  a \in S <=> a = 1 \/ \E b \in S : b < a /\ EndOfLexeme(t, b) = a - 1
  <2>1. a \in 1 .. Len(t) /\ Len(t) \in Nat
    OBVIOUS
  <2>2. a = 1 => a \in S
    <3>1. Fresh(f, 1 - 1)
      BY ScannerType DEF Scans, Fresh
    <3> QED
      BY <3>1 DEF Starts
  <2>3. ASSUME NEW b \in S, b < a, EndOfLexeme(t, b) = a - 1 PROVE a \in S
    <3>1. Traversed(f, t, b, a - 1)
      BY <2>3, LexemeTraversed
    <3>2. a - 1 < Len(t)
      BY <2>1
    <3>3. Fresh(f, a - 1)
      BY <3>1, <3>2 DEF Traversed
    <3> QED
      BY <3>3 DEF Starts
  <2>4. ASSUME a \in S, a # 1
        PROVE  \E b \in S : b < a /\ EndOfLexeme(t, b) = a - 1
    <3>1. a - 1 \in DOMAIN t
      BY <2>1, <2>4
    <3>2. PICK b \in S : b <= a - 1 /\ a - 1 <= EndOfLexeme(t, b)
      BY <3>1, EveryCharacterTraversed
    <3> DEFINE e == EndOfLexeme(t, b)
    <3>3. Traversed(f, t, b, e)
      BY LexemeTraversed
    <3>4. b \in 1 .. Len(t) /\ e \in b .. Len(t) /\ \A i \in b .. e - 1 : ~Fresh(f, i)
      <4>1. b \in DOMAIN t
        BY <1>1
      <4> HIDE DEF e, S
      <4> QED
        <5>1. e \in b .. Len(t) /\ \A i \in b .. e - 1 : ~Fresh(f, i)
          BY <3>3, Zenon DEF Traversed
        <5> QED
          BY <4>1, <5>1
    <3>5. Fresh(f, a - 1)
      BY <2>4 DEF Starts
    <3> HIDE DEF e, S
    <3>6. ~(a <= e)
      BY <2>1, <3>2, <3>4, <3>5
    <3>7. b < a /\ e = a - 1
      BY <2>1, <3>2, <3>4, <3>6 DEF e
    <3> QED
      BY <3>7 DEF e
  <2> HIDE DEF S
  <2> QED
    BY <2>2, <2>3, <2>4
<1> HIDE DEF S
<1>3. LexemeStarts(t, S)
  BY <1>2 DEF LexemeStarts
<1>4. Lexemes(t) = CHOOSE starts \in SUBSET DOMAIN t : LexemeStarts(t, starts)
  BY Zenon DEF Lexemes, LexemeStarts
<1>5. \A X \in SUBSET DOMAIN t : LexemeStarts(t, X) => X = S
  BY <1>1, <1>3, LexemesUnique
<1>6. Lexemes(t) \in SUBSET DOMAIN t /\ LexemeStarts(t, Lexemes(t))
  BY <1>1, <1>3, <1>4
<1>7. Lexemes(t) = S
  BY <1>5, <1>6
<1> QED
  BY <1>7 DEF S

(* What a character does to the statements, by its place.                  *)
TurnFits(t, f, j) ==
  /\ j \in Separators(t) => j \notin Comments(t) /\ Ends(f[j - 1], f[j])
  /\ j \in Comments(t) => Passes(f[j - 1], f[j])
  /\ j \notin Separators(t) \union Comments(t) => Takes(f[j - 1], f[j], t[j])

(* Separators end a statement, comments leave no trace, anything else      *)
(* belongs to the statement.                                               *)
LEMMA TurnsFit ==
  ASSUME NEW t \in Seq(STRING), NEW f, Scans(f, t), NEW j \in DOMAIN t
  PROVE  TurnFits(t, f, j)
<1> DEFINE S      == Starts(f, t)
           End(a) == EndOfLexeme(t, a)
<1>1. Separators(t) = {a \in S : t[a] = ";"}
  BY LexemesAreTraversed DEF Separators
<1>2. Comments(t) = UNION {a .. End(a) : a \in {b \in S : Comment(t, b)}}
  BY LexemesAreTraversed DEF Comments, Comment
<1>3. S \subseteq DOMAIN t /\ DOMAIN t = 1 .. Len(t) /\ Len(t) \in Nat /\ j \in 1 .. Len(t)
  BY DEF Starts
<1>4. ASSUME NEW a \in S PROVE Traversed(f, t, a, End(a)) /\ a \in 1 .. Len(t)
  BY <1>3, <1>4, LexemeTraversed
<1> HIDE DEF End
<1>5. ASSUME j \in Comments(t)
      PROVE  Passes(f[j - 1], f[j]) /\ (j \in S => Comment(t, j))
  <2>1. PICK a \in S : Comment(t, a) /\ j \in a .. End(a)
    BY <1>2, <1>5
  <2>2. /\ \A i \in a .. End(a) - 1 : ~Fresh(f, i)
        /\ \A i \in a .. End(a) : Passes(f[i - 1], f[i])
        /\ End(a) \in a .. Len(t)
    BY <1>4, <2>1, Zenon DEF Traversed
  <2>3. ASSUME j \in S, j # a PROVE FALSE
    <3>1. j - 1 \in a .. End(a) - 1
      BY <1>3, <1>4, <2>1, <2>2, <2>3
    <3>2. Fresh(f, j - 1)
      BY <2>3 DEF Starts
    <3> QED
      BY <2>2, <3>1, <3>2
  <2> QED
    BY <2>1, <2>2, <2>3
<1>6. ASSUME j \in Separators(t) PROVE j \notin Comments(t) /\ Ends(f[j - 1], f[j])
  <2>1. j \in S /\ t[j] = ";"
    BY <1>1, <1>6
  <2>2. Ends(f[j - 1], f[j])
    BY <1>4, <2>1, Zenon DEF Traversed
  <2>3. ~Comment(t, j)
    BY <2>1 DEF Comment, StartsLine, StartsBlock
  <2> QED
    BY <1>5, <2>1, <2>2, <2>3
<1>7. ASSUME j \notin Separators(t) \union Comments(t) PROVE Takes(f[j - 1], f[j], t[j])
  <2>1. PICK a \in S : a <= j /\ j <= End(a)
    BY EveryCharacterTraversed DEF End
  <2>2. a \in 1 .. Len(t) /\ End(a) \in a .. Len(t)
    BY <1>4, Zenon DEF Traversed
  <2>3. j \in a .. End(a)
    BY <1>3, <2>1, <2>2
  <2>4. ~Comment(t, a)
    BY <1>2, <1>7, <2>3
  <2>5. t[a] # ";"
    <3>1. SUFFICES ASSUME t[a] = ";" PROVE FALSE
      OBVIOUS
    <3>2. End(a) = a
      BY <1>4, <3>1, Zenon DEF Traversed
    <3>3. j = a
      BY <1>3, <2>1, <2>2, <3>2
    <3> QED
      BY <1>1, <1>7, <3>1, <3>3
  <2> QED
    BY <1>4, <2>3, <2>4, <2>5, Zenon DEF Traversed
<1> QED
  BY <1>5, <1>6, <1>7 DEF TurnFits

-----------------------------------------------------------------------------
(* Sequences without some of their members. *)

Parts(f, s, dropped) ==
  f = [i \in 0 .. Len(s) |->
         IF i = 0 THEN <<>>
         ELSE IF s[i] \in dropped THEN f[i - 1] ELSE Append(f[i - 1], s[i])]

(* Every sequence has the parts that Without returns the last of.          *)
LEMMA PartsExist ==
  ASSUME NEW S, NEW s \in Seq(S), NEW dropped
  PROVE  \E f : Parts(f, s, dropped)
<1> DEFINE Part(g, n) ==
             g = [i \in 0 .. n |->
                    IF i = 0 THEN <<>>
                    ELSE IF s[i] \in dropped THEN g[i - 1] ELSE Append(g[i - 1], s[i])]
           A == {n \in Nat : \E g : Part(g, n)}
<1>1. 0 \in A
  <2> DEFINE g == [i \in 0 .. 0 |-> <<>>]
  <2>1. Part(g, 0)
    OBVIOUS
  <2> QED
    BY <2>1
<1>2. ASSUME NEW n \in Nat, n \in A PROVE n + 1 \in A
  <2>1. PICK g : Part(g, n)
    BY <1>2
  <2> DEFINE last == IF s[n + 1] \in dropped THEN g[n] ELSE Append(g[n], s[n + 1])
             h == [i \in 0 .. n + 1 |-> IF i <= n THEN g[i] ELSE last]
  <2>2. ASSUME NEW i \in 0 .. n + 1
        PROVE  h[i] = IF i = 0 THEN <<>>
                      ELSE IF s[i] \in dropped THEN h[i - 1] ELSE Append(h[i - 1], s[i])
    <3>1. i # 0 => i - 1 \in 0 .. n /\ i - 1 \in 0 .. n + 1
      OBVIOUS
    <3>2. i # 0 => h[i - 1] = g[i - 1]
      BY <3>1
    <3>3. CASE i <= n
      <4>1. i \in 0 .. n /\ h[i] = g[i]
        BY <3>3
      <4> HIDE DEF h
      <4> QED
        BY <2>1, <3>2, <4>1
    <3>4. CASE ~(i <= n)
      <4>1. i = n + 1 /\ i - 1 = n /\ i # 0 /\ h[i] = last
        BY <3>4
      <4> HIDE DEF h
      <4> QED
        BY <3>2, <4>1
    <3> QED
      BY <3>3, <3>4
  <2>3. DOMAIN h = 0 .. n + 1 /\ h = [i \in 0 .. n + 1 |-> h[i]]
    OBVIOUS
  <2> HIDE DEF h
  <2>4. Part(h, n + 1)
    BY <2>2, <2>3
  <2> HIDE DEF Part
  <2>5. \E p : Part(p, n + 1)
    BY <2>4
  <2> QED
    BY <2>5
<1> HIDE DEF A
<1>3. Nat \subseteq A
  BY <1>1, <1>2, InductionOnSet
<1>4. Len(s) \in A
  BY <1>3
<1> QED
  BY <1>4 DEF A, Parts

(* It returns the last of them.                                            *)
LEMMA WithoutByParts ==
  ASSUME NEW S, NEW s \in Seq(S), NEW dropped
  PROVE  \E f : /\ Without(s, dropped) = f[Len(s)]
                /\ f[0] = <<>>
                /\ \A i \in 1 .. Len(s) :
                     f[i] = IF s[i] \in dropped THEN f[i - 1] ELSE Append(f[i - 1], s[i])
<1> DEFINE f == CHOOSE f : f = [i \in 0 .. Len(s) |->
                                  IF i = 0 THEN <<>>
                                  ELSE IF s[i] \in dropped THEN f[i - 1]
                                       ELSE Append(f[i - 1], s[i])]
<1>1. Without(s, dropped) = f[Len(s)]
  BY Zenon DEF Without
<1>2. f = [i \in 0 .. Len(s) |->
             IF i = 0 THEN <<>>
             ELSE IF s[i] \in dropped THEN f[i - 1] ELSE Append(f[i - 1], s[i])]
  <2>1. \E h : h = [i \in 0 .. Len(s) |->
                      IF i = 0 THEN <<>>
                      ELSE IF s[i] \in dropped THEN h[i - 1] ELSE Append(h[i - 1], s[i])]
    <3>1. \E h : Parts(h, s, dropped)
      BY PartsExist
    <3> QED
      BY <3>1, Zenon DEF Parts
  <2> QED
    BY <2>1, Zenon
<1> HIDE DEF f
<1>3. Len(s) \in Nat
  OBVIOUS
<1>4. f[0] = <<>>
  BY <1>2, <1>3
<1>5. ASSUME NEW i \in 1 .. Len(s)
      PROVE  f[i] = IF s[i] \in dropped THEN f[i - 1] ELSE Append(f[i - 1], s[i])
  <2>1. i \in 0 .. Len(s) /\ i # 0
    BY <1>3
  <2> QED
    BY <1>2, <2>1
<1> QED
  BY <1>1, <1>4, <1>5

(* Nothing is left of nothing.                                             *)
LEMMA WithoutEmpty ==
  ASSUME NEW dropped
  PROVE  Without(<<>>, dropped) = <<>>
<1> DEFINE s == <<>>
<1>1. s \in Seq({}) /\ Len(s) = 0
  BY EmptySeq
<1> HIDE DEF s
<1>2. PICK f : Without(s, dropped) = f[Len(s)] /\ f[0] = <<>>
  <2>1. s \in Seq({})
    BY <1>1
  <2> QED
    BY <2>1, WithoutByParts
<1>3. Without(s, dropped) = <<>>
  BY <1>1, <1>2, Zenon
<1> QED
  BY <1>3 DEF s

(* What is left is made of members of the sequence.                        *)
LEMMA WithoutType ==
  ASSUME NEW S, NEW s \in Seq(S), NEW dropped
  PROVE  Without(s, dropped) \in Seq(S)
<1>1. PICK f : /\ Without(s, dropped) = f[Len(s)]
               /\ f[0] = <<>>
               /\ \A i \in 1 .. Len(s) :
                    f[i] = IF s[i] \in dropped THEN f[i - 1] ELSE Append(f[i - 1], s[i])
  BY WithoutByParts
<1>2. 0 \in Nat /\ Len(s) \in Nat
  OBVIOUS
<1> DEFINE A == {i \in Nat : f[i] \in Seq(S)}
<1>3. 0 \in A
  BY <1>1, EmptySeq
<1>4. ASSUME NEW i \in 0 .. Len(s) - 1, i \in A PROVE i + 1 \in A
  <2>1. i + 1 \in 1 .. Len(s) /\ (i + 1) - 1 = i /\ i + 1 \in Nat
    BY <1>2
  <2> DEFINE x == s[i + 1]
             q == f[i]
  <2>2. x \in S /\ q \in Seq(S)
    BY <1>4, <2>1
  <2>3. f[i + 1] = IF x \in dropped THEN q ELSE Append(q, x)
    BY <1>1, <2>1
  <2> HIDE DEF x, q
  <2>4. f[i + 1] \in Seq(S)
    BY <2>2, <2>3, AppendProperties
  <2> QED
    BY <2>1, <2>4
<1> HIDE DEF A
<1>5. 0 .. Len(s) \subseteq A
  BY <1>2, <1>3, <1>4, InductionBetween
<1>6. f[Len(s)] \in Seq(S)
  BY <1>2, <1>5 DEF A
<1> QED
  BY <1>1, <1>6, Zenon

(* One more member is left or dropped.                                     *)
LEMMA WithoutAppend ==
  ASSUME NEW S, NEW s \in Seq(S), NEW x \in S, NEW dropped
  PROVE  Without(Append(s, x), dropped)
           = IF x \in dropped THEN Without(s, dropped) ELSE Append(Without(s, dropped), x)
<1> DEFINE c == Append(s, x)
<1>1. /\ c \in Seq(S) /\ Len(c) = Len(s) + 1 /\ c[Len(s) + 1] = x
      /\ \A i \in 1 .. Len(s) : c[i] = s[i]
  BY AppendProperties
<1>2. 0 \in Nat /\ Len(s) \in Nat
  OBVIOUS
<1> HIDE DEF c
<1>3. PICK f : /\ Without(s, dropped) = f[Len(s)]
               /\ f[0] = <<>>
               /\ \A i \in 1 .. Len(s) :
                    f[i] = IF s[i] \in dropped THEN f[i - 1] ELSE Append(f[i - 1], s[i])
  BY WithoutByParts
<1>4. PICK g : /\ Without(c, dropped) = g[Len(c)]
               /\ g[0] = <<>>
               /\ \A i \in 1 .. Len(c) :
                    g[i] = IF c[i] \in dropped THEN g[i - 1] ELSE Append(g[i - 1], c[i])
  BY <1>1, WithoutByParts
<1> DEFINE A == {i \in Nat : g[i] = f[i]}
<1>5. 0 \in A
  BY <1>3, <1>4
<1>6. ASSUME NEW i \in 0 .. Len(s) - 1, i \in A PROVE i + 1 \in A
  <2>1. i + 1 \in 1 .. Len(s) /\ i + 1 \in 1 .. Len(c) /\ (i + 1) - 1 = i /\ i + 1 \in Nat
    BY <1>1, <1>2
  <2>2. g[i] = f[i] /\ c[i + 1] = s[i + 1]
    BY <1>1, <1>6, <2>1
  <2>3. /\ f[i + 1] = IF s[i + 1] \in dropped THEN f[i] ELSE Append(f[i], s[i + 1])
        /\ g[i + 1] = IF c[i + 1] \in dropped THEN g[i] ELSE Append(g[i], c[i + 1])
    BY <1>3, <1>4, <2>1
  <2>4. g[i + 1] = f[i + 1]
    BY <2>2, <2>3, Zenon
  <2> QED
    BY <2>1, <2>4
<1> HIDE DEF A
<1>7. 0 .. Len(s) \subseteq A
  BY <1>2, <1>5, <1>6, InductionBetween
<1>8. g[Len(s)] = f[Len(s)]
  BY <1>2, <1>7 DEF A
<1>9. Len(c) \in 1 .. Len(c) /\ Len(c) - 1 = Len(s) /\ c[Len(c)] = x
  BY <1>1, <1>2
<1>10. g[Len(c)] = IF x \in dropped THEN g[Len(s)] ELSE Append(g[Len(s)], x)
  BY <1>4, <1>9
<1>11. Without(c, dropped)
         = IF x \in dropped THEN Without(s, dropped) ELSE Append(Without(s, dropped), x)
  BY <1>3, <1>4, <1>8, <1>10, Zenon
<1> QED
  BY <1>11 DEF c

(* An interval grows by its next number.                                   *)
LEMMA IntervalGrows ==
  ASSUME NEW a \in Nat, NEW b \in Int, a <= b + 1
  PROVE  /\ Interval(a, b) \in Seq(a .. b)
         /\ Interval(a, b + 1) = Append(Interval(a, b), b + 1)
         /\ b + 1 = a => Interval(a, b) = <<>>
<1> DEFINE s == Interval(a, b)
           c == Interval(a, b + 1)
           n == b - a + 1
<1>1. n \in Nat /\ (b + 1) - a + 1 = n + 1
  OBVIOUS
<1>2. s = [k \in 1 .. n |-> a + k - 1] /\ c = [k \in 1 .. n + 1 |-> a + k - 1]
  BY <1>1 DEF Interval
<1>3. \A k \in 1 .. n : a + k - 1 \in a .. b
  OBVIOUS
<1> HIDE DEF s, c
<1>4. s \in [1 .. n -> a .. b]
  BY <1>2, <1>3
<1> HIDE DEF n
<1>5. s \in Seq(a .. b) /\ Len(s) = n
  BY <1>1, <1>4
<1>6. b + 1 = a + (n + 1) - 1
  BY <1>1 DEF n
<1>7. Append(s, b + 1) = [k \in 1 .. n + 1 |-> IF k = n + 1 THEN b + 1 ELSE s[k]]
  BY <1>1, <1>5
<1>8. \A k \in 1 .. n + 1 : (IF k = n + 1 THEN b + 1 ELSE s[k]) = a + k - 1
  <2> SUFFICES ASSUME NEW k \in 1 .. n + 1
               PROVE  (IF k = n + 1 THEN b + 1 ELSE s[k]) = a + k - 1
    OBVIOUS
  <2>1. k = n + 1 \/ k \in 1 .. n
    BY <1>1
  <2>2. CASE k = n + 1
    BY <1>6, <2>2
  <2>3. CASE k \in 1 .. n
    <3>1. k # n + 1
      BY <1>1, <2>3
    <3> QED
      BY <1>2, <2>3, <3>1
  <2> QED
    BY <2>1, <2>2, <2>3
<1>9. c = Append(s, b + 1)
  BY <1>2, <1>7, <1>8
<1>10. b + 1 = a => s = <<>>
  <2>1. SUFFICES ASSUME b + 1 = a PROVE s = <<>>
    OBVIOUS
  <2>2. n = 0
    BY <2>1 DEF n
  <2> QED
    BY <1>5, <2>2, EmptySeq
<1> QED
  BY <1>5, <1>9, <1>10 DEF s, c

-----------------------------------------------------------------------------
(* Pieces, as they grow. *)

Kept(t, a, b) ==
  LET kept == Without(Interval(a, b), Comments(t)) IN [k \in DOMAIN kept |-> t[kept[k]]]

(* What is kept of a text grows by what is no comment.                     *)
LEMMA KeptGrows ==
  ASSUME NEW t \in Seq(STRING), NEW a \in 1 .. Len(t) + 1, NEW b \in a - 1 .. Len(t)
  PROVE  /\ Kept(t, a, b) \in Seq(STRING)
         /\ b + 1 = a => Kept(t, a, b) = <<>>
         /\ b < Len(t) =>
              Kept(t, a, b + 1) = IF b + 1 \in Comments(t) THEN Kept(t, a, b)
                                  ELSE Append(Kept(t, a, b), t[b + 1])
<1> DEFINE s == Interval(a, b)
           x == b + 1
           k == Without(s, Comments(t))
           D == DOMAIN t
<1>1. a \in Nat /\ b \in Int /\ a <= b + 1 /\ D = 1 .. Len(t) /\ Len(t) \in Nat
  OBVIOUS
<1>2. a .. b \subseteq D
  BY <1>1
<1>3. s \in Seq(a .. b) /\ Interval(a, x) = Append(s, x) /\ (x = a => s = <<>>)
  BY <1>1, IntervalGrows
<1> HIDE DEF s, x, k, D
<1>4. s \in Seq(D)
  BY <1>2, <1>3
<1>5. k \in Seq(D)
  BY <1>4, WithoutType DEF k
<1>6. Kept(t, a, b) = [i \in DOMAIN k |-> t[k[i]]]
  BY DEF Kept, s, k
<1>7. \A i \in D : t[i] \in STRING
  BY DEF D
<1>8. /\ DOMAIN k = 1 .. Len(k) /\ Len(k) \in Nat
      /\ \A i \in 1 .. Len(k) : k[i] \in D
  BY <1>5
<1>9. Kept(t, a, b) \in [1 .. Len(k) -> STRING]
  BY <1>6, <1>7, <1>8
<1>10. Kept(t, a, b) \in Seq(STRING) /\ Len(Kept(t, a, b)) = Len(k)
  BY <1>8, <1>9
<1>11. ASSUME b + 1 = a PROVE Kept(t, a, b) = <<>>
  <2>1. k = <<>>
    BY <1>3, <1>11, WithoutEmpty DEF k, x
  <2>2. Len(Kept(t, a, b)) = 0
    BY <1>10, <2>1
  <2> QED
    BY <1>10, <2>2, EmptySeq
<1>12. ASSUME b < Len(t)
       PROVE  Kept(t, a, b + 1) = IF b + 1 \in Comments(t) THEN Kept(t, a, b)
                                  ELSE Append(Kept(t, a, b), t[b + 1])
  <2>1. x \in D
    BY <1>1, <1>12 DEF x
  <2> DEFINE m == Without(Append(s, x), Comments(t))
  <2>2. m = IF x \in Comments(t) THEN k ELSE Append(k, x)
    BY <1>4, <2>1, WithoutAppend DEF k
  <2>3. Kept(t, a, x) = [i \in DOMAIN m |-> t[m[i]]]
    BY <1>3 DEF Kept
  <2> HIDE DEF m
  <2>4. CASE x \in Comments(t)
    <3>1. Kept(t, a, x) = Kept(t, a, b)
      BY <1>6, <2>2, <2>3, <2>4
    <3> QED
      BY <2>4, <3>1 DEF x
  <2>5. CASE x \notin Comments(t)
    <3> DEFINE u == Kept(t, a, b)
    <3>1. m = Append(k, x)
      BY <2>2, <2>5
    <3>2. /\ DOMAIN m = 1 .. Len(k) + 1
          /\ \A i \in 1 .. Len(k) + 1 : m[i] = IF i = Len(k) + 1 THEN x ELSE k[i]
      BY <1>5, <2>1, <3>1
    <3>3. u \in Seq(STRING) /\ Len(u) = Len(k) /\ \A i \in 1 .. Len(k) : u[i] = t[k[i]]
      BY <1>6, <1>8, <1>10
    <3> HIDE DEF u
    <3>4. t[x] \in STRING
      BY <1>7, <2>1
    <3>5. Append(u, t[x]) = [i \in 1 .. Len(k) + 1 |-> IF i = Len(k) + 1 THEN t[x] ELSE u[i]]
      BY <3>3, <3>4
    <3>6. \A i \in 1 .. Len(k) + 1 : t[m[i]] = IF i = Len(k) + 1 THEN t[x] ELSE u[i]
      BY <1>8, <3>2, <3>3
    <3>7. Kept(t, a, x) = Append(u, t[x])
      BY <2>3, <3>2, <3>5, <3>6
    <3> QED
      BY <2>5, <3>7 DEF x, u
  <2> QED
    BY <2>4, <2>5 DEF x
<1> QED
  BY <1>10, <1>11, <1>12

(* A piece is what is kept between its bounds, trimmed.                    *)
LEMMA PieceByKept ==
  ASSUME NEW t \in Seq(STRING), NEW a \in Nat, NEW b \in Int
  PROVE  Piece(t, a, b + 1) = Trim(Kept(t, a + 1, b))
<1>1. (b + 1) - 1 = b
  OBVIOUS
<1> QED
  BY <1>1 DEF Piece, Kept

Bounds(t, i) == Without(Interval(0, i), DOMAIN t \ Separators(t))

Between(t, bounds) ==
  [k \in 1 .. Len(bounds) - 1 |-> Piece(t, bounds[k], bounds[k + 1])]

(* The bounds of the beginnings of a text, and of all of it.               *)
LEMMA BoundsGrow ==
  ASSUME NEW t \in Seq(STRING), NEW i \in Nat
  PROVE  /\ Bounds(t, i) \in Seq(0 .. i)
         /\ Bounds(t, i + 1) = IF i + 1 \in DOMAIN t \ Separators(t) THEN Bounds(t, i)
                               ELSE Append(Bounds(t, i), i + 1)
<1> DEFINE s == Interval(0, i)
           d == DOMAIN t \ Separators(t)
           x == i + 1
<1>1. s \in Seq(0 .. i) /\ Interval(0, x) = Append(s, x)
  <2>1. 0 \in Nat /\ i \in Int /\ 0 <= i + 1
    OBVIOUS
  <2> QED
    BY <2>1, IntervalGrows
<1>2. x \in 0 .. x /\ 0 .. i \subseteq 0 .. x
  OBVIOUS
<1> HIDE DEF s, d, x
<1>3. s \in Seq(0 .. x)
  BY <1>1, <1>2
<1>4. Without(s, d) \in Seq(0 .. i)
  BY <1>1, WithoutType
<1>5. Without(Append(s, x), d) = IF x \in d THEN Without(s, d) ELSE Append(Without(s, d), x)
  BY <1>2, <1>3, WithoutAppend
<1> QED
  BY <1>1, <1>4, <1>5 DEF Bounds, s, d, x

(* One more bound makes one more piece.                                    *)
LEMMA BetweenGrows ==
  ASSUME NEW t, NEW S, NEW bounds \in Seq(S), bounds # <<>>, NEW x \in S
  PROVE  Between(t, Append(bounds, x))
           = Append(Between(t, bounds), Piece(t, bounds[Len(bounds)], x))
<1> DEFINE n == Len(bounds)
           c == Append(bounds, x)
           u == Between(t, bounds)
           p == Piece(t, bounds[n], x)
<1>1. n \in Nat \ {0}
  BY EmptySeq
<1>2. /\ Len(c) = n + 1 /\ c[n + 1] = x
      /\ \A k \in 1 .. n : c[k] = bounds[k]
  BY AppendProperties
<1>3. u = [k \in 1 .. n - 1 |-> Piece(t, bounds[k], bounds[k + 1])]
  BY DEF Between
<1>4. Between(t, c) = [k \in 1 .. n |-> Piece(t, c[k], c[k + 1])]
  BY <1>1, <1>2 DEF Between
<1> DEFINE P == {Piece(t, a, b) : a \in S, b \in S}
<1>9. \A a, b \in S : Piece(t, a, b) \in P
  OBVIOUS
<1>10. p \in P /\ \A k \in 1 .. n - 1 : Piece(t, bounds[k], bounds[k + 1]) \in P
  <2>1. \A k \in 1 .. n : bounds[k] \in S
    BY <1>1
  <2> HIDE DEF P
  <2> QED
    BY <1>1, <1>9, <2>1
<1> HIDE DEF u, c, p, P
<1>11. u \in [1 .. n - 1 -> P]
  BY <1>3, <1>10
<1>5. u \in Seq(P) /\ Len(u) = n - 1
  BY <1>1, <1>11
<1>6. Append(u, p) = [k \in 1 .. n |-> IF k = n THEN p ELSE u[k]]
  <2>1. Append(u, p) = [k \in 1 .. Len(u) + 1 |-> IF k = Len(u) + 1 THEN p ELSE u[k]]
    <3>1. p \in P /\ u \in Seq(P)
      BY <1>5, <1>10
    <3> DEFINE a == Append(u, p)
    <3>2. /\ a \in Seq(P) /\ Len(a) = Len(u) + 1 /\ a[Len(u) + 1] = p
          /\ \A k \in 1 .. Len(u) : a[k] = u[k]
      BY <3>1, AppendProperties
    <3> HIDE DEF a, n
    <3>3. Len(u) \in Nat
      BY <3>1
    <3>4. a = [k \in 1 .. Len(u) + 1 |-> a[k]]
      BY <3>2
    <3>5. \A k \in 1 .. Len(u) + 1 : a[k] = IF k = Len(u) + 1 THEN p ELSE u[k]
      BY <3>2, <3>3
    <3> QED
      BY <3>4, <3>5 DEF a
  <2>2. Len(u) + 1 = n
    BY <1>1, <1>5
  <2> QED
    BY <2>1, <2>2, Zenon
<1>7. \A k \in 1 .. n : Piece(t, c[k], c[k + 1]) = IF k = n THEN p ELSE u[k]
  <2> SUFFICES ASSUME NEW k \in 1 .. n
               PROVE  Piece(t, c[k], c[k + 1]) = IF k = n THEN p ELSE u[k]
    OBVIOUS
  <2>1. CASE k = n
    BY <1>1, <1>2, <2>1 DEF p
  <2>2. CASE k # n
    <3>1. k \in 1 .. n - 1 /\ k + 1 \in 1 .. n
      BY <1>1, <2>2
    <3>2. c[k] = bounds[k] /\ c[k + 1] = bounds[k + 1]
      BY <1>2, <3>1
    <3> QED
      BY <1>3, <2>2, <3>1, <3>2
  <2> QED
    BY <2>1, <2>2
<1>8. Between(t, c) = Append(u, p)
  BY <1>4, <1>6, <1>7
<1> QED
  BY <1>8 DEF u, c, p

-----------------------------------------------------------------------------
(* The splitter and its definition, character by character. *)

(* The state after i characters, told by the definition.                   *)
Agrees(t, f, i) ==
  LET bounds == Bounds(t, i) IN
  /\ bounds # <<>>
  /\ f[i].current = Kept(t, bounds[Len(bounds)] + 1, i)
  /\ f[i].statements = Without(Between(t, bounds), {<<>>})

(* It agrees before the first character,                                   *)
LEMMA AgreesFirst ==
  ASSUME NEW t \in Seq(STRING), NEW f, Scans(f, t)
  PROVE  Agrees(t, f, 0)
<1>1. Interval(0, -1) = <<>> /\ Interval(0, 0) = Append(<<>>, 0)
  <2>1. 0 \in Nat /\ -1 \in Int /\ 0 <= -1 + 1 /\ -1 + 1 = 0
    OBVIOUS
  <2> QED
    BY <2>1, IntervalGrows
<1> DEFINE d == DOMAIN t \ Separators(t)
<1>2. 0 \notin d
  OBVIOUS
<1>3. <<>> \in Seq({0}) /\ 0 \in {0}
  BY EmptySeq
<1> HIDE DEF d
<1>4. Bounds(t, 0) = Append(<<>>, 0)
  <2>1. Without(Append(<<>>, 0), d)
          = IF 0 \in d THEN Without(<<>>, d) ELSE Append(Without(<<>>, d), 0)
    <3> DEFINE e == <<>>
    <3>1. e \in Seq({0})
      BY <1>3
    <3> HIDE DEF e
    <3>2. Without(Append(e, 0), d)
            = IF 0 \in d THEN Without(e, d) ELSE Append(Without(e, d), 0)
      BY <1>3, <3>1, WithoutAppend
    <3> QED
      BY <3>2 DEF e
  <2>2. Without(<<>>, d) = <<>>
    BY WithoutEmpty
  <2>3. Without(Append(<<>>, 0), d) = Append(<<>>, 0)
    BY <1>2, <2>1, <2>2, Zenon
  <2> QED
    BY <1>1, <2>3 DEF Bounds, d
<1> DEFINE bounds == Bounds(t, 0)
<1>5. Len(bounds) = 1 /\ bounds[1] = 0 /\ bounds # <<>>
  BY <1>4
<1> HIDE DEF bounds
<1>6. Between(t, bounds) = <<>>
  BY <1>5 DEF Between
<1>7. Kept(t, 0 + 1, 0) = <<>>
  <2>1. 1 \in 1 .. Len(t) + 1 /\ 0 \in 1 - 1 .. Len(t) /\ 0 + 1 = 1
    OBVIOUS
  <2> QED
    BY <2>1, KeptGrows
<1>8. f[0] = Scanner
  BY DEF Scans
<1>9. f[0].current = <<>> /\ f[0].statements = <<>>
  BY <1>8, ScannerType
<1> QED
  BY <1>5, <1>6, <1>7, <1>9, WithoutEmpty DEF Agrees, bounds

(* and still does after a character if it did before it.                   *)
LEMMA AgreesNext ==
  ASSUME NEW t \in Seq(STRING), NEW f, Scans(f, t), NEW i \in 0 .. Len(t) - 1,
         Agrees(t, f, i)
  PROVE  Agrees(t, f, i + 1)
<1> DEFINE bounds == Bounds(t, i)
           last   == bounds[Len(bounds)]
           j      == i + 1
           n      == Len(t)
<1>1. n \in Nat /\ i \in Nat /\ i < n /\ j \in DOMAIN t /\ j \in Nat /\ j - 1 = i
  OBVIOUS
<1>2. bounds \in Seq(0 .. i)
  BY <1>1, BoundsGrow
<1>3. Bounds(t, j) = IF j \in Separators(t) THEN Append(bounds, j) ELSE bounds
  BY <1>1, BoundsGrow
<1>4. /\ bounds # <<>>
      /\ f[i].current = Kept(t, last + 1, i)
      /\ f[i].statements = Without(Between(t, bounds), {<<>>})
  BY DEF Agrees
<1>5. TurnFits(t, f, j)
  BY <1>1, TurnsFit
<1> HIDE DEF bounds, j, n
<1>6. last \in 0 .. i
  BY <1>1, <1>2, <1>4, EmptySeq
<1>7. last + 1 \in 1 .. n + 1 /\ i \in (last + 1) - 1 .. n
  BY <1>1, <1>6
<1> HIDE DEF last
<1>8. Kept(t, last + 1, j) = IF j \in Comments(t) THEN Kept(t, last + 1, i)
                             ELSE Append(Kept(t, last + 1, i), t[j])
  BY <1>1, <1>7, KeptGrows DEF j, n
<1>9. CASE j \in Separators(t)
  <2>1. Ends(f[i], f[j]) /\ Bounds(t, j) = Append(bounds, j)
    BY <1>1, <1>3, <1>5, <1>9 DEF TurnFits
  <2> DEFINE c == Append(bounds, j)
             p == Piece(t, last, j)
  <2>2. j \in 0 .. j /\ bounds \in Seq(0 .. j)
    <3>1. 0 .. i \subseteq 0 .. j
      BY <1>1
    <3> QED
      BY <1>1, <1>2, <3>1
  <2>3. Len(c) = Len(bounds) + 1 /\ c[Len(c)] = j /\ c # <<>>
    BY <2>2
  <2>4. p = Trim(f[i].current)
    BY <1>1, <1>4, <1>6, PieceByKept DEF j
  <2>5. Between(t, c) = Append(Between(t, bounds), p)
    BY <1>4, <2>2, BetweenGrows DEF last
  <2>6. Kept(t, j + 1, j) = <<>>
    <3>1. j + 1 \in 1 .. n + 1 /\ j \in (j + 1) - 1 .. n
      BY <1>1 DEF n
    <3> QED
      BY <3>1, KeptGrows DEF n
  <2> DEFINE u == Between(t, bounds)
             P == {p} \union {u[k] : k \in 1 .. Len(u)}
  <2>7. p \in P /\ u \in Seq(P)
    <3>1. DOMAIN u = 1 .. Len(bounds) - 1 /\ Len(bounds) - 1 \in Nat
      BY <1>2, <1>4, EmptySeq DEF Between
    <3>2. Len(u) = Len(bounds) - 1
      BY <3>1 DEF Between
    <3>3. \A k \in 1 .. Len(u) : u[k] \in P
      OBVIOUS
    <3>4. u = [k \in 1 .. Len(u) |-> u[k]]
      BY <3>2 DEF Between
    <3> HIDE DEF u, P
    <3> QED
      BY <3>1, <3>2, <3>3, <3>4 DEF P
  <2> HIDE DEF c, p, u, P
  <2>8. Without(Append(u, p), {<<>>})
          = IF p \in {<<>>} THEN Without(u, {<<>>}) ELSE Append(Without(u, {<<>>}), p)
    BY <2>7, WithoutAppend
  <2>9. /\ f[j].current = <<>>
        /\ f[j].statements = IF p = <<>> THEN Without(u, {<<>>})
                             ELSE Append(Without(u, {<<>>}), p)
    BY <1>4, <2>1, <2>4 DEF Ends, u
  <2>10. f[j].statements = Without(Between(t, c), {<<>>})
    BY <2>5, <2>8, <2>9 DEF u
  <2> QED
    BY <2>1, <2>3, <2>6, <2>9, <2>10 DEF Agrees, c, j
<1>10. CASE j \notin Separators(t)
  <2>1. Bounds(t, j) = bounds
    BY <1>3, <1>10
  <2>2. /\ j \in Comments(t) => Passes(f[i], f[j])
        /\ j \notin Comments(t) => Takes(f[i], f[j], t[j])
    BY <1>1, <1>5, <1>10 DEF TurnFits
  <2>3. f[j].current = Kept(t, last + 1, j) /\ f[j].statements = f[i].statements
    BY <1>4, <1>8, <2>2 DEF Passes, Takes
  <2> QED
    BY <1>4, <2>1, <2>3 DEF Agrees, last, j
<1> QED
  BY <1>9, <1>10

(* Every text is split at its separators and nowhere else.                 *)
THEOREM SplitterIsDefinition ==
  ASSUME NEW t \in Seq(STRING)
  PROVE  Statements(t) = Pieces(t)
<1>1. PICK f : Scans(f, t) /\ Statements(t) = Ended(f[Len(t)]).statements
  BY StatementsByScan
<1> DEFINE A == {i \in Nat : Agrees(t, f, i)}
           n == Len(t)
<1>2. 0 \in Nat /\ n \in Nat
  OBVIOUS
<1>3. 0 \in A
  BY <1>1, AgreesFirst
<1>4. ASSUME NEW i \in 0 .. n - 1, i \in A PROVE i + 1 \in A
  <2>1. Agrees(t, f, i + 1)
    BY <1>1, <1>4, AgreesNext
  <2> QED
    BY <1>2, <2>1
<1> HIDE DEF A
<1>5. 0 .. n \subseteq A
  <2> HIDE DEF n
  <2> QED
    BY <1>2, <1>3, <1>4, InductionBetween
<1>6. Agrees(t, f, n)
  BY <1>2, <1>5 DEF A
<1> DEFINE bounds == Bounds(t, n)
           last   == bounds[Len(bounds)]
           s      == f[n]
<1>7. /\ bounds # <<>>
      /\ s.current = Kept(t, last + 1, n)
      /\ s.statements = Without(Between(t, bounds), {<<>>})
  BY <1>6 DEF Agrees
<1>8. bounds \in Seq(0 .. n) /\ Bounds(t, n + 1) = Append(bounds, n + 1)
  <2>1. n + 1 \notin DOMAIN t
    OBVIOUS
  <2> QED
    BY <1>2, <2>1, BoundsGrow
<1>9. s \in ScanState
  BY <1>1, <1>2, ScansType
<1> HIDE DEF bounds, s
<1>10. bounds \in Seq(0 .. n + 1) /\ n + 1 \in 0 .. n + 1
  <2>1. 0 .. n \subseteq 0 .. n + 1
    BY <1>2
  <2> HIDE DEF n
  <2> QED
    BY <1>2, <1>8, <2>1
<1>11. last \in Nat
  BY <1>2, <1>7, <1>8, EmptySeq
<1> DEFINE p == Piece(t, last, n + 1)
           u == Between(t, bounds)
           P == {p} \union {u[k] : k \in 1 .. Len(u)}
<1> HIDE DEF last
<1>12. p = Trim(s.current)
  BY <1>2, <1>7, <1>11, PieceByKept
<1>13. Between(t, Append(bounds, n + 1)) = Append(u, p)
  BY <1>7, <1>10, BetweenGrows DEF last
<1>14. Pieces(t) = Without(Append(u, p), {<<>>})
  BY <1>8, <1>13, Zenon DEF Pieces, Between, Bounds
<1>15. p \in P /\ u \in Seq(P)
  <2>1. DOMAIN u = 1 .. Len(bounds) - 1 /\ Len(bounds) - 1 \in Nat
    BY <1>7, <1>8, EmptySeq DEF Between
  <2>2. Len(u) = Len(bounds) - 1
    BY <2>1 DEF Between
  <2>3. \A k \in 1 .. Len(u) : u[k] \in P
    OBVIOUS
  <2>4. u = [k \in 1 .. Len(u) |-> u[k]]
    BY <2>2 DEF Between
  <2> HIDE DEF u, P
  <2> QED
    BY <2>1, <2>2, <2>3, <2>4 DEF P
<1> HIDE DEF p, u, P
<1>16. Without(Append(u, p), {<<>>})
         = IF p \in {<<>>} THEN Without(u, {<<>>}) ELSE Append(Without(u, {<<>>}), p)
  BY <1>15, WithoutAppend
<1>17. Ended(s).statements = IF p = <<>> THEN Without(u, {<<>>})
                             ELSE Append(Without(u, {<<>>}), p)
  BY <1>7, <1>9, <1>12, EndedEnds DEF Ends, u
<1> QED
  BY <1>1, <1>14, <1>16, <1>17 DEF s

-----------------------------------------------------------------------------
(* The guard. *)

(* A statement is cut out of the text under test exactly where a separator *)
(* stands, whatever was asked, confirmed or switched since                 *)
(* (split_statements, safe_mode.rs:183-259).                               *)
THEOREM TextIsSplitAtSeparators == GuardSpec => []SplitsAtSeparators
<1>1. GuardInit => text \in Texts
  BY DEF GuardInit
<1>2. text \in Texts /\ [GuardNext]_guardVars => (text \in Texts)'
  BY DEF GuardNext, guardVars, Execute, Blocked, Allowed, Asked, Confirm, ToggleSafeMode
<1>3. text \in Texts => SplitsAtSeparators
  <2>1. text \in Texts => text \in Seq(STRING)
    BY TextsAssumption
  <2> QED
    BY <2>1, SplitterIsDefinition DEF SplitsAtSeparators
<1> QED
  BY <1>1, <1>2, <1>3, PTL DEF GuardSpec

(* What Session takes for granted of the guard: the open question can       *)
(* always be answered with yes, for any texts and wherever the token        *)
(* counter saturates (SafeModeGuard::confirm, safe_mode.rs:115-127).        *)
THEOREM QuestionStaysLive == GuardSpec => []OpenQuestionCanBeConfirmed
<1> USE DEF OpenQuestionCanBeConfirmed, Accepted
<1>1. GuardInit => OpenQuestionCanBeConfirmed
  BY DEF GuardInit
<1>2. OpenQuestionCanBeConfirmed /\ [GuardNext]_guardVars
      => OpenQuestionCanBeConfirmed'
  <2> SUFFICES ASSUME OpenQuestionCanBeConfirmed, [GuardNext]_guardVars
               PROVE  OpenQuestionCanBeConfirmed'
    OBVIOUS
  <2>1. ASSUME NEW sql, Blocked(sql) \/ Allowed(sql) PROVE asked' = None
    BY <2>1 DEF Blocked, Allowed
  <2>2. ASSUME NEW sql, Asked(sql)
        PROVE  asked'.token \in tokens' /\ asked'.token.print = Statements(asked'.sql)
    BY <2>2 DEF Asked
  <2>3. Confirm \/ ToggleSafeMode => asked' = None
    BY DEF Confirm, ToggleSafeMode
  <2>4. UNCHANGED guardVars => UNCHANGED <<asked, tokens>>
    BY DEF guardVars
  <2> QED
    BY <2>1, <2>2, <2>3, <2>4 DEF GuardNext, Execute
<1> QED
  BY <1>1, <1>2, PTL DEF GuardSpec

-----------------------------------------------------------------------------
(* The worker. *)

USE CapacityAssumption, RowsAssumption

Rows == 1 .. MaxRows

(***************************************************************************)
(* What the steps preserve.  The buffer is always what the contract would  *)
(* publish; once a row was pushed with the token up, the worker is past    *)
(* its last pull.                                                          *)
(***************************************************************************)
BufferIsLast == buffer = Contract!Last(arrived, Capacity)

StopsSoon ==
  /\ late \in {0, 1}
  /\ late = 1 => token /\ pc \notin {"start", "pull"}

ResultInv ==
  result = IF pc \in {"ok", "cancelled"} THEN buffer ELSE <<>>

StreamInv ==
  /\ pc \in Awaiting \union {"check", "cancel"} \union Over
  /\ token \in BOOLEAN
  /\ arrived \in Seq(Rows) /\ Len(arrived) <= MaxRows
  /\ \A i \in 1 .. Len(arrived) : arrived[i] = i
  /\ totalSeen = Len(arrived)
  /\ streamed = Len(arrived)
  /\ pc = "cancel" => token
  /\ BufferIsLast
  /\ StopsSoon
  /\ ResultInv

(* The last rows of a sequence, as a function.                              *)
LEMMA LastShape ==
  ASSUME NEW S, NEW s \in Seq(S), NEW n \in Nat \ {0}
  PROVE  LET m == IF Len(s) <= n THEN 0 ELSE Len(s) - n
         IN  /\ Contract!Last(s, n) \in Seq(S)
             /\ Len(Contract!Last(s, n)) = Len(s) - m
             /\ \A i \in 1 .. Len(s) - m : Contract!Last(s, n)[i] = s[m + i]
<1>1. CASE Len(s) <= n
  BY <1>1 DEF Contract!Last
<1>2. CASE ~(Len(s) <= n)
  <2> DEFINE m == Len(s) - n
  <2>1. m + 1 \in Int /\ Len(s) \in Int /\ m + 1 <= Len(s) /\ m \in Nat
    BY <1>2
  <2>2. \A i \in m + 1 .. Len(s) : s[i] \in S
    BY <2>1, ElementOfSeq
  <2>3. /\ SubSeq(s, m + 1, Len(s)) \in Seq(S)
        /\ Len(SubSeq(s, m + 1, Len(s))) = Len(s) - m
        /\ \A i \in 1 .. Len(s) - m : SubSeq(s, m + 1, Len(s))[i] = s[m + i]
    BY <2>1, <2>2, SubSeqProperties
  <2> QED
    BY <1>2, <2>3 DEF Contract!Last
<1> QED
  BY <1>1, <1>2

(* Evicting before appending keeps the last rows the last rows.             *)
LEMMA PushKeepsLast ==
  ASSUME NEW S, NEW s \in Seq(S), NEW r \in S
  PROVE  Push(Contract!Last(s, Capacity), r) = Contract!Last(Append(s, r), Capacity)
<1> DEFINE b == Contract!Last(s, Capacity)
           t == Append(s, r)
<1>1. t \in Seq(S) /\ Len(t) = Len(s) + 1 /\ t[Len(s) + 1] = r
        /\ \A i \in 1 .. Len(s) : t[i] = s[i]
  OBVIOUS
<1>2. CASE Len(s) < Capacity
  <2>1. b = s /\ Contract!Last(t, Capacity) = t
    BY <1>1, <1>2 DEF Contract!Last
  <2> QED
    BY <1>2, <2>1 DEF Push
<1>3. CASE Len(s) >= Capacity
  <2>1. /\ b \in Seq(S) /\ Len(b) = Capacity /\ b # <<>>
        /\ \A i \in 1 .. Capacity : b[i] = s[Len(s) - Capacity + i]
    <3>1. CASE Len(s) = Capacity
      BY <3>1 DEF Contract!Last
    <3>2. CASE Len(s) > Capacity
      BY <3>2, LastShape
    <3> QED
      BY <1>3, <3>1, <3>2
  <2>2. /\ Contract!Last(t, Capacity) \in Seq(S) /\ Len(Contract!Last(t, Capacity)) = Capacity
        /\ \A i \in 1 .. Capacity :
             Contract!Last(t, Capacity)[i] = t[Len(s) + 1 - Capacity + i]
    <3>1. ~(Len(t) <= Capacity)
      BY <1>1, <1>3
    <3>2. Len(t) - Capacity = Len(s) + 1 - Capacity /\ Len(t) - (Len(t) - Capacity) = Capacity
      BY <1>1
    <3>3. t \in Seq(S)
      BY <1>1
    <3> HIDE DEF t
    <3>4. LET m == IF Len(t) <= Capacity THEN 0 ELSE Len(t) - Capacity
          IN  /\ Contract!Last(t, Capacity) \in Seq(S)
              /\ Len(Contract!Last(t, Capacity)) = Len(t) - m
              /\ \A i \in 1 .. Len(t) - m : Contract!Last(t, Capacity)[i] = t[m + i]
      BY <3>3, CapacityAssumption, LastShape
    <3> QED
      BY <3>1, <3>2, <3>4
  <2>3. Push(b, r) = Append(Tail(b), r)
    BY <2>1 DEF Push
  <2>4. /\ Tail(b) \in Seq(S) /\ Len(Tail(b)) = Capacity - 1
        /\ \A i \in 1 .. Capacity - 1 : Tail(b)[i] = b[i + 1]
    BY <2>1, HeadTailProperties
  <2>5. /\ Push(b, r) \in Seq(S) /\ Len(Push(b, r)) = Capacity
        /\ \A i \in 1 .. Capacity : Push(b, r)[i] = t[Len(s) + 1 - Capacity + i]
    <3>1. /\ Push(b, r) \in Seq(S) /\ Len(Push(b, r)) = Capacity
          /\ Push(b, r)[Capacity] = r
          /\ \A i \in 1 .. Capacity - 1 : Push(b, r)[i] = Tail(b)[i]
      <4> HIDE DEF b
      <4> QED
        BY <2>3, <2>4, AppendProperties
    <3>2. \A i \in 1 .. Capacity - 1 : Push(b, r)[i] = t[Len(s) + 1 - Capacity + i]
      BY <1>1, <1>3, <2>1, <2>4, <3>1
    <3>3. Push(b, r)[Capacity] = t[Len(s) + 1 - Capacity + Capacity]
      <4>1. Len(s) + 1 - Capacity + Capacity = Len(s) + 1
        BY LenProperties
      <4> HIDE DEF b, t
      <4> QED
        BY <1>1, <3>1, <4>1
    <3> HIDE DEF b, t
    <3>4. ASSUME NEW i \in 1 .. Capacity
          PROVE  Push(b, r)[i] = t[Len(s) + 1 - Capacity + i]
      <4>1. CASE i = Capacity
        BY <3>3, <4>1
      <4>2. CASE i # Capacity
        <5>1. i \in 1 .. Capacity - 1
          BY <4>2
        <5> QED
          BY <3>2, <5>1
      <4> QED
        BY <4>1, <4>2
    <3> QED
      BY <3>1, <3>4
  <2> HIDE DEF b, t
  <2> QED
    BY <2>2, <2>5, SeqEqual DEF b, t
<1> QED
  BY <1>2, <1>3

-----------------------------------------------------------------------------
(* The invariant. *)

(* Nothing has no last rows.                                               *)
LEMMA LastOfNone == Contract!Last(<<>>, Capacity) = <<>>
  BY DEF Contract!Last

(* The invariant holds when the worker starts.                             *)
LEMMA InitStreamInv == Init => StreamInv
<1> SUFFICES ASSUME Init PROVE StreamInv
  OBVIOUS
<1>1. arrived \in Seq(Rows) /\ Len(arrived) = 0
  BY EmptySeq DEF Init
<1>2. \A i \in 1 .. Len(arrived) : arrived[i] = i
  BY <1>1
<1>3. BufferIsLast
  BY LastOfNone DEF Init, BufferIsLast
<1>4. StopsSoon /\ ResultInv
  BY DEF Init, StopsSoon, ResultInv
<1>5. pc \in Awaiting \union {"check", "cancel"} \union Over /\ token \in BOOLEAN
        /\ (pc = "cancel" => token)
  BY DEF Init, Awaiting
<1>6. totalSeen = Len(arrived) /\ streamed = Len(arrived)
  BY <1>1 DEF Init
<1> QED
  BY <1>1, <1>2, <1>3, <1>4, <1>5, <1>6 DEF StreamInv

(* Every step of the worker, the timer and the user preserves it.          *)
LEMMA StepStreamInv == StreamInv /\ [Next]_vars => StreamInv'
<1> SUFFICES ASSUME StreamInv, [Next]_vars PROVE StreamInv'
  OBVIOUS
<1> USE DEF StreamInv, Awaiting, Over, BufferIsLast, StopsSoon, ResultInv
<1>1. CASE StartSucceeds
  BY <1>1 DEF StartSucceeds
<1>2. CASE CheckToken
  BY <1>2 DEF CheckToken, StopAsked
<1>3. CASE RowArrives
  <2> DEFINE row == Len(arrived) + 1
  <2>1. row \in Rows
    BY <1>3, LenProperties DEF RowArrives, Rows
  <2>2. arrived' = Append(arrived, row) /\ buffer' = Push(buffer, row)
    BY <1>3 DEF RowArrives
  <2>3. /\ arrived' \in Seq(Rows) /\ Len(arrived') = row
        /\ \A i \in 1 .. Len(arrived) : arrived'[i] = arrived[i]
        /\ arrived'[row] = row
    BY <2>1, <2>2, AppendProperties
  <2>4. \A i \in 1 .. Len(arrived') : arrived'[i] = i
    BY <2>3, LenProperties
  <2>5. BufferIsLast'
    BY <2>1, <2>2, PushKeepsLast
  <2>6. Len(arrived') <= MaxRows /\ totalSeen' = Len(arrived') /\ streamed' = Len(arrived')
    BY <1>3, <2>1, <2>3 DEF RowArrives, Rows
  <2>7. StopsSoon'
    BY <1>3 DEF RowArrives
  <2>8. pc' = "check" /\ ResultInv' /\ token' = token
    BY <1>3 DEF RowArrives
  <2> QED
    BY <2>3, <2>4, <2>5, <2>6, <2>7, <2>8
<1>4. CASE RowsEnd
  BY <1>4 DEF RowsEnd, Finish
<1>5. CASE StreamCancelled
  BY <1>5 DEF StreamCancelled, Finish
<1>6. CASE BackendFails
  BY <1>6 DEF BackendFails, Finish
<1>7. CASE TimesOut
  BY <1>7 DEF TimesOut, MayTimeOut, Finish
<1>8. CASE RaiseToken
  BY <1>8 DEF RaiseToken
<1>9. CASE UNCHANGED vars
  BY <1>9 DEF vars
<1> QED
  BY <1>1, <1>2, <1>3, <1>4, <1>5, <1>6, <1>7, <1>8, <1>9 DEF Next, Worker

(* It holds throughout.                                                    *)
LEMMA StreamInvariant == Spec => []StreamInv
  BY InitStreamInv, StepStreamInv, PTL DEF Spec

(* Whatever the server sends, the buffer never holds more than Capacity     *)
(* rows, and counters and results stay in their ranges.                     *)
THEOREM StreamTyping == Spec => []TypeOK
<1>1. StreamInv => TypeOK
  <2> SUFFICES ASSUME StreamInv PROVE TypeOK
    OBVIOUS
  <2>1. /\ arrived \in Seq(Rows) /\ Len(arrived) \in Nat /\ Len(arrived) <= MaxRows
        /\ buffer = Contract!Last(arrived, Capacity) /\ Capacity \in Nat \ {0}
    BY CapacityAssumption, LenProperties DEF StreamInv, BufferIsLast
  <2>2. /\ buffer \in Seq(Rows)
        /\ Len(buffer) = Len(arrived) - IF Len(arrived) <= Capacity THEN 0 ELSE Len(arrived) - Capacity
    BY <2>1, LastShape
  <2>3. Len(buffer) <= Capacity
    BY <2>1, <2>2
  <2>4. result \in Seq(Rows)
    BY <2>2, EmptySeq DEF StreamInv, ResultInv
  <2>5. totalSeen \in 0 .. MaxRows /\ streamed \in 0 .. MaxRows /\ late \in Nat
    BY <2>1 DEF StreamInv, StopsSoon
  <2> QED
    BY <2>1, <2>2, <2>3, <2>4, <2>5 DEF StreamInv, TypeOK, Rows
<1> QED
  BY <1>1, StreamInvariant, PTL

(* However long a result is, at most one row is pushed after the token was  *)
(* raised.                                                                  *)
THEOREM StopSoon == Spec => []StopsWithinOneRow
<1>1. StreamInv => StopsWithinOneRow
  BY DEF StreamInv, StopsSoon, StopsWithinOneRow
<1> QED
  BY <1>1, StreamInvariant, PTL

(* For any capacity, earliest_buffered_index names the buffer's first row.  *)
THEOREM IndicesRight == Spec => []IndicesLocateRows
<1>1. StreamInv => IndicesLocateRows
  <2> SUFFICES ASSUME StreamInv, NEW i \in 1 .. Len(buffer)
               PROVE  buffer[i] = arrived[Earliest + i]
    BY DEF IndicesLocateRows
  <2>1. arrived \in Seq(Rows) /\ buffer = Contract!Last(arrived, Capacity)
          /\ totalSeen = Len(arrived)
    BY DEF StreamInv, BufferIsLast
  <2>2. LET m == IF Len(arrived) <= Capacity THEN 0 ELSE Len(arrived) - Capacity
        IN  /\ Len(buffer) = Len(arrived) - m
            /\ \A j \in 1 .. Len(arrived) - m : buffer[j] = arrived[m + j]
    BY <2>1, LastShape
  <2>3. Earliest = IF Len(arrived) <= Capacity THEN 0 ELSE Len(arrived) - Capacity
    BY <2>1, <2>2, LenProperties DEF Earliest
  <2> QED
    BY <2>2, <2>3
<1> QED
  BY <1>1, StreamInvariant, PTL

-----------------------------------------------------------------------------
(* The refinement. *)

(* The worker starts where the contract does.                              *)
LEMMA InitContract == Init => Contract!Init
  BY DEF Init, Contract!Init, Over

(* Every step of the worker is a step of the contract, or none.            *)
LEMMA StepContract ==
  StreamInv /\ [Next]_vars => [Contract!Next]_(Contract!contractVars)
<1> SUFFICES ASSUME StreamInv, [Next]_vars
             PROVE  Contract!Next \/ UNCHANGED Contract!contractVars
  OBVIOUS
<1> USE DEF StreamInv, Awaiting, Over
<1>1. CASE StartSucceeds
  BY <1>1 DEF StartSucceeds, Contract!contractVars
<1>2. CASE CheckToken
  BY <1>2 DEF CheckToken, Contract!contractVars
<1>3. CASE RowArrives
  <2>1. Len(arrived) + 1 \in 1 .. MaxRows
    BY <1>3, LenProperties DEF RowArrives
  <2>2. Contract!Arrive(Len(arrived) + 1)
    BY <1>3 DEF RowArrives, Contract!Arrive
  <2> QED
    BY <2>1, <2>2 DEF Contract!Next
<1>4. CASE RowsEnd \/ StreamCancelled
  <2>1. PICK ending \in {"ok", "cancelled"} : Finish(ending) /\ (ending = "cancelled" => token)
          /\ UNCHANGED token /\ pc \in {"pull", "cancel"}
    BY <1>4 DEF RowsEnd, StreamCancelled
  <2>2. Contract!End(ending)
    BY <2>1 DEF Finish, Contract!End, Contract!Published, BufferIsLast
  <2> QED
    BY <2>1, <2>2 DEF Contract!Next, Contract!Endings, Contract!Published
<1>5. CASE BackendFails
  <2>1. Contract!End("failed")
    BY <1>5 DEF BackendFails, Finish, Contract!End, Contract!Published
  <2> QED
    BY <2>1 DEF Contract!Next, Contract!Endings
<1>6. CASE TimesOut
  <2>1. Contract!End("timeout")
    BY <1>6 DEF TimesOut, MayTimeOut, Finish, Contract!End, Contract!Published
  <2> QED
    BY <2>1 DEF Contract!Next, Contract!Endings
<1>7. CASE RaiseToken
  <2>1. Contract!Cancel
    BY <1>7 DEF RaiseToken, Contract!Cancel
  <2> QED
    BY <2>1 DEF Contract!Next
<1>8. CASE UNCHANGED vars
  BY <1>8 DEF vars, Contract!contractVars
<1> QED
  BY <1>1, <1>2, <1>3, <1>4, <1>5, <1>6, <1>7, <1>8 DEF Next, Worker

(* For any capacity and any number of rows the worker keeps the contract:   *)
(* one outcome, carrying the last rows that arrived or none.                *)
THEOREM KeepsContract == Spec => ImplementsContract
  BY InitContract, StepContract, StreamInvariant, PTL DEF Spec, ImplementsContract, Contract!Spec
=============================================================================
