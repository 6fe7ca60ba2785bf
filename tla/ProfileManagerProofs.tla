-------------------------- MODULE ProfileManagerProofs --------------------------
(* Proofs about ProfileManager, for any names and markers. *)
EXTENDS ProfileManager, FiniteSetTheorems, TLAPS

-----------------------------------------------------------------------------
(* Least elements, and induction over the natural numbers. *)

(* A nonempty set of natural numbers has a least element.                   *)
LEMMA LeastNatural ==
  ASSUME NEW T, T \subseteq Nat, T # {}
  PROVE  \E m \in T : \A n \in T : m <= n
<1> DEFINE R == {p \in Nat \X Nat : p[1] < p[2]}
<1>1. IsWellFoundedOn(R, Nat)
  BY NatLessThanWellFounded DEF OpToRel
<1>2. \A n, m \in Nat : n < m => <<n, m>> \in R
  OBVIOUS
<1> HIDE DEF R
<1>3. \E m \in T : \A n \in T : ~(<<n, m>> \in R)
  BY <1>1, WFMin
<1>4. PICK m \in T : \A n \in T : <<n, m>> \notin R
  BY <1>3
<1>5. \A n \in T : ~(n < m)
  BY <1>2, <1>4
<1>6. \A n \in T : m <= n
  BY <1>5
<1> QED
  BY <1>6

(* A set that holds 0 and every successor of its members holds them all.    *)
LEMMA InductionOnSet ==
  ASSUME NEW S, 0 \in S, \A n \in Nat : n \in S => n + 1 \in S
  PROVE  Nat \subseteq S
<1> SUFFICES ASSUME Nat \ S # {} PROVE FALSE
  OBVIOUS
<1>1. PICK m \in Nat \ S : \A n \in Nat \ S : m <= n
  BY LeastNatural
<1>2. m # 0
  OBVIOUS
<1>3. m - 1 \in Nat /\ m - 1 < m /\ (m - 1) + 1 = m
  BY <1>2
<1>4. m - 1 \in S
  BY <1>1, <1>3
<1> QED
  BY <1>1, <1>3, <1>4

(* The smaller of two numbers.                                             *)
LEMMA MinOfTwo ==
  ASSUME NEW a \in Int, NEW b \in Int
  PROVE  Min({a, b}) = IF a <= b THEN a ELSE b
  BY DEF Min

-----------------------------------------------------------------------------
(* Stores. *)

USE NamesAssumption, FlagsAssumption

(* What makes a function a store.                                          *)
LEMMA StoresType ==
  ASSUME NEW s
  PROVE  s \in Stores <=> DOMAIN s \subseteq Names /\ s \in [DOMAIN s -> SUBSET Flags]
  BY DEF Stores

(* A store has no more profiles than there are names.                      *)
LEMMA DomainFinite ==
  ASSUME NEW s \in Stores
  PROVE  /\ IsFiniteSet(DOMAIN s) /\ DOMAIN s \subseteq Nat
         /\ Cardinality(DOMAIN s) \in Nat
         /\ Cardinality(DOMAIN s) <= Cardinality(Names) /\ Cardinality(Names) \in Nat \ {0}
         /\ s # Empty => Cardinality(DOMAIN s) # 0 /\ DOMAIN s # {}
<1>1. DOMAIN s \in SUBSET Names
  BY StoresType
<1>2. IsFiniteSet(DOMAIN s) /\ Cardinality(DOMAIN s) <= Cardinality(Names)
  BY <1>1, FS_Subset
<1>3. Cardinality(DOMAIN s) \in Nat /\ Cardinality(Names) \in Nat
  BY <1>2, FS_CardinalityType
<1>4. Cardinality(Names) # 0
  BY FS_EmptySet
<1>5. s # Empty => DOMAIN s # {}
  BY StoresType DEF Empty
<1>6. DOMAIN s # {} => Cardinality(DOMAIN s) # 0
  BY <1>2, FS_EmptySet
<1> QED
  BY <1>1, <1>2, <1>3, <1>4, <1>5, <1>6

(* A clamped cursor stands on a profile, and clamping again changes        *)
(* nothing.                                                                *)
LEMMA ClampedType ==
  ASSUME NEW s \in Stores, s # Empty, NEW i \in Nat
  PROVE  /\ Clamped(s, i) \in 0 .. Cardinality(DOMAIN s) - 1
         /\ Clamped(s, i) \in 0 .. Cardinality(Names) - 1
         /\ Clamped(s, Clamped(s, i)) = Clamped(s, i)
<1> DEFINE c == Cardinality(DOMAIN s) - 1
<1>1. c \in Nat /\ c <= Cardinality(Names) - 1 /\ Cardinality(Names) \in Nat
  BY DomainFinite
<1>2. \A j \in Nat : Clamped(s, j) = Min({j, c})
  BY DEF Clamped
<1> HIDE DEF c
<1>3. \A j \in Nat : Clamped(s, j) = IF j <= c THEN j ELSE c
  <2> SUFFICES ASSUME NEW j \in Nat PROVE Clamped(s, j) = IF j <= c THEN j ELSE c
    OBVIOUS
  <2>1. j \in Int /\ c \in Int
    BY <1>1
  <2>2. Min({j, c}) = IF j <= c THEN j ELSE c
    BY <2>1, MinOfTwo
  <2> QED
    BY <1>2, <2>2
<1>4. Clamped(s, i) \in 0 .. c /\ Clamped(s, i) \in Nat
  BY <1>1, <1>3
<1>5. Clamped(s, Clamped(s, i)) = Clamped(s, i)
  BY <1>1, <1>3, <1>4
<1> QED
  BY <1>1, <1>4, <1>5 DEF c

(* A profile's index is below the number of profiles.                       *)
LEMMA IndexType ==
  ASSUME NEW s \in Stores, NEW n \in DOMAIN s
  PROVE  Index(s, n) \in 0 .. Cardinality(DOMAIN s) - 1
<1> DEFINE B == {m \in DOMAIN s : m < n}
<1>1. IsFiniteSet(DOMAIN s) /\ Cardinality(DOMAIN s) \in Nat /\ DOMAIN s \subseteq Nat
  BY DomainFinite
<1>2. B \in SUBSET (DOMAIN s \ {n})
  BY <1>1
<1>3. IsFiniteSet(DOMAIN s \ {n}) /\ Cardinality(DOMAIN s \ {n}) = Cardinality(DOMAIN s) - 1
  BY <1>1, FS_RemoveElement
<1> HIDE DEF B
<1>4. IsFiniteSet(B) /\ Cardinality(B) <= Cardinality(DOMAIN s) - 1
  BY <1>2, <1>3, FS_Subset
<1>5. Cardinality(B) \in Nat
  BY <1>4, FS_CardinalityType
<1>6. Cardinality(B) \in 0 .. Cardinality(DOMAIN s) - 1
  BY <1>1, <1>4, <1>5
<1> QED
  BY <1>6 DEF Index, B

(* Every index below the number of profiles is some profile's.              *)
LEMMA IndexOnto ==
  ASSUME NEW s \in Stores, NEW i \in 0 .. Cardinality(DOMAIN s) - 1
  PROVE  \E n \in DOMAIN s : Index(s, n) = i
<1> DEFINE D == DOMAIN s
           Below(n) == {m \in D : m < n}
           T == {k \in Nat : k < Cardinality(D) => \E n \in D : Cardinality(Below(n)) = k}
<1>1. IsFiniteSet(D) /\ Cardinality(D) \in Nat /\ D \subseteq Nat
  BY DomainFinite
<1> HIDE DEF D
<1>2. 0 \in T
  <2> SUFFICES ASSUME 0 < Cardinality(D) PROVE \E n \in D : Cardinality(Below(n)) = 0
    OBVIOUS
  <2>1. D # {}
    BY <1>1, FS_EmptySet
  <2>2. PICK n \in D : \A m \in D : n <= m
    BY <1>1, <2>1, LeastNatural
  <2>3. Below(n) = {}
    <3>1. \A m \in D : ~(m < n)
      BY <1>1, <2>2
    <3> QED
      BY <3>1
  <2> QED
    BY <2>3, FS_EmptySet
<1>3. \A k \in Nat : k \in T => k + 1 \in T
  <2> SUFFICES ASSUME NEW k \in Nat, k \in T, k + 1 < Cardinality(D)
               PROVE  \E n \in D : Cardinality(Below(n)) = k + 1
    OBVIOUS
  <2>1. PICK n \in D : Cardinality(Below(n)) = k
    BY <1>1
  <2> DEFINE B == Below(n)
             A == {m \in D : m > n}
  <2>2. B \in SUBSET D /\ n \notin B
    BY <1>1
  <2>3. D = (B \union {n}) \union A
    <3>1. \A m \in D : m < n \/ m = n \/ m > n
      BY <1>1
    <3> QED
      BY <3>1
  <2>4. A \subseteq Nat /\ A \subseteq D
    BY <1>1
  <2>5. Cardinality(B) = k
    BY <2>1
  <2> HIDE DEF B, A
  <2>6. IsFiniteSet(B)
    BY <1>1, <2>2, FS_Subset
  <2>7. Cardinality(B \union {n}) = k + 1
    BY <2>2, <2>5, <2>6, FS_AddElement
  <2>8. A # {}
    <3>1. A = {} => D = B \union {n}
      BY <2>3
    <3>2. Cardinality(D) # k + 1
      BY <1>1
    <3> QED
      BY <2>7, <3>1, <3>2
  <2>9. PICK m \in A : \A j \in A : m <= j
    BY <2>4, <2>8, LeastNatural
  <2>10. Below(m) = B \union {n}
    <3>1. m \in D /\ m > n /\ \A j \in D : j > n => m <= j
      BY <2>9 DEF A
    <3>2. \A j \in D : j < m <=> j < n \/ j = n
      BY <1>1, <3>1
    <3>3. Below(m) = {j \in D : j < n \/ j = n}
      BY <3>2
    <3> QED
      BY <3>3 DEF B
  <2>11. m \in D
    BY <2>4
  <2> QED
    BY <2>7, <2>10, <2>11
<1>4. i \in Nat /\ i < Cardinality(D)
  BY <1>1 DEF D
<1>5. Nat \subseteq T
  <2> HIDE DEF T
  <2> QED
    BY <1>2, <1>3, InductionOnSet
<1>6. \E n \in D : Cardinality(Below(n)) = i
  BY <1>4, <1>5
<1> QED
  BY <1>6 DEF Index, D

(* The manager's cursor, clamped, is on a stored profile.                   *)
LEMMA NameAtType ==
  ASSUME NEW s \in Stores, s # Empty, NEW i \in Nat
  PROVE  NameAt(s, i) \in DOMAIN s /\ NameAt(s, i) \in Names
<1>1. Clamped(s, i) \in 0 .. Cardinality(DOMAIN s) - 1
  BY ClampedType
<1>2. \E n \in DOMAIN s : Index(s, n) = Clamped(s, i)
  BY <1>1, IndexOnto
<1>3. NameAt(s, i) \in DOMAIN s
  BY <1>2 DEF NameAt
<1> QED
  BY <1>3, StoresType

-----------------------------------------------------------------------------
(* What the store's operations keep. *)

(* The empty store is one, without a marker.                               *)
LEMMA EmptyType == Empty \in Stores /\ Exclusive(Empty)
<1>1. DOMAIN Empty = {} /\ Empty \in [{} -> SUBSET Flags]
  BY DEF Empty
<1> QED
  BY <1>1, StoresType DEF Exclusive

(* Upsert writes one profile and leaves the others.                        *)
Overwrites(t, s, n, flags) ==
  /\ t \in Stores
  /\ DOMAIN t = DOMAIN s \union {n}
  /\ t[n] = flags
  /\ \A m \in DOMAIN s : m # n => t[m] = s[m]

LEMMA UpsertType ==
  ASSUME NEW s \in Stores, NEW n \in Names, NEW flags \in SUBSET Flags
  PROVE  Overwrites(Upsert(s, n, flags), s, n, flags)
<1>1. DOMAIN s \subseteq Names /\ s \in [DOMAIN s -> SUBSET Flags]
  BY StoresType
<1>2. Upsert(s, n, flags) \in [DOMAIN s \union {n} -> SUBSET Flags]
  BY <1>1 DEF Upsert
<1>3. DOMAIN Upsert(s, n, flags) = DOMAIN s \union {n}
  BY DEF Upsert
<1>4. Upsert(s, n, flags) \in Stores
  BY <1>1, <1>2, <1>3, StoresType
<1>5. /\ Upsert(s, n, flags)[n] = flags
      /\ \A m \in DOMAIN s : m # n => Upsert(s, n, flags)[m] = s[m]
  BY DEF Upsert
<1> QED
  BY <1>3, <1>4, <1>5, Zenon DEF Overwrites

(* A part of a store is a store.                                           *)
LEMMA RestrictType ==
  ASSUME NEW s \in Stores, NEW S \in SUBSET DOMAIN s
  PROVE  /\ Restrict(s, S) \in Stores /\ DOMAIN Restrict(s, S) = S
         /\ \A m \in S : Restrict(s, S)[m] = s[m]
<1>1. DOMAIN s \subseteq Names /\ s \in [DOMAIN s -> SUBSET Flags]
  BY StoresType
<1>2. Restrict(s, S) \in [S -> SUBSET Flags] /\ DOMAIN Restrict(s, S) = S
  BY <1>1 DEF Restrict
<1>3. Restrict(s, S) \in Stores
  BY <1>1, <1>2, StoresType
<1> QED
  BY <1>2, <1>3 DEF Restrict

(* Deleting removes one profile and leaves the others.                     *)
LEMMA WithoutType ==
  ASSUME NEW s \in Stores, NEW n
  PROVE  /\ Without(s, n) \in Stores /\ DOMAIN Without(s, n) = DOMAIN s \ {n}
         /\ \A m \in DOMAIN s \ {n} : Without(s, n)[m] = s[m]
  BY RestrictType DEF Without

(* Setting a marker gives it to one profile and takes it from the others.  *)
LEMMA MarkedType ==
  ASSUME NEW s \in Stores, NEW n, NEW marker \in Markers \intersect Flags
  PROVE  /\ Marked(s, n, marker) \in Stores /\ DOMAIN Marked(s, n, marker) = DOMAIN s
         /\ \A m \in DOMAIN s : m # n => Marked(s, n, marker)[m] = s[m] \ {marker}
         /\ n \in DOMAIN s => Marked(s, n, marker)[n] = s[n] \union {marker}
<1>1. DOMAIN s \subseteq Names /\ s \in [DOMAIN s -> SUBSET Flags]
  BY StoresType
<1>2. Marked(s, n, marker) \in [DOMAIN s -> SUBSET Flags] /\ DOMAIN Marked(s, n, marker) = DOMAIN s
  BY <1>1 DEF Marked
<1>3. Marked(s, n, marker) \in Stores
  BY <1>1, <1>2, StoresType
<1> QED
  BY <1>2, <1>3 DEF Marked

(* Saving a profile leaves the others, and its own markers as they were.   *)
MergedFlags(s, p) ==
  IF p.name \in DOMAIN s
  THEN (p.flags \ Markers) \union (s[p.name] \intersect Markers)
  ELSE p.flags

LEMMA SavedProfileType ==
  ASSUME NEW s \in Stores, NEW p \in Profile
  PROVE  Overwrites(SavedProfile(s, p), s, p.name, MergedFlags(s, p))
<1>1. p.name \in Names /\ p.flags \in SUBSET Flags
  BY DEF Profile
<1>2. s \in [DOMAIN s -> SUBSET Flags]
  BY StoresType
<1>3. MergedFlags(s, p) \in SUBSET Flags
  BY <1>1, <1>2 DEF MergedFlags
<1>4. SavedProfile(s, p) = Upsert(s, p.name, MergedFlags(s, p))
  BY DEF SavedProfile, MergedFlags
<1> QED
  BY <1>1, <1>3, <1>4, UpsertType

(* In particular, a store stays a store.                                   *)
LEMMA SavedProfileStored ==
  ASSUME NEW s \in Stores, NEW p \in Profile
  PROVE  SavedProfile(s, p) \in Stores
<1>1. Overwrites(SavedProfile(s, p), s, p.name, MergedFlags(s, p))
  BY SavedProfileType
<1> QED
  BY <1>1 DEF Overwrites

(* A file cut short holds profiles of the store, with no more than they had.*)
LEMMA CutShortType ==
  ASSUME NEW s \in Stores, NEW t \in CutShort(s)
  PROVE  /\ t \in Stores /\ DOMAIN t \subseteq DOMAIN s
         /\ \A m \in DOMAIN t : t[m] \subseteq s[m]
<1>1. DOMAIN s \subseteq Names /\ s \in [DOMAIN s -> SUBSET Flags]
  BY StoresType
<1> DEFINE before(n) == Restrict(s, {m \in DOMAIN s : m < n})
<1>2. ASSUME NEW n \in DOMAIN s
      PROVE  /\ before(n) \in Stores /\ DOMAIN before(n) = {m \in DOMAIN s : m < n}
             /\ \A m \in DOMAIN before(n) : before(n)[m] = s[m]
  BY RestrictType
<1>3. CASE \E n \in DOMAIN s : t = before(n)
  <2>1. PICK n \in DOMAIN s : t = before(n)
    BY <1>3
  <2> QED
    BY <1>2, <2>1
<1>4. CASE \E n \in DOMAIN s, lost \in {Flags, Markers, {"quick"}} :
              t = Upsert(before(n), n, s[n] \ lost)
  <2>1. PICK n \in DOMAIN s, lost \in {Flags, Markers, {"quick"}} :
               t = Upsert(before(n), n, s[n] \ lost)
    BY <1>4
  <2> DEFINE b == before(n)
  <2>2. /\ b \in Stores /\ DOMAIN b = {m \in DOMAIN s : m < n}
        /\ \A m \in DOMAIN b : b[m] = s[m]
    BY <1>2
  <2>3. n \in Names /\ s[n] \ lost \in SUBSET Flags
    BY <1>1
  <2>4. t = Upsert(b, n, s[n] \ lost)
    BY <2>1
  <2> DEFINE flags == s[n] \ lost
  <2>5. flags \in SUBSET Flags /\ t = Upsert(b, n, flags) /\ flags \subseteq s[n]
    BY <2>3, <2>4
  <2> HIDE DEF b, flags
  <2>6. t \in Stores /\ DOMAIN t = DOMAIN b \union {n} /\ t[n] = flags
        /\ \A m \in DOMAIN b : m # n => t[m] = b[m]
    <3>1. b \in Stores /\ n \in Names
      BY <2>2, <2>3
    <3>2. Overwrites(t, b, n, flags)
      BY <2>5, <3>1, UpsertType
    <3> QED
      BY <3>2 DEF Overwrites
  <2>7. \A m \in DOMAIN t : t[m] \subseteq s[m]
    <3> SUFFICES ASSUME NEW m \in DOMAIN t PROVE t[m] \subseteq s[m]
      OBVIOUS
    <3>1. CASE m = n
      BY <2>5, <2>6, <3>1
    <3>2. CASE m # n
      BY <2>2, <2>6, <3>2
    <3> QED
      BY <3>1, <3>2
  <2>8. DOMAIN t \subseteq DOMAIN s
    BY <2>2, <2>6
  <2> QED
    BY <2>6, <2>7, <2>8
<1>5. \/ \E n \in DOMAIN s : t = before(n)
      \/ \E n \in DOMAIN s, lost \in {Flags, Markers, {"quick"}} :
           t = Upsert(before(n), n, s[n] \ lost)
  <2> DEFINE part(n, lost) == Upsert(before(n), n, s[n] \ lost)
             losses == {Flags, Markers, {"quick"}}
  <2>1. t \in {before(n) : n \in DOMAIN s} \union
             {part(n, lost) : n \in DOMAIN s, lost \in losses}
    BY DEF CutShort
  <2> HIDE DEF before, part, losses
  <2>2. CASE t \in {before(n) : n \in DOMAIN s}
    BY <2>2
  <2>3. CASE t \in {part(n, lost) : n \in DOMAIN s, lost \in losses}
    <3>1. \E n \in DOMAIN s, lost \in losses : t = part(n, lost)
      BY <2>3
    <3> QED
      BY <3>1 DEF part, losses
  <2> QED
    BY <2>1, <2>2, <2>3
<1> QED
  BY <1>3, <1>4, <1>5

-----------------------------------------------------------------------------
(* What a rename and a write do. *)

Renamed(s, old, n) == Without(Upsert(s, n, s[old]), old)

(* Renaming moves one profile to a new name and leaves the others.         *)
LEMMA RenamedType ==
  ASSUME NEW s \in Stores, NEW old \in DOMAIN s, NEW n \in Names, n \notin DOMAIN s
  PROVE  /\ Renamed(s, old, n) \in Stores
         /\ DOMAIN Renamed(s, old, n) = (DOMAIN s \union {n}) \ {old}
         /\ n \in DOMAIN Renamed(s, old, n) /\ Renamed(s, old, n)[n] = s[old]
         /\ \A m \in DOMAIN s \ {old} : Renamed(s, old, n)[m] = s[m]
<1> DEFINE t == Renamed(s, old, n)
           flags == s[old]
           u == Upsert(s, n, flags)
<1>1. flags \in SUBSET Flags
  BY StoresType
<1>2. flags = s[old]
  OBVIOUS
<1> HIDE DEF flags
<1>3. /\ u \in Stores /\ DOMAIN u = DOMAIN s \union {n}
      /\ u[n] = flags
      /\ \A m \in DOMAIN s : m # n => u[m] = s[m]
  <2>1. Overwrites(u, s, n, flags)
    BY <1>1, UpsertType
  <2> QED
    BY <2>1 DEF Overwrites
<1>4. t = Without(u, old)
  BY <1>2 DEF Renamed
<1> HIDE DEF t
<1> HIDE DEF u
<1>5. /\ Without(u, old) \in Stores /\ DOMAIN Without(u, old) = DOMAIN u \ {old}
      /\ \A m \in DOMAIN u \ {old} : Without(u, old)[m] = u[m]
  BY <1>3, WithoutType
<1>6. \A m \in DOMAIN s \ {old} : t[m] = s[m]
  BY <1>3, <1>4, <1>5
<1> QED
  BY <1>2, <1>3, <1>4, <1>5, <1>6 DEF t

FileTypeOK == disk \in Stores /\ file \in {"current", "legacy", "garbled"} /\ saved \in BOOLEAN

(* Persisting leaves a file that may have been written, the store itself   *)
(* if it succeeded.                                                        *)
LEMMA PersistType ==
  ASSUME FileTypeOK, NEW s \in Stores, Persist(s)
  PROVE  FileTypeOK' /\ (saved' => disk' = s /\ file' = "current")
<1>1. CASE disk' = s /\ file' = "current" /\ saved' = TRUE
  BY <1>1 DEF FileTypeOK
<1>2. CASE UNCHANGED fileVars /\ saved' = FALSE
  BY <1>2 DEF FileTypeOK, fileVars
<1>3. CASE disk' \in CutShort(s) \union {Empty} /\ file' = "current" /\ saved' = FALSE
  <2>1. disk' \in Stores
    BY <1>3, CutShortType, EmptyType
  <2> QED
    BY <1>3, <2>1 DEF FileTypeOK
<1>4. CASE disk' = Empty /\ file' = "garbled" /\ saved' = FALSE
  BY <1>4, EmptyType DEF FileTypeOK
<1> QED
  BY <1>1, <1>2, <1>3, <1>4 DEF Persist

(* Whatever the write does to the file, no marker is on two of its profiles *)
(* if none was on two before and none is on two of those to be written.     *)
LEMMA SmallerExclusive ==
  ASSUME NEW s, NEW t, Exclusive(s), DOMAIN t \subseteq DOMAIN s,
         \A m \in DOMAIN t : t[m] \subseteq s[m]
  PROVE  Exclusive(t)
<1> SUFFICES ASSUME NEW n \in DOMAIN t, NEW m \in DOMAIN t, n # m
             PROVE  t[n] \intersect t[m] \intersect Markers = {}
  BY DEF Exclusive
<1>1. s[n] \intersect s[m] \intersect Markers = {}
  BY DEF Exclusive
<1>2. t[n] \subseteq s[n] /\ t[m] \subseteq s[m]
  OBVIOUS
<1> QED
  BY <1>1, <1>2

(* No file that a persist can leave has a marker on two profiles.          *)
LEMMA PersistExclusive ==
  ASSUME Exclusive(disk), NEW s \in Stores, Exclusive(s), Persist(s)
  PROVE  Exclusive(disk')
<1>1. CASE disk' = s
  BY <1>1
<1>2. CASE disk' = disk
  BY <1>2
<1>3. CASE disk' \in CutShort(s)
  <2> DEFINE t == disk'
  <2>1. t \in CutShort(s)
    BY <1>3
  <2> HIDE DEF t
  <2>2. DOMAIN t \subseteq DOMAIN s /\ \A m \in DOMAIN t : t[m] \subseteq s[m]
    BY <2>1, CutShortType
  <2>3. Exclusive(t)
    BY <2>2, SmallerExclusive
  <2> QED
    BY <2>3 DEF t
<1>4. CASE disk' = Empty
  BY <1>4, EmptyType
<1> QED
  BY <1>1, <1>2, <1>3, <1>4 DEF Persist, fileVars

(* Nor does setting a marker put it on two,                                *)
LEMMA MarkedExclusive ==
  ASSUME NEW s \in Stores, Exclusive(s), NEW n, NEW marker \in Markers \intersect Flags
  PROVE  Exclusive(Marked(s, n, marker))
<1> DEFINE t == Marked(s, n, marker)
<1>1. /\ t \in Stores /\ DOMAIN t = DOMAIN s
      /\ \A m \in DOMAIN s : m # n => t[m] = s[m] \ {marker}
      /\ n \in DOMAIN s => t[n] = s[n] \union {marker}
  BY MarkedType
<1> HIDE DEF t
<1>2. ASSUME NEW m \in DOMAIN t, NEW k \in DOMAIN t, m # k
      PROVE  t[m] \intersect t[k] \intersect Markers = {}
  <2>1. s[m] \intersect s[k] \intersect Markers = {}
    BY <1>1, <1>2 DEF Exclusive
  <2>2. CASE m = n
    BY <1>1, <1>2, <2>1, <2>2
  <2>3. CASE k = n
    BY <1>1, <1>2, <2>1, <2>3
  <2>4. CASE m # n /\ k # n
    BY <1>1, <1>2, <2>1, <2>4
  <2> QED
    BY <2>2, <2>3, <2>4
<1>3. Exclusive(t)
  BY <1>2 DEF Exclusive
<1> QED
  BY <1>3 DEF t

(* deleting a profile,                                                     *)
LEMMA WithoutExclusive ==
  ASSUME NEW s \in Stores, Exclusive(s), NEW n
  PROVE  Exclusive(Without(s, n))
<1> DEFINE t == Without(s, n)
<1>1. DOMAIN t = DOMAIN s \ {n} /\ \A m \in DOMAIN s \ {n} : t[m] = s[m]
  BY WithoutType
<1> HIDE DEF t
<1>2. Exclusive(t)
  BY <1>1, SmallerExclusive
<1> QED
  BY <1>2 DEF t

(* or renaming one.                                                        *)
LEMMA RenamedExclusive ==
  ASSUME NEW s \in Stores, Exclusive(s), NEW old \in DOMAIN s, NEW n \in Names,
         n \notin DOMAIN s
  PROVE  Exclusive(Renamed(s, old, n))
<1> DEFINE t == Renamed(s, old, n)
<1>1. /\ DOMAIN t = (DOMAIN s \union {n}) \ {old} /\ t[n] = s[old]
      /\ \A m \in DOMAIN s \ {old} : t[m] = s[m]
  BY RenamedType
<1> HIDE DEF t
<1>a. Exclusive(t) => Exclusive(Renamed(s, old, n))
  BY DEF t
<1> SUFFICES ASSUME NEW m \in DOMAIN t, NEW k \in DOMAIN t, m # k
             PROVE  t[m] \intersect t[k] \intersect Markers = {}
  BY <1>a DEF Exclusive
<1> DEFINE was(j) == IF j = n THEN old ELSE j
<1>2. was(m) \in DOMAIN s /\ was(k) \in DOMAIN s /\ was(m) # was(k)
  BY <1>1
<1>3. t[m] = s[was(m)] /\ t[k] = s[was(k)]
  BY <1>1
<1> QED
  BY <1>2, <1>3 DEF Exclusive

(* Saving a profile that is stored under its name keeps its markers.        *)
LEMMA SavedExclusive ==
  ASSUME NEW s \in Stores, Exclusive(s), NEW p \in Profile, p.name \in DOMAIN s
  PROVE  Exclusive(SavedProfile(s, p))
<1> DEFINE t == SavedProfile(s, p)
<1>1. /\ t \in Stores /\ DOMAIN t = DOMAIN s \union {p.name}
      /\ t[p.name] = IF p.name \in DOMAIN s
                     THEN (p.flags \ Markers) \union (s[p.name] \intersect Markers)
                     ELSE p.flags
      /\ \A m \in DOMAIN s : m # p.name => t[m] = s[m]
  <2>1. Overwrites(t, s, p.name, MergedFlags(s, p))
    BY SavedProfileType
  <2> HIDE DEF t
  <2> QED
    BY <2>1 DEF Overwrites, MergedFlags
<1> HIDE DEF t
<1>2. \A m \in DOMAIN s : t[m] \intersect Markers = s[m] \intersect Markers
  BY <1>1
<1>3. Exclusive(t)
  BY <1>1, <1>2 DEF Exclusive
<1> QED
  BY <1>3 DEF t

-----------------------------------------------------------------------------
(* The invariant: the variables keep their types, and a program that could  *)
(* not read the file has no profiles of its own.                            *)

ClosedIsEmpty == ~opened => store = Empty

IInv == TypeOK /\ ClosedIsEmpty

(* The invariant holds when the program starts.                            *)
LEMMA InitType == Init => IInv
<1> SUFFICES ASSUME Init PROVE IInv
  OBVIOUS
<1>1. disk \in Stores
  BY DEF Init
<1>2. store \in Stores
  BY <1>1, EmptyType DEF Init
<1>3. 0 \in 0 .. Cardinality(Names) - 1
  BY <1>1, DomainFinite
<1> QED
  BY <1>1, <1>2, <1>3 DEF Init, IInv, TypeOK, ClosedIsEmpty

(* The cursor the handlers read is one of the list.                        *)
LEMMA ClampedCursorType ==
  ASSUME TypeOK
  PROVE  /\ ClampedCursor \in 0 .. Cardinality(Names) - 1
         /\ ClampedCursor \in Nat
         /\ store # Empty => ClampedCursor = Clamped(store, cursor)
<1>1. store \in Stores /\ cursor \in Nat /\ Cardinality(Names) \in Nat \ {0}
  BY DomainFinite DEF TypeOK
<1>2. CASE store = Empty
  BY <1>1, <1>2 DEF ClampedCursor
<1>3. CASE store # Empty
  <2>1. Clamped(store, cursor) \in 0 .. Cardinality(Names) - 1
    BY <1>1, <1>3, ClampedType
  <2> QED
    BY <1>1, <1>3, <2>1 DEF ClampedCursor
<1> QED
  BY <1>2, <1>3

(* The profile at the cursor.                                               *)
LEMMA AtCursorType ==
  ASSUME TypeOK, store # Empty
  PROVE  /\ store \in Stores /\ cursor \in Nat
         /\ NameAt(store, cursor) \in DOMAIN store
         /\ NameAt(store, cursor) \in Names
         /\ \A n \in DOMAIN store : n \in Names /\ store[n] \in SUBSET Flags
<1>1. store \in Stores /\ cursor \in Nat
  BY DEF TypeOK
<1> QED
  BY <1>1, NameAtType, StoresType

(* Every step preserves it, failing writes and restarts included.          *)
LEMMA StepType == IInv /\ [Next]_vars => IInv'
<1> SUFFICES ASSUME IInv, [Next]_vars PROVE IInv'
  OBVIOUS
<1> USE DEF IInv, ClosedIsEmpty, Profile
<1> DEFINE CursorType == cursor' \in 0 .. Cardinality(Names) - 1
<1>a. FileTypeOK
  BY DEF TypeOK, FileTypeOK
<1>b. /\ cursor \in Nat /\ cursor \in 0 .. Cardinality(Names) - 1 /\ store \in Stores
      /\ Cardinality(Names) \in Nat \ {0}
  BY DomainFinite DEF TypeOK
<1>1. CASE OpenManager
  <2>1. CursorType
    BY <1>1, ClampedCursorType DEF OpenManager
  <2> QED
    BY <1>1, <2>1 DEF OpenManager, TypeOK, fileVars, storeVars, connectVars
<1>2. CASE SwitchPane
  BY <1>2 DEF SwitchPane, TypeOK, fileVars, storeVars, renameVars, connectVars
<1>3. CASE MoveCursor
  <2>1. CursorType
    <3>1. CASE cursor' = IF ClampedCursor = 0 THEN 0 ELSE ClampedCursor - 1
      <4>1. CASE ClampedCursor = 0
        BY <3>1, <4>1, ClampedCursorType
      <4>2. CASE ClampedCursor # 0
        BY <1>b, <3>1, <4>2, ClampedCursorType
      <4> QED
        BY <4>1, <4>2
    <3>2. CASE store # Empty /\ cursor' = CursorBelow
      <4> DEFINE i == ClampedCursor + 1
      <4>1. i \in Nat
        BY ClampedCursorType
      <4> HIDE DEF i
      <4>2. Clamped(store, i) \in 0 .. Cardinality(Names) - 1
        BY <1>b, <3>2, <4>1, ClampedType
      <4> QED
        BY <3>2, <4>2 DEF CursorBelow, i
    <3> QED
      BY <1>3, <3>1, <3>2 DEF MoveCursor
  <2> QED
    BY <1>3, <2>1 DEF MoveCursor, TypeOK, fileVars, storeVars, renameVars, connectVars
<1>4. CASE StartRename
  <2>1. CursorType
    BY <1>4, ClampedCursorType DEF StartRename
  <2>2. NameAt(store, cursor) \in Names
    BY <1>4, AtCursorType DEF StartRename
  <2> QED
    BY <1>4, <2>1, <2>2 DEF StartRename, TypeOK, fileVars, storeVars, connectVars
<1>5. CASE CancelRename
  BY <1>5 DEF CancelRename, TypeOK, fileVars, storeVars, connectVars
<1>6. CASE CommitRename
  <2> DEFINE old == NameAt(store, cursor)
             s == Renamed(store, old, buffer)
  <2>1. store # Empty /\ buffer \in Names /\ buffer \notin DOMAIN store
    BY <1>6 DEF CommitRename, MayRename, TypeOK
  <2>2. store' = s /\ Persist(s)
    BY <1>6 DEF CommitRename, Renamed
  <2>3. old \in DOMAIN store
    BY <2>1, AtCursorType
  <2> HIDE DEF old
  <2>7. s \in Stores /\ buffer \in DOMAIN s
    BY <1>b, <2>1, <2>3, RenamedType
  <2> HIDE DEF s
  <2>8. s[buffer] \in SUBSET Flags
    BY <2>7, StoresType
  <2>9. FileTypeOK'
    BY <1>a, <2>2, <2>7, PersistType
  <2>10. Index(s, buffer) \in 0 .. Cardinality(Names) - 1
    <3>1. Index(s, buffer) \in 0 .. Cardinality(DOMAIN s) - 1
      BY <2>7, IndexType
    <3> QED
      BY <2>7, <3>1, DomainFinite
  <2>11. CASE saved'
    <3>1. renaming' = FALSE /\ buffer' = NoName /\ chosen' = NoName
          /\ cursor' = Index(s, buffer) /\ recent' = RecentRenamed(old)
      BY <1>6, <2>2, <2>11 DEF CommitRename, old
    <3>2. recent' \in Profile \union {NoProfile}
      BY <2>1, <2>2, <2>8, <3>1 DEF RecentRenamed, TypeOK
    <3> QED
      BY <1>6, <2>1, <2>2, <2>7, <2>9, <2>10, <3>1, <3>2 DEF CommitRename, TypeOK, FileTypeOK
  <2>12. CASE ~saved'
    <3>1. UNCHANGED <<cursor, renameVars, recent>>
      BY <1>6, <2>12 DEF CommitRename
    <3> QED
      BY <1>6, <2>1, <2>2, <2>7, <2>9, <3>1 DEF CommitRename, TypeOK, FileTypeOK, renameVars
  <2> QED
    BY <2>11, <2>12
<1>7. CASE SameName
  BY <1>7 DEF SameName, TypeOK, fileVars, storeVars, connectVars
<1>8. CASE \E n \in Names \union {NoName} : TypeName(n)
  BY <1>8 DEF TypeName, TypeOK, fileVars, storeVars, connectVars
<1>9. CASE \E marker \in Markers \intersect Flags : MarkProfile(marker)
  <2> PICK marker \in Markers \intersect Flags : MarkProfile(marker)
    BY <1>9
  <2> DEFINE old == NameAt(store, cursor)
             t == Marked(store, old, marker)
  <2>1. store # Empty /\ store' = t /\ Persist(t)
    BY DEF MarkProfile
  <2> HIDE DEF old
  <2>2. t \in Stores
    BY <1>b, MarkedType
  <2> HIDE DEF t
  <2>3. FileTypeOK'
    BY <1>a, <2>1, <2>2, PersistType
  <2>4. opened /\ opened' = opened
    BY <2>1 DEF MarkProfile
  <2> QED
    BY <2>1, <2>2, <2>3, <2>4 DEF MarkProfile, TypeOK, FileTypeOK, renameVars, connectVars
<1>10. CASE DeleteProfile
  <2> DEFINE old == NameAt(store, cursor)
             t == Without(store, old)
  <2>1. store # Empty /\ store' = t /\ Persist(t)
    BY <1>10 DEF DeleteProfile
  <2> HIDE DEF old
  <2>2. t \in Stores
    BY <1>b, WithoutType
  <2> HIDE DEF t
  <2>3. FileTypeOK'
    BY <1>a, <2>1, <2>2, PersistType
  <2>4. CursorType
    <3>1. cursor' = cursor \/ (cursor > 0 /\ cursor' = cursor - 1)
      BY <1>10 DEF DeleteProfile
    <3> QED
      BY <1>b, <3>1
  <2>5. opened /\ opened' = opened
    BY <1>10, <2>1 DEF DeleteProfile
  <2> QED
    BY <1>10, <2>1, <2>2, <2>3, <2>4, <2>5
       DEF DeleteProfile, TypeOK, FileTypeOK, renameVars, connectVars
<1>11. CASE OpenProfile
  <2>1. CursorType
    BY <1>11, ClampedCursorType DEF OpenProfile
  <2>2. NameAt(store, cursor) \in Names /\ store[NameAt(store, cursor)] \in SUBSET Flags
    BY <1>11, AtCursorType DEF OpenProfile
  <2>3. recent' \in Profile \union {NoProfile}
    BY <1>11, <2>2 DEF OpenProfile, TypeOK
  <2> QED
    BY <1>11, <2>1, <2>3 DEF OpenProfile, TypeOK, fileVars, storeVars, renameVars
<1>12. CASE \E n \in Names : ConnectFromWizard(n)
  <2> PICK n \in Names : ConnectFromWizard(n)
    BY <1>12
  <2> DEFINE p == [name |-> n, flags |-> {}]
  <2>1. p \in Profile
    OBVIOUS
  <2>2. flight' = p /\ recent' = IF connected THEN recent ELSE p
    BY DEF ConnectFromWizard, StartConnect
  <2> HIDE DEF p
  <2> QED
    BY <2>1, <2>2 DEF ConnectFromWizard, TypeOK, fileVars, storeVars, renameVars
<1>13. CASE ConnectFromManager
  <2>1. store # Empty /\ cursor' = ClampedCursor
    BY <1>13 DEF ConnectFromManager
  <2>2. PICK n \in {NameAt(store, cursor)} \union {q \in QuickProfiles : q = Min(QuickProfiles)} :
          StartConnect([name |-> n, flags |-> store[n]])
    BY <1>13 DEF ConnectFromManager
  <2>3. n \in DOMAIN store
    BY <2>1, <2>2, AtCursorType DEF QuickProfiles
  <2> DEFINE p == [name |-> n, flags |-> store[n]]
  <2>4. p \in Profile
    BY <2>1, <2>3, AtCursorType
  <2>5. flight' = p /\ recent' = IF connected THEN recent ELSE p
    BY <2>2 DEF StartConnect
  <2> HIDE DEF p
  <2>6. CursorType
    BY <2>1, ClampedCursorType
  <2> QED
    BY <1>13, <2>4, <2>5, <2>6 DEF ConnectFromManager, TypeOK, fileVars, storeVars, renameVars
<1>14. CASE Reconnect
  BY <1>14 DEF Reconnect, StartConnect, TypeOK, fileVars, storeVars, renameVars
<1>15. CASE ConnectSucceeded
  <2>1. flight \in Profile
    BY <1>15 DEF ConnectSucceeded, TypeOK
  <2>2. CASE opened
    <3> DEFINE t == SavedProfile(store, flight)
    <3>1. store' = t /\ Persist(t)
      BY <1>15, <2>2 DEF ConnectSucceeded
    <3>2. t \in Stores
      BY <1>b, <2>1, SavedProfileStored
    <3> HIDE DEF t
    <3>3. FileTypeOK'
      BY <1>a, <3>1, <3>2, PersistType
    <3> QED
      BY <1>15, <2>1, <2>2, <3>1, <3>2, <3>3
         DEF ConnectSucceeded, TypeOK, FileTypeOK, renameVars
  <2>3. CASE ~opened
    <3>1. store' = store /\ SaveWithoutStore
      BY <1>15, <2>3 DEF ConnectSucceeded
    <3> DEFINE t == SavedProfile(disk, flight)
    <3>2. t \in Stores /\ disk \in Stores
      BY <1>a, <2>1, SavedProfileStored DEF FileTypeOK
    <3>3. UNCHANGED <<fileVars, saved>> \/ Persist(t) \/ Persist(disk)
      BY <1>a, <3>1 DEF SaveWithoutStore, FileTypeOK
    <3> HIDE DEF t
    <3>4. FileTypeOK'
      BY <1>a, <3>2, <3>3, PersistType DEF FileTypeOK, fileVars
    <3> QED
      BY <1>15, <2>1, <2>3, <3>1, <3>4 DEF ConnectSucceeded, TypeOK, FileTypeOK, renameVars
  <2> QED
    BY <2>2, <2>3
<1>16. CASE ConnectFailed
  BY <1>16 DEF ConnectFailed, TypeOK, fileVars, storeVars, renameVars
<1>17. CASE Restart
  <2>1. FileTypeOK'
    <3>1. CASE UNCHANGED fileVars /\ saved' \in BOOLEAN
      BY <1>a, <3>1 DEF FileTypeOK, fileVars
    <3>2. CASE Persist(disk)
      BY <1>a, <3>2, PersistType DEF FileTypeOK
    <3> QED
      BY <1>17, <3>1, <3>2 DEF Restart, Load, Migrate
  <2>2. store' \in Stores /\ (~opened' => store' = Empty) /\ opened' \in BOOLEAN
    <3>1. opened' = saved' /\ store' = IF opened' THEN disk ELSE Empty
      BY <1>17 DEF Restart, Load
    <3>2. disk \in Stores /\ opened' \in BOOLEAN
      BY <1>a, <2>1, <3>1 DEF FileTypeOK
    <3>3. CASE opened'
      BY <3>1, <3>2, <3>3
    <3>4. CASE ~opened'
      BY <3>1, <3>2, <3>4, EmptyType
    <3> QED
      BY <3>3, <3>4
  <2>3. 0 \in 0 .. Cardinality(Names) - 1
    BY <1>b
  <2> QED
    BY <1>17, <2>1, <2>2, <2>3 DEF Restart, TypeOK, FileTypeOK
<1>18. CASE UNCHANGED vars
  BY <1>18 DEF TypeOK, vars, fileVars, storeVars, renameVars, connectVars
<1> QED
  BY <1>1, <1>2, <1>3, <1>4, <1>5, <1>6, <1>7, <1>8, <1>9, <1>10, <1>11, <1>12, <1>13,
     <1>14, <1>15, <1>16, <1>17, <1>18 DEF Next

(* It holds throughout.                                                    *)
LEMMA Invariance == Spec => []IInv
  BY InitType, StepType, PTL DEF Spec

(* The cursor, the typed name and the profiles in memory and on disk are    *)
(* always what the manager and the store can hold.                          *)
THEOREM Typing == Spec => []TypeOK
<1>1. IInv => TypeOK
  BY DEF IInv
<1> QED
  BY Invariance, <1>1, PTL

-----------------------------------------------------------------------------
(* The steps that change the store, each with what it makes of it. *)

(* What a rename does: the profile under the cursor takes a free name.     *)
LEMMA CommitRenameStep ==
  ASSUME IInv, CommitRename
  PROVE  LET old == NameAt(store, cursor)
         IN  /\ old \in DOMAIN store /\ buffer \in Names /\ buffer \notin DOMAIN store
             /\ store' = Renamed(store, old, buffer) /\ store' \in Stores /\ Persist(store')
             /\ saved' => recent' = RecentRenamed(old)
<1> DEFINE old == NameAt(store, cursor)
           t == Renamed(store, old, buffer)
<1>1. /\ store # Empty /\ buffer \in Names /\ buffer \notin DOMAIN store
      /\ store' = t /\ Persist(store') /\ store \in Stores
      /\ saved' => recent' = RecentRenamed(old)
  BY DEF CommitRename, MayRename, IInv, TypeOK, Renamed
<1>2. old \in DOMAIN store
  BY <1>1, AtCursorType DEF IInv
<1> HIDE DEF old
<1>3. t \in Stores
  BY <1>1, <1>2, RenamedType
<1> HIDE DEF t
<1>4. store' \in Stores
  BY <1>1, <1>3
<1> QED
  BY <1>1, <1>2, <1>4 DEF old, t

(* What marking does: the profile under the cursor gets the marker.        *)
LEMMA MarkProfileStep ==
  ASSUME IInv, NEW marker \in Markers \intersect Flags, MarkProfile(marker)
  PROVE  /\ store \in Stores
         /\ store' = Marked(store, NameAt(store, cursor), marker)
         /\ store' \in Stores /\ Persist(store')
<1> DEFINE old == NameAt(store, cursor)
           t == Marked(store, old, marker)
<1>1. store' = t /\ Persist(store') /\ store \in Stores
  BY DEF MarkProfile, IInv, TypeOK
<1> HIDE DEF old
<1>2. t \in Stores
  BY <1>1, MarkedType
<1> HIDE DEF t
<1>3. store' \in Stores
  BY <1>1, <1>2
<1> QED
  BY <1>1, <1>3 DEF old, t

(* What deleting does: the profile under the cursor goes.                  *)
LEMMA DeleteProfileStep ==
  ASSUME IInv, DeleteProfile
  PROVE  /\ store \in Stores
         /\ store' = Without(store, NameAt(store, cursor))
         /\ store' \in Stores /\ Persist(store')
<1> DEFINE old == NameAt(store, cursor)
           t == Without(store, old)
<1>1. store' = t /\ Persist(store') /\ store \in Stores
  BY DEF DeleteProfile, IInv, TypeOK
<1> HIDE DEF old
<1>2. t \in Stores
  BY <1>1, WithoutType
<1> HIDE DEF t
<1>3. store' \in Stores
  BY <1>1, <1>2
<1> QED
  BY <1>1, <1>3 DEF old, t

(* What a finished connect saves: its profile, over the list if it is open *)
(* and over the file if not.                                               *)
LEMMA ConnectSucceededStep ==
  ASSUME IInv, ConnectSucceeded
  PROVE  /\ flight \in Profile /\ store \in Stores /\ disk \in Stores
         /\ opened => /\ store' = SavedProfile(store, flight) /\ store' \in Stores
                      /\ Persist(store')
         /\ ~opened => /\ store' = store
                       /\ \/ UNCHANGED <<fileVars, saved>>
                          \/ Persist(SavedProfile(disk, flight)) \/ Persist(disk)
<1>1. flight \in Profile /\ store \in Stores /\ disk \in Stores
      /\ file \in {"current", "legacy", "garbled"}
  BY DEF ConnectSucceeded, IInv, TypeOK
<1> DEFINE t == SavedProfile(store, flight)
<1>2. opened => store' = t /\ Persist(store')
  BY DEF ConnectSucceeded
<1>3. t \in Stores
  BY <1>1, SavedProfileStored
<1> HIDE DEF t
<1>4. opened => store' \in Stores
  BY <1>2, <1>3
<1>5. ~opened => /\ store' = store
                 /\ \/ UNCHANGED <<fileVars, saved>>
                    \/ Persist(SavedProfile(disk, flight)) \/ Persist(disk)
  BY <1>1 DEF ConnectSucceeded, SaveWithoutStore
<1> QED
  BY <1>1, <1>2, <1>4, <1>5 DEF t

(* Every other step but a restart leaves the store, the file and the last   *)
(* write's outcome as they are.                                             *)
Reading ==
  \/ OpenManager \/ SwitchPane \/ MoveCursor \/ StartRename \/ CancelRename \/ SameName
  \/ \E n \in Names \union {NoName} : TypeName(n)
  \/ OpenProfile \/ (\E n \in Names : ConnectFromWizard(n))
  \/ ConnectFromManager \/ Reconnect \/ ConnectFailed

(* Moving, opening and typing write nothing.                               *)
LEMMA ReadingKeeps == Reading => UNCHANGED <<disk, file, opened, store, saved>>
  BY DEF Reading, OpenManager, SwitchPane, MoveCursor, StartRename, CancelRename, SameName,
         TypeName, OpenProfile, ConnectFromWizard, ConnectFromManager, Reconnect,
         ConnectFailed, fileVars, storeVars

(* The steps that write, and the others.                                   *)
LEMMA StepCases ==
  Next <=> \/ Reading \/ CommitRename
           \/ \E marker \in Markers \intersect Flags : MarkProfile(marker)
           \/ DeleteProfile \/ ConnectSucceeded \/ Restart
  BY DEF Next, Reading

-----------------------------------------------------------------------------
(* Memory and file. *)

(* After every step the list and the file agree, or a write has failed.    *)
LEMMA StepInSync == IInv /\ InSync /\ [Next]_vars => InSync'
<1> SUFFICES ASSUME IInv, InSync, [Next]_vars PROVE InSync'
  OBVIOUS
<1>a. FileTypeOK
  BY DEF IInv, TypeOK, FileTypeOK
<1>b. ASSUME store' \in Stores, Persist(store') PROVE InSync'
  <2> DEFINE t == store'
  <2>1. t \in Stores /\ Persist(t)
    BY <1>b
  <2> HIDE DEF t
  <2>2. saved' => disk' = t /\ file' = "current"
    BY <1>a, <2>1, PersistType
  <2> QED
    BY <2>2 DEF InSync, t
<1>1. CASE Reading
  BY <1>1, ReadingKeeps DEF InSync
<1>2. CASE CommitRename
  BY <1>2, <1>b, CommitRenameStep
<1>3. CASE \E marker \in Markers \intersect Flags : MarkProfile(marker)
  BY <1>3, <1>b, MarkProfileStep
<1>4. CASE DeleteProfile
  BY <1>4, <1>b, DeleteProfileStep
<1>5. CASE ConnectSucceeded
  <2>1. CASE opened
    BY <1>5, <1>b, <2>1, ConnectSucceededStep
  <2>2. CASE ~opened
    BY <1>5, <2>2 DEF ConnectSucceeded, InSync
  <2> QED
    BY <2>1, <2>2
<1>6. CASE Restart
  <2>1. opened' = saved' /\ store' = IF opened' THEN disk ELSE Empty
    BY <1>6 DEF Restart, Load
  <2>2. CASE opened'
    <3>1. disk' = disk /\ file' = "current"
      BY <1>a, <1>6, <2>1, <2>2, PersistType DEF Restart, Load, Migrate, fileVars, FileTypeOK
    <3> QED
      BY <2>1, <2>2, <3>1 DEF InSync
  <2>3. CASE ~opened'
    BY <2>3 DEF InSync
  <2> QED
    BY <2>2, <2>3
<1>7. CASE UNCHANGED vars
  BY <1>7 DEF InSync, vars, fileVars, storeVars
<1> QED
  BY <1>1, <1>2, <1>3, <1>4, <1>5, <1>6, <1>7, StepCases

(* Whatever the user does and wherever a write fails, an open store whose   *)
(* last write succeeded holds exactly what the file holds.                  *)
THEOREM MemoryIsTheFile == Spec => []InSync
<1>1. Init => InSync
  BY DEF Init, InSync
<1> QED
  BY Invariance, StepInSync, <1>1, PTL DEF Spec

-----------------------------------------------------------------------------
(* The markers. *)

ConnectToAbsent ==
  /\ flight # NoProfile /\ flight' = NoProfile
  /\ flight.name \notin DOMAIN (IF opened THEN store ELSE disk)

(* No step puts a marker on two profiles, but for the connect exempted.    *)
LEMMA StepMarkers == IInv /\ MarkedOnce /\ [Next]_vars => MarkedOnce' \/ ConnectToAbsent
<1> SUFFICES ASSUME IInv, MarkedOnce, [Next]_vars, ~ConnectToAbsent PROVE MarkedOnce'
  OBVIOUS
<1>a. Exclusive(store) /\ Exclusive(disk) /\ store \in Stores /\ disk \in Stores
  BY DEF MarkedOnce, IInv, TypeOK
<1>b. ASSUME store' \in Stores, Exclusive(store'), Persist(store') PROVE MarkedOnce'
  <2> DEFINE t == store'
  <2>1. t \in Stores /\ Exclusive(t) /\ Persist(t)
    BY <1>b
  <2> HIDE DEF t
  <2>2. Exclusive(disk')
    BY <1>a, <2>1, PersistExclusive
  <2> QED
    BY <1>b, <2>2 DEF MarkedOnce
<1>1. CASE Reading
  BY <1>1, <1>a, ReadingKeeps DEF MarkedOnce
<1>2. CASE CommitRename
  <2> DEFINE old == NameAt(store, cursor)
             t == Renamed(store, old, buffer)
  <2>1. /\ old \in DOMAIN store /\ buffer \in Names /\ buffer \notin DOMAIN store
        /\ store' = t /\ store' \in Stores /\ Persist(store')
    BY <1>2, CommitRenameStep
  <2> HIDE DEF old
  <2>2. Exclusive(t)
    BY <1>a, <2>1, RenamedExclusive
  <2> HIDE DEF t
  <2> QED
    BY <1>b, <2>1, <2>2
<1>3. CASE \E marker \in Markers \intersect Flags : MarkProfile(marker)
  <2> PICK marker \in Markers \intersect Flags : MarkProfile(marker)
    BY <1>3
  <2> DEFINE old == NameAt(store, cursor)
             t == Marked(store, old, marker)
  <2>1. store' = t /\ store' \in Stores /\ Persist(store')
    BY MarkProfileStep
  <2> HIDE DEF old
  <2>2. Exclusive(t)
    BY <1>a, MarkedExclusive
  <2> HIDE DEF t
  <2> QED
    BY <1>b, <2>1, <2>2
<1>4. CASE DeleteProfile
  <2> DEFINE old == NameAt(store, cursor)
             t == Without(store, old)
  <2>1. store' = t /\ store' \in Stores /\ Persist(store')
    BY <1>4, DeleteProfileStep
  <2> HIDE DEF old
  <2>2. Exclusive(t)
    BY <1>a, WithoutExclusive
  <2> HIDE DEF t
  <2> QED
    BY <1>b, <2>1, <2>2
<1>5. CASE ConnectSucceeded
  <2>1. /\ flight \in Profile
        /\ flight.name \in DOMAIN (IF opened THEN store ELSE disk)
    BY <1>5, ConnectSucceededStep DEF ConnectToAbsent, ConnectSucceeded
  <2>2. CASE opened
    <3> DEFINE t == SavedProfile(store, flight)
    <3>1. store' = t /\ store' \in Stores /\ Persist(store')
      BY <1>5, <2>2, ConnectSucceededStep
    <3>2. Exclusive(t)
      BY <1>a, <2>1, <2>2, SavedExclusive
    <3> HIDE DEF t
    <3> QED
      BY <1>b, <3>1, <3>2
  <2>3. CASE ~opened
    <3> DEFINE t == SavedProfile(disk, flight)
    <3>1. store' = store /\ (UNCHANGED <<fileVars, saved>> \/ Persist(t) \/ Persist(disk))
      BY <1>5, <2>3, ConnectSucceededStep
    <3>2. t \in Stores /\ Exclusive(t)
      BY <1>a, <2>1, <2>3, SavedExclusive, SavedProfileStored
    <3> HIDE DEF t
    <3>3. Exclusive(disk')
      BY <1>a, <3>1, <3>2, PersistExclusive DEF fileVars
    <3> QED
      BY <1>a, <3>1, <3>3 DEF MarkedOnce
  <2> QED
    BY <2>2, <2>3
<1>6. CASE Restart
  <2>1. store' = disk \/ store' = Empty
    BY <1>6 DEF Restart
  <2>2. disk' = disk \/ Persist(disk)
    BY <1>6 DEF Restart, Load, Migrate, fileVars
  <2>3. Exclusive(disk')
    BY <1>a, <2>2, PersistExclusive
  <2> QED
    BY <1>a, <2>1, <2>3, EmptyType DEF MarkedOnce
<1>7. CASE UNCHANGED vars
  BY <1>7, <1>a DEF MarkedOnce, vars, fileVars, storeVars
<1> QED
  BY <1>1, <1>2, <1>3, <1>4, <1>5, <1>6, <1>7, StepCases

(* No mark, rename, delete, failed write or restart brings a second default *)
(* or quick profile, in memory or in the file: only a connect that ends     *)
(* after its profile was deleted or renamed can.                            *)
THEOREM MarkersAreExclusive == Spec => MarkersStayExclusive
<1>1. IInv /\ [Next]_vars =>
        [MarkedOnce /\ ~MarkedOnce' =>
           /\ flight # NoProfile /\ flight' = NoProfile
           /\ flight.name \notin DOMAIN (IF opened THEN store ELSE disk)]_vars
  BY StepMarkers DEF ConnectToAbsent
<1> QED
  BY Invariance, <1>1, PTL DEF Spec, MarkersStayExclusive

-----------------------------------------------------------------------------
(* The connected profile. *)

(* No step loses the connected profile, but for the deletion that was      *)
(* asked for.                                                              *)
LEMMA StepAttached ==
  IInv /\ Attached /\ connected' /\ [Next]_vars =>
    Attached' \/ Unsaved \/ DOMAIN store' = DOMAIN store \ {recent.name}
<1> SUFFICES ASSUME IInv, Attached, connected', [Next]_vars, ~Unsaved,
                    DOMAIN store' # DOMAIN store \ {recent.name}
             PROVE  Attached'
  OBVIOUS
<1> DEFINE name == recent.name
<1>a. /\ connected /\ name \in DOMAIN store
      /\ store[name] \ Markers = recent.flags \ Markers /\ store \in Stores
  BY DEF Attached, IInv, TypeOK
<1>b. ASSUME recent' = recent, name \in DOMAIN store',
             store'[name] \ Markers = store[name] \ Markers
      PROVE  Attached'
  BY <1>a, <1>b DEF Attached
<1>1. CASE Reading
  <2>1. store' = store
    BY <1>1, ReadingKeeps
  <2>2. recent' = recent
    BY <1>1, <1>a DEF Reading, OpenManager, SwitchPane, MoveCursor, StartRename,
       CancelRename, SameName, TypeName, OpenProfile, ConnectFromWizard,
       ConnectFromManager, Reconnect, ConnectFailed, StartConnect, connectVars
  <2> QED
    BY <1>a, <1>b, <2>1, <2>2
<1>2. CASE CommitRename
  <2> DEFINE old == NameAt(store, cursor)
             t == Renamed(store, old, buffer)
  <2>1. /\ old \in DOMAIN store /\ buffer \in Names /\ buffer \notin DOMAIN store
        /\ store' = t /\ (saved' => recent' = RecentRenamed(old))
    BY <1>2, CommitRenameStep
  <2> HIDE DEF old
  <2>2. /\ buffer \in DOMAIN t /\ t[buffer] = store[old]
        /\ DOMAIN t = (DOMAIN store \union {buffer}) \ {old}
        /\ \A m \in DOMAIN store \ {old} : t[m] = store[m]
    BY <1>a, <2>1, RenamedType
  <2> HIDE DEF t
  <2>3. saved'
    BY <2>1, <2>2 DEF Unsaved
  <2>4. CASE name = old
    <3>1. recent' = [name |-> buffer, flags |-> t[buffer]]
      BY <2>1, <2>4, <2>3 DEF RecentRenamed
    <3>2. recent'.name = buffer /\ recent'.flags = store'[buffer]
      BY <2>1, <3>1
    <3> QED
      BY <2>1, <2>2, <3>2 DEF Attached
  <2>5. CASE name # old
    <3>1. recent' = recent
      BY <2>1, <2>5, <2>3 DEF RecentRenamed
    <3>2. name \in DOMAIN store' /\ store'[name] = store[name]
      BY <1>a, <2>1, <2>2, <2>5
    <3> QED
      BY <1>b, <3>1, <3>2
  <2> QED
    BY <2>4, <2>5
<1>3. CASE \E marker \in Markers \intersect Flags : MarkProfile(marker)
  <2> PICK marker \in Markers \intersect Flags : MarkProfile(marker)
    BY <1>3
  <2> DEFINE old == NameAt(store, cursor)
             t == Marked(store, old, marker)
  <2>1. store' = t /\ recent' = recent
    BY MarkProfileStep DEF MarkProfile, connectVars
  <2> HIDE DEF old
  <2>2. /\ DOMAIN t = DOMAIN store
        /\ \A m \in DOMAIN store : m # old => t[m] = store[m] \ {marker}
        /\ old \in DOMAIN store => t[old] = store[old] \union {marker}
    BY <1>a, MarkedType
  <2> HIDE DEF t
  <2>3. t[name] \ Markers = store[name] \ Markers
    BY <1>a, <2>2
  <2> QED
    BY <1>a, <1>b, <2>1, <2>2, <2>3
<1>4. CASE DeleteProfile
  <2> DEFINE old == NameAt(store, cursor)
             t == Without(store, old)
  <2>1. store' = t /\ recent' = recent
    BY <1>4, DeleteProfileStep DEF DeleteProfile, connectVars
  <2> HIDE DEF old
  <2>2. DOMAIN t = DOMAIN store \ {old} /\ \A m \in DOMAIN store \ {old} : t[m] = store[m]
    BY <1>a, WithoutType
  <2> HIDE DEF t
  <2>3. name # old
    BY <2>1, <2>2
  <2> QED
    BY <1>a, <1>b, <2>1, <2>2, <2>3
<1>5. CASE ConnectSucceeded
  <2>1. flight \in Profile /\ recent' = flight
    BY <1>5, ConnectSucceededStep DEF ConnectSucceeded
  <2>2. opened
    BY <1>a DEF IInv, ClosedIsEmpty, Empty
  <2> DEFINE t == SavedProfile(store, flight)
  <2>3. store' = t
    BY <1>5, <2>2, ConnectSucceededStep
  <2>4. Overwrites(t, store, flight.name, MergedFlags(store, flight))
    BY <1>a, <2>1, SavedProfileType
  <2> HIDE DEF t
  <2>5. flight.name \in DOMAIN t /\ t[flight.name] \ Markers = flight.flags \ Markers
    BY <2>4 DEF Overwrites, MergedFlags
  <2> QED
    BY <2>1, <2>3, <2>5 DEF Attached
<1>6. CASE Restart
  BY <1>6 DEF Restart
<1>7. CASE UNCHANGED vars
  BY <1>7, <1>a, <1>b DEF vars, storeVars, connectVars
<1> QED
  BY <1>1, <1>2, <1>3, <1>4, <1>5, <1>6, <1>7, StepCases

(* The connected profile stays stored, with the options it was connected    *)
(* with, through every step but its deletion or a change that is not saved.  *)
THEOREM AttachmentSurvives == Spec => StaysAttached
<1>1. IInv /\ [Next]_vars =>
        [Attached /\ connected' =>
           \/ Attached'
           \/ Unsaved
           \/ DOMAIN store' = DOMAIN store \ {recent.name}]_vars
  BY StepAttached
<1> QED
  BY Invariance, <1>1, PTL DEF Spec, StaysAttached

-----------------------------------------------------------------------------
(* The profile being renamed. *)

(* Which profile is at an index depends on the names alone.                 *)
LEMMA NameAtDomain ==
  ASSUME NEW s, NEW t, DOMAIN s = DOMAIN t, NEW i
  PROVE  NameAt(s, i) = NameAt(t, i)
<1> DEFINE at(D) == CHOOSE n \in D :
                      Cardinality({m \in D : m < n}) = Min({i, Cardinality(D) - 1})
<1>1. NameAt(s, i) = at(DOMAIN s) /\ NameAt(t, i) = at(DOMAIN t)
  BY DEF NameAt, Index, Clamped
<1> HIDE DEF at
<1> QED
  BY <1>1

(* A connect ends and adds its profile.                                    *)
ConnectAdds ==
  /\ flight # NoProfile /\ flight' = NoProfile
  /\ DOMAIN store' = DOMAIN store \union {flight.name}
  /\ flight.name \notin DOMAIN store

(* No step takes the cursor off the profile chosen, but for the connect    *)
(* exempted.                                                               *)
LEMMA StepOnChosen ==
  IInv /\ OnChosen /\ [Next]_vars => OnChosen' \/ Unsaved \/ ConnectAdds
<1> SUFFICES ASSUME IInv, OnChosen, [Next]_vars, ~Unsaved, ~ConnectAdds
             PROVE  OnChosen'
  OBVIOUS
<1>a. store \in Stores /\ cursor \in Nat
  BY DEF IInv, TypeOK
<1>b. CASE ~renaming'
  BY <1>b DEF OnChosen
<1>c. CASE UNCHANGED <<store, cursor, renaming, chosen>>
  BY <1>c DEF OnChosen
<1>1. CASE Reading
  <2>1. store' = store
    BY <1>1, ReadingKeeps
  <2>2. CASE StartRename
    <3> DEFINE c == Clamped(store, cursor)
    <3>1. store # Empty /\ cursor' = c /\ chosen' = NameAt(store, cursor)
      BY <2>2, ClampedCursorType DEF StartRename, IInv
    <3>2. c \in Nat /\ Clamped(store, c) = c
      <4>1. c \in 0 .. Cardinality(DOMAIN store) - 1 /\ Clamped(store, c) = c
        BY <1>a, <3>1, ClampedType
      <4>2. Cardinality(DOMAIN store) \in Nat
        BY <1>a, DomainFinite
      <4> QED
        BY <4>1, <4>2
    <3>3. NameAt(store, c) = NameAt(store, cursor)
      BY <3>2 DEF NameAt
    <3> QED
      BY <2>1, <3>1, <3>3 DEF OnChosen
  <2>3. CASE ~StartRename
    <3>1. ~renaming' \/ UNCHANGED <<cursor, renaming, chosen>>
      BY <1>1, <2>3 DEF Reading, OpenManager, SwitchPane, MoveCursor, Browsing,
         CancelRename, SameName, TypeName, OpenProfile, ConnectFromWizard,
         ConnectFromManager, Reconnect, ConnectFailed, renameVars
    <3> QED
      BY <1>b, <1>c, <2>1, <3>1
  <2> QED
    BY <2>2, <2>3
<1>2. CASE CommitRename
  <2> DEFINE old == NameAt(store, cursor)
             t == Renamed(store, old, buffer)
  <2>1. /\ old \in DOMAIN store /\ buffer \in Names /\ buffer \notin DOMAIN store
        /\ store' = t
    BY <1>2, CommitRenameStep
  <2> HIDE DEF old
  <2>2. buffer \in DOMAIN t
    BY <1>a, <2>1, RenamedType
  <2> HIDE DEF t
  <2>3. saved'
    BY <2>1, <2>2 DEF Unsaved
  <2> QED
    BY <1>2, <1>b, <2>3 DEF CommitRename
<1>3. CASE \E marker \in Markers \intersect Flags : MarkProfile(marker)
  BY <1>3, <1>b DEF MarkProfile, Browsing, renameVars
<1>4. CASE DeleteProfile
  BY <1>4, <1>b DEF DeleteProfile, Browsing, renameVars
<1>5. CASE ConnectSucceeded
  <2>1. flight \in Profile /\ UNCHANGED <<cursor, renaming, chosen>>
    BY <1>5, ConnectSucceededStep DEF ConnectSucceeded, renameVars
  <2>2. DOMAIN store' = DOMAIN store
    <3> DEFINE t == SavedProfile(store, flight)
    <3>1. DOMAIN t = DOMAIN store \union {flight.name}
      <4>1. Overwrites(t, store, flight.name, MergedFlags(store, flight))
        BY <1>a, <2>1, SavedProfileType
      <4> HIDE DEF t
      <4> QED
        BY <4>1 DEF Overwrites
    <3>2. store' = t \/ store' = store
      BY <1>5, ConnectSucceededStep
    <3> HIDE DEF t
    <3>3. flight # NoProfile /\ flight' = NoProfile
      BY <1>5 DEF ConnectSucceeded
    <3> QED
      BY <3>1, <3>2, <3>3 DEF ConnectAdds
  <2> DEFINE t == store'
  <2>3. DOMAIN t = DOMAIN store
    BY <2>2
  <2>4. t = store'
    OBVIOUS
  <2> HIDE DEF t
  <2>5. NameAt(t, cursor) = NameAt(store, cursor)
    BY <2>3, NameAtDomain
  <2>6. renaming => t # Empty
    <3>1. renaming => DOMAIN store # {}
      BY <1>a DEF OnChosen, Empty, Stores
    <3> QED
      BY <2>3, <3>1 DEF Empty
  <2> QED
    BY <2>1, <2>4, <2>5, <2>6 DEF OnChosen
<1>6. CASE Restart
  BY <1>6, <1>b DEF Restart
<1>7. CASE UNCHANGED vars
  BY <1>7, <1>c DEF vars, storeVars, renameVars
<1> QED
  BY <1>1, <1>2, <1>3, <1>4, <1>5, <1>6, <1>7, StepCases

(* The Enter that ends a rename renames the profile the rename was started  *)
(* on, unless a connect ended meanwhile and added a profile, or a change    *)
(* was not saved.                                                           *)
THEOREM RenameStaysOnChosen == Spec => CursorStaysOnChosen
<1>1. IInv /\ [Next]_vars =>
        [OnChosen /\ ~OnChosen' =>
           \/ Unsaved
           \/ /\ flight # NoProfile /\ flight' = NoProfile
              /\ DOMAIN store' = DOMAIN store \union {flight.name}
              /\ flight.name \notin DOMAIN store]_vars
  BY StepOnChosen DEF ConnectAdds
<1> QED
  BY Invariance, <1>1, PTL DEF Spec, CursorStaysOnChosen

=============================================================================
