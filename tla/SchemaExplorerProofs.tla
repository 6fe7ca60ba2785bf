-------------------------- MODULE SchemaExplorerProofs --------------------------
(* Proofs about SchemaExplorer, for any catalogs, filters and bookmarks. *)
EXTENDS SchemaExplorer, FiniteSetTheorems, TLAPS

-----------------------------------------------------------------------------
(* Least elements, and induction over the natural numbers. *)

(* A nonempty set of natural numbers has a least element.                   *)
LEMMA LeastNatural ==
  ASSUME NEW T, T \subseteq Nat, T # {}
  PROVE  \E m \in T : \A n \in T : m <= n
<1> DEFINE R == {p \in Nat \X Nat : p[1] < p[2]}
<1>1. IsWellFoundedOn(R, Nat)
  BY NatLessThanWellFounded DEF OpToRel
<1>2. \A n, m \in Nat : n < m => <<n, m>> \in R
  OBVIOUS
<1> HIDE DEF R
<1>3. \E m \in T : \A n \in T : ~(<<n, m>> \in R)
  BY <1>1, WFMin
<1>4. PICK m \in T : \A n \in T : <<n, m>> \notin R
  BY <1>3
<1>5. \A n \in T : ~(n < m)
  BY <1>2, <1>4
<1>6. \A n \in T : m <= n
  BY <1>5
<1> QED
  BY <1>6

(* A set of numbers has a minimum.                                         *)
LEMMA MinType ==
  ASSUME NEW T, T \subseteq Nat, T # {}
  PROVE  Min(T) \in T /\ \A n \in T : Min(T) <= n
  BY LeastNatural DEF Min

(* A bounded set of numbers has a maximum.                                 *)
LEMMA MaxType ==
  ASSUME NEW n \in Nat, NEW T \in SUBSET (0 .. n), T # {}
  PROVE  Max(T) \in T
<1> DEFINE S == {n - x : x \in T}
<1>1. S \subseteq Nat /\ S # {}
  OBVIOUS
<1>2. PICK m \in S : \A y \in S : m <= y
  BY <1>1, LeastNatural
<1>3. PICK x \in T : m = n - x
  BY <1>2
<1>4. \A y \in T : y <= x
  <2> SUFFICES ASSUME NEW y \in T PROVE y <= x
    OBVIOUS
  <2>1. n - x <= n - y
    BY <1>2, <1>3
  <2> QED
    BY <2>1
<1>5. \E z \in T : \A y \in T : z >= y
  BY <1>4
<1> QED
  BY <1>5 DEF Max

(* A set that holds 0 and every successor of its members holds them all.    *)
LEMMA InductionOnSet ==
  ASSUME NEW S, 0 \in S, \A n \in Nat : n \in S => n + 1 \in S
  PROVE  Nat \subseteq S
<1> SUFFICES ASSUME Nat \ S # {} PROVE FALSE
  OBVIOUS
<1>1. PICK m \in Nat \ S : \A n \in Nat \ S : m <= n
  BY LeastNatural
<1>2. m # 0
  OBVIOUS
<1>3. m - 1 \in Nat /\ m - 1 < m /\ (m - 1) + 1 = m
  BY <1>2
<1>4. m - 1 \in S
  BY <1>1, <1>3
<1> QED
  BY <1>1, <1>3, <1>4

-----------------------------------------------------------------------------
(* The order of relationships. *)

Triples == [databases : Nat, tables : Nat, columns : Nat]

(* The order in which relationships are sorted is total.                   *)
LEMMA PrecedesIsStrictOrder ==
  ASSUME NEW p \in Triples, NEW q \in Triples, NEW r \in Triples
  PROVE  /\ ~Precedes(p, p)
         /\ p = q \/ Precedes(p, q) \/ Precedes(q, p)
         /\ Precedes(p, q) /\ Precedes(q, r) => Precedes(p, r)
<1>1. /\ p.databases \in Nat /\ p.tables \in Nat /\ p.columns \in Nat
      /\ q.databases \in Nat /\ q.tables \in Nat /\ q.columns \in Nat
      /\ r.databases \in Nat /\ r.tables \in Nat /\ r.columns \in Nat
  BY DEF Triples
<1>2. p.databases = q.databases /\ p.tables = q.tables /\ p.columns = q.columns => p = q
  BY DEF Triples
<1> QED
  BY <1>1, <1>2 DEF Precedes

(* Some triple comes first.                                                *)
LEMMA FirstTriple ==
  ASSUME NEW T, T \subseteq Triples, T # {}
  PROVE  \E m \in T : \A r \in T : r = m \/ Precedes(m, r)
<1> DEFINE A == {r.databases : r \in T}
<1>1. A \subseteq Nat /\ A # {}
  BY DEF Triples
<1>2. PICK a \in A : \A x \in A : a <= x
  BY <1>1, LeastNatural
<1> DEFINE B == {r.tables : r \in {q \in T : q.databases = a}}
<1>3. B \subseteq Nat /\ B # {}
  BY <1>2 DEF Triples
<1>4. PICK b \in B : \A x \in B : b <= x
  BY <1>3, LeastNatural
<1> DEFINE C == {r.columns : r \in {q \in T : q.databases = a /\ q.tables = b}}
<1>5. C \subseteq Nat /\ C # {}
  BY <1>4 DEF Triples
<1>6. PICK c \in C : \A x \in C : c <= x
  BY <1>5, LeastNatural
<1>7. PICK m \in T : m.databases = a /\ m.tables = b /\ m.columns = c
  BY <1>6
<1>8. ASSUME NEW r \in T PROVE ~Precedes(r, m)
  <2>1. a <= r.databases /\ a \in Nat /\ r.databases \in Nat
    BY <1>1, <1>2, <1>8
  <2>2. r.databases = a => b <= r.tables /\ b \in Nat /\ r.tables \in Nat
    BY <1>3, <1>4, <1>8
  <2>3. r.databases = a /\ r.tables = b => c <= r.columns /\ c \in Nat /\ r.columns \in Nat
    BY <1>5, <1>6, <1>8
  <2> QED
    BY <1>7, <2>1, <2>2, <2>3 DEF Precedes
<1> QED
  BY <1>7, <1>8, PrecedesIsStrictOrder

(* Sorting a finite set lists its members.                                  *)
LEMMA SortedType ==
  ASSUME NEW D, D \subseteq Triples, IsFiniteSet(D)
  PROVE  Sorted(D) \in Seq(D) /\ Len(Sorted(D)) = Cardinality(D)
<1> DEFINE Below(r) == {q \in D : Precedes(q, r)}
           Occurs(k) == \E r \in D : Cardinality(Below(r)) = k
           T == {k \in Nat : k < Cardinality(D) => Occurs(k)}
<1>1. Cardinality(D) \in Nat
  BY FS_CardinalityType
<1>2. 0 \in T
  <2> SUFFICES ASSUME 0 < Cardinality(D) PROVE \E r \in D : Cardinality(Below(r)) = 0
    OBVIOUS
  <2>1. D # {}
    BY <1>1, FS_EmptySet
  <2>2. PICK r \in D : \A q \in D : q = r \/ Precedes(r, q)
    BY <2>1, FirstTriple
  <2>3. Below(r) = {}
    BY <2>2, PrecedesIsStrictOrder
  <2> QED
    BY <2>3, FS_EmptySet
<1>3. \A k \in Nat : k \in T => k + 1 \in T
  <2> SUFFICES ASSUME NEW k \in Nat, k \in T, k + 1 < Cardinality(D)
               PROVE  Occurs(k + 1)
    <3> HIDE DEF Occurs
    <3> QED
      OBVIOUS
  <2>1. PICK r \in D : Cardinality(Below(r)) = k
    BY <1>1
  <2> DEFINE B == Below(r)
             A == {q \in D : Precedes(r, q)}
  <2>2. B \in SUBSET D /\ r \notin B
    BY PrecedesIsStrictOrder
  <2>3. D = (B \union {r}) \union A
    BY PrecedesIsStrictOrder
  <2>4. A \subseteq D /\ A \subseteq Triples
    OBVIOUS
  <2>5. Cardinality(B) = k
    BY <2>1
  <2> HIDE DEF B, A
  <2>6. IsFiniteSet(B)
    BY <2>2, FS_Subset
  <2>7. Cardinality(B \union {r}) = k + 1
    BY <2>2, <2>5, <2>6, FS_AddElement
  <2>8. A # {}
    <3>1. A = {} => D = B \union {r}
      BY <2>3
    <3>2. Cardinality(D) # k + 1
      BY <1>1
    <3> QED
      BY <2>7, <3>1, <3>2
  <2>9. PICK m \in A : \A q \in A : q = m \/ Precedes(m, q)
    BY <2>4, <2>8, FirstTriple
  <2>10. Below(m) = B \union {r}
    <3>1. m \in D /\ Precedes(r, m)
      BY <2>9 DEF A
    <3>2. ASSUME NEW q \in D PROVE Precedes(q, m) <=> Precedes(q, r) \/ q = r
      <4>1. CASE Precedes(q, r) \/ q = r
        BY <3>1, <3>2, <4>1, PrecedesIsStrictOrder
      <4>2. CASE Precedes(r, q)
        <5>1. q = m \/ Precedes(m, q)
          BY <2>9, <3>2, <4>2 DEF A
        <5> QED
          BY <3>1, <3>2, <4>2, <5>1, PrecedesIsStrictOrder
      <4> QED
        BY <3>2, <4>1, <4>2, PrecedesIsStrictOrder
    <3> QED
      BY <2>2, <3>2 DEF B
  <2>11. m \in D
    BY <2>4
  <2> QED
    BY <2>7, <2>10, <2>11
<1>4. Nat \subseteq T
  <2> HIDE DEF T
  <2> QED
    BY <1>2, <1>3, InductionOnSet
<1> DEFINE c == Cardinality(D)
           ranked(i) == CHOOSE r \in D : Cardinality(Below(r)) = i - 1
<1>5. ASSUME NEW i \in 1 .. c PROVE ranked(i) \in D
  <2>1. i - 1 \in Nat /\ i - 1 < c
    BY <1>1, <1>5
  <2>2. \E r \in D : Cardinality(Below(r)) = i - 1
    BY <1>4, <2>1
  <2> QED
    BY <2>2
<1>6. Sorted(D) = [i \in 1 .. c |-> ranked(i)]
  BY DEF Sorted
<1> HIDE DEF ranked, c
<1>7. c \in Nat
  BY <1>1 DEF c
<1>8. Sorted(D) \in Seq(D) /\ Len(Sorted(D)) = c
  BY <1>5, <1>6, <1>7
<1> QED
  BY <1>8 DEF c

-----------------------------------------------------------------------------
(* Finite unions and images. *)

(* What a list of finite sets holds is finite.                             *)
LEMMA FiniteUnion ==
  ASSUME NEW n \in Nat, NEW f, \A i \in 1 .. n : IsFiniteSet(f[i])
  PROVE  IsFiniteSet(UNION {f[i] : i \in 1 .. n})
<1> DEFINE U(k) == UNION {f[i] : i \in 1 .. k}
           T == {k \in Nat : k <= n => IsFiniteSet(U(k))}
<1>1. 0 \in T
  <2>1. U(0) = {}
    OBVIOUS
  <2> HIDE DEF U
  <2> QED
    BY <2>1, FS_EmptySet
<1>2. ASSUME NEW k \in Nat, k \in T PROVE k + 1 \in T
  <2>1. U(k + 1) = U(k) \union f[k + 1]
    <3>1. 1 .. (k + 1) = (1 .. k) \union {k + 1}
      OBVIOUS
    <3> QED
      BY <3>1
  <2> HIDE DEF U
  <2>2. k + 1 <= n => IsFiniteSet(U(k)) /\ IsFiniteSet(f[k + 1])
    BY <1>2
  <2> DEFINE a == U(k)  b == f[k + 1]  c == U(k + 1)
  <2>3. k + 1 <= n => IsFiniteSet(c)
    <3>1. c = a \union b
      BY <2>1
    <3>2. k + 1 <= n => IsFiniteSet(a) /\ IsFiniteSet(b)
      BY <2>2
    <3> HIDE DEF a, b, c
    <3>3. IsFiniteSet(a) /\ IsFiniteSet(b) => IsFiniteSet(a \union b)
      BY FS_Union, Zenon
    <3> QED
      BY <3>1, <3>2, <3>3, Zenon
  <2> QED
    BY <2>3
<1>3. n \in T
  <2> HIDE DEF T
  <2> QED
    BY <1>1, <1>2, InductionOnSet
<1> QED
  BY <1>3

(* So is the image of a finite set.                                        *)
LEMMA FiniteImage ==
  ASSUME NEW S, IsFiniteSet(S), NEW f, DOMAIN f = S
  PROVE  IsFiniteSet({f[x] : x \in S})
<1> DEFINE T == {f[x] : x \in S}
           g == [x \in S |-> f[x]]
<1>1. g \in Surjection(S, T)
  BY DEF Surjection
<1> QED
  BY <1>1, FS_Surjection

-----------------------------------------------------------------------------
(* What catalogs hold. *)

(* What a database of a known catalog is.                                  *)
LEMMA DatabaseType ==
  ASSUME NEW c \in Known, NEW i \in DOMAIN c
  PROVE  /\ c[i].name \in Databases /\ c[i].name \in Identifier
         /\ c[i].tables \in Seq(AllTables)
         /\ \A j \in DOMAIN c[i].tables : c[i].tables[j] \in TableSchema
<1>1. c \in Seq(DatabaseSchema)
  BY CatalogsAssumption
<1>2. c[i] \in DatabaseSchema /\ c[i] \in ToSet(c)
  BY <1>1 DEF ToSet
<1>3. c[i].name \in Identifier /\ c[i].tables \in Seq(TableSchema)
  BY <1>2 DEF DatabaseSchema
<1>4. c[i].name \in Databases
  <2>1. NamesOf(c)[i] = c[i].name /\ i \in DOMAIN NamesOf(c)
    BY DEF NamesOf
  <2>2. c[i].name \in ToSet(NamesOf(c))
    BY <2>1 DEF ToSet
  <2> QED
    BY <2>2 DEF Databases
<1>5. ASSUME NEW j \in DOMAIN c[i].tables PROVE c[i].tables[j] \in AllTables
  <2>1. c[i].tables[j] \in ToSet(c[i].tables)
    BY DEF ToSet
  <2>2. c[i].tables[j] \in UNION {ToSet(d.tables) : d \in ToSet(c)}
    BY <1>2, <2>1
  <2> QED
    BY <2>2 DEF AllTables
<1>6. c[i].tables \in Seq(AllTables)
  BY <1>3, <1>5
<1> QED
  BY <1>3, <1>4, <1>6

(* Every table of a catalog is a table.                                    *)
LEMMA AllTablesType ==
  ASSUME NEW t \in AllTables
  PROVE  t \in TableSchema
<1>1. PICK c \in Known : t \in UNION {ToSet(d.tables) : d \in ToSet(c)}
  BY DEF AllTables
<1>2. PICK i \in DOMAIN c : t \in ToSet(c[i].tables)
  BY <1>1 DEF ToSet
<1> QED
  BY <1>2, DatabaseType DEF ToSet

(* What a table of a catalog is.                                           *)
LEMMA TableType ==
  ASSUME NEW t \in AllTables
  PROVE  /\ t.name \in Tables /\ t.columns \in Seq(ColumnNames)
         /\ IsFiniteSet(t.keys)
         /\ \A k \in t.keys : /\ k.column \in ColumnNames /\ k.references \in ColumnNames
                              /\ k.database \in Databases /\ k.table \in Tables
<1>1. t.name \in Tables
  BY DEF Tables
<1>2. t.columns \in Seq(Identifier)
  BY AllTablesType DEF TableSchema
<1>3. \A i \in DOMAIN t.columns : t.columns[i] \in ColumnNames
  <2>1. ToSet(t.columns) \subseteq ColumnNames
    BY DEF ColumnNames
  <2> QED
    BY <2>1 DEF ToSet
<1>4. t.columns \in Seq(ColumnNames)
  BY <1>2, <1>3
<1>5. ASSUME NEW k \in t.keys
      PROVE  /\ k.column \in ColumnNames /\ k.references \in ColumnNames
             /\ k.database \in Databases /\ k.table \in Tables
  <2>1. k \in AllKeys
    BY DEF AllKeys
  <2>2. k.database \in Databases
    BY <2>1 DEF Databases
  <2>3. k.table \in Tables
    BY <2>1 DEF Tables
  <2>4. k.column \in ColumnNames /\ k.references \in ColumnNames
    BY <2>1 DEF ColumnNames
  <2> QED
    BY <2>2, <2>3, <2>4
<1> QED
  BY <1>1, <1>4, <1>5, CatalogsAssumption

(* All names are identifiers.                                              *)
LEMMA NamesType ==
  Databases \subseteq Identifier /\ Tables \subseteq Identifier /\ ColumnNames \subseteq Identifier
<1>1. ASSUME NEW k \in AllKeys PROVE k \in ForeignKeySchema
  BY <1>1, AllTablesType DEF AllKeys, TableSchema
<1>2. ASSUME NEW n \in Databases PROVE n \in Identifier
  <2>1. CASE \E c \in Known : n \in ToSet(NamesOf(c))
    <3>1. PICK c \in Known : n \in ToSet(NamesOf(c))
      BY <2>1
    <3>2. PICK i \in DOMAIN NamesOf(c) : n = NamesOf(c)[i]
      BY <3>1 DEF ToSet
    <3>3. i \in DOMAIN c /\ n = c[i].name
      BY <3>2 DEF NamesOf
    <3> QED
      BY <3>3, DatabaseType
  <2>2. CASE \E k \in AllKeys : n = k.database
    BY <1>1, <2>2 DEF ForeignKeySchema
  <2> QED
    BY <1>2, <2>1, <2>2 DEF Databases
<1>3. ASSUME NEW n \in Tables PROVE n \in Identifier
  BY <1>1, <1>3, AllTablesType DEF Tables, ForeignKeySchema, TableSchema
<1>4. ASSUME NEW n \in ColumnNames PROVE n \in Identifier
  <2>1. CASE \E t \in AllTables : n \in ToSet(t.columns)
    <3>1. PICK t \in AllTables : n \in ToSet(t.columns)
      BY <2>1
    <3>2. t.columns \in Seq(Identifier)
      BY AllTablesType DEF TableSchema
    <3> QED
      BY <3>1, <3>2 DEF ToSet
  <2>2. CASE \E k \in AllKeys : n = k.column \/ n = k.references
    BY <1>1, <2>2 DEF ForeignKeySchema
  <2> QED
    BY <1>4, <2>1, <2>2 DEF ColumnNames
<1> QED
  BY <1>2, <1>3, <1>4

-----------------------------------------------------------------------------
(* What the schema cache answers. *)

(* What is found has the name that was looked for.                         *)
LEMMA FindType ==
  ASSUME NEW S, NEW s \in Seq(S), NEW n, Find(s, n) # {}
  PROVE  Min(Find(s, n)) \in DOMAIN s /\ s[Min(Find(s, n))].name = n
<1>1. Find(s, n) \subseteq Nat
  BY DEF Find
<1>2. Min(Find(s, n)) \in Find(s, n)
  BY <1>1, MinType
<1> QED
  BY <1>2 DEF Find

(* The tables of a database that a catalog lists, if it does.              *)
LEMMA TablesInType ==
  ASSUME NEW c \in Fetches \union Known, NEW d
  PROVE  TablesIn(c, d) \in Seq(AllTables)
<1>1. CASE c = <<>>
  <2>1. Find(c, d) = {}
    BY <1>1 DEF Find
  <2> QED
    BY <2>1 DEF TablesIn
<1>2. CASE c # <<>>
  <2>1. c \in Known /\ c \in Seq(DatabaseSchema)
    BY <1>2, CatalogsAssumption DEF Fetches, Known
  <2>2. CASE Find(c, d) = {}
    BY <2>2 DEF TablesIn
  <2>3. CASE Find(c, d) # {}
    <3> DEFINE i == Min(Find(c, d))
    <3>1. i \in DOMAIN c
      BY <2>1, <2>3, FindType
    <3>2. TablesIn(c, d) = c[i].tables
      BY <2>3 DEF TablesIn
    <3> HIDE DEF i
    <3> QED
      BY <2>1, <3>1, <3>2, DatabaseType
  <2> QED
    BY <2>2, <2>3
<1> QED
  BY <1>1, <1>2

(* Their names.                                                            *)
LEMMA NamesOfTablesType ==
  ASSUME NEW s \in Seq(AllTables)
  PROVE  NamesOf(s) \in Seq(Tables)
<1>1. \A i \in DOMAIN s : s[i].name \in Tables
  BY TableType
<1> QED
  BY <1>1 DEF NamesOf

(* The names of the databases.                                             *)
LEMMA NamesOfDatabasesType ==
  ASSUME NEW c \in Fetches \union Known
  PROVE  NamesOf(c) \in Seq(Databases)
<1>1. CASE c = <<>>
  BY <1>1 DEF NamesOf
<1>2. CASE c # <<>>
  <2>1. c \in Known /\ c \in Seq(DatabaseSchema)
    BY <1>2, CatalogsAssumption DEF Fetches, Known
  <2>2. \A i \in DOMAIN c : c[i].name \in Databases
    BY <2>1, DatabaseType
  <2> QED
    BY <2>1, <2>2 DEF NamesOf
<1> QED
  BY <1>1, <1>2

(* The columns of a table, if the catalog has it.                          *)
LEMMA ColumnsInType ==
  ASSUME NEW c \in Fetches \union Known, NEW d, NEW t
  PROVE  ColumnsIn(c, d, t) \in Seq(ColumnNames)
<1> DEFINE tables == TablesIn(c, d)
<1>1. tables \in Seq(AllTables)
  BY TablesInType
<1>2. ColumnsIn(c, d, t) = IF Find(tables, t) = {} THEN <<>>
                           ELSE tables[Min(Find(tables, t))].columns
  BY DEF ColumnsIn
<1> HIDE DEF tables
<1>3. CASE Find(tables, t) = {}
  BY <1>2, <1>3
<1>4. CASE Find(tables, t) # {}
  <2> DEFINE i == Min(Find(tables, t))
  <2>1. i \in DOMAIN tables
    BY <1>1, <1>4, FindType
  <2>2. ColumnsIn(c, d, t) = tables[i].columns
    BY <1>2, <1>4
  <2> HIDE DEF i
  <2>3. tables[i] \in AllTables
    BY <1>1, <2>1
  <2> QED
    BY <2>2, <2>3, TableType
<1> QED
  BY <1>3, <1>4

(* The foreign keys of a table lead to tables.                             *)
LEMMA OutboundType ==
  ASSUME NEW c \in Fetches \union Known, NEW d, NEW t
  PROVE  Outbound(c, d, t) \subseteq Relationship /\ IsFiniteSet(Outbound(c, d, t))
<1> DEFINE tables == TablesIn(c, d)
           rel(k) == [databases |-> k.database, tables |-> k.table, columns |-> k.references]
<1>1. tables \in Seq(AllTables)
  BY TablesInType
<1>2. Outbound(c, d, t) = IF Find(tables, t) = {} THEN {}
                          ELSE {rel(k) : k \in tables[Min(Find(tables, t))].keys}
  BY DEF Outbound
<1> HIDE DEF tables
<1>3. CASE Find(tables, t) = {}
  BY <1>2, <1>3, FS_EmptySet
<1>4. CASE Find(tables, t) # {}
  <2> DEFINE i == Min(Find(tables, t))
             keys == tables[i].keys
             f == [k \in keys |-> rel(k)]
  <2>1. i \in DOMAIN tables
    BY <1>1, <1>4, FindType
  <2>2. Outbound(c, d, t) = {rel(k) : k \in keys}
    BY <1>2, <1>4
  <2> HIDE DEF i
  <2>3. tables[i] \in AllTables
    BY <1>1, <2>1
  <2>4. IsFiniteSet(keys) /\ \A k \in keys : rel(k) \in Relationship
    BY <2>3, TableType DEF Relationship
  <2>5. {rel(k) : k \in keys} = {f[k] : k \in keys}
    OBVIOUS
  <2>6. DOMAIN f = keys
    OBVIOUS
  <2> HIDE DEF keys, f
  <2>7. IsFiniteSet({f[k] : k \in keys})
    BY <2>4, <2>6, FiniteImage
  <2> QED
    BY <2>2, <2>4, <2>5, <2>7
<1> QED
  BY <1>3, <1>4

(* The foreign keys that lead to a table come from tables.                 *)
LEMMA InboundType ==
  ASSUME NEW c \in Fetches \union Known, NEW d \in Databases, NEW t
  PROVE  Inbound(c, d, t) \subseteq Relationship /\ IsFiniteSet(Inbound(c, d, t))
<1> DEFINE s == TablesIn(c, d)
           n == Len(s)
           rel(u, k) == [databases |-> d, tables |-> u.name, columns |-> k.column]
           keys(u) == {k \in u.keys : k.table = t /\ k.database = d}
           f == [i \in 1 .. n |-> {rel(s[i], k) : k \in keys(s[i])}]
<1>1. s \in Seq(AllTables)
  BY TablesInType
<1>2. Inbound(c, d, t) = UNION {{rel(u, k) : k \in keys(u)} : u \in ToSet(s)}
  BY DEF Inbound
<1> HIDE DEF s
<1>3. n \in Nat /\ DOMAIN s = 1 .. n
  BY <1>1
<1>4. ASSUME NEW i \in 1 .. n
      PROVE  f[i] \subseteq Relationship /\ IsFiniteSet(f[i])
  <2> DEFINE u == s[i]
             K == keys(u)
             g == [k \in K |-> rel(u, k)]
  <2>1. u \in AllTables
    BY <1>1, <1>3
  <2>2. K \in SUBSET u.keys
    OBVIOUS
  <2>3. f[i] = {g[k] : k \in K} /\ DOMAIN g = K
    OBVIOUS
  <2>4. \A k \in K : g[k] \in Relationship
    BY <2>1, TableType DEF Relationship
  <2> HIDE DEF K, g, u, f
  <2>5. IsFiniteSet(K)
    BY <2>1, <2>2, TableType, FS_Subset
  <2>6. IsFiniteSet({g[k] : k \in K})
    BY <2>3, <2>5, FiniteImage
  <2> QED
    BY <2>3, <2>4, <2>6
<1>5. Inbound(c, d, t) = UNION {f[i] : i \in 1 .. n}
  <2> DEFINE h(u) == {rel(u, k) : k \in keys(u)}
  <2>1. f = [i \in 1 .. n |-> h(s[i])]
    OBVIOUS
  <2>2. Inbound(c, d, t) = UNION {h(u) : u \in ToSet(s)}
    BY <1>2
  <2> HIDE DEF h, f
  <2>3. {h(u) : u \in ToSet(s)} = {f[i] : i \in 1 .. n}
    BY <1>3, <2>1 DEF ToSet
  <2> QED
    BY <2>2, <2>3
<1> HIDE DEF f, n
<1>6. IsFiniteSet(UNION {f[i] : i \in 1 .. n})
  BY <1>3, <1>4, FiniteUnion
<1> QED
  BY <1>4, <1>5, <1>6

(* Both, in their order, are a list of relationships.                      *)
LEMMA RelationshipsInType ==
  ASSUME NEW c \in Fetches \union Known, NEW d \in Databases, NEW t
  PROVE  RelationshipsIn(c, d, t) \in Seq(Relationship)
<1> DEFINE R == Outbound(c, d, t) \union Inbound(c, d, t)
<1>1. R \subseteq Relationship /\ IsFiniteSet(R)
  BY OutboundType, InboundType, FS_Union
<1>2. R \subseteq Triples
  <2>1. Relationship \subseteq Triples
    BY NamesType DEF Relationship, Triples, Identifier
  <2> QED
    BY <1>1, <2>1
<1>3. RelationshipsIn(c, d, t) = Sorted(R)
  BY DEF RelationshipsIn
<1> HIDE DEF R
<1>4. Sorted(R) \in Seq(R)
  BY <1>1, <1>2, SortedType
<1> QED
  BY <1>1, <1>3, <1>4

(* A call that fails is answered by nothing.                                *)
LEMMA FailedFetch ==
  ASSUME NEW d, NEW t
  PROVE  /\ <<>> \in Fetches
         /\ NamesOf(TablesIn(<<>>, d)) = <<>>
         /\ ColumnsIn(<<>>, d, t) = <<>>
         /\ RelationshipsIn(<<>>, d, t) = <<>>
<1>1. \A n : Find(<<>>, n) = {}
  BY DEF Find
<1>2. TablesIn(<<>>, d) = <<>>
  BY <1>1 DEF TablesIn
<1>3. NamesOf(<<>>) = <<>>
  BY DEF NamesOf
<1>4. ColumnsIn(<<>>, d, t) = <<>>
  BY <1>1, <1>2 DEF ColumnsIn
<1>5. Outbound(<<>>, d, t) = {}
  BY <1>1, <1>2 DEF Outbound
<1>6. Inbound(<<>>, d, t) = {}
  BY <1>2 DEF Inbound, ToSet
<1>7. Sorted({}) = <<>>
  <2>1. Sorted({}) \in Seq({}) /\ Len(Sorted({})) = 0
    BY SortedType, FS_EmptySet
  <2> QED
    BY <2>1
<1>8. RelationshipsIn(<<>>, d, t) = <<>>
  BY <1>5, <1>6, <1>7 DEF RelationshipsIn
<1> QED
  BY <1>2, <1>3, <1>4, <1>8 DEF Fetches

-----------------------------------------------------------------------------
(* The explorer's state and the writes of one lane. *)

LaneNames(l) ==
  CASE l = "databases" -> Databases [] l = "tables" -> Tables [] OTHER -> ColumnNames

Explorer ==
  [list : [Lanes -> Seq(Identifier)], cursor : [Lanes -> Identifier], selected : [Lanes -> Nat],
   filter : [Lanes -> SUBSET Names], active : Databases \union {NoName},
   relations : Seq(Relationship), relation : Identifier]

Good(s) ==
  /\ s \in Explorer
  /\ \A l \in Lanes : /\ s.list[l] \in Seq(LaneNames(l))
                      /\ s.selected[l] \in LaneNames(l) \union {NoName}
                      /\ s.filter[l] \in Needles[l]

SameLane(r, s, l) ==
  r.list[l] = s.list[l] /\ r.cursor[l] = s.cursor[l] /\ r.selected[l] = s.selected[l]

SameRest(r, s) ==
  r.filter = s.filter /\ r.active = s.active /\ r.relations = s.relations
  /\ r.relation = s.relation

OnSelection(s, l) ==
  Contains(s.list[l], s.selected[l]) => s.list[l][s.cursor[l]] = s.selected[l]

(* A lane lists names.                                                     *)
LEMMA LaneNamesType ==
  ASSUME NEW l \in Lanes
  PROVE  LaneNames(l) \subseteq Identifier /\ LaneNames(l) \subseteq Names
  BY NamesType DEF LaneNames, Lanes, Names

Written(s, l, list, i, n) ==
  [s EXCEPT !.list[l] = list, !.cursor[l] = i, !.selected[l] = n]

Moved(s, l, i, n) == [s EXCEPT !.cursor[l] = i, !.selected[l] = n]

(* Writing a lane leaves the other lanes alone.                            *)
LEMMA WriteLane ==
  ASSUME NEW s, Good(s), NEW l \in Lanes, NEW list \in Seq(LaneNames(l)),
         NEW i \in Identifier, NEW n \in LaneNames(l) \union {NoName}
  PROVE  /\ Good(Written(s, l, list, i, n))
         /\ Written(s, l, list, i, n).list[l] = list
         /\ Written(s, l, list, i, n).cursor[l] = i
         /\ Written(s, l, list, i, n).selected[l] = n
         /\ \A k \in Lanes \ {l} : SameLane(Written(s, l, list, i, n), s, k)
         /\ SameRest(Written(s, l, list, i, n), s)
<1> DEFINE r == Written(s, l, list, i, n)
<1>1. s \in Explorer
  BY DEF Good
<1>2. list \in Seq(Identifier) /\ n \in Nat
  BY LaneNamesType DEF Identifier, NoName
<1>3. r = [s EXCEPT !.list = [s.list EXCEPT ![l] = list],
                    !.cursor = [s.cursor EXCEPT ![l] = i],
                    !.selected = [s.selected EXCEPT ![l] = n]]
  BY <1>1 DEF Explorer, Written
<1> HIDE DEF r
<1>4. /\ r.list = [s.list EXCEPT ![l] = list] /\ r.cursor = [s.cursor EXCEPT ![l] = i]
      /\ r.selected = [s.selected EXCEPT ![l] = n] /\ SameRest(r, s)
  BY <1>1, <1>3 DEF Explorer, SameRest
<1>5. r \in Explorer
  <2>1. /\ [s.list EXCEPT ![l] = list] \in [Lanes -> Seq(Identifier)]
        /\ [s.cursor EXCEPT ![l] = i] \in [Lanes -> Identifier]
        /\ [s.selected EXCEPT ![l] = n] \in [Lanes -> Nat]
    BY <1>1, <1>2 DEF Explorer
  <2> DEFINE a == [s.list EXCEPT ![l] = list]
             b == [s.cursor EXCEPT ![l] = i]
             c == [s.selected EXCEPT ![l] = n]
  <2>2. r = [s EXCEPT !.list = a, !.cursor = b, !.selected = c]
    BY <1>3
  <2>3. a \in [Lanes -> Seq(Identifier)] /\ b \in [Lanes -> Identifier] /\ c \in [Lanes -> Nat]
    BY <2>1
  <2> HIDE DEF a, b, c
  <2> QED
    BY <1>1, <2>2, <2>3 DEF Explorer
<1>6. r.list[l] = list /\ r.cursor[l] = i /\ r.selected[l] = n
  BY <1>1, <1>4 DEF Explorer
<1>7. \A k \in Lanes \ {l} : SameLane(r, s, k)
  BY <1>1, <1>4 DEF Explorer, SameLane
<1>8. ASSUME NEW k \in Lanes
      PROVE  /\ r.list[k] \in Seq(LaneNames(k))
             /\ r.selected[k] \in LaneNames(k) \union {NoName}
             /\ r.filter[k] \in Needles[k]
  <2>1. r.filter[k] \in Needles[k]
    BY <1>4 DEF Good, SameRest
  <2>2. CASE k = l
    BY <1>6, <2>1, <2>2
  <2>3. CASE k # l
    BY <1>7, <2>1, <2>3 DEF Good, SameLane
  <2> QED
    BY <2>2, <2>3
<1>9. Good(r)
  BY <1>5, <1>8 DEF Good
<1> QED
  BY <1>4, <1>6, <1>7, <1>9 DEF r

(* So does moving in it.                                                   *)
LEMMA MoveInLane ==
  ASSUME NEW s, Good(s), NEW l \in Lanes,
         NEW i \in Identifier, NEW n \in LaneNames(l) \union {NoName}
  PROVE  /\ Good(Moved(s, l, i, n)) /\ Moved(s, l, i, n).list = s.list
         /\ Moved(s, l, i, n).cursor[l] = i /\ Moved(s, l, i, n).selected[l] = n
         /\ \A k \in Lanes \ {l} : SameLane(Moved(s, l, i, n), s, k)
         /\ SameRest(Moved(s, l, i, n), s)
<1> DEFINE r == Moved(s, l, i, n)
<1>1. s \in Explorer /\ s.list[l] \in Seq(LaneNames(l))
  BY DEF Good
<1> DEFINE list == s.list[l]
<1>2. list \in Seq(LaneNames(l))
  BY <1>1
<1>3. s.list = [s.list EXCEPT ![l] = list]
  BY <1>1 DEF Explorer
<1>4. r = Written(s, l, list, i, n)
  BY <1>1, <1>3 DEF Explorer, Written, Moved
<1>6. r.list = s.list
  BY <1>1 DEF Explorer, Moved
<1> HIDE DEF list, r
<1>5. /\ Good(r) /\ r.list[l] = list /\ r.cursor[l] = i /\ r.selected[l] = n
      /\ \A k \in Lanes \ {l} : SameLane(r, s, k)
      /\ SameRest(r, s)
  BY <1>2, <1>4, WriteLane
<1> QED
  BY <1>5, <1>6 DEF r

(* The lane's list stays, and with it the cursor's place, when it is sent   *)
(* to a name that it does not list.                                         *)
LEMMA GotoType ==
  ASSUME NEW s, Good(s), NEW l \in Lanes, NEW n \in LaneNames(l) \union {NoName}
  PROVE  /\ Good(Goto(s, l, n)) /\ Goto(s, l, n).list = s.list
         /\ Goto(s, l, n).selected[l] = n
         /\ OnSelection(Goto(s, l, n), l)
         /\ \A k \in Lanes \ {l} : SameLane(Goto(s, l, n), s, k)
         /\ SameRest(Goto(s, l, n), s)
<1> DEFINE list == s.list[l]
           I == {j \in 1 .. Len(list) : list[j] = n}
           i == IF Contains(list, n) THEN Position(list, n) ELSE s.cursor[l]
           r == Goto(s, l, n)
<1>1. s \in Explorer /\ list \in Seq(LaneNames(l)) /\ s.cursor[l] \in Identifier
  BY DEF Good, Explorer
<1>2. Position(list, n) = IF I # {} THEN Min(I) ELSE 0
  BY DEF Position, SelectInSeq
<1>3. Contains(list, n) => /\ Position(list, n) \in 1 .. Len(list)
                           /\ list[Position(list, n)] = n
  <2>1. Contains(list, n) => I # {}
    BY DEF Contains
  <2>2. I \subseteq Nat
    OBVIOUS
  <2>3. I # {} => Min(I) \in I
    <3> HIDE DEF I
    <3> QED
      BY <2>2, MinType
  <2> QED
    BY <1>2, <2>1, <2>3
<1>4. i \in Identifier
  BY <1>1, <1>3 DEF Identifier, NoName
<1>5. r = Moved(s, l, i, n)
  BY <1>1 DEF Goto, Explorer, Moved
<1> HIDE DEF r
<1>6. i = IF Contains(list, n) THEN Position(list, n) ELSE s.cursor[l]
  OBVIOUS
<1> HIDE DEF i
<1>7. /\ Good(r) /\ r.list = s.list /\ r.cursor[l] = i /\ r.selected[l] = n
      /\ \A k \in Lanes \ {l} : SameLane(r, s, k)
      /\ SameRest(r, s)
  BY <1>4, <1>5, MoveInLane
<1>8. OnSelection(r, l)
  <2>1. r.list[l] = list
    BY <1>7
  <2>2. Contains(list, n) => list[i] = n
    BY <1>3, <1>6
  <2> QED
    BY <1>7, <2>1, <2>2 DEF OnSelection
<1> QED
  BY <1>7, <1>8 DEF r

(* A lane that is filled again shows its selection.                        *)
LEMMA FillType ==
  ASSUME NEW s, Good(s), NEW l \in Lanes, NEW list \in Seq(LaneNames(l))
  PROVE  /\ Good(Fill(s, l, list)) /\ Fill(s, l, list).list[l] = list
         /\ OnSelection(Fill(s, l, list), l)
         /\ \A k \in Lanes \ {l} : SameLane(Fill(s, l, list), s, k)
         /\ SameRest(Fill(s, l, list), s)
<1> DEFINE matches == Filtered(list, s.filter[l])
           i == IF matches = {} THEN 1 ELSE Min(matches)
           n == At(list, i)
           r == Fill(s, l, list)
<1>1. matches \subseteq DOMAIN list /\ DOMAIN list = 1 .. Len(list) /\ Len(list) \in Nat
  BY DEF Filtered
<1>2. i \in Identifier
  <2>1. matches # {} => Min(matches) \in matches
    <3>1. matches \subseteq Nat
      BY <1>1
    <3> HIDE DEF matches
    <3> QED
      BY <3>1, MinType
  <2> QED
    BY <1>1, <2>1 DEF Identifier, NoName
<1>3. n \in LaneNames(l) \union {NoName} /\ (list # <<>> => n = list[i])
  <2>1. list # <<>> => i \in DOMAIN list
    <3>1. matches # {} => Min(matches) \in matches
      <4>1. matches \subseteq Nat
        BY <1>1
      <4> HIDE DEF matches
      <4> QED
        BY <4>1, MinType
    <3>2. list # <<>> => 1 \in DOMAIN list
      BY <1>1
    <3> QED
      BY <1>1, <3>1, <3>2
  <2> HIDE DEF i
  <2>2. i \in DOMAIN list => n = list[i] /\ n \in LaneNames(l)
    BY DEF At
  <2>3. i \notin DOMAIN list => n = NoName
    BY DEF At
  <2> QED
    BY <2>1, <2>2, <2>3
<1>4. r = Written(s, l, list, i, n)
  BY DEF Fill, Written
<1> HIDE DEF i, n, r
<1>5. /\ Good(r) /\ r.list[l] = list /\ r.cursor[l] = i /\ r.selected[l] = n
      /\ \A k \in Lanes \ {l} : SameLane(r, s, k)
      /\ SameRest(r, s)
  BY <1>2, <1>3, <1>4, WriteLane
<1>6. OnSelection(r, l)
  <2>1. Contains(list, n) => list # <<>>
    BY DEF Contains
  <2> QED
    BY <1>3, <1>5, <2>1 DEF OnSelection
<1> QED
  BY <1>5, <1>6 DEF r

-----------------------------------------------------------------------------
(* What reloading leaves. *)

TablesDescribed(s) == \E c \in Fetches : s.list["tables"] = NamesOf(TablesIn(c, s.active))

DetailsDescribed(s, backed) ==
  /\ s.selected["tables"] = NoName => s.list["columns"] = <<>> /\ s.relations = <<>>
  /\ backed => \E c \in Fetches :
       s.list["columns"] = ColumnsIn(c, s.active, s.selected["tables"])
  /\ backed => \E c \in Fetches :
       s.relations = RelationshipsIn(c, s.active, s.selected["tables"])

(* The demo schema is a schema.                                            *)
LEMMA DemoType ==
  /\ Demo[1].name \in Databases /\ DemoTables \in Seq(Tables) /\ DemoTables # <<>>
  /\ DemoColumns \in Seq(ColumnNames) /\ DemoColumns # <<>>
  /\ \A d \in Databases : \A t : DemoRelationships(d, t) \in Seq(Relationship)
<1>1. Demo \in Known /\ Demo \in Seq(DatabaseSchema) /\ 1 \in DOMAIN Demo
  BY CatalogsAssumption, DemoAssumption DEF Known
<1>2. Demo[1].name \in Databases /\ Demo[1].tables \in Seq(AllTables)
  BY <1>1, DatabaseType
<1> DEFINE tables == Demo[1].tables
<1>3. tables \in Seq(AllTables) /\ tables # <<>> /\ tables[1].columns # <<>>
  BY <1>2, DemoAssumption
<1>4. DemoTables = NamesOf(tables) /\ DemoColumns = tables[1].columns
  BY DEF DemoTables, DemoColumns
<1> HIDE DEF tables
<1>5. DemoTables \in Seq(Tables) /\ DemoTables # <<>>
  <2>1. NamesOf(tables) \in Seq(Tables)
    BY <1>3, NamesOfTablesType
  <2>2. DOMAIN NamesOf(tables) = DOMAIN tables /\ 1 \in DOMAIN tables
    BY <1>3 DEF NamesOf
  <2> QED
    BY <1>4, <2>1, <2>2
<1>6. tables[1] \in AllTables
  BY <1>3
<1>7. DemoColumns \in Seq(ColumnNames) /\ DemoColumns # <<>>
  BY <1>3, <1>4, <1>6, TableType
<1>8. ASSUME NEW d \in Databases, NEW t
      PROVE  DemoRelationships(d, t) \in Seq(Relationship)
  <2> DEFINE rs == RelationshipsIn(Demo, Demo[1].name, t)
  <2>1. rs \in Seq(Relationship)
    BY <1>1, <1>2, RelationshipsInType
  <2>2. DemoRelationships(d, t) = [i \in DOMAIN rs |-> [rs[i] EXCEPT !.databases = d]]
    BY DEF DemoRelationships
  <2> HIDE DEF rs
  <2>3. ASSUME NEW i \in DOMAIN rs PROVE [rs[i] EXCEPT !.databases = d] \in Relationship
    <3> DEFINE rel == rs[i]
    <3>1. rel \in Relationship
      BY <2>1, <2>3
    <3> HIDE DEF rel
    <3>2. [rel EXCEPT !.databases = d] \in Relationship
      BY <3>1 DEF Relationship
    <3> QED
      BY <3>2 DEF rel
  <2> QED
    BY <2>1, <2>2, <2>3
<1> QED
  BY <1>2, <1>5, <1>7, <1>8

(* New relationships leave the lanes alone.                                *)
LEMMA WithRelationsType ==
  ASSUME NEW s, Good(s), NEW rs \in Seq(Relationship)
  PROVE  /\ Good(WithRelations(s, rs)) /\ WithRelations(s, rs).relations = rs
         /\ \A k \in Lanes : SameLane(WithRelations(s, rs), s, k)
         /\ WithRelations(s, rs).filter = s.filter /\ WithRelations(s, rs).active = s.active
<1> DEFINE r == WithRelations(s, rs)
           one == 1
<1>1. s \in Explorer /\ one \in Identifier
  BY DEF Good, Identifier, NoName
<1>2. r = [s EXCEPT !.relations = rs, !.relation = one]
  BY DEF WithRelations
<1> HIDE DEF r, one
<1>3. /\ r \in Explorer /\ r.relations = rs /\ r.list = s.list /\ r.cursor = s.cursor
      /\ r.selected = s.selected /\ r.filter = s.filter /\ r.active = s.active
  BY <1>1, <1>2 DEF Explorer
<1>4. Good(r) /\ \A k \in Lanes : SameLane(r, s, k)
  BY <1>3 DEF Good, SameLane
<1> QED
  BY <1>3, <1>4 DEF r

(* Reloading the columns leaves details of the selected table, and the     *)
(* other lanes alone.                                                      *)
LEMMA ReloadColumnsType ==
  ASSUME NEW s, Good(s), NEW backed \in BOOLEAN, backed \/ s.active # NoName,
         NEW r \in ReloadColumns(s, backed)
  PROVE  /\ Good(r) /\ SameLane(r, s, "databases") /\ SameLane(r, s, "tables")
         /\ r.filter = s.filter /\ r.active = s.active
         /\ DetailsDescribed(r, backed)
<1> DEFINE l == "columns"
           table == s.selected["tables"]
<1>1. /\ l \in Lanes /\ LaneNames(l) = ColumnNames /\ l \notin {"databases", "tables"}
      /\ "databases" \in Lanes \ {l} /\ "tables" \in Lanes \ {l}
  BY DEF Lanes, LaneNames
<1>2. s.active \in Databases \union {NoName}
  BY DEF Good, Explorer
<1>a. l = "columns"
  OBVIOUS
<1> HIDE DEF l
<1>3. ASSUME NEW columns \in Seq(ColumnNames), NEW rs \in Seq(Relationship),
             r = WithRelations(Fill(s, l, columns), rs)
      PROVE  /\ Good(r) /\ SameLane(r, s, "databases") /\ SameLane(r, s, "tables")
             /\ r.filter = s.filter /\ r.active = s.active
             /\ r.list[l] = columns /\ r.relations = rs
  <2> DEFINE f == Fill(s, l, columns)
  <2>1. /\ Good(f) /\ f.list[l] = columns
        /\ \A k \in Lanes \ {l} : SameLane(f, s, k) /\ SameRest(f, s)
    BY <1>1, FillType
  <2>2. r = WithRelations(f, rs)
    BY <1>3
  <2> HIDE DEF f
  <2>3. /\ Good(r) /\ r.relations = rs /\ \A k \in Lanes : SameLane(r, f, k)
        /\ r.filter = f.filter /\ r.active = f.active
    BY <2>1, <2>2, WithRelationsType
  <2> QED
    BY <1>1, <2>1, <2>3 DEF SameLane, SameRest
<1>4. CASE table = NoName
  <2> DEFINE nothing == <<>>
  <2>1. nothing \in Seq(ColumnNames) /\ nothing \in Seq(Relationship)
    OBVIOUS
  <2>2. r = WithRelations(Fill(s, l, nothing), nothing)
    BY <1>4, <1>a DEF ReloadColumns
  <2>e. nothing = <<>>
    OBVIOUS
  <2> HIDE DEF nothing
  <2>3. /\ Good(r) /\ SameLane(r, s, "databases") /\ SameLane(r, s, "tables")
        /\ r.filter = s.filter /\ r.active = s.active
        /\ r.list[l] = nothing /\ r.relations = nothing
    BY <1>3, <2>1, <2>2
  <2>4. DetailsDescribed(r, backed)
    BY <2>3, <2>e, <1>a, FailedFetch DEF DetailsDescribed
  <2> QED
    BY <2>3, <2>4
<1>5. CASE table # NoName
  <2>1. PICK columns \in ColumnLists(s, backed), rs \in RelationLists(s, backed) :
               r = WithRelations(Fill(s, l, columns), rs)
    <3> DEFINE part(columns, rs) == WithRelations(Fill(s, l, columns), rs)
    <3>1. r \in {part(columns, rs) : columns \in ColumnLists(s, backed),
                                     rs \in RelationLists(s, backed)}
      BY <1>5, <1>a DEF ReloadColumns
    <3> HIDE DEF part
    <3>2. \E columns \in ColumnLists(s, backed), rs \in RelationLists(s, backed) :
            r = part(columns, rs)
      BY <3>1
    <3> QED
      BY <3>2 DEF part
  <2>2. /\ columns \in Seq(ColumnNames)
        /\ backed => \E c \in Fetches : columns = ColumnsIn(c, s.active, table)
    <3>1. CASE ~backed
      BY <3>1, DemoType DEF ColumnLists
    <3>2. CASE backed /\ s.active = NoName
      BY <3>2, FailedFetch DEF ColumnLists
    <3>3. CASE backed /\ s.active # NoName
      <4>1. \E c \in Fetches : columns = ColumnsIn(c, s.active, table)
        BY <3>3 DEF ColumnLists
      <4> QED
        BY <4>1, ColumnsInType
    <3> QED
      BY <3>1, <3>2, <3>3
  <2>3. /\ rs \in Seq(Relationship)
        /\ backed => \E c \in Fetches : rs = RelationshipsIn(c, s.active, table)
    <3>1. CASE ~backed
      <4>1. s.active \in Databases /\ rs = DemoRelationships(s.active, table)
        BY <1>2, <3>1 DEF RelationLists
      <4> QED
        BY <3>1, <4>1, DemoType
    <3>2. CASE backed /\ s.active = NoName
      BY <3>2, FailedFetch DEF RelationLists
    <3>3. CASE backed /\ s.active # NoName
      <4>1. \E c \in Fetches : rs = RelationshipsIn(c, s.active, table)
        BY <3>3 DEF RelationLists
      <4> QED
        BY <1>2, <3>3, <4>1, RelationshipsInType
    <3> QED
      BY <3>1, <3>2, <3>3
  <2>4. /\ Good(r) /\ SameLane(r, s, "databases") /\ SameLane(r, s, "tables")
        /\ r.filter = s.filter /\ r.active = s.active
        /\ r.list[l] = columns /\ r.relations = rs
    BY <1>3, <2>1, <2>2, <2>3
  <2>5. r.selected["tables"] = table
    BY <2>4 DEF SameLane
  <2>6. DetailsDescribed(r, backed)
    BY <1>5, <1>a, <2>2, <2>3, <2>4, <2>5 DEF DetailsDescribed
  <2> QED
    BY <2>4, <2>6
<1> QED
  BY <1>4, <1>5

(* Reloading the tables leaves all below of the selected database.         *)
LEMMA ReloadTablesType ==
  ASSUME NEW s, Good(s), NEW backed \in BOOLEAN, backed \/ s.active # NoName,
         NEW r \in ReloadTables(s, backed)
  PROVE  /\ Good(r) /\ SameLane(r, s, "databases")
         /\ r.filter = s.filter /\ r.active = s.active
         /\ OnSelection(r, "tables")
         /\ backed => TablesDescribed(r)
         /\ DetailsDescribed(r, backed)
<1> DEFINE l == "tables"
<1>1. l \in Lanes /\ LaneNames(l) = Tables /\ "databases" \in Lanes \ {l}
  BY DEF Lanes, LaneNames
<1>a. l = "tables"
  OBVIOUS
<1> HIDE DEF l
<1>2. PICK list \in TableLists(s, backed) : r \in ReloadColumns(Fill(s, l, list), backed)
  BY <1>a DEF ReloadTables
<1>3. /\ list \in Seq(Tables)
      /\ backed => \E c \in Fetches : list = NamesOf(TablesIn(c, s.active))
  <2>1. CASE s.active = NoName
    BY <2>1, FailedFetch DEF TableLists
  <2>2. CASE s.active # NoName /\ backed
    <3>1. \E c \in Fetches : list = NamesOf(TablesIn(c, s.active))
      BY <2>2 DEF TableLists
    <3> QED
      BY <3>1, TablesInType, NamesOfTablesType
  <2>3. CASE s.active # NoName /\ ~backed
    <3>1. list = DemoTables \/ list = s.list[l]
      BY <2>3, <1>a DEF TableLists
    <3>2. s.list[l] \in Seq(Tables)
      BY <1>1 DEF Good
    <3> QED
      BY <2>3, <3>1, <3>2, DemoType
  <2> QED
    BY <2>1, <2>2, <2>3
<1> DEFINE f == Fill(s, l, list)
<1>4. /\ Good(f) /\ f.list[l] = list /\ OnSelection(f, l)
      /\ \A k \in Lanes \ {l} : SameLane(f, s, k)
      /\ SameRest(f, s)
  BY <1>1, <1>3, FillType
<1>5. r \in ReloadColumns(f, backed)
  BY <1>2
<1> HIDE DEF f
<1>6. backed \/ f.active # NoName
  BY <1>4 DEF SameRest
<1>7. /\ Good(r) /\ SameLane(r, f, "databases") /\ SameLane(r, f, "tables")
      /\ r.filter = f.filter /\ r.active = f.active
      /\ DetailsDescribed(r, backed)
  BY <1>4, <1>5, <1>6, ReloadColumnsType
<1>8. r.list["tables"] = list /\ r.active = s.active /\ r.filter = s.filter
      /\ SameLane(r, s, "databases")
  BY <1>1, <1>4, <1>7, <1>a DEF SameLane, SameRest
<1>9. OnSelection(r, "tables")
  BY <1>4, <1>7, <1>a DEF SameLane, OnSelection
<1>10. backed => TablesDescribed(r)
  BY <1>3, <1>8 DEF TablesDescribed
<1> QED
  BY <1>7, <1>8, <1>9, <1>10

-----------------------------------------------------------------------------
(* The states a handler leaves.  Until its columns are reloaded an explorer *)
(* is one of Unfolded; all others are Consistent.                           *)

Unfolded(s, backed) ==
  /\ Good(s)
  /\ backed \/ s.active # NoName
  /\ s.selected["databases"] = s.active
  /\ OnSelection(s, "databases") /\ OnSelection(s, "tables")
  /\ backed => TablesDescribed(s)

Consistent(s, backed) == Unfolded(s, backed) /\ DetailsDescribed(s, backed)

(* After reloading the tables of the selected database all is consistent,  *)
LEMMA TablesReloaded ==
  ASSUME NEW s, Good(s), NEW backed \in BOOLEAN, backed \/ s.active # NoName,
         s.selected["databases"] = s.active, OnSelection(s, "databases"),
         NEW r \in ReloadTables(s, backed)
  PROVE  Consistent(r, backed)
<1>1. /\ Good(r) /\ SameLane(r, s, "databases") /\ r.active = s.active
      /\ OnSelection(r, "tables") /\ (backed => TablesDescribed(r))
      /\ DetailsDescribed(r, backed)
  BY ReloadTablesType
<1> QED
  BY <1>1 DEF Consistent, Unfolded, SameLane, OnSelection

(* as it is after reloading the columns of the selected table,             *)
LEMMA ColumnsReloaded ==
  ASSUME NEW s, NEW backed \in BOOLEAN, Unfolded(s, backed), NEW r \in ReloadColumns(s, backed)
  PROVE  Consistent(r, backed)
<1>1. Good(s) /\ (backed \/ s.active # NoName)
  BY DEF Unfolded
<1>2. /\ Good(r) /\ SameLane(r, s, "databases") /\ SameLane(r, s, "tables")
      /\ r.active = s.active /\ DetailsDescribed(r, backed)
  BY <1>1, ReloadColumnsType
<1> QED
  BY <1>2 DEF Consistent, Unfolded, SameLane, OnSelection, TablesDescribed

(* The selected column, and the filters, are nobody else's business.        *)
LEMMA StaysConsistent ==
  ASSUME NEW s, NEW backed \in BOOLEAN, Consistent(s, backed), NEW r, Good(r),
         SameLane(r, s, "databases"), SameLane(r, s, "tables"),
         r.list["columns"] = s.list["columns"], r.active = s.active,
         r.relations = s.relations
  PROVE  Consistent(r, backed)
  BY DEF Consistent, Unfolded, SameLane, OnSelection, TablesDescribed, DetailsDescribed

(* Going to a database selects it.                                         *)
LEMMA GotoDatabaseType ==
  ASSUME NEW s, Good(s), NEW n \in Databases \union {NoName}
  PROVE  /\ Good(GotoDatabase(s, n))
         /\ GotoDatabase(s, n).active = n /\ GotoDatabase(s, n).selected["databases"] = n
         /\ OnSelection(GotoDatabase(s, n), "databases")
<1> DEFINE l == "databases"
           g == Goto(s, l, n)
           r == GotoDatabase(s, n)
<1>1. l \in Lanes /\ LaneNames(l) = Databases
  BY DEF Lanes, LaneNames
<1>a. l = "databases"
  OBVIOUS
<1>2. r = [g EXCEPT !.active = n]
  BY DEF GotoDatabase
<1> HIDE DEF l
<1>3. Good(g) /\ g.selected[l] = n /\ OnSelection(g, l)
  BY <1>1, GotoType
<1> HIDE DEF g, r
<1>4. /\ r \in Explorer /\ r.active = n /\ r.list = g.list /\ r.cursor = g.cursor
      /\ r.selected = g.selected /\ r.filter = g.filter
  BY <1>2, <1>3 DEF Good, Explorer
<1> QED
  BY <1>3, <1>4, <1>a DEF Good, OnSelection, r

(* after going to a database,                                              *)
LEMMA DatabaseVisited ==
  ASSUME NEW s, Good(s), NEW backed \in BOOLEAN, NEW n \in Databases \union {NoName},
         backed \/ n # NoName, NEW r \in ReloadTables(GotoDatabase(s, n), backed)
  PROVE  Consistent(r, backed)
<1> DEFINE g == GotoDatabase(s, n)
<1>1. Good(g) /\ g.active = n /\ g.selected["databases"] = n /\ OnSelection(g, "databases")
  BY GotoDatabaseType
<1>2. r \in ReloadTables(g, backed)
  OBVIOUS
<1> HIDE DEF g
<1> QED
  BY <1>1, <1>2, TablesReloaded

(* to a table,                                                             *)
LEMMA TableVisited ==
  ASSUME NEW s, NEW backed \in BOOLEAN, Consistent(s, backed), NEW n \in Tables,
         NEW r \in ReloadColumns(Goto(s, "tables", n), backed)
  PROVE  Consistent(r, backed)
<1> DEFINE l == "tables"
           g == Goto(s, l, n)
<1>1. l \in Lanes /\ LaneNames(l) = Tables /\ "databases" \in Lanes \ {l}
  BY DEF Lanes, LaneNames
<1>a. l = "tables"
  OBVIOUS
<1>2. r \in ReloadColumns(g, backed)
  OBVIOUS
<1> HIDE DEF l
<1>3. Good(s)
  BY DEF Consistent, Unfolded
<1>4. /\ Good(g) /\ g.list = s.list /\ g.selected[l] = n /\ OnSelection(g, l)
      /\ \A k \in Lanes \ {l} : SameLane(g, s, k)
      /\ SameRest(g, s)
  BY <1>1, <1>3, GotoType
<1> HIDE DEF g
<1>5. Unfolded(g, backed)
  BY <1>1, <1>4, <1>a
     DEF Consistent, Unfolded, SameLane, SameRest, OnSelection, TablesDescribed
<1> QED
  BY <1>2, <1>5, ColumnsReloaded

(* or to a column,                                                         *)
LEMMA ColumnVisited ==
  ASSUME NEW s, NEW backed \in BOOLEAN, Consistent(s, backed), NEW n \in ColumnNames
  PROVE  Consistent(Goto(s, "columns", n), backed)
<1> DEFINE l == "columns"
           g == Goto(s, l, n)
<1>1. l \in Lanes /\ LaneNames(l) = ColumnNames
      /\ "databases" \in Lanes \ {l} /\ "tables" \in Lanes \ {l}
  BY DEF Lanes, LaneNames
<1> HIDE DEF l
<1>2. Good(s)
  BY DEF Consistent, Unfolded
<1>3. /\ Good(g) /\ g.list = s.list
      /\ \A k \in Lanes \ {l} : SameLane(g, s, k)
      /\ SameRest(g, s)
  BY <1>1, <1>2, GotoType
<1> HIDE DEF g
<1>4. Consistent(g, backed)
  BY <1>1, <1>3, StaysConsistent DEF SameRest
<1> QED
  BY <1>4 DEF g, l

(* after selecting a column of the results,                                *)
LEMMA ColumnSelected ==
  ASSUME NEW s, NEW backed \in BOOLEAN, Consistent(s, backed),
         NEW n \in ColumnNames \union {NoName}
  PROVE  /\ Consistent([s EXCEPT !.selected["columns"] = n], backed)
         /\ \A k \in {"databases", "tables"} :
              SameLane([s EXCEPT !.selected["columns"] = n], s, k)
<1> DEFINE l == "columns"
           i == s.cursor[l]
           r == [s EXCEPT !.selected[l] = n]
<1>1. l \in Lanes /\ LaneNames(l) = ColumnNames
      /\ "databases" \in Lanes \ {l} /\ "tables" \in Lanes \ {l}
  BY DEF Lanes, LaneNames
<1>a. l = "columns"
  OBVIOUS
<1> HIDE DEF l
<1>2. Good(s) /\ s \in Explorer /\ i \in Identifier
  BY <1>1 DEF Consistent, Unfolded, Good, Explorer
<1>3. r = Moved(s, l, i, n)
  BY <1>1, <1>2 DEF Explorer, Moved
<1> HIDE DEF i, r
<1>4. /\ Good(r) /\ r.list = s.list /\ \A k \in Lanes \ {l} : SameLane(r, s, k)
      /\ SameRest(r, s)
  BY <1>1, <1>2, <1>3, MoveInLane
<1>5. Consistent(r, backed)
  BY <1>1, <1>4, StaysConsistent DEF SameRest
<1> QED
  BY <1>1, <1>4, <1>5, <1>a DEF r

(* after a filter changes,                                                 *)
LEMMA Refiltered ==
  ASSUME NEW s, NEW backed \in BOOLEAN, Consistent(s, backed), NEW l \in Lanes,
         NEW needle \in Needles[l]
  PROVE  /\ Consistent([s EXCEPT !.filter[l] = needle], backed)
         /\ \A k \in Lanes : SameLane([s EXCEPT !.filter[l] = needle], s, k)
         /\ [s EXCEPT !.filter[l] = needle].list = s.list
<1> DEFINE r == [s EXCEPT !.filter[l] = needle]
<1>1. Good(s) /\ s \in Explorer /\ needle \in SUBSET Names
  BY NeedlesAssumption DEF Consistent, Unfolded, Good
<1>2. /\ r \in Explorer /\ r.filter = [s.filter EXCEPT ![l] = needle] /\ r.list = s.list
      /\ r.cursor = s.cursor /\ r.selected = s.selected /\ r.active = s.active
      /\ r.relations = s.relations
  BY <1>1 DEF Explorer
<1> HIDE DEF r
<1>3. \A k \in Lanes : r.filter[k] \in Needles[k]
  BY <1>1, <1>2 DEF Good, Explorer
<1>4. Good(r) /\ \A k \in Lanes : SameLane(r, s, k)
  BY <1>1, <1>2, <1>3 DEF Good, SameLane
<1>5. Consistent(r, backed)
  BY <1>2, <1>4, StaysConsistent DEF Lanes
<1> QED
  BY <1>2, <1>4, <1>5 DEF r

(* and after selecting an entry of any lane.                               *)
LEMMA EntrySelected ==
  ASSUME NEW s, NEW backed \in BOOLEAN, Consistent(s, backed), NEW l \in Lanes,
         NEW i \in DOMAIN s.list[l], NEW n, n = s.list[l][i],
         NEW t, t = [s EXCEPT !.cursor[l] = i, !.selected[l] = n]
  PROVE  /\ l = "databases" =>
              \A r \in ReloadTables([t EXCEPT !.active = n], backed) : Consistent(r, backed)
         /\ l = "tables" => \A r \in ReloadColumns(t, backed) : Consistent(r, backed)
         /\ l = "columns" =>
              /\ Consistent(t, backed)
              /\ SameLane(t, s, "databases") /\ SameLane(t, s, "tables")
<1>1. Good(s) /\ s \in Explorer /\ s.list[l] \in Seq(LaneNames(l))
  BY DEF Consistent, Unfolded, Good
<1>2. i \in Identifier /\ n \in LaneNames(l) /\ n # NoName
  BY <1>1, LaneNamesType DEF Identifier, NoName
<1>3. t = Moved(s, l, i, n)
  BY DEF Moved
<1>4. /\ Good(t) /\ t.list = s.list /\ t.cursor[l] = i /\ t.selected[l] = n
      /\ \A k \in Lanes \ {l} : SameLane(t, s, k)
      /\ SameRest(t, s)
  <2> DEFINE m == n
             u == Moved(s, l, i, m)
  <2>1. i \in Identifier /\ m \in LaneNames(l) \union {NoName} /\ t = u
    BY <1>2, <1>3
  <2>m. m = n
    OBVIOUS
  <2> HIDE DEF m
  <2>2. /\ Good(u) /\ u.list = s.list /\ u.cursor[l] = i /\ u.selected[l] = m
        /\ \A k \in Lanes \ {l} : SameLane(u, s, k)
        /\ SameRest(u, s)
    BY <1>1, <2>1, MoveInLane
  <2> HIDE DEF u
  <2> QED
    BY <2>1, <2>2, <2>m
<1>5. OnSelection(t, l)
  BY <1>4 DEF OnSelection
<1>6. ASSUME l = "databases", NEW r \in ReloadTables([t EXCEPT !.active = n], backed)
      PROVE  Consistent(r, backed)
  <2> DEFINE u == [t EXCEPT !.active = n]
  <2>1. n \in Databases
    BY <1>2, <1>6 DEF LaneNames
  <2>2. t \in Explorer
    BY <1>4 DEF Good
  <2>3. /\ u \in Explorer /\ u.active = n /\ u.list = t.list /\ u.cursor = t.cursor
        /\ u.selected = t.selected /\ u.filter = t.filter
    BY <2>1, <2>2 DEF Explorer
  <2>4. r \in ReloadTables(u, backed)
    BY <1>6
  <2> HIDE DEF u
  <2>5. Good(u) /\ OnSelection(u, "databases") /\ u.selected["databases"] = u.active
    BY <1>4, <1>5, <1>6, <2>3 DEF Good, OnSelection
  <2>6. backed \/ u.active # NoName
    BY <1>2, <2>3
  <2> QED
    BY <2>4, <2>5, <2>6, TablesReloaded
<1>7. ASSUME l = "tables", NEW r \in ReloadColumns(t, backed)
      PROVE  Consistent(r, backed)
  <2>1. SameLane(t, s, "databases")
    BY <1>4, <1>7 DEF Lanes
  <2>2. Unfolded(t, backed)
    BY <1>4, <1>5, <1>7, <2>1
       DEF Consistent, Unfolded, SameLane, SameRest, OnSelection, TablesDescribed
  <2> QED
    BY <1>7, <2>2, ColumnsReloaded
<1>8. ASSUME l = "columns"
      PROVE  /\ Consistent(t, backed)
             /\ SameLane(t, s, "databases") /\ SameLane(t, s, "tables")
  <2>1. SameLane(t, s, "databases") /\ SameLane(t, s, "tables")
    BY <1>4, <1>8 DEF Lanes
  <2> QED
    BY <1>4, <2>1, StaysConsistent DEF SameRest
<1> QED
  BY <1>6, <1>7, <1>8

(* The cursor goes from a match to a match.                                 *)
LEMMA MatchType ==
  ASSUME NEW S, NEW list \in Seq(S), NEW needle, NEW i,
         Filtered(list, needle) # {}
  PROVE  LET matches == Filtered(list, needle)
         IN  /\ PreviousMatch(matches, i) \in DOMAIN list
             /\ NextMatch(matches, i) \in DOMAIN list
             /\ Min(matches) \in DOMAIN list
<1> DEFINE matches == Filtered(list, needle)
           from == IF i \in matches THEN i ELSE Min(matches)
           before == {j \in matches : j < from}
           after == {j \in matches : j > from}
           n == Len(list)
<1>1. matches \subseteq DOMAIN list /\ n \in Nat /\ DOMAIN list = 1 .. n
  BY DEF Filtered
<1>2. matches \subseteq Nat /\ matches \subseteq 0 .. n
  BY <1>1
<1>3. PreviousMatch(matches, i) = IF before = {} THEN from ELSE Max(before)
  BY DEF PreviousMatch
<1>4. NextMatch(matches, i) = IF after = {} THEN from ELSE Min(after)
  BY DEF NextMatch
<1>a. before \in SUBSET (0 .. n) /\ after \subseteq Nat /\ before \subseteq matches
      /\ after \subseteq matches /\ matches # {}
  BY <1>2
<1> HIDE DEF matches, n
<1>5. Min(matches) \in matches
  BY <1>2, <1>a, MinType
<1>6. from \in matches
  BY <1>5
<1> HIDE DEF before, after, from
<1>7. before # {} => Max(before) \in before
  BY <1>1, <1>a, MaxType
<1>8. after # {} => Min(after) \in after
  BY <1>a, MinType
<1>9. PreviousMatch(matches, i) \in matches /\ NextMatch(matches, i) \in matches
  BY <1>3, <1>4, <1>6, <1>7, <1>8, <1>a
<1> QED
  BY <1>1, <1>5, <1>9 DEF matches

-----------------------------------------------------------------------------
(* The invariant. *)

PagesOfSelection ==
  pages # NoPages => /\ ui.selected["tables"] # NoName
                     /\ pages = <<ui.selected["databases"], ui.selected["tables"]>>

IInv ==
  /\ lane \in Lanes /\ connected \in BOOLEAN
  /\ Consistent(ui, connected)
  /\ PagesOfSelection

(* The demo schema that is shown first is consistent.                      *)
LEMMA InitConsistent == Init => IInv
<1> SUFFICES ASSUME Init PROVE IInv
  OBVIOUS
<1> DEFINE name == Demo[1].name
           lists == [databases |-> <<name>>, tables |-> DemoTables, columns |-> DemoColumns]
           firsts == [databases |-> name, tables |-> DemoTables[1], columns |-> DemoColumns[1]]
           rs == DemoRelationships(name, DemoTables[1])
           one == 1
<1>1. /\ ui = [list |-> lists, cursor |-> [l \in Lanes |-> one], selected |-> firsts,
               filter |-> [l \in Lanes |-> Names], active |-> name,
               relations |-> rs, relation |-> one]
      /\ lane = "tables" /\ connected = FALSE /\ pages = NoPages
  BY DEF Init
<1>2. /\ name \in Databases /\ rs \in Seq(Relationship) /\ one \in Identifier
      /\ DemoTables \in Seq(Tables) /\ DemoTables # <<>>
      /\ DemoColumns \in Seq(ColumnNames) /\ DemoColumns # <<>>
  BY DemoType DEF Identifier, NoName
<1>3. DemoTables[1] \in Tables /\ DemoColumns[1] \in ColumnNames
  BY <1>2
<1>4. \A l \in Lanes : lists[l] \in Seq(LaneNames(l)) /\ firsts[l] \in LaneNames(l)
  <2> SUFFICES ASSUME NEW l \in Lanes
               PROVE  lists[l] \in Seq(LaneNames(l)) /\ firsts[l] \in LaneNames(l)
    OBVIOUS
  <2>1. CASE l = "databases"
    <3>1. lists[l] = <<name>> /\ firsts[l] = name /\ LaneNames(l) = Databases
      BY <2>1 DEF LaneNames
    <3>2. <<name>> \in Seq(Databases)
      <4> HIDE DEF name
      <4> QED
        BY <1>2
    <3> HIDE DEF name, lists, firsts
    <3> QED
      BY <1>2, <3>1, <3>2
  <2>2. CASE l = "tables"
    <3>1. lists[l] = DemoTables /\ firsts[l] = DemoTables[1] /\ LaneNames(l) = Tables
      BY <2>2 DEF LaneNames
    <3> QED
      BY <1>2, <1>3, <3>1
  <2>3. CASE l = "columns"
    <3>1. lists[l] = DemoColumns /\ firsts[l] = DemoColumns[1] /\ LaneNames(l) = ColumnNames
      BY <2>3 DEF LaneNames
    <3> QED
      BY <1>2, <1>3, <3>1
  <2> QED
    BY <2>1, <2>2, <2>3 DEF Lanes
<1>5. /\ lists \in [Lanes -> Seq(Identifier)] /\ firsts \in [Lanes -> Nat]
  <2>1. DOMAIN lists = Lanes /\ DOMAIN firsts = Lanes
    BY DEF Lanes
  <2>2. \A l \in Lanes : lists[l] \in Seq(Identifier) /\ firsts[l] \in Nat
    <3> SUFFICES ASSUME NEW l \in Lanes
                 PROVE  lists[l] \in Seq(Identifier) /\ firsts[l] \in Nat
      OBVIOUS
    <3> DEFINE s == lists[l]
               f == firsts[l]
    <3>1. s \in Seq(LaneNames(l)) /\ f \in LaneNames(l)
      BY <1>4
    <3> HIDE DEF s, f
    <3>2. s \in Seq(Identifier) /\ f \in Nat
      BY <3>1, LaneNamesType DEF Identifier
    <3> QED
      BY <3>2 DEF s, f
  <2>3. lists = [l \in Lanes |-> lists[l]] /\ firsts = [l \in Lanes |-> firsts[l]]
    BY DEF Lanes
  <2> QED
    BY <2>2, <2>3
<1>6. lists["tables"] = DemoTables /\ lists["databases"] = <<name>>
      /\ firsts["databases"] = name /\ firsts["tables"] = DemoTables[1]
  OBVIOUS
<1> HIDE DEF lists, firsts, rs, one, name
<1>7. /\ ui.list = lists /\ ui.cursor = [l \in Lanes |-> one] /\ ui.selected = firsts
      /\ ui.filter = [l \in Lanes |-> Names] /\ ui.active = name /\ ui.relations = rs
  BY <1>1
<1>8. ui \in Explorer
  BY <1>1, <1>2, <1>5 DEF Explorer
<1>9. Good(ui)
  BY <1>4, <1>7, <1>8, NeedlesAssumption DEF Good
<1>10. name # NoName
  BY <1>2, NamesType DEF Identifier
<1>11. OnSelection(ui, "databases") /\ OnSelection(ui, "tables")
  BY <1>6, <1>7 DEF OnSelection, Lanes, one
<1>12. ui.selected["tables"] # NoName
  BY <1>3, <1>6, <1>7, NamesType DEF Identifier
<1>13. Consistent(ui, connected)
  BY <1>1, <1>6, <1>7, <1>9, <1>10, <1>11, <1>12 DEF Consistent, Unfolded, DetailsDescribed
<1> QED
  BY <1>1, <1>13 DEF IInv, PagesOfSelection, Lanes

-----------------------------------------------------------------------------
(* The steps. *)

(* What is said above of the lanes holds of the handlers: selecting an     *)
(* entry,                                                                  *)
LEMMA SelectStep ==
  ASSUME NEW s, connected \in BOOLEAN, Consistent(s, connected), lane \in Lanes,
         NEW i \in DOMAIN s.list[lane], Select(s, i)
  PROVE  Consistent(ui', connected) /\ pages' = NoPages
<1> DEFINE l == lane
           n == s.list[l][i]
           t == [s EXCEPT !.cursor[l] = i, !.selected[l] = n]
<1>1. \/ l = "databases" /\ \E r \in ReloadTables([t EXCEPT !.active = n], connected) : MovedTo(r)
      \/ l = "tables" /\ \E r \in ReloadColumns(t, connected) : MovedTo(r)
  BY DEF Select
<1>2. l \in Lanes /\ i \in DOMAIN s.list[l] /\ n = s.list[l][i]
      /\ t = [s EXCEPT !.cursor[l] = i, !.selected[l] = n]
  OBVIOUS
<1> HIDE DEF l, n, t
<1>3. /\ l = "databases" =>
           \A r \in ReloadTables([t EXCEPT !.active = n], connected) : Consistent(r, connected)
      /\ l = "tables" => \A r \in ReloadColumns(t, connected) : Consistent(r, connected)
  BY <1>2, EntrySelected
<1> QED
  BY <1>1, <1>3 DEF MovedTo

(* a column,                                                               *)
LEMMA SelectColumnStep ==
  ASSUME NEW s, connected \in BOOLEAN, Consistent(s, connected), lane \in Lanes,
         NEW i \in DOMAIN s.list[lane], SelectColumn(s, i)
  PROVE  /\ Consistent(ui', connected)
         /\ SameLane(ui', s, "databases") /\ SameLane(ui', s, "tables")
<1> DEFINE l == lane
           n == s.list[l][i]
           t == [s EXCEPT !.cursor[l] = i, !.selected[l] = n]
<1>1. l = "columns" /\ ui' = t
  BY DEF SelectColumn
<1>2. l \in Lanes /\ i \in DOMAIN s.list[l] /\ n = s.list[l][i]
      /\ t = [s EXCEPT !.cursor[l] = i, !.selected[l] = n]
  OBVIOUS
<1> HIDE DEF l, n, t
<1>3. Consistent(t, connected) /\ SameLane(t, s, "databases") /\ SameLane(t, s, "tables")
  BY <1>1, <1>2, EntrySelected
<1> QED
  BY <1>1, <1>3

(* typing a filter,                                                        *)
LEMMA RefilterStep ==
  ASSUME IInv, NEW needle \in Needles[lane], Refilter(needle)
  PROVE  IInv'
<1> DEFINE l == lane
           s == [ui EXCEPT !.filter[l] = needle]
           matches == Filtered(s.list[l], needle)
           first == Min(matches)
<1>1. /\ \/ matches = {} /\ ui' = s /\ UNCHANGED pages
         \/ matches # {} /\ Select(s, first)
         \/ matches # {} /\ SelectColumn(s, first) /\ pages' = NoPages
      /\ UNCHANGED <<lane, connected>>
  BY DEF Refilter
<1>2. lane \in Lanes /\ connected \in BOOLEAN /\ Consistent(ui, connected) /\ PagesOfSelection
  BY DEF IInv
<1>3. /\ Consistent(s, connected) /\ s.list = ui.list
      /\ \A k \in Lanes : SameLane(s, ui, k)
  <2> HIDE DEF l
  <2>1. l \in Lanes /\ needle \in Needles[l]
    BY <1>2 DEF l
  <2> QED
    BY <1>2, <2>1, Refiltered
<1>4. matches # {} => first \in DOMAIN s.list[l]
  <2> DEFINE list == s.list[l]
  <2>1. list \in Seq(LaneNames(l))
    BY <1>2, <1>3 DEF Consistent, Unfolded, Good
  <2>2. matches = Filtered(list, needle)
    OBVIOUS
  <2> HIDE DEF list
  <2>3. Filtered(list, needle) # {} => Min(Filtered(list, needle)) \in DOMAIN list
    BY <2>1, MatchType
  <2> QED
    BY <2>2, <2>3 DEF list
<1> HIDE DEF matches, first
<1>5. CASE matches = {} /\ ui' = s /\ UNCHANGED pages
  BY <1>1, <1>2, <1>3, <1>5 DEF IInv, PagesOfSelection, SameLane, Lanes
<1>6. CASE matches # {} /\ Select(s, first)
  <2>1. Consistent(ui', connected) /\ pages' = NoPages
    <3> HIDE DEF s
    <3>1. first \in DOMAIN s.list[lane]
      BY <1>4, <1>6
    <3> QED
      BY <1>2, <1>3, <1>6, <3>1, SelectStep
  <2> QED
    BY <1>1, <1>2, <2>1 DEF IInv, PagesOfSelection
<1>7. CASE matches # {} /\ SelectColumn(s, first) /\ pages' = NoPages
  <2>1. Consistent(ui', connected)
    <3> HIDE DEF s
    <3>1. first \in DOMAIN s.list[lane]
      BY <1>4, <1>7
    <3> QED
      BY <1>2, <1>3, <1>7, <3>1, SelectColumnStep
  <2> QED
    BY <1>1, <1>2, <1>7, <2>1 DEF IInv, PagesOfSelection
<1> QED
  BY <1>1, <1>5, <1>6, <1>7

(* moving the cursor,                                                      *)
LEMMA NavigateStep == ASSUME IInv, Navigate PROVE IInv'
<1> DEFINE list == ui.list[lane]
           matches == Filtered(list, ui.filter[lane])
           at == ui.cursor[lane]
<1>1. lane \in Lanes /\ connected \in BOOLEAN /\ Consistent(ui, connected) /\ PagesOfSelection
  BY DEF IInv
<1>2. PICK i \in {PreviousMatch(matches, at), NextMatch(matches, at)} :
             Select(ui, i) \/ (SelectColumn(ui, i) /\ UNCHANGED pages)
  BY DEF Navigate
<1>3. i \in DOMAIN list
  <2> DEFINE needle == ui.filter[lane]
  <2>1. list \in Seq(LaneNames(lane)) /\ Filtered(list, needle) # {}
    BY <1>1 DEF Navigate, Consistent, Unfolded, Good
  <2>2. i \in {PreviousMatch(Filtered(list, needle), at), NextMatch(Filtered(list, needle), at)}
    BY <1>2
  <2> HIDE DEF list, needle, at
  <2> QED
    BY <2>1, <2>2, MatchType
<1>4. UNCHANGED <<lane, connected>>
  BY DEF Navigate
<1>5. CASE Select(ui, i)
  <2>1. Consistent(ui', connected) /\ pages' = NoPages
    BY <1>1, <1>3, <1>5, SelectStep
  <2> QED
    BY <1>1, <1>4, <2>1 DEF IInv, PagesOfSelection
<1>6. CASE SelectColumn(ui, i) /\ UNCHANGED pages
  <2>1. /\ Consistent(ui', connected)
        /\ SameLane(ui', ui, "databases") /\ SameLane(ui', ui, "tables")
    BY <1>1, <1>3, <1>6, SelectColumnStep
  <2> QED
    BY <1>1, <1>4, <1>6, <2>1 DEF IInv, PagesOfSelection, SameLane
<1> QED
  BY <1>2, <1>5, <1>6

(* jumping to a related table,                                             *)
LEMMA JumpStep == ASSUME IInv, JumpToRelatedTable PROVE IInv'
<1>1. connected \in BOOLEAN /\ Consistent(ui, connected) /\ Good(ui) /\ ui \in Explorer
  BY DEF IInv, Consistent, Unfolded, Good
<1> DEFINE rs == ui.relations
           index == Min({ui.relation, Len(rs)})
           target == rs[index]
           turned == (index % Len(rs)) + 1
           departing == [ui EXCEPT !.relation = turned]
<1>2. rs \in Seq(Relationship) /\ Len(rs) \in Nat \ {0} /\ ui.relation \in Nat \ {0}
  BY <1>1 DEF JumpToRelatedTable, Explorer, Identifier, NoName
<1>3. index \in 1 .. Len(rs)
  <2> DEFINE a == ui.relation
             b == Len(rs)
  <2>1. a \in Nat \ {0} /\ b \in Nat \ {0}
    BY <1>2
  <2> HIDE DEF a, b
  <2>2. {a, b} \subseteq Nat
    BY <2>1
  <2>3. Min({a, b}) \in {a, b} /\ \A n \in {a, b} : Min({a, b}) <= n
    BY <2>2, MinType
  <2>4. Min({a, b}) \in 1 .. b
    BY <2>1, <2>3
  <2> QED
    BY <2>4 DEF a, b
<1>4. target \in Relationship
  <2> HIDE DEF index, rs
  <2> QED
    BY <1>2, <1>3
<1>5. turned \in Identifier
  <2> HIDE DEF index
  <2>1. \A a \in Nat, b \in Nat \ {0} : a % b \in Nat
    OBVIOUS
  <2>2. index \in Nat
    BY <1>2, <1>3
  <2>3. index % Len(rs) \in Nat
    BY <1>2, <2>1, <2>2
  <2> QED
    BY <2>3 DEF Identifier, NoName
<1>6. Good(departing)
  <2> HIDE DEF turned
  <2>1. /\ departing \in Explorer /\ departing.list = ui.list
        /\ departing.selected = ui.selected /\ departing.filter = ui.filter
    BY <1>1, <1>5 DEF Explorer
  <2> QED
    BY <1>1, <2>1 DEF Good
<1>7. /\ target.databases \in Databases /\ target.tables \in Tables
      /\ target.columns \in ColumnNames /\ target.databases # NoName
  <2> HIDE DEF target
  <2> QED
    BY <1>4, NamesType DEF Relationship, Identifier
<1>8. PICK s \in ReloadTables(GotoDatabase(departing, target.databases), connected) :
        \E t \in ReloadColumns(Goto(s, "tables", target.tables), connected) :
          MovedTo(Goto(t, "columns", target.columns))
  BY DEF JumpToRelatedTable
<1>8a. PICK t \in ReloadColumns(Goto(s, "tables", target.tables), connected) :
        MovedTo(Goto(t, "columns", target.columns))
  BY <1>8
<1>9. UNCHANGED <<lane, connected>>
  BY DEF JumpToRelatedTable
<1> HIDE DEF departing, target
<1>10. Consistent(s, connected)
  <2> DEFINE d == target.databases
  <2>1. d \in Databases \union {NoName} /\ d # NoName
        /\ s \in ReloadTables(GotoDatabase(departing, d), connected)
    BY <1>7, <1>8
  <2> HIDE DEF d
  <2> QED
    BY <1>1, <1>6, <2>1, DatabaseVisited
<1>11. Consistent(t, connected)
  <2> DEFINE n == target.tables
  <2>1. n \in Tables /\ t \in ReloadColumns(Goto(s, "tables", n), connected)
    BY <1>7, <1>8a
  <2> HIDE DEF n
  <2> QED
    BY <1>1, <1>10, <2>1, TableVisited
<1>12. Consistent(ui', connected) /\ pages' = NoPages
  <2> DEFINE n == target.columns
  <2>1. n \in ColumnNames /\ ui' = Goto(t, "columns", n) /\ pages' = NoPages
    BY <1>7, <1>8a DEF MovedTo
  <2> HIDE DEF n
  <2>2. Consistent(Goto(t, "columns", n), connected)
    BY <1>1, <1>11, <2>1, ColumnVisited
  <2> QED
    BY <2>1, <2>2
<1> QED
  BY <1>9, <1>12 DEF IInv, PagesOfSelection

(* opening a bookmark,                                                     *)
LEMMA BookmarkStep == ASSUME IInv, NEW b \in Bookmarks, OpenBookmark(b) PROVE IInv'
<1>1. connected \in BOOLEAN /\ Consistent(ui, connected) /\ Good(ui)
  BY DEF IInv, Consistent, Unfolded
<1> DEFINE d == b.databases
           n == b.tables
           m == b.columns
<1>2. d \in Databases \union {NoName} /\ n \in Tables \union {NoName}
      /\ m \in ColumnNames \union {NoName}
  BY BookmarksAssumption
<1>3. PICK s \in IF d = NoName THEN {ui} ELSE ReloadTables(GotoDatabase(ui, d), connected) :
        \E t \in IF n = NoName THEN {s} ELSE ReloadColumns(Goto(s, "tables", n), connected) :
          MovedTo(IF m = NoName THEN t ELSE Goto(t, "columns", m))
  BY DEF OpenBookmark
<1>3a. PICK t \in IF n = NoName THEN {s} ELSE ReloadColumns(Goto(s, "tables", n), connected) :
        MovedTo(IF m = NoName THEN t ELSE Goto(t, "columns", m))
  BY <1>3
<1>4. UNCHANGED <<lane, connected>>
  BY DEF OpenBookmark
<1> HIDE DEF d, n, m
<1>5. Consistent(s, connected)
  BY <1>1, <1>2, <1>3, DatabaseVisited
<1>6. Consistent(t, connected)
  BY <1>1, <1>2, <1>3a, <1>5, TableVisited
<1>7. Consistent(ui', connected) /\ pages' = NoPages
  <2>1. CASE m = NoName
    BY <1>3a, <1>6, <2>1 DEF MovedTo
  <2>2. CASE m # NoName
    BY <1>1, <1>2, <1>3a, <1>6, <2>2, ColumnVisited DEF MovedTo
  <2> QED
    BY <2>1, <2>2
<1> QED
  BY <1>4, <1>7 DEF IInv, PagesOfSelection

(* connecting,                                                             *)
LEMMA ConnectedStep == ASSUME IInv, Connected PROVE IInv'
<1>1. Good(ui) /\ ui \in Explorer
  BY DEF IInv, Consistent, Unfolded, Good
<1>2. PICK database \in Databases \union {NoName}, c \in Fetches :
             Connect(database, NamesOf(c))
  BY DEF Connected
<1> DEFINE listed == NamesOf(c)
           active == IF database # NoName THEN database ELSE At(listed, 1)
           one == 1
           nothing == <<>>
           cleared == [ui EXCEPT !.filter = [l \in Lanes |-> Names],
                                 !.list["databases"] = listed, !.cursor["databases"] = one,
                                 !.list["tables"] = nothing]
<1>3. listed \in Seq(Databases) /\ one \in Identifier /\ nothing \in Seq(Tables)
      /\ nothing \in Seq(Identifier)
  BY NamesOfDatabasesType DEF Identifier, NoName
<1>4. active \in Databases \union {NoName}
  <2> HIDE DEF listed
  <2> QED
    BY <1>3 DEF At
<1>5. PICK s \in ReloadTables(GotoDatabase(cleared, active), TRUE) :
             /\ MovedTo(s) /\ connected' = TRUE
             /\ lane' = IF s.list["tables"] = <<>> THEN "databases" ELSE "tables"
  BY <1>2 DEF Connect
<1> HIDE DEF listed, active, one, nothing
<1>6. Good(cleared)
  <2> DEFINE lists == [ui.list EXCEPT !["databases"] = listed, !["tables"] = nothing]
             cursors == [ui.cursor EXCEPT !["databases"] = one]
             needles == [l \in Lanes |-> Names]
  <2>1. ui.list \in [Lanes -> Seq(Identifier)] /\ ui.cursor \in [Lanes -> Identifier]
    BY <1>1 DEF Explorer
  <2>2. listed \in Seq(Identifier)
    BY <1>3, NamesType
  <2>3. lists \in [Lanes -> Seq(Identifier)] /\ cursors \in [Lanes -> Identifier]
        /\ needles \in [Lanes -> SUBSET Names]
    BY <1>3, <2>1, <2>2
  <2>4. cleared = [ui EXCEPT !.filter = needles, !.list = lists, !.cursor = cursors]
    BY <1>1 DEF Explorer
  <2>5. \A l \in Lanes : lists[l] \in Seq(LaneNames(l))
    <3> SUFFICES ASSUME NEW l \in Lanes PROVE lists[l] \in Seq(LaneNames(l))
      OBVIOUS
    <3>1. CASE l = "databases"
      <4>1. lists[l] = listed /\ LaneNames(l) = Databases
        BY <2>1, <3>1 DEF LaneNames, Lanes
      <4> QED
        BY <1>3, <4>1
    <3>2. CASE l = "tables"
      <4>1. lists[l] = nothing /\ LaneNames(l) = Tables
        BY <2>1, <3>2 DEF LaneNames, Lanes
      <4> QED
        BY <1>3, <4>1
    <3>3. CASE l = "columns"
      <4>1. lists[l] = ui.list[l]
        BY <2>1, <3>3 DEF Lanes
      <4> QED
        BY <1>1, <4>1 DEF Good
    <3> QED
      BY <3>1, <3>2, <3>3 DEF Lanes
  <2>6. \A l \in Lanes : needles[l] \in Needles[l]
    BY NeedlesAssumption
  <2> HIDE DEF cleared, lists, cursors, needles
  <2>7. /\ cleared \in Explorer /\ cleared.list = lists /\ cleared.filter = needles
        /\ cleared.selected = ui.selected
    BY <1>1, <2>3, <2>4 DEF Explorer
  <2> QED
    BY <1>1, <2>5, <2>6, <2>7 DEF Good
<1> HIDE DEF cleared
<1>7. Consistent(s, TRUE)
  <2> DEFINE backed == TRUE
  <2>1. backed \in BOOLEAN /\ backed /\ s \in ReloadTables(GotoDatabase(cleared, active), backed)
    BY <1>5
  <2> HIDE DEF backed
  <2>2. Consistent(s, backed)
    BY <1>4, <1>6, <2>1, DatabaseVisited
  <2> QED
    BY <2>2 DEF backed
<1>8. ui' = s /\ pages' = NoPages /\ lane' \in Lanes /\ connected' = TRUE
  BY <1>5 DEF MovedTo, Lanes
<1> QED
  BY <1>7, <1>8 DEF IInv, PagesOfSelection

(* moving over the results,                                                *)
LEMMA ResultColumnStep ==
  ASSUME IInv, NEW n \in ColumnNames \union {NoName}, SelectResultColumn(n)
  PROVE  IInv'
<1>1. connected \in BOOLEAN /\ Consistent(ui, connected) /\ PagesOfSelection /\ lane \in Lanes
  BY DEF IInv
<1> DEFINE t == [ui EXCEPT !.selected["columns"] = n]
<1>2. ui' = t /\ UNCHANGED <<lane, connected, pages>>
  BY DEF SelectResultColumn
<1>3. Consistent(t, connected) /\ \A k \in {"databases", "tables"} : SameLane(t, ui, k)
  BY <1>1, ColumnSelected
<1> HIDE DEF t
<1> QED
  BY <1>1, <1>2, <1>3 DEF IInv, PagesOfSelection, SameLane

(* and previewing the table.                                               *)
LEMMA PreviewStep == ASSUME IInv, PreviewTable PROVE IInv'
<1>1. connected \in BOOLEAN /\ Consistent(ui, connected) /\ lane \in Lanes
      /\ ui.list["columns"] \in Seq(ColumnNames)
  BY DEF IInv, Consistent, Unfolded, Good, Lanes, LaneNames
<1>2. /\ ui.selected["tables"] # NoName
      /\ pages' = <<ui.selected["databases"], ui.selected["tables"]>>
      /\ UNCHANGED <<lane, connected>>
  BY DEF PreviewTable
<1>3. CASE ui' = ui
  BY <1>1, <1>2, <1>3 DEF IInv, PagesOfSelection
<1>4. CASE \E n \in ToSet(ui.list["columns"]) : ui' = [ui EXCEPT !.selected["columns"] = n]
  <2>1. PICK n \in ToSet(ui.list["columns"]) : ui' = [ui EXCEPT !.selected["columns"] = n]
    BY <1>4
  <2>2. n \in ColumnNames
    BY <1>1 DEF ToSet
  <2> DEFINE t == [ui EXCEPT !.selected["columns"] = n]
  <2>3. Consistent(t, connected) /\ \A k \in {"databases", "tables"} : SameLane(t, ui, k)
    BY <1>1, <2>2, ColumnSelected
  <2>4. ui' = t
    BY <2>1
  <2> HIDE DEF t
  <2> QED
    BY <1>1, <1>2, <2>3, <2>4 DEF IInv, PagesOfSelection, SameLane
<1> QED
  BY <1>3, <1>4 DEF PreviewTable

(* Every step preserves the invariant.                                     *)
LEMMA StepConsistent == IInv /\ [Next]_vars => IInv'
<1> SUFFICES ASSUME IInv, [Next]_vars PROVE IInv'
  OBVIOUS
<1>1. CASE Navigate
  BY <1>1, NavigateStep
<1>2. CASE SwitchLane
  BY <1>2 DEF SwitchLane, IInv, PagesOfSelection
<1>3. CASE AppendFilterChar \/ BackspaceFilter
  BY <1>3, RefilterStep DEF AppendFilterChar, BackspaceFilter
<1>4. CASE ClearFilter
  <2>1. Names \in Needles[lane]
    BY NeedlesAssumption DEF IInv
  <2> QED
    BY <1>4, <2>1, RefilterStep DEF ClearFilter
<1>5. CASE JumpToRelatedTable
  BY <1>5, JumpStep
<1>6. CASE \E b \in Bookmarks : OpenBookmark(b)
  BY <1>6, BookmarkStep
<1>7. CASE Connected
  BY <1>7, ConnectedStep
<1>8. CASE \E n \in ColumnNames \union {NoName} : SelectResultColumn(n)
  BY <1>8, ResultColumnStep
<1>9. CASE PreviewTable
  BY <1>9, PreviewStep
<1>10. CASE UNCHANGED vars
  BY <1>10 DEF vars, IInv, PagesOfSelection
<1> QED
  BY <1>1, <1>2, <1>3, <1>4, <1>5, <1>6, <1>7, <1>8, <1>9, <1>10 DEF Next

(* It holds throughout.                                                    *)
LEMMA Invariance == Spec => []IInv
  BY InitConsistent, StepConsistent, PTL DEF Spec

-----------------------------------------------------------------------------
(* Every lane holds names of its own kind, whatever the catalogs say.       *)
THEOREM Typing == Spec => []TypeOK
<1>1. IInv => TypeOK
  <2> SUFFICES ASSUME IInv PROVE TypeOK
    OBVIOUS
  <2>1. lane \in Lanes /\ connected \in BOOLEAN /\ Good(ui) /\ ui \in Explorer
    BY DEF IInv, Consistent, Unfolded, Good
  <2>2. \A l \in Lanes : /\ ui.list[l] \in Seq(Names) /\ ui.selected[l] \in Names \union {NoName}
                         /\ ui.filter[l] \in Needles[l]
    <3> SUFFICES ASSUME NEW l \in Lanes
                 PROVE  /\ ui.list[l] \in Seq(Names)
                        /\ ui.selected[l] \in Names \union {NoName}
                        /\ ui.filter[l] \in Needles[l]
      OBVIOUS
    <3>1. /\ ui.list[l] \in Seq(LaneNames(l))
          /\ ui.selected[l] \in LaneNames(l) \union {NoName} /\ ui.filter[l] \in Needles[l]
      BY <2>1 DEF Good
    <3> QED
      BY <3>1, LaneNamesType
  <2>3. ui.list \in [Lanes -> Seq(Names)] /\ ui.selected \in [Lanes -> Names \union {NoName}]
    BY <2>1, <2>2 DEF Explorer
  <2>4. /\ ui.cursor \in [Lanes -> Nat \ {0}] /\ ui.active \in Databases \union {NoName}
        /\ ui.relations \in Seq(Relationship) /\ ui.relation \in Nat \ {0}
    BY <2>1 DEF Explorer, Identifier, NoName
  <2>5. ui.selected["databases"] \in Databases \union {NoName}
        /\ ui.selected["tables"] \in Tables \union {NoName}
    BY <2>1 DEF Good, Lanes, LaneNames
  <2>6. pages \in {NoPages} \union ((Databases \union {NoName}) \X Tables)
    BY <2>5 DEF IInv, PagesOfSelection
  <2> QED
    BY <2>1, <2>2, <2>3, <2>4, <2>6 DEF TypeOK
<1> QED
  BY Invariance, <1>1, PTL

(* What the explorer highlights is what previews and bookmarks use: the     *)
(* cursor is on the selected database and table while they are listed.      *)
THEOREM CursorShowsSelection == Spec => []CursorOnSelection
<1>1. IInv => CursorOnSelection
  BY DEF IInv, Consistent, Unfolded, OnSelection, CursorOnSelection
<1> QED
  BY Invariance, <1>1, PTL

(* Whatever catalogs answer a handler's calls, and whichever of them fail,  *)
(* no list on screen is left over from another database or table.           *)
THEOREM ListsAreOfSelection == Spec => []ListsDescribeSelection
<1>1. IInv => ListsDescribeSelection
  BY DEF IInv, Consistent, Unfolded, TablesDescribed, DetailsDescribed, ListsDescribeSelection
<1> QED
  BY Invariance, <1>1, PTL

(* Next and previous page never fetch rows of a table that is no longer the *)
(* selected one.                                                            *)
THEOREM PagesAreOfSelection == Spec => []PagesFollowSelection
<1>1. IInv => PagesFollowSelection
  BY DEF IInv, PagesOfSelection, PagesFollowSelection
<1> QED
  BY Invariance, <1>1, PTL

=============================================================================
