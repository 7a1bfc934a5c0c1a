------------------------------ MODULE TopKProofs ------------------------------
(***************************************************************************)
(* Proofs about TopKCheckpoints for any metric values, any number of       *)
(* epochs and resumes, and any choice of k per run: the types, that file   *)
(* names and the manager's table can be believed, and that a best file     *)
(* survives whenever k > 1.                                                *)
(*                                                                         *)
(* Both sorts of the manager are total orders; that the first and the last *)
(* entry of a sort exist is proved by counting the entries before each.    *)
(***************************************************************************)
EXTENDS TopKCheckpoints, FiniteSetTheorems, SequenceTheorems, TLAPS

-----------------------------------------------------------------------------
(* Sorting a finite set.                                                   *)

\* A strict total order on the elements of a finite set, as a set of pairs.
IsStrictOrder(R, S) ==
  /\ \A x \in S : <<x, x>> \notin R
  /\ \A x, y, z \in S : <<x, y>> \in R /\ <<y, z>> \in R => <<x, z>> \in R
  /\ \A x, y \in S : x = y \/ <<x, y>> \in R \/ <<y, x>> \in R

Below(R, S, x) == {y \in S : <<y, x>> \in R}

\* The number of elements before it gives every element a place of its own, and
\* all places from 1 to the size of the set are taken.
LEMMA PlacesAreTaken ==
  ASSUME NEW S, IsFiniteSet(S), NEW R, IsStrictOrder(R, S)
  PROVE  /\ \A x \in S : Cardinality(Below(R, S, x)) + 1 \in 1 .. Cardinality(S)
         /\ \A x, y \in S :
              Cardinality(Below(R, S, x)) = Cardinality(Below(R, S, y)) => x = y
         /\ \A i \in 1 .. Cardinality(S) :
              \E x \in S : Cardinality(Below(R, S, x)) + 1 = i
<1>1. Cardinality(S) \in Nat
  BY FS_CardinalityType
<1>2. \A x \in S : IsFiniteSet(Below(R, S, x)) /\ Cardinality(Below(R, S, x)) \in Nat
  BY FS_Subset, FS_CardinalityType DEF Below
<1>3. ASSUME NEW x \in S
      PROVE  Cardinality(Below(R, S, x)) + 1 \in 1 .. Cardinality(S)
  <2>1. x \notin Below(R, S, x) /\ Below(R, S, x) \cup {x} \in SUBSET S
    BY DEF Below, IsStrictOrder
  <2>2. Cardinality(Below(R, S, x) \cup {x}) = Cardinality(Below(R, S, x)) + 1
    BY <1>2, <2>1, FS_AddElement
  <2>3. Cardinality(Below(R, S, x) \cup {x}) <= Cardinality(S)
    BY <2>1, FS_Subset
  <2> QED
    BY <1>1, <1>2, <2>2, <2>3
<1>4. ASSUME NEW x \in S, NEW y \in S, <<x, y>> \in R
      PROVE  Cardinality(Below(R, S, x)) < Cardinality(Below(R, S, y))
  <2>1. x \notin Below(R, S, x) /\ Below(R, S, x) \cup {x} \in SUBSET Below(R, S, y)
    BY <1>4 DEF Below, IsStrictOrder
  <2>2. Cardinality(Below(R, S, x) \cup {x}) = Cardinality(Below(R, S, x)) + 1
    BY <1>2, <2>1, FS_AddElement
  <2>3. Cardinality(Below(R, S, x) \cup {x}) <= Cardinality(Below(R, S, y))
    BY <1>2, <2>1, FS_Subset
  <2> QED
    BY <1>2, <2>2, <2>3
<1>5. ASSUME NEW x \in S, NEW y \in S,
             Cardinality(Below(R, S, x)) = Cardinality(Below(R, S, y))
      PROVE  x = y
  <2>1. <<x, y>> \notin R /\ <<y, x>> \notin R
    <3>1. ~(Cardinality(Below(R, S, x)) < Cardinality(Below(R, S, y)))
          /\ ~(Cardinality(Below(R, S, y)) < Cardinality(Below(R, S, x)))
      BY <1>2, <1>5
    <3> QED
      BY <1>4, <3>1
  <2> QED
    BY <2>1 DEF IsStrictOrder
<1>6. ASSUME NEW i \in 1 .. Cardinality(S)
      PROVE  \E x \in S : Cardinality(Below(R, S, x)) + 1 = i
  <2> DEFINE T == 1 .. Cardinality(S)
             f == [x \in S |-> Cardinality(Below(R, S, x)) + 1]
  <2>1. f \in Injection(S, T)
    BY <1>2, <1>3, <1>5 DEF Injection, IsInjective
  <2>2. IsFiniteSet(T) /\ Cardinality(T) = Cardinality(S)
    BY <1>1, FS_Interval
  <2>3. f \in Surjection(S, T)
    BY <2>1, <2>2, FS_Injection
  <2> QED
    BY <2>3 DEF Surjection
<1> QED
  BY <1>3, <1>5, <1>6

\* A finite set that is not empty has a first element.
LEMMA FirstExists ==
  ASSUME NEW S, IsFiniteSet(S), S # {}, NEW R, IsStrictOrder(R, S)
  PROVE  \E x \in S : \A y \in S : y = x \/ <<x, y>> \in R
<1>1. Cardinality(S) \in Nat /\ Cardinality(S) # 0
  BY FS_CardinalityType, FS_EmptySet
<1>2. PICK x \in S : Cardinality(Below(R, S, x)) + 1 = 1
  BY <1>1, PlacesAreTaken
<1>3. IsFiniteSet(Below(R, S, x)) /\ Cardinality(Below(R, S, x)) \in Nat
  BY FS_Subset, FS_CardinalityType DEF Below
<1>4. Below(R, S, x) = {}
  BY <1>2, <1>3, FS_EmptySet
<1> QED
  BY <1>4 DEF Below, IsStrictOrder

-----------------------------------------------------------------------------
(* The two sorts of the manager.                                           *)

\* What is printed of a value is a number; printing never swaps two values, and
\* the value read back from a name prints as that name.
LEMMA Rounding ==
  /\ \A v \in Int : Printed(v) \in Int /\ Parsed(v) \in Int /\ Printed(Parsed(v)) = v
  /\ \A v, w \in Int : Better(Printed(v), Printed(w)) => Better(v, w)
BY DEF Printed, Parsed, Better

\* A path is its step and its printed value.
LEMMA PathFields ==
  /\ \A p \in Paths : p.epoch \in 1 .. MaxEpochs /\ p.epoch \in Int /\ p.printed \in Int
  /\ \A p, q \in Paths : p.epoch = q.epoch /\ p.printed = q.printed => p = q
BY Rounding, SizesAssumption DEF Paths

BeforeOn(S) == {x \in S \X S : Before(x[1], x[2])}

\* Sorting by (value, path) is a total order of the metric files.
LEMMA BeforeOrders ==
  ASSUME NEW S \in SUBSET Paths
  PROVE  IsStrictOrder(BeforeOn(S), S)
<1> USE DirectionAssumption, PathFields DEF Before, Better
<1>1. \A p, q \in S : <<p, q>> \in BeforeOn(S) <=> Before(p, q)
  BY DEF BeforeOn
<1>2. \A p \in S : ~Before(p, p)
  OBVIOUS
<1>3. ASSUME NEW p \in S, NEW q \in S, NEW r \in S, Before(p, q), Before(q, r)
      PROVE  Before(p, r)
  BY <1>3
<1>4. ASSUME NEW p \in S, NEW q \in S, p # q
      PROVE  Before(p, q) \/ Before(q, p)
  <2>1. p.epoch # q.epoch \/ p.printed # q.printed
    BY <1>4
  <2> QED
    BY <2>1
<1> QED
  BY <1>1, <1>2, <1>3, <1>4 DEF IsStrictOrder

\* The sorted candidates list every metric file once, and none comes before one
\* that is listed earlier.
LEMMA RankedLists ==
  ASSUME DOMAIN files \subseteq Paths, IsFiniteSet(DOMAIN files)
  PROVE  /\ Cardinality(DOMAIN files) \in Nat
         /\ Ranked \in Seq(DOMAIN files) /\ Len(Ranked) = Cardinality(DOMAIN files)
         /\ \A i, j \in DOMAIN Ranked : Ranked[i] = Ranked[j] => i = j
         /\ \A p \in DOMAIN files : \E i \in DOMAIN Ranked : Ranked[i] = p
         /\ DOMAIN files # {} =>
              /\ 1 \in DOMAIN Ranked
              /\ \A p \in DOMAIN files : ~Before(p, Ranked[1])
<1> DEFINE F == DOMAIN files
<1>1. IsStrictOrder(BeforeOn(F), F)
  BY BeforeOrders
<1>2. \A p \in F : Below(BeforeOn(F), F, p) = {q \in F : Before(q, p)}
  BY DEF Below, BeforeOn
<1>3. \A p \in F : Place(p) = Cardinality(Below(BeforeOn(F), F, p)) + 1
  BY <1>2 DEF Place
<1>4. /\ \A p \in F : Place(p) \in 1 .. Cardinality(F)
      /\ \A i \in 1 .. Cardinality(F) : \E p \in F : Place(p) = i
  BY <1>1, <1>3, PlacesAreTaken
<1>5. Cardinality(F) \in Nat
  BY FS_CardinalityType
<1>6. \A p \in F : IsFiniteSet(Below(BeforeOn(F), F, p))
                   /\ Cardinality(Below(BeforeOn(F), F, p)) \in Nat
  BY FS_Subset, FS_CardinalityType DEF Below
<1>7. ASSUME NEW p \in F, NEW q \in F, Place(p) = Place(q)
      PROVE  p = q
  <2>1. Cardinality(Below(BeforeOn(F), F, p)) = Cardinality(Below(BeforeOn(F), F, q))
    BY <1>3, <1>6, <1>7
  <2> QED
    BY <1>1, <2>1, PlacesAreTaken
<1>8. \A i \in 1 .. Cardinality(F) : Ranked[i] \in F /\ Place(Ranked[i]) = i
  BY <1>4 DEF Ranked
<1>9. Ranked \in Seq(F) /\ Len(Ranked) = Cardinality(F) /\ DOMAIN Ranked = 1 .. Cardinality(F)
  BY <1>5, <1>8 DEF Ranked
<1>10. ASSUME F # {}
       PROVE  1 \in DOMAIN Ranked /\ \A p \in F : ~Before(p, Ranked[1])
  <2>1. Cardinality(F) # 0
    BY <1>10, FS_EmptySet
  <2>2. 1 \in DOMAIN Ranked /\ Ranked[1] \in F /\ Place(Ranked[1]) = 1
    BY <1>5, <1>8, <1>9, <2>1
  <2>3. Below(BeforeOn(F), F, Ranked[1]) = {}
    BY <1>3, <1>6, <2>2, FS_EmptySet
  <2> QED
    BY <1>2, <2>2, <2>3
<1> QED
  BY <1>4, <1>5, <1>7, <1>8, <1>9, <1>10

-----------------------------------------------------------------------------
(* The manager's table.                                                    *)

Entries == [path : Paths, value : Int]

\* path_value_map as a table: a path occurs once, with a value that prints as
\* the one in its name.
Table(m) ==
  /\ m \in Seq(Entries)
  /\ \A i, j \in DOMAIN m : m[i].path = m[j].path => i = j
  /\ \A i \in DOMAIN m : Printed(m[i].value) = m[i].path.printed

\* The entries of a table have a path and a number.
LEMMA TableEntries ==
  ASSUME NEW m \in Seq(Entries)
  PROVE  /\ Len(m) \in Nat /\ DOMAIN m = 1 .. Len(m)
         /\ \A i \in DOMAIN m : m[i] \in Entries /\ m[i].path \in Paths /\ m[i].value \in Int
<1>1. \A i \in DOMAIN m : m[i] \in Entries
  BY ElementOfSeq, LenProperties
<1> QED
  BY <1>1, LenProperties DEF Entries

\* What a new manager finds: at most k files, all that exist if there are fewer,
\* and always one that no file is better than.
LEMMA RestoredTable ==
  ASSUME DOMAIN files \subseteq Paths, IsFiniteSet(DOMAIN files), k \in Nat \ {0}
  PROVE  /\ Table(Restored) /\ Len(Restored) \in Nat /\ Len(Restored) <= k
         /\ KnownPaths(Restored) \subseteq DOMAIN files
         /\ \A p \in DOMAIN files : \E q \in KnownPaths(Restored) : ~Better(p.printed, q.printed)
<1> DEFINE n == IF Len(Ranked) < k THEN Len(Ranked) ELSE k
<1>1. n \in Nat /\ n <= k /\ n <= Len(Ranked) /\ Ranked \in Seq(DOMAIN files)
  BY RankedLists
<1>2. FirstRanked = SubSeq(Ranked, 1, n)
  BY DEF FirstRanked
<1>3. /\ FirstRanked \in Seq(DOMAIN files) /\ Len(FirstRanked) = n /\ DOMAIN FirstRanked = 1 .. n
      /\ \A i \in 1 .. n : FirstRanked[i] = Ranked[i] /\ i \in DOMAIN Ranked
  BY <1>1, <1>2
<1>4. /\ DOMAIN Restored = 1 .. n
      /\ \A i \in 1 .. n : Restored[i] = [path |-> Ranked[i], value |-> Parsed(Ranked[i].printed)]
  BY <1>3 DEF Restored
<1>5. \A i \in 1 .. n : /\ Ranked[i] \in DOMAIN files /\ Ranked[i] \in Paths
                        /\ Restored[i].path = Ranked[i]
                        /\ Restored[i] \in Entries
                        /\ Printed(Restored[i].value) = Restored[i].path.printed
  <2> TAKE i \in 1 .. n
  <2>1. Ranked[i] \in DOMAIN files /\ Ranked[i] \in Paths
    BY <1>1, <1>3, ElementOfSeq, LenProperties
  <2>2. Ranked[i].printed \in Int
    BY <2>1, PathFields
  <2>3. Restored[i] = [path |-> Ranked[i], value |-> Parsed(Ranked[i].printed)]
    BY <1>4
  <2>4. Parsed(Ranked[i].printed) \in Int /\ Printed(Parsed(Ranked[i].printed)) = Ranked[i].printed
    BY <2>2, Rounding
  <2> QED
    BY <2>1, <2>3, <2>4 DEF Entries
<1>6. Restored \in Seq(Entries) /\ Len(Restored) = n
  <2>1. Restored \in [1 .. n -> Entries]
    BY <1>4, <1>5 DEF Restored
  <2> QED
    BY <1>1, <2>1, SeqDef
<1>7. \A i, j \in 1 .. n : Restored[i].path = Restored[j].path => i = j
  BY <1>3, <1>5, RankedLists
<1>8. ASSUME NEW p \in DOMAIN files
      PROVE  \E q \in KnownPaths(Restored) : ~Better(p.printed, q.printed)
  <2>1. 1 \in 1 .. n /\ ~Before(p, Ranked[1])
    BY <1>1, RankedLists
  <2>2. Restored[1].path = Ranked[1] /\ Ranked[1] \in KnownPaths(Restored)
    BY <1>4, <1>5, <2>1 DEF KnownPaths
  <2> QED
    BY <2>1, <2>2 DEF Before
<1> QED
  <2>1. Table(Restored)
    BY <1>4, <1>5, <1>6, <1>7 DEF Table
  <2>2. KnownPaths(Restored) \subseteq DOMAIN files
    BY <1>4, <1>5 DEF KnownPaths
  <2> QED
    BY <1>1, <1>6, <1>8, <2>1, <2>2

\* Sorting by value, with the place in the table for equal values, is a total
\* order; the entry at its losing end exists and is not better than any other.
LEMMA WorstExists ==
  ASSUME NEW m, Table(m), m # <<>>
  PROVE  /\ WorstAt(m) \in DOMAIN m
         /\ \A j \in DOMAIN m : ~Better(m[WorstAt(m)].value, m[j].value)
<1> DEFINE Loses(i, j) == \/ Better(m[j].value, m[i].value)
                          \/ m[j].value = m[i].value /\ (IF Maximize THEN i < j ELSE j < i)
           R == {x \in (DOMAIN m) \X (DOMAIN m) : Loses(x[1], x[2])}
<1>1. DOMAIN m = 1 .. Len(m) /\ Len(m) \in Nat /\ DOMAIN m # {} /\ IsFiniteSet(DOMAIN m)
  BY FS_Interval DEF Table
<1>2. \A i \in DOMAIN m : m[i].value \in Int /\ i \in Int
  BY <1>1, TableEntries DEF Table
<1>3. IsStrictOrder(R, DOMAIN m)
  <2>1. \A i, j \in DOMAIN m : <<i, j>> \in R <=> Loses(i, j)
    OBVIOUS
  <2>2. \A i \in DOMAIN m : ~Loses(i, i)
    BY <1>2, DirectionAssumption DEF Better
  <2>3. \A h, i, j \in DOMAIN m : Loses(h, i) /\ Loses(i, j) => Loses(h, j)
    BY <1>2, DirectionAssumption DEF Better
  <2>4. \A i, j \in DOMAIN m : i = j \/ Loses(i, j) \/ Loses(j, i)
    BY <1>2, DirectionAssumption DEF Better
  <2> HIDE DEF Loses, R
  <2> QED
    BY <2>1, <2>2, <2>3, <2>4 DEF IsStrictOrder
<1>4. PICK i \in DOMAIN m : \A j \in DOMAIN m : j = i \/ <<i, j>> \in R
  <2> HIDE DEF R
  <2> QED
    BY <1>1, <1>3, FirstExists
<1>5. \A j \in DOMAIN m :
        \/ Better(m[j].value, m[i].value)
        \/ m[j].value = m[i].value /\ (IF Maximize THEN i <= j ELSE j <= i)
  <2> TAKE j \in DOMAIN m
  <2>1. j = i \/ Loses(i, j)
    BY <1>4
  <2> QED
    BY <1>2, <2>1
<1>6. LET w == WorstAt(m) IN
      /\ w \in DOMAIN m
      /\ \A j \in DOMAIN m :
        \/ Better(m[j].value, m[w].value)
        \/ m[j].value = m[w].value /\ (IF Maximize THEN w <= j ELSE j <= w)
  BY <1>5 DEF WorstAt
<1> QED
  BY <1>2, <1>6 DEF Better

\* Dropping an entry leaves a table of the other paths.
LEMMA EvictTable ==
  ASSUME NEW m, Table(m), m # <<>>
  PROVE  /\ Table(Evict(m)) /\ Len(Evict(m)) = Len(m) - 1
         /\ KnownPaths(Evict(m)) = KnownPaths(m) \ {m[WorstAt(m)].path}
<1> DEFINE w == WorstAt(m)
           e == Evict(m)
<1>1. w \in 1 .. Len(m) /\ Len(m) \in Nat /\ DOMAIN m = 1 .. Len(m)
  BY WorstExists DEF Table
<1> HIDE DEF w
<1> DEFINE a == SubSeq(m, 1, w - 1)
           b == SubSeq(m, w + 1, Len(m))
<1>2. e = a \o b
  BY DEF Evict, RemoveAt, w
<1>3. /\ a \in Seq(Entries) /\ Len(a) = w - 1
      /\ b \in Seq(Entries) /\ Len(b) = Len(m) - w
      /\ \A i \in 1 .. Len(a) : a[i] = m[i]
      /\ \A i \in 1 .. Len(b) : b[i] = m[w + i]
  <2>1. \A i \in 1 .. Len(m) : m[i] \in Entries
    BY TableEntries DEF Table
  <2>2. a \in Seq(Entries) /\ Len(a) = w - 1 /\ \A i \in 1 .. w - 1 : a[i] = m[i]
    <3>1. \A i \in 1 .. w - 1 : m[i] \in Entries
      BY <1>1, <2>1
    <3> QED
      BY <1>1, <3>1, SubSeqProperties, Z3
  <2>3. \A i \in w + 1 .. Len(m) : m[i] \in Entries
    BY <1>1, <2>1
  <2>4. /\ b \in Seq(Entries)
        /\ Len(b) = IF w + 1 <= Len(m) THEN Len(m) - (w + 1) + 1 ELSE 0
        /\ \A i \in 1 .. Len(m) - (w + 1) + 1 : b[i] = m[(w + 1) + i - 1]
    BY <1>1, <2>3, SubSeqProperties
  <2> HIDE DEF a, b
  <2>5. Len(b) = Len(m) - w /\ Len(m) - (w + 1) + 1 = Len(m) - w
    <3>1. w \in Int /\ Len(m) \in Int /\ w <= Len(m)
      BY <1>1
    <3>2. Len(b) = IF w + 1 <= Len(m) THEN Len(m) - (w + 1) + 1 ELSE 0
      BY <2>4
    <3> QED
      BY <3>1, <3>2
  <2>6. \A i \in 1 .. Len(b) : b[i] = m[w + i]
    <3> TAKE i \in 1 .. Len(b)
    <3>1. (w + 1) + i - 1 = w + i /\ i \in 1 .. Len(m) - (w + 1) + 1
      BY <1>1, <2>5
    <3> QED
      BY <2>4, <3>1
  <2> QED
    BY <2>2, <2>4, <2>5, <2>6
<1> HIDE DEF a, b, e
<1>4. e \in Seq(Entries) /\ Len(e) = Len(m) - 1 /\ DOMAIN e = 1 .. Len(m) - 1
  <2>1. e \in Seq(Entries) /\ Len(e) = Len(a) + Len(b)
    BY <1>2, <1>3, ConcatProperties
  <2> QED
    BY <1>1, <1>3, <2>1, LenProperties
<1>5. \A i \in 1 .. Len(m) - 1 : e[i] = m[IF i < w THEN i ELSE i + 1]
  <2> TAKE i \in 1 .. Len(m) - 1
  <2>1. i \in 1 .. Len(a) + Len(b)
    BY <1>1, <1>3
  <2>2. e[i] = IF i <= Len(a) THEN a[i] ELSE b[i - Len(a)]
    BY <1>2, <1>3, <2>1, ConcatProperties
  <2>3. CASE i < w
    BY <1>1, <1>3, <2>2, <2>3
  <2>4. CASE i >= w
    <3>1. i - Len(a) \in 1 .. Len(b) /\ w + (i - Len(a)) = i + 1 /\ ~(i <= Len(a))
      BY <1>1, <1>3, <2>4
    <3>2. b[i - Len(a)] = m[w + (i - Len(a))]
      BY <1>3, <3>1
    <3> QED
      BY <1>1, <2>2, <2>4, <3>1, <3>2
  <2> QED
    BY <1>1, <2>3, <2>4
<1>6. Table(e)
  <2>1. \A i \in DOMAIN e : (IF i < w THEN i ELSE i + 1) \in DOMAIN m
    BY <1>1, <1>4
  <2>2. \A i \in DOMAIN e : Printed(e[i].value) = e[i].path.printed
    BY <1>4, <1>5, <2>1 DEF Table
  <2>3. ASSUME NEW i \in DOMAIN e, NEW j \in DOMAIN e, e[i].path = e[j].path
        PROVE  i = j
    <3>1. (IF i < w THEN i ELSE i + 1) = (IF j < w THEN j ELSE j + 1)
      BY <1>4, <1>5, <2>1, <2>3 DEF Table
    <3> QED
      BY <1>1, <1>4, <3>1
  <2> QED
    BY <1>4, <2>2, <2>3 DEF Table
<1>7. ASSUME NEW p
      PROVE  p \in KnownPaths(e) <=> p \in KnownPaths(m) /\ p # m[w].path
  <2>1. ASSUME NEW i \in DOMAIN e, p = e[i].path
        PROVE  p \in KnownPaths(m) /\ p # m[w].path
    BY <1>1, <1>4, <1>5, <2>1 DEF KnownPaths, Table
  <2>2. ASSUME NEW i \in DOMAIN m, p = m[i].path, i # w
        PROVE  p \in KnownPaths(e)
    <3>1. (IF i < w THEN i ELSE i - 1) \in DOMAIN e
      BY <1>1, <1>4, <2>2
    <3>2. e[IF i < w THEN i ELSE i - 1] = m[i]
      BY <1>1, <1>4, <1>5, <2>2, <3>1
    <3> QED
      BY <2>2, <3>1, <3>2 DEF KnownPaths
  <2> QED
    BY <2>1, <2>2 DEF KnownPaths
<1> QED
  BY <1>4, <1>6, <1>7 DEF e, w

\* Recording a value adds its path, or gives a path that is there a new value.
LEMMA PutTable ==
  ASSUME NEW m, Table(m), NEW path \in Paths, NEW v \in Int, Printed(v) = path.printed
  PROVE  /\ Table(Put(m, path, v))
         /\ Len(Put(m, path, v)) \in Nat /\ Len(Put(m, path, v)) <= Len(m) + 1
         /\ KnownPaths(Put(m, path, v)) = KnownPaths(m) \cup {path}
<1> DEFINE x == [path |-> path, value |-> v]
           r == Put(m, path, v)
<1>0. x \in Entries /\ x.path = path /\ x.value = v
  BY DEF Entries
<1> HIDE DEF x
<1>1. CASE path \in KnownPaths(m)
  <2>1. r = [i \in DOMAIN m |-> IF m[i].path = path THEN x ELSE m[i]]
    BY <1>1 DEF Put, x
  <2>2. DOMAIN r = DOMAIN m /\ \A i \in DOMAIN m : r[i] = IF m[i].path = path THEN x ELSE m[i]
    BY <2>1
  <2>3. r \in Seq(Entries) /\ Len(r) = Len(m)
    BY <1>0, <2>1 DEF Table
  <2> HIDE DEF r
  <2>4. \A i \in DOMAIN m : r[i].path = m[i].path /\ Printed(r[i].value) = r[i].path.printed
    BY <1>0, <2>2 DEF Table
  <2>5. Table(r)
    BY <2>2, <2>3, <2>4 DEF Table
  <2>6. KnownPaths(r) = KnownPaths(m)
    BY <2>2, <2>4 DEF KnownPaths
  <2> QED
    BY <1>1, <2>3, <2>5, <2>6 DEF r, Table
<1>2. CASE path \notin KnownPaths(m)
  <2>1. r = Append(m, x)
    BY <1>2 DEF Put, x
  <2>2. /\ r \in Seq(Entries) /\ Len(r) = Len(m) + 1
        /\ DOMAIN r = 1 .. Len(m) + 1 /\ DOMAIN m = 1 .. Len(m) /\ Len(m) \in Nat
        /\ \A i \in 1 .. Len(m) : r[i] = m[i]
        /\ r[Len(m) + 1] = x
    BY <1>0, <2>1 DEF Table
  <2> HIDE DEF r
  <2>3. \A i \in DOMAIN m : m[i].path # path
    BY <1>2 DEF KnownPaths
  <2>4. Table(r)
    BY <1>0, <2>2, <2>3 DEF Table
  <2>5. KnownPaths(r) = KnownPaths(m) \cup {path}
    <3>1. \A i \in DOMAIN m : i \in DOMAIN r /\ r[i].path = m[i].path
      BY <2>2
    <3>2. Len(m) + 1 \in DOMAIN r /\ r[Len(m) + 1].path = path
      BY <1>0, <2>2
    <3>3. \A i \in DOMAIN r : i \in DOMAIN m \/ i = Len(m) + 1
      BY <2>2
    <3> QED
      BY <3>1, <3>2, <3>3 DEF KnownPaths
  <2> QED
    BY <2>2, <2>4, <2>5 DEF r
<1> QED
  BY <1>1, <1>2

-----------------------------------------------------------------------------
(* The inductive invariant.                                                *)

Targets == {target[i] : i \in DOMAIN target}

\* The disk: every metric file has an inode with what its name tells.
DiskInv ==
  /\ data \in Seq(Payloads)
  /\ files \in [DOMAIN files -> DOMAIN data]
  /\ IsFiniteSet(DOMAIN files)
  /\ NamesTellContents

\* A save in progress: the chosen file is not there yet, or is that of the same
\* step and value, and gets the latest payload.
SaveInv ==
  /\ target \in Seq(Paths)
  /\ phase # "train" => epoch \in 1 .. MaxEpochs
  /\ phase \in {"train", "choose"} => target = <<>>
  /\ phase = "copy" => /\ target # <<>> /\ latest \in DOMAIN data
                       /\ data[latest] = [epoch |-> epoch, value |-> value]
  /\ target # <<>> => target = <<[epoch |-> epoch, printed |-> Printed(value)]>>

\* The manager knows the files there are and the one that is being saved.
ManagerInv ==
  /\ Table(map)
  /\ phase \in {"save", "copy"} => loaded
  /\ loaded => KnownPaths(map) = DOMAIN files \cup Targets

IInv == TypeOK /\ DiskInv /\ SaveInv /\ ManagerInv

\* The printed part of a path that is being saved is one of the run's.
LEMMA PathOfStep ==
  ASSUME NEW e \in 1 .. MaxEpochs, NEW v \in Values
  PROVE  [epoch |-> e, printed |-> Printed(v)] \in Paths
BY DEF Paths

\* Deleting files leaves a directory as it was without them.
LEMMA WithoutFiles ==
  ASSUME NEW D, files \in [DOMAIN files -> DOMAIN data], IsFiniteSet(DOMAIN files)
  PROVE  /\ Without(D) \in [DOMAIN files \ D -> DOMAIN data]
         /\ DOMAIN Without(D) = DOMAIN files \ D
         /\ IsFiniteSet(DOMAIN files \ D)
         /\ \A p \in DOMAIN files \ D : Without(D)[p] = files[p]
BY FS_Difference DEF Without

\* What the manager knows when it is asked for a path: a table of at most k of
\* the files there are, with one that no file is better than.
LEMMA KnownTable ==
  ASSUME IInv, phase = "choose"
  PROVE  /\ Table(Known) /\ Len(Known) \in Nat /\ Len(Known) <= k
         /\ KnownPaths(Known) \subseteq DOMAIN files
         /\ \A p \in DOMAIN files : \E q \in KnownPaths(Known) : ~Better(p.printed, q.printed)
<1>1. k \in Nat \ {0} /\ DOMAIN files \subseteq Paths
  BY SizesAssumption DEF IInv, TypeOK
<1>2. CASE loaded
  <2>1. Known = map /\ KnownPaths(map) = DOMAIN files
    BY <1>2 DEF Known, IInv, SaveInv, ManagerInv, Targets
  <2>2. \A p \in DOMAIN files : ~Better(p.printed, p.printed)
    BY <1>1, PathFields, DirectionAssumption DEF Better
  <2> QED
    BY <2>1, <2>2, LenProperties DEF IInv, TypeOK, ManagerInv, Table
<1>3. CASE ~loaded
  BY <1>1, <1>3, RestoredTable DEF Known, IInv, DiskInv
<1> QED
  BY <1>2, <1>3

\* The directory is empty and nothing is known when the run starts.
LEMMA InitInv == Init => IInv
<1> SUFFICES ASSUME Init PROVE IInv
  OBVIOUS
<1> USE DEF Init, disk
<1>0. DOMAIN files = {} /\ DOMAIN map = {} /\ DOMAIN target = {} /\ DOMAIN data = {}
      /\ Len(map) = 0 /\ Len(target) = 0 /\ Len(data) = 0
  OBVIOUS
<1>1. TypeOK
  <2>1. k \in Nat /\ KnownPaths(map) = {}
    BY <1>0, SizesAssumption DEF KnownPaths
  <2> QED
    <3>1. k \in Ks /\ Len(map) <= k /\ KnownPaths(map) \subseteq Paths
      BY <1>0, <2>1
    <3>2. (\A i \in DOMAIN data : data[i] \in Payloads) /\ latest \in 0 .. Len(data)
      BY <1>0
    <3>3. DOMAIN files \subseteq kept /\ kept \subseteq Paths
      BY <1>0
    <3>4. Len(target) <= 1 /\ \A i \in DOMAIN target : target[i] \in Paths
      BY <1>0
    <3>5. epoch \in 0 .. MaxEpochs /\ value \in Scores /\ restarts \in 0 .. MaxRestarts
      BY SizesAssumption DEF Scores
    <3> QED
      BY <3>1, <3>2, <3>3, <3>4, <3>5 DEF TypeOK
<1>2. DiskInv
  BY <1>0, EmptySeq, FS_EmptySet DEF DiskInv, NamesTellContents
<1>3. SaveInv
  BY EmptySeq DEF SaveInv
<1>4. ManagerInv
  BY <1>0, EmptySeq DEF ManagerInv, Table
<1> QED
  BY <1>1, <1>2, <1>3, <1>4 DEF IInv

\* A step that ends names its number and metric; nothing else moves.
LEMMA FinishStepKeeps == IInv /\ FinishStep => IInv'
<1> SUFFICES ASSUME IInv, FinishStep PROVE IInv'
  OBVIOUS
<1> USE DEF FinishStep, disk
<1>1. TypeOK'
  BY SizesAssumption DEF IInv, TypeOK, KnownPaths
<1>2. DiskInv'
  BY DEF IInv, DiskInv, NamesTellContents
<1>3. SaveInv'
  BY SizesAssumption DEF IInv, TypeOK, SaveInv
<1>4. ManagerInv'
  BY DEF IInv, ManagerInv, Targets, KnownPaths
<1> QED
  BY <1>1, <1>2, <1>3, <1>4 DEF IInv

\* Choosing a path deletes the files that are not in the table any more and no
\* other, so table and directory differ in the path to be saved only.
LEMMA ChoosePathKeeps == IInv /\ ChoosePath => IInv'
<1> SUFFICES ASSUME IInv, ChoosePath PROVE IInv'
  OBVIOUS
<1> DEFINE path == [epoch |-> epoch, printed |-> Printed(value)]
           room == Len(Known) < k
           worst == Known[WorstAt(Known)]
           pruned == DOMAIN files \ KnownPaths(Known)
<1>0. phase = "choose"
  BY DEF ChoosePath
<1>1. /\ Table(Known) /\ Len(Known) \in Nat /\ Len(Known) <= k
      /\ KnownPaths(Known) \subseteq DOMAIN files
  BY <1>0, KnownTable
<1>2. k \in Nat \ {0} /\ DOMAIN files \subseteq Paths
  BY SizesAssumption DEF IInv, TypeOK
<1>3. value # Unscored => value \in Values /\ value \in Int /\ path \in Paths /\ path.printed = Printed(value)
  BY <1>0, PathOfStep, SizesAssumption DEF IInv, TypeOK, Scores, SaveInv
<1>4. PICK D : files' = Without(D)
  BY DEF ChoosePath
<1>d. files \in [DOMAIN files -> DOMAIN data] /\ IsFiniteSet(DOMAIN files)
  BY DEF IInv, DiskInv
<1>w. ASSUME NEW E
      PROVE  /\ Without(E) \in [DOMAIN files \ E -> DOMAIN data]
             /\ DOMAIN Without(E) = DOMAIN files \ E
             /\ IsFiniteSet(DOMAIN files \ E)
             /\ \A p \in DOMAIN files \ E : Without(E)[p] = files[p]
  BY <1>d, WithoutFiles
<1>5. /\ DOMAIN files' \subseteq DOMAIN files /\ IsFiniteSet(DOMAIN files')
      /\ files' \in [DOMAIN files' -> DOMAIN data]
      /\ \A p \in DOMAIN files' : files'[p] = files[p]
  BY <1>4, <1>w
<1>6. /\ Table(map') /\ Len(map') \in Nat /\ Len(map') <= k
      /\ target' \in {<<>>, <<path>>}
      /\ target' # <<>> => value # Unscored
      /\ KnownPaths(map') = DOMAIN files' \cup {target'[i] : i \in DOMAIN target'}
  <2>0. DOMAIN <<>> = {} /\ {<<path>>[i] : i \in DOMAIN <<path>>} = {path}
    OBVIOUS
  <2>p. DOMAIN Without(pruned) = DOMAIN files \ pruned
    BY <1>w
  <2>1. CASE map' = Known /\ target' = <<>> /\ files' = Without(pruned)
    <3>1. DOMAIN files' = KnownPaths(Known)
      BY <1>1, <2>1, <2>p
    <3> QED
      BY <1>1, <2>0, <2>1, <3>1
  <2>2. CASE /\ value # Unscored /\ room
             /\ map' = Put(Known, path, value) /\ target' = <<path>> /\ files' = Without(pruned)
    <3>1. DOMAIN files' = KnownPaths(Known)
      BY <1>1, <2>2, <2>p
    <3>2. /\ Table(map') /\ Len(map') \in Nat /\ Len(map') <= Len(Known) + 1
          /\ KnownPaths(map') = KnownPaths(Known) \cup {path}
      BY <1>1, <1>3, <2>2, PutTable
    <3> HIDE DEF path
    <3> QED
      BY <1>1, <1>2, <2>0, <2>2, <3>1, <3>2
  <2>3. CASE /\ value # Unscored /\ ~room
             /\ map' = Put(Evict(Known), path, value) /\ target' = <<path>>
             /\ files' = Without(pruned \cup {worst.path})
    <3>0. Known # <<>> /\ Len(Known) = k
      BY <1>1, <1>2, <2>3
    <3>1. DOMAIN files' = KnownPaths(Known) \ {worst.path}
      <4>1. DOMAIN Without(pruned \cup {worst.path}) = DOMAIN files \ (pruned \cup {worst.path})
        BY <1>w
      <4> QED
        BY <1>1, <2>3, <4>1
    <3>2. /\ Table(Evict(Known)) /\ Len(Evict(Known)) = k - 1
          /\ KnownPaths(Evict(Known)) = KnownPaths(Known) \ {worst.path}
      BY <1>1, <3>0, EvictTable
    <3>3. /\ Table(map') /\ Len(map') \in Nat /\ Len(map') <= (k - 1) + 1
          /\ KnownPaths(map') = KnownPaths(Evict(Known)) \cup {path}
      BY <1>3, <2>3, <3>2, PutTable
    <3> HIDE DEF path, worst
    <3> QED
      BY <1>2, <2>0, <2>3, <3>1, <3>2, <3>3
  <2> QED
    BY <2>1, <2>2, <2>3 DEF ChoosePath
<1> HIDE DEF path
<1>7. target' \in Seq(Paths) /\ Len(target') <= 1 /\ \A i \in DOMAIN target' : target'[i] \in Paths
  <2>1. CASE target' = <<>>
    BY <2>1, EmptySeq
  <2>2. CASE target' = <<path>>
    <3>1. path \in Paths
      BY <1>3, <1>6, <2>2
    <3> QED
      BY <2>2, <3>1
  <2> QED
    BY <1>6, <2>1, <2>2
<1>8. TypeOK'
  <2>1. KnownPaths(map') \subseteq Paths
    BY <1>2, <1>5, <1>6, <1>7
  <2> QED
    BY <1>5, <1>6, <1>7, <2>1 DEF IInv, TypeOK, ChoosePath, KnownPaths
<1>9. DiskInv'
  BY <1>5 DEF IInv, DiskInv, NamesTellContents, ChoosePath
<1>10. SaveInv'
  BY <1>6, <1>7 DEF IInv, SaveInv, ChoosePath, path
<1>11. ManagerInv'
  BY <1>6 DEF ManagerInv, Targets, KnownPaths, ChoosePath
<1> QED
  BY <1>8, <1>9, <1>10, <1>11 DEF IInv

\* A new inode gets the step's payload; older ones, linked or not, keep theirs.
LEMMA SaveLatestKeeps == IInv /\ SaveLatest => IInv'
<1> SUFFICES ASSUME IInv, SaveLatest PROVE IInv'
  OBVIOUS
<1> DEFINE x == [epoch |-> epoch, value |-> value]
<1>1. x \in Payloads /\ phase = "save" /\ epoch \in 1 .. MaxEpochs
  BY DEF IInv, TypeOK, SaveInv, SaveLatest, Payloads
<1>2. data \in Seq(Payloads) /\ Len(data) \in Nat /\ DOMAIN data = 1 .. Len(data)
  BY LenProperties DEF IInv, DiskInv
<1> HIDE DEF x
<1>3. data' = Append(data, x) /\ latest' = Len(data) + 1
  BY DEF SaveLatest, x
<1>4. /\ data' \in Seq(Payloads) /\ Len(data') = Len(data) + 1
      /\ DOMAIN data' = 1 .. Len(data) + 1
      /\ data'[Len(data) + 1] = x
      /\ \A i \in DOMAIN data : i \in DOMAIN data' /\ data'[i] = data[i]
  BY <1>1, <1>2, <1>3, AppendProperties, LenProperties
<1>5. TypeOK'
  <2>1. \A i \in DOMAIN data' : data'[i] \in Payloads
    BY <1>4, ElementOfSeq, LenProperties
  <2>2. latest' \in 0 .. Len(data') /\ phase' \in {"train", "copy"}
    BY <1>2, <1>3, <1>4 DEF SaveLatest, AfterSave
  <2> QED
    BY <2>1, <2>2 DEF IInv, TypeOK, SaveLatest, KnownPaths
<1>6. DiskInv'
  <2>1. files' = files /\ \A p \in DOMAIN files : files[p] \in DOMAIN data
    BY DEF SaveLatest, IInv, DiskInv
  <2>2. files' \in [DOMAIN files' -> DOMAIN data']
    BY <1>4, <2>1 DEF IInv, DiskInv
  <2>3. NamesTellContents'
    BY <1>4, <2>1 DEF IInv, DiskInv, NamesTellContents
  <2> QED
    BY <1>4, <2>1, <2>2, <2>3 DEF IInv, DiskInv
<1>7. SaveInv'
  BY <1>1, <1>2, <1>3, <1>4 DEF IInv, SaveInv, SaveLatest, AfterSave, x
<1>8. ManagerInv'
  BY <1>1 DEF IInv, ManagerInv, Targets, KnownPaths, SaveLatest
<1> QED
  BY <1>5, <1>6, <1>7, <1>8 DEF IInv

\* The link gives the chosen path the payload its name tells.
LEMMA CopyKeeps == IInv /\ CopyToMetricPath => IInv'
<1> SUFFICES ASSUME IInv, CopyToMetricPath PROVE IInv'
  OBVIOUS
<1> DEFINE t == target[1]
<1>1. /\ t \in Paths /\ t = [epoch |-> epoch, printed |-> Printed(value)]
      /\ DOMAIN target = {1} /\ latest \in DOMAIN data
      /\ data[latest] = [epoch |-> epoch, value |-> value]
  BY DEF IInv, TypeOK, SaveInv, CopyToMetricPath
<1>2. DOMAIN files' = DOMAIN files \cup {t} /\ UNCHANGED <<data, map, latest, loaded, k>>
  BY DEF CopyToMetricPath
<1>3. \A p \in DOMAIN files' : files'[p] = IF p = t THEN latest ELSE files[p]
  BY DEF CopyToMetricPath
<1> HIDE DEF t
<1>4. IsFiniteSet(DOMAIN files')
  BY <1>2, FS_AddElement DEF IInv, DiskInv
<1>5. TypeOK'
  <2>1. DOMAIN files' \subseteq kept' /\ kept' \subseteq Paths
    BY <1>1, <1>2 DEF IInv, TypeOK, CopyToMetricPath, t
  <2>2. Len(target') <= 1 /\ \A i \in DOMAIN target' : target'[i] \in Paths
    BY DEF CopyToMetricPath
  <2> QED
    BY <2>1, <2>2 DEF IInv, TypeOK, CopyToMetricPath, KnownPaths
<1>6. DiskInv'
  <2>1. \A p \in DOMAIN files' : files'[p] \in DOMAIN data
    BY <1>1, <1>2, <1>3 DEF IInv, DiskInv
  <2>2. files' \in [DOMAIN files' -> DOMAIN data]
    <3>1. files' = [p \in DOMAIN files' |-> files'[p]]
      BY DEF CopyToMetricPath
    <3> QED
      BY <2>1, <3>1
  <2>3. NamesTellContents'
    BY <1>1, <1>2, <1>3 DEF IInv, DiskInv, NamesTellContents
  <2> QED
    BY <1>2, <1>4, <2>2, <2>3 DEF IInv, DiskInv
<1>7. SaveInv'
  BY EmptySeq DEF IInv, SaveInv, CopyToMetricPath
<1>8. ManagerInv'
  <2>1. Targets = {t} /\ Targets' = {}
    BY <1>1 DEF Targets, CopyToMetricPath, t
  <2>2. loaded /\ KnownPaths(map) = DOMAIN files \cup {t}
    BY <2>1 DEF IInv, ManagerInv, CopyToMetricPath
  <2> QED
    BY <1>2, <2>1, <2>2 DEF IInv, ManagerInv, CopyToMetricPath, KnownPaths
<1> QED
  BY <1>5, <1>6, <1>7, <1>8 DEF IInv

\* A stop loses the manager and the save in progress; the disk stays as it is.
LEMMA RestartKeeps == IInv /\ Restart => IInv'
<1> SUFFICES ASSUME IInv, Restart PROVE IInv'
  OBVIOUS
<1>1. UNCHANGED <<latest, files, data, kept>>
  BY DEF Restart, disk
<1>2. map' = <<>> /\ target' = <<>> /\ DOMAIN map' = {} /\ DOMAIN target' = {}
      /\ Len(map') = 0 /\ Len(target') = 0
  BY DEF Restart
<1>3. epoch' \in 0 .. MaxEpochs
  <2>1. PICK source \in {latest} \cup {files[p] : p \in DOMAIN files} :
          epoch' = IF source = 0 THEN 0 ELSE data[source].epoch
    BY DEF Restart
  <2>2. source = 0 \/ source \in DOMAIN data
    BY <2>1, LenProperties DEF IInv, TypeOK, DiskInv
  <2>3. source \in DOMAIN data => data[source].epoch \in 1 .. MaxEpochs
    BY DEF IInv, TypeOK, Payloads
  <2> QED
    BY <2>1, <2>2, <2>3, SizesAssumption
<1>4. TypeOK'
  <2>1. k' \in Ks /\ k' \in Nat /\ KnownPaths(map') = {}
    BY <1>2, SizesAssumption DEF Restart, KnownPaths
  <2>2. Len(map') <= k' /\ KnownPaths(map)' \subseteq Paths
    BY <1>2, <2>1 DEF KnownPaths
  <2>3. restarts' \in 0 .. MaxRestarts
    BY SizesAssumption DEF IInv, TypeOK, Restart
  <2>4. \A i \in DOMAIN target' : target'[i] \in Paths
    BY <1>2
  <2>5. k' \in Ks /\ loaded' \in BOOLEAN /\ phase' = "train" /\ value' \in Scores
    BY DEF Restart, Scores
  <2>6. /\ \A i \in DOMAIN data' : data'[i] \in Payloads
        /\ latest' \in 0 .. Len(data')
        /\ DOMAIN files' \subseteq kept' /\ kept' \subseteq Paths
    BY <1>1 DEF IInv, TypeOK
  <2> QED
    BY <1>2, <1>3, <2>2, <2>3, <2>4, <2>5, <2>6 DEF TypeOK
<1>5. DiskInv'
  BY <1>1 DEF IInv, DiskInv, NamesTellContents
<1>6. SaveInv'
  BY <1>2, EmptySeq DEF SaveInv, Restart
<1>7. ManagerInv'
  BY <1>2, EmptySeq DEF ManagerInv, Restart, Table
<1> QED
  BY <1>4, <1>5, <1>6, <1>7 DEF IInv

\* Every step keeps the invariant.
LEMMA NextKeeps == IInv /\ [Next]_vars => IInv'
<1>1. IInv /\ UNCHANGED vars => IInv'
  <2> SUFFICES ASSUME IInv, UNCHANGED vars PROVE IInv'
    OBVIOUS
  <2> USE DEF vars, disk
  <2>1. TypeOK'
    BY DEF IInv, TypeOK, KnownPaths
  <2>2. DiskInv' /\ SaveInv'
    BY DEF IInv, DiskInv, SaveInv, NamesTellContents
  <2>3. ManagerInv'
    BY DEF IInv, ManagerInv, Targets, KnownPaths
  <2> QED
    BY <2>1, <2>2, <2>3 DEF IInv
<1> QED
  BY <1>1, FinishStepKeeps, ChoosePathKeeps, SaveLatestKeeps, CopyKeeps, RestartKeeps DEF Next

-----------------------------------------------------------------------------
(* What the invariant gives.                                               *)

\* The invariant holds in every state of every run.
LEMMA Inductive == Spec => []IInv
BY InitInv, NextKeeps, PTL DEF Spec

\* Variables keep their types, and the manager never counts more than k files.
THEOREM TypeCorrect == Spec => []TypeOK
<1>1. IInv => TypeOK
  BY DEF IInv
<1> QED
  BY <1>1, Inductive, PTL

\* Names tell what the files hold and the table tells which files there are,
\* through any number of resumes, stops inside a save and redone steps.
THEOREM DirectoryBelieved == Spec => []DirectoryTrue
<1>1. IInv => DirectoryTrue
  <2> SUFFICES ASSUME IInv PROVE DirectoryTrue
    OBVIOUS
  <2>1. NamesTellContents
    BY DEF IInv, DiskInv
  <2>2. ManagerKnowsDisk
    <3> SUFFICES ASSUME loaded, phase = "train" PROVE KnownPaths(map) = DOMAIN files
      BY DEF ManagerKnowsDisk
    <3>1. Targets = {}
      BY DEF IInv, SaveInv, Targets
    <3> QED
      BY <3>1 DEF IInv, ManagerInv
  <2> QED
    BY <2>1, <2>2 DEF DirectoryTrue
<1> QED
  BY <1>1, Inductive, PTL

\* The step that deletes files leaves one that is as good as each of them: the
\* file that is evicted has the worst value of a table of more than one.
LEMMA ChoosePathKeepsBest ==
  ASSUME 1 \notin Ks, IInv, ChoosePath, BestSurvives
  PROVE  BestSurvives'
<1> DEFINE pruned == DOMAIN files \ KnownPaths(Known)
           w == WorstAt(Known)
<1>1. /\ Table(Known) /\ Len(Known) \in Nat
      /\ KnownPaths(Known) \subseteq DOMAIN files
      /\ \A p \in DOMAIN files : \E q \in KnownPaths(Known) : ~Better(p.printed, q.printed)
  BY KnownTable DEF ChoosePath
<1>2. k \in Nat /\ k > 1 /\ DOMAIN files \subseteq Paths /\ DOMAIN files \subseteq kept /\ kept \subseteq Paths
  BY SizesAssumption DEF IInv, TypeOK
<1>3. files \in [DOMAIN files -> DOMAIN data] /\ IsFiniteSet(DOMAIN files)
  BY DEF IInv, DiskInv
<1>4. \A p, q, s \in Paths :
        ~Better(p.printed, q.printed) /\ ~Better(q.printed, s.printed) => ~Better(p.printed, s.printed)
  BY PathFields, DirectionAssumption DEF Better
<1>5. \A p \in kept : \E q \in KnownPaths(Known) : ~Better(p.printed, q.printed)
  <2> TAKE p \in kept
  <2>1. PICK q \in DOMAIN files : ~Better(p.printed, q.printed)
    BY DEF BestSurvives
  <2>2. PICK s \in KnownPaths(Known) : ~Better(q.printed, s.printed)
    BY <1>1, <2>1
  <2> QED
    BY <1>1, <1>2, <1>4, <2>1, <2>2
<1>6. kept' = kept
  BY DEF ChoosePath
<1>7. CASE files' = Without(pruned)
  <2>1. DOMAIN files' = DOMAIN files \ pruned
    BY <1>3, <1>7, WithoutFiles
  <2> QED
    BY <1>1, <1>5, <1>6, <2>1 DEF BestSurvives
<1>8. CASE ~(Len(Known) < k) /\ files' = Without(pruned \cup {Known[w].path})
  <2>1. DOMAIN files' = DOMAIN files \ (pruned \cup {Known[w].path})
    BY <1>3, <1>8, WithoutFiles
  <2>2. DOMAIN files' = KnownPaths(Known) \ {Known[w].path}
    BY <1>1, <2>1
  <2>3. Known # <<>> /\ DOMAIN Known = 1 .. Len(Known) /\ Len(Known) > 1
    BY <1>1, <1>2, <1>8, LenProperties DEF Table
  <2>4. w \in DOMAIN Known /\ \A j \in DOMAIN Known : ~Better(Known[w].value, Known[j].value)
    BY <1>1, <2>3, WorstExists
  <2> HIDE DEF w, pruned
  <2>5. PICK j \in DOMAIN Known : j # w
    BY <1>1, <2>3, <2>4
  <2>6. /\ Known[j].path \in DOMAIN files'
        /\ Known[j].path \in Paths /\ Known[w].path \in Paths
        /\ Known[j].value \in Int /\ Known[w].value \in Int
        /\ Printed(Known[j].value) = Known[j].path.printed
        /\ Printed(Known[w].value) = Known[w].path.printed
    BY <1>1, <2>2, <2>4, <2>5, TableEntries DEF Table, KnownPaths
  <2>7. ~Better(Known[w].path.printed, Known[j].path.printed)
    BY <2>4, <2>5, <2>6, Rounding
  <2>8. ASSUME NEW p \in kept
        PROVE  \E q \in DOMAIN files' : ~Better(p.printed, q.printed)
    <3>1. PICK q \in KnownPaths(Known) : ~Better(p.printed, q.printed)
      BY <1>5
    <3>2. CASE q = Known[w].path
      BY <1>2, <1>4, <2>6, <2>7, <3>1, <3>2
    <3>3. CASE q # Known[w].path
      BY <2>2, <3>1, <3>3
    <3> QED
      BY <3>2, <3>3
  <2> QED
    BY <1>6, <2>8 DEF BestSurvives
<1> QED
  BY <1>7, <1>8 DEF ChoosePath

\* With k > 1 in every launch a best metric file is on disk at any time.  (With
\* k = 1 the only file is deleted before the better one is written.)
THEOREM BestIsKept ==
  ASSUME 1 \notin Ks
  PROVE  Spec => []BestSurvives
<1>1. Init => BestSurvives
  BY DEF Init, BestSurvives, disk
<1>2. ASSUME IInv, BestSurvives, [Next]_vars
      PROVE  BestSurvives'
  <2> USE <1>2 DEF BestSurvives, disk
  <2>1. CASE FinishStep \/ SaveLatest \/ Restart
    BY <2>1 DEF FinishStep, SaveLatest, Restart
  <2>2. CASE ChoosePath
    BY <2>2, ChoosePathKeepsBest
  <2>3. CASE CopyToMetricPath
    <3>1. DOMAIN files' = DOMAIN files \cup {target[1]} /\ kept' = kept \cup {target[1]}
      BY <2>3 DEF CopyToMetricPath
    <3>2. target[1] \in Paths
      BY <2>3 DEF IInv, TypeOK, SaveInv, CopyToMetricPath
    <3>3. ~Better(target[1].printed, target[1].printed)
      BY <3>2, PathFields, DirectionAssumption DEF Better
    <3> QED
      BY <3>1, <3>3
  <2>4. CASE UNCHANGED vars
    BY <2>4 DEF vars
  <2> QED
    BY <2>1, <2>2, <2>3, <2>4 DEF Next
<1> QED
  BY <1>1, <1>2, Inductive, PTL DEF Spec
=============================================================================
