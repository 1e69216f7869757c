------------------------- MODULE SiteAnalyses_proofs -------------------------
(* Proofs about SiteAnalyses, for every cloud, table, box and set of rings. *)
EXTENDS SiteAnalyses, FiniteSetTheorems, WellFoundedInduction, TLAPS

(* What ionEnvironment left for a census: one shell and one state an ion. *)
ShellsOfIons ==
  result.call = "ions" =>
    /\ DOMAIN result.members = DOMAIN result.ions
    /\ \A k \in DOMAIN result.ions :
         /\ result.members[k] = Shell(cloud, result.ions[k], result.water)
         /\ result.state[k] \in StatesOf(result.members[k], result.flags)

SiteInv ==
  /\ TypeOK
  /\ DomainOfSites
  /\ BinsOfAxis
  /\ ContactsPairIons
  /\ CensusOfIon
  /\ ShellsOfIons

(* A step that keeps cloud and table keeps the invariant if its result is   *)
(* sound.                                                                   *)
LEMMA QuietKeeps ==
  ASSUME SiteInv, cloud' = cloud, table' \in Maps \cup {None}, result'.call \in {"none", "error"}
  PROVE  SiteInv'
  BY DEF SiteInv, TypeOK, DomainOfSites, BinsOfAxis, ContactsPairIons, CensusOfIon, ShellsOfIons

-----------------------------------------------------------------------------
(* Sizes *)

LEMMA IndexFinite == IsFiniteSet(Index) /\ Cardinality(Index) = Size
  <1>1. Size - 1 \in Int /\ 0 \in Int
    BY SiteAssumption
  <1>2. IsFiniteSet(0 .. Size - 1)
        /\ Cardinality(0 .. Size - 1) = IF 0 > Size - 1 THEN 0 ELSE Size - 1 - 0 + 1
    BY <1>1, FS_Interval
  <1> QED BY <1>2, SiteAssumption DEF Index

LEMMA PartsOfIndex ==
  ASSUME NEW S, S \subseteq Index
  PROVE  IsFiniteSet(S) /\ Cardinality(S) \in 0 .. Size
  <1>1. IsFiniteSet(S) /\ Cardinality(S) <= Size
    BY IndexFinite, FS_Subset
  <1> QED BY <1>1, FS_CardinalityType, SiteAssumption

(* A set of numbers up to n that has one has a largest. *)
LEMMA MaxBounded ==
  ASSUME NEW n \in Nat, NEW S, S \subseteq 0 .. n, S # {}
  PROVE  F!Max(S) \in S
  <1> DEFINE T == {k \in Nat : \A m \in S : m <= k}
  <1>1. n \in T
    OBVIOUS
  <1>2. PICK k \in T : \A y \in T : ~(<<y, k>> \in OpToRel(<, Nat))
    BY <1>1, NatLessThanWellFounded, WFMin
  <1>3. \A y \in T : ~(y < k)
    BY <1>2 DEF OpToRel
  <1>4. k \in S
    <2> SUFFICES ASSUME k \notin S PROVE FALSE
      OBVIOUS
    <2>1. \A m \in S : m < k
      OBVIOUS
    <2>2. PICK m \in S : TRUE
      OBVIOUS
    <2>3. k \in Nat /\ m \in 0 .. n /\ m < k
      BY <2>1, <2>2
    <2>4. k - 1 \in Nat
      BY <2>3
    <2>5. ASSUME NEW x \in S PROVE x <= k - 1
      <3>1. x \in 0 .. n /\ x < k
        BY <2>1
      <3> QED BY <2>3, <3>1
    <2>6. k - 1 \in T
      BY <2>4, <2>5
    <2> QED BY <1>3, <2>3, <2>6
  <1>5. \E x \in S : \A y \in S : x >= y
    BY <1>4
  <1> QED BY <1>5 DEF F!Max

LEMMA LargestBounded ==
  ASSUME NEW graph, graph.node \subseteq Index
  PROVE  Largest(graph) \in 0 .. Cardinality(graph.node)
  <1> DEFINE joined == G!ConnectionsIn(graph)
             part(i) == {j \in graph.node : joined[<<i, j>>]}
             sizes == {0} \cup {Cardinality(part(i)) : i \in graph.node}
  <1>1. IsFiniteSet(graph.node) /\ Cardinality(graph.node) \in Nat
    BY PartsOfIndex, SiteAssumption
  <1>2. ASSUME NEW i \in graph.node
        PROVE  Cardinality(part(i)) \in 0 .. Cardinality(graph.node)
    <2>1. part(i) \in SUBSET graph.node
      OBVIOUS
    <2> HIDE DEF part
    <2>2. IsFiniteSet(part(i)) /\ Cardinality(part(i)) <= Cardinality(graph.node)
      BY <1>1, <2>1, FS_Subset
    <2> QED BY <1>1, <2>2, FS_CardinalityType
  <1>3. sizes \subseteq 0 .. Cardinality(graph.node) /\ sizes # {}
    <2> HIDE DEF part
    <2>1. ASSUME NEW k \in sizes PROVE k \in 0 .. Cardinality(graph.node)
      <3>1. CASE k = 0
        BY <1>1, <3>1
      <3>2. CASE \E i \in graph.node : k = Cardinality(part(i))
        BY <1>2, <3>2
      <3> QED BY <3>1, <3>2
    <2> QED BY <2>1
  <1>4. Largest(graph) = F!Max(sizes)
    BY DEF Largest
  <1> HIDE DEF sizes
  <1> QED BY <1>1, <1>3, <1>4, MaxBounded

-----------------------------------------------------------------------------
(* Domains *)

(* With distinct IDs the rows by atom ID say what the rows by index say, *)
(* strays left out: the engine searches the graph of the sites.          *)
LEMMA IdsKeepTheGraph ==
  ASSUME NEW x \in Clouds, NEW t \in Maps, NEW kind \in Kinds
  PROVE  DomainGraph(x, ById(x), Mask(IndicesOf(x, t, kind))) = SiteGraph(x, t, kind)
  <1> DEFINE sites == {i \in Index : t[x.type[i]] \in Counted[kind]}
  <1>1. \A i, j \in Index : x.id[i] = x.id[j] => i = j
    BY SiteAssumption DEF WellFormed
  <1>2. \A i, j \in Index : x.id[j] \in ById(x)[i] <=> j \in x.near[i]
    BY <1>1 DEF ById
  <1>3. {i \in Index : Mask(IndicesOf(x, t, kind))[i]} = sites
    BY DEF Mask, IndicesOf
  <1>4. {e \in sites \X sites : x.id[e[2]] \in ById(x)[e[1]]}
          = {e \in sites \X sites : e[2] \in x.near[e[1]]}
    BY <1>2
  <1> QED BY <1>3, <1>4 DEF DomainGraph, SiteGraph

(* A domain call returns the count and the largest part of the site graph. *)
LEMMA StatsOfSites ==
  ASSUME NEW x \in Clouds, NEW t \in Maps, NEW kind \in Kinds
  PROVE  DomainStats(x, t, kind) =
           [call |-> "domain", kind |-> kind,
            n |-> Cardinality(SiteGraph(x, t, kind).node),
            largest |-> Largest(SiteGraph(x, t, kind))]
  BY IdsKeepTheGraph DEF DomainStats

LEMMA DomainKeeps ==
  ASSUME SiteInv, NEW given \in BOOLEAN, NEW kind \in Kinds \cup {None}, Domain(given, kind)
  PROVE  SiteInv'
  <1>1. CASE given /\ table # None /\ kind # None
    <2>1. table \in Maps /\ kind \in Kinds /\ cloud \in Clouds
      BY <1>1 DEF SiteInv, TypeOK
    <2> DEFINE graph == SiteGraph(cloud, table, kind)
    <2>2. UNCHANGED <<cloud, table>> /\ result' = DomainStats(cloud, table, kind)
      BY <1>1 DEF Domain, Returned
    <2>3. result' = [call |-> "domain", kind |-> kind,
                     n |-> Cardinality(graph.node), largest |-> Largest(graph)]
      BY <2>1, <2>2, StatsOfSites
    <2>4. graph.node \subseteq Index
      BY DEF SiteGraph
    <2>5. Cardinality(graph.node) \in 0 .. Size /\ Largest(graph) \in 0 .. Cardinality(graph.node)
      BY <2>4, PartsOfIndex, LargestBounded
    <2>6. /\ result'.call = "domain" /\ result'.kind = kind
          /\ result'.n = Cardinality(graph.node) /\ result'.largest = Largest(graph)
      BY <2>3
    <2>7. TypeOK'
      BY <2>1, <2>2, <2>5, <2>6 DEF TypeOK
    <2>8. DomainOfSites'
      BY <2>2, <2>6 DEF DomainOfSites, SiteGraph
    <2> QED BY <2>6, <2>7, <2>8
        DEF SiteInv, BinsOfAxis, ContactsPairIons, CensusOfIon, ShellsOfIons
  <1>2. CASE ~(given /\ table # None /\ kind # None)
    BY <1>2, QuietKeeps DEF Domain, Raised, Returned, SiteInv, TypeOK
  <1> QED BY <1>1, <1>2

-----------------------------------------------------------------------------
(* Densities *)

(* What passes the guard is a written axis or a number between two. *)
LEMMA AxisKinds ==
  ASSUME NEW axis \in AxisOpts, AxisIndex(axis) # None,
         AxisIndex(axis) >= 0, AxisIndex(axis) <= 4, Converts(AxisIndex(axis))
  PROVE  \E a \in Axes :
           /\ Rounded(AxisIndex(axis)) = a
           /\ \/ axis \in Written(a) /\ Span(AxisIndex(axis)) = Edge[a]
              \/ /\ ~CheckedBuild
                 /\ axis \in [halves : {2 * a - 1, 2 * a + 1}]
                 /\ Span(AxisIndex(axis)) = 0
  <1>1. CASE axis = None
    <2>1. AxisIndex(axis) = 4 /\ 4 % 2 = 0 /\ 4 \div 2 = 2 /\ 5 \div 2 = 2
      BY <1>1 DEF AxisIndex
    <2>2. 2 \in Axes /\ axis \in Written(2)
      BY <1>1 DEF Axes, Written
    <2> QED BY <2>1, <2>2 DEF Span, Rounded
  <1>2. CASE axis \in [name : AxisNames]
    <2>1. DOMAIN axis = {"name"} /\ axis # None
      BY <1>2, SiteAssumption
    <2>2. "halves" \notin DOMAIN axis
      BY <2>1
    <2>3. axis.name # "other"
      BY <2>1, <2>2 DEF AxisIndex
    <2>4. axis.name \in {"x", "y", "z"}
      BY <1>2, <2>3 DEF AxisNames
    <2>5. \E a \in Axes : AxisName[a] = axis.name
      BY <2>4 DEF Axes, AxisName
    <2> DEFINE a == CHOOSE a \in Axes : AxisName[a] = axis.name
    <2>6. a \in Axes /\ AxisName[a] = axis.name
      BY <2>5
    <2>7. AxisIndex(axis) = 2 * a
      BY <2>1, <2>2, <2>3 DEF AxisIndex
    <2>8. axis = [name |-> AxisName[a]]
      BY <1>2, <2>6
    <2> HIDE DEF a
    <2>9. (2 * a) % 2 = 0 /\ (2 * a) \div 2 = a /\ (2 * a + 1) \div 2 = a
      BY <2>6 DEF Axes
    <2> QED BY <2>6, <2>7, <2>8, <2>9 DEF Span, Rounded, Written
  <1>3. CASE axis \in [halves : Int]
    <2>1. "halves" \in DOMAIN axis /\ axis # None
      BY <1>3, SiteAssumption
    <2>2. AxisIndex(axis) = axis.halves /\ axis = [halves |-> axis.halves]
      BY <1>3, <2>1 DEF AxisIndex
    <2>3. axis.halves \in 0 .. 4
      BY <1>3, <2>2
    <2>4. CASE axis.halves \in {0, 2, 4}
      <3>1. PICK a \in Axes : axis.halves = 2 * a
        BY <2>4 DEF Axes
      <3>2. (2 * a) % 2 = 0 /\ (2 * a) \div 2 = a /\ (2 * a + 1) \div 2 = a
        BY DEF Axes
      <3> QED BY <2>2, <3>1, <3>2 DEF Span, Rounded, Written
    <2>5. CASE axis.halves \in {1, 3}
      <3>1. PICK a \in Axes : axis.halves = 2 * a - 1
        BY <2>5 DEF Axes
      <3>2. (2 * a - 1) % 2 = 1 /\ (2 * a - 1 + 1) \div 2 = a
        BY DEF Axes
      <3>3. ~CheckedBuild
        BY <2>2, <3>1, <3>2 DEF Converts
      <3>4. axis \in [halves : {2 * a - 1, 2 * a + 1}]
        BY <2>2, <3>1
      <3> QED BY <2>2, <3>1, <3>2, <3>3, <3>4 DEF Span, Rounded
    <2> QED BY <2>3, <2>4, <2>5
  <1> QED BY <1>1, <1>2, <1>3, SiteAssumption DEF AnyAxis

LEMMA DensityKeeps ==
  ASSUME SiteInv, NEW o \in DensityOpts, Density(o)
  PROVE  SiteInv'
  <1>1. CASE DensityGuard(o) /\ Converts(AxisIndex(o.axis))
    <2>1. o.axis \in AxisOpts /\ o.bins \in 0 .. MaxBins \cup {None}
      BY DEF DensityOpts
    <2>2. PICK a \in Axes :
            /\ Rounded(AxisIndex(o.axis)) = a
            /\ \/ o.axis \in Written(a) /\ Span(AxisIndex(o.axis)) = Edge[a]
               \/ /\ ~CheckedBuild
                  /\ o.axis \in [halves : {2 * a - 1, 2 * a + 1}]
                  /\ Span(AxisIndex(o.axis)) = 0
      BY <1>1, <2>1, AxisKinds DEF DensityGuard
    <2>3. /\ UNCHANGED <<cloud, table>>
          /\ result' = [call |-> "density", axis |-> AxisName[Rounded(AxisIndex(o.axis))],
                        bins |-> Bins(o), of |-> IF o.kind = None THEN "type" ELSE "kind",
                        asked |-> [axis |-> o.axis, bins |-> o.bins]]
      BY <1>1 DEF Density, Returned
    <2>4. /\ result'.call = "density" /\ result'.axis = AxisName[a]
          /\ result'.bins = Bins(o) /\ result'.of \in {"type", "kind"}
          /\ result'.asked.axis = o.axis /\ result'.asked.bins = o.bins
      BY <2>2, <2>3
    <2>5. Edge[a] \in Nat
      BY SiteAssumption
    <2>6. Bins(o) \in Nat \ {0}
      <3>1. Bins(o) >= 1
        BY <1>1 DEF DensityGuard, SoundBins
      <3>2. CASE o.bins # None
        BY <2>1, <3>1, <3>2, SiteAssumption DEF Bins
      <3>3. CASE o.bins = None
        BY <2>2, <2>5, <3>3 DEF Bins, AtLeastOne
      <3> QED BY <3>2, <3>3
    <2>7. AxisName[a] \in {"x", "y", "z"}
      BY DEF Axes, AxisName
    <2>8. TypeOK'
      BY <2>3, <2>4, <2>6, <2>7 DEF SiteInv, TypeOK
    <2>9. BinsOfAxis'
      <3>1. CASE o.axis \in Written(a) /\ Span(AxisIndex(o.axis)) = Edge[a]
        BY <2>4, <3>1 DEF BinsOfAxis, Bins
      <3>2. CASE /\ ~CheckedBuild
                 /\ o.axis \in [halves : {2 * a - 1, 2 * a + 1}]
                 /\ Span(AxisIndex(o.axis)) = 0
        BY <2>4, <3>2 DEF BinsOfAxis, Bins, AtLeastOne
      <3> QED BY <2>2, <3>1, <3>2
    <2> QED BY <2>4, <2>8, <2>9
        DEF SiteInv, DomainOfSites, ContactsPairIons, CensusOfIon, ShellsOfIons
  <1>2. CASE ~(DensityGuard(o) /\ Converts(AxisIndex(o.axis)))
    BY <1>2, QuietKeeps DEF Density, Raised, Returned, SiteInv, TypeOK
  <1> QED BY <1>1, <1>2

-----------------------------------------------------------------------------
(* Contact pairs *)

(* The ions of a kind are the atoms mapped to it. *)
LEMMA IonsOfKind ==
  ASSUME NEW x \in Clouds, NEW t \in Maps
  PROVE  /\ {i \in DOMAIN IonType(x, t) : IonType(x, t)[i] = 1}
              = {i \in Index : t[x.type[i]] = "cationHead"}
         /\ {i \in DOMAIN IonType(x, t) : IonType(x, t)[i] = 2}
              = {i \in Index : t[x.type[i]] = "anion"}
  <1> DEFINE ions == {j \in Index : t[x.type[j]] \in {"cationHead", "anion"}}
  <1>1. DOMAIN IonType(x, t) = ions
    BY DEF IonType
  <1>2. \A i \in ions : IonType(x, t)[i] = IF t[x.type[i]] = "cationHead" THEN 1 ELSE 2
    BY DEF IonType
  <1> QED BY <1>1, <1>2

(* Of two ions, the later has more ions before it. *)
LEMMA PlacesDiffer ==
  ASSUME NEW ions, ions \subseteq Index, NEW i \in ions, NEW j \in ions, i < j
  PROVE  Cardinality({k \in ions : k < i}) # Cardinality({k \in ions : k < j})
  <1> DEFINE below(n) == {k \in ions : k < n}
  <1>1. i \in Int /\ j \in Int /\ \A k \in ions : k \in Int
    BY DEF Index
  <1>2. below(i) \in SUBSET below(j) /\ i \in below(j) /\ i \notin below(i)
    <2>1. \A k \in ions : k < i => k < j
      BY <1>1
    <2>2. ~(i < i)
      BY <1>1
    <2> QED BY <2>1, <2>2
  <1>3. below(j) \subseteq Index
    OBVIOUS
  <1> HIDE DEF below
  <1>4. IsFiniteSet(below(j))
    BY <1>3, PartsOfIndex
  <1>5. Cardinality(below(i)) = Cardinality(below(j)) => below(i) = below(j)
    BY <1>2, <1>4, FS_Subset
  <1>6. Cardinality(below(i)) # Cardinality(below(j))
    BY <1>2, <1>5
  <1> QED BY <1>6 DEF below

(* Either way of naming ions tells them apart. *)
LEMMA NamesDiffer ==
  ASSUME NEW x \in Clouds, NEW ions, ions \subseteq Index, NEW space \in Spaces,
         NEW i \in ions, NEW j \in ions, IonName(x, ions, space, i) = IonName(x, ions, space, j)
  PROVE  i = j
  <1>1. CASE space = "id"
    BY <1>1, SiteAssumption DEF IonName, WellFormed
  <1>2. CASE space = "index"
    <2>1. i \in Int /\ j \in Int
      BY DEF Index
    <2>2. ~(i < j)
      BY <1>2, PlacesDiffer DEF IonName
    <2>3. ~(j < i)
      BY <1>2, PlacesDiffer DEF IonName
    <2> QED BY <2>1, <2>2, <2>3
  <1> QED BY <1>1, <1>2 DEF Spaces

(* A matching of ions, its ions renamed: a row for each pair, none of which *)
(* shares an ion with another.                                              *)
LEMMA NamedMatching ==
  ASSUME NEW x \in Clouds, NEW ions, DOMAIN ions \subseteq Index, NEW space \in Spaces,
         NEW A, NEW B, DOMAIN ions = A \cup B, NEW m, m \subseteq A \X B,
         \A p, q \in m : p = q \/ (p[1] # q[1] /\ p[2] # q[2])
  PROVE  LET rows == MutualNearestUnlike(x, ions, space, m)
             name(i) == IonName(x, DOMAIN ions, space, i)
         IN  /\ \A r \in rows : \E c \in A, a \in B : r = <<name(c), name(a)>>
             /\ \A r, s \in rows : r = s \/ (r[1] # s[1] /\ r[2] # s[2])
             /\ rows = {} => m = {}
  <1> DEFINE rows == MutualNearestUnlike(x, ions, space, m)
             name(i) == IonName(x, DOMAIN ions, space, i)
  <1>1. \A i, j \in A \cup B : name(i) = name(j) => i = j
    BY NamesDiffer
  <1>2. \A p \in m : p[1] \in A /\ p[2] \in B
    OBVIOUS
  <1>3. rows = {<<name(p[1]), name(p[2])>> : p \in m}
    BY DEF MutualNearestUnlike
  <1> HIDE DEF name, rows
  <1>4. \A r \in rows : \E c \in A, a \in B : r = <<name(c), name(a)>>
    BY <1>2, <1>3
  <1>5. ASSUME NEW r \in rows, NEW s \in rows PROVE r = s \/ (r[1] # s[1] /\ r[2] # s[2])
    <2>1. PICK p \in m : r = <<name(p[1]), name(p[2])>>
      BY <1>3
    <2>2. PICK q \in m : s = <<name(q[1]), name(q[2])>>
      BY <1>3
    <2>3. CASE p = q
      BY <2>1, <2>2, <2>3
    <2>4. CASE p[1] # q[1] /\ p[2] # q[2]
      <3>1. name(p[1]) # name(q[1]) /\ name(p[2]) # name(q[2])
        BY <1>1, <1>2, <2>4
      <3> QED BY <2>1, <2>2, <3>1
    <2> QED BY <2>3, <2>4
  <1>6. rows = {} => m = {}
    BY <1>3
  <1> QED BY <1>4, <1>5, <1>6 DEF name, rows

(* The rows the Lua table holds are the pairs the engine found. *)
LEMMA PackedPairs ==
  ASSUME NEW x, NEW ions, NEW space, NEW m
  PROVE  PackPairs(MutualNearestUnlike(x, ions, space, m)) = MutualNearestUnlike(x, ions, space, m)
  BY DEF PackPairs, MutualNearestUnlike

LEMMA PairsKeep ==
  ASSUME SiteInv, NEW given \in BOOLEAN, Pairs(given)
  PROVE  SiteInv'
  <1>1. CASE given /\ table # None
    <2> DEFINE of(kind) == {i \in Index : table[cloud.type[i]] = kind}
               cations == of("cationHead")
               anions == of("anion")
               ions == IonType(cloud, table)
    <2>1. table \in Maps /\ cloud \in Clouds
      BY <1>1 DEF SiteInv, TypeOK
    <2>2. PICK m \in Matchings(ions), space \in Spaces :
            Returned([call |-> "pairs", space |-> space,
                      pairs |-> PackPairs(MutualNearestUnlike(cloud, ions, space, m)),
                      count |-> Cardinality(MutualNearestUnlike(cloud, ions, space, m)),
                      n_cation |-> InIons(cloud, table, 1), n_anion |-> InIons(cloud, table, 2)])
      BY <1>1 DEF Pairs
    <2> DEFINE rows == MutualNearestUnlike(cloud, ions, space, m)
    <2>3. /\ m \subseteq cations \X anions
          /\ m = {} => cations = {} \/ anions = {}
          /\ \A p, q \in m : p = q \/ (p[1] # q[1] /\ p[2] # q[2])
      BY <2>1, <2>2, IonsOfKind DEF Matchings
    <2>4. /\ UNCHANGED <<cloud, table>>
          /\ result'.call = "pairs" /\ result'.space = space
          /\ result'.pairs = rows /\ result'.count = Cardinality(rows)
          /\ result'.n_cation = Cardinality(cations) /\ result'.n_anion = Cardinality(anions)
      <3>1. InIons(cloud, table, 1) = Cardinality(cations)
            /\ InIons(cloud, table, 2) = Cardinality(anions)
        BY <2>1, IonsOfKind, Zenon DEF InIons
      <3>2. PackPairs(rows) = rows
        BY PackedPairs
      <3> HIDE DEF rows, ions, cations, anions
      <3> QED BY <2>2, <3>1, <3>2 DEF Returned, rows
    <2>5. DOMAIN ions = cations \cup anions /\ DOMAIN ions \subseteq Index
      BY DEF IonType
    <2>6. PairsIons(cloud, table, result')
      <3> DEFINE name(i) == IonName(cloud, DOMAIN ions, space, i)
      <3>1. /\ m \subseteq cations \X anions
            /\ \A p, q \in m : p = q \/ (p[1] # q[1] /\ p[2] # q[2])
        BY <2>3
      <3> HIDE DEF ions, cations, anions
      <3>2. /\ \A r \in rows : \E c \in cations, a \in anions : r = <<name(c), name(a)>>
            /\ \A r, s \in rows : r = s \/ (r[1] # s[1] /\ r[2] # s[2])
            /\ rows = {} => m = {}
        BY <2>1, <2>2, <2>5, <3>1, NamedMatching
      <3>3. \A i : name(i) = IonName(cloud, cations \cup anions, result'.space, i)
        BY <2>4, <2>5
      <3> HIDE DEF rows, name
      <3>4. /\ \A r \in result'.pairs : \E c \in cations, a \in anions :
                 r = <<IonName(cloud, cations \cup anions, result'.space, c),
                       IonName(cloud, cations \cup anions, result'.space, a)>>
            /\ \A r, s \in result'.pairs : r = s \/ (r[1] # s[1] /\ r[2] # s[2])
            /\ result'.pairs = {} => cations = {} \/ anions = {}
        BY <2>3, <2>4, <3>2, <3>3
      <3>5. /\ result'.count = Cardinality(result'.pairs)
            /\ result'.n_cation = Cardinality(cations)
            /\ result'.n_anion = Cardinality(anions)
        BY <2>4
      <3> QED BY <3>4, <3>5, Zenon DEF PairsIons, cations, anions
    <2>7. ContactsPairIons'
      BY <2>4, <2>6 DEF ContactsPairIons
    <2> QED BY <2>1, <2>4, <2>7
        DEF SiteInv, TypeOK, DomainOfSites, BinsOfAxis, CensusOfIon, ShellsOfIons
  <1>2. CASE ~(given /\ table # None)
    BY <1>2, QuietKeeps DEF Pairs, Raised, Returned, SiteInv, TypeOK
  <1> QED BY <1>1, <1>2

-----------------------------------------------------------------------------
(* Ion environments *)

LEMMA IonsKeep ==
  ASSUME SiteInv, NEW ions \in IonLists, NEW water \in Types, NEW flags \in IceFlags,
         IonEnvironment(ions, water, flags)
  PROVE  SiteInv'
  <1> DEFINE shells == [k \in DOMAIN ions |-> Shell(cloud, ions[k], water)]
  <1>1. PICK state \in [DOMAIN ions -> States] :
          /\ \A k \in DOMAIN ions : state[k] \in StatesOf(shells[k], flags)
          /\ Returned([call |-> "ions", ions |-> ions, water |-> water, flags |-> flags,
                       state |-> state, members |-> Packed(shells)])
    BY DEF IonEnvironment
  <1>2. /\ UNCHANGED <<cloud, table>> /\ result'.call = "ions"
        /\ result'.ions = ions /\ result'.water = water /\ result'.flags = flags
        /\ result'.state = state /\ result'.members = shells
    BY <1>1 DEF Returned, Packed
  <1>3. ions \in Seq(Index)
    BY SiteAssumption
  <1>4. DOMAIN ions = 1 .. Len(ions) /\ Len(ions) \in Nat
    BY <1>3
  <1>5. TypeOK'
    <2>1. state \in Seq(States)
      BY <1>4
    <2>2. Len(state) = Len(ions) /\ Len(shells) = Len(ions)
      BY <1>4
    <2> QED BY <1>2, <2>1, <2>2 DEF SiteInv, TypeOK
  <1>6. ShellsOfIons'
    BY <1>1, <1>2 DEF ShellsOfIons, Shell
  <1> QED BY <1>2, <1>5, <1>6
      DEF SiteInv, DomainOfSites, BinsOfAxis, ContactsPairIons, CensusOfIon

LEMMA CensusKeeps ==
  ASSUME SiteInv, NEW rings \in RingSets, NEW max \in RingCaps \cup {None},
         NEW k \in DOMAIN result.members, ShellRingCensus(k, rings, max)
  PROVE  SiteInv'
  <1> DEFINE ion == result.ions[k]
             shell == {j \in Index : /\ j # ion /\ j \in cloud.near[ion]
                                    /\ cloud.type[j] = result.water}
             cap == IF max = None THEN 7 ELSE max
  <1>1. /\ UNCHANGED <<cloud, table>> /\ result'.call = "census"
        /\ result'.ion = ion /\ result'.water = result.water /\ result'.flags = result.flags
        /\ result'.state = result.state[k] /\ result'.rings = rings /\ result'.max = max
        /\ result'.census = RingsBySize(rings, result.members[k], cap)
        /\ result.call = "ions" /\ k \in DOMAIN result.ions
    BY DEF ShellRingCensus, Returned, SiteInv, ShellsOfIons
  <1>2. result.members[k] = shell /\ result.state[k] \in StatesOf(shell, result.flags)
    <2>1. /\ result.members[k] = Shell(cloud, ion, result.water)
          /\ result.state[k] \in StatesOf(result.members[k], result.flags)
      BY <1>1 DEF SiteInv, ShellsOfIons
    <2>2. Shell(cloud, ion, result.water) = shell
      BY DEF Shell
    <2> QED BY <2>1, <2>2
  <1>3. \A r \in rings : r \cap shell # {} <=> \E j \in shell : j \in r
    OBVIOUS
  <1>4. RingsBySize(rings, shell, cap) =
          [s \in 0 .. cap |->
             Cardinality({r \in rings : Cardinality(r) = s /\ \E j \in shell : j \in r})]
    <2>1. \A s \in 0 .. cap :
            {r \in rings : Cardinality(r) = s /\ r \cap shell # {}}
              = {r \in rings : Cardinality(r) = s /\ \E j \in shell : j \in r}
      BY <1>3
    <2> HIDE DEF shell, cap
    <2> QED BY <2>1 DEF RingsBySize
  <1>5. shell # {} =>
          result.state[k] = IF shell \subseteq result.flags THEN "ice"
                            ELSE IF shell \cap result.flags = {} THEN "liquid" ELSE "front"
    BY <1>2 DEF StatesOf
  <1>6. CensusOfIon'
    <2>1. /\ shell = {j \in Index : /\ j # result'.ion /\ j \in cloud'.near[result'.ion]
                                   /\ cloud'.type[j] = result'.water}
          /\ cap = IF result'.max = None THEN 7 ELSE result'.max
      BY <1>1
    <2> HIDE DEF shell, cap
    <2>2. result'.census = RingsBySize(rings, shell, cap)
      BY <1>1, <1>2
    <2>3. /\ DOMAIN result'.census = 0 .. cap
          /\ \A s \in 0 .. cap :
               result'.census[s] = Cardinality({r \in result'.rings : Cardinality(r) = s
                                                                     /\ \E j \in shell : j \in r})
      BY <1>1, <1>4, <2>2
    <2>4. shell # {} =>
            result'.state = IF shell \subseteq result'.flags THEN "ice"
                            ELSE IF shell \cap result'.flags = {} THEN "liquid" ELSE "front"
      BY <1>1, <1>5
    <2> QED BY <2>1, <2>3, <2>4, Zenon DEF CensusOfIon
  <1> QED BY <1>1, <1>6
      DEF SiteInv, TypeOK, DomainOfSites, BinsOfAxis, ContactsPairIons, ShellsOfIons

-----------------------------------------------------------------------------
LEMMA SiteInvInit == Init => SiteInv
  BY DEF Init, Quiet, SiteInv, TypeOK, DomainOfSites, BinsOfAxis, ContactsPairIons,
         CensusOfIon, ShellsOfIons

LEMMA SiteInvStep == SiteInv /\ [Next]_vars => SiteInv'
  <1> SUFFICES ASSUME SiteInv, [Next]_vars PROVE SiteInv'
    OBVIOUS
  <1>1. ASSUME NEW t \in Maps, SiteTable(t) PROVE SiteInv'
    BY <1>1, QuietKeeps DEF SiteTable, Quiet
  <1>2. ASSUME NEW type \in Types, NEW kind \in Kinds, SetType(type, kind) PROVE SiteInv'
    BY <1>2, QuietKeeps DEF SetType, Quiet
  <1>3. CASE \E given \in BOOLEAN, kind \in Kinds \cup {None} : Domain(given, kind)
    BY <1>3, DomainKeeps
  <1>4. CASE \E o \in DensityOpts : Density(o)
    BY <1>4, DensityKeeps
  <1>5. CASE \E given \in BOOLEAN : Pairs(given)
    BY <1>5, PairsKeep
  <1>6. CASE \E ions \in IonLists, water \in Types, flags \in IceFlags :
               IonEnvironment(ions, water, flags)
    BY <1>6, IonsKeep
  <1>7. CASE \E rings \in RingSets, max \in RingCaps \cup {None} :
               result.call = "ions" /\ \E k \in DOMAIN result.members : ShellRingCensus(k, rings, max)
    BY <1>7, CensusKeeps
  <1>8. CASE UNCHANGED vars
    <2>1. UNCHANGED <<cloud, table, result>>
      BY <1>8 DEF vars
    <2>2. TypeOK' /\ DomainOfSites' /\ BinsOfAxis'
      BY <2>1 DEF SiteInv, TypeOK, DomainOfSites, BinsOfAxis, SiteGraph
    <2>3. ContactsPairIons'
      BY <2>1 DEF SiteInv, ContactsPairIons
    <2>4. CensusOfIon' /\ ShellsOfIons'
      BY <2>1 DEF SiteInv, CensusOfIon, ShellsOfIons
    <2> QED BY <2>2, <2>3, <2>4 DEF SiteInv
  <1> QED BY <1>1, <1>2, <1>3, <1>4, <1>5, <1>6, <1>7, <1>8 DEF Next

(* Results of these calls are of their types; a domain's largest part has *)
(* no more atoms than its sites (domainStats).                            *)
THEOREM SitesTyped == Spec => []TypeOK
  <1>1. SiteInv => TypeOK
    BY DEF SiteInv
  <1> QED BY SiteInvInit, SiteInvStep, <1>1, PTL DEF Spec

(* In any script, a domain result describes the sites of its kind and the *)
(* graph that joins those within the cutoff (domainStats).                *)
THEOREM DomainsDescribeSites == Spec => []DomainOfSites
  <1>1. SiteInv => DomainOfSites
    BY DEF SiteInv
  <1> QED BY SiteInvInit, SiteInvStep, <1>1, PTL DEF Spec

(* In any script, a density has the bins asked for or those of the box edge *)
(* it reports; only an unchecked build cuts between axes (dseams.density).  *)
THEOREM BinsFollowTheAxis == Spec => []BinsOfAxis
  <1>1. SiteInv => BinsOfAxis
    BY DEF SiteInv
  <1> QED BY SiteInvInit, SiteInvStep, <1>1, PTL DEF Spec

(* In any script and however the engine names ions, contacts join a cation *)
(* head with an anion, each ion at most once (contactPairs).               *)
THEOREM ContactsAreMatchings == Spec => []ContactsPairIons
  <1>1. SiteInv => ContactsPairIons
    BY DEF SiteInv
  <1> QED BY SiteInvInit, SiteInvStep, <1>1, PTL DEF Spec

(* In any script, whatever its flags, rings and cap, the k-th census and    *)
(* state are those of the k-th ion (ionEnvironment, shellRingCensus).       *)
THEOREM CensusesAreOfIons == Spec => []CensusOfIon
  <1>1. SiteInv => CensusOfIon
    BY DEF SiteInv
  <1> QED BY SiteInvInit, SiteInvStep, <1>1, PTL DEF Spec
=============================================================================
