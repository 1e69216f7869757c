---------------------------- MODULE SiteAnalyses ----------------------------
(***************************************************************************)
(* dseams.site_table, pairs, domain, density and ion environments on one   *)
(* cloud (lua/dseams.lua and the bindings of src/lua_api.cpp behind them). *)
(*                                                                         *)
(* Atoms are known by index in every list the binding touches, by atom ID  *)
(* in the rows the engine's cluster search takes.  Geometry is reduced to  *)
(* which atoms are within the cutoff of each other and to the number of    *)
(* 0.1-wide bins along each box edge.                                      *)
(***************************************************************************)
EXTENDS Integers, FiniteSets, Sequences

F == INSTANCE FiniteSetsExt
G == INSTANCE Graphs

CONSTANTS
  Size,          \* bound: atoms in the cloud (nop)
  Ids,           \* atom IDs, as the file gives them
  Types,         \* atom types
  Kinds,         \* site kinds
  Counted,       \* Counted[k]: the mapped kinds indicesOf takes for kind k
  Maps,          \* the mappings a script writes, from types to kinds
  Clouds,        \* the clouds a script may hold
  AxisOpts,      \* the values of the axis option a script tries
  Edge,          \* Edge[a]: the box edge along axis a, in bins
  MaxBins,       \* bound: bins a script asks for
  IonLists,      \* the lists of ions a script asks about
  IceFlags,      \* the per-atom ice flags a script may have, as sets of atoms
  RingSets,      \* the rings a script may have found, as sets of atoms
  RingCaps,      \* the ring sizes a script may stop a census at
  CheckedBuild,  \* sol2 checks the arguments of a call
  None           \* Lua's nil

VARIABLES
  cloud,   \* the script's PointCloud
  table,   \* its SiteTable, nil before site_table
  result   \* what the last call returned

vars == <<cloud, table, result>>

Index == 0 .. Size - 1
Axes == 0 .. 2
AxisName == [a \in Axes |-> CASE a = 0 -> "x" [] a = 1 -> "y" [] OTHER -> "z"]

(* A cloud: atom IDs are distinct; near[i] is row i of                     *)
(* getNewNeighbourListByIndex, in which -1 stands for an index that is not *)
(* one of the cloud's.                                                     *)
WellFormed(x) ==
  /\ x \in [id : [Index -> Ids], type : [Index -> Types],
            near : [Index -> SUBSET (Index \cup {-1})]]
  /\ \A i, j \in Index : x.id[i] = x.id[j] => i = j

(* The axis option: a name or a number; numbers are counted in halves. *)
AxisNames == {"x", "y", "z", "other"}
AnyAxis == [name : AxisNames] \cup [halves : Int] \cup {None}

ASSUME SiteAssumption ==
  /\ Size \in Nat
  /\ Edge \in [Axes -> Nat]
  /\ MaxBins \in Nat
  /\ CheckedBuild \in BOOLEAN
  /\ Counted \in [Kinds -> SUBSET Kinds]
  /\ Maps \subseteq [Types -> Kinds]
  /\ \A x \in Clouds : WellFormed(x)
  /\ AxisOpts \subseteq AnyAxis
  /\ IonLists \subseteq Seq(Index)
  /\ RingSets \subseteq SUBSET SUBSET Index
  /\ RingCaps \subseteq Nat
  /\ {"cationHead", "anion"} \subseteq Kinds
  /\ None \notin Maps \cup Kinds \cup Nat \cup [name : AxisNames] \cup [halves : Int]

DensityOpts ==
  [axis : AxisOpts, bins : 0 .. MaxBins \cup {None}, table : BOOLEAN, kind : Kinds \cup {None}]

Returned(call) == result' = call /\ UNCHANGED <<cloud, table>>
Raised == Returned([call |-> "error"])
Quiet == [call |-> "none"]

States == {"ice", "front", "liquid"}

TypeOK ==
  /\ cloud \in Clouds
  /\ table \in Maps \cup {None}
  /\ result.call \in {"none", "error", "domain", "density", "pairs", "ions", "census"}
  /\ result.call = "domain" =>
       result.kind \in Kinds /\ result.n \in 0 .. Size /\ result.largest \in 0 .. result.n
  /\ result.call = "density" =>
       result.axis \in {"x", "y", "z"} /\ result.bins \in Nat \ {0} /\ result.of \in {"type", "kind"}
  /\ result.call = "ions" =>
       /\ result.state \in Seq(States)
       /\ Len(result.state) = Len(result.ions) /\ Len(result.members) = Len(result.ions)

-----------------------------------------------------------------------------
(* domainStats *)

(* site::indicesOf *)
IndicesOf(x, t, kind) == {i \in Index : t[x.type[i]] \in Counted[kind]}

Mask(indices) == [i \in Index |-> i \in indices]

(* Mutant: rows stay by index. *)
ByIndexStill(x) == [i \in Index |-> x.near[i] \cap Index]

(* Index rows to the atom-ID rows the engine takes; strays are dropped. *)
ById(x) == [i \in Index |-> {x.id[j] : j \in x.near[i] \cap Index}]

(* clump::largestDomain: the largest connected set of masked atoms, an     *)
(* atom joined to those whose ID its row holds.                            *)
DomainGraph(x, rows, mask) ==
  LET node == {i \in Index : mask[i]}
  IN  [node |-> node, edge |-> {e \in node \X node : x.id[e[2]] \in rows[e[1]]}]

Largest(graph) ==
  LET joined == G!ConnectionsIn(graph)
  IN  F!Max({0} \cup {Cardinality({j \in graph.node : joined[<<i, j>>]}) : i \in graph.node})

DomainStats(x, t, kind) ==
  LET mask == Mask(IndicesOf(x, t, kind))
      graph == DomainGraph(x, ById(x), mask)
  IN  [call |-> "domain", kind |-> kind,
       n |-> Cardinality(graph.node), largest |-> Largest(graph)]

-----------------------------------------------------------------------------
(* density *)

(* axis_index in halves, nil for an unknown name; "z" by default *)
AxisIndex(axis) ==
  IF axis = None THEN 4
  ELSE IF "halves" \in DOMAIN axis THEN axis.halves
  ELSE IF axis.name = "other" THEN None
  ELSE 2 * (CHOOSE a \in Axes : AxisName[a] = axis.name)

(* Mutant: the Lua array is indexed from zero. *)
SpanFromZero(h) == IF h % 2 = 0 /\ h > 0 THEN Edge[h \div 2 - 1] ELSE 0

(* cloud:box()[axis_index + 1] or 0 *)
Span(h) == IF h % 2 = 0 THEN Edge[h \div 2] ELSE 0

AtLeastOne(n) == IF n < 1 THEN 1 ELSE n
Bins(o) == IF o.bins # None THEN o.bins ELSE AtLeastOne(Span(AxisIndex(o.axis)))

(* Mutant: no check of the option. *)
AnyBins(n) == TRUE

SoundBins(n) == n >= 1

(* The option table is accepted by dseams.density. *)
DensityGuard(o) ==
  LET h == AxisIndex(o.axis)
  IN  /\ h # None
      /\ h >= 0 /\ h <= 4
      /\ SoundBins(Bins(o))
      /\ (o.table /\ table # None) <=> o.kind # None

(* The C++ int axis of a Lua number: a checked build refuses a fraction,   *)
(* otherwise sol rounds it to the nearest integer.                         *)
Converts(h) == CheckedBuild => h % 2 = 0
Rounded(h) == (h + 1) \div 2

-----------------------------------------------------------------------------
(* contactPairs *)

(* site::ionCloud: cation heads become type 1, anions type 2; other atoms *)
(* are left out.                                                          *)
IonType(x, t) == [i \in {j \in Index : t[x.type[j]] \in {"cationHead", "anion"}} |->
                   IF t[x.type[i]] = "cationHead" THEN 1 ELSE 2]

(* How nneigh::mutualNearestUnlike names ion i: by its atom ID, as lua.rst *)
(* says of the pairs, or by its place in the ion cloud, as the comment of  *)
(* packPairs has it.  The engine decides; both are admitted.               *)
Spaces == {"id", "index"}
IonName(x, ions, space, i) ==
  IF space = "id" THEN x.id[i] ELSE Cardinality({j \in ions : j < i})

(* The pairs it may find: the closest unlike pair is always mutual. *)
Matchings(ions) ==
  LET of(type) == {i \in DOMAIN ions : ions[i] = type}
  IN  {m \in SUBSET (of(1) \X of(2)) :
         /\ m = {} => of(1) = {} \/ of(2) = {}
         /\ \A p, q \in m : p = q \/ (p[1] # q[1] /\ p[2] # q[2])}

MutualNearestUnlike(x, ions, space, m) ==
  {<<IonName(x, DOMAIN ions, space, p[1]), IonName(x, DOMAIN ions, space, p[2])>> : p \in m}

(* Mutant: the columns of the Lua rows are swapped. *)
PackPairsSwapped(pairs) == {<<p[2], p[1]>> : p \in pairs}

(* row[1] = first, row[2] = second *)
PackPairs(pairs) == {<<p[1], p[2]>> : p \in pairs}

InIons(x, t, type) == Cardinality({i \in DOMAIN IonType(x, t) : IonType(x, t)[i] = type})

-----------------------------------------------------------------------------
(* ionEnvironment *)

(* site::ionEnvironment: the atoms of the water type around an ion. *)
Shell(x, ion, water) == {j \in (x.near[ion] \cap Index) \ {ion} : x.type[j] = water}

(* The states it may give a shell; an empty one is its own affair. *)
StatesOf(shell, flags) ==
  {s \in States : shell # {} =>
     s = IF shell \subseteq flags THEN "ice"
         ELSE IF shell \cap flags = {} THEN "liquid" ELSE "front"}

(* Mutant: the Lua array is filled from zero. *)
FromZero(shells) == [k \in DOMAIN shells |-> IF k < Len(shells) THEN shells[k + 1] ELSE {}]

(* members[i + 1] *)
Packed(shells) == shells

(* site::shellRingCensus: the rings up to a size that touch the shell, by  *)
(* size.                                                                   *)
RingsBySize(rings, shell, cap) ==
  [s \in 0 .. cap |-> Cardinality({r \in rings : Cardinality(r) = s /\ r \cap shell # {}})]

-----------------------------------------------------------------------------
Init ==
  /\ cloud \in Clouds
  /\ table = None
  /\ result = Quiet

(* table = dseams.site_table(spec); table:setType(type, kind) *)
SiteTable(t) ==
  /\ table' = t
  /\ result' = Quiet
  /\ UNCHANGED cloud

SetType(type, kind) ==
  /\ table # None
  /\ [table EXCEPT ![type] = kind] \in Maps
  /\ table' = [table EXCEPT ![type] = kind]
  /\ result' = Quiet
  /\ UNCHANGED cloud

(* dseams.domain(cloud, {table = table or nil, kind = kind or nil}) *)
Domain(given, kind) ==
  IF given /\ table # None /\ kind # None
  THEN Returned(DomainStats(cloud, table, kind))
  ELSE Raised

(* dseams.density(cloud, o) *)
Density(o) ==
  IF DensityGuard(o) /\ Converts(AxisIndex(o.axis))
  THEN Returned([call |-> "density", axis |-> AxisName[Rounded(AxisIndex(o.axis))],
                 bins |-> Bins(o), of |-> IF o.kind = None THEN "type" ELSE "kind",
                 asked |-> [axis |-> o.axis, bins |-> o.bins]])
  ELSE Raised

(* dseams.pairs(cloud, {table = table or nil}) *)
Pairs(given) ==
  IF given /\ table # None
  THEN LET ions == IonType(cloud, table)
       IN  \E m \in Matchings(ions), space \in Spaces :
             LET pairs == MutualNearestUnlike(cloud, ions, space, m)
             IN  Returned([call |-> "pairs", space |-> space, pairs |-> PackPairs(pairs),
                           count |-> Cardinality(pairs),
                           n_cation |-> InIons(cloud, table, 1),
                           n_anion |-> InIons(cloud, table, 2)])
  ELSE Raised

(* dseams.ion_environment(cloud, ice, ions, {type = water}) *)
IonEnvironment(ions, water, flags) ==
  LET shells == [k \in DOMAIN ions |-> Shell(cloud, ions[k], water)]
  IN  \E state \in [DOMAIN ions -> States] :
        /\ \A k \in DOMAIN ions : state[k] \in StatesOf(shells[k], flags)
        /\ Returned([call |-> "ions", ions |-> ions, water |-> water, flags |-> flags,
                     state |-> state, members |-> Packed(shells)])

(* dseams.shell_ring_census(rings, env.members[k], {max_ring = max}) *)
ShellRingCensus(k, rings, max) ==
  /\ result.call = "ions"
  /\ k \in DOMAIN result.members
  /\ Returned([call |-> "census", ion |-> result.ions[k], water |-> result.water,
               flags |-> result.flags, state |-> result.state[k], rings |-> rings, max |-> max,
               census |-> RingsBySize(rings, result.members[k], IF max = None THEN 7 ELSE max)])

Next ==
  \/ \E t \in Maps : SiteTable(t)
  \/ \E type \in Types, kind \in Kinds : SetType(type, kind)
  \/ \E given \in BOOLEAN, kind \in Kinds \cup {None} : Domain(given, kind)
  \/ \E o \in DensityOpts : Density(o)
  \/ \E given \in BOOLEAN : Pairs(given)
  \/ \E ions \in IonLists, water \in Types, flags \in IceFlags : IonEnvironment(ions, water, flags)
  \/ \E rings \in RingSets, max \in RingCaps \cup {None} :
       result.call = "ions" /\ \E k \in DOMAIN result.members : ShellRingCensus(k, rings, max)

Spec == Init /\ [][Next]_vars

-----------------------------------------------------------------------------
(* The sites of a kind and the graph that joins those within the cutoff. *)
SiteGraph(x, t, kind) ==
  LET sites == {i \in Index : t[x.type[i]] \in Counted[kind]}
  IN  [node |-> sites, edge |-> {e \in sites \X sites : e[2] \in x.near[e[1]]}]

(* A domain result describes the sites of its kind under the script's      *)
(* table and the graph that joins those within the cutoff: the detour over *)
(* atom IDs neither adds nor loses a bond (docs/orgmode/reference/lua.org: *)
(* domain).                                                                *)
DomainOfSites ==
  result.call = "domain" =>
     /\ result.n = Cardinality(SiteGraph(cloud, table, result.kind).node)
     /\ result.largest = Largest(SiteGraph(cloud, table, result.kind))

(* Axis a written as the error message lists it; "z" is the default. *)
Written(a) == {[name |-> AxisName[a]], [halves |-> 2 * a]} \cup (IF a = 2 THEN {None} ELSE {})

(* A density has the bins asked for, or as many as the box edge of the axis *)
(* it reports, at least one; only a number between two axes, which no       *)
(* checked build lets through, is cut into one bin along an axis next to it *)
(* (dseams.density).                                                        *)
BinsOfAxis ==
  result.call = "density" =>
    \E a \in Axes :
      /\ result.axis = AxisName[a]
      /\ \/ /\ result.asked.axis \in Written(a)
            /\ result.bins = IF result.asked.bins # None THEN result.asked.bins
                             ELSE AtLeastOne(Edge[a])
         \/ /\ ~CheckedBuild
            /\ result.asked.axis \in [halves : {2 * a - 1, 2 * a + 1}]
            /\ result.bins = IF result.asked.bins # None THEN result.asked.bins ELSE 1

(* The result r pairs the ions that the table t makes of the cloud x. *)
PairsIons(x, t, r) ==
  LET of(kind) == {i \in Index : t[x.type[i]] = kind}
      name(i) == IonName(x, of("cationHead") \cup of("anion"), r.space, i)
  IN  /\ \A p \in r.pairs : \E c \in of("cationHead"), a \in of("anion") : p = <<name(c), name(a)>>
      /\ \A p, q \in r.pairs : p = q \/ (p[1] # q[1] /\ p[2] # q[2])
      /\ r.count = Cardinality(r.pairs)
      /\ r.n_cation = Cardinality(of("cationHead"))
      /\ r.n_anion = Cardinality(of("anion"))
      /\ r.pairs = {} => of("cationHead") = {} \/ of("anion") = {}

(* Contacts join a cation head with an anion, in that order, each ion at    *)
(* most once, whichever way the engine names the ions; count, n_cation and  *)
(* n_anion number the pairs and the ions of the script's table, and there   *)
(* is a pair unless a kind is missing (contactPairs).                       *)
ContactsPairIons == result.call = "pairs" => PairsIons(cloud, table, result)

(* The k-th census and state are those of the k-th ion: the census counts,  *)
(* size by size up to the cap, the rings with a vertex among the water      *)
(* atoms within the cutoff of that ion, whatever flags the script gave and  *)
(* whatever rings it asks about, and the state is read from the flags of    *)
(* those same atoms (ionEnvironment, shellRingCensus).                      *)
CensusOfIon ==
  result.call = "census" =>
    LET shell == {j \in Index : /\ j # result.ion /\ j \in cloud.near[result.ion]
                               /\ cloud.type[j] = result.water}
        cap == IF result.max = None THEN 7 ELSE result.max
    IN  /\ DOMAIN result.census = 0 .. cap
        /\ \A s \in 0 .. cap :
             result.census[s] =
               Cardinality({r \in result.rings : Cardinality(r) = s /\ \E j \in shell : j \in r})
        /\ shell # {} =>
             result.state = IF shell \subseteq result.flags THEN "ice"
                            ELSE IF shell \cap result.flags = {} THEN "liquid" ELSE "front"
=============================================================================
