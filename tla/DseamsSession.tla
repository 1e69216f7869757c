--------------------------- MODULE DseamsSession ---------------------------
(***************************************************************************)
(* A Lua script using dseams and dseams.core on PointCloud userdata.       *)
(*                                                                         *)
(* A PointCloud is one C++ object that every call mutates in place: the    *)
(* correlation calls write its bonds (c_ij), the ice-type calls read them  *)
(* and write its labels.  Nothing in the API ties the two together, so a   *)
(* script may classify bonds by one rule on one list and label by another. *)
(* The helpers of lua/dseams.lua (chill, chill_plus) make the calls in the *)
(* right order on one list; this module says what that is worth in a       *)
(* session that also uses the core calls, the process-wide rule registry   *)
(* and the legacy spellings that take a list by reference.                 *)
(*                                                                         *)
(* Numbers are abstracted to where they come from: a bond carries the rule *)
(* and the neighbour graph it was classified by, a label the method, the   *)
(* bonds and the graph it was derived from.                                *)
(***************************************************************************)
EXTENDS DseamsRead

CONSTANTS
  Clouds,       \* PointCloud objects of the session
  Lists,        \* script variables holding a neighbour list or averageQ6 values
  RuleNames,    \* names a script passes to the rule registry
  RuleTables,   \* rule tables a script passes (partial: missing fields default)
  CheckedBuild, \* sol's argument checks are on (unoptimised build)
  Garbage       \* the content of a list the engine misreads

VARIABLES
  cloud,     \* cloud[c]: None or [atoms, bonds, labels]
  list,      \* list[l]: None or [form, space, graph]
  registry,  \* registry[n]: the rule registered under n, None if none
  last       \* the last call: [op, outcome]

vars == <<cloud, list, registry, last>>

Methods == {"CHILL", "CHILL+"}
Fields == {"staggeredMax", "eclipsedMin", "eclipsedMax", "coordinationNumber"}

(* The engine's two built-in rules; who set each parameter of a rule.  A   *)
(* script's table is filled up from CHILL's parameters, whatever method    *)
(* its name is meant for.                                                  *)
Builtin(method) == [f \in Fields |-> method]
Rules == {Builtin("CHILL+")} \cup [Fields -> {"script", "CHILL"}]

(* A neighbour graph: the type-t graph of some cloud's contents. *)
Graph(a, t) == [atoms |-> a, type |-> t]
Graphs == [atoms : Atoms, type : Types] \cup {Garbage}

Bonds == [rule : Rules, graph : Graphs]
(* q6 is the graph of the averaged q6 values modifyChill last relabelled by. *)
Labels == [method : Methods, bonds : Bonds \cup {None}, graph : Graphs,
           q6 : Graphs \cup {None}]
CloudState == [atoms : Atoms, bonds : Bonds \cup {None}, labels : Labels \cup {None}]

(* A list is a Lua table or container userdata, of atom IDs or indices;    *)
(* what averageQ6 returns is one number per atom.                          *)
ListValue == [form : {"table", "userdata", "values"}, space : {"id", "index"}, graph : Graphs]

Ops == {"none", "read", "list", "rule", "bonds", "labels", "legacy", "helper"}
Outcomes == {"ok", "error", "garbage"}

ASSUME SessionAssumption ==
  /\ Methods \subseteq RuleNames
  /\ \A t \in RuleTables : DOMAIN t \subseteq Fields /\ \A f \in DOMAIN t : t[f] = "script"
  /\ CheckedBuild \in BOOLEAN
  /\ 1 \in Types            \* the helpers' default opts.type

(* nil and a misread list are neither objects nor each other. *)
ASSUME ValueAssumption ==
  /\ None \notin Atoms \cup CloudState \cup ListValue \cup Labels \cup Bonds \cup Rules \cup Graphs
  /\ Garbage # None

TypeOK ==
  /\ cloud \in [Clouds -> CloudState \cup {None}]
  /\ list \in [Lists -> ListValue \cup {None}]
  /\ registry \in [RuleNames -> Rules \cup {None}]
  /\ last \in [op : Ops, outcome : Outcomes]

Call(op, outcome) == last' = [op |-> op, outcome |-> outcome]

(* What a call that wants a cloud and a list is given. *)
Given(c, l) == cloud[c] # None /\ list[l] # None /\ list[l].form # "values"

-----------------------------------------------------------------------------
(* Mutant: the missing fields come from CHILL+. *)
ruleFromPlus(t) == [f \in Fields |-> IF f \in DOMAIN t THEN t[f] ELSE Builtin("CHILL+")[f]]

ruleFromTable(t) == [f \in Fields |-> IF f \in DOMAIN t THEN t[f] ELSE Builtin("CHILL")[f]]

(* What an engine call that wants a list in a given index space makes of   *)
(* the list v.  By value a table and userdata both convert; a reference    *)
(* parameter reads a table as garbage, or is refused where sol checks it.  *)
InSpace(v, space) == IF v.space = space THEN v.graph ELSE Garbage
ByValue(v) == InSpace(v, "id")
ByReference(v, space) == IF v.form = "userdata" THEN InSpace(v, space) ELSE Garbage

(* The engine's two mutations of a cloud x. *)
Correlated(x, rule, graph) == [x EXCEPT !.bonds = [rule |-> rule, graph |-> graph]]
Labelled(x, method, graph) ==
  [x EXCEPT !.labels = [method |-> method, bonds |-> x.bonds, graph |-> graph, q6 |-> None]]

-----------------------------------------------------------------------------
Init ==
  /\ cloud = [c \in Clouds |-> None]
  /\ list = [l \in Lists |-> None]
  /\ registry = [n \in RuleNames |-> IF n \in Methods THEN Builtin(n) ELSE None]
  /\ last = [op |-> "none", outcome |-> "ok"]

NewCloud(a) == [atoms |-> a, bonds |-> None, labels |-> None]

(* cloud = dseams.read(path, opts) *)
Read(c, f, o) ==
  /\ IF DseamsReads(f, o) # None
     THEN /\ cloud' = [cloud EXCEPT ![c] = NewCloud(DseamsReads(f, o))]
          /\ Call("read", "ok")
     ELSE /\ Call("read", "error")
          /\ UNCHANGED cloud
  /\ UNCHANGED <<list, registry>>

(* cloud = core.readLammpsTrjO(path, frame, type): no emptiness check *)
CoreRead(c, f, i, t) ==
  /\ Suffix[f] = "dump"
  /\ cloud' = [cloud EXCEPT ![c] = NewCloud(ReadLammpsTrjO(f, i, t))]
  /\ Call("read", "ok")
  /\ UNCHANGED <<list, registry>>

(* core.neighListO (dseams.neighbors) returns a table, the legacy spelling *)
(* neighborList the same list as userdata.                                 *)
NeighListO(l, c, t, form) ==
  /\ cloud[c] # None
  /\ list' = [list EXCEPT ![l] =
                [form |-> form, space |-> "id", graph |-> Graph(cloud[c].atoms, t)]]
  /\ Call("list", "ok")
  /\ UNCHANGED <<cloud, registry>>

(* list = core.neighbourListByIndex(cloud, list), also bondNetworkByIndex *)
NeighbourListByIndex(l, c) ==
  /\ Given(c, l)
  /\ list' = [list EXCEPT ![l] =
                [form |-> "table", space |-> "index",
                 graph |-> IF ByValue(list[l]) = Garbage \/ list[l].graph.atoms # cloud[c].atoms
                           THEN Garbage ELSE list[l].graph]]
  /\ Call("list", "ok")
  /\ UNCHANGED <<cloud, registry>>

(* core.registerBondClassifier(name, table).  Whether the engine replaces  *)
(* a rule that already has the name is its own business: either outcome.   *)
RegisterBondClassifier(n, t) ==
  /\ \E rule \in {ruleFromTable(t)} \cup ({registry[n]} \ {None}) :
        registry' = [registry EXCEPT ![n] = rule]
  /\ Call("rule", "ok")
  /\ UNCHANGED <<cloud, list>>

SetBonds(c, rule, graph) ==
  /\ cloud' = [cloud EXCEPT ![c] = Correlated(@, rule, graph)]
  /\ UNCHANGED <<list, registry>>

(* core.getCorrel / core.getCorrelPlus(cloud, list, slice) *)
GetCorrel(c, l, method) ==
  /\ Given(c, l)
  /\ SetBonds(c, Builtin(method), ByValue(list[l]))
  /\ Call("bonds", "ok")

(* core.classifyBonds(cloud, list, name): the registry's rule of that name *)
ClassifyBondsByName(c, l, n) ==
  /\ Given(c, l)
  /\ IF registry[n] # None
     THEN /\ SetBonds(c, registry[n], ByValue(list[l]))
          /\ Call("bonds", "ok")
     ELSE /\ Call("bonds", "error")
          /\ UNCHANGED <<cloud, list, registry>>

(* core.classifyBonds(cloud, list, table) *)
ClassifyBondsByTable(c, l, t) ==
  /\ Given(c, l)
  /\ SetBonds(c, ruleFromTable(t), ByValue(list[l]))
  /\ Call("bonds", "ok")

(* core.getIceType* / getIceTypePlus*(cloud, list, ...) *)
GetIceType(c, l, method) ==
  /\ Given(c, l)
  /\ cloud' = [cloud EXCEPT ![c] = Labelled(@, method, ByValue(list[l]))]
  /\ Call("labels", "ok")
  /\ UNCHANGED <<list, registry>>

-----------------------------------------------------------------------------
(* Names that take the list by reference: the legacy chill_* / chillPlus_* *)
(* spellings, and recenterCluster, which moves atoms by an index list and  *)
(* touches neither bonds nor labels.                                       *)
Legacy(c, l, space, mutated) ==
  /\ IF CheckedBuild /\ list[l].form = "table"
     THEN /\ Call("legacy", "error")
          /\ UNCHANGED cloud
     ELSE /\ Call("legacy", IF ByReference(list[l], space) = Garbage THEN "garbage" ELSE "ok")
          /\ cloud' = [cloud EXCEPT ![c] = mutated]
  /\ UNCHANGED <<list, registry>>

LegacyCij(c, l, method) ==
  /\ Given(c, l)
  /\ Legacy(c, l, "id", Correlated(cloud[c], Builtin(method), ByReference(list[l], "id")))

LegacyIceType(c, l, method) ==
  /\ Given(c, l)
  /\ Legacy(c, l, "id", Labelled(cloud[c], method, ByReference(list[l], "id")))

RecenterCluster(c, l) ==
  /\ Given(c, l)
  /\ Legacy(c, l, "index", cloud[c])

(* q6 = core.averageQ6(cloud, list, slice): the list is a reference too *)
AverageQ6(q, c, l) ==
  /\ Given(c, l)
  /\ IF CheckedBuild /\ list[l].form = "table"
     THEN Call("legacy", "error") /\ UNCHANGED list
     ELSE /\ Call("legacy", IF ByReference(list[l], "id") = Garbage THEN "garbage" ELSE "ok")
          /\ list' = [list EXCEPT ![q] = [form |-> "values", space |-> "id",
                                         graph |-> ByReference(list[l], "id")]]
  /\ UNCHANGED <<cloud, registry>>

(* core.modifyChill(cloud, q6) relabels what is labelled water; a cloud    *)
(* without labels has none.                                                *)
ModifyChill(c, q) ==
  /\ cloud[c] # None /\ list[q] # None /\ list[q].form = "values"
  /\ cloud' = [cloud EXCEPT ![c] =
                  IF @.labels = None THEN @ ELSE [@ EXCEPT !.labels.q6 = list[q].graph]]
  /\ Call("labels", "ok")
  /\ UNCHANGED <<list, registry>>

-----------------------------------------------------------------------------
(* dseams.chill / dseams.chill_plus: one list, the correlation call, the   *)
(* ice-type call.  opts.type defaults to 1 whatever the cloud was read as. *)
Neighbors(c, t) ==
  [form |-> "table", space |-> "id", graph |-> Graph(cloud[c].atoms, Or(t, 1))]

(* Mutants: the bonds are classified by the rule registered under the      *)
(* method's name; the two calls swapped.                                   *)
ChilledByRegistry(x, nl, method) ==
  Labelled(Correlated(x, registry[method], ByValue(nl)), method, ByValue(nl))
ChilledLabelsFirst(x, nl, method) ==
  Correlated(Labelled(x, method, ByValue(nl)), Builtin(method), ByValue(nl))

Chilled(x, nl, method) ==
  Labelled(Correlated(x, Builtin(method), ByValue(nl)), method, ByValue(nl))

Chill(c, t, method) ==
  /\ cloud[c] # None
  /\ cloud' = [cloud EXCEPT ![c] = Chilled(@, Neighbors(c, t), method)]
  /\ Call("helper", "ok")
  /\ UNCHANGED <<list, registry>>

(* One of the three engine calls raises and the script catches it.  A call *)
(* that raises has written nothing, but the ones before it have: the new   *)
(* bonds stay beside the old labels.                                       *)
ChillFails(c, t, method) ==
  /\ cloud[c] # None
  /\ \/ UNCHANGED cloud
     \/ cloud' = [cloud EXCEPT ![c] =
                     Correlated(@, Builtin(method), ByValue(Neighbors(c, t)))]
  /\ Call("helper", "error")
  /\ UNCHANGED <<list, registry>>

-----------------------------------------------------------------------------
(* Calls that do not label: what a script may do between two helper calls. *)
BondStep ==
  \/ \E c \in Clouds, f \in Files, o \in ReadOpts : Read(c, f, o)
  \/ \E l \in Lists, c \in Clouds, t \in Types, form \in {"table", "userdata"} :
        NeighListO(l, c, t, form)
  \/ \E l \in Lists, c \in Clouds : NeighbourListByIndex(l, c) \/ RecenterCluster(c, l)
  \/ \E q, l \in Lists, c \in Clouds : AverageQ6(q, c, l)
  \/ \E n \in RuleNames, t \in RuleTables : RegisterBondClassifier(n, t)
  \/ \E c \in Clouds, l \in Lists :
        \/ \E method \in Methods : GetCorrel(c, l, method) \/ LegacyCij(c, l, method)
        \/ \E n \in RuleNames : ClassifyBondsByName(c, l, n)
        \/ \E t \in RuleTables : ClassifyBondsByTable(c, l, t)

HelperStep ==
  \E c \in Clouds, t \in Types \cup {None}, method \in Methods :
     Chill(c, t, method) \/ ChillFails(c, t, method)

CoreStep ==
  \/ \E c \in Clouds, f \in Files, i \in Frames, t \in Types : CoreRead(c, f, i, t)
  \/ \E c \in Clouds, l \in Lists :
        \/ ModifyChill(c, l)
        \/ \E method \in Methods : GetIceType(c, l, method) \/ LegacyIceType(c, l, method)

(* Any script; and a script that labels through the helpers only. *)
Next == BondStep \/ HelperStep \/ CoreStep
Spec == Init /\ [][Next]_vars

HelperNext == BondStep \/ HelperStep
HelperSpec == Init /\ [][HelperNext]_vars

-----------------------------------------------------------------------------
(* What the labelling may hold and the rules its methods are defined by. *)
NonEmpty == {a \in Atoms : a.kept # {}}
OwnRules == [method \in Methods |-> Builtin(method)]

(* The helper scripts implement the abstract labelling: no sequence of     *)
(* bond calls, rule registrations, misread lists, failed helper calls or   *)
(* earlier labellings reaches the labels a helper leaves on a cloud        *)
(* (dseams.lua:101-113).                                                   *)
Labelling == INSTANCE IceLabelling WITH
  Contents <- NonEmpty,
  OwnRule <- OwnRules,
  atoms <- [c \in Clouds |-> IF cloud[c] = None THEN None ELSE cloud[c].atoms],
  labels <- [c \in Clouds |-> IF cloud[c] = None THEN None ELSE cloud[c].labels]

HelpersLabel == Labelling!Spec

(* On every path, dseams.read answers the call (dseams.lua:24-57): it      *)
(* succeeds exactly when this build can read the file and the frame holds  *)
(* an atom of a type asked for, and returns all of those, or type 2 rather *)
(* than type 1 where no type was given to a dump.  So a script that reads  *)
(* through it never holds a cloud that is not the answer to some call.     *)
ReadsAnswer ==
  /\ \A f \in Files, o \in ReadOpts : DseamsReads(f, o) = Answer(f, o)
  /\ \A c \in Clouds : cloud[c] # None =>
        \E f \in Files, o \in ReadOpts : cloud[c].atoms = Answer(f, o)

(* In any script, however its core and legacy calls have mixed rules,      *)
(* lists and methods on a cloud before, one helper call that returns       *)
(* leaves the labels of its own method, rule and graph there and touches   *)
(* no other cloud.                                                         *)
HelperHeals ==
  [][last' = [op |-> "helper", outcome |-> "ok"] =>
       \E c \in Clouds, method \in Methods, t \in Types :
          /\ cloud[c] # None
          /\ cloud'[c].atoms = cloud[c].atoms
          /\ cloud'[c].labels = Labelling!Fresh(method, cloud[c].atoms, t)
          /\ \A other \in Clouds \ {c} : cloud'[other] = cloud[other]]_vars

(* Documented in lua_api.hpp:23-25: a name that takes a neighbour list     *)
(* binds a Lua table and a container userdata alike.  recenterCluster      *)
(* takes its list by reference (lua_api.cpp:957-958).                      *)
ListsBind ==
  [][\A c \in Clouds, l \in Lists :
       (RecenterCluster(c, l) /\ InSpace(list[l], "index") # Garbage)
       => last'.outcome = "ok"]_vars

(* Shown in README.md:24-26: read a dump and label it, with no type given  *)
(* to either.  The labels come from a graph of atoms the cloud holds.      *)
DefaultsAgree ==
  [][\A c \in Clouds, f \in Files, method \in Methods :
       (/\ cloud[c] # None
        /\ cloud[c].atoms = DseamsReads(f, [frame |-> None, type |-> None, all |-> FALSE])
        /\ Chill(c, None, method))
       => cloud'[c].labels.graph.type \in cloud[c].atoms.kept]_vars
=============================================================================
