------------------------ MODULE DseamsSession_proofs ------------------------
(***************************************************************************)
(* Theorems about DseamsSession, for every set of files, clouds, lists and *)
(* rules.                                                                  *)
(***************************************************************************)
EXTENDS DseamsSession, TLAPS


-----------------------------------------------------------------------------
(* What the readers return. *)

LEMMA HeldAtoms ==
  ASSUME NEW f \in Files, NEW i \in Frames, NEW S
  PROVE  Held(f, i, S) \in Atoms
  BY ReadAssumption DEF Held, Atoms

LEMMA Defaults == 1 \in Types /\ 1 \in Frames
  BY SessionAssumption, ReadAssumption DEF Frames

(* The types asked for, unfolded once. *)
LEMMA AskedAtoms ==
  ASSUME NEW f \in Files, NEW o \in ReadOpts
  PROVE  /\ Or(o.frame, 1) \in Frames
         /\ Asked(f, o) \in Atoms
         /\ \A k \in SUBSET Types : [Asked(f, o) EXCEPT !.kept = k] \in Atoms
  <1>1. Or(o.frame, 1) \in Frames
    BY Defaults DEF Or, ReadOpts
  <1>2. Asked(f, o) \in Atoms
    <2>1. (IF Suffix[f] = "xyz" THEN 1 ELSE Or(o.frame, 1)) \in Frames
      BY <1>1, Defaults
    <2> QED BY <2>1, HeldAtoms DEF Asked
  <1> QED BY <1>1, <1>2 DEF Atoms

(* An answer holds atoms. *)
LEMMA AnswerAtoms ==
  ASSUME NEW f \in Files, NEW o \in ReadOpts, Answer(f, o) # None
  PROVE  Answer(f, o) \in Atoms /\ Answer(f, o).kept # {}
  <1>1. Asked(f, o).kept # {}
    BY DEF Answer
  <1>2. CASE Defaulted(f, o) /\ 2 \in Asked(f, o).kept
    <2>1. Asked(f, o) \in Atoms
      BY AskedAtoms
    <2>2. {2} \in SUBSET Types
      BY <1>2, <2>1 DEF Atoms
    <2>3. Answer(f, o) = [Asked(f, o) EXCEPT !.kept = {2}]
      BY <1>1, <1>2 DEF Answer
    <2>4. [Asked(f, o) EXCEPT !.kept = {2}].kept = {2}
      BY <2>1 DEF Atoms
    <2>5. [Asked(f, o) EXCEPT !.kept = {2}] \in Atoms
      BY <2>1, <2>2 DEF Atoms
    <2> QED BY <2>3, <2>4, <2>5
  <1>3. CASE ~(Defaulted(f, o) /\ 2 \in Asked(f, o).kept)
    BY <1>1, <1>3, AskedAtoms DEF Answer
  <1> QED BY <1>2, <1>3

(* Each path of dseams.read ends in the answer to the call.                *)
LEMMA PathsAnswer ==
  ASSUME NEW f \in Files, NEW o \in ReadOpts
  PROVE  DseamsReads(f, o) = Answer(f, o)
  <1> DEFINE i == Or(o.frame, 1)
  <1> USE DEF require_nonempty, Held, Typed, Defaulted, Built
  <1>1. CASE Suffix[f] = "xyz"
    <2>1. Asked(f, o) = Held(f, 1, Types)
      BY <1>1 DEF Asked
    <2> QED BY <1>1, <2>1 DEF DseamsReads, ReadXyz, Answer
  <1>2. CASE Suffix[f] = "con"
    <2>1. Asked(f, o) = Held(f, i, Types)
      BY <1>2 DEF Asked
    <2> QED BY <1>2, <2>1 DEF DseamsReads, ReadCon, Answer
  <1>3. CASE Suffix[f] = "chemfiles"
    <2>1. Asked(f, o) = Held(f, i, IF o.type = None THEN Types ELSE {o.type})
      BY <1>3 DEF Asked
    <2> QED BY <1>3, <2>1 DEF DseamsReads, ReadChemfiles, Answer
  <1>4. CASE Suffix[f] = "dump" /\ o.all
    <2>1. Asked(f, o) = Held(f, i, Types)
      BY <1>4 DEF Asked
    <2> QED BY <1>4, <2>1 DEF DseamsReads, ReadAll, Answer
  <1>5. CASE Suffix[f] = "dump" /\ ~o.all /\ o.type # None
    <2>1. Asked(f, o) = Held(f, i, {o.type})
      BY <1>5 DEF Asked
    <2> QED BY <1>5, <2>1 DEF DseamsReads, ReadTyped, ReadLammpsTrjO, Answer
  <1>6. CASE Suffix[f] = "dump" /\ ~o.all /\ o.type = None
    <2>1. Asked(f, o) = Held(f, i, {1, 2})
      BY <1>6 DEF Asked
    <2> DEFINE there == Present[f][i]
    <2>2. DseamsReads(f, o) = ReadDefault(f, i)
      BY <1>6 DEF DseamsReads
    <2>3. CASE 2 \in there
      <3>1. ReadDefault(f, i) = Held(f, i, {2})
        BY <2>3 DEF ReadDefault, ReadLammpsTrjO
      <3>2. Held(f, i, {2}) = [Held(f, i, {1, 2}) EXCEPT !.kept = {2}]
        BY <2>3
      <3>3. Asked(f, o).kept # {} /\ 2 \in Asked(f, o).kept
        BY <2>1, <2>3
      <3>4. Answer(f, o) = [Asked(f, o) EXCEPT !.kept = {2}]
        BY <1>6, <3>3 DEF Answer
      <3> QED BY <2>1, <2>2, <3>1, <3>2, <3>4
    <2>4. CASE 2 \notin there
      <3>1. Held(f, i, {2}).kept = {} /\ Held(f, i, {1, 2}) = Held(f, i, {1})
        BY <2>4
      <3>2. ReadDefault(f, i) = require_nonempty(Held(f, i, {1}))
        BY <3>1 DEF ReadDefault, ReadLammpsTrjO
      <3>3. Answer(f, o) = IF Asked(f, o).kept = {} THEN None ELSE Asked(f, o)
        BY <1>6, <2>1, <2>4 DEF Answer
      <3> QED BY <2>1, <2>2, <3>1, <3>2, <3>3
    <2> QED BY <2>3, <2>4
  <1>7. Suffix[f] \in Suffixes /\ o.all \in BOOLEAN
    BY ReadAssumption DEF ReadOpts
  <1> QED BY <1>1, <1>2, <1>3, <1>4, <1>5, <1>6, <1>7 DEF Suffixes

-----------------------------------------------------------------------------
(* The values the calls build are of their types. *)

LEMMA RuleTypes ==
  /\ \A method \in Methods : Builtin(method) \in Rules
  /\ \A t \in RuleTables : ruleFromTable(t) \in Rules
  <1>1. \A method \in Methods : Builtin(method) \in Rules
    <2>1. Builtin("CHILL") \in [Fields -> {"script", "CHILL"}]
      BY DEF Builtin
    <2> QED BY <2>1 DEF Rules, Methods
  <1>2. ASSUME NEW t \in RuleTables PROVE ruleFromTable(t) \in Rules
    <2>1. \A f \in Fields :
            (IF f \in DOMAIN t THEN t[f] ELSE Builtin("CHILL")[f]) \in {"script", "CHILL"}
      BY SessionAssumption DEF Builtin
    <2> QED BY <2>1 DEF ruleFromTable, Rules
  <1> QED BY <1>1, <1>2

LEMMA GraphTypes ==
  /\ \A a \in Atoms, t \in Types : Graph(a, t) \in Graphs
  /\ \A v \in ListValue : ByValue(v) \in Graphs
  /\ \A v \in ListValue, space \in {"id", "index"} : ByReference(v, space) \in Graphs
  BY DEF Graph, Graphs, ListValue, ByValue, ByReference, InSpace

LEMMA CorrelatedTypes ==
  ASSUME NEW x \in CloudState, NEW rule \in Rules, NEW graph \in Graphs
  PROVE  /\ Correlated(x, rule, graph) \in CloudState
         /\ Correlated(x, rule, graph).atoms = x.atoms
         /\ Correlated(x, rule, graph).labels = x.labels
         /\ Correlated(x, rule, graph).bonds = [rule |-> rule, graph |-> graph]
  BY DEF Correlated, CloudState, Bonds

LEMMA LabelledTypes ==
  ASSUME NEW x \in CloudState, NEW graph \in Graphs, NEW method \in Methods
  PROVE  /\ Labelled(x, method, graph) \in CloudState
         /\ Labelled(x, method, graph).atoms = x.atoms
         /\ Labelled(x, method, graph).labels
              = [method |-> method, bonds |-> x.bonds, graph |-> graph, q6 |-> None]
  BY DEF Labelled, CloudState, Labels

(* Correlating and labelling on one graph leaves fresh labels. *)
LEMMA ChilledFresh ==
  ASSUME NEW x \in CloudState, NEW graph \in Graphs, NEW method \in Methods
  PROVE  LET y == Labelled(Correlated(x, Builtin(method), graph), method, graph)
         IN  /\ y \in CloudState
             /\ y.atoms = x.atoms
             /\ y.labels = [method |-> method, graph |-> graph, q6 |-> None,
                            bonds |-> [rule |-> Builtin(method), graph |-> graph]]
  <1> DEFINE y == Correlated(x, Builtin(method), graph)
  <1>1. /\ y \in CloudState
        /\ y.atoms = x.atoms
        /\ y.bonds = [rule |-> Builtin(method), graph |-> graph]
    BY RuleTypes, CorrelatedTypes
  <1> HIDE DEF y
  <1>2. /\ Labelled(y, method, graph) \in CloudState
        /\ Labelled(y, method, graph).atoms = y.atoms
        /\ Labelled(y, method, graph).labels
             = [method |-> method, bonds |-> y.bonds, graph |-> graph, q6 |-> None]
    BY <1>1, LabelledTypes
  <1> QED BY <1>1, <1>2 DEF y

(* What a helper call leaves on the cloud it is given. *)
LEMMA HelperCall ==
  ASSUME NEW c \in Clouds, cloud[c] \in CloudState, NEW t \in Types \cup {None},
         NEW method \in Methods
  PROVE  LET x == Chilled(cloud[c], Neighbors(c, t), method)
         IN  /\ x \in CloudState
             /\ x.atoms = cloud[c].atoms
             /\ Or(t, 1) \in Types
             /\ x.labels = Labelling!Fresh(method, cloud[c].atoms, Or(t, 1))
  <1> DEFINE g == Graph(cloud[c].atoms, Or(t, 1))
  <1>1. Or(t, 1) \in Types
    BY SessionAssumption DEF Or
  <1>2. cloud[c].atoms \in Atoms
    BY DEF CloudState
  <1>3. g \in Graphs
    BY <1>1, <1>2, GraphTypes
  <1>4. ByValue(Neighbors(c, t)) = g
    BY DEF ByValue, InSpace, Neighbors
  <1>5. Chilled(cloud[c], Neighbors(c, t), method)
          = Labelled(Correlated(cloud[c], Builtin(method), g), method, g)
    BY <1>4 DEF Chilled
  <1>6. Labelling!Fresh(method, cloud[c].atoms, Or(t, 1))
          = [method |-> method, graph |-> g, q6 |-> None,
             bonds |-> [rule |-> Builtin(method), graph |-> g]]
    BY DEF Labelling!Fresh, Graph, OwnRules
  <1> HIDE DEF g
  <1> QED BY <1>1, <1>3, <1>5, <1>6, ChilledFresh

-----------------------------------------------------------------------------
(* Type correctness. *)

LEMMA TypeOKInit == Init => TypeOK
  BY RuleTypes, SessionAssumption DEF Init, TypeOK, Ops, Outcomes

(* The calls that only write bonds, lists, rules or a new cloud. *)
LEMMA TypeOKBondStep == TypeOK /\ BondStep => TypeOK'
  <1> SUFFICES ASSUME TypeOK, BondStep PROVE TypeOK'
    OBVIOUS
  <1> USE DEF TypeOK, Call, Ops, Outcomes
  <1>1. ASSUME NEW c \in Clouds, NEW f \in Files, NEW o \in ReadOpts, Read(c, f, o)
        PROVE  TypeOK'
    <2>1. DseamsReads(f, o) # None => NewCloud(DseamsReads(f, o)) \in CloudState
      BY PathsAnswer, AnswerAtoms DEF NewCloud, CloudState
    <2> QED BY <1>1, <2>1 DEF Read
  <1>2. ASSUME NEW l \in Lists, NEW c \in Clouds, NEW t \in Types,
               NEW form \in {"table", "userdata"}, NeighListO(l, c, t, form)
        PROVE  TypeOK'
    <2>1. cloud[c] \in CloudState
      BY <1>2 DEF NeighListO
    <2>2. Graph(cloud[c].atoms, t) \in Graphs
      BY <2>1, GraphTypes DEF CloudState
    <2>3. [form |-> form, space |-> "id", graph |-> Graph(cloud[c].atoms, t)] \in ListValue
      BY <2>2 DEF ListValue
    <2> QED BY <1>2, <2>3 DEF NeighListO
  <1>3. ASSUME NEW l \in Lists, NEW c \in Clouds, NeighbourListByIndex(l, c)
        PROVE  TypeOK'
    <2>1. list[l] \in ListValue
      BY <1>3 DEF NeighbourListByIndex, Given
    <2>2. list[l].graph \in Graphs /\ Garbage \in Graphs
      BY <2>1 DEF ListValue, Graphs
    <2> QED BY <1>3, <2>2 DEF NeighbourListByIndex, ListValue
  <1>4. ASSUME NEW l \in Lists, NEW c \in Clouds, RecenterCluster(c, l)
        PROVE  TypeOK'
    BY <1>4 DEF RecenterCluster, Legacy, Given
  <1>5. ASSUME NEW n \in RuleNames, NEW t \in RuleTables, RegisterBondClassifier(n, t)
        PROVE  TypeOK'
    <2>1. {ruleFromTable(t)} \cup ({registry[n]} \ {None}) \subseteq Rules
      BY RuleTypes
    <2> QED BY <1>5, <2>1 DEF RegisterBondClassifier
  <1>6. ASSUME NEW c \in Clouds, NEW l \in Lists, NEW method \in Methods,
               GetCorrel(c, l, method)
        PROVE  TypeOK'
    <2>1. cloud[c] \in CloudState /\ list[l] \in ListValue
      BY <1>6 DEF GetCorrel, Given
    <2>2. Correlated(cloud[c], Builtin(method), ByValue(list[l])) \in CloudState
      BY <2>1, RuleTypes, GraphTypes, CorrelatedTypes
    <2> QED BY <1>6, <2>2 DEF GetCorrel, SetBonds
  <1>7. ASSUME NEW c \in Clouds, NEW l \in Lists, NEW method \in Methods,
               LegacyCij(c, l, method)
        PROVE  TypeOK'
    <2>1. cloud[c] \in CloudState /\ list[l] \in ListValue
      BY <1>7 DEF LegacyCij, Given
    <2>2. Correlated(cloud[c], Builtin(method), ByReference(list[l], "id")) \in CloudState
      BY <2>1, RuleTypes, GraphTypes, CorrelatedTypes
    <2> QED BY <1>7, <2>2 DEF LegacyCij, Legacy
  <1>8. ASSUME NEW c \in Clouds, NEW l \in Lists, NEW n \in RuleNames,
               ClassifyBondsByName(c, l, n)
        PROVE  TypeOK'
    <2>1. cloud[c] \in CloudState /\ list[l] \in ListValue
      BY <1>8 DEF ClassifyBondsByName, Given
    <2>2. registry[n] # None
            => Correlated(cloud[c], registry[n], ByValue(list[l])) \in CloudState
      <3>1. ByValue(list[l]) \in Graphs
        BY <2>1, GraphTypes
      <3>2. registry[n] # None => registry[n] \in Rules
        OBVIOUS
      <3> QED BY <2>1, <3>1, <3>2, CorrelatedTypes
    <2> QED BY <1>8, <2>2 DEF ClassifyBondsByName, SetBonds
  <1>9. ASSUME NEW c \in Clouds, NEW l \in Lists, NEW t \in RuleTables,
               ClassifyBondsByTable(c, l, t)
        PROVE  TypeOK'
    <2>1. cloud[c] \in CloudState /\ list[l] \in ListValue
      BY <1>9 DEF ClassifyBondsByTable, Given
    <2>2. Correlated(cloud[c], ruleFromTable(t), ByValue(list[l])) \in CloudState
      BY <2>1, RuleTypes, GraphTypes, CorrelatedTypes
    <2> QED BY <1>9, <2>2 DEF ClassifyBondsByTable, SetBonds
  <1>10. ASSUME NEW q \in Lists, NEW l \in Lists, NEW c \in Clouds, AverageQ6(q, c, l)
         PROVE  TypeOK'
    <2>1. list[l] \in ListValue
      BY <1>10 DEF AverageQ6, Given
    <2>2. ByReference(list[l], "id") \in Graphs
      BY <2>1, GraphTypes
    <2>3. [form |-> "values", space |-> "id", graph |-> ByReference(list[l], "id")] \in ListValue
      BY <2>2 DEF ListValue
    <2> QED BY <1>10, <2>3 DEF AverageQ6
  <1> QED
    BY <1>1, <1>2, <1>3, <1>4, <1>5, <1>6, <1>7, <1>8, <1>9, <1>10 DEF BondStep

(* A failed helper call has at most written the new bonds. *)
LEMMA FailedHelperCall ==
  ASSUME TypeOK, NEW c \in Clouds, NEW t \in Types \cup {None}, NEW method \in Methods,
         ChillFails(c, t, method)
  PROVE  \/ cloud' = cloud
         \/ \E rule \in Rules, graph \in Graphs :
               /\ cloud[c] # None
               /\ cloud' = [cloud EXCEPT ![c] = Correlated(cloud[c], rule, graph)]
  <1>1. cloud[c] \in CloudState /\ Or(t, 1) \in Types
    BY SessionAssumption DEF TypeOK, ChillFails, Or
  <1>2. Builtin(method) \in Rules
    BY RuleTypes
  <1>3. ByValue(Neighbors(c, t)) = Graph(cloud[c].atoms, Or(t, 1))
    BY DEF ByValue, InSpace, Neighbors
  <1>4. ByValue(Neighbors(c, t)) \in Graphs
    BY <1>1, <1>3, GraphTypes DEF CloudState
  <1> QED BY <1>2, <1>4 DEF ChillFails

LEMMA TypeOKHelperStep == TypeOK /\ HelperStep => TypeOK'
  <1> SUFFICES ASSUME TypeOK,
                      NEW c \in Clouds, NEW t \in Types \cup {None}, NEW method \in Methods,
                      Chill(c, t, method) \/ ChillFails(c, t, method)
               PROVE  TypeOK'
    BY DEF HelperStep
  <1>1. CASE Chill(c, t, method)
    <2>1. cloud[c] \in CloudState
      BY <1>1 DEF TypeOK, Chill
    <2>2. Chilled(cloud[c], Neighbors(c, t), method) \in CloudState
      BY <2>1, HelperCall
    <2> QED BY <1>1, <2>2 DEF Chill, TypeOK, Call, Ops, Outcomes
  <1>2. CASE ChillFails(c, t, method)
    <2>1. cloud[c] \in CloudState
      BY <1>2 DEF TypeOK, ChillFails
    <2>2. cloud \in [Clouds -> CloudState \cup {None}]
      BY DEF TypeOK
    <2>3. cloud' \in [Clouds -> CloudState \cup {None}]
      <3>1. CASE cloud' = cloud
        BY <2>2, <3>1
      <3>2. CASE ~(cloud' = cloud)
        <4>1. PICK rule \in Rules, graph \in Graphs :
                cloud' = [cloud EXCEPT ![c] = Correlated(cloud[c], rule, graph)]
          BY <1>2, <3>2, FailedHelperCall
        <4>2. Correlated(cloud[c], rule, graph) \in CloudState
          BY <2>1, CorrelatedTypes
        <4> QED BY <2>2, <4>1, <4>2
      <3> QED BY <3>1, <3>2
    <2> QED BY <1>2, <2>3 DEF ChillFails, TypeOK, Call, Ops, Outcomes
  <1> QED BY <1>1, <1>2

LEMMA TypeOKCoreStep == TypeOK /\ CoreStep => TypeOK'
  <1> SUFFICES ASSUME TypeOK, CoreStep PROVE TypeOK'
    OBVIOUS
  <1> USE DEF TypeOK, Call, Ops, Outcomes
  <1>1. ASSUME NEW c \in Clouds, NEW f \in Files, NEW i \in Frames, NEW t \in Types,
               CoreRead(c, f, i, t)
        PROVE  TypeOK'
    <2>1. NewCloud(ReadLammpsTrjO(f, i, t)) \in CloudState
      BY HeldAtoms DEF ReadLammpsTrjO, NewCloud, CloudState
    <2> QED BY <1>1, <2>1 DEF CoreRead
  <1>2. ASSUME NEW c \in Clouds, NEW l \in Lists, NEW method \in Methods,
               GetIceType(c, l, method)
        PROVE  TypeOK'
    <2>1. cloud[c] \in CloudState /\ list[l] \in ListValue
      BY <1>2 DEF GetIceType, Given
    <2>2. Labelled(cloud[c], method, ByValue(list[l])) \in CloudState
      BY <2>1, RuleTypes, GraphTypes, LabelledTypes
    <2> QED BY <1>2, <2>2 DEF GetIceType
  <1>3. ASSUME NEW c \in Clouds, NEW l \in Lists, NEW method \in Methods,
               LegacyIceType(c, l, method)
        PROVE  TypeOK'
    <2>1. cloud[c] \in CloudState /\ list[l] \in ListValue
      BY <1>3 DEF LegacyIceType, Given
    <2>2. Labelled(cloud[c], method, ByReference(list[l], "id")) \in CloudState
      BY <2>1, RuleTypes, GraphTypes, LabelledTypes
    <2> QED BY <1>3, <2>2 DEF LegacyIceType, Legacy
  <1>4. ASSUME NEW c \in Clouds, NEW q \in Lists, ModifyChill(c, q)
        PROVE  TypeOK'
    <2>1. cloud[c] \in CloudState /\ list[q] \in ListValue
      BY <1>4 DEF ModifyChill
    <2>2. list[q].graph \in Graphs
      BY <2>1 DEF ListValue
    <2>3. cloud[c].labels # None => [cloud[c] EXCEPT !.labels.q6 = list[q].graph] \in CloudState
      BY <2>1, <2>2 DEF CloudState, Labels
    <2> QED BY <1>4, <2>1, <2>3 DEF ModifyChill
  <1> QED BY <1>1, <1>2, <1>3, <1>4 DEF CoreStep

(* Every value a session holds has its type (seams: lua_api.cpp bindings). *)
THEOREM SessionTyped == Spec => []TypeOK
  <1>1. TypeOK /\ [Next]_vars => TypeOK'
    <2>1. TypeOK /\ UNCHANGED vars => TypeOK'
      BY DEF TypeOK, vars
    <2> QED BY <2>1, TypeOKBondStep, TypeOKHelperStep, TypeOKCoreStep DEF Next
  <1> QED BY <1>1, TypeOKInit, PTL DEF Spec

-----------------------------------------------------------------------------
(* Helper scripts. *)

LEMMA BondStepLabels ==
  ASSUME TypeOK, BondStep
  PROVE  \/ \E c \in Clouds, f \in Files, o \in ReadOpts :
               /\ Answer(f, o) # None
               /\ cloud' = [cloud EXCEPT ![c] = NewCloud(Answer(f, o))]
         \/ \E c \in Clouds, rule \in Rules, graph \in Graphs :
               /\ cloud[c] # None
               /\ cloud' = [cloud EXCEPT ![c] = Correlated(cloud[c], rule, graph)]
         \/ cloud' = cloud
  <1> USE DEF TypeOK
  <1>1. ASSUME NEW c \in Clouds, NEW f \in Files, NEW o \in ReadOpts, Read(c, f, o)
        PROVE  \/ /\ Answer(f, o) # None
                  /\ cloud' = [cloud EXCEPT ![c] = NewCloud(Answer(f, o))]
               \/ cloud' = cloud
    BY <1>1, PathsAnswer DEF Read
  <1>2. ASSUME NEW c \in Clouds, NEW l \in Lists, RecenterCluster(c, l)
        PROVE  cloud' = cloud
    BY <1>2 DEF RecenterCluster, Legacy
  <1>3. ASSUME NEW c \in Clouds, NEW l \in Lists, list[l] # None, cloud[c] # None
        PROVE  ByValue(list[l]) \in Graphs /\ ByReference(list[l], "id") \in Graphs
    BY <1>3, GraphTypes
  <1>4. ASSUME NEW c \in Clouds, NEW l \in Lists, NEW method \in Methods,
               GetCorrel(c, l, method) \/ LegacyCij(c, l, method)
        PROVE  \/ \E rule \in Rules, graph \in Graphs :
                     /\ cloud[c] # None
                     /\ cloud' = [cloud EXCEPT ![c] = Correlated(cloud[c], rule, graph)]
               \/ cloud' = cloud
    <2>1. Builtin(method) \in Rules
      BY RuleTypes
    <2>2. CASE GetCorrel(c, l, method)
      BY <2>1, <2>2, <1>3 DEF GetCorrel, SetBonds, Given
    <2>3. CASE LegacyCij(c, l, method)
      BY <2>1, <2>3, <1>3 DEF LegacyCij, Legacy, Given
    <2> QED BY <1>4, <2>2, <2>3
  <1>5. ASSUME NEW c \in Clouds, NEW l \in Lists, NEW n \in RuleNames,
               ClassifyBondsByName(c, l, n)
        PROVE  \/ \E rule \in Rules, graph \in Graphs :
                     /\ cloud[c] # None
                     /\ cloud' = [cloud EXCEPT ![c] = Correlated(cloud[c], rule, graph)]
               \/ cloud' = cloud
    BY <1>3, <1>5 DEF ClassifyBondsByName, SetBonds, Given
  <1>6. ASSUME NEW c \in Clouds, NEW l \in Lists, NEW t \in RuleTables,
               ClassifyBondsByTable(c, l, t)
        PROVE  \E rule \in Rules, graph \in Graphs :
                  /\ cloud[c] # None
                  /\ cloud' = [cloud EXCEPT ![c] = Correlated(cloud[c], rule, graph)]
    BY <1>3, <1>6, RuleTypes DEF ClassifyBondsByTable, SetBonds, Given
  <1>7. BondStep =>
          \/ \E c \in Clouds, f \in Files, o \in ReadOpts : Read(c, f, o)
          \/ \E c \in Clouds, l \in Lists :
                \/ RecenterCluster(c, l)
                \/ \E method \in Methods : GetCorrel(c, l, method) \/ LegacyCij(c, l, method)
                \/ \E n \in RuleNames : ClassifyBondsByName(c, l, n)
                \/ \E t \in RuleTables : ClassifyBondsByTable(c, l, t)
          \/ cloud' = cloud
    BY DEF BondStep, NeighListO, NeighbourListByIndex, RegisterBondClassifier, AverageQ6
  <1> QED BY <1>1, <1>2, <1>4, <1>5, <1>6, <1>7

(* Every cloud holds the answer to some call of dseams.read. *)
Answers == {Answer(f, o) : f \in Files, o \in ReadOpts}
HoldAnswers == \A c \in Clouds : cloud[c] # None => cloud[c].atoms \in Answers

LEMMA CorrelatedKeepsAtoms ==
  ASSUME TypeOK, HoldAnswers,
         \/ cloud' = cloud
         \/ \E c \in Clouds, rule \in Rules, graph \in Graphs :
               /\ cloud[c] # None
               /\ cloud' = [cloud EXCEPT ![c] = Correlated(cloud[c], rule, graph)]
  PROVE  HoldAnswers'
  <1>1. ASSUME NEW c \in Clouds, NEW rule \in Rules, NEW graph \in Graphs, cloud[c] # None,
               cloud' = [cloud EXCEPT ![c] = Correlated(cloud[c], rule, graph)]
        PROVE  HoldAnswers'
    <2>1. cloud[c] \in CloudState
      BY <1>1 DEF TypeOK
    <2>2. Correlated(cloud[c], rule, graph).atoms = cloud[c].atoms
      BY <2>1, CorrelatedTypes
    <2> QED BY <1>1, <2>2 DEF HoldAnswers, TypeOK
  <1>2. CASE cloud' = cloud
    BY <1>2 DEF HoldAnswers
  <1> QED BY <1>1, <1>2

(* Every path of dseams.read answers its call, and a script that reads     *)
(* through it holds answers only, whatever it does with them.              *)
THEOREM ReadsAnswerCalls == HelperSpec => [](TypeOK /\ ReadsAnswer)
  <1> DEFINE Inv == TypeOK /\ HoldAnswers
  <1>1. Init => Inv
    BY TypeOKInit DEF Init, HoldAnswers
  <1>2. ASSUME Inv, BondStep PROVE HoldAnswers'
    <2>1. ASSUME NEW c \in Clouds, NEW f \in Files, NEW o \in ReadOpts,
                 cloud' = [cloud EXCEPT ![c] = NewCloud(Answer(f, o))]
          PROVE  HoldAnswers'
      <3>1. Answer(f, o) \in Answers
        BY DEF Answers
      <3> QED BY <1>2, <2>1, <3>1 DEF HoldAnswers, TypeOK, NewCloud
    <2> QED BY <1>2, <2>1, CorrelatedKeepsAtoms, BondStepLabels
  <1>3. ASSUME Inv, HelperStep PROVE HoldAnswers'
    <2> SUFFICES ASSUME NEW c \in Clouds, NEW t \in Types \cup {None}, NEW method \in Methods,
                        Chill(c, t, method) \/ ChillFails(c, t, method)
                 PROVE  HoldAnswers'
      BY <1>3 DEF HelperStep
    <2>1. CASE Chill(c, t, method)
      <3>1. Chilled(cloud[c], Neighbors(c, t), method).atoms = cloud[c].atoms
        BY <1>3, <2>1, HelperCall DEF TypeOK, Chill
      <3> QED BY <1>3, <2>1, <3>1 DEF HoldAnswers, TypeOK, Chill
    <2>2. CASE ChillFails(c, t, method)
      BY <1>3, <2>2, FailedHelperCall, CorrelatedKeepsAtoms
    <2> QED BY <2>1, <2>2
  <1>4. Inv /\ [HelperNext]_vars => Inv'
    <2>1. Inv /\ UNCHANGED vars => Inv'
      BY DEF TypeOK, HoldAnswers, vars
    <2> QED BY <1>2, <1>3, <2>1, TypeOKBondStep, TypeOKHelperStep DEF HelperNext
  <1>5. HoldAnswers => ReadsAnswer
    BY PathsAnswer DEF HoldAnswers, Answers, ReadsAnswer
  <1> QED BY <1>1, <1>4, <1>5, PTL DEF HelperSpec

-----------------------------------------------------------------------------
(* Helper scripts implement IceLabelling: each read maps to Load, each     *)
(* helper call that returns to Label, every other call to a stuttering     *)
(* step.                                                                   *)

LEMMA NewCloudLoads ==
  ASSUME TypeOK, NEW c \in Clouds, NEW a \in NonEmpty,
         cloud' = [cloud EXCEPT ![c] = NewCloud(a)]
  PROVE  Labelling!Load(c, a)
  <1>1. NewCloud(a) # None /\ NewCloud(a).atoms = a /\ NewCloud(a).labels = None
    <2>1. NewCloud(a) \in CloudState
      BY DEF NewCloud, CloudState, NonEmpty
    <2> QED BY <2>1, ValueAssumption DEF NewCloud
  <1> QED BY <1>1 DEF Labelling!Load, TypeOK

LEMMA BondsStutter ==
  ASSUME TypeOK, NEW c \in Clouds, NEW rule \in Rules, NEW graph \in Graphs, cloud[c] # None,
         cloud' = [cloud EXCEPT ![c] = Correlated(cloud[c], rule, graph)]
  PROVE  UNCHANGED Labelling!vars
  <1>1. cloud[c] \in CloudState
    BY DEF TypeOK
  <1> DEFINE x == Correlated(cloud[c], rule, graph)
  <1>2. x \in CloudState /\ x.atoms = cloud[c].atoms /\ x.labels = cloud[c].labels
    BY <1>1, CorrelatedTypes
  <1> HIDE DEF x
  <1>3. x # None
    BY <1>2, ValueAssumption
  <1> QED BY <1>2, <1>3 DEF Labelling!vars, TypeOK, x

LEMMA HelperLabels ==
  ASSUME TypeOK, NEW c \in Clouds, NEW t \in Types \cup {None}, NEW method \in Methods,
         Chill(c, t, method)
  PROVE  Labelling!Label(c, method, Or(t, 1))
  <1>1. cloud[c] \in CloudState /\ cloud[c] # None
    BY DEF TypeOK, Chill
  <1> DEFINE x == Chilled(cloud[c], Neighbors(c, t), method)
  <1>2. /\ x # None
        /\ x.atoms = cloud[c].atoms
        /\ x.labels = Labelling!Fresh(method, cloud[c].atoms, Or(t, 1))
    BY <1>1, HelperCall, ValueAssumption
  <1>3. cloud' = [cloud EXCEPT ![c] = x]
    BY DEF Chill
  <1>4. cloud[c].atoms # None
    BY <1>1, ValueAssumption DEF CloudState
  <1> HIDE DEF x
  <1> QED BY <1>1, <1>2, <1>3, <1>4 DEF Labelling!Label, TypeOK

(* The bond calls, the registry and misread lists never reach the labels   *)
(* of a script that labels through dseams.chill and dseams.chill_plus.     *)
THEOREM HelpersImplementLabelling == HelperSpec => HelpersLabel
  <1>1. Init => Labelling!Init
    BY DEF Init, Labelling!Init
  <1>2. TypeOK /\ BondStep => [Labelling!Next]_(Labelling!vars)
    <2> SUFFICES ASSUME TypeOK, BondStep PROVE [Labelling!Next]_(Labelling!vars)
      OBVIOUS
    <2>1. CASE \E c \in Clouds, f \in Files, o \in ReadOpts :
                  /\ Answer(f, o) # None
                  /\ cloud' = [cloud EXCEPT ![c] = NewCloud(Answer(f, o))]
      <3>1. PICK c \in Clouds, f \in Files, o \in ReadOpts :
                /\ Answer(f, o) # None
                /\ cloud' = [cloud EXCEPT ![c] = NewCloud(Answer(f, o))]
        BY <2>1
      <3>2. Answer(f, o) \in NonEmpty
        BY <3>1, AnswerAtoms DEF NonEmpty
      <3> QED BY <3>1, <3>2, NewCloudLoads DEF Labelling!Next
    <2>2. CASE \E c \in Clouds, rule \in Rules, graph \in Graphs :
                  /\ cloud[c] # None
                  /\ cloud' = [cloud EXCEPT ![c] = Correlated(cloud[c], rule, graph)]
      BY <2>2, BondsStutter
    <2>3. CASE cloud' = cloud
      BY <2>3 DEF Labelling!vars
    <2> QED BY <2>1, <2>2, <2>3, BondStepLabels
  <1>3. TypeOK /\ HelperStep => [Labelling!Next]_(Labelling!vars)
    <2> SUFFICES ASSUME TypeOK, NEW c \in Clouds, NEW t \in Types \cup {None},
                        NEW method \in Methods, Chill(c, t, method) \/ ChillFails(c, t, method)
                 PROVE  [Labelling!Next]_(Labelling!vars)
      BY DEF HelperStep
    <2>1. CASE Chill(c, t, method)
      <3>1. Or(t, 1) \in Types
        BY SessionAssumption DEF Or
      <3>2. Labelling!Label(c, method, Or(t, 1))
        BY <2>1, HelperLabels
      <3> QED BY <3>1, <3>2 DEF Labelling!Next
    <2>2. CASE ChillFails(c, t, method)
      <3>1. CASE cloud' = cloud
        BY <3>1 DEF Labelling!vars
      <3>2. CASE cloud' # cloud
        BY <2>2, <3>2, FailedHelperCall, BondsStutter
      <3> QED BY <3>1, <3>2
    <2> QED BY <2>1, <2>2
  <1>4. UNCHANGED vars => UNCHANGED Labelling!vars
    BY DEF vars, Labelling!vars
  <1>5. TypeOK /\ [HelperNext]_vars => [Labelling!Next]_(Labelling!vars)
    BY <1>2, <1>3, <1>4 DEF HelperNext
  <1> QED
    BY <1>1, <1>5, ReadsAnswerCalls, PTL DEF HelperSpec, HelpersLabel, Labelling!Spec

(* In any script, one helper call leaves its own labels on the cloud it is *)
(* given, whatever the core and legacy calls left there before.            *)
THEOREM HelpersHeal == Spec => HelperHeals
  <1> DEFINE Heals ==
        last' = [op |-> "helper", outcome |-> "ok"] =>
          \E c \in Clouds, method \in Methods, t \in Types :
             /\ cloud[c] # None
             /\ cloud'[c].atoms = cloud[c].atoms
             /\ cloud'[c].labels = Labelling!Fresh(method, cloud[c].atoms, t)
             /\ \A other \in Clouds \ {c} : cloud'[other] = cloud[other]
  <1>1. TypeOK /\ HelperStep => Heals
    <2> SUFFICES ASSUME TypeOK, NEW c \in Clouds, NEW t \in Types \cup {None},
                        NEW method \in Methods, Chill(c, t, method)
                 PROVE  Heals
      BY DEF HelperStep, ChillFails, Call
    <2>1. cloud[c] \in CloudState /\ cloud[c] # None
      BY DEF TypeOK, Chill
    <2> DEFINE x == Chilled(cloud[c], Neighbors(c, t), method)
    <2>2. /\ Or(t, 1) \in Types
          /\ x.atoms = cloud[c].atoms
          /\ x.labels = Labelling!Fresh(method, cloud[c].atoms, Or(t, 1))
      BY <2>1, HelperCall
    <2>3. cloud' = [cloud EXCEPT ![c] = x]
      BY DEF Chill
    <2> HIDE DEF x
    <2>4. cloud'[c] = x /\ \A other \in Clouds \ {c} : cloud'[other] = cloud[other]
      BY <2>3 DEF TypeOK
    <2> QED BY <2>1, <2>2, <2>4
  <1>2. BondStep => last'.op # "helper"
    BY DEF BondStep, Read, NeighListO, NeighbourListByIndex, RecenterCluster, AverageQ6,
           RegisterBondClassifier, GetCorrel, LegacyCij, Legacy, ClassifyBondsByName,
           ClassifyBondsByTable, SetBonds, Call
  <1>3. CoreStep => last'.op # "helper"
    BY DEF CoreStep, CoreRead, GetIceType, LegacyIceType, Legacy, ModifyChill, Call
  <1>4. TypeOK /\ [Next]_vars => [Heals]_vars
    BY <1>1, <1>2, <1>3 DEF Next
  <1> QED BY <1>4, SessionTyped, PTL DEF Spec, HelperHeals
=============================================================================
