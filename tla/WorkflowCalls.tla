--------------------------- MODULE WorkflowCalls ---------------------------
(***************************************************************************)
(* The engine calls a workflow script makes, one record per source line.   *)
(*                                                                         *)
(* A script under example_lua/ works on Lua globals.  A call names the     *)
(* globals it passes: the cloud, the neighbour list and the rings it is    *)
(* about, further inputs of the same frame (also), objects it writes in    *)
(* place (outs), and the global its result is assigned to (to).            *)
(***************************************************************************)
EXTENDS Naturals, Sequences

CONSTANT Nothing   \* no global in this position

(* What the driver binds, and what the scripts keep for themselves. *)
Bindable ==
  {"resCloud", "oCloud", "hCloud", "clusterCloud", "nList", "hbnList",
   "iceNeighbourList", "ringsAllSizes", "avgQ6", "rdf", "lowestAtomID"}
Own ==
  {"rings", "water", "nlWater", "nlWaterIdx", "six", "affil", "knnMutual", "knnUnion",
   "sixMutual", "sixUnion", "seeded", "mw", "nlMw", "mwByName", "mwCustom", "ice", "shell"}
Names == Bindable \cup Own

(* What a call does to its objects, by the name it is registered under.    *)
(* The two graphs of kNearestNeighbourPair are a call each, update of the  *)
(* two updaters has its object's name; sixRings and iceFlags are loops the  *)
(* scripts write themselves; those aside are given no object.              *)
Readers == {"readFrame", "readFrameOnlyOne", "readFrameOnlyOneAllAtoms", "readLammpsTrj",
            "readLammpsTrjO", "readLammpsTrjreduced"}
NeighbourCalls == {"neighborList", "neighListO", "kNearestMutual", "kNearestUnion"}
HbondCalls == {"getHbondNetwork", "getHbondNetworkFromClouds"}
IndexCalls == {"bondNetworkByIndex", "neighbourListByIndex", "getNewNeighbourListByIndex"}
RingCalls == {"getPrimitiveRings", "ringNetwork", "ringUpdate", "sixRings"}
CageCalls == {"cageAffiliation", "affiliationUpdate", "seededCageAffiliation", "findBySignature"}
IonCalls == {"iceFlags", "ionEnvironment", "shellRingCensus"}
TopologyKeyCalls == {"topologyFingerprint", "topologyLibrary", "classifyTopology"}
Selectors == {"getPointCloudAtomsOfOneAtomType"}
LegacyOrderCalls == {"cij", "iceType", "averageQ6", "modifyChill", "percentage_Ice"}
OrderCalls == {"getCorrel", "getCorrelPlus", "getIceType", "getIceTypePlus", "classifyBonds",
               "steinhardtQl", "steinhardtQlVoronoi", "voronoiFacetWeights"}
DescriptorCalls == {"classifyTemplates", "soapSpectrum", "soapSpectrumAll", "voronoiFeatures"}
WorkflowAnalyses ==
  {"writeDump", "writeCluster", "clusterAnalysis", "recenterCluster", "prismAnalysis",
   "ringAnalysis", "calcRDF", "bulkRingNumberAnalysis", "bulkTopoUnitMatching",
   "selectAtomsInSlice"}
AsideCalls == {"readXYZ", "readCon", "bondClassifierNames", "registerBondClassifier"}
Fns == Readers \cup NeighbourCalls \cup HbondCalls \cup IndexCalls \cup RingCalls
         \cup CageCalls \cup IonCalls \cup TopologyKeyCalls \cup Selectors
         \cup LegacyOrderCalls \cup OrderCalls \cup DescriptorCalls \cup WorkflowAnalyses
         \cup AsideCalls

Opt == Names \cup {Nothing}
Calls == [fn : Fns, cloud : Opt, list : Opt, rings : Opt,
          also : SUBSET Names, outs : SUBSET Names, to : Opt]

ASSUME NothingAssumption == Nothing \notin Names

Line(fn, cloud, list, rings, also, outs, to) ==
  [fn |-> fn, cloud |-> cloud, list |-> list, rings |-> rings,
   also |-> also, outs |-> outs, to |-> to]

(* The globals a call takes inputs from, and all whose objects it is given. *)
Inputs(call) == ({call.cloud, call.list, call.rings} \ {Nothing}) \cup call.also
Uses(call) == Inputs(call) \cup call.outs

(* The index space of the list a call wants: rings and everything about    *)
(* them are by cloud index, distance lists and hydrogen bonds by atom ID.  *)
Wants(fn) ==
  IF fn \in RingCalls \cup CageCalls \cup TopologyKeyCalls
            \cup {"shellRingCensus", "prismAnalysis", "ringAnalysis", "bulkRingNumberAnalysis",
                  "bulkTopoUnitMatching", "recenterCluster"}
  THEN "index" ELSE "id"

(* What a call wants of the further inputs that say something per atom.    *)
Feeds(fn) == CASE fn = "modifyChill" -> {"values"}
               [] fn \in {"iceFlags", "ionEnvironment"} -> {"atomFlags"}
               [] fn = "shellRingCensus" -> {"members"}
               [] fn = "seededCageAffiliation" -> {"index", "rings"}
               [] OTHER -> {"cloud"}

(* What a call that returns a list, rings, values or flags turns its       *)
(* source into: the plain affiliation flags rings, the seeded one atoms.   *)
Makes(fn) == CASE fn \in IndexCalls -> "index"
               [] fn \in RingCalls -> "rings"
               [] fn = "averageQ6" -> "values"
               [] fn \in {"cageAffiliation", "affiliationUpdate"} -> "ringFlags"
               [] fn \in {"seededCageAffiliation", "iceFlags"} -> "atomFlags"
               [] fn = "ionEnvironment" -> "members"
               [] OTHER -> "id"

(* The graph the result is about, where it is not that of its source. *)
Graphs == {"none", "distance", "mutual", "union", "hbond"}
Draws(fn, source) == CASE fn \in {"neighborList", "neighListO", "getNewNeighbourListByIndex"} -> "distance"
                       [] fn = "kNearestMutual" -> "mutual"
                       [] fn = "kNearestUnion" -> "union"
                       [] fn \in HbondCalls -> "hbond"
                       [] OTHER -> source

(* Results bound as they are stay container userdata; what goes through    *)
(* sol::as_nested or is built by the script is a Lua table, which the      *)
(* calls that take their list by reference cannot read.                    *)
Userdata == {"neighborList", "getPrimitiveRings", "averageQ6"}
ByReference == {"cij", "iceType", "averageQ6", "clusterAnalysis", "recenterCluster",
                "selectAtomsInSlice"}

(* The globals a script uses before any line of it assigns them: what has  *)
(* to be bound when it starts.                                             *)
Needs(body) ==
  {n \in Names : \E i \in DOMAIN body :
                    n \in Uses(body[i]) /\ \A j \in 1 .. i - 1 : body[j].to # n}
=============================================================================
