-------------------------- MODULE ExampleWorkflows --------------------------
(***************************************************************************)
(* The scripts of example_lua/: the body of each one's frame loop, or the  *)
(* calls of one that reads a single frame, and the globals of the modelled *)
(* names that its vars.lua sets.  The helpers of lua/dseams.lua appear as  *)
(* the calls they make.                                                    *)
(***************************************************************************)
EXTENDS WorkflowCalls

Of(fn, cloud, list) == Line(fn, cloud, list, Nothing, {}, {}, Nothing)
ReadTo(fn) == Line(fn, Nothing, Nothing, Nothing, {}, {"resCloud"}, "resCloud")
Neighbours(cloud) == Line("neighborList", cloud, Nothing, Nothing, {}, {}, "nList")
Hbonds == Line("getHbondNetwork", "resCloud", "nList", Nothing, {}, {}, "hbnList")
HbondsByIndex(cloud) ==
  Line("bondNetworkByIndex", cloud, "hbnList", Nothing, {}, {}, "hbnList")
Rings(list) == Line("getPrimitiveRings", Nothing, list, Nothing, {}, {}, "rings")
ClusterAnalysis ==
  Line("clusterAnalysis", "resCloud", "nList", Nothing, {},
       {"clusterCloud", "iceNeighbourList"}, Nothing)

(* The five lines the ring analyses share. *)
HbondRings ==
  <<ReadTo("readFrameOnlyOne"), Neighbours("resCloud"), Hbonds, HbondsByIndex("resCloud"),
    Rings("hbnList")>>

RingCall(fn) == Line(fn, "resCloud", "hbnList", "rings", {}, {}, Nothing)

chillPlus ==
  <<ReadTo("readFrame"), Neighbours("resCloud"),
    Of("cij", "resCloud", "nList"), Of("iceType", "resCloud", "nList"),
    Of("writeDump", "resCloud", Nothing),
    Line("averageQ6", "resCloud", "nList", Nothing, {}, {}, "avgQ6"),
    Line("modifyChill", "resCloud", Nothing, Nothing, {"avgQ6"}, {}, Nothing),
    Of("percentage_Ice", "resCloud", Nothing), Of("writeDump", "resCloud", Nothing),
    ClusterAnalysis,
    Of("recenterCluster", "clusterCloud", "iceNeighbourList"),
    Of("writeCluster", "resCloud", Nothing)>>

bulkTopologicalCriterion ==
  <<ReadTo("readFrameOnlyOne"), Neighbours("resCloud"), ClusterAnalysis,
    Rings("iceNeighbourList"),
    Line("bulkTopoUnitMatching", "clusterCloud", "iceNeighbourList", "rings", {}, {}, Nothing)>>

iceNanotube == Append(HbondRings, RingCall("prismAnalysis"))
monolayer == Append(HbondRings, RingCall("ringAnalysis"))
bulkPrimitiveRings == Append(HbondRings, RingCall("bulkRingNumberAnalysis"))
rdf2D == Append(monolayer, Line("calcRDF", "resCloud", Nothing, Nothing, {}, {"rdf"}, Nothing))

SelectTo(cloud) ==
  Line("getPointCloudAtomsOfOneAtomType", "resCloud", Nothing, Nothing, {}, {cloud}, cloud)

selection ==
  <<ReadTo("readFrameOnlyOneAllAtoms"), SelectTo("oCloud"), SelectTo("hCloud"),
    Neighbours("oCloud"),
    Line("getHbondNetworkFromClouds", "oCloud", "nList", Nothing, {"hCloud"}, {}, "hbnList"),
    HbondsByIndex("oCloud"), Rings("hbnList"),
    Line("selectAtomsInSlice", "oCloud", Nothing, "rings", {"resCloud"}, {}, Nothing)>>

structureDesc ==
  <<ReadTo("readFrameOnlyOne"), Neighbours("resCloud"),
    Of("classifyTemplates", "resCloud", "nList"), Of("soapSpectrum", "resCloud", "nList"),
    Of("steinhardtQlVoronoi", "resCloud", Nothing)>>

-----------------------------------------------------------------------------
(* The scripts that keep their objects to themselves. *)
ReadAs(cloud) == Line("readLammpsTrjO", Nothing, Nothing, Nothing, {}, {}, cloud)
ListAs(fn, cloud, list) == Line(fn, cloud, Nothing, Nothing, {}, {}, list)
IndexAs(cloud, list, to) == Line("neighbourListByIndex", cloud, list, Nothing, {}, {}, to)
RingsAs(fn, list, to) == Line(fn, Nothing, list, Nothing, {}, {}, to)
KNearestAs(fn, cloud, to) == <<ListAs(fn, cloud, to), IndexAs(cloud, to, to)>>

(* dseams.cages, which full_api spells out: rings of six on the mutual and *)
(* on the union graph, and the atoms they flag.                            *)
cages(cloud) ==
  KNearestAs("kNearestMutual", cloud, "knnMutual") \o KNearestAs("kNearestUnion", cloud, "knnUnion")
    \o <<RingsAs("sixRings", "knnMutual", "sixMutual"), RingsAs("sixRings", "knnUnion", "sixUnion"),
         Line("seededCageAffiliation", Nothing, "knnMutual", "sixMutual", {"knnUnion", "sixUnion"},
              {}, "seeded")>>

cages_by_signature(cloud) ==
  <<ListAs("neighListO", cloud, "nlWater"), IndexAs(cloud, "nlWater", "nlWaterIdx"),
    RingsAs("ringNetwork", "nlWaterIdx", "rings"),
    Line("findBySignature", Nothing, "nlWaterIdx", "rings", {}, {}, Nothing)>>

hbonds(cloud) ==
  <<ListAs("neighListO", cloud, "nlWater"),
    Line("getHbondNetwork", cloud, "nlWater", Nothing, {}, {}, "hbnList")>>

chill_plus(cloud) ==
  <<ListAs("neighListO", cloud, "nlWater"), Of("getCorrelPlus", cloud, "nlWater"),
    Of("getIceTypePlus", cloud, "nlWater")>>

(* A call that is given no object and whose result no call is given. *)
Aside(fn) == Of(fn, Nothing, Nothing)

(* The second list is mw's: the three clouds of the same frame share it. *)
bondRules ==
  <<Aside("bondClassifierNames"),
    ReadAs("mwByName"), Of("classifyBonds", "mwByName", "nlMw"), Of("getIceType", "mwByName", "nlMw"),
    Aside("registerBondClassifier"),
    ReadAs("mwCustom"), Of("classifyBonds", "mwCustom", "nlMw")>>

Affiliation(fn) == Line(fn, Nothing, "nlWaterIdx", "six", {}, {}, "affil")

full_api ==
  <<ReadAs("water"), Aside("readLammpsTrjreduced"), Aside("readXYZ"),
    ListAs("neighListO", "water", "nlWater"), IndexAs("water", "nlWater", "nlWaterIdx"),
    Of("getNewNeighbourListByIndex", "water", Nothing), RingsAs("ringNetwork", "nlWaterIdx", "rings"),
    RingsAs("ringUpdate", "nlWaterIdx", Nothing), RingsAs("sixRings", "nlWaterIdx", "six"),
    Affiliation("cageAffiliation"),
    Affiliation("affiliationUpdate")>>
  \o cages("water")
  \o <<Of("getCorrelPlus", "water", "nlWater"), Of("getIceTypePlus", "water", "nlWater"),
       ReadAs("mw"), ListAs("neighListO", "mw", "nlMw"),
       Of("getCorrel", "mw", "nlMw"), Of("getIceType", "mw", "nlMw"),
       Of("steinhardtQl", "mw", "nlMw"), Of("steinhardtQlVoronoi", "mw", Nothing),
       Of("voronoiFacetWeights", "mw", Nothing),
       Line("getHbondNetwork", "water", "nlWater", Nothing, {}, {}, "hbnList"),
       Of("getHbondNetwork", "water", "nlWater")>>
  \o bondRules
  \o <<Aside("readCon"), Of("classifyTemplates", "mw", "nlMw"), Of("soapSpectrum", "mw", "nlMw"),
       Of("soapSpectrumAll", "water", "nlWater"), Of("voronoiFeatures", "water", Nothing)>>

fennel ==
  <<Line("readFrameOnlyOne", Nothing, Nothing, Nothing, {}, {"resCloud"}, "water"),
    ListAs("neighborList", "water", "nlWater"),
    Line("bondNetworkByIndex", "water", "nlWater", Nothing, {}, {}, "nlWaterIdx"),
    RingsAs("getPrimitiveRings", "nlWaterIdx", "rings")>>

fennel_full ==
  <<ReadAs("mw"), ListAs("neighListO", "mw", "nlMw"), IndexAs("mw", "nlMw", "nlWaterIdx"),
    RingsAs("ringUpdate", "nlWaterIdx", "rings"),
    Of("classifyBonds", "mw", "nlMw"), Of("getIceType", "mw", "nlMw"),
    ReadAs("mwCustom"), Of("classifyBonds", "mwCustom", "nlMw"), ReadAs("water")>>
  \o hbonds("water")

idiomatic == <<ReadAs("water")>> \o chill_plus("water")

(* The helpers an idiomatic script may call, one after the other. *)
helpers == idiomatic \o cages("water") \o cages_by_signature("water") \o hbonds("water")

topology ==
  <<Line("readLammpsTrj", Nothing, Nothing, Nothing, {}, {}, "water"),
    ListAs("neighListO", "water", "nlWater"), IndexAs("water", "nlWater", "nlWaterIdx"),
    RingsAs("topologyFingerprint", "nlWaterIdx", Nothing)>>
  \o cages("water")
  \o <<Line("iceFlags", "water", Nothing, Nothing, {"seeded"}, {}, "ice"),
       Line("ionEnvironment", "water", Nothing, Nothing, {"ice"}, {}, "shell"),
       RingsAs("ringNetwork", "knnMutual", "rings"),
       Line("shellRingCensus", "water", Nothing, "rings", {"shell"}, {}, Nothing),
       RingsAs("topologyLibrary", "nlWaterIdx", Nothing),
       RingsAs("classifyTopology", "nlWaterIdx", Nothing)>>

ExampleBodies ==
  [chillPlus |-> chillPlus, bulkTopologicalCriterion |-> bulkTopologicalCriterion,
   iceNanotube |-> iceNanotube, monolayer |-> monolayer,
   bulkPrimitiveRings |-> bulkPrimitiveRings, rdf2D |-> rdf2D, selection |-> selection,
   structureDesc |-> structureDesc, full_api |-> full_api, fennel |-> fennel,
   fennel_full |-> fennel_full, idiomatic |-> idiomatic, helpers |-> helpers,
   topology |-> topology]

(* The scripts without a frame loop. *)
ExampleOnce == {"full_api", "fennel_full", "idiomatic", "helpers", "topology"}

(* The modelled names each vars.lua assigns: a flag where rdf is expected. *)
ExampleFlags == [w \in DOMAIN ExampleBodies |-> IF w = "rdf2D" THEN {"rdf"} ELSE {}]

(* The mode each example's config.yml switches on. *)
ExampleMode ==
  [w \in DOMAIN ExampleBodies |->
     CASE w = "iceNanotube" -> "topoOneDim"
       [] w \in {"monolayer", "rdf2D"} -> "topoTwoDim"
       [] w \in {"structureDesc", "fennel"} \cup ExampleOnce -> "structureDesc"
       [] OTHER -> "bulk"]
=============================================================================
