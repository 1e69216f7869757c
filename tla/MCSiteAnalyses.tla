--------------------------- MODULE MCSiteAnalyses ---------------------------
(* Constants of the SiteAnalyses models. *)
EXTENDS SiteAnalyses

(* Heads and anions are polar sites too. *)
SmallKinds == {"cationHead", "anion", "polar"}
SmallCounted == [k \in SmallKinds |-> IF k = "polar" THEN SmallKinds ELSE {k}]
SmallMaps == [Types -> SmallKinds]

(* Atoms bonded along some sides of a ring; each row has its own atom and a *)
(* stray index; the IDs are a permutation of the indices, so that one taken *)
(* for the other names an atom.  The mappings make up for fixing two types. *)
SmallIds == Index
Ring == {{i, (i + 1) % Size} : i \in Index}
SmallClouds ==
  {[id   |-> [i \in Index |-> (i + 1) % Size],
    type |-> [type EXCEPT ![0] = 1, ![3] = 2],
    near |-> [i \in Index |-> {i, -1} \cup {j \in Index : {i, j} \in bonds}]] :
     type \in [Index -> Types], bonds \in SUBSET Ring}

(* Edges that differ, one of them shorter than a bin. *)
SmallEdge == [a \in Axes |-> CASE a = 0 -> 3 [] a = 1 -> 0 [] OTHER -> 2]
SmallAxes == [name : {"x", "other"}] \cup [halves : {-1, 1, 2, 5}] \cup {None}

(* Two ions; flags on one and on all but one of the atoms; rings on either *)
(* side of the cap a script may set.                                       *)
SmallIons == {<<0, 2>>}
SmallFlags == {{1}, {1, 2, 3}}
SmallRings == {{{1, 2, 3}, Index}}
=============================================================================
