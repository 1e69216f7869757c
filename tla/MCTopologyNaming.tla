-------------------------- MODULE MCTopologyNaming --------------------------
(* Constants of the TopologyNaming model. *)
EXTENDS TopologyNaming, TLC

SmallOptions == {[hops |-> None, colours |-> c] : c \in BOOLEAN} \cup {[hops |-> 3, colours |-> FALSE]}

(* The two atoms of the pure frame look alike two hops out and differ at    *)
(* three; in the doped frame one looks like the first of them at any depth, *)
(* the other only two hops out and by type not at all.                      *)
SmallClass ==
  [f \in Frames |-> [s \in Views |-> [i \in Atoms |->
     IF s.hops = 2 THEN IF s.colours /\ f = "doped" /\ i = 2 THEN "ion" ELSE "near"
     ELSE IF i = 1 THEN "far" ELSE f]]]

(* The variables of a script are interchangeable. *)
SomeTexts == Permutations(Texts)
=============================================================================
