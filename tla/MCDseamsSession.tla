--------------------------- MODULE MCDseamsSession ---------------------------
(* Constants of the DseamsSession models. *)
EXTENDS DseamsSession

(* One dump: its first frame holds type 2 only, its second type 1 only. *)
OneDump == {"dump"}
OneDumpSuffix == [f \in OneDump |-> "dump"]
OneDumpPresent == [f \in OneDump |-> [i \in 1 .. 2 |-> IF i = 1 THEN {2} ELSE {1}]]

SmallDumpPresent == [f \in OneDump |-> [i \in 1 .. 1 |-> {1}]]

(* A dump of type 1 and a chemfiles trajectory of type 2; an empty dump    *)
(* and xyz file; a file whose backend is not in the build.                 *)
AllFiles == {"dump", "pdb", "none.dump", "none.xyz", "con"}
AllSuffix ==
  [f \in AllFiles |-> CASE f = "none.dump" -> "dump" [] f = "none.xyz" -> "xyz"
                        [] f = "pdb" -> "chemfiles" [] OTHER -> f]
AllPresent ==
  [f \in AllFiles |-> [i \in 1 .. 1 |-> CASE f = "dump" -> {1} [] f \in {"pdb", "con"} -> {2}
                                        [] OTHER -> {}]]

(* A rule of which the script sets a single field. *)
OwnTables == {[f \in {"coordinationNumber"} |-> "script"]}
OwnNames == Methods \cup {"own"}
MethodNames == Methods
NoTables == {}
=============================================================================
