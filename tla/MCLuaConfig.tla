---------------------------- MODULE MCLuaConfig ----------------------------
(* Every file of up to three lines over a few keys, and longer shipped ones. *)
EXTENDS LuaConfig

SomeVals == {"path", "true", "yes", "no", "true:"}
SomeHeaded == {"true:"}
SomeTruthy == {"true", "yes"}
SomeCut == [v \in SomeVals |-> "no"]

SomeLines ==
  {ln \in [indented : BOOLEAN, key : {"trajectory", "bulk", "topoOneDim", "use"},
           val : {"true", "no", "true:", Nil, Absent}, hash : {"none", "lead", "value", "inside"}] :
     /\ ln.hash = "lead" => ln.val = Nil /\ ~ln.indented /\ ln.key = "bulk"
     /\ ln.val = Absent => ln.hash = "none" /\ ~ln.indented
     /\ ln.hash = "value" => ln.val = "true"
     /\ ln.hash = "inside" => ln.val = "true"
     /\ ln.val = "true:" => ln.key = (IF ln.indented THEN "use" ELSE "trajectory")
     /\ ln.val = "no" => ln.key \in {"use", "trajectory"}}

SmallFiles == UNION {[1 .. n -> SomeLines] : n \in 0 .. 3}

Plain(indented, key, val) == [indented |-> indented, key |-> key, val |-> val, hash |-> "none"]

(* lua_inputs/config.yml with every choice of its values. *)
ShippedFiles ==
  {<<Plain(FALSE, "trajectory", "path"), Plain(FALSE, "variables", "path"),
     Plain(FALSE, "bulk", Nil), Plain(TRUE, "use", a),
     Plain(TRUE, "topologicalNetworkCriterion", b), Plain(TRUE, "bondOrderParameters", c),
     Plain(FALSE, "topoOneDim", Nil), Plain(TRUE, "use", d),
     Plain(FALSE, "topoTwoDim", Nil), Plain(TRUE, "use", e)>> :
       a, b, c, d, e \in {"true", "yes", "no"}}

SomeFiles == SmallFiles \cup ShippedFiles
=============================================================================
