----------------------------- MODULE LuaDriver -----------------------------
(***************************************************************************)
(* The yodaStruct driver (src/main.cpp): one Lua state, up to four modes   *)
(* run one after the other.  Each mode runs the variables script, binds    *)
(* the addresses of objects local to its block to Lua globals and runs the *)
(* function script that the variables script named.  When the block ends   *)
(* the objects die and the globals keep pointing at them.                  *)
(*                                                                         *)
(* A global's value is its owner - nobody (nil), the variables script (a   *)
(* flag), Lua (a result some call returned) or the mode whose block holds  *)
(* the object - and what the object describes: the frame, the selection of *)
(* atoms and the graph it was derived from, in which form, and whether a   *)
(* Lua table or container userdata holds it.  What a call makes of objects *)
(* is a function of the objects, whoever owns them.                        *)
(***************************************************************************)
EXTENDS WorkflowCalls

CONSTANTS
  Workflows,     \* the scripts the configuration may name
  Body,          \* Body[w]: the calls in the frame loop of w's function script
  Flags,         \* Flags[w]: the globals w's variables script sets itself
  Once,          \* the workflows that read one frame and do not loop
  FirstFrame, LastFrame, FrameGap   \* targetFrame, finalFrame, frameGap

VARIABLES
  cfg,     \* the configuration of this run
  pc,      \* "args", "setup", "vars", "bind", "script" or "done"
  mode,    \* index in Order of the mode being run
  owner,   \* owner[n]: who owns what global n holds
  obj,     \* obj[n]: what that describes
  frame,   \* the loop variable of the running function script
  line,    \* the next call of its body
  ran,     \* modes whose function script has finished
  exit     \* "running", "0", "1", "abort" or "undefined"

vars == <<cfg, pc, mode, owner, obj, frame, line, ran, exit>>

Order == <<"topoTwoDim", "topoOneDim", "bulk", "structureDesc">>
Modes == {"topoTwoDim", "topoOneDim", "bulk", "structureDesc"}

(* The globals each block binds to its own objects. *)
Bound ==
  [m \in Modes |->
     CASE m = "topoTwoDim" -> {"resCloud", "nList", "hbnList", "ringsAllSizes", "rdf"}
       [] m = "topoOneDim" -> {"resCloud", "oCloud", "hCloud", "nList", "hbnList",
                               "ringsAllSizes", "lowestAtomID"}
       [] m = "bulk" -> {"resCloud", "oCloud", "hCloud", "clusterCloud", "nList", "hbnList",
                         "iceNeighbourList", "ringsAllSizes", "avgQ6"}
       [] OTHER -> {"resCloud", "nList"}]

ASSUME DriverAssumption ==
  /\ Body \in [Workflows -> Seq(Calls)]
  /\ Flags \in [Workflows -> SUBSET Names]
  /\ FirstFrame \in Nat \ {0} /\ LastFrame \in Nat /\ FrameGap \in Nat \ {0}
  /\ Once \subseteq Workflows

(* Every call has what its result and its in-place effects derive from. *)
ASSUME BodyAssumption ==
  \A w \in Workflows : \A i \in DOMAIN Body[w] :
     LET call == Body[w][i]
     IN  /\ call.to # Nothing => call.fn \in Readers \/ {call.cloud, call.list} # {Nothing}
         /\ call.fn \in Selectors \cup {"clusterAnalysis", "calcRDF"} => call.cloud # Nothing

Langs == {"lua", "fnl"}

(* What a run depends on: its arguments, the modes switched on, the        *)
(* workflow, the language of its two scripts, whether its variables script *)
(* sets functionScript, whether the Fennel compiler can be loaded, and     *)
(* whether sol checks argument types (an unoptimised build).               *)
Arguments == {"run", "help", "version", "malformed"}
Configs == [args : Arguments, enabled : SUBSET Modes, workflow : Workflows, varsLang : Langs,
            lang : Langs, named : BOOLEAN, compiler : BOOLEAN, checked : BOOLEAN]

Owners == {"nil", "flag", "lua"} \cup Modes
Selected == {"none", "all", "typed", "mw", "oCloud", "hCloud", "cluster", "recentred"}
Forms == {"empty", "cloud", "id", "index", "rings", "values", "ringFlags", "atomFlags", "members"}
Objects == [frame : Nat, atoms : Selected, graph : Graphs, form : Forms, table : BOOLEAN]

Object(i, a, g, f, t) == [frame |-> i, atoms |-> a, graph |-> g, form |-> f, table |-> t]
Cloud(i, a) == Object(i, a, "none", "cloud", FALSE)
Blank == Object(0, "none", "none", "empty", FALSE)

TypeOK ==
  /\ cfg \in Configs
  /\ pc \in {"args", "setup", "vars", "bind", "script", "done"}
  /\ mode \in 1 .. Len(Order) + 1
  /\ pc \in {"bind", "script"} => mode \in 1 .. Len(Order)
  /\ owner \in [Names -> Owners]
  /\ obj \in [Names -> Objects]
  /\ frame \in Nat
  /\ line \in Nat \ {0}
  /\ ran \subseteq Modes
  /\ exit \in {"running", "0", "1", "abort", "undefined"}

-----------------------------------------------------------------------------
Exit(code) == /\ pc' = "done"
              /\ exit' = code
              /\ UNCHANGED <<cfg, mode, owner, obj, frame, line, ran>>

(* runScriptFile runs Lua directly and Fennel through the compiler, which  *)
(* setupHelpers has cached or which is loaded, in the same way, now.       *)
Loads(lang) == lang = "lua" \/ cfg.compiler

Init ==
  /\ cfg \in Configs
  /\ pc = "args"
  /\ mode = 1
  /\ owner = [n \in Names |-> "nil"]
  /\ obj = [n \in Names |-> Blank]
  /\ frame = FirstFrame
  /\ line = 1
  /\ ran = {}
  /\ exit = "running"

(* The arguments parse; the configuration is conf.yml or the one given. *)
ParseArguments ==
  /\ pc = "args" /\ cfg.args = "run"
  /\ pc' = "setup"
  /\ UNCHANGED <<cfg, mode, owner, obj, frame, line, ran, exit>>

(* --help and --version print and leave with 0, what cxxopts rejects with 1. *)
PrintAndLeave == pc = "args" /\ cfg.args \in {"help", "version"} /\ Exit("0")
BadArguments == pc = "args" /\ cfg.args = "malformed" /\ Exit("1")

(* setupHelpers: yoda.lua is loaded unprotected, a compiler that does not  *)
(* load is passed over in silence.                                         *)
SetupHelpers ==
  /\ pc = "setup"
  /\ pc' = "vars"
  /\ UNCHANGED <<cfg, mode, owner, obj, frame, line, ran, exit>>

(* The configuration file or yoda.lua is missing: an uncaught exception. *)
Uncaught == pc = "setup" /\ Exit("abort")

-----------------------------------------------------------------------------
Enabled == mode <= Len(Order) /\ Order[mode] \in cfg.enabled

(* Mutant: no end to the modes. *)
SkipModeOn ==
  /\ pc = "vars" /\ ~Enabled
  /\ mode' = mode + 1
  /\ UNCHANGED <<cfg, pc, owner, obj, frame, line, ran, exit>>

SkipMode ==
  /\ pc = "vars" /\ mode <= Len(Order) /\ ~Enabled
  /\ mode' = mode + 1
  /\ UNCHANGED <<cfg, pc, owner, obj, frame, line, ran, exit>>

(* runScriptFile(lua, cfg.variables) succeeds. *)
RunVars ==
  /\ pc = "vars" /\ Enabled /\ Loads(cfg.varsLang)
  /\ owner' = [n \in Names |-> IF n \in Flags[cfg.workflow] THEN "flag" ELSE owner[n]]
  /\ obj' = [n \in Names |-> IF n \in Flags[cfg.workflow] THEN Blank ELSE obj[n]]
  /\ pc' = "bind"
  /\ UNCHANGED <<cfg, mode, frame, line, ran, exit>>

(* Mutant: a global that already holds something is not bound again. *)
RunFunctionsBindOnce ==
  /\ pc = "bind" /\ cfg.named /\ Loads(cfg.lang)
  /\ LET new == {n \in Bound[Order[mode]] : owner[n] = "nil"}
     IN  /\ owner' = [n \in Names |-> IF n \in new THEN Order[mode] ELSE owner[n]]
         /\ obj' = [n \in Names |-> IF n \in new THEN Blank ELSE obj[n]]
  /\ pc' = "script" /\ frame' = FirstFrame /\ line' = 1
  /\ UNCHANGED <<cfg, mode, ran, exit>>

(* The block's objects are bound and the function script starts.  Reading  *)
(* a functionScript that is not set throws where sol checks types and      *)
(* yields an empty path, which does not load, where it does not.           *)
RunFunctions ==
  /\ pc = "bind" /\ cfg.named /\ Loads(cfg.lang)
  /\ owner' = [n \in Names |-> IF n \in Bound[Order[mode]] THEN Order[mode] ELSE owner[n]]
  /\ obj' = [n \in Names |-> IF n \in Bound[Order[mode]] THEN Blank ELSE obj[n]]
  /\ pc' = "script"
  /\ frame' = FirstFrame
  /\ line' = 1
  /\ UNCHANGED <<cfg, mode, ran, exit>>

Last == IF cfg.workflow \in Once THEN FirstFrame ELSE LastFrame

InLoop == pc = "script" /\ frame <= Last /\ line <= Len(Body[cfg.workflow])

(* Mutant: a variables script that fails only skips its mode. *)
ScriptFailsOn ==
  \/ /\ pc = "vars" /\ Enabled
     /\ mode' = mode + 1
     /\ UNCHANGED <<cfg, pc, owner, obj, frame, line, ran, exit>>
  \/ pc = "bind" /\ (cfg.named \/ ~cfg.checked) /\ Exit("1")
  \/ InLoop /\ Exit("1")

(* Mutant: the result of a variables script is looked at when all is over. *)
ScriptFailsLate ==
  \/ /\ pc = "vars" /\ Enabled
     /\ mode' = mode + 1
     /\ exit' = "1"
     /\ UNCHANGED <<cfg, pc, owner, obj, frame, line, ran>>
  \/ pc = "bind" /\ (cfg.named \/ ~cfg.checked) /\ Exit("1")
  \/ InLoop /\ Exit("1")

(* Any script may fail: a missing file, a compiler that is not there, an   *)
(* error raised by Lua or by the engine.  runScriptFile reports it and the *)
(* driver returns 1 without running anything further.                      *)
ScriptFails ==
  \/ pc = "vars" /\ Enabled /\ Exit("1")
  \/ pc = "bind" /\ (cfg.named \/ ~cfg.checked) /\ Exit("1")
  \/ InLoop /\ Exit("1")

NoFunctionScript == pc = "bind" /\ ~cfg.named /\ cfg.checked /\ Exit("abort")

-----------------------------------------------------------------------------
(* The call the function script is at, and the objects it is given.  The   *)
(* first-frame ID of prismAnalysis is a number, not an object: the global  *)
(* holds nil or the driver's int*, and neither is one.                     *)
Current == Body[cfg.workflow][line]

NotAnObject(n) == owner[n] \in {"nil", "flag"}
Dangling(n) == owner[n] \in Modes /\ owner[n] # Order[mode]

(* Mutant: only numbers are checked. *)
RefusedNumbers(call) == cfg.checked /\ call.fn = "prismAnalysis"

(* A table where a reference to a container is wanted. *)
Misheld(call, o) ==
  call.fn \in ByReference /\ \E n \in {call.list, call.rings} \ {Nothing} : o[n].table

Refused(call) ==
  /\ cfg.checked
  /\ call.fn = "prismAnalysis" \/ Misheld(call, obj) \/ \E n \in Uses(call) : NotAnObject(n)

Unsound(call) == \E n \in Uses(call) : NotAnObject(n) \/ Dangling(n)

(* From here to After, o[n] is what global n describes and f the frame read. *)

(* The object a call derives its result from. *)
Source(call, o) == IF call.list # Nothing THEN o[call.list] ELSE o[call.cloud]

(* The atoms a reader keeps and the atoms a selector picks. *)
Read(call) == CASE call.fn \in {"readFrameOnlyOneAllAtoms", "readLammpsTrj"} -> "all"
                [] call.to \in {"mw", "mwByName", "mwCustom"} -> "mw"
                [] OTHER -> "typed"
Picked(call) == IF call.to = "hCloud" THEN "hCloud" ELSE "oCloud"

Derived(call, x) ==
  Object(x.frame, x.atoms, Draws(call.fn, x.graph), Makes(call.fn), call.fn \notin Userdata)

Result(call, o, f) ==
  CASE call.fn \in Readers -> Cloud(f, Read(call))
    [] call.fn \in Selectors -> Cloud(o[call.cloud].frame, Picked(call))
    [] OTHER -> Derived(call, Source(call, o))

(* The largest cluster's cloud, and the list of that cluster by index. *)
Cluster(n, f) == IF n = "clusterCloud" THEN Cloud(f, "cluster")
                 ELSE Object(f, "cluster", "distance", "index", FALSE)

(* What an in-place call leaves in the object n names. *)
Mutated(call, n, o, f) ==
  CASE call.fn \in Readers /\ n \in call.outs -> Result(call, o, f)
    [] call.fn = "clusterAnalysis" /\ n \in call.outs -> Cluster(n, o[call.cloud].frame)
    [] call.fn = "recenterCluster" /\ n = call.cloud -> [o[n] EXCEPT !.atoms = "recentred"]
    [] call.fn = "calcRDF" /\ n \in call.outs -> [o[n] EXCEPT !.frame = o[call.cloud].frame]
    [] OTHER -> o[n]

After(call, n, o, f) == IF n = call.to THEN Result(call, o, f) ELSE Mutated(call, n, o, f)

(* Mutant: objects a call writes in place are handed to it as copies. *)
CallCopies ==
  /\ InLoop /\ ~Refused(Current) /\ ~Unsound(Current)
  /\ owner' = [n \in Names |-> IF n = Current.to THEN "lua" ELSE owner[n]]
  /\ obj' = [n \in Names |-> IF n = Current.to THEN Result(Current, obj, frame) ELSE obj[n]]
  /\ line' = line + 1
  /\ UNCHANGED <<cfg, pc, mode, frame, ran, exit>>

Call ==
  /\ InLoop /\ ~Refused(Current) /\ ~Unsound(Current)
  /\ owner' = [n \in Names |-> IF n = Current.to THEN "lua" ELSE owner[n]]
  /\ obj' = [n \in Names |-> After(Current, n, obj, frame)]
  /\ line' = line + 1
  /\ UNCHANGED <<cfg, pc, mode, frame, ran, exit>>

(* A checked argument that is refused raises; what is dereferenced without *)
(* being an object, or after its block has ended, is undefined behaviour.  *)
RefuseCall == InLoop /\ Refused(Current) /\ Exit("1")
UndefinedCall == InLoop /\ ~Refused(Current) /\ Unsound(Current) /\ Exit("undefined")

(* Mutant: the loop variable is not stepped. *)
NextFrameAgain ==
  /\ pc = "script" /\ frame <= Last /\ line > Len(Body[cfg.workflow])
  /\ line' = 1
  /\ UNCHANGED <<cfg, pc, mode, owner, obj, frame, ran, exit>>

NextFrame ==
  /\ pc = "script" /\ frame <= Last /\ line > Len(Body[cfg.workflow])
  /\ frame' = frame + FrameGap
  /\ line' = 1
  /\ UNCHANGED <<cfg, pc, mode, owner, obj, ran, exit>>

(* The function script returns and the mode's block ends. *)
EndMode ==
  /\ pc = "script" /\ frame > Last
  /\ ran' = ran \cup {Order[mode]}
  /\ mode' = mode + 1
  /\ pc' = "vars"
  /\ UNCHANGED <<cfg, owner, obj, frame, line, exit>>

(* The banner is printed and main returns 0. *)
Finish == pc = "vars" /\ mode > Len(Order) /\ Exit("0")

Next ==
  \/ ParseArguments \/ PrintAndLeave \/ BadArguments
  \/ SetupHelpers \/ Uncaught
  \/ SkipMode \/ RunVars \/ RunFunctions \/ ScriptFails \/ NoFunctionScript
  \/ Call \/ RefuseCall \/ UndefinedCall \/ NextFrame \/ EndMode
  \/ Finish

Stopped == pc = "done" /\ UNCHANGED vars

Spec == Init /\ [][Next \/ Stopped]_vars

(* main is one thread and every script's loop is finite, so a step that is *)
(* possible is taken.                                                      *)
FairSpec == Spec /\ WF_vars(Next)

-----------------------------------------------------------------------------
(* The cloud, list and rings of a call describe one selection of atoms of  *)
(* frame f, the frame the script is at, in the index space the call works  *)
(* in; rings are those of the list they come with; what says something per *)
(* atom is about those atoms; a reference is not given a table; and a      *)
(* seeded affiliation gets the mutual graph before the union graph.        *)
Agree(call, o, f) ==
  LET about == {o[n] : n \in {call.cloud, call.list, call.rings} \ {Nothing}}
  IN  /\ \A x \in about : x.frame = f
      /\ \A x, y \in about : x.atoms = y.atoms
      /\ call.list # Nothing => o[call.list].form = Wants(call.fn)
      /\ call.rings # Nothing => o[call.rings].form = "rings"
      /\ Nothing \notin {call.list, call.rings} => o[call.list].graph = o[call.rings].graph
      /\ ~Misheld(call, o)
      /\ \A n \in call.also : o[n].frame = f /\ o[n].form \in Feeds(call.fn)
      /\ \A n \in call.also, x \in about : o[n].form # "cloud" => o[n].atoms = x.atoms
      /\ call.fn = "seededCageAffiliation" =>
           /\ call.list # Nothing /\ o[call.list].graph = "mutual"
           /\ \A n \in call.also : o[n].graph = "union"

(* The frame that an accumulator was last fed, when it is fed again. *)
FedUpTo == IF frame = FirstFrame THEN 0 ELSE frame - FrameGap

Coherent(call) ==
  /\ Agree(call, obj, frame)
  /\ call.fn = "calcRDF" => \A n \in call.outs : obj[n].frame = FedUpTo

(* Whatever modes run one after the other, a call that gets through works  *)
(* on one coherent set of objects: nothing left over from an earlier frame *)
(* or mode (main.cpp:149-239, the scripts of example_lua, the chains of    *)
(* dseams.lua:115-147).                                                    *)
CallsCoherent == [][Call => Coherent(Current)]_vars

(* What a script needs before assigning it is bound by every mode that is  *)
(* switched on.                                                            *)
BoundSafely == \A m \in cfg.enabled : Needs(Body[cfg.workflow]) \subseteq Bound[m]

(* Then no call is ever given nil, a flag or an object whose block has     *)
(* ended, however many modes run before it (main.cpp:149-239).             *)
NoUndefined == BoundSafely => exit # "undefined"

(* Where sol checks arguments, undefined behaviour takes an earlier mode:  *)
(* it is a global left pointing into a block that has ended.               *)
OnlyLeftOvers == (cfg.checked /\ exit = "undefined") => ran # {}

(* The driver leaves with 0 only when it was asked to print, or when the   *)
(* function script of every mode it reports has run to its end: it stops   *)
(* at the first that fails (main.cpp:150-151, 168-169, 241-250,            *)
(* opt_parser.cpp:25-34).                                                  *)
BannerTrue ==
  exit = "0" => ran = IF cfg.args = "run" THEN cfg.enabled ELSE {}

(* Seen without scripts and objects, a run is one of ModeRuns: the modes   *)
(* that are switched on complete in the order of main's blocks, none after *)
(* one that failed, and none when the driver only prints (main.cpp:149-239,*)
(* opt_parser.cpp:20-38).                                                  *)
Runs == INSTANCE ModeRuns
          WITH Blocks <- Order, wanted <- IF cfg.args = "run" THEN cfg.enabled ELSE {},
               done <- ran, code <- exit
RunsModes == Runs!Spec

(* Where a run is: what comes later is more to the right, and one place    *)
(* is later than another at the first position in which they differ.       *)
Stage == CASE pc = "args" -> 0 [] pc = "setup" -> 1 [] pc = "done" -> 3 [] OTHER -> 2
Phase == CASE pc = "bind" -> 1 [] pc = "script" -> 2 [] OTHER -> 0
Place == <<Stage, mode, Phase, frame, line>>
Later(q, p) ==
  \E k \in 1 .. 5 : p[k] < q[k] /\ \A j \in 1 .. k - 1 : p[j] = q[j]

(* The last place of a run, which the configuration and the scripts fix. *)
LoopEnd == IF FirstFrame > Last THEN FirstFrame ELSE Last + FrameGap
End == <<3, Len(Order) + 1, 2, LoopEnd, Len(Body[cfg.workflow]) + 1>>

(* Why every run ends, in a form that needs no fairness: each step of the  *)
(* driver goes to a later place and never beyond the last one, and of such *)
(* places there are finitely many (main.cpp:149-250, the frame loops of    *)
(* example_lua).                                                           *)
Advances ==
  [][Later(Place', Place) /\ \A k \in 1 .. 5 : Place'[k] <= End[k]]_vars

(* Every run ends: the modes and the frame loops are finite. *)
Terminates == <>(pc = "done")

(* Documented in CHANGELOG.md:127, the entry of 2.0.1: prismAnalysis takes *)
(* atomID by reference so that later frames keep the first frame's ID.     *)
(* (lua_api.hpp:312 promises only that atomID is the first frame's.)       *)
LaterFramesKeepFirstId ==
  [][(Call /\ Current.fn = "prismAnalysis" /\ frame # FirstFrame
           /\ owner["lowestAtomID"] = "topoOneDim")
     => obj["lowestAtomID"].frame = FirstFrame]_vars

(* Documented at chillPlus/iceType/functions.lua:19: the last dump of a    *)
(* frame holds the recentered largest ice cluster.                         *)
DumpsLargestCluster ==
  [][(Call /\ Current.fn = "writeCluster")
     => obj[Current.cloud].atoms = "recentred"]_vars
=============================================================================
