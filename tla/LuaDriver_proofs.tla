-------------------------- MODULE LuaDriver_proofs --------------------------
(***************************************************************************)
(* Theorems about the driver for every set of workflow scripts, whatever   *)
(* calls their bodies make.                                                *)
(***************************************************************************)
EXTENDS LuaDriver, TLAPS

LEMMA OrderFacts ==
  /\ Len(Order) = 4
  /\ \A i \in 1 .. 4 : Order[i] \in Modes
  /\ \A m \in Modes : \E i \in 1 .. 4 : Order[i] = m
  BY DEF Order, Modes

LEMMA OrderInjective ==
  \A i, j \in 1 .. Len(Order) : Order[i] = Order[j] => i = j
  BY DEF Order

LEMMA BoundNames == \A m \in Modes : Bound[m] \subseteq Names
  <1>1. \A m \in Modes : Bound[m] \subseteq Bindable
    BY Zenon DEF Bound, Bindable, Modes
  <1> QED BY <1>1 DEF Names

LEMMA CurrentCall ==
  ASSUME TypeOK, InLoop
  PROVE  /\ Body[cfg.workflow] \in Seq(Calls)
         /\ line \in DOMAIN Body[cfg.workflow]
         /\ Current \in Calls
         /\ Uses(Current) \subseteq Names
         /\ Current.to \in Names =>
              Current.fn \in Readers \/ Current.cloud \in Names \/ Current.list \in Names
         /\ Current.fn \in Selectors \cup {"clusterAnalysis", "calcRDF"} => Current.cloud \in Names
  <1>1. cfg.workflow \in Workflows
    BY DEF TypeOK, Configs
  <1>2. Body[cfg.workflow] \in Seq(Calls)
    BY <1>1, DriverAssumption
  <1>3. line \in DOMAIN Body[cfg.workflow] /\ Current \in Calls
    BY <1>2 DEF TypeOK, InLoop, Current
  <1>4. Uses(Current) \subseteq Names
    BY <1>3 DEF Uses, Inputs, Calls, Opt
  <1>5. /\ Current.to # Nothing =>
             Current.fn \in Readers \/ {Current.cloud, Current.list} # {Nothing}
        /\ Current.fn \in Selectors \cup {"clusterAnalysis", "calcRDF"} => Current.cloud # Nothing
    BY <1>1, <1>3, BodyAssumption DEF Current
  <1> QED BY <1>2, <1>3, <1>4, <1>5, NothingAssumption DEF Calls, Opt

-----------------------------------------------------------------------------
(* Type correctness.                                                       *)

LEMMA SourceTypes ==
  ASSUME TypeOK, NEW call \in Calls, call.cloud \in Names \/ call.list \in Names
  PROVE  Source(call, obj) \in Objects
  BY NothingAssumption DEF TypeOK, Source, Calls, Opt

LEMMA ObjectTypes ==
  /\ Blank \in Objects
  /\ \A i \in Nat, a \in Selected, g \in Graphs, f \in Forms, t \in BOOLEAN :
       Object(i, a, g, f, t) \in Objects
  /\ \A i \in Nat, a \in Selected : Cloud(i, a) \in Objects
  BY DEF Blank, Cloud, Object, Objects, Selected, Forms, Graphs

(* Replacing the selection or the frame of an object. *)
LEMMA ReplaceTypes ==
  /\ \A x \in Objects, a \in Selected : [x EXCEPT !.atoms = a] \in Objects
  /\ \A x \in Objects, i \in Nat : [x EXCEPT !.frame = i] \in Objects
  <1>1. ASSUME NEW x \in Objects, NEW a \in Selected PROVE [x EXCEPT !.atoms = a] \in Objects
    BY DEF Objects
  <1>2. ASSUME NEW x \in Objects, NEW i \in Nat PROVE [x EXCEPT !.frame = i] \in Objects
    BY DEF Objects
  <1> QED BY <1>1, <1>2

LEMMA DerivedTypes ==
  ASSUME NEW call \in Calls
  PROVE  \A x \in Objects : Derived(call, x) \in Objects
  <1> SUFFICES ASSUME NEW x \in Objects PROVE Derived(call, x) \in Objects
    OBVIOUS
  <1>1. x.frame \in Nat /\ x.atoms \in Selected /\ x.graph \in Graphs
    BY DEF Objects
  <1>2. Draws(call.fn, x.graph) \in Graphs
    BY <1>1 DEF Draws, Graphs
  <1>3. Makes(call.fn) \in Forms
    BY DEF Makes, Forms
  <1>4. (call.fn \notin Userdata) \in BOOLEAN
    OBVIOUS
  <1> QED BY <1>1, <1>2, <1>3, <1>4, ObjectTypes DEF Derived

LEMMA ResultTypes ==
  ASSUME TypeOK, InLoop, Current.to \in Names \/ Current.fn \in Readers
  PROVE  Result(Current, obj, frame) \in Objects
  <1>1. CASE Current.fn \in Readers
    <2>1. frame \in Nat
      BY DEF TypeOK
    <2>2. Read(Current) \in Selected
      BY DEF Read, Selected
    <2>3. Result(Current, obj, frame) = Cloud(frame, Read(Current))
      BY <1>1 DEF Result, Readers, Selectors
    <2> QED BY <2>1, <2>2, <2>3, ObjectTypes
  <1>2. CASE Current.fn \in Selectors
    <2>1. obj[Current.cloud].frame \in Nat
      BY <1>2, CurrentCall DEF TypeOK, Objects
    <2>2. Picked(Current) \in Selected
      BY DEF Picked, Selected
    <2>3. Result(Current, obj, frame) = Cloud(obj[Current.cloud].frame, Picked(Current))
      BY <1>2 DEF Result, Readers, Selectors
    <2> QED BY <2>1, <2>2, <2>3, ObjectTypes
  <1>3. CASE Current.fn \notin Readers \cup Selectors
    <2>1. Source(Current, obj) \in Objects
      BY <1>3, CurrentCall, SourceTypes
    <2>2. Result(Current, obj, frame) = Derived(Current, Source(Current, obj))
      BY <1>3 DEF Result
    <2> QED BY <2>1, <2>2, CurrentCall, DerivedTypes
  <1> QED BY <1>1, <1>2, <1>3

LEMMA MutatedTypes ==
  ASSUME TypeOK, InLoop, NEW n \in Names
  PROVE  Mutated(Current, n, obj, frame) \in Objects
  <1>1. obj[n] \in Objects
    BY DEF TypeOK
  <1>2. Current.fn \in {"clusterAnalysis", "calcRDF"} => obj[Current.cloud].frame \in Nat
    BY CurrentCall DEF TypeOK, Objects
  <1>3. CASE Current.fn \in Readers /\ n \in Current.outs
    <2>1. Mutated(Current, n, obj, frame) = Result(Current, obj, frame)
      BY <1>3 DEF Mutated, Readers
    <2> QED BY <1>3, <2>1, ResultTypes
  <1>4. CASE Current.fn = "clusterAnalysis" /\ n \in Current.outs
    <2>1. Mutated(Current, n, obj, frame) = Cluster(n, obj[Current.cloud].frame)
      BY <1>4 DEF Mutated, Readers
    <2>2. "cluster" \in Selected /\ "index" \in Forms /\ "distance" \in Graphs
      BY DEF Selected, Forms, Graphs
    <2> QED BY <1>2, <1>4, <2>1, <2>2, ObjectTypes DEF Cluster
  <1>5. CASE Current.fn = "recenterCluster" /\ n = Current.cloud
    <2>1. Mutated(Current, n, obj, frame) = [obj[n] EXCEPT !.atoms = "recentred"]
      BY <1>5 DEF Mutated, Readers
    <2>2. "recentred" \in Selected
      BY DEF Selected
    <2> QED BY <1>1, <2>1, <2>2, ReplaceTypes
  <1>6. CASE Current.fn = "calcRDF" /\ n \in Current.outs
    <2>1. Mutated(Current, n, obj, frame) = [obj[n] EXCEPT !.frame = obj[Current.cloud].frame]
      BY <1>6 DEF Mutated, Readers
    <2> QED BY <1>1, <1>2, <1>6, <2>1, ReplaceTypes
  <1>7. CASE /\ ~(Current.fn \in Readers /\ n \in Current.outs)
             /\ ~(Current.fn = "clusterAnalysis" /\ n \in Current.outs)
             /\ ~(Current.fn = "recenterCluster" /\ n = Current.cloud)
             /\ ~(Current.fn = "calcRDF" /\ n \in Current.outs)
    <2>1. Mutated(Current, n, obj, frame) = obj[n]
      BY <1>7 DEF Mutated
    <2> QED BY <1>1, <2>1
  <1> QED BY <1>3, <1>4, <1>5, <1>6, <1>7

(* A call changes what globals describe, and gives Lua the one it assigns. *)
LEMMA CallTypes ==
  ASSUME TypeOK, Call
  PROVE  /\ owner' \in [Names -> Owners]
         /\ obj' \in [Names -> Objects]
         /\ \A n \in Names : owner'[n] = IF n = Current.to THEN "lua" ELSE owner[n]
  <1>1. owner' = [n \in Names |-> IF n = Current.to THEN "lua" ELSE owner[n]]
    BY DEF Call
  <1>2. ASSUME NEW n \in Names PROVE After(Current, n, obj, frame) \in Objects
    <2>1. CASE n = Current.to
      BY <2>1, ResultTypes DEF After, Call
    <2>2. CASE n # Current.to
      BY <2>2, MutatedTypes DEF After, Call
    <2> QED BY <2>1, <2>2
  <1>3. obj' = [n \in Names |-> After(Current, n, obj, frame)]
    BY DEF Call
  <1>4. obj' \in [Names -> Objects]
    BY <1>2, <1>3
  <1>5. \A n \in Names : owner[n] \in Owners
    BY DEF TypeOK
  <1> QED BY <1>1, <1>4, <1>5 DEF Owners

LEMMA TypeOKInit == Init => TypeOK
  <1> SUFFICES ASSUME Init PROVE TypeOK
    OBVIOUS
  <1>1. owner \in [Names -> Owners] /\ obj \in [Names -> Objects]
    BY ObjectTypes DEF Init, Owners
  <1> QED BY <1>1, DriverAssumption, OrderFacts DEF Init, TypeOK

LEMMA ExitTypes ==
  ASSUME TypeOK, NEW code \in {"0", "1", "abort", "undefined"}, Exit(code)
  PROVE  TypeOK'
  BY DEF TypeOK, Exit

LEMMA TypeOKNext == TypeOK /\ [Next \/ Stopped]_vars => TypeOK'
  <1> SUFFICES ASSUME TypeOK, [Next \/ Stopped]_vars PROVE TypeOK'
    OBVIOUS
  <1>1. ASSUME NEW code \in {"0", "1", "abort", "undefined"}, Exit(code) PROVE TypeOK'
    BY <1>1, ExitTypes
  <1>2. CASE ParseArguments \/ SetupHelpers
    BY <1>2 DEF ParseArguments, SetupHelpers, TypeOK
  <1>3. CASE SkipMode
    BY <1>3, OrderFacts DEF SkipMode, TypeOK
  <1>4. CASE RunVars
    <2>1. owner' \in [Names -> Owners] /\ obj' \in [Names -> Objects]
      BY <1>4, ObjectTypes DEF RunVars, TypeOK, Owners
    <2>2. mode \in 1 .. Len(Order)
      BY <1>4, OrderFacts DEF RunVars, TypeOK, Enabled
    <2> QED BY <1>4, <2>1, <2>2 DEF RunVars, TypeOK
  <1>5. CASE RunFunctions
    <2>1. mode \in 1 .. Len(Order) /\ Order[mode] \in Modes
      BY <1>5, OrderFacts DEF RunFunctions, TypeOK
    <2>2. owner' \in [Names -> Owners] /\ obj' \in [Names -> Objects]
      BY <1>5, <2>1, ObjectTypes DEF RunFunctions, TypeOK, Owners
    <2> QED BY <1>5, <2>1, <2>2, DriverAssumption DEF RunFunctions, TypeOK
  <1>6. CASE Call
    BY <1>6, CallTypes DEF Call, TypeOK
  <1>7. CASE NextFrame
    BY <1>7, DriverAssumption DEF NextFrame, TypeOK
  <1>8. CASE EndMode
    BY <1>8, OrderFacts DEF EndMode, TypeOK
  <1>9. CASE Stopped \/ UNCHANGED vars
    BY <1>9 DEF Stopped, TypeOK, vars
  <1>10. Next => \/ ParseArguments \/ SetupHelpers \/ SkipMode \/ RunVars \/ RunFunctions \/ Call \/ NextFrame
                 \/ EndMode \/ \E code \in {"0", "1", "abort", "undefined"} : Exit(code)
    BY DEF Next, PrintAndLeave, BadArguments, Uncaught, ScriptFails, NoFunctionScript, RefuseCall, UndefinedCall, Finish
  <1> QED BY <1>1, <1>2, <1>3, <1>4, <1>5, <1>6, <1>7, <1>8, <1>9, <1>10

(* Every state of the driver is of its type, for every set of workflows. *)
THEOREM DriverTyped == Spec => []TypeOK
  BY TypeOKInit, TypeOKNext, PTL DEF Spec

-----------------------------------------------------------------------------
(* Owners: which block an object in use belongs to.                        *)

(* What a running function script may rely on.                             *)
Live(n) == owner[n] \in {"lua", Order[mode]}

ScriptEnv ==
  pc = "script" =>
    /\ \A n \in Bound[Order[mode]] : Live(n)
    /\ \A i \in 1 .. line - 1, n \in Names :
         (i \in DOMAIN Body[cfg.workflow] /\ Body[cfg.workflow][i].to = n) => Live(n)

(* A pointer to a block that has ended comes from a mode that ran. *)
Pointers ==
  pc # "done" =>
    \A n \in Names : owner[n] \in Modes =>
      owner[n] \in ran \/ (pc = "script" /\ owner[n] = Order[mode])

(* The modes behind the current one ran if they were switched on. *)
Progress ==
  /\ pc # "done" => /\ exit = "running"
                    /\ \A m \in Modes : m \in ran <=>
                         m \in cfg.enabled /\ \E i \in 1 .. mode - 1 : Order[i] = m
  /\ pc \in {"bind", "script"} => Order[mode] \in cfg.enabled
  /\ pc = "args" => mode = 1
  /\ pc \notin {"args", "done"} => cfg.args = "run"

DriverInv ==
  /\ TypeOK /\ ScriptEnv /\ Pointers /\ Progress
  /\ NoUndefined /\ OnlyLeftOvers /\ BannerTrue

LEMMA DriverInvInit == Init => DriverInv
  BY TypeOKInit, OrderFacts
  DEF Init, DriverInv, ScriptEnv, Pointers, Progress, NoUndefined, OnlyLeftOvers, BannerTrue,
      Modes

(* A script that is bound what it needs is never at a call it has no live  *)
(* object for.                                                             *)
LEMMA BoundCallsLive ==
  ASSUME TypeOK, ScriptEnv, Progress, InLoop, BoundSafely, NEW n \in Uses(Current)
  PROVE  Live(n)
  <1> DEFINE body == Body[cfg.workflow]
  <1>1. line \in DOMAIN body /\ n \in Names /\ Current = body[line]
    BY CurrentCall DEF Current
  <1>2. CASE \E j \in 1 .. line - 1 : body[j].to = n
    <2>1. PICK j \in 1 .. line - 1 : body[j].to = n
      BY <1>2
    <2>2. j \in DOMAIN body
      BY <1>1, <2>1, CurrentCall DEF TypeOK
    <2> QED BY <1>1, <2>1, <2>2 DEF ScriptEnv, InLoop
  <1>3. CASE \A j \in 1 .. line - 1 : body[j].to # n
    <2>1. n \in Needs(body)
      BY <1>1, <1>3 DEF Needs
    <2>2. Order[mode] \in cfg.enabled
      BY DEF Progress, InLoop
    <2>3. n \in Bound[Order[mode]]
      BY <2>1, <2>2 DEF BoundSafely
    <2> QED BY <2>3 DEF ScriptEnv, InLoop
  <1> QED BY <1>2, <1>3

(* Leaving the driver, with whatever code. *)
LEMMA ExitKeeps ==
  ASSUME DriverInv, pc # "done", NEW code \in {"0", "1", "abort", "undefined"}, Exit(code),
         code = "0" => ran = IF cfg.args = "run" THEN cfg.enabled ELSE {},
         code = "undefined" => ~BoundSafely /\ (cfg.checked => ran # {})
  PROVE  DriverInv'
  <1>1. TypeOK'
    BY ExitTypes DEF DriverInv
  <1>2. ScriptEnv' /\ Pointers' /\ Progress'
    BY DEF Exit, ScriptEnv, Pointers, Progress
  <1>3. NoUndefined' /\ OnlyLeftOvers' /\ BannerTrue'
    BY DEF Exit, NoUndefined, BoundSafely, OnlyLeftOvers, BannerTrue
  <1> QED BY <1>1, <1>2, <1>3 DEF DriverInv

LEMMA UndefinedKeeps == DriverInv /\ UndefinedCall => DriverInv'
  <1> SUFFICES ASSUME DriverInv, UndefinedCall PROVE DriverInv'
    OBVIOUS
  <1>1. PICK n \in Uses(Current) : NotAnObject(n) \/ Dangling(n)
    BY DEF UndefinedCall, Unsound
  <1>2. n \in Names /\ pc = "script" /\ mode \in 1 .. 4 /\ Order[mode] \in Modes
    BY CurrentCall, OrderFacts DEF DriverInv, UndefinedCall, InLoop, TypeOK
  <1>3. ~Live(n)
    BY <1>1, <1>2 DEF Live, NotAnObject, Dangling, Modes
  <1>4. ~BoundSafely
    BY <1>3, BoundCallsLive DEF DriverInv, UndefinedCall
  <1>5. ASSUME cfg.checked PROVE ran # {}
    <2>1. Dangling(n)
      BY <1>1, <1>5 DEF UndefinedCall, Refused
    <2> QED BY <1>2, <2>1 DEF DriverInv, Pointers, Dangling
  <1> QED BY <1>2, <1>4, <1>5, ExitKeeps DEF UndefinedCall

LEMMA CallKeeps == DriverInv /\ Call => DriverInv'
  <1> SUFFICES ASSUME DriverInv, Call PROVE DriverInv'
    OBVIOUS
  <1>1. TypeOK'
    BY TypeOKNext DEF DriverInv, Next
  <1>2. \A n \in Names : owner'[n] = IF n = Current.to THEN "lua" ELSE owner[n]
    BY CallTypes DEF DriverInv
  <1>3. /\ line \in Nat \ {0} /\ line' = line + 1
        /\ UNCHANGED <<cfg, pc, mode, ran, exit>>
        /\ pc = "script"
    BY DEF DriverInv, TypeOK, Call, InLoop
  <1>4. \A n \in Names : Live(n) => Live(n)'
    BY <1>2, <1>3 DEF Live
  <1>5. ScriptEnv'
    <2>1. Bound[Order[mode]] \subseteq Names
      BY <1>3, OrderFacts, BoundNames DEF DriverInv, TypeOK
    <2>2. \A n \in Bound[Order[mode]] : Live(n)'
      BY <1>3, <1>4, <2>1 DEF DriverInv, ScriptEnv
    <2>3. ASSUME NEW i \in 1 .. line, NEW n \in Names,
                 i \in DOMAIN Body[cfg.workflow], Body[cfg.workflow][i].to = n
          PROVE  Live(n)'
      <3>1. CASE i = line
        BY <1>2, <2>3, <3>1 DEF Live, Current
      <3>2. CASE i # line
        BY <1>3, <1>4, <2>3, <3>2 DEF DriverInv, ScriptEnv
      <3> QED BY <3>1, <3>2
    <2> QED BY <1>3, <2>2, <2>3 DEF ScriptEnv
  <1>6. Pointers'
    BY <1>2, <1>3 DEF DriverInv, Pointers, Modes
  <1>7. Progress' /\ NoUndefined' /\ OnlyLeftOvers' /\ BannerTrue'
    BY <1>3 DEF DriverInv, Progress, NoUndefined, BoundSafely, OnlyLeftOvers, BannerTrue
  <1> QED BY <1>1, <1>5, <1>6, <1>7 DEF DriverInv

(* Steps that only move the program counter or rebind globals. *)
LEMMA StepKeeps ==
  ASSUME DriverInv,
         \/ ParseArguments \/ SetupHelpers \/ SkipMode \/ RunVars \/ RunFunctions
         \/ NextFrame \/ EndMode
  PROVE  DriverInv'
  <1>1. TypeOK'
    BY TypeOKNext DEF DriverInv, Next
  <1>2. /\ UNCHANGED <<cfg, exit>> /\ exit = "running"
    BY DEF DriverInv, Progress, ParseArguments, SetupHelpers, SkipMode, RunVars, RunFunctions,
           NextFrame, EndMode
  <1>3. NoUndefined' /\ OnlyLeftOvers' /\ BannerTrue'
    BY <1>2 DEF NoUndefined, OnlyLeftOvers, BannerTrue
  <1>4. TypeOK /\ ScriptEnv /\ Pointers /\ Progress
    BY DEF DriverInv
  <1>5. CASE ParseArguments \/ SetupHelpers
    BY <1>1, <1>3, <1>4, <1>5
    DEF DriverInv, ParseArguments, SetupHelpers, ScriptEnv, Pointers, Progress
  <1>6. CASE SkipMode
    <2>1. Progress'
      BY <1>4, <1>6, OrderFacts DEF SkipMode, Enabled, Progress, TypeOK
    <2> QED BY <1>1, <1>3, <1>4, <1>6, <2>1 DEF DriverInv, SkipMode, ScriptEnv, Pointers
  <1>7. CASE RunVars
    <2>1. Pointers'
      BY <1>4, <1>7 DEF RunVars, Pointers, Modes
    <2> QED BY <1>1, <1>3, <1>4, <1>7, <2>1 DEF DriverInv, RunVars, Enabled, ScriptEnv, Progress
  <1>8. CASE RunFunctions
    <2>1. ScriptEnv'
      <3>1. mode \in 1 .. 4 /\ Order[mode] \in Modes
        BY <1>4, <1>8, OrderFacts DEF RunFunctions, TypeOK
      <3>2. Bound[Order[mode]] \subseteq Names
        BY <3>1, BoundNames
      <3> QED BY <1>8, <3>1, <3>2 DEF RunFunctions, ScriptEnv, Live
    <2>2. Pointers'
      BY <1>4, <1>8 DEF RunFunctions, Pointers
    <2> QED BY <1>1, <1>3, <1>4, <1>8, <2>1, <2>2 DEF DriverInv, RunFunctions, Progress
  <1>9. CASE NextFrame
    <2>1. ScriptEnv'
      BY <1>4, <1>9 DEF NextFrame, ScriptEnv, Live
    <2> QED BY <1>1, <1>3, <1>4, <1>9, <2>1 DEF DriverInv, NextFrame, Pointers, Progress
  <1>10. CASE EndMode
    <2>1. mode \in 1 .. 4 /\ Order[mode] \in cfg.enabled
      BY <1>4, <1>10, OrderFacts DEF EndMode, TypeOK, Progress
    <2>2. Progress'
      BY <1>4, <1>10, <2>1, OrderFacts DEF EndMode, Progress, TypeOK
    <2>3. Pointers'
      BY <1>4, <1>10 DEF EndMode, Pointers
    <2>4. ScriptEnv'
      BY <1>10 DEF EndMode, ScriptEnv
    <2> QED BY <1>1, <1>3, <2>2, <2>3, <2>4 DEF DriverInv
  <1> QED BY <1>5, <1>6, <1>7, <1>8, <1>9, <1>10

LEMMA DriverInvNext == DriverInv /\ [Next \/ Stopped]_vars => DriverInv'
  <1> SUFFICES ASSUME DriverInv, [Next \/ Stopped]_vars PROVE DriverInv'
    OBVIOUS
  <1>1. CASE Finish
    <2>1. pc = "vars" /\ mode = 5 /\ Exit("0")
      BY <1>1, OrderFacts DEF Finish, DriverInv, TypeOK
    <2>2. ran = cfg.enabled /\ cfg.args = "run"
      <3>1. \A m \in Modes : m \in ran <=> m \in cfg.enabled
        BY <2>1, OrderFacts DEF DriverInv, Progress
      <3> QED BY <2>1, <3>1 DEF DriverInv, TypeOK, Configs, Progress
    <2> QED BY <2>1, <2>2, ExitKeeps
  <1>2. CASE BadArguments \/ Uncaught \/ ScriptFails \/ NoFunctionScript \/ RefuseCall
    BY <1>2, ExitKeeps
    DEF BadArguments, Uncaught, ScriptFails, NoFunctionScript, RefuseCall, InLoop
  <1>4. CASE PrintAndLeave
    <2>1. pc = "args" /\ cfg.args # "run" /\ Exit("0")
      BY <1>4 DEF PrintAndLeave
    <2>2. ran = {}
      BY <2>1 DEF DriverInv, TypeOK, Progress
    <2> QED BY <2>1, <2>2, ExitKeeps
  <1>3. CASE Stopped \/ UNCHANGED vars
    <2>1. UNCHANGED vars
      BY <1>3 DEF Stopped
    <2> QED BY <2>1 DEF vars, DriverInv, TypeOK, ScriptEnv, Live, Pointers, Progress, NoUndefined,
               BoundSafely, OnlyLeftOvers, BannerTrue
  <1> QED BY <1>1, <1>2, <1>3, <1>4, UndefinedKeeps, CallKeeps, StepKeeps DEF Next

(* A workflow whose needs are bound by every mode that is switched on      *)
(* never reaches undefined behaviour, in whatever order modes follow.      *)
THEOREM BoundWorkflowsAreDefined == Spec => []NoUndefined
  <1>1. DriverInv => NoUndefined
    BY DEF DriverInv
  <1> QED BY <1>1, DriverInvInit, DriverInvNext, PTL DEF Spec

(* With checked arguments, undefined behaviour is always a leftover of an  *)
(* earlier mode.                                                           *)
THEOREM CheckedBuildsOnlyLeftOvers == Spec => []OnlyLeftOvers
  <1>1. DriverInv => OnlyLeftOvers
    BY DEF DriverInv
  <1> QED BY <1>1, DriverInvInit, DriverInvNext, PTL DEF Spec

(* Exit code 0 is only returned once every mode switched on has run. *)
THEOREM ZeroMeansAllRan == Spec => []BannerTrue
  <1>1. DriverInv => BannerTrue
    BY DEF DriverInv
  <1> QED BY <1>1, DriverInvInit, DriverInvNext, PTL DEF Spec

-----------------------------------------------------------------------------
(* The driver implements ModeRuns.                                         *)

Asked == IF cfg.args = "run" THEN cfg.enabled ELSE {}

LEMMA RunsInit == Init => Runs!Init
  <1> SUFFICES ASSUME Init PROVE Runs!Init
    OBVIOUS
  <1>1. DOMAIN Order = 1 .. 4
    BY DEF Order
  <1>2. Asked \subseteq Modes
    BY DEF Init, Configs, Asked
  <1>3. Modes \subseteq {Order[i] : i \in DOMAIN Order}
    BY <1>1, OrderFacts
  <1> QED BY <1>2, <1>3 DEF Runs!Init, Init, Asked

(* Every way to leave is a stop. *)
LEMMA ExitStops ==
  ASSUME DriverInv, pc # "done", NEW c \in {"0", "1", "abort", "undefined"}, Exit(c),
         c = "0" => ran = Asked
  PROVE  Runs!Next
  <1>1. Runs!Stop(c)
    BY DEF Runs!Stop, Exit, DriverInv, Progress, Asked
  <1> QED BY <1>1 DEF Runs!Next

(* The end of a block completes its mode: it was switched on, it had not   *)
(* run, and what comes before it in main had.                              *)
LEMMA EndCompletes == DriverInv /\ EndMode => Runs!Next
  <1> SUFFICES ASSUME DriverInv, EndMode PROVE Runs!Next
    OBVIOUS
  <1>1. TypeOK /\ Progress /\ pc = "script" /\ exit = "running" /\ cfg.args = "run"
    BY DEF DriverInv, EndMode, Progress
  <1>2. mode \in 1 .. 4 /\ Order[mode] \in cfg.enabled
    BY <1>1, OrderFacts DEF TypeOK, Progress
  <1>3. \A m \in Modes : m \in ran <=> m \in cfg.enabled /\ \E i \in 1 .. mode - 1 : Order[i] = m
    BY <1>1 DEF Progress
  <1>4. Order[mode] \notin ran
    BY <1>2, <1>3, OrderFacts, OrderInjective
  <1>5. \A j \in 1 .. mode - 1 : Order[j] \in cfg.enabled => Order[j] \in ran
    BY <1>2, <1>3, OrderFacts
  <1>6. ran' = ran \cup {Order[mode]} /\ UNCHANGED <<cfg, exit>>
    BY DEF EndMode
  <1>7. Runs!Complete(mode)
    BY <1>1, <1>2, <1>4, <1>5, <1>6 DEF Runs!Complete, Runs!Wanted, Runs!Done
  <1>8. mode \in DOMAIN Order
    BY <1>2 DEF Order
  <1> QED BY <1>7, <1>8 DEF Runs!Next

LEMMA RunsNext == DriverInv /\ [Next \/ Stopped]_vars => [Runs!Next]_(Runs!runVars)
  <1> SUFFICES ASSUME DriverInv, [Next \/ Stopped]_vars PROVE [Runs!Next]_(Runs!runVars)
    OBVIOUS
  <1>1. CASE UNCHANGED <<cfg, ran, exit>>
    BY <1>1 DEF Runs!runVars
  <1>2. CASE EndMode
    BY <1>2, EndCompletes
  <1>3. CASE Finish
    <2>1. ran' = Asked'
      <3>1. BannerTrue' /\ exit' = "0"
        BY <1>3, DriverInvNext DEF DriverInv, Next, Finish, Exit
      <3> QED BY <3>1 DEF BannerTrue, Asked
    <2>2. ran = Asked /\ pc # "done" /\ Exit("0")
      BY <1>3, <2>1 DEF Finish, Exit, Asked
    <2> QED BY <2>2, ExitStops
  <1>4. CASE PrintAndLeave
    <2>1. ran = Asked /\ pc # "done" /\ Exit("0")
      BY <1>4 DEF PrintAndLeave, DriverInv, Progress, TypeOK, Asked
    <2> QED BY <2>1, ExitStops
  <1>5. CASE BadArguments \/ Uncaught \/ ScriptFails \/ NoFunctionScript \/ RefuseCall
               \/ UndefinedCall
    BY <1>5, ExitStops
    DEF BadArguments, Uncaught, ScriptFails, NoFunctionScript, RefuseCall, UndefinedCall, InLoop
  <1>6. CASE \/ ParseArguments \/ SetupHelpers \/ SkipMode \/ RunVars \/ RunFunctions
             \/ Call \/ NextFrame
    BY <1>1, <1>6
    DEF ParseArguments, SetupHelpers, SkipMode, RunVars, RunFunctions, Call, NextFrame
  <1>7. CASE Stopped \/ UNCHANGED vars
    BY <1>1, <1>7 DEF Stopped, vars
  <1> QED BY <1>2, <1>3, <1>4, <1>5, <1>6, <1>7 DEF Next

(* Every run of the driver, for every set of workflow scripts, is one of   *)
(* ModeRuns: modes complete in main's order and nothing follows a stop     *)
(* (main.cpp:149-239).                                                     *)
THEOREM DriverRunsModes == Spec => RunsModes
  <1>1. Spec => []DriverInv
    BY DriverInvInit, DriverInvNext, PTL DEF Spec
  <1> QED BY <1>1, RunsInit, RunsNext, PTL DEF Spec, RunsModes, Runs!Spec

-----------------------------------------------------------------------------
(* Every step goes on, and there is an end to go to.                       *)

(* No loop variable is outside its loop by more than the step that ends it. *)
WithinLoops ==
  /\ FirstFrame <= frame /\ frame <= LoopEnd
  /\ line <= Len(Body[cfg.workflow]) + 1

LEMMA LoopFacts ==
  ASSUME TypeOK
  PROVE  /\ Last \in Nat /\ LoopEnd \in Nat /\ FirstFrame <= LoopEnd
         /\ Len(Body[cfg.workflow]) \in Nat
  <1>1. Body[cfg.workflow] \in Seq(Calls)
    BY DriverAssumption DEF TypeOK, Configs
  <1>2. Last \in Nat
    BY DriverAssumption DEF Last
  <1>3. Len(Body[cfg.workflow]) \in Nat
    BY <1>1
  <1> HIDE DEF Last
  <1> QED BY <1>2, <1>3, DriverAssumption DEF LoopEnd

LEMMA WithinInit == Init => WithinLoops
  <1> SUFFICES ASSUME Init PROVE WithinLoops
    OBVIOUS
  <1>1. TypeOK
    BY TypeOKInit
  <1> QED BY <1>1, LoopFacts, DriverAssumption DEF Init, WithinLoops

LEMMA WithinNext ==
  TypeOK /\ WithinLoops /\ [Next \/ Stopped]_vars => WithinLoops'
  <1> SUFFICES ASSUME TypeOK, WithinLoops, [Next \/ Stopped]_vars PROVE WithinLoops'
    OBVIOUS
  <1>1. CASE UNCHANGED <<cfg, frame, line>>
    BY <1>1 DEF WithinLoops, LoopEnd, Last
  <1>2. CASE RunFunctions
    BY <1>2, LoopFacts, DriverAssumption DEF RunFunctions, WithinLoops, LoopEnd, Last
  <1>3. CASE Call
    <2>1. line' = line + 1 /\ line <= Len(Body[cfg.workflow]) /\ UNCHANGED <<cfg, frame>>
      BY <1>3 DEF Call, InLoop
    <2> QED BY <2>1, LoopFacts DEF TypeOK, WithinLoops, LoopEnd, Last
  <1>4. CASE NextFrame
    <2>1. frame' = frame + FrameGap /\ frame <= Last /\ line' = 1 /\ cfg' = cfg
      BY <1>4 DEF NextFrame
    <2>2. LoopEnd = Last + FrameGap
      BY <2>1, LoopFacts, DriverAssumption DEF TypeOK, WithinLoops, LoopEnd
    <2>3. LoopEnd' = LoopEnd
      BY <2>1 DEF LoopEnd, Last
    <2> QED BY <2>1, <2>2, <2>3, LoopFacts, DriverAssumption DEF TypeOK, WithinLoops
  <1>5. Next \/ Stopped =>
          UNCHANGED <<cfg, frame, line>> \/ RunFunctions \/ Call \/ NextFrame
    BY DEF Next, ParseArguments, PrintAndLeave, BadArguments, SetupHelpers, Uncaught, SkipMode,
           RunVars, ScriptFails, NoFunctionScript, RefuseCall, UndefinedCall, EndMode, Finish,
           Exit, Stopped, vars
  <1> QED BY <1>1, <1>2, <1>3, <1>4, <1>5 DEF vars

(* A place is later at the first position where it differs. *)
LEMMA LaterAt ==
  ASSUME NEW p, NEW q, NEW k \in 1 .. 5, p[k] < q[k], \A j \in 1 .. k - 1 : p[j] = q[j]
  PROVE  Later(q, p)
  BY DEF Later

LEMMA PlaceIs ==
  /\ Place[1] = Stage /\ Place[2] = mode /\ Place[3] = Phase /\ Place[4] = frame /\ Place[5] = line
  /\ Place'[1] = Stage' /\ Place'[2] = mode' /\ Place'[3] = Phase' /\ Place'[4] = frame'
  /\ Place'[5] = line'
  BY DEF Place

LEMMA GoesOn == TypeOK /\ Next => Later(Place', Place)
  <1> SUFFICES ASSUME TypeOK, Next PROVE Later(Place', Place)
    OBVIOUS
  <1>1. mode \in Nat /\ frame \in Nat /\ line \in Nat
    BY OrderFacts DEF TypeOK
  <1>2. ASSUME Stage < Stage' PROVE Later(Place', Place)
    <2>1. 1 \in 1 .. 5 /\ \A j \in 1 .. 1 - 1 : Place[j] = Place'[j]
      OBVIOUS
    <2> QED BY <1>2, <2>1, PlaceIs, LaterAt
  <1>3. ASSUME Stage' = Stage, mode < mode' PROVE Later(Place', Place)
    <2>1. 2 \in 1 .. 5 /\ \A j \in 1 .. 2 - 1 : Place[j] = Place'[j]
      BY <1>3, PlaceIs
    <2> QED BY <1>3, <2>1, PlaceIs, LaterAt
  <1>4. ASSUME Stage' = Stage, mode' = mode, Phase < Phase' PROVE Later(Place', Place)
    <2>1. 3 \in 1 .. 5 /\ \A j \in 1 .. 3 - 1 : Place[j] = Place'[j]
      BY <1>4, PlaceIs
    <2> QED BY <1>4, <2>1, PlaceIs, LaterAt
  <1>5. ASSUME Stage' = Stage, mode' = mode, Phase' = Phase, frame < frame'
        PROVE  Later(Place', Place)
    <2>1. 4 \in 1 .. 5 /\ \A j \in 1 .. 4 - 1 : Place[j] = Place'[j]
      BY <1>5, PlaceIs
    <2> QED BY <1>5, <2>1, PlaceIs, LaterAt
  <1>6. ASSUME Stage' = Stage, mode' = mode, Phase' = Phase, frame' = frame, line < line'
        PROVE  Later(Place', Place)
    <2>1. 5 \in 1 .. 5 /\ \A j \in 1 .. 5 - 1 : Place[j] = Place'[j]
      BY <1>6, PlaceIs
    <2> QED BY <1>6, <2>1, PlaceIs, LaterAt
  <1>7. CASE ParseArguments \/ SetupHelpers
    BY <1>2, <1>7 DEF ParseArguments, SetupHelpers, Stage
  <1>8. CASE SkipMode \/ EndMode
    <2>1. mode' = mode + 1 /\ Stage' = Stage
      BY <1>8 DEF SkipMode, EndMode, Stage
    <2> QED BY <1>1, <1>3, <2>1
  <1>9. CASE RunVars \/ RunFunctions
    BY <1>4, <1>9 DEF RunVars, RunFunctions, Stage, Phase
  <1>10. CASE NextFrame
    <2>1. frame' = frame + FrameGap /\ UNCHANGED <<pc, mode>>
      BY <1>10 DEF NextFrame
    <2>2. Stage' = Stage /\ Phase' = Phase /\ frame < frame'
      BY <1>1, <2>1, DriverAssumption DEF Stage, Phase
    <2> QED BY <1>5, <2>1, <2>2
  <1>11. CASE Call
    <2>1. line' = line + 1 /\ UNCHANGED <<pc, mode, frame>>
      BY <1>11 DEF Call
    <2>2. Stage' = Stage /\ Phase' = Phase /\ line < line'
      BY <1>1, <2>1 DEF Stage, Phase
    <2> QED BY <1>6, <2>1, <2>2
  <1>12. CASE pc # "done" /\ pc' = "done"
    BY <1>2, <1>12 DEF Stage
  <1>13. Next => \/ ParseArguments \/ SetupHelpers \/ SkipMode \/ EndMode \/ RunVars
                 \/ RunFunctions \/ NextFrame \/ Call \/ (pc # "done" /\ pc' = "done")
    BY DEF Next, PrintAndLeave, BadArguments, Uncaught, ScriptFails, NoFunctionScript, RefuseCall,
           UndefinedCall, InLoop, Finish, Exit
  <1> QED BY <1>7, <1>8, <1>9, <1>10, <1>11, <1>12, <1>13

LEMMA NotBeyond ==
  TypeOK' /\ WithinLoops' /\ cfg' = cfg => \A k \in 1 .. 5 : Place'[k] <= End[k]
  <1> SUFFICES ASSUME TypeOK', WithinLoops', cfg' = cfg, NEW k \in 1 .. 5
               PROVE  Place'[k] <= End[k]
    OBVIOUS
  <1>1. Stage' <= 3 /\ Phase' <= 2
    BY DEF Stage, Phase
  <1>2. mode' <= Len(Order) + 1
    BY OrderFacts DEF TypeOK
  <1>3. frame' <= LoopEnd /\ line' <= Len(Body[cfg.workflow]) + 1
    BY DEF WithinLoops, LoopEnd, Last
  <1>4. /\ End[1] = 3 /\ End[2] = Len(Order) + 1 /\ End[3] = 2 /\ End[4] = LoopEnd
        /\ End[5] = Len(Body[cfg.workflow]) + 1
    BY DEF End
  <1>5. k = 1 \/ k = 2 \/ k = 3 \/ k = 4 \/ k = 5
    OBVIOUS
  <1> QED BY <1>1, <1>2, <1>3, <1>4, <1>5, PlaceIs

(* For every set of scripts and frames, each step brings the driver closer *)
(* to an end it cannot pass: no run goes on for ever (main.cpp:149-250).    *)
THEOREM DriverAdvances == Spec => Advances
  <1>1. Spec => [](TypeOK /\ WithinLoops)
    BY TypeOKInit, TypeOKNext, WithinInit, WithinNext, PTL DEF Spec
  <1>2. /\ TypeOK /\ WithinLoops /\ TypeOK' /\ WithinLoops'
        /\ [Next \/ Stopped]_vars
        => [Later(Place', Place) /\ \A k \in 1 .. 5 : Place'[k] <= End[k]]_vars
    <2>1. Next => cfg' = cfg
      BY DEF Next, ParseArguments, PrintAndLeave, BadArguments, SetupHelpers, Uncaught, SkipMode,
             RunVars, RunFunctions, ScriptFails, NoFunctionScript, Call, RefuseCall,
             UndefinedCall, NextFrame, EndMode, Finish, Exit
    <2> QED BY <2>1, GoesOn, NotBeyond DEF Stopped
  <1> QED BY <1>1, <1>2, PTL DEF Spec, Advances
=============================================================================
