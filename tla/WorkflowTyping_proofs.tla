------------------------ MODULE WorkflowTyping_proofs ------------------------
(***************************************************************************)
(* A workflow that types gives every call coherent objects, whatever modes *)
(* run it and however many frames there are; and what follows for the      *)
(* example scripts.                                                        *)
(***************************************************************************)
EXTENDS MCLuaDriver, LuaDriver_proofs

Typed(Known) == \A w \in Workflows : Typing(Body[w], Known[w])

(* Two objects that differ in their frame at most. *)
Like(x, y) ==
  x.atoms = y.atoms /\ x.graph = y.graph /\ x.form = y.form /\ x.table = y.table

(* The objects o are those known, of frame f. *)
Describe(o, f, known) ==
  \A n \in DOMAIN known : o[n].frame = f /\ Like(o[n], known[n])

-----------------------------------------------------------------------------
(* Calls on objects that are described.                                    *)

LEMMA InputNames ==
  ASSUME NEW call \in Calls
  PROVE  /\ \A n \in {call.cloud, call.list, call.rings} \ {Nothing} : n \in Inputs(call)
         /\ \A n \in call.also : n \in Inputs(call)
         /\ Inputs(call) \subseteq Names /\ Fresh(call) \subseteq Names
  BY NothingAssumption DEF Inputs, Fresh, Calls, Opt

(* Inputs that agree where they are known agree in the frame described. *)
LEMMA AgreeFollows ==
  ASSUME NEW call \in Calls
  PROVE  \A o, f, known :
           /\ Inputs(call) \subseteq DOMAIN known
           /\ Describe(o, f, known)
           /\ Agree(call, known, Noted)
           => Agree(call, o, f)
  <1> SUFFICES ASSUME NEW o, NEW f, NEW known, Inputs(call) \subseteq DOMAIN known,
                      Describe(o, f, known), Agree(call, known, Noted)
               PROVE  Agree(call, o, f)
    OBVIOUS
  <1> DEFINE about == {call.cloud, call.list, call.rings} \ {Nothing}
  <1>1. \A n \in about \cup call.also :
          /\ o[n].frame = f /\ o[n].atoms = known[n].atoms /\ o[n].graph = known[n].graph
          /\ o[n].form = known[n].form /\ o[n].table = known[n].table
    BY InputNames DEF Describe, Like
  <1>2. \A n \in about : o[n].frame = f
    BY <1>1
  <1>3. \A n, m \in about : o[n].atoms = o[m].atoms
    BY <1>1 DEF Agree
  <1>4. call.list # Nothing => o[call.list].form = Wants(call.fn)
    BY <1>1 DEF Agree
  <1>5. call.rings # Nothing => o[call.rings].form = "rings"
    BY <1>1 DEF Agree
  <1>6. Nothing \notin {call.list, call.rings} => o[call.list].graph = o[call.rings].graph
    BY <1>1 DEF Agree
  <1>7. ~Misheld(call, o)
    BY <1>1 DEF Agree, Misheld
  <1>8. \A n \in call.also : o[n].frame = f /\ o[n].form \in Feeds(call.fn)
    BY <1>1 DEF Agree
  <1>9. \A n \in call.also, m \in about : o[n].form # "cloud" => o[n].atoms = o[m].atoms
    BY <1>1 DEF Agree
  <1>10. call.fn = "seededCageAffiliation" =>
           /\ call.list # Nothing /\ o[call.list].graph = "mutual"
           /\ \A n \in call.also : o[n].graph = "union"
    BY <1>1 DEF Agree
  <1> QED BY <1>2, <1>3, <1>4, <1>5, <1>6, <1>7, <1>8, <1>9, <1>10 DEF Agree

LEMMA SameClouds ==
  /\ \A g, h, a : Cloud(g, a).frame = g /\ Like(Cloud(g, a), Cloud(h, a))
  /\ \A n, g, h : Cluster(n, g).frame = g /\ Like(Cluster(n, g), Cluster(n, h))
  <1>1. \A g, h, a : Cloud(g, a).frame = g /\ Like(Cloud(g, a), Cloud(h, a))
    BY DEF Cloud, Object, Like
  <1>2. \A g, h : LET x(i) == Object(i, "cluster", "distance", "index", FALSE)
                  IN  x(g).frame = g /\ Like(x(g), x(h))
    BY DEF Object, Like
  <1>3. ASSUME NEW n, NEW g, NEW h
        PROVE  Cluster(n, g).frame = g /\ Like(Cluster(n, g), Cluster(n, h))
    <2>1. CASE n = "clusterCloud"
      BY <1>1, <2>1 DEF Cluster
    <2>2. CASE n # "clusterCloud"
      BY <1>2, <2>2 DEF Cluster
    <2> QED BY <2>1, <2>2
  <1> QED BY <1>1, <1>3

(* What a call makes of the objects described is what it makes of them as   *)
(* they are known.                                                          *)
LEMMA ResultFollows ==
  ASSUME NEW call \in Calls,
         call.fn \in Readers \/ {call.cloud, call.list} # {Nothing},
         call.fn \in Selectors => call.cloud # Nothing
  PROVE  \A o, f, known :
           /\ Inputs(call) \subseteq DOMAIN known
           /\ Describe(o, f, known)
           => /\ Result(call, o, f).frame = f
              /\ Like(Result(call, o, f), Result(call, known, Noted))
  <1> SUFFICES ASSUME NEW o, NEW f, NEW known, Inputs(call) \subseteq DOMAIN known,
                      Describe(o, f, known)
               PROVE  /\ Result(call, o, f).frame = f
                      /\ Like(Result(call, o, f), Result(call, known, Noted))
    OBVIOUS
  <1>1. \A n \in {call.cloud, call.list} \ {Nothing} :
          o[n].frame = f /\ Like(o[n], known[n])
    BY InputNames DEF Describe
  <1>2. CASE call.fn \in Readers
    <2>1. \A g, k : Result(call, k, g) = Cloud(g, Read(call))
      BY <1>2 DEF Result, Readers, Selectors
    <2>2. Result(call, o, f) = Cloud(f, Read(call))
      BY <2>1
    <2>3. Result(call, known, Noted) = Cloud(Noted, Read(call))
      BY <2>1
    <2> QED BY <2>2, <2>3, SameClouds
  <1>3. CASE call.fn \in Selectors
    <2>1. \A g, k : Result(call, k, g) = Cloud(k[call.cloud].frame, Picked(call))
      BY <1>3 DEF Result, Readers, Selectors
    <2>2. o[call.cloud].frame = f
      BY <1>1, <1>3
    <2>3. Result(call, o, f) = Cloud(f, Picked(call))
      BY <2>1, <2>2
    <2>4. Result(call, known, Noted) = Cloud(known[call.cloud].frame, Picked(call))
      BY <2>1
    <2> QED BY <2>3, <2>4, SameClouds
  <1>4. CASE call.fn \notin Readers \cup Selectors
    <2>1. \A g, k : Result(call, k, g) = Derived(call, Source(call, k))
      BY <1>4 DEF Result
    <2>2. Source(call, o).frame = f /\ Like(Source(call, o), Source(call, known))
      BY <1>1, <1>4 DEF Source
    <2>3. \A x : /\ Derived(call, x).frame = x.frame
                 /\ Derived(call, x).atoms = x.atoms
                 /\ Derived(call, x).graph = Draws(call.fn, x.graph)
                 /\ Derived(call, x).form = Makes(call.fn)
                 /\ Derived(call, x).table = (call.fn \notin Userdata)
      BY DEF Derived, Object
    <2>4. Draws(call.fn, Source(call, o).graph) = Draws(call.fn, Source(call, known).graph)
      BY <2>2 DEF Like
    <2> QED BY <2>1, <2>2, <2>3, <2>4 DEF Like
  <1> QED BY <1>2, <1>3, <1>4

LEMMA AfterFollows ==
  ASSUME NEW call \in Calls,
         call.to # Nothing => call.fn \in Readers \/ {call.cloud, call.list} # {Nothing},
         call.fn \in Selectors \cup {"clusterAnalysis", "calcRDF"} => call.cloud # Nothing
  PROVE  \A o \in [Names -> Objects] : \A f, known :
           /\ DOMAIN known \subseteq Names /\ \A n \in DOMAIN known : known[n] \in Objects
           /\ Inputs(call) \subseteq DOMAIN known
           /\ Describe(o, f, known)
           /\ call.fn = "calcRDF" => call.outs \cap (DOMAIN known \cup Fresh(call)) = {}
           => \A n \in DOMAIN known \cup Fresh(call) :
                /\ After(call, n, o, f).frame = f
                /\ Like(After(call, n, o, f), After(call, n, known, Noted))
  <1> SUFFICES ASSUME NEW o \in [Names -> Objects], NEW f, NEW known,
                      DOMAIN known \subseteq Names, \A n \in DOMAIN known : known[n] \in Objects,
                      Inputs(call) \subseteq DOMAIN known, Describe(o, f, known),
                      call.fn = "calcRDF" => call.outs \cap (DOMAIN known \cup Fresh(call)) = {},
                      NEW n \in DOMAIN known \cup Fresh(call)
               PROVE  /\ After(call, n, o, f).frame = f
                      /\ Like(After(call, n, o, f), After(call, n, known, Noted))
    OBVIOUS
  <1>1. CASE n = call.to
    <2>1. call.to # Nothing
      BY <1>1, InputNames, NothingAssumption
    <2>2. /\ Result(call, o, f).frame = f
          /\ Like(Result(call, o, f), Result(call, known, Noted))
      BY <2>1, ResultFollows
    <2> QED BY <1>1, <2>2 DEF After
  <1>2. CASE n # call.to /\ call.fn \in Readers /\ n \in call.outs
    <2>1. \A g, k : Result(call, k, g) = Cloud(g, Read(call))
      BY <1>2 DEF Result, Readers, Selectors
    <2>2. \A g, k : After(call, n, k, g) = Cloud(g, Read(call))
      BY <1>2, <2>1 DEF After, Mutated, Readers
    <2>3. After(call, n, o, f) = Cloud(f, Read(call))
      BY <2>2
    <2>4. After(call, n, known, Noted) = Cloud(Noted, Read(call))
      BY <2>2
    <2> QED BY <2>3, <2>4, SameClouds
  <1>3. CASE n # call.to /\ call.fn = "clusterAnalysis" /\ n \in call.outs
    <2>1. \A g, k : After(call, n, k, g) = Cluster(n, k[call.cloud].frame)
      BY <1>3 DEF After, Mutated, Readers
    <2>2. o[call.cloud].frame = f
      BY <1>3, InputNames DEF Describe
    <2>3. After(call, n, o, f) = Cluster(n, f)
      BY <2>1, <2>2
    <2>4. After(call, n, known, Noted) = Cluster(n, known[call.cloud].frame)
      BY <2>1
    <2> QED BY <2>3, <2>4, SameClouds
  <1>4. CASE /\ n # call.to /\ ~(call.fn \in Readers /\ n \in call.outs)
             /\ ~(call.fn = "clusterAnalysis" /\ n \in call.outs)
    <2>1. n \in DOMAIN known
      BY <1>4 DEF Fresh
    <2>2. o[n].frame = f /\ Like(o[n], known[n]) /\ o[n] \in Objects /\ known[n] \in Objects
      BY <2>1 DEF Describe
    <2>3. ~(call.fn = "calcRDF" /\ n \in call.outs)
      BY <2>1
    <2>4. CASE call.fn = "recenterCluster" /\ n = call.cloud
      <3>1. \A g, k : After(call, n, k, g) = [k[n] EXCEPT !.atoms = "recentred"]
        BY <1>4, <2>4 DEF After, Mutated, Readers
      <3>2. \A x \in Objects :
              /\ [x EXCEPT !.atoms = "recentred"].frame = x.frame
              /\ [x EXCEPT !.atoms = "recentred"].atoms = "recentred"
              /\ [x EXCEPT !.atoms = "recentred"].graph = x.graph
              /\ [x EXCEPT !.atoms = "recentred"].form = x.form
              /\ [x EXCEPT !.atoms = "recentred"].table = x.table
        BY DEF Objects
      <3>3. /\ After(call, n, o, f) = [o[n] EXCEPT !.atoms = "recentred"]
            /\ After(call, n, known, Noted) = [known[n] EXCEPT !.atoms = "recentred"]
        BY <3>1
      <3> DEFINE x == o[n]
                 y == known[n]
      <3>4. x \in Objects /\ y \in Objects /\ x.frame = f /\ Like(x, y)
        BY <2>2
      <3> HIDE DEF x, y
      <3>5. /\ [x EXCEPT !.atoms = "recentred"].frame = f
            /\ Like([x EXCEPT !.atoms = "recentred"], [y EXCEPT !.atoms = "recentred"])
        BY <3>2, <3>4 DEF Like
      <3> QED BY <3>3, <3>5 DEF x, y
    <2>5. CASE ~(call.fn = "recenterCluster" /\ n = call.cloud)
      <3>1. \A g, k : After(call, n, k, g) = k[n]
        BY <1>4, <2>3, <2>5 DEF After, Mutated
      <3> QED BY <2>2, <3>1
    <2> QED BY <2>4, <2>5
  <1> QED BY <1>1, <1>2, <1>3, <1>4

-----------------------------------------------------------------------------
(* What a running workflow that types has at hand.                         *)

(* Whatever is known at the current line is described by what globals hold. *)
Following(Known) ==
  /\ frame >= FirstFrame
  /\ pc = "script" =>
       /\ line <= Len(Body[cfg.workflow]) + 1
       /\ Describe(obj, frame, Known[cfg.workflow][line])

(* An accumulator of the running block has been fed up to this frame or the *)
(* one before; Lua never owns one.                                          *)
Feeding ==
  \A i \in DOMAIN Body[cfg.workflow] : Body[cfg.workflow][i].fn = "calcRDF" =>
    \A n \in Body[cfg.workflow][i].outs :
      /\ owner[n] # "lua"
      /\ pc = "script" /\ owner[n] = Order[mode] =>
           obj[n].frame = IF line > i THEN frame ELSE FedUpTo

(* The typing of the running body. *)
LEMMA RunningBody ==
  ASSUME NEW Known, Typed(Known), TypeOK
  PROVE  /\ Body[cfg.workflow] \in Seq(Calls)
         /\ Typing(Body[cfg.workflow], Known[cfg.workflow])
         /\ \A i \in DOMAIN Body[cfg.workflow] : Body[cfg.workflow][i].outs \subseteq Names
  <1>1. cfg.workflow \in Workflows
    BY DEF TypeOK, Configs
  <1>2. Body[cfg.workflow] \in Seq(Calls)
    BY <1>1, DriverAssumption
  <1>3. \A i \in DOMAIN Body[cfg.workflow] : Body[cfg.workflow][i] \in Calls
    BY <1>2
  <1> QED BY <1>1, <1>2, <1>3 DEF Typed, Calls

(* What a call that gets through is given, with the typing of its line. *)
LEMMA CallTyped ==
  ASSUME NEW Known, Typed(Known), TypeOK, Following(Known), InLoop
  PROVE  LET known == Known[cfg.workflow][line]
         IN  /\ Current \in Calls
             /\ line \in DOMAIN Body[cfg.workflow] /\ line <= Len(Body[cfg.workflow])
             /\ DOMAIN known \subseteq Names /\ \A n \in DOMAIN known : known[n] \in Objects
             /\ Inputs(Current) \subseteq DOMAIN known
             /\ Describe(obj, frame, known)
             /\ Agree(Current, known, Noted)
             /\ Current.fn = "calcRDF" => Current.outs \cap (DOMAIN known \cup Fresh(Current)) = {}
             /\ Known[cfg.workflow][line + 1] = Learnt(Current, known)
  <1> DEFINE body == Body[cfg.workflow]
             known == Known[cfg.workflow][line]
  <1>1. line \in DOMAIN body /\ Current \in Calls /\ Current = body[line]
    BY CurrentCall DEF Current
  <1>2. Typing(body, Known[cfg.workflow]) /\ body \in Seq(Calls)
    BY RunningBody
  <1>3. line \in 1 .. Len(body) + 1 /\ line <= Len(body)
    BY <1>1, <1>2
  <1>4. DOMAIN known \subseteq Names /\ \A n \in DOMAIN known : known[n] \in Objects
    BY <1>2, <1>3 DEF Typing
  <1>5. /\ Inputs(Current) \subseteq DOMAIN known
        /\ Agree(Current, known, Noted)
        /\ Current.fn = "calcRDF" => Current.outs \cap DOMAIN known = {}
        /\ Known[cfg.workflow][line + 1] = Learnt(Current, known)
    BY <1>1, <1>2 DEF Typing
  <1>6. Current.fn = "calcRDF" => Current.outs \cap Fresh(Current) = {}
    BY <1>1, <1>2 DEF Typing, FedOnce, Fresh, Readers
  <1>7. Describe(obj, frame, known)
    BY DEF Following, InLoop
  <1> QED BY <1>1, <1>3, <1>4, <1>5, <1>6, <1>7

(* A call on an accumulator that gets through is on one this block bound. *)
LEMMA FedByBlock ==
  ASSUME TypeOK, InLoop, Feeding, ~Unsound(Current), Current.fn = "calcRDF", NEW n \in Current.outs
  PROVE  owner[n] = Order[mode] /\ obj[n].frame = FedUpTo
  <1>1. line \in DOMAIN Body[cfg.workflow] /\ Current = Body[cfg.workflow][line] /\ n \in Names
    BY CurrentCall DEF Current, Uses
  <1>2. owner[n] # "lua"
    BY <1>1 DEF Feeding
  <1>3. ~NotAnObject(n) /\ ~Dangling(n)
    BY DEF Unsound, Uses
  <1>4. owner[n] = Order[mode]
    BY <1>1, <1>2, <1>3 DEF NotAnObject, Dangling, TypeOK, Owners
  <1>5. obj[n].frame = IF line > line THEN frame ELSE FedUpTo
    BY <1>1, <1>4 DEF Feeding, InLoop
  <1>6. ~(line > line)
    BY DEF TypeOK
  <1> QED BY <1>4, <1>5, <1>6

LEMMA CallCoherent ==
  ASSUME NEW Known, Typed(Known), TypeOK, Following(Known), Feeding, Call
  PROVE  Coherent(Current)
  <1>1. Agree(Current, obj, frame)
    <2> DEFINE known == Known[cfg.workflow][line]
    <2>1. /\ Current \in Calls /\ Inputs(Current) \subseteq DOMAIN known
          /\ Describe(obj, frame, known) /\ Agree(Current, known, Noted)
      BY CallTyped DEF Call
    <2> HIDE DEF known
    <2> QED BY <2>1, AgreeFollows
  <1>2. Current.fn = "calcRDF" => \A n \in Current.outs : obj[n].frame = FedUpTo
    BY FedByBlock DEF Call
  <1> QED BY <1>1, <1>2 DEF Coherent

LEMMA CallFollows ==
  ASSUME NEW Known, Typed(Known), TypeOK, Following(Known), Call
  PROVE  Following(Known)'
  <1> DEFINE known == Known[cfg.workflow][line]
  <1>1. /\ Current \in Calls /\ Inputs(Current) \subseteq DOMAIN known
        /\ line <= Len(Body[cfg.workflow])
        /\ DOMAIN known \subseteq Names /\ \A n \in DOMAIN known : known[n] \in Objects
        /\ Describe(obj, frame, known)
        /\ Current.fn = "calcRDF" => Current.outs \cap (DOMAIN known \cup Fresh(Current)) = {}
        /\ Known[cfg.workflow][line + 1] = Learnt(Current, known)
    BY CallTyped DEF Call
  <1>2. /\ Current.to # Nothing =>
             Current.fn \in Readers \/ {Current.cloud, Current.list} # {Nothing}
        /\ Current.fn \in Selectors \cup {"clusterAnalysis", "calcRDF"} => Current.cloud # Nothing
    <2>1. cfg.workflow \in Workflows /\ line \in DOMAIN Body[cfg.workflow]
      BY CurrentCall DEF TypeOK, Configs, Call
    <2> QED BY <2>1, BodyAssumption DEF Current
  <1>3. Fresh(Current) \subseteq Names
    BY <1>1, InputNames
  <1>4. obj \in [Names -> Objects]
    BY DEF TypeOK
  <1>5. /\ \A n \in Names : obj'[n] = After(Current, n, obj, frame)
        /\ line' = line + 1 /\ UNCHANGED <<cfg, pc, frame>>
    BY DEF Call
  <1> HIDE DEF known
  <1>6. \A n \in DOMAIN known \cup Fresh(Current) :
          /\ After(Current, n, obj, frame).frame = frame
          /\ Like(After(Current, n, obj, frame), After(Current, n, known, Noted))
    BY <1>1, <1>2, <1>4, AfterFollows
  <1>7. /\ DOMAIN Learnt(Current, known) = DOMAIN known \cup Fresh(Current)
        /\ \A n \in DOMAIN known \cup Fresh(Current) :
             Learnt(Current, known)[n] = After(Current, n, known, Noted)
    BY DEF Learnt
  <1>8. Describe(obj', frame', Learnt(Current, known))
    BY <1>1, <1>3, <1>5, <1>6, <1>7 DEF Describe
  <1>9. Describe(obj', frame', Known[cfg'.workflow][line'])
    BY <1>1, <1>5, <1>8
  <1>10. line \in Nat /\ Len(Body[cfg.workflow]) \in Nat
    BY RunningBody DEF TypeOK
  <1> QED BY <1>1, <1>5, <1>9, <1>10 DEF Following

LEMMA CallFeeds ==
  ASSUME NEW Known, Typed(Known), TypeOK, Following(Known), Feeding, Call
  PROVE  Feeding'
  <1> DEFINE body == Body[cfg.workflow]
  <1>1. /\ body \in Seq(Calls) /\ FedOnce(body) /\ line \in DOMAIN body /\ Current = body[line]
        /\ \A i \in DOMAIN body : body[i].outs \subseteq Names
    BY RunningBody, CurrentCall DEF Typing, Call, Current
  <1>2. /\ \A n \in Names : /\ owner'[n] = IF n = Current.to THEN "lua" ELSE owner[n]
                            /\ obj'[n] = After(Current, n, obj, frame)
        /\ line' = line + 1 /\ UNCHANGED <<cfg, pc, mode, frame>> /\ pc = "script"
    BY DEF Call, InLoop
  <1> SUFFICES ASSUME NEW i \in DOMAIN body, body[i].fn = "calcRDF", NEW n \in body[i].outs
               PROVE  /\ owner'[n] # "lua"
                      /\ owner'[n] = Order[mode] =>
                           obj'[n].frame = IF line + 1 > i THEN frame ELSE FedUpTo
    BY <1>2 DEF Feeding, FedUpTo
  <1>3. n \in Names /\ line \in Nat /\ i \in Nat
    BY <1>1 DEF TypeOK
  <1>4. /\ owner[n] # "lua"
        /\ owner[n] = Order[mode] => obj[n].frame = IF line > i THEN frame ELSE FedUpTo
    BY <1>2 DEF Feeding
  <1>5. n # Current.to /\ (line # i => n \notin Uses(Current))
    BY <1>1 DEF FedOnce
  <1>6. owner'[n] = owner[n]
    BY <1>2, <1>3, <1>5
  <1>7. CASE line = i
    <2>1. Current.cloud \in Inputs(Current)
      BY <1>1, <1>7, CurrentCall, NothingAssumption DEF Inputs, Call
    <2>2. obj[Current.cloud].frame = frame
      <3> DEFINE known == Known[cfg.workflow][line]
      <3>1. Inputs(Current) \subseteq DOMAIN known /\ Describe(obj, frame, known)
        BY CallTyped DEF Call
      <3> HIDE DEF known
      <3> QED BY <2>1, <3>1 DEF Describe
    <2>3. obj'[n] = [obj[n] EXCEPT !.frame = obj[Current.cloud].frame]
      BY <1>1, <1>2, <1>3, <1>5, <1>7 DEF After, Mutated, Readers
    <2>4. obj[n] \in Objects
      BY <1>3 DEF TypeOK
    <2>5. obj'[n].frame = frame
      BY <2>2, <2>3, <2>4 DEF Objects
    <2>6. line + 1 > i
      BY <1>3, <1>7
    <2> QED BY <1>4, <1>6, <2>5, <2>6
  <1>8. CASE line # i
    <2>1. n \notin Uses(Current)
      BY <1>5, <1>8
    <2>2. n \notin Current.outs /\ (Current.fn = "recenterCluster" => n # Current.cloud)
      BY <1>3, <2>1, NothingAssumption DEF Uses, Inputs
    <2>3. Mutated(Current, n, obj, frame) = obj[n]
      BY <2>2 DEF Mutated
    <2>4. obj'[n] = obj[n]
      BY <1>2, <1>3, <1>5, <2>3 DEF After
    <2>5. line + 1 > i <=> line > i
      BY <1>3, <1>8
    <2> QED BY <1>4, <1>6, <2>4, <2>5
  <1> QED BY <1>7, <1>8

-----------------------------------------------------------------------------
(* The invariant and its theorem.                                          *)

CoherentInv(Known) == DriverInv /\ Following(Known) /\ Feeding

LEMMA CoherentInvInit ==
  ASSUME NEW Known, Typed(Known), Init
  PROVE  CoherentInv(Known)
  <1>1. DriverInv
    BY DriverInvInit
  <1>2. frame >= FirstFrame /\ pc = "args"
    BY DriverAssumption DEF Init
  <1>3. \A n \in Names : owner[n] = "nil"
    BY DEF Init
  <1>4. Feeding
    BY <1>1, <1>2, <1>3, RunningBody DEF Feeding, DriverInv
  <1> QED BY <1>1, <1>2, <1>4 DEF CoherentInv, Following

(* A new block: what it binds is blank, and nothing else is its own, for it *)
(* has not run before.                                                      *)
LEMMA RunFunctionsFeeds ==
  ASSUME NEW Known, Typed(Known), CoherentInv(Known), RunFunctions
  PROVE  Feeding'
  <1>1. DriverInv /\ TypeOK /\ Pointers /\ Progress /\ Feeding
    BY DEF CoherentInv, DriverInv
  <1>2. mode \in 1 .. Len(Order) /\ Order[mode] \in Modes /\ pc = "bind"
    BY <1>1, OrderFacts DEF RunFunctions, TypeOK
  <1>3. Order[mode] \notin ran
    <2> SUFFICES ASSUME Order[mode] \in ran PROVE FALSE
      OBVIOUS
    <2>1. PICK i \in 1 .. mode - 1 : Order[i] = Order[mode]
      BY <1>1, <1>2 DEF Progress
    <2>2. i \in 1 .. Len(Order) /\ i # mode
      BY <1>2, <2>1, OrderFacts
    <2> QED BY <1>2, <2>1, <2>2, OrderInjective
  <1>4. \A n \in Names : owner[n] # Order[mode]
    BY <1>1, <1>2, <1>3 DEF Pointers
  <1>5. /\ \A n \in Names :
             /\ owner'[n] = IF n \in Bound[Order[mode]] THEN Order[mode] ELSE owner[n]
             /\ obj'[n] = IF n \in Bound[Order[mode]] THEN Blank ELSE obj[n]
        /\ UNCHANGED <<cfg, mode>> /\ line' = 1 /\ frame' = FirstFrame
    BY DEF RunFunctions
  <1>6. Order[mode] # "lua"
    BY <1>2 DEF Modes
  <1>7. Blank.frame = 0
    BY DEF Blank, Object
  <1> SUFFICES ASSUME NEW i \in DOMAIN Body[cfg.workflow], Body[cfg.workflow][i].fn = "calcRDF",
                      NEW n \in Body[cfg.workflow][i].outs
               PROVE  /\ owner'[n] # "lua"
                      /\ owner'[n] = Order[mode] => obj'[n].frame = IF 1 > i THEN frame' ELSE 0
    BY <1>5 DEF Feeding, FedUpTo
  <1>8. n \in Names /\ ~(1 > i) /\ owner[n] # "lua"
    BY <1>1, RunningBody DEF Feeding
  <1> QED BY <1>4, <1>5, <1>6, <1>7, <1>8

LEMMA NextFrameKeeps ==
  ASSUME NEW Known, Typed(Known), CoherentInv(Known), NextFrame
  PROVE  Following(Known)' /\ Feeding'
  <1>1. TypeOK /\ Following(Known) /\ Feeding
    BY DEF CoherentInv, DriverInv
  <1>2. /\ Body[cfg.workflow] \in Seq(Calls) /\ DOMAIN Known[cfg.workflow][1] = {}
    BY <1>1, RunningBody DEF Typing
  <1>3. /\ frame \in Nat /\ FirstFrame \in Nat /\ FrameGap \in Nat \ {0}
        /\ line \in Nat /\ frame >= FirstFrame
    BY <1>1, DriverAssumption DEF TypeOK, Following
  <1>4. /\ frame' = frame + FrameGap /\ line' = 1 /\ line > Len(Body[cfg.workflow])
        /\ pc = "script" /\ UNCHANGED <<cfg, pc, mode, owner, obj>>
    BY DEF NextFrame
  <1>5. frame' >= FirstFrame /\ frame' # FirstFrame /\ frame' - FrameGap = frame
    BY <1>3, <1>4
  <1>6. Following(Known)'
    <2>1. Describe(obj', frame', Known[cfg'.workflow][line'])
      BY <1>2, <1>4 DEF Describe
    <2>2. line' <= Len(Body[cfg'.workflow]) + 1
      BY <1>2, <1>4
    <2> QED BY <1>5, <2>1, <2>2 DEF Following
  <1>7. \A i \in DOMAIN Body[cfg.workflow] : i \in Nat /\ line > i /\ ~(1 > i)
    BY <1>2, <1>3, <1>4
  <1>8. Feeding'
    BY <1>1, <1>4, <1>5, <1>7 DEF Feeding, FedUpTo
  <1> QED BY <1>6, <1>8

(* Steps outside a script, and the end of one. *)
LEMMA OtherStepsKeep ==
  ASSUME NEW Known, CoherentInv(Known), UNCHANGED <<cfg, frame>>, pc' # "script",
         \A n \in Names : owner'[n] \in {owner[n], "flag"}, Typed(Known)
  PROVE  Following(Known)' /\ Feeding'
  <1>1. TypeOK /\ Following(Known) /\ Feeding
    BY DEF CoherentInv, DriverInv
  <1>2. Following(Known)'
    BY <1>1 DEF Following
  <1>3. \A i \in DOMAIN Body[cfg.workflow] : Body[cfg.workflow][i].outs \subseteq Names
    BY <1>1, RunningBody
  <1>4. Feeding'
    BY <1>1, <1>3 DEF Feeding
  <1> QED BY <1>2, <1>4

LEMMA CoherentInvNext ==
  ASSUME NEW Known, Typed(Known), CoherentInv(Known), [Next \/ Stopped]_vars
  PROVE  CoherentInv(Known)'
  <1>1. DriverInv'
    BY DriverInvNext DEF CoherentInv
  <1>2. TypeOK /\ Following(Known) /\ Feeding
    BY DEF CoherentInv, DriverInv
  <1>3. CASE Call
    BY <1>1, <1>2, <1>3, CallFollows, CallFeeds DEF CoherentInv
  <1>4. CASE RunFunctions
    <2>1. Following(Known)'
      <3>1. /\ Body[cfg.workflow] \in Seq(Calls) /\ DOMAIN Known[cfg.workflow][1] = {}
        BY <1>2, RunningBody DEF Typing
      <3>2. frame' >= FirstFrame /\ line' = 1 /\ cfg' = cfg
        BY <1>4, DriverAssumption DEF RunFunctions
      <3>3. Describe(obj', frame', Known[cfg'.workflow][line'])
        BY <3>1, <3>2 DEF Describe
      <3>4. line' <= Len(Body[cfg'.workflow]) + 1
        BY <3>1, <3>2
      <3> QED BY <3>2, <3>3, <3>4 DEF Following
    <2> QED BY <1>1, <1>4, <2>1, RunFunctionsFeeds DEF CoherentInv
  <1>5. CASE NextFrame
    BY <1>1, <1>5, NextFrameKeeps DEF CoherentInv
  <1>6. CASE UNCHANGED vars
    BY <1>1, <1>2, <1>6 DEF CoherentInv, Following, Feeding, FedUpTo, vars
  <1>7. CASE RunVars
    <2>1. \A n \in Names : owner'[n] \in {owner[n], "flag"}
      BY <1>7 DEF RunVars
    <2>2. UNCHANGED <<cfg, frame>> /\ pc' # "script"
      BY <1>7 DEF RunVars
    <2> QED BY <1>1, <2>1, <2>2, OtherStepsKeep DEF CoherentInv
  <1>8. CASE ParseArguments \/ SetupHelpers \/ SkipMode \/ EndMode
    <2>1. UNCHANGED <<cfg, owner, frame>> /\ pc' # "script"
      BY <1>8 DEF ParseArguments, SetupHelpers, SkipMode, EndMode
    <2> QED BY <1>1, <2>1, OtherStepsKeep DEF CoherentInv
  <1>9. ASSUME NEW code \in {"0", "1", "abort", "undefined"}, Exit(code) PROVE CoherentInv(Known)'
    <2>1. UNCHANGED <<cfg, owner, frame>> /\ pc' # "script"
      BY <1>9 DEF Exit
    <2> QED BY <1>1, <2>1, OtherStepsKeep DEF CoherentInv
  <1>10. Next => \/ Call \/ RunFunctions \/ NextFrame \/ RunVars
                 \/ ParseArguments \/ SetupHelpers \/ SkipMode \/ EndMode
                 \/ \E code \in {"0", "1", "abort", "undefined"} : Exit(code)
    BY DEF Next, PrintAndLeave, BadArguments, Uncaught, ScriptFails, NoFunctionScript, RefuseCall,
           UndefinedCall, Finish
  <1> QED BY <1>3, <1>4, <1>5, <1>6, <1>7, <1>8, <1>9, <1>10 DEF Stopped

(* Any set of workflows that type, however many modes and frames they run   *)
(* for: a call that gets through works on one coherent set of objects       *)
(* (main.cpp:149-239, the scripts of example_lua).                          *)
THEOREM TypedWorkflowsAreCoherent ==
  ASSUME NEW Known, Typed(Known)
  PROVE  Spec => CallsCoherent
  <1>1. Init => CoherentInv(Known)
    BY CoherentInvInit
  <1>2. CoherentInv(Known) /\ [Next \/ Stopped]_vars => CoherentInv(Known)'
    BY CoherentInvNext
  <1>3. CoherentInv(Known) /\ [Next \/ Stopped]_vars => [Call => Coherent(Current)]_vars
    BY CallCoherent DEF CoherentInv, DriverInv
  <1> QED BY <1>1, <1>2, <1>3, PTL DEF Spec, CallsCoherent

-----------------------------------------------------------------------------
(* The example scripts.                                                    *)

(* The driver runs scripts of example_lua. *)
RunsExamples ==
  Workflows \subseteq AllWorkflows /\ \A w \in Workflows : Body[w] = ExampleBodies[w]

(* Every example, under every set of modes, gives its calls coherent inputs *)
(* on every frame (example_lua, dseams.lua:101-147).                        *)
THEOREM ExamplesAreCoherent ==
  ASSUME RunsExamples
  PROVE  Spec => CallsCoherent
  <1> DEFINE Known == [w \in Workflows |-> KnownIn(ExampleBodies[w])]
  <1>1. Typed(Known)
    BY ExamplesAssumption DEF RunsExamples, Typed
  <1> HIDE DEF Known
  <1> QED BY <1>1, TypedWorkflowsAreCoherent

(* Every example run in the mode its config.yml names is defined, whatever  *)
(* fails on the way (main.cpp:149-239).                                     *)
THEOREM ExamplesAreDefined ==
  ASSUME RunsExamples
  PROVE  Spec => []ExamplesSupported
  <1>1. DriverInv => ExamplesSupported
    <2> SUFFICES ASSUME DriverInv, cfg.enabled = {ExampleMode[cfg.workflow]}
                 PROVE  exit # "undefined"
      BY DEF ExamplesSupported
    <2>1. cfg.workflow \in Workflows
      BY DEF DriverInv, TypeOK, Configs
    <2>2. Needs(Body[cfg.workflow]) \subseteq Bound[ExampleMode[cfg.workflow]]
      BY <2>1, ExamplesAssumption DEF RunsExamples
    <2>3. BoundSafely
      BY <2>2 DEF BoundSafely
    <2> QED BY <2>3 DEF DriverInv, NoUndefined
  <1> QED BY <1>1, DriverInvInit, DriverInvNext, PTL DEF Spec
=============================================================================
