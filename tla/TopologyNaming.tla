--------------------------- MODULE TopologyNaming ---------------------------
(***************************************************************************)
(* Key libraries and the naming of atoms by them: topologyLibrary and      *)
(* classifyTopology (src/lua_api.cpp) and their wrappers in lua/dseams.lua.*)
(*                                                                         *)
(* A script grows library texts frame by frame and names the atoms of a    *)
(* frame by one text or by a sequence of them.  A key is the view it was   *)
(* taken under, [hops, colours], and the class of the atom's surroundings  *)
(* in that view.  Ring sizes enter no key and are left out.                *)
(***************************************************************************)
EXTENDS Naturals, FiniteSets

CONSTANTS
  Frames, Atoms,  \* the frames a script reads and the rows of each
  Hops,           \* hop counts
  Options,        \* the options a script gives, [hops, colours], hops may be nil
  Class,          \* Class[f][s][i]: the surroundings of atom i in view s
  Labels,         \* the labels a script files frames under
  Texts,          \* the script's variables for library texts
  MaxFilings,     \* bound: filings all texts hold together
  None            \* Lua's nil

VARIABLES
  text,   \* text[v]: the library variable v holds, nil or empty at first
  named   \* what the last classify_topology returned

vars == <<text, named>>

Views == [hops : Hops, colours : BOOLEAN]
Key(f, s, i) == <<s, Class[f][s][i]>>
Keys(f, s) == {Key(f, s, i) : i \in Atoms}
AllKeys == UNION {Keys(f, s) : f \in Frames, s \in Views}
Unnamed == ""

(* A library: the hop count of its header, the label of each key, and as  *)
(* history the frames filed in it.                                        *)
Filings == [frame : Frames, view : Views, label : Labels]
Empty == [hops |-> None, holds |-> <<>>, filed |-> {}]

ASSUME TopologyAssumption ==
  /\ Hops \subseteq Nat \ {0}
  /\ 2 \in Hops
  /\ Options \subseteq [hops : Hops \cup {None}, colours : BOOLEAN]
  /\ IsFiniteSet(Atoms)
  /\ None \notin Hops \cup Texts
  /\ Unnamed \notin Labels

-----------------------------------------------------------------------------
(* o.hops or 2 *)
OrTwo(h) == IF h = None THEN 2 ELSE h
View(o) == [hops |-> OrTwo(o.hops), colours |-> o.colours]

(* Mutant: classification looks three hops far by default. *)
ThreeHopView(o) == [hops |-> IF o.hops = None THEN 3 ELSE o.hops, colours |-> o.colours]

(* The view classify_topology asks for. *)
NamingView(o) == [hops |-> OrTwo(o.hops), colours |-> o.colours]

(* topo::addToLibrary: keys not yet held are filed; whether a key held     *)
(* under another label keeps it, and whether a header of another hop count *)
(* is kept, is the engine's choice.                                        *)
Added(lib, f, s, label, filings) ==
  {[hops  |-> h,
    holds |-> [k \in DOMAIN lib.holds \cup Keys(f, s) |->
                 IF k \in DOMAIN lib.holds /\ (k \in Keys(f, s) => keeps)
                 THEN lib.holds[k] ELSE label],
    filed |-> filings \cup {[frame |-> f, view |-> s, label |-> label]}] :
   h \in ({s.hops, lib.hops} \ {None}), keeps \in BOOLEAN}

(* What a library offers an atom in a view. *)
Offers(lib, f, s, i) ==
  {[label |-> lib.holds[k], depth |-> s.hops] : k \in {Key(f, s, i)} \cap DOMAIN lib.holds}

(* The deepest offers; an atom nobody knows is unnamed at depth 0. *)
Deepest(offers) ==
  IF offers = {} THEN {[label |-> Unnamed, depth |-> 0]}
  ELSE {b \in offers : \A c \in offers : c.depth <= b.depth}

(* Mutant: the empty label is handed on as it is. *)
SameWord(label) == label

(* The entry of counts an atom with this label is counted in. *)
CountedAs(label) == IF label = Unnamed THEN "unmatched" ELSE label

(* counts: when a label filed is itself "unmatched", the entry written last *)
(* wins, either of the two.                                                 *)
Tallies(names) ==
  {t \in [{CountedAs(names[i].label) : i \in Atoms} -> 0 .. Cardinality(Atoms)] :
     \A w \in DOMAIN t : \E i \in Atoms :
        /\ CountedAs(names[i].label) = w
        /\ t[w] = Cardinality({j \in Atoms : names[j].label = names[i].label})}

-----------------------------------------------------------------------------
Quiet == [call |-> "none"]
Raised == named' = [call |-> "error"] /\ UNCHANGED text

Init ==
  /\ text = [v \in Texts |-> Empty]
  /\ named = Quiet

(* topologyLibrary's existing: nil and "" start an empty library. *)
Existing(from) == IF from = None THEN Empty ELSE text[from]
FiledIn(from) == IF from = None THEN {} ELSE text[from].filed

(* text[v] = dseams.topology_library(rows of f, label, o), o.library being *)
(* the text of a variable or nil.                                          *)
TopologyLibrary(v, f, label, o, from) ==
  /\ Cardinality(UNION {{w} \X text[w].filed : w \in Texts \ {v}})
       + Cardinality(FiledIn(from)) < MaxFilings
  /\ \E lib \in Added(Existing(from), f, View(o), label, FiledIn(from)) :
       text' = [text EXCEPT ![v] = lib]
  /\ named' = Quiet

(* The engine may refuse a frame whose hop count is not the header's. *)
LibraryRaises(o, from) ==
  /\ Existing(from).hops \notin {None, View(o).hops}
  /\ Raised

(* Mutant: a sequence is matched at the hop count asked for, too. *)
MatchViewAsked(v, form, o) == NamingView(o)

(* A text is matched in the view asked for, each text of a sequence at the *)
(* hop count of its header.                                                *)
MatchView(v, form, o) ==
  IF form = "text" THEN NamingView(o) ELSE [hops |-> text[v].hops, colours |-> o.colours]

(* dseams.classify_topology(rows of f, text[v] or {text[v], ...}, o) *)
Classify(f, o, form, used) ==
  LET offered == [i \in Atoms |->
        Deepest(UNION {Offers(text[v], f, MatchView(v, form, o), i) : v \in used})]
  IN  /\ \A v \in used : text[v] # Empty
      /\ \E names \in [Atoms -> UNION {offered[i] : i \in Atoms}] :
           /\ \A i \in Atoms : names[i] \in offered[i]
           /\ \E tally \in Tallies(names) :
                named' = [call |-> "classify", frame |-> f, opts |-> o, form |-> form,
                          texts |-> used, names |-> names, counts |-> tally,
                          matched |-> Cardinality({i \in Atoms : names[i].label # Unnamed})]
      /\ UNCHANGED text

(* Anything but a text or a table throws; the engine may refuse a text of *)
(* another hop count.                                                     *)
ClassifyRaises(o, v) ==
  /\ v # None => text[v].hops # NamingView(o).hops
  /\ Raised

Next ==
  \/ \E v \in Texts, from \in Texts \cup {None}, f \in Frames, label \in Labels, o \in Options :
       TopologyLibrary(v, f, label, o, from)
  \/ \E o \in Options, from \in Texts : LibraryRaises(o, from)
  \/ \E f \in Frames, o \in Options, v \in Texts : Classify(f, o, "text", {v})
  \/ \E f \in Frames, o \in Options, used \in SUBSET Texts : Classify(f, o, "sequence", used)
  \/ \E o \in Options, v \in Texts \cup {None} : ClassifyRaises(o, v)

Spec == Init /\ [][Next]_vars

-----------------------------------------------------------------------------
Library(lib) ==
  /\ DOMAIN lib = {"hops", "holds", "filed"}
  /\ lib.hops \in Hops \cup {None}
  /\ lib.filed \subseteq Filings
  /\ DOMAIN lib.holds \subseteq AllKeys
  /\ lib.holds \in [DOMAIN lib.holds -> Labels]

(* Types: libraries hold keys of frames under labels a script gave, and a *)
(* result names atoms by them (topologyLibrary, classifyTopology).        *)
TypeOK ==
  /\ DOMAIN text = Texts
  /\ \A v \in Texts : Library(text[v])
  /\ named.call = "classify" =>
       /\ named.frame \in Frames /\ named.opts \in Options
       /\ named.texts \subseteq Texts
       /\ named.names \in [Atoms -> [label : Labels \cup {Unnamed}, depth : Hops \cup {0}]]
       /\ DOMAIN named.counts \subseteq Labels \cup {"unmatched"}
       /\ named.form \in {"text", "sequence"}

(* The view in which the last classification looked up text v. *)
LookedUp(v) ==
  [hops    |-> IF named.form = "text" THEN View(named.opts).hops ELSE text[v].hops,
   colours |-> named.opts.colours]

(* Atom i of the frame classified looks, as text v was looked up, like an *)
(* atom of a frame filed there in that view.                              *)
Seen(v, i, filing) ==
  /\ filing \in text[v].filed
  /\ filing.view = LookedUp(v)
  /\ \E j \in Atoms :
       Class[named.frame][filing.view][i] = Class[filing.frame][filing.view][j]

(* A named atom looks like one filed under that name, as far out as depth  *)
(* says and as any text of the call reaches; an unnamed one looks like     *)
(* none that was ever filed (classifyTopology: "the deepest library that   *)
(* holds an atom's key names it"; docs/source/reference/lua.rst: unmatched *)
(* atoms carry "" and depth 0).                                            *)
NamesAreFiled ==
  named.call = "classify" =>
    \A i \in Atoms :
      LET name == named.names[i]
      IN  /\ \A v \in named.texts, filing \in Filings :
               Seen(v, i, filing) => filing.view.hops <= name.depth
          /\ IF name.label = Unnamed THEN name.depth = 0
             ELSE \E v \in named.texts, filing \in Filings :
                    /\ Seen(v, i, filing)
                    /\ filing.label = name.label
                    /\ filing.view.hops = name.depth

(* A frame is named completely by every text it was filed in, however often *)
(* the text was extended since, when it is classified with the options it   *)
(* was filed with (topology.lua:76: every atom of the frame the library     *)
(* came from is named).                                                     *)
OwnFrameNamed ==
  named.call = "classify" =>
    \A v \in named.texts : \A filing \in text[v].filed :
      /\ filing.frame = named.frame
      /\ filing.view = View(named.opts)
      /\ named.form = "sequence" => text[v].hops = filing.view.hops
      => \A i \in Atoms : named.names[i].label # Unnamed

(* The sum of the entries of counts: as many as there are pairs of a word  *)
(* and a number up to its entry.                                           *)
Total(counts) == Cardinality(UNION {{w} \X (1 .. counts[w]) : w \in DOMAIN counts})

(* Documented in docs/source/reference/lua.rst:337-338: unmatched atoms     *)
(* carry "" under counts.unmatched.  So matched and counts.unmatched make   *)
(* up all atoms, and counts has each atom once.  A script may file a frame  *)
(* under the label "unmatched" itself (lua_api.cpp:369).                    *)
CountsAddUp ==
  named.call = "classify" =>
    LET of(w) == IF w \in DOMAIN named.counts THEN named.counts[w] ELSE 0
    IN  /\ named.matched + of("unmatched") = Cardinality(Atoms)
        /\ Total(named.counts) = Cardinality(Atoms)
=============================================================================
