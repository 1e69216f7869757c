# Verification of the d-SEAMS Lua front end

This directory holds TLA+ models of the repository's own program: the Lua
bindings (`src/lua_api.cpp`, `src/luaopen.cpp`), the Lua front end
(`lua/dseams.lua`), the `yodaStruct` driver (`src/main.cpp`), the reader of its
configuration file (`include/internal/seams_yaml.hpp`) and the workflow scripts
(`example_lua/`). The numerical engine the bindings call (namespaces `sinp`,
`nneigh`, `chill`, `ring`, `clump`, `bond`, `site`, `topo`, `rdf`) is not in
this tree; its calls appear in the models as operations with the effects the
bindings rely on.

The program computes little itself. What it can get wrong is *which object a
call works on*: clouds mutated in place, lists in two index spaces, Lua globals
that point at C++ objects of a block that has ended, thresholds taken from the
wrong rule, a configuration key taken for another section's. That is what the
models keep, and numbers are reduced to where they come from.

## Inventory

| Part | State it keeps | Operations | What is hard about it | What makes it correct |
|---|---|---|---|---|
| `dseams.read` (dseams.lua:15-57) | none; returns a cloud | suffix dispatch, type 2 then type 1, `require_nonempty` | seven return paths, each of which has to check for atoms | a call gives all the atoms its options ask for, or raises |
| `PointCloud` and the correlation and ice-type calls (lua_api.cpp:433-512, 717-798) | the cloud's atoms, bonds (`c_ij`) and labels | `getCorrel*`, `classifyBonds`, `getIceType*`, the legacy `chill*_cij` / `chill*_iceType`, `averageQ6`, `modifyChill` | two calls have to agree on rule and list, and nothing ties them together | labels come from the method's own rule on one list |
| Rule registry (lua_api.cpp:435-462) | process-wide names and rules | `registerBondClassifier`, `classifyBonds` by name | outlives the call that filled it; partial tables default to CHILL | helper results do not depend on it |
| Neighbour lists (lua_api.cpp:180-221, 596-660) | Lua tables or container userdata, by atom ID or by index | `neighListO`, `neighborList`, `neighbourListByIndex`, hydrogen-bond lists | by-value and by-reference parameters, two index spaces, stale frames | a call gets a list of the form and space it wants |
| `dseams` helpers (dseams.lua:59-255) | none | `chill`, `chill_plus`, `cages`, `hbonds`, `density`, ... | the chains have to use one list throughout | one call gives a consistent result whatever came before |
| Driver (main.cpp, opt_parser.cpp) | one Lua state; per mode the objects of one block | arguments, variables script, binding, function script, banner | globals survive the block whose addresses they hold; scripts fail; two exits that are not exit codes | no dangling object is used, exit 0 is truthful, the run ends |
| Example workflows (example_lua/\*/iceType/functions.lua, full_api, fennel, fennel_full, idiomatic, library/topology.lua) | Lua globals and locals | one chain of engine calls per frame, or of one frame | lists, rings and clouds of one frame, one selection and one graph; tables where references are wanted | every call gets coherent inputs |
| Configuration reader (seams_yaml.hpp) | section and fields | one line at a time | no indentation, no closing of sections, `#` anywhere | the last line that sets a field wins; the shipped files are read as YAML |
| Topology key libraries (lua_api.cpp:327-375, dseams.lua:149-174) | library text held by the script | grow, name by one or by several | two hop counts, texts extended over frames, labels that share a key with "unmatched" | a name was filed for such an atom, the frame a text came from is named, the counts add up (unless a label is "unmatched") |
| Site tables, densities, domains, ions (lua_api.cpp:394-431, 864-938, dseams.lua:185-255) | a script's `SiteTable` | `site_table`, `setType`, `domain`, `density`, `pairs`, `ion_environment`, `shell_ring_census` | index rows become atom-ID rows and back; Lua arrays start at 1, axes at 0; a number need not be an axis | a domain is one of the sites asked for; a density is cut along the axis it names; contacts pair ions; an ion's shell, state and census are its own |
| Updaters (`RingUpdater`, `AffiliationUpdater`) | in the engine | `update` | - | their calls are lines of two workflows; their state is not in this tree |
| Descriptors, RDF, running CN | none, but the vector `calcRDF` adds to | numerical calls, result packing | - | calls of the workflows; nothing else to tell apart |
| `luaopen_dseams_core`, Fennel wrappers | none | registration, names | - | not modelled: no later state |

Interactions: `dseams.lua` calls `dseams_core` (lua_api.cpp) which calls the
engine on the `PointCloud` it is given. The driver reads the configuration once,
registers the same bindings as globals, and for each mode runs a variables
script and then a function script, which share one Lua state with the blocks of
`main`. Everything is one thread. The build now makes the module only (README.md
of the repository); `main.cpp` and `opt_parser.cpp` remain in the tree and the
scripts under `example_lua/` are written for its globals.

## Modules

| Module | Models | Correspondence |
|---|---|---|
| `DseamsRead` | `dseams.read` and the readers | a file is its suffix and the types each frame holds; a cloud's contents are file, frame and the types kept; one operator per path of `dseams.read`, each with its own `require_nonempty`; `Answer` says the same without the paths |
| `DseamsSession` | a script on PointClouds | `cloud`, `list`, `registry` are the script's objects; one action per binding; a bond carries the rule and neighbour graph it came from, a label the method, bonds and graph |
| `IceLabelling` | what `chill` / `chill_plus` promise | abstract: labels appear in one step and are fresh; there is no bond state |
| `WorkflowCalls` | the calls a workflow makes, and what each wants, makes and draws its graph from | one record per source line: objects used, written and assigned |
| `ExampleWorkflows` | eight `functions.lua`, five scripts without a loop, and the helpers `cages`, `cages_by_signature`, `hbonds`, `chill_plus` of dseams.lua | the body of each frame loop, line by line; helpers spelt out as the calls they make |
| `LuaDriver` | `main.cpp`, `opt_parser.cpp` | `pc` and `mode` are the place in `main`; `owner` maps each Lua global to its owner (nil, a flag, Lua, or the block that bound it) and `obj` to what the object describes (frame, selection of atoms, graph, form, table or userdata); what a call makes of objects (`After`) is a function of the objects alone |
| `ModeRuns` | what `main` promises of its modes | abstract: the modes asked for, those completed, and the code a run stops with; no scripts, no objects |
| `WorkflowTyping` | reading a workflow without running it | `Typing` says line by line which globals are known to be of the loop's frame and what they describe, using the driver's own `After` and `Agree` |
| `LuaConfig` | `loadLuaConfig` | `next`, `section`, `cfg` are the function's locals; one action per branch of the loop |
| `SiteAnalyses` | `site_table`, `setType`, `domain`, `density`, `pairs`, `ion_environment`, `shell_ring_census` | `cloud`, `table`, `result` are the script's cloud, `SiteTable` and last result; rows are sets of indices or IDs; an axis number is counted in halves, an edge in 0.1-wide bins |
| `TopologyNaming` | `topology_library`, `classify_topology` | `text` holds the script's library variables (hop count, label per key, and as history what was filed), `named` the last result |
| `MC*` | constants for TLC | |
| `*_proofs` | theorems checked by TLAPS | |

`DseamsSession` extends `DseamsRead`, instantiates `IceLabelling` through a
refinement mapping (the label and contents of each cloud; bonds, lists and the
registry are internal). `LuaDriver` extends `WorkflowCalls` and instantiates `ModeRuns` (modes wanted are
those enabled when the arguments ask for a run, modes done are `ran`);
`WorkflowTyping` extends the driver and `MCLuaDriver` joins it with
`ExampleWorkflows`. `SiteAnalyses` and `TopologyNaming` stand alone: their
calls read a cloud or its rows and never write one.

Choices worth knowing:

- A list parameter taken by value accepts a Lua table and a container userdata;
  one taken by reference accepts the userdata, and with a table it raises where
  sol checks arguments (`CheckedBuild`) and reads garbage where it does not, as
  the comment at lua_api.cpp:628-630 says. `Garbage` is one value: a misread
  list is like no other.
- Whether the engine's registry replaces a rule registered twice is not visible
  here, so both outcomes are allowed.
- In the driver every script may fail at any line (engine or Lua error). Reading
  a missing `functionScript` throws out of `main` in a checked build and yields
  an empty path, which fails to load, in an unchecked one.
- Using nil, a flag or an object of a block that has ended is the outcome
  `undefined`, unless the argument check refuses it first. A dangling pointer
  passes every check.
- An engine call that raises has written nothing, but the calls before it in the
  same helper have: `ChillFails` leaves the cloud as it was or with new bonds
  beside its old labels, and the script, having caught the error, goes on. In the
  abstract labelling such a call is a stuttering step; the healing property is
  about helper calls that return.
- `site::indicesOf` takes several mapped kinds for one asked for (heads and anions
  are polar sites, as example_lua/library/workflows.lua:26-31 asserts): `Counted`
  says which. Atom IDs of a cloud are distinct, as the engine's map from IDs to
  indices needs. Rows may hold an index outside the cloud, which the binding drops.
- An object is a Lua table if its binding returns `sol::as_nested` or the script
  builds it, and container userdata if the binding is the engine function itself
  (`neighborList`, `getPrimitiveRings`, `averageQ6`). The two graphs
  `kNearestNeighbourPair` returns are written as a call each; the loops in which
  scripts pick rings of six or flag atoms are calls `sixRings` and `iceFlags`.
- Scripts without a frame loop (`Once`) run as the function script of a mode.
  `library/topology.lua`, the idiomatic script and the helper chains are really run
  by Lua itself on the module: for them the driver is only the stage on which
  their calls are checked, and they bind what they need.
- Command-line arguments are what `parse` makes of them: a result, a print that
  leaves with 0, or an error that leaves with 1. Unknown options are allowed.
- `modifyChill` relabels a labelled cloud by the q6 values; on an unlabelled one it
  finds no water. The values stand in a `list` variable, apart from lists.
- A topology key is the view it was taken in (hops, colours) and the class of the
  atom's surroundings there. Whether a key keeps its first label or takes the
  latest, whether a header of other hops survives, and whether a text of other
  hops is refused are decided by the engine: all outcomes are allowed.
- `nneigh::mutualNearestUnlike` may name an ion by its atom ID, as lua.rst:485 says
  of the pairs `dseams.pairs` returns, or by its place in the ion cloud, as the
  comment at lua_api.cpp:103 has it. The engine is not here to ask, so both are
  admitted (`Spaces`); what `packPairs` makes of them is checked in either.
- The ice flags of an ion environment and the rings of a census are independent
  arguments, as in example_lua/library/topology.lua:59-68, where the flags come from
  the seeded affiliation of two graphs and the census takes rings of one. A census
  stops at a ring size, 7 unless the script says otherwise.
- To the configuration reader a line is a heading if its last character is a colon,
  also when that colon ends a value (`Headed`); YAML takes such a value in quotes
  only, so a mapping has none.
- full_api calls some functions only to compare or to print their results. They are
  lines of its body (`Aside`), the second call of an updater and the loop over
  orders `l` are one line each, and the assertions are among the ways a script fails.
- Without argument checks sol rounds a fractional Lua number to the nearest C++
  integer; with them it refuses it.
- `writeCluster` is the last `writeDump` of the chillPlus workflow, named apart
  because a comment says what it holds.

## Runs

| Run | Question | Bounds |
|---|---|---|
| session_helpers | do helper scripts implement `IceLabelling`, and does every call of `dseams.read` answer what its options ask? | 1 cloud, 1 list or q6 variable, 5 files of 1 frame: a dump of type 1, a pdb file of type 2, a dump and an xyz file without atoms, a con file whose backend is not built; helper calls that fail half way, 2 rule names a script may take over, 1 partial rule table |
| session_script | does one helper call wipe out whatever core and legacy calls left? | 1 cloud, 1 list or q6 variable, 1 frame, 3 rule names, one of them never registered; rules a script makes itself are in session_helpers |
| session_defaults, session_tables | documented behaviour the code does not have | a dump of 1 or 2 frames, the first of type 2 and the second of type 1 where there are two |
| driver | coherent calls, defined workflows, what argument checks let through, truthful exit code, modes as in `ModeRuns`, progress of every step, termination | all 14 workflows, all 16 mode sets, 4 kinds of arguments, both languages, with and without `functionScript`, compiler and argument checks, 2 frames |
| driver_prisms, driver_dumps | documented behaviour the code does not have | the same |
| config_files | does the last setter win, and are shipped layouts read as YAML? | every file of up to 3 lines over 4 keys, 4 placements of `#` and values that may end in a colon, and `lua_inputs/config.yml` with every choice of its booleans |
| config_yaml | is every mapping read as YAML? (no) | the same |
| site_calls | does the detour over atom IDs keep the graph of the sites? is a density cut along the axis it reports? do contacts pair ions, and are a census and a state those of the ion they stand beside? | 4 atoms of 2 types bonded along any sides of a ring, every mapping to 3 kinds, IDs a permutation of the indices, a stray index in every row; an axis name, numbers between -0.5 and 2.5 and no axis, 0 or 1 bins or none, table and kind given or not, edges of 3, 0 and 2 bins; two ions; two sets of ice flags; two rings at once, one of three atoms and one of four, a census up to size 3 or 7 |
| topology_names | do names come from filings, at the depth they say? is the frame a text came from named? | 2 frames of 2 atoms that agree two hops out and differ at three or by colour, 3 options, 2 texts, 3 filings in all, labels "Ic" and "unmatched"; the two text variables are interchangeable |
| topology_counts | do counts add up for every library? (no) | the same |

Distinct states: session_helpers 41,585, session_script 341,922, driver 212,409, config_files 489,621, site_calls 48,864, topology_names 68,588.

Why the bounds are enough. A label depends on the contents of its own cloud, the
last bonds, one list and one set of q6 values, so a second cloud adds only
independent copies; two types and a script's own rule make every field of a bond
or label differ in at least one way. Two frames make the frame loop wrap, which
is what staleness needs, and all mode sets include every order in which an
earlier block can leave a pointer behind. Four atoms make two separate parts,
and two sites joined only through an atom of another kind, both of which a wrong
row would merge or split, and two ions make one shell come after another. Three
filings are a text extended twice, or one extended beside one that names deeper.
Three lines are the shortest files in which a section is opened, left and misread. The theorems below cover the rest of the sizes:
that a helper call touches no other cloud, for one, is seen by its proof only.

Fairness. Only `driver` needs it: `FairSpec` has `WF_vars(Next)`.
`main` is one thread of straight-line code, each numeric `for` over frames is
finite, and every engine call returns or throws, so an enabled step is taken.
`Stopped` and `Finished` let a finished driver and reader stutter, and a session,
a site or a topology script always has a call to make: every run checks deadlock.

## Theorems

All proofs hold for every value of the constants under the named assumptions.

- `DseamsSession_proofs`, from `ReadAssumption`, `NoneAssumption`,
  `SessionAssumption`, `ValueAssumption` (the constants have the shapes above,
  nil and garbage differ from objects):
  - `SessionTyped`: `Spec => []TypeOK`.
  - `ReadsAnswerCalls`: for all files and options, each path of `dseams.read` gives
    what `Answer` says (`PathsAnswer`, path by path, the fallback from type 2 to type 1
    among them), and every cloud a helper script holds is such an answer,
    so it has atoms (`AnswerAtoms`). The inductive invariant is `TypeOK /\ ReadsAnswer`.
  - `HelpersImplementLabelling`: `HelperSpec => HelpersLabel`. Each `Read` maps
    to `Load`, each helper that returns to `Label` (`ChilledFresh`: correlating
    and labelling on one graph gives fresh labels), each bond, list or registry
    call and each failed helper to a stuttering step (`BondsStutter`). Typing is
    needed so that a cloud with new bonds is not nil, and `ReadsAnswer` so that what
    is loaded is in `Contents`.
  - `HelpersHeal`: the action property of session_script, for any script. It
    needs no invariant about bonds: that is the point, a helper call reads
    nothing that came before it.
- `LuaDriver_proofs`, from `DriverAssumption`, `BodyAssumption`,
  `NothingAssumption` (bodies are sequences of calls that have what their result
  derives from):
  - `DriverTyped`, `BoundWorkflowsAreDefined`, `CheckedBuildsOnlyLeftOvers`,
    `ZeroMeansAllRan`, the last three from one inductive invariant `DriverInv`.
    `NoUndefined` is not inductive: it says nothing of a script that is half
    way. `ScriptEnv` adds that in a running script every global bound by the
    current block, or assigned above the current line, is live; `Pointers` that a global owned by a mode is owned by the
    one in progress or by one that has run; `Progress` that the modes before the
    current one have run exactly if they are switched on, and that a mode runs
    only when the arguments asked for a run.
  - `DriverRunsModes`: `Spec => RunsModes`, the driver implements `ModeRuns`. The end
    of a block maps to `Complete` (`EndCompletes`: by `Progress` and because no mode
    stands twice in `Order`), every way to leave to `Stop` (`ExitStops`), all else
    stutters.
  - `DriverAdvances`: each step goes to a later place (stage, mode, phase, frame,
    line; compared from the left) and never beyond `End`, which depends on the
    configuration and the scripts only. `WithinLoops` bounds the loop variable and
    the line. For any frame numbers and scripts this is all of termination that is
    not fairness.
- `WorkflowTyping_proofs`, from the same assumptions:
  - `TypedWorkflowsAreCoherent`: if every workflow has a typing, every call that gets
    through works on coherent objects, for any modes, frame numbers and gap. A typing
    says nothing of the objects at the first line, so nothing an earlier mode or
    frame left can matter; the rest is the invariant `CoherentInv`: `DriverInv`, and
    `Following`, that what is known at the current line is true of the objects in the
    current frame, and `Feeding`, that an accumulator (`calcRDF`) was last fed in the
    frame before. `AgreeFollows` and `AfterFollows` carry a line from the frame the
    typing was written for to the frame the loop is at.
  - `ExamplesAreCoherent`, `ExamplesAreDefined`: the same for the scripts of
    `example_lua` and the helper chains, which `ExamplesAssumption` of `MCLuaDriver`
    says are typed by `KnownIn` and need nothing their mode does not bind. That is a
    statement about the bodies alone, none of the frame numbers in it: TLC evaluates
    it whenever the driver runs are checked, and the theorems take it from there to
    any number of frames.
- `LuaConfig_proofs`, from `ConfigAssumption`, for files of any length:
  - `ReaderTyped`, `ReaderLastWins`: `LastWins` needs `section = SectionAt(next)`
    beside it (`ReaderInv`); `OneMoreLine` shows that the setters above line
    `next + 1` are those above `next` and perhaps the line read.
  - `ShippedFilesAreYaml`: a loaded file has been read to its end (`LoadedAtEnd`),
    so each field is its last setter's; `SectionIsParent` shows by the last
    unindented line that on the shipped layout the section a line is under is its
    YAML parent, and `ShippedFieldsAgree` that reader and YAML have the same setters.
- `SiteAnalyses_proofs`, from `SiteAssumption` (IDs of a cloud are distinct, rows
  are sets of indices, possibly with strays). One invariant `SiteInv`: cloud and
  table are the script's, and the last result is sound for them.
  - `SitesTyped`: connected parts are no larger than the sites (`LargestBounded`).
  - `DomainsDescribeSites`: `IdsKeepTheGraph` is the heart: with distinct IDs, `j`'s
    ID is in the converted row of `i` exactly if `j` is in the row by index, so the
    engine searches the graph of the sites, whatever it computes there.
  - `BinsFollowTheAxis`: a listed axis is twice a whole number in halves, which
    indexes the edge and survives rounding; a fraction finds no edge (`DensityKeeps`).
  - `ContactsAreMatchings`: the returned rows join a cation head with an anion, no
    ion twice, under either naming: different ions have different IDs and different
    places in the ion cloud (`PlacesDiffer`, `NamesDiffer`), so naming keeps a
    matching one to one (`NamedMatching`), packing keeps the order of a row
    (`PackedPairs`), and the ion sub-cloud's types count the kinds (`IonsOfKind`).
  - `CensusesAreOfIons`: the members packed at `k` are the water atoms near the `k`-th
    ion (`IonsKeep`), and a census of them counts, size by size up to the cap, the
    rings that touch that shell (`CensusKeeps`); flags and rings are independent.
- `TopologyNaming_proofs`, from `TopologyAssumption`: `TopologyTyped`,
  `NamesComeFromFilings`, `FiledFramesAreNamed`, from one invariant: a text holds
  exactly the keys of the frames filed in it, each under a label one of those
  filings gave (`Faithful`, kept by `AddedFaithful` whichever label the engine
  keeps), and the last result is faithful to the texts (`ClassifiedNames`).
  - `CountsHaveEveryAtom`: the counts add up to the atoms of the frame, if no label a
    script may file under is "unmatched" (topology_counts shows what happens else). `Total` is
    the number of pairs of a word and a number up to its count, so that no sum has
    to be unfolded: `TotalOfFibres` pairs the places of all words with
    the atoms so counted, one to one. It needs `Tallied` in the invariant: the
    counts are the sizes of the sets of atoms of each word.

Only model-checked: `Terminates`, because it is liveness under fairness. Every other
property of a passing run is a theorem above; what `DriverAdvances` leaves of
termination is that the driver takes a step when it can. Proofs about bodies take
`KnownIn` as TLC evaluates it, since a function that is defined by recursion over a
script cannot be unfolded for scripts of every length.

## Disagreements between code and documentation

| Run | Source says | Code does |
|---|---|---|
| session_tables | lua_api.hpp:23-26: list parameters are by value, tables and userdata both bind | `recenterCluster` (lua_api.cpp:957), like the legacy `chill*` names, takes a reference |
| session_defaults | README.md:24-26: `dseams.read("water.lammpstrj")`, then `chill_plus(cloud, {cutoff = 3.5})` | the read keeps type 2 when there is any, the helper lists type 1 (dseams.lua:43-49, 61): the graph has no edge. docs/orgmode/reference/lua.org:19 reads with `{type = 2}`; troubleshooting.org:84-86 names the pitfall |
| driver_prisms | CHANGELOG.md:127, entry of 2.0.1: `prismAnalysis` takes `atomID` by reference so that later frames keep the first-frame ID (lua_api.hpp:312 says only that it is the first-frame ID) | the binding takes `int atomID` by value (lua_api.cpp:942) |
| driver_dumps | chillPlus/iceType/functions.lua:19: dumps the recentered largest cluster | it dumps `resCloud` |
| topology_counts | docs/source/reference/lua.rst:337-338: unmatched atoms carry `""` under `counts.unmatched` | a label "unmatched" has the same Lua key (lua_api.cpp:369): one of the two counts is lost, and the counts no longer add up |
| config_yaml | opt_parser.cpp:20: a Yaml config | a line reader without indentation or quoting |

Also seen, without a run of its own: `dseams.density` tests only the range of a
numeric axis (dseams.lua:220), so 0.5 passes although the error message next to it
allows 0, 1 and 2; `BinsOfAxis` says what then comes out instead of excluding it.
docs/orgmode/howto/troubleshooting.org:79-80 says that a wrong type yields an empty
cloud; `dseams.read` raises (dseams.lua:55), as `ReadsAnswer` has it and the library
example asserts. lua.rst:485 and the comment at lua_api.cpp:103 differ on whether
pairs hold atom IDs or indices. `yoda.fnl:1` offers "the
same helpers as lua/yoda.lua" but, like `dseams.fnl`, has no names for
`cages_by_signature`, the topology and the ion helpers.

## Plan and what is not modelled

All parts of the plan are in place: sessions with their reads, driver and
workflows, configuration, site and ion analyses, topology naming, and the helper
chains, the static condition that makes workflows coherent, and the driver's
refinement of `ModeRuns`. What could still be added, in this order:

1. Sessions of several scripts that share the rule registry of one process.
2. The reader as a refinement of a two-level mapping.

Not modelled, and why:

- What `RingUpdater` and `AffiliationUpdater` remember between updates: the
  bindings hand lists through, the state and its rules are in the engine.
- Numerical descriptors, radial distributions, coordination numbers, guest
  occupancy: one stateless engine call each whose result is packed into a table.
- The slice flag of labelling calls and the geometry of selections: numbers.
- `luaopen_dseams_core` and `registerAll` fill a fresh table; the Fennel and `yoda`
  wrappers rename functions. None has a later state.
- The engine and the vendored libraries, except for what the code here relies on.
