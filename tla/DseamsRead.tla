----------------------------- MODULE DseamsRead -----------------------------
(***************************************************************************)
(* dseams.read (lua/dseams.lua) and the readers it dispatches to.          *)
(*                                                                         *)
(* A file is known by its suffix and by the atom types each of its frames  *)
(* holds; the readers themselves belong to the engine and are modelled by  *)
(* the selection of atoms they are asked for.  A cloud's contents are the  *)
(* file and frame they came from and the set of atom types that were kept; *)
(* nop = 0 is an empty set.  Each path of dseams.read has a require_nonempty *)
(* of its own, so each is an operator of its own here.                     *)
(***************************************************************************)
EXTENDS Naturals

CONSTANTS
  Files,         \* paths a script may pass
  MaxFrame,      \* bound: frames per file
  Types,         \* atom types
  Suffix,        \* Suffix[f]: the lower-cased extension class of f
  Present,       \* Present[f][i]: the types with an atom in frame i of f
  HasReadCon,    \* SEAMS_HAS_READCON: core.readCon is registered
  HasChemfiles,  \* SEAMS_HAS_CHEMFILES: core.readChemfiles is registered
  None           \* Lua's nil

Frames == 1 .. MaxFrame
Suffixes == {"xyz", "con", "chemfiles", "dump"}

ASSUME ReadAssumption ==
  /\ MaxFrame \in Nat \ {0}
  /\ Types \subseteq Nat
  /\ Suffix \in [Files -> Suffixes]
  /\ Present \in [Files -> [Frames -> SUBSET Types]]
  /\ HasReadCon \in BOOLEAN
  /\ HasChemfiles \in BOOLEAN

ASSUME NoneAssumption == None \notin Nat

(* The contents of a PointCloud. *)
Atoms == [file : Files, frame : Frames, kept : SUBSET Types]

(* The option table of dseams.read; a missing field is nil. *)
ReadOpts == [frame : Frames \cup {None}, type : Types \cup {None}, all : BOOLEAN]

(* Lua's `v or default`. *)
Or(v, default) == IF v = None THEN default ELSE v

-----------------------------------------------------------------------------
(* One frame of a file, restricted to the types asked for. *)
Held(f, i, types) == [file |-> f, frame |-> i, kept |-> Present[f][i] \cap types]

(* core.readLammpsTrjO(path, frame, type): possibly empty, never an error. *)
ReadLammpsTrjO(f, i, t) == Held(f, i, {t})

(* What a path of dseams.read leaves its caller: the cloud, or None where   *)
(* it raises.                                                              *)
require_nonempty(x) == IF x.kept = {} THEN None ELSE x

(* readXYZ takes no frame. *)
ReadXyz(f) == require_nonempty(Held(f, 1, Types))

ReadCon(f, i) == IF HasReadCon THEN require_nonempty(Held(f, i, Types)) ELSE None

ReadChemfiles(f, i, t) ==
  IF HasChemfiles
  THEN require_nonempty(Held(f, i, IF t = None THEN Types ELSE {t}))
  ELSE None

ReadAll(f, i) == require_nonempty(Held(f, i, Types))

(* Mutant: the cloud of the fallback is returned as it is. *)
ReadDefaultUnchecked(f, i) ==
  LET first == ReadLammpsTrjO(f, i, 2)
  IN  IF first.kept # {} THEN first ELSE ReadLammpsTrjO(f, i, 1)

(* No type given: the oxygens of most dumps, then those of the others. *)
ReadDefault(f, i) ==
  LET first == ReadLammpsTrjO(f, i, 2)
  IN  IF first.kept # {} THEN first ELSE require_nonempty(ReadLammpsTrjO(f, i, 1))

ReadTyped(f, i, t) == require_nonempty(ReadLammpsTrjO(f, i, t))

(* dseams.read: the suffix picks the path, then the options do. *)
DseamsReads(f, o) ==
  LET i == Or(o.frame, 1)
  IN  CASE Suffix[f] = "xyz" -> ReadXyz(f)
        [] Suffix[f] = "con" -> ReadCon(f, i)
        [] Suffix[f] = "chemfiles" -> ReadChemfiles(f, i, o.type)
        [] OTHER -> IF o.all THEN ReadAll(f, i)
                    ELSE IF o.type = None THEN ReadDefault(f, i)
                    ELSE ReadTyped(f, i, o.type)

-----------------------------------------------------------------------------
(* What a call asks for, said without the paths: the build has the reader  *)
(* of the suffix, and the frame holds atoms of a type the options allow.   *)
Built(f) ==
  /\ Suffix[f] = "con" => HasReadCon
  /\ Suffix[f] = "chemfiles" => HasChemfiles

Defaulted(f, o) == Suffix[f] = "dump" /\ ~o.all /\ o.type = None
Typed(f, o) == o.type # None /\ (Suffix[f] = "chemfiles" \/ (Suffix[f] = "dump" /\ ~o.all))

Asked(f, o) ==
  LET types == IF Typed(f, o) THEN {o.type} ELSE IF Defaulted(f, o) THEN {1, 2} ELSE Types
  IN  Held(f, IF Suffix[f] = "xyz" THEN 1 ELSE Or(o.frame, 1), types)

(* The reference dseams.read is compared with: of the atoms asked for, all *)
(* there are, or type 2 rather than type 1 where the default chooses; None *)
(* when there are none.                                                    *)
Answer(f, o) ==
  IF ~Built(f) \/ Asked(f, o).kept = {} THEN None
  ELSE IF Defaulted(f, o) /\ 2 \in Asked(f, o).kept THEN [Asked(f, o) EXCEPT !.kept = {2}]
  ELSE Asked(f, o)
=============================================================================
