----------------------------- MODULE LuaConfig -----------------------------
(***************************************************************************)
(* seams::loadLuaConfig (seams_yaml.hpp): a line reader for the driver's   *)
(* configuration file.                                                     *)
(*                                                                         *)
(* The reader has no notion of indentation.  A line that ends in a colon   *)
(* opens a section, every later key belongs to it, and nothing closes a    *)
(* section but the next one.  A '#' ends the line wherever it stands.      *)
(*                                                                         *)
(* A line of the file is known by its indentation, its key, its value (nil *)
(* when nothing follows the colon, absent when there is no colon) and      *)
(* where it holds a '#', if anywhere.  A value may end in a colon itself:  *)
(* the line is then a heading to the reader, under a name no key has.      *)
(***************************************************************************)
EXTENDS Naturals, Sequences

CONSTANTS
  Files,    \* the files a run may be given: sequences of lines
  Vals,     \* values a line may carry
  Truthy,   \* those asBool takes for true
  Headed,   \* those that end in a colon, with no quote behind it
  Cut,      \* Cut[v]: the value v cut off at the '#' inside it
  Nil, Absent

VARIABLES file, next, section, cfg, outcome

vars == <<file, next, section, cfg, outcome>>

TopKeys == {"trajectory", "variables"}
Elsewhere == "key: value"   \* the section a line such as `key: value:` opens
Sections == {"bulk", "topoOneDim", "topoTwoDim", "structureDesc"}
BulkKeys == {"use", "topologicalNetworkCriterion", "bondOrderParameters"}
Keys == TopKeys \cup Sections \cup BulkKeys

(* The fields of LuaConfig, named by the section and key that set them. *)
Top == ""
Fields == ({Top} \X TopKeys) \cup ({"bulk"} \X BulkKeys) \cup ((Sections \ {"bulk"}) \X {"use"})

Hashes == {"none", "lead", "value", "inside", "tail"}
Lines == [indented : BOOLEAN, key : Keys, val : Vals \cup {Nil, Absent}, hash : Hashes]

ASSUME ConfigAssumption ==
  /\ Files \subseteq Seq(Lines)
  /\ Truthy \subseteq Vals /\ Headed \subseteq Vals
  /\ Cut \in [Vals -> Vals]
  /\ Nil \notin Vals /\ Absent \notin Vals /\ Nil # Absent

Unset == "unset"
Settings == Vals \cup {Unset, "on", "off"}

TypeOK ==
  /\ file \in Files
  /\ next \in 1 .. Len(file) + 1
  /\ section \in {Top, Elsewhere} \cup Keys
  /\ cfg \in [Fields -> Settings]
  /\ outcome \in {"reading", "loaded", "threw"}

-----------------------------------------------------------------------------
(* Mutant: the line is looked at before its comment is taken off. *)
StrippedLate(ln) == ln.val

(* What is left of a line's value once everything from the '#' is gone. *)
Stripped(ln) == CASE ln.val = Absent -> Absent
                  [] ln.hash = "value" -> Nil
                  [] ln.hash = "inside" /\ ln.val # Nil -> Cut[ln.val]
                  [] OTHER -> ln.val

(* The last character of the line decides: a colon opens a section. *)
Opens(ln) == ln.hash # "lead" /\ Stripped(ln) \in {Nil} \cup Headed
Heading(ln) == IF Stripped(ln) = Nil THEN ln.key ELSE Elsewhere
Assigns(ln) == ln.hash # "lead" /\ Stripped(ln) \in Vals \ Headed

(* Section keys hold booleans, top-level keys strings. *)
Parsed(f, v) == IF f[1] = Top THEN v ELSE IF v \in Truthy THEN "on" ELSE "off"
DefaultOf(f) == IF f[1] = Top THEN Unset ELSE "off"

Init ==
  /\ file \in Files
  /\ next = 1
  /\ section = Top
  /\ cfg = [f \in Fields |-> DefaultOf(f)]
  /\ outcome = "reading"

Reading == outcome = "reading" /\ next <= Len(file)
Line == file[next]
Advance == next' = next + 1 /\ UNCHANGED <<file, outcome>>

(* A blank line, a comment, or a line without a colon. *)
SkipLine == /\ Reading /\ ~Opens(Line) /\ ~Assigns(Line)
            /\ Advance
            /\ UNCHANGED <<section, cfg>>

OpenSection == /\ Reading /\ Opens(Line)
               /\ section' = Heading(Line)
               /\ Advance
               /\ UNCHANGED cfg

(* Mutants: any key makes a field; the first assignment stays. *)
AssignAnyKey == /\ Reading /\ Assigns(Line)
                /\ cfg' = [f \in DOMAIN cfg \cup {<<section, Line.key>>} |->
                             IF f = <<section, Line.key>> THEN Parsed(f, Stripped(Line)) ELSE cfg[f]]
                /\ Advance
                /\ UNCHANGED section

AssignKeyOnce == /\ Reading /\ Assigns(Line)
                 /\ LET f == <<section, Line.key>>
                    IN  cfg' = IF f \in Fields /\ cfg[f] = DefaultOf(f)
                               THEN [cfg EXCEPT ![f] = Parsed(f, Stripped(Line))] ELSE cfg
                 /\ Advance
                 /\ UNCHANGED section

AssignKey == /\ Reading /\ Assigns(Line)
             /\ LET f == <<section, Line.key>>
                IN  cfg' = IF f \in Fields
                           THEN [cfg EXCEPT ![f] = Parsed(f, Stripped(Line))] ELSE cfg
             /\ Advance
             /\ UNCHANGED section

(* The file cannot be opened. *)
Throw == /\ outcome = "reading" /\ next = 1
         /\ outcome' = "threw"
         /\ UNCHANGED <<file, next, section, cfg>>

Return == /\ outcome = "reading" /\ next > Len(file)
          /\ outcome' = "loaded"
          /\ UNCHANGED <<file, next, section, cfg>>

Next == SkipLine \/ OpenSection \/ AssignKey \/ Throw \/ Return
Finished == outcome # "reading" /\ UNCHANGED vars

Spec == Init /\ [][Next \/ Finished]_vars

-----------------------------------------------------------------------------
(* The last line that sets a field decides it; a line is under the last    *)
(* section opened above it.                                                *)
Last(S) == CHOOSE i \in S : \A j \in S : j <= i

Openers(i) == {j \in 1 .. i - 1 : Opens(file[j])}
SectionAt(i) == IF Openers(i) = {} THEN Top ELSE Heading(file[Last(Openers(i))])

Setters(i, f) == {j \in 1 .. i - 1 : Assigns(file[j]) /\ <<SectionAt(j), file[j].key>> = f}
ValueAt(i, f) ==
  IF Setters(i, f) = {} THEN DefaultOf(f)
  ELSE Parsed(f, Stripped(file[Last(Setters(i, f))]))

(* Every field holds what the last line that is read as setting it says,   *)
(* whatever lines the file holds and in whatever order (hpp:60-102).       *)
LastWins == \A f \in Fields : cfg[f] = ValueAt(next, f)

-----------------------------------------------------------------------------
(* The same file read as YAML: an indented key belongs to the last         *)
(* unindented one above it, and a '#' inside quotes is part of the value.  *)
YamlVal(ln) == IF ln.hash = "value" /\ ln.val # Absent THEN Nil ELSE ln.val
YamlParents(i) == {j \in 1 .. i - 1 : ~file[j].indented /\ file[j].hash # "lead"}
YamlField(i) ==
  IF ~file[i].indented THEN <<Top, file[i].key>>
  ELSE IF YamlParents(i) = {} THEN <<"no", "parent">>
  ELSE <<file[Last(YamlParents(i))].key, file[i].key>>
YamlSetters(f) ==
  {j \in 1 .. Len(file) :
     file[j].hash # "lead" /\ YamlVal(file[j]) \in Vals /\ YamlField(j) = f}
YamlValue(f) == IF YamlSetters(f) = {} THEN DefaultOf(f)
                ELSE Parsed(f, YamlVal(file[Last(YamlSetters(f))]))

(* A mapping of sections to keys: headings have no value, keys have one,   *)
(* which YAML lets end in a colon only within quotes, and every line has a *)
(* colon.                                                                  *)
Mapping ==
  \A i \in 1 .. Len(file) :
     file[i].hash # "lead" =>
       /\ file[i].val # Absent /\ YamlVal(file[i]) \notin Headed
       /\ file[i].indented => YamlVal(file[i]) # Nil /\ YamlParents(i) # {}
       /\ \A j \in YamlParents(i) :
            (file[i].indented /\ j = Last(YamlParents(i))) => YamlVal(file[j]) = Nil

(* The layout of the shipped files: top-level keys first, no '#' in quotes. *)
ShippedLayout ==
  \A i \in 1 .. Len(file) :
     file[i].hash # "lead" =>
       /\ file[i].hash # "inside"
       /\ (~file[i].indented /\ YamlVal(file[i]) # Nil) => Openers(i) = {}

(* On a mapping laid out as the shipped files are, the reader agrees with  *)
(* YAML on every field (lua_inputs/config.yml, example_lua/**/config.yml). *)
ReadsShippedYaml ==
  (outcome = "loaded" /\ Mapping /\ ShippedLayout) => \A f \in Fields : cfg[f] = YamlValue(f)

(* Documented in opt_parser.cpp:20: the file is a "Yaml Config", so every  *)
(* mapping is read as YAML reads it.                                       *)
ReadsYaml == (outcome = "loaded" /\ Mapping) => \A f \in Fields : cfg[f] = YamlValue(f)
=============================================================================
