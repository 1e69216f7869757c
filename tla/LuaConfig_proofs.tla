-------------------------- MODULE LuaConfig_proofs --------------------------
(***************************************************************************)
(* The configuration reader for every file: one pass over the lines gives  *)
(* each field the value of the last line that sets it.                     *)
(***************************************************************************)
EXTENDS LuaConfig, WellFoundedInduction, TLAPS

(* Adding a line below all others makes it the last. *)
LEMMA LastAdded ==
  ASSUME NEW i \in Nat, NEW S \in SUBSET (1 .. i - 1)
  PROVE  Last(S \cup {i}) = i
  <1> DEFINE IsLast(k) == \A j \in S \cup {i} : j <= k
  <1>1. i \in S \cup {i} /\ IsLast(i)
    OBVIOUS
  <1>2. ASSUME NEW k \in S \cup {i}, IsLast(k) PROVE k = i
    BY <1>2
  <1>3. (CHOOSE k \in S \cup {i} : IsLast(k)) = i
    <2> HIDE DEF IsLast
    <2> QED BY <1>1, <1>2
  <1> QED BY <1>3 DEF Last

ReaderInv == TypeOK /\ section = SectionAt(next) /\ LastWins

LEMMA FieldTypes ==
  ASSUME NEW f \in Fields, NEW v \in Vals
  PROVE  Parsed(f, v) \in Settings /\ DefaultOf(f) \in Settings
  BY DEF Parsed, DefaultOf, Settings

LEMMA ReaderInit == Init => ReaderInv
  <1> SUFFICES ASSUME Init PROVE ReaderInv
    OBVIOUS
  <1>1. \A f \in Fields : DefaultOf(f) \in Settings
    BY DEF DefaultOf, Settings
  <1>2. Len(file) \in Nat
    BY ConfigAssumption DEF Init
  <1>3. TypeOK
    BY <1>1, <1>2 DEF Init, TypeOK
  <1>4. SectionAt(1) = Top /\ \A f \in Fields : ValueAt(1, f) = DefaultOf(f)
    BY DEF SectionAt, Openers, ValueAt, Setters
  <1> QED BY <1>3, <1>4 DEF Init, ReaderInv, LastWins

(* The line being read. *)
LEMMA LineTypes ==
  ASSUME TypeOK, Reading
  PROVE  /\ next \in 1 .. Len(file) /\ next + 1 \in 1 .. Len(file) + 1
         /\ Line \in Lines /\ Len(file) \in Nat
  BY ConfigAssumption DEF TypeOK, Reading, Line

(* Reading a line extends what is known about the lines above by that line. *)
LEMMA OneMoreLine ==
  ASSUME TypeOK, Reading
  PROVE  /\ SectionAt(next + 1) = IF Opens(Line) THEN Heading(Line) ELSE SectionAt(next)
         /\ \A f \in Fields :
              ValueAt(next + 1, f) =
                IF Assigns(Line) /\ <<SectionAt(next), Line.key>> = f
                THEN Parsed(f, Stripped(Line)) ELSE ValueAt(next, f)
  <1>1. next \in Nat \ {0}
    BY LineTypes
  <1>2. Openers(next + 1) = IF Opens(Line) THEN Openers(next) \cup {next} ELSE Openers(next)
    BY <1>1 DEF Openers, Line
  <1>3. Openers(next) \subseteq 1 .. next - 1
    BY DEF Openers
  <1>4. SectionAt(next + 1) = IF Opens(Line) THEN Heading(Line) ELSE SectionAt(next)
    <2>1. CASE Opens(Line)
      <3>1. Last(Openers(next + 1)) = next
        BY <1>1, <1>2, <1>3, <2>1, LastAdded
      <3> QED BY <1>2, <2>1, <3>1 DEF SectionAt, Line
    <2>2. CASE ~Opens(Line)
      BY <1>2, <2>2 DEF SectionAt
    <2> QED BY <2>1, <2>2
  <1>5. ASSUME NEW f \in Fields
        PROVE  ValueAt(next + 1, f) =
                 IF Assigns(Line) /\ <<SectionAt(next), Line.key>> = f
                 THEN Parsed(f, Stripped(Line)) ELSE ValueAt(next, f)
    <2>1. Setters(next + 1, f) =
            IF Assigns(Line) /\ <<SectionAt(next), Line.key>> = f
            THEN Setters(next, f) \cup {next} ELSE Setters(next, f)
      BY <1>1 DEF Setters, Line
    <2>2. Setters(next, f) \subseteq 1 .. next - 1
      BY DEF Setters
    <2>3. CASE Assigns(Line) /\ <<SectionAt(next), Line.key>> = f
      <3>1. Last(Setters(next + 1, f)) = next
        BY <1>1, <2>1, <2>2, <2>3, LastAdded
      <3> QED BY <2>1, <2>3, <3>1 DEF ValueAt, Line
    <2>4. CASE ~(Assigns(Line) /\ <<SectionAt(next), Line.key>> = f)
      BY <2>1, <2>4 DEF ValueAt
    <2> QED BY <2>3, <2>4
  <1> QED BY <1>4, <1>5

LEMMA ReaderNext == ReaderInv /\ [Next \/ Finished]_vars => ReaderInv'
  <1> SUFFICES ASSUME ReaderInv, [Next \/ Finished]_vars PROVE ReaderInv'
    OBVIOUS
  <1> USE DEF ReaderInv
  <1>1. CASE SkipLine
    <2>1. Reading /\ next' = next + 1 /\ UNCHANGED <<file, section, cfg, outcome>>
      BY <1>1 DEF SkipLine, Advance
    <2>2. TypeOK'
      BY <2>1, LineTypes DEF TypeOK
    <2>3. SectionAt(next)' = SectionAt(next + 1) /\ \A f : ValueAt(next, f)' = ValueAt(next + 1, f)
      BY <2>1 DEF SectionAt, Openers, ValueAt, Setters
    <2> QED BY <1>1, <2>1, <2>2, <2>3, OneMoreLine DEF SkipLine, LastWins
  <1>2. CASE OpenSection
    <2>1. Reading /\ next' = next + 1 /\ section' = Heading(Line) /\ UNCHANGED <<file, cfg, outcome>>
      BY <1>2 DEF OpenSection, Advance
    <2>2. TypeOK'
      BY <2>1, LineTypes DEF TypeOK, Lines, Heading
    <2>3. SectionAt(next)' = SectionAt(next + 1) /\ \A f : ValueAt(next, f)' = ValueAt(next + 1, f)
      BY <2>1 DEF SectionAt, Openers, ValueAt, Setters
    <2>4. ~Assigns(Line)
      BY <1>2, ConfigAssumption DEF OpenSection, Opens, Assigns
    <2> QED BY <1>2, <2>1, <2>2, <2>3, <2>4, OneMoreLine DEF OpenSection, LastWins
  <1>3. CASE AssignKey
    <2>1. Reading /\ next' = next + 1 /\ UNCHANGED <<file, section, outcome>>
      BY <1>3 DEF AssignKey, Advance
    <2>2. ~Opens(Line) /\ Assigns(Line) /\ Stripped(Line) \in Vals
      BY <1>3, ConfigAssumption DEF AssignKey, Assigns, Opens
    <2>3. \A f \in Fields :
            cfg'[f] = IF <<section, Line.key>> = f THEN Parsed(f, Stripped(Line)) ELSE cfg[f]
      BY <1>3 DEF AssignKey, TypeOK
    <2>4. cfg' \in [Fields -> Settings]
      BY <1>3, <2>2, FieldTypes DEF AssignKey, TypeOK
    <2>5. TypeOK'
      BY <2>1, <2>4, LineTypes DEF TypeOK
    <2>6. SectionAt(next)' = SectionAt(next + 1) /\ \A f : ValueAt(next, f)' = ValueAt(next + 1, f)
      BY <2>1 DEF SectionAt, Openers, ValueAt, Setters
    <2> QED BY <2>1, <2>2, <2>3, <2>5, <2>6, OneMoreLine DEF LastWins
  <1>4. CASE Throw \/ Return \/ Finished \/ UNCHANGED vars
    <2>1. UNCHANGED <<file, next, section, cfg>> /\ outcome' \in {"reading", "loaded", "threw"}
      BY <1>4 DEF Throw, Return, Finished, vars, TypeOK
    <2>2. TypeOK' /\ section' = SectionAt(next)'
      BY <2>1 DEF TypeOK, SectionAt, Openers
    <2>3. \A f : ValueAt(next, f)' = ValueAt(next, f)
      BY <2>1 DEF ValueAt, Setters, SectionAt, Openers
    <2> QED BY <2>1, <2>2, <2>3 DEF LastWins
  <1> QED BY <1>1, <1>2, <1>3, <1>4 DEF Next

(* Every state of the reader is of its type, for every file. *)
THEOREM ReaderTyped == Spec => []TypeOK
  <1>1. ReaderInv => TypeOK
    BY DEF ReaderInv
  <1> QED BY <1>1, ReaderInit, ReaderNext, PTL DEF Spec

(* For every file, whatever its lines, the reader gives each field the     *)
(* value of the last line that sets it (seams_yaml.hpp:60-102).            *)
THEOREM ReaderLastWins == Spec => []LastWins
  <1>1. ReaderInv => LastWins
    BY DEF ReaderInv
  <1> QED BY <1>1, ReaderInit, ReaderNext, PTL DEF Spec

-----------------------------------------------------------------------------
(* The reader and YAML.                                                    *)

(* A set of lines has a last one. *)
LEMMA LastExists ==
  \A n \in Nat : \A S \in SUBSET (1 .. n) :
     S # {} => Last(S) \in S /\ \A j \in S : j <= Last(S)
  <1> SUFFICES ASSUME NEW n \in Nat, NEW S \in SUBSET (1 .. n), S # {}
               PROVE  Last(S) \in S /\ \A j \in S : j <= Last(S)
    OBVIOUS
  <1> DEFINE T == {n - j : j \in S}
             R == OpToRel(<, Nat)
  <1>1. T \subseteq Nat /\ T # {}
    <2>1. PICK k \in S : TRUE
      OBVIOUS
    <2>2. n - k \in T
      BY <2>1
    <2>3. \A j \in S : n - j \in Nat
      OBVIOUS
    <2> QED BY <2>2, <2>3
  <1>2. \E x \in T : \A y \in T : ~(<<y, x>> \in R)
    <2>1. IsWellFoundedOn(R, Nat)
      BY NatLessThanWellFounded
    <2> HIDE DEF T, R
    <2> QED BY <1>1, <2>1, WFMin
  <1>3. PICK x \in T : \A y \in T : ~(y < x)
    BY <1>1, <1>2 DEF OpToRel
  <1>4. PICK i \in S : x = n - i
    OBVIOUS
  <1>5. \A j \in S : j <= i
    BY <1>3, <1>4
  <1>6. \E k \in S : \A j \in S : j <= k
    BY <1>5
  <1> QED BY <1>6 DEF Last

(* At the end of a file laid out as the shipped ones are, a line that sets *)
(* a field is in the section of the unindented line above it.              *)
LEMMA SectionIsParent ==
  ASSUME TypeOK, Mapping, ShippedLayout
  PROVE  \A i \in 1 .. Len(file) :
           Assigns(file[i]) => <<SectionAt(i), file[i].key>> = YamlField(i)
  <1> SUFFICES ASSUME NEW i \in 1 .. Len(file), Assigns(file[i])
               PROVE  <<SectionAt(i), file[i].key>> = YamlField(i)
    OBVIOUS
  <1>1. \A j \in 1 .. Len(file) : file[j] \in Lines
    BY ConfigAssumption DEF TypeOK
  <1>2. \A j \in 1 .. Len(file) :
          file[j].hash # "lead" => Stripped(file[j]) = YamlVal(file[j])
    BY <1>1 DEF Mapping, ShippedLayout, Stripped, YamlVal, Lines
  <1>3. file[i].hash # "lead" /\ YamlVal(file[i]) \in Vals /\ YamlVal(file[i]) # Nil
    BY <1>2, ConfigAssumption DEF Assigns
  <1>4. CASE ~file[i].indented
    BY <1>3, <1>4 DEF ShippedLayout, SectionAt, YamlField
  <1>5. CASE file[i].indented
    <2> DEFINE P == YamlParents(i)
    <2>1. P # {} /\ P \in SUBSET (1 .. i - 1) /\ i - 1 \in Nat
      BY <1>3, <1>5 DEF Mapping, YamlParents
    <2>2. Last(P) \in P /\ \A j \in P : j <= Last(P)
      BY <2>1, LastExists
    <2>3. YamlVal(file[Last(P)]) = Nil
      BY <1>3, <1>5, <2>2 DEF Mapping
    <2>4. Last(P) \in Openers(i)
      BY <1>2, <2>2, <2>3 DEF Openers, Opens, YamlParents
    <2>5. ASSUME NEW j \in Openers(i) PROVE j \in P
      <3>1. j \in 1 .. i - 1 /\ j \in 1 .. Len(file) /\ file[j].hash # "lead"
        BY DEF Openers, Opens
      <3>2. YamlVal(file[j]) = Nil
        BY <1>2, <3>1 DEF Openers, Opens, Mapping
      <3>3. ~file[j].indented
        BY <3>1, <3>2 DEF Mapping
      <3> QED BY <3>1, <3>3 DEF YamlParents
    <2>6. Last(Openers(i)) \in Openers(i) /\ \A j \in Openers(i) : j <= Last(Openers(i))
      <3>1. Openers(i) \in SUBSET (1 .. i - 1) /\ Openers(i) # {}
        BY <2>4 DEF Openers
      <3> QED BY <2>1, <3>1, LastExists
    <2>7. Last(Openers(i)) = Last(P)
      <3>1. Last(P) \in Nat /\ Last(Openers(i)) \in Nat
        BY <2>1, <2>2, <2>5, <2>6
      <3>2. Last(P) <= Last(Openers(i)) /\ Last(Openers(i)) <= Last(P)
        BY <2>2, <2>4, <2>5, <2>6
      <3> QED BY <3>1, <3>2
    <2>8. Heading(file[Last(P)]) = file[Last(P)].key
      BY <1>2, <2>2, <2>3 DEF YamlParents, Heading
    <2> QED BY <1>5, <2>1, <2>4, <2>7, <2>8 DEF SectionAt, YamlField
  <1> QED BY <1>4, <1>5

LEMMA ShippedFieldsAgree ==
  ASSUME TypeOK, Mapping, ShippedLayout, NEW f \in Fields
  PROVE  ValueAt(Len(file) + 1, f) = YamlValue(f)
  <1>1. Len(file) \in Nat /\ \A j \in 1 .. Len(file) : file[j] \in Lines
    BY ConfigAssumption DEF TypeOK
  <1>2. \A j \in 1 .. Len(file) :
          file[j].hash # "lead" => Stripped(file[j]) = YamlVal(file[j])
    BY <1>1 DEF Mapping, ShippedLayout, Stripped, YamlVal, Lines
  <1>3. Setters(Len(file) + 1, f) = YamlSetters(f)
    <2>1. \A j \in 1 .. Len(file) :
            Assigns(file[j]) <=> file[j].hash # "lead" /\ YamlVal(file[j]) \in Vals
      BY <1>2 DEF Assigns, Mapping
    <2>2. 1 .. Len(file) + 1 - 1 = 1 .. Len(file)
      BY <1>1
    <2> QED BY <2>1, <2>2, SectionIsParent DEF Setters, YamlSetters
  <1>4. CASE YamlSetters(f) = {}
    BY <1>3, <1>4 DEF ValueAt, YamlValue
  <1>5. CASE YamlSetters(f) # {}
    <2>1. YamlSetters(f) \in SUBSET (1 .. Len(file))
      BY DEF YamlSetters
    <2>2. Last(YamlSetters(f)) \in YamlSetters(f)
      BY <1>1, <1>5, <2>1, LastExists
    <2>3. Stripped(file[Last(YamlSetters(f))]) = YamlVal(file[Last(YamlSetters(f))])
      BY <1>2, <2>2 DEF YamlSetters
    <2> QED BY <1>3, <1>5, <2>3 DEF ValueAt, YamlValue
  <1> QED BY <1>4, <1>5

(* A file that was read to its end. *)
LEMMA LoadedAtEnd == Spec => [](outcome = "loaded" => next = Len(file) + 1)
  <1> DEFINE AtEnd == outcome = "loaded" => next = Len(file) + 1
  <1>1. Init => AtEnd
    BY DEF Init
  <1>2. TypeOK /\ AtEnd /\ [Next \/ Finished]_vars => AtEnd'
    <2> SUFFICES ASSUME TypeOK, AtEnd, [Next \/ Finished]_vars PROVE AtEnd'
      OBVIOUS
    <2>1. CASE SkipLine \/ OpenSection \/ AssignKey
      BY <2>1 DEF SkipLine, OpenSection, AssignKey, Reading, Advance
    <2>2. CASE Throw
      BY <2>2 DEF Throw
    <2>3. CASE Return
      <3>1. Len(file) \in Nat /\ next \in 1 .. Len(file) + 1
        BY ConfigAssumption DEF TypeOK
      <3> QED BY <2>3, <3>1 DEF Return
    <2>4. CASE Finished \/ UNCHANGED vars
      BY <2>4 DEF Finished, vars
    <2> QED BY <2>1, <2>2, <2>3, <2>4 DEF Next
  <1> QED BY <1>1, <1>2, ReaderTyped, PTL DEF Spec

(* Every mapping laid out as the shipped configuration files are is read   *)
(* as YAML reads it, on every field (lua_inputs/config.yml,                *)
(* example_lua/**/config.yml).                                             *)
THEOREM ShippedFilesAreYaml == Spec => []ReadsShippedYaml
  <1>1. TypeOK /\ LastWins /\ (outcome = "loaded" => next = Len(file) + 1) => ReadsShippedYaml
    BY ShippedFieldsAgree DEF LastWins, ReadsShippedYaml
  <1> QED BY <1>1, ReaderTyped, ReaderLastWins, LoadedAtEnd, PTL
=============================================================================
