SPECIFICATION Spec
CONSTANTS
  Files <- OneDump
  MaxFrame = 1
  Types = {1, 2}
  Suffix <- OneDumpSuffix
  Present <- SmallDumpPresent
  HasReadCon = FALSE
  HasChemfiles = FALSE
  None = None
  Clouds = {c1}
  Lists = {l1}
  RuleNames <- MethodNames
  RuleTables <- OwnTables
  CheckedBuild = TRUE
  Garbage = Garbage
PROPERTIES ListsBind
