SPECIFICATION HelperSpec
CONSTANTS
  Files <- OneDump
  MaxFrame = 2
  Types = {1, 2}
  Suffix <- OneDumpSuffix
  Present <- OneDumpPresent
  HasReadCon = FALSE
  HasChemfiles = FALSE
  None = None
  Clouds = {c1}
  Lists = {l1}
  RuleNames <- MethodNames
  RuleTables <- OwnTables
  CheckedBuild = FALSE
  Garbage = Garbage
PROPERTIES DefaultsAgree
