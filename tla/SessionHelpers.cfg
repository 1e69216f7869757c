SPECIFICATION HelperSpec
CONSTANTS
  Files <- AllFiles
  MaxFrame = 1
  Types = {1, 2}
  Suffix <- AllSuffix
  Present <- AllPresent
  HasReadCon = FALSE
  HasChemfiles = TRUE
  None = None
  Clouds = {c1}
  Lists = {l1}
  RuleNames <- MethodNames
  RuleTables <- OwnTables
  CheckedBuild = FALSE
  Garbage = Garbage
INVARIANTS TypeOK ReadsAnswer
PROPERTIES HelpersLabel
