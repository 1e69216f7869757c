SPECIFICATION FairSpec
CONSTANTS
  Nothing = Nothing
  Workflows <- AllWorkflows
  Body <- ExampleBodies
  Flags <- ExampleFlags
  Once <- ExampleOnce
  FirstFrame = 1
  LastFrame = 2
  FrameGap = 1
INVARIANTS TypeOK NoUndefined ExamplesSupported BannerTrue OnlyLeftOvers
PROPERTIES CallsCoherent RunsModes Advances Terminates
