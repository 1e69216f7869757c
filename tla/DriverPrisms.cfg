SPECIFICATION Spec
CONSTANTS
  Nothing = Nothing
  Workflows <- AllWorkflows
  Body <- ExampleBodies
  Flags <- ExampleFlags
  Once <- ExampleOnce
  FirstFrame = 1
  LastFrame = 2
  FrameGap = 1
PROPERTIES LaterFramesKeepFirstId
