SPECIFICATION Spec
CONSTANTS
  Size = 4
  Ids <- SmallIds
  Types = {1, 2}
  Kinds <- SmallKinds
  Counted <- SmallCounted
  Maps <- SmallMaps
  Clouds <- SmallClouds
  AxisOpts <- SmallAxes
  Edge <- SmallEdge
  MaxBins = 1
  IonLists <- SmallIons
  IceFlags <- SmallFlags
  RingSets <- SmallRings
  RingCaps = {3}
  CheckedBuild = FALSE
  None = None
INVARIANTS TypeOK DomainOfSites BinsOfAxis ContactsPairIons CensusOfIon
