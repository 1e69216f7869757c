SPECIFICATION Spec
CONSTANTS
  Frames = {"pure", "doped"}
  Atoms = {1, 2}
  Hops = {2, 3}
  Options <- SmallOptions
  Class <- SmallClass
  Labels = {"Ic", "unmatched"}
  Texts = {t1, t2}
  MaxFilings = 3
  None = None
SYMMETRY SomeTexts
INVARIANTS TypeOK NamesAreFiled OwnFrameNamed
