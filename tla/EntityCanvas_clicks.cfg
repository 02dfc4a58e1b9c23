SPECIFICATION CanvasSpec
CONSTANTS
  Shown = {"dev_91a2", "dev_3b7f"}
  Stamps = {1, 2}
  Filters = {"all", "device"}
  NoFilter = "all"
  None = None
  MaxLeaves = 2
INVARIANTS
  GraphIsWhole
  OneLoopOfTheGraph
PROPERTIES
  NothingVanishes
  PictureCatchesUp
