SPECIFICATION Spec
CONSTANTS
  image = image
  image2 = image2
  dtb = dtb
  JobIds = {j1, j2}
  NoJob = NoJob
  Patterns = {image, image2, dtb}
  PatternLists <- MCPatternLists
  Names = {"Image", "board.dtb"}
  FileName <- MCFileName
  Contents = {x, y}
  Missing = Missing
  Torn = Torn
SYMMETRY Symmetry
CHECK_DEADLOCK FALSE
INVARIANTS
  CollectInv
  RowDescribesFile
  ListingComplete
  LastRowDescribesFile
