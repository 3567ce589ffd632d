SPECIFICATION FairTetrisSpec
CONSTANTS
  Kinds = {"L"}
  LastRow = 3
  InitCol = 2
  Top = 0
  Width = 6
  Lines = 13
  BlockLines = 2
  Blacks = {FALSE, TRUE}
  Garbage <- Dirt
  MaxAside = 7
  MaxPieces = 2
INVARIANTS BufferIsGame OnlySidewaysOut
PROPERTIES PiecesSettle
CHECK_DEADLOCK FALSE
