SPECIFICATION TetrisSpec
CONSTANTS
  Kinds = {"I"}
  LastRow = 8
  InitCol = 3
  Top = 0
  Width = 9
  Lines = 25
  BlockLines = 2
  Blacks = {FALSE}
  Garbage = {}
  MaxAside = 3
  MaxPieces = 2
PROPERTIES DownSeesTheStack
CHECK_DEADLOCK FALSE
