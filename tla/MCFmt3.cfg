SPECIFICATION Spec
CONSTANTS
  Sources <- MCSources
  MaxPieces = 3
  MaxNesting = 4
  MaxDepth = 3
INVARIANTS
  ParsesAsMeant
  Balanced
  RefsConsumedOnce
