SPECIFICATION Spec
CONSTANTS
  Text <- TextABc
  Literals <- FourLiteral
  Ememl = 20
  NVars = 2
  Made <- MadeTwo
  EmptyOffsets = {}
  MaxLength = 4
  MaxPending = 2
  ArrayRoom = 0
  ArrayBytes = 4
  Ops = {"variable", "make", "let", "copy", "consume"}
INVARIANT StringsIntact
CHECK_DEADLOCK FALSE
