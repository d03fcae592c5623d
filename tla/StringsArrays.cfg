SPECIFICATION Spec
CONSTANTS
  Text <- TextABc
  Literals <- FourLiteral
  Ememl = 24
  NVars = 1
  Made <- MadeBoth
  EmptyOffsets = {}
  MaxLength = 4
  MaxPending = 2
  ArrayRoom = 24
  ArrayBytes = 4
  Ops = {"variable", "literal", "make", "let", "consume", "fre", "fn", "newvar", "dim"}
CONSTRAINT Unexposed
INVARIANTS IntactUnlessExposed MemoryErrorIsReal
