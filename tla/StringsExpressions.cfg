SPECIFICATION Spec
CONSTANTS
  Text <- TextABc
  Literals <- OneLiteral
  Ememl = 12
  NVars = 2
  Made <- MadeX
  EmptyOffsets = {}
  MaxLength = 3
  MaxPending = 2
  ArrayRoom = 0
  ArrayBytes = 4
  Ops = {"variable", "literal", "make", "concat", "slice", "lcase", "consume", "compare", "fre", "let", "copy"}
CONSTRAINT Unexposed
INVARIANTS IntactUnlessExposed NoDescriptorLeak SpaceOrdered MemoryErrorIsReal
