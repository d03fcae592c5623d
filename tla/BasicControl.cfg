SPECIFICATION Spec
CONSTANTS
  Lines = 2
  Statements = 2
  MaxFrames = 2
  MaxIfs = 1
  MaxStrays = 1
INVARIANTS TypeOK LinesReachable FramesFound
PROPERTY ContRepeatsNothing
