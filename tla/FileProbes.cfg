SPECIFICATION Spec
CONSTANTS
  Slots <- SixSlots
  Empty = {6}
  AlphaWord = 1
  AlphaQuiz = 2
  Calculator = 3
  WithFiles = {2, 4}
  OutOfRange = 32
  ClipMax = 2
  FolderQuirks <- FolderQuirk
  InfoQuirks <- InfoQuirk
INVARIANTS FolderVerdictRight FrameIntact InfoVerdictRight
PROPERTY PassLeavesFolder
