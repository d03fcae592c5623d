SPECIFICATION Spec
CONSTANTS
  Smeml = 2
  Top = 20
  Numbers = {10, 20, 30}
  Codes <- ShortAndLong
  Largest = 12
INVARIANTS TypeOK ChainInOrder PointersCurrent
PROPERTY ListsProgram
