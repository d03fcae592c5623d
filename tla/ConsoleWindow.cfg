SPECIFICATION Spec
CONSTANTS
  LcdWidth = 12
  LcdHeight = 32
  SystemFont <- Font16
  TerminalFont = NoFont
  NoFont = NoFont
  Glyphs = {"a", "b"}
  Blank = "sp"
INVARIANTS
  TypeOK
  CursorOnLcd
  RollMatchesLcd
  NoTornCursor
  RubbedOutLineRetypes
PROPERTIES
  OutputKeepsCursorMode
  ShowsTerminal
