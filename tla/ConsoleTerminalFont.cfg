SPECIFICATION Spec
CONSTANTS
  LcdWidth = 12
  LcdHeight = 24
  SystemFont <- Font16
  TerminalFont <- Font8
  NoFont = NoFont
  Glyphs = {"a"}
  Blank = "sp"
PROPERTIES
  ShowsTerminal
