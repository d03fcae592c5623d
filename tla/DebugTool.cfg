SPECIFICATION Spec
CONSTANTS
  Lines = 3
  SystemRows = 1
  TerminalRows = 2
  LeftColumn = 12
  Nibbles = {0, 1}
  Readable <- AnswersRead
  Writable <- StoresWrite
  Scratch = {0}
  Memory <- Zeros
  OpcodeAt = 16
  Entries <- Jumps
  Fields = {1}
INVARIANTS CursorOnScreen ShowsMemory FaultsContained
PROPERTY IsHexEditor
CONSTRAINT FewJumps
