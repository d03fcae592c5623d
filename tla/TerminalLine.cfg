SPECIFICATION Spec
CONSTANTS
  Rows = 2
  Cols = 3
  MinWidth = 3
  DefaultTab = 2
  DefaultLimit = 6
  MaxLine = 5
  Widths = {0, 2, 3, 7, 200}
  Tabs = {0, 1, 2, 3, 4}
  Columns = {1, 4}
  Nulls = {0, 1}
  Reach = 8
INVARIANTS TypeOK PositionCounts EchoIsLine TabFitsWidth
PROPERTY CommaAligns
VIEW View
