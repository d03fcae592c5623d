SPECIFICATION Spec
CONSTANTS
  Rows = 2
  Cols = 3
  MinWidth = 3
  DefaultTab = 2
  DefaultLimit = 6
  MaxLine = 5
  Widths = {0, 2, 3, 7, 200}
  Tabs = {0, 2, 3, 4}
  Columns = {1, 4}
  Nulls = {}
  Reach = 8
VIEW View
PROPERTY EnterStartsLine
