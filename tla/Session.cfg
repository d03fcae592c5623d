SPECIFICATION Spec
CONSTANTS
  Keys = {"char", "cr", "ctrlC", "applets", "dead"}
  MaxKeys = 5
  Life = 3
INVARIANT GetsInOrder
PROPERTIES HeldKeysNoticed KeysTaken CtrlCStops
