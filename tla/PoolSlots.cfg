SPECIFICATION Spec
CONSTANTS
  c1 = c1
  c2 = c2
  c3 = c3
  b1 = b1
  narrow = narrow
  wide = wide
  Exit = exit
  None = none
  Keys = {narrow, wide}
  Width <- MCWidth
  Calls = {c1, c2, c3}
  Blocks = {}
  KeyOf <- MoverKeys
  Parent <- TopLevel
  Local = {}
  Movers = {c2}
  Retries = 0
  Indices = {}
  Count = 2
  MayExit = TRUE
  Shared = {}
INVARIANTS
  TakenAccounted
  BusyServed
  HoldsSettle
CHECK_DEADLOCK FALSE
