SPECIFICATION Spec
CONSTANTS
  c1 = c1
  c2 = c2
  c3 = c3
  b1 = b1
  narrow = narrow
  wide = wide
  Exit = exit
  None = none
  Keys = {narrow, wide}
  Width <- MCWidth
  Calls = {c1, c2}
  Blocks = {b1}
  KeyOf <- TwoKeys
  Parent <- TopLevel
  Local = {}
  Movers = {}
  Retries = 1
  Indices = {0, 1}
  Count = 2
  MayExit = FALSE
  Shared = {0}
INVARIANTS
  CardsAccounted
PROPERTIES
  KeptWhileHeld
  LedgerSpec
CHECK_DEADLOCK FALSE
