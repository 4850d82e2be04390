SPECIFICATION FairSpec
CONSTANTS
  c1 = c1
  c2 = c2
  c3 = c3
  b1 = b1
  narrow = narrow
  wide = wide
  Exit = exit
  None = none
  Keys = {narrow, wide}
  Width <- MCWidth
  Calls = {c1, c2}
  Blocks = {b1}
  KeyOf <- OneKey
  Parent <- TopLevel
  Local = {}
  Movers = {}
  Retries = 1
  Indices = {}
  Count = 1
  MayExit = FALSE
  Shared = {}
PROPERTIES
  CallsSettle
  SessionsEnd
CHECK_DEADLOCK FALSE
