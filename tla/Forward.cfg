SPECIFICATION MCSpec
CONSTANTS
  Handles <- MCHandles
  Mutating = {"add_"}
  Views = {"view"}
  MinStep = 1
  MaxStep = 4
  Programs <- MCPrograms
  Vars = {"x", "y", "z", "w"}
  BatchOps = 3
  UnreadLimit = 1
  Described = 2
  DeadLimit = 1
  Crashes = TRUE
  Preempts = {}
  Blobs = {"a", "b", "c"}
  CacheMin = 1
  Budgets = {0, 3, 4}
  MaxBlobs = 2
  MaxBatches = 1
  Clients = {"c1", "c2"}
  MaxBlocks = 3
  Together = FALSE
  MaxHandles = 2
  Sizes = {1, 2}
  Spacing = 2
  DeviceSize = 3
  Reserve = 1
  MaxPending = 2
INVARIANTS ValuesHonest RepliesOwned DigestsHeld MappingUndone DriverKept
CHECK_DEADLOCK FALSE
