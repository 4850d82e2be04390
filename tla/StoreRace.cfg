SPECIFICATION MCSpec
CONSTANTS
  s1 = s1
  s2 = s2
  f1 = f1
  f2 = f2
  Session = {s1, s2}
  File = {f1, f2}
  Native = {f1}
  None = None
  MaxWants = 1
  Overlong = {s1}
  Listers = {s2}
  Editable = {f1}
  Hashing = TRUE
  Programs <- MCPrograms
  Versions = 3
  Savers = {"x", "y", "z"}
  Digests = {"d", "e"}
  Together = TRUE
  Calls = {"x", "y", "z"}
  MaxWrites = 5
  Args = {"a", "b", "c", "d"}
  Limit = 4
  MaxPlan = 2
  Shared = FALSE
  Children = {1, 2}
  MaxInodes = 3
  OneWriter = TRUE
  Procs = {"p"}
  Aliases = {"a", "b"}
  Targets = {"m", "n"}
  Kinds = {"shell", "tunnel", "password", "elice", "kaggle", "modal", "colab"}
  Slots = {1, 2}
  Full = 2
  Days = 2
  Events = 1
  Ordered = TRUE
INVARIANT BlobsWhole
CHECK_DEADLOCK FALSE
