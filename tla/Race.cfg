SPECIFICATION MCSpec
CONSTANTS
  Interval = 2
  Grace = 20
  Timeout = 4
  Poll = 1
  MaxDrop = 6
  MaxMove = 3
  Moves = TRUE
  None = None
  Strategies = {1, 2, 3}
  Held = {3}
  Worlds <- MCWorlds
  Floor = 2
  Beaten = 0
  RejectShare = 4
  CacheShare = 2
  Attempts = {1, 2}
  Sessions = {1, 2}
  MaxConns = 3
  Commands = {1, 2, 3}
  Procs = {p, q}
  Starts = {s1, s2}
  Providers = {"kaggle", "colab", "modal"}
  Overlaps = FALSE
  Users = {u1, u2, u3}
  Serial = TRUE
  Builds = {1, 2}
  Archives = 2
  AnyCard = FALSE
  OneBoot = TRUE
CHECK_DEADLOCK FALSE
INVARIANT LosersClosed
