SPECIFICATION MCSpec
CONSTANTS
  renewal = renewal
  job = job
  switch = switch
  Requests = {renewal, job, switch}
  Op <- MCOp
  Timed = {renewal, switch}
  None = none
  MayClose = FALSE
  MayCrash = TRUE
  Sockets = {0, 1}
  MaxMoves = 1
  MaxAsks = 3
  Apart = TRUE
  Wires = 2
  WriteSizes <- MCWriteSizes
  StripeMin = 2
  StripeHold = 1
  Writers = {"w1", "w2"}
  MaxRecords = 5
  SocketSize = 2
  Threads = {1, 2}
  Messages <- MCMessages
  Window = 2
  Pieces = 3
  Parts = 2
  Streams = 3
CHECK_DEADLOCK FALSE
INVARIANTS BytesWhole
PROPERTIES TimedEnd DeathEndsAll OpeningEnds StreamDelivers
