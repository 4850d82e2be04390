SPECIFICATION Spec
CONSTANTS
  renewal = renewal
  job = job
  switch = switch
  Requests = {renewal, job, switch}
  Op <- MCOp
  Timed = {renewal, switch}
  None = none
  MayClose = TRUE
  MayCrash = TRUE
INVARIANTS OneReader NobodyOversleeps WaitersReachable RepliesKept
CHECK_DEADLOCK FALSE
PROPERTIES AnswersAreOwn
