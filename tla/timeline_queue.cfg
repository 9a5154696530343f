\* Three turns whose processes may die, and nothing else amiss.
SPECIFICATION FairSpec
CONSTANTS
  Turns = {t1, t2, t3}
  NoTurn = NoTurn
  MaxCalls = 1
  Approvable = {}
  MayCrash = TRUE
  MayLapse = FALSE
  MayCancel = FALSE
INVARIANT OneWorkerAtATime
PROPERTIES ServedInOrder ProceedsUnlessWedged
CHECK_DEADLOCK FALSE
