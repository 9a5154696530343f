\* A worker dies after its tool's result was recorded.
SPECIFICATION FairSpec
CONSTANTS
  Turns = {t1, t2}
  NoTurn = NoTurn
  MaxCalls = 1
  Approvable = {}
  MayCrash = TRUE
  MayLapse = FALSE
  MayCancel = FALSE
PROPERTY QueuedTurnProceeds
CHECK_DEADLOCK FALSE
