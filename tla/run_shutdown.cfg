\* One runtime that is shut down in an orderly way.
SPECIFICATION Spec
CONSTANTS
  Runtimes = {r1}
  NoRuntime = NoRuntime
  Results = {"succeeded"}
  Scheduled = FALSE
  Concurrent = FALSE
  MayLapse = FALSE
  MayCrash = FALSE
  MayClose = TRUE
  MayRaise = FALSE
  MaxOps = 1
PROPERTY CommittedIsNotUndone
CHECK_DEADLOCK FALSE
