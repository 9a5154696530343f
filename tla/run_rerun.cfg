\* One runtime, a recurring schedule, nothing fails.
SPECIFICATION Spec
CONSTANTS
  Runtimes = {r1}
  NoRuntime = NoRuntime
  Results = {"succeeded"}
  Scheduled = TRUE
  Concurrent = FALSE
  MayLapse = FALSE
  MayCrash = FALSE
  MayClose = FALSE
  MayRaise = FALSE
  MaxOps = 2
INVARIANT RefusedOnlyIfCancelled
CHECK_DEADLOCK FALSE
