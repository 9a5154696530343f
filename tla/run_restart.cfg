\* One runtime at a time: crashes, shutdowns, restarts, every result.
SPECIFICATION FairSpec
CONSTANTS
  Runtimes = {r1, r2}
  NoRuntime = NoRuntime
  Results = {"succeeded", "partial", "awaiting_resources"}
  Scheduled = TRUE
  Concurrent = FALSE
  MayLapse = FALSE
  MayCrash = TRUE
  MayClose = TRUE
  MayRaise = TRUE
  MaxOps = 3
PROPERTIES CallsReturn CommitIsProjected
CHECK_DEADLOCK FALSE
