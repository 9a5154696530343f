\* Two runtimes on one store, whose leases lapse and who may die.
SPECIFICATION Spec
CONSTANTS
  Runtimes = {r1, r2}
  NoRuntime = NoRuntime
  Results = {"succeeded", "partial"}
  Scheduled = TRUE
  Concurrent = TRUE
  MayLapse = TRUE
  MayCrash = TRUE
  MayClose = FALSE
  MayRaise = FALSE
  MaxOps = 2
SYMMETRY RuntimeSymmetry
INVARIANTS TypeOK OneToken CommitXorCancel
PROPERTIES FencedWrites KeepsPromise
CHECK_DEADLOCK FALSE
