\* Every interleaving of two turns with one tool call each.
SPECIFICATION Spec
CONSTANTS
  Turns = {t1, t2}
  NoTurn = NoTurn
  MaxCalls = 1
  Approvable = {t1}
  MayCrash = TRUE
  MayLapse = TRUE
  MayCancel = TRUE
INVARIANTS TypeOK EffectExclusion AtMostOnce RecordsAreTrue NothingConcealed
PROPERTIES SettledIsFinal QuarantineHolds KeepsPromise
CHECK_DEADLOCK FALSE
