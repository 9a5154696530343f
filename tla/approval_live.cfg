\* A Chat call and a plain exec call that share a key, under the fairness of the
\* scheduler; operators stop sessions and recover with every outcome.  An
\* operator may never decide, so the system may stop.
SPECIFICATION FairSpec
CONSTANTS
  Approvals = {chat, plain}
  NoApproval = NoApproval
  Workers = {w1, w2}
  Keys = {k1}
  NoKey = NoKey
  TTL = 2
  LeaseTime = 1
  Chat = {chat}
  Trusted = {chat}
  Legacy = {}
  Outcomes = {"applied", "not_started", "unknown"}
  OperatorStops = TRUE
INVARIANTS NoEffectWithoutGrant ConsumedWasExecuted
PROPERTIES ConsumptionEnds ContinuationSettles
CHECK_DEADLOCK FALSE
