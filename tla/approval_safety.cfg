\* A fresh Chat approval beside a row that an earlier release left behind.
\* Nobody has to decide, so the system may stop.
SPECIFICATION Spec
CONSTANTS
  Approvals = {fresh, old}
  NoApproval = NoApproval
  Workers = {w1, w2, w3}
  Keys = {k1, k2, k3}
  NoKey = NoKey
  TTL = 3
  LeaseTime = 1
  Chat = {fresh, old}
  Trusted = {fresh, old}
  Legacy = {old}
  Outcomes = {"not_started"}
  OperatorStops = FALSE
SYMMETRY HandlerSymmetry
INVARIANTS TypeOK AtMostOneExecution AtMostOneContinuation OneLeaseHolder AppliedChatIsDiscoverable
PROPERTIES KeepsPromise TerminalIsFinal KeyIsForGood
CHECK_DEADLOCK FALSE
