\* Two processes deliver, an effect is malformed, and nobody edits settings.  A
\* process that has given an attempt up may have nothing left to do, so the
\* system may stop.
SPECIFICATION Spec
CONSTANTS
  allow = allow
  deny = deny
  here = here
  there = there
  loop = loop
  pass = pass
  other = other
  Effects = {1, 2, 3}
  Rules = {allow, deny}
  RuleOf <- ThreeRules
  Malformed = {3}
  Processes = {here, there}
  NoProcess = NoProcess
  Deliveries = {loop, other}
  Loops = {loop, other}
  ProcessOf <- TwoProcesses
  Editors = {}
  Settings = {voice}
  MaxAttempts = 2
  Rounds = 1
  LeaseTime = 1
  RetryTime = 1
  IdLimit = 2
  LoopMayDie = TRUE
  MaxClaims = 3
  MaxCrashes = 1
INVARIANTS TypeOK AppliedOnce
CHECK_DEADLOCK FALSE
