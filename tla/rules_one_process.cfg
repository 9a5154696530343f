\* One process that may crash once: its loop, an operator's pass and a settings
\* client.  One of two rows is malformed.  Rows may never be enqueued, so the
\* system may stop.
SPECIFICATION FairSpec
CONSTANTS
  allow = allow
  deny = deny
  here = here
  there = there
  loop = loop
  pass = pass
  other = other
  Effects = {1, 2}
  Rules = {allow, deny}
  RuleOf <- TwoRules
  Malformed = {2}
  Processes = {here}
  NoProcess = NoProcess
  Deliveries = {loop, pass}
  Loops = {loop}
  ProcessOf <- OneProcess
  Editors = {here}
  Settings = {voice}
  MaxAttempts = 2
  Rounds = 2
  LeaseTime = 1
  RetryTime = 1
  IdLimit = 2
  LoopMayDie = FALSE
  MaxClaims = 8
  MaxCrashes = 1
INVARIANTS NoLostUpdate RemovedStaysRemoved
PROPERTIES KeepsPromise EffectSettles
CHECK_DEADLOCK FALSE
