------------------------------ MODULE MCRuleOutbox -----------------------------
(***************************************************************************)
(* TLC's instances of RuleOutbox.                                          *)
(***************************************************************************)
EXTENDS RuleOutbox, TLC

CONSTANTS allow, deny, here, there, loop, pass, other

\* The approvals save two rules; the third payload is malformed.
OneRule == 1 :> allow
TwoRules == 1 :> allow @@ 2 :> deny
ThreeRules == 1 :> allow @@ 2 :> deny @@ 3 :> allow

\* The loop and an operator's pass share the process; another process has its
\* own loop.
OneProcess == loop :> here @@ pass :> here
TwoProcesses == loop :> here @@ other :> there
OtherProcess == other :> there
===============================================================================
