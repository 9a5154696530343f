--------------------------- MODULE ExactlyOnceOutbox ---------------------------
(***************************************************************************)
(* What operators and settings clients are promised about the rules and    *)
(* settings of the config, with no processes, leases, files or revisions:  *)
(* every change is made to what the config is at that moment, one change   *)
(* at a time; a saved rule is applied at most once, and reported as        *)
(* delivered only if it was applied.                                       *)
(*                                                                         *)
(* A rule may be applied after its effect was given up: a slow deliverer   *)
(* is not stopped when another one gives up.                               *)
(***************************************************************************)
EXTENDS Naturals

CONSTANTS Effects, RuleOf, Malformed, Settings

VARIABLES phase, applied, rules, settings

vars == <<phase, applied, rules, settings>>

Init ==
  /\ phase = [e \in Effects |-> "absent"]
  /\ applied = [e \in Effects |-> 0]
  /\ rules = {}
  /\ settings = {}

Move(e, from, to) ==
  /\ phase[e] = from
  /\ phase' = [phase EXCEPT ![e] = to]
  /\ UNCHANGED <<applied, rules, settings>>

\* An operator saves a rule with an approval.
Ask(e) == Move(e, "absent", "queued")

\* The rule gets into the config.
Apply(e) ==
  /\ e \notin Malformed
  /\ phase[e] # "absent"
  /\ applied[e] = 0
  /\ applied' = [applied EXCEPT ![e] = 1]
  /\ rules' = rules \cup {RuleOf[e]}
  /\ UNCHANGED <<phase, settings>>

\* The operator is told how it ended.
Deliver(e) == applied[e] = 1 /\ Move(e, "queued", "delivered")
GiveUp(e)  == Move(e, "queued", "failed")

\* A client removes a rule, or switches a setting on.
Remove(r) ==
  /\ r \in rules
  /\ rules' = rules \ {r}
  /\ UNCHANGED <<phase, applied, settings>>

SwitchOn(s) ==
  /\ settings' = settings \cup {s}
  /\ UNCHANGED <<phase, applied, rules>>

Next ==
  \/ \E e \in Effects : Ask(e) \/ Apply(e) \/ Deliver(e) \/ GiveUp(e)
  \/ \E r \in rules : Remove(r)
  \/ \E s \in Settings : SwitchOn(s)

Spec == Init /\ [][Next]_vars
===============================================================================
