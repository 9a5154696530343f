--------------------------- MODULE OneShotApproval ---------------------------
(***************************************************************************)
(* What the approval store promises about one tool call, with no rows, no  *)
(* leases and no time: a call is run once, by whoever holds the permit     *)
(* that a grant gave out, and its turn is told the result once.            *)
(*                                                                         *)
(* phase is what an observer may be shown.  permits are the approvals that *)
(* a claimant holds the permit of: a permit may outlive the phase, because *)
(* a slow claimant is not stopped when its approval is closed over its     *)
(* head.                                                                   *)
(***************************************************************************)
EXTENDS Naturals

CONSTANT Approvals

VARIABLES phase, permits, runs, told

vars == <<phase, permits, runs, told>>

Init ==
  /\ phase \in [Approvals -> {"open", "spent", "closed"}]
  /\ runs = [a \in Approvals |-> IF phase[a] = "open" THEN 0 ELSE 1]
  /\ permits = {}
  /\ told = [a \in Approvals |-> 0]

\* The operator grants the call.
Grant(a) ==
  /\ phase[a] = "open"
  /\ phase' = [phase EXCEPT ![a] = "granted"]
  /\ UNCHANGED <<permits, runs, told>>

\* The call is refused, superseded or expired before any claim.
Refuse(a) ==
  /\ phase[a] \in {"open", "granted"}
  /\ phase' = [phase EXCEPT ![a] = "closed"]
  /\ UNCHANGED <<permits, runs, told>>

\* One claimant gets the permit of a call that never ran.
Claim(a) ==
  /\ phase[a] = "granted"
  /\ a \notin permits
  /\ runs[a] = 0
  /\ phase' = [phase EXCEPT ![a] = "spent"]
  /\ permits' = permits \cup {a}
  /\ UNCHANGED <<runs, told>>

\* The permit is used, or is lost with its holder.
Run(a) ==
  /\ a \in permits
  /\ permits' = permits \ {a}
  /\ runs' = [runs EXCEPT ![a] = @ + 1]
  /\ UNCHANGED <<phase, told>>

Lose(a) ==
  /\ a \in permits
  /\ permits' = permits \ {a}
  /\ UNCHANGED <<phase, runs, told>>

\* A claim that came to nothing may be made again.
Return(a) ==
  /\ phase[a] = "spent"
  /\ a \notin permits
  /\ runs[a] = 0
  /\ phase' = [phase EXCEPT ![a] = "granted"]
  /\ UNCHANGED <<permits, runs, told>>

Close(a) ==
  /\ phase[a] = "spent"
  /\ phase' = [phase EXCEPT ![a] = "closed"]
  /\ UNCHANGED <<permits, runs, told>>

\* The turn that asked for the call is resumed with its result.
Tell(a) ==
  /\ runs[a] = 1
  /\ told[a] = 0
  /\ told' = [told EXCEPT ![a] = 1]
  /\ UNCHANGED <<phase, permits, runs>>

Next ==
  \E a \in Approvals :
    Grant(a) \/ Refuse(a) \/ Claim(a) \/ Run(a) \/ Lose(a)
      \/ Return(a) \/ Close(a) \/ Tell(a)

Spec == Init /\ [][Next]_vars
=============================================================================
