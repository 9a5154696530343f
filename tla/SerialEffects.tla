---------------------------- MODULE SerialEffects -----------------------------
(***************************************************************************)
(* What the turn timeline promises about the operations that it records in *)
(* one session, whoever runs them: a turn's worker, an approval handler or *)
(* nobody.  It is a promise about the durable descriptors: a command that  *)
(* was recorded as launched in the background may run beside later ones,   *)
(* and tools that run without a descriptor are not in its reach.           *)
(*                                                                         *)
(* An operation opens at most once, only while no other is open, and never *)
(* after one was lost: an operation whose result nobody knows keeps every  *)
(* later one of the session from starting.                                 *)
(***************************************************************************)
CONSTANT Operations

VARIABLE phase

Phases == {"idle", "open", "closed", "lost"}

TypeOK == phase \in [Operations -> Phases]

Init == phase = [x \in Operations |-> "idle"]

Move(x, from, to) ==
  /\ phase[x] = from
  /\ phase' = [phase EXCEPT ![x] = to]

\* Its effect may begin now.
Open(x) ==
  /\ \A y \in Operations : phase[y] \notin {"open", "lost"}
  /\ Move(x, "idle", "open")

\* Its result is known, or it was given up before it could begin.
Close(x) == Move(x, "open", "closed")
Drop(x)  == Move(x, "idle", "closed")

\* Its result will never be known.
Lose(x) == Move(x, "open", "lost")

Next == \E x \in Operations : Open(x) \/ Close(x) \/ Drop(x) \/ Lose(x)

Spec == Init /\ [][Next]_phase
===============================================================================
