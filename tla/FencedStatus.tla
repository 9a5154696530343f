----------------------------- MODULE FencedStatus -----------------------------
(***************************************************************************)
(* What the ownership lease promises the status of an agent run (the       *)
(* docstring of RuntimeStore.acquire_agent_run_lease, store.py:3092): one  *)
(* runtime owns the run at a time, ownership is never taken from a live    *)
(* owner, each grant has an epoch of its own, and only the owner changes   *)
(* the status - except that resuming an idle run makes it run.             *)
(***************************************************************************)
EXTENDS Naturals

CONSTANTS Owners, Nobody, Statuses, Idle, Running
VARIABLES status, owner, epoch

Init == status \in Statuses /\ owner = Nobody /\ epoch = 0

Grant(o) == /\ owner = Nobody
            /\ owner' = o /\ epoch' = epoch + 1
            /\ UNCHANGED status
Lose     == owner' = Nobody /\ UNCHANGED <<status, epoch>>
Change   == /\ owner # Nobody
            /\ status' \in Statuses
            /\ UNCHANGED <<owner, epoch>>
Resume   == /\ status \in Idle /\ status' = Running
            /\ UNCHANGED <<owner, epoch>>

Next == (\E o \in Owners : Grant(o)) \/ Lose \/ Change \/ Resume
Spec == Init /\ [][Next]_<<status, owner, epoch>>
===============================================================================
