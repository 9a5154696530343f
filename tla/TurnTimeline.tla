----------------------------- MODULE TurnTimeline -----------------------------
(***************************************************************************)
(* The turns of one chat session: SessionTurnTimelineRepository            *)
(* (src/mochi/sessions/turn_timeline.py), the TimelineCoordinator that     *)
(* each turn's worker drives (timeline_coordinator.py), and the callers    *)
(* that run tools, cancel runs and execute approved operations.            *)
(*                                                                         *)
(* Every repository operation is one compare-and-swap on the session's     *)
(* durable history, retried by _mutate when it must rebase, and so one     *)
(* action.  What a worker keeps in memory is updated after the write       *)
(* returns, in a later action: a cancellation or a crash may step between. *)
(*                                                                         *)
(* A turn has one worker, which is named by it: owner and token of the     *)
(* lane and of the admission are drawn per coordinator and determined by   *)
(* the turn.  The two leases are booleans that may lapse.  An operation is *)
(* the turn and the number of the tool call that asked for it.             *)
(***************************************************************************)
EXTENDS Naturals

CONSTANTS
  Turns,       \* chat turns of the session
  NoTurn,      \* the lane of nobody
  MaxCalls,    \* bound: side-effecting tool calls of one turn
  Approvable,  \* turns whose tool calls may need an approval
  MayCrash,    \* may the process of a worker or a handler die?
  MayLapse,    \* may the lease of a live worker lapse (starved heartbeat)?
  MayCancel    \* may a user cancel a turn?

ASSUME ConstantsAssumption ==
  /\ NoTurn \notin Turns
  /\ MaxCalls \in Nat \ {0}
  /\ Approvable \subseteq Turns
  /\ MayCrash \in BOOLEAN
  /\ MayLapse \in BOOLEAN
  /\ MayCancel \in BOOLEAN

Calls == 1..MaxCalls
Operations == Turns \X Calls

VARIABLES
  admitted,    \* len(timeline.turns)
  seqno,       \* TimelineTurn.sequence, 0 before the turn is admitted
  state,       \* TimelineTurn.status
  outcome,     \* terminal_outcome
  admission,   \* is the admission lease of the queued turn live?
  lane,        \* lane_turn_id
  leaseLive,   \* is the lane lease live?
  boundary,    \* side_effect_boundary
  op,          \* OperationDescriptor.status ("none": no descriptor)
  pendingEvent,\* was the turn's approval interrupt persisted?
  pc,          \* where the worker stands
  flags,       \* _cancel_requested, _unstarted_blocked, _unknown_operation,
               \* and the engine's "this turn failed"
  current,     \* _current_operation_id, 0 for None
  calls,       \* side-effecting tool calls made so far
  canceller,   \* where request_cancel stands
  approval,    \* the turn's approval and the handler that executes it
  ask,         \* the call that asked for it
  sweep,       \* the recovery of a stale consume lease
  starts,      \* ghost: times the effect of an operation physically began
  flying,      \* ghost: effects that have begun and not ended, but for ...
  background   \* ghost: ... the processes of commands that run in the background

queueVars    == <<admitted, seqno, state, outcome, admission>>
laneVars     == <<lane, leaseLive>>
opVars       == <<boundary, op, pendingEvent>>
timelineVars == <<queueVars, laneVars, opVars>>
workerVars   == <<pc, flags, current, calls>>
approvalVars == <<approval, ask, sweep>>
ghostVars    == <<starts, flying, background>>
vars == <<timelineVars, workerVars, canceller, approvalVars, ghostVars>>

-----------------------------------------------------------------------------
Known    == {"succeeded", "failed"}
Resolved == Known \cup {"abandoned"}
Hot      == {"started", "unknown"}
OpStatuses == {"none", "precommitted"} \cup Resolved \cup Hot

Outcomes == {"completed", "cancelled", "blocked", "unknown"}
Flags    == {"cancel", "blocked", "unknown", "failed"}

\* Inside the tool call: from its precommit to its recorded result.
InCall == {"bound", "dropping", "asked", "marked", "effect", "in", "ran", "detached", "raised",
           "stored"}
\* The model or a tool is at work for the turn.
AtWork == {"working"} \cup InCall
Gone   == {"done", "failed", "crashed"}
Locations == {"new", "waiting", "trying", "claiming", "reading", "ending"}
             \cup AtWork \cup Gone

\* From the consumption of a grant to its recorded result.
Handling  == {"claimed", "failing", "effect", "in", "ran", "detached", "dead"}
Approvals == {"none", "pending", "closing", "resumed", "over"} \cup Handling

TypeOK ==
  /\ admitted \in Nat
  /\ seqno \in [Turns -> Nat]
  /\ state \in [Turns -> {"absent", "queued", "running", "terminal"}]
  /\ outcome \in [Turns -> Outcomes \cup {"none"}]
  /\ admission \in [Turns -> BOOLEAN]
  /\ lane \in Turns \cup {NoTurn}
  /\ leaseLive \in BOOLEAN
  /\ boundary \in [Turns -> {"not_started", "started", "unknown"}]
  /\ op \in [Operations -> OpStatuses]
  /\ pendingEvent \in [Turns -> BOOLEAN]
  /\ pc \in [Turns -> Locations]
  /\ flags \in [Turns -> SUBSET Flags]
  /\ current \in [Turns -> 0..MaxCalls]
  /\ calls \in [Turns -> 0..MaxCalls]
  /\ canceller \in [Turns -> {"idle", "loaded", "returned", "spent"}]
  /\ approval \in [Turns -> Approvals]
  /\ ask \in [Turns -> 0..MaxCalls]
  /\ sweep \in [Turns -> {"idle", "begun", "over"}]
  /\ starts \in [Operations -> Nat]
  /\ flying \subseteq Operations
  /\ background \subseteq Operations

Init ==
  /\ admitted = 0
  /\ seqno = [t \in Turns |-> 0]
  /\ state = [t \in Turns |-> "absent"]
  /\ outcome = [t \in Turns |-> "none"]
  /\ admission = [t \in Turns |-> FALSE]
  /\ lane = NoTurn
  /\ leaseLive = FALSE
  /\ boundary = [t \in Turns |-> "not_started"]
  /\ op = [x \in Operations |-> "none"]
  /\ pendingEvent = [t \in Turns |-> FALSE]
  /\ pc = [t \in Turns |-> "new"]
  /\ flags = [t \in Turns |-> {}]
  /\ current = [t \in Turns |-> 0]
  /\ calls = [t \in Turns |-> 0]
  /\ canceller = [t \in Turns |-> "idle"]
  /\ approval = [t \in Turns |-> "none"]
  /\ ask = [t \in Turns |-> 0]
  /\ sweep = [t \in Turns |-> "idle"]
  /\ starts = [x \in Operations |-> 0]
  /\ flying = {}
  /\ background = {}

-----------------------------------------------------------------------------
(* The durable timeline: what the repository reads and writes.             *)

Statuses(t) == {op[<<t, i>>] : i \in Calls}

Has(t, set) == Statuses(t) \cap set # {}

\* Mutant: any queued turn may claim the lane.
IsHead_Any(t) == state[t] = "queued"

\* The first queued turn.
IsHead(t) ==
  /\ state[t] = "queued"
  /\ \A u \in Turns : state[u] = "queued" => seqno[t] <= seqno[u]

\* _lease_status is None: the lane is the worker's own and its lease is live.
LeaseOk(t) == lane = t /\ leaseLive

\* An effect of unknown result quarantines the session.
Quarantined ==
  \E u \in Turns : \/ boundary[u] = "unknown"
                   \/ outcome[u] = "unknown"
                   \/ Has(u, {"unknown"})

\* An earlier turn waits for an approval, or for its approved operation to end.
ContinuationPending(t) ==
  \E u \in Turns : /\ seqno[u] < seqno[t]
                   /\ outcome[u] = "blocked"
                   /\ Has(u, {"precommitted", "started"})

SetOp(x, s) == op' = [op EXCEPT ![x] = s]

\* Mutant: an interrupted effect is recorded as failed.
RecordResult_Failed(x, s) ==
  /\ SetOp(x, IF s = "unknown" THEN "failed" ELSE s)
  /\ UNCHANGED <<boundary, pendingEvent>>

\* "unknown" is carried to the turn's boundary, a known result is not.
RecordResult(x, s) ==
  /\ SetOp(x, s)
  /\ boundary' = IF s = "unknown" THEN [boundary EXCEPT ![x[1]] = s] ELSE boundary
  /\ UNCHANGED pendingEvent

\* Mutant: a turn that did not complete ends with the engine's word for it.
Terminate_Failed(t, o) ==
  /\ state' = [state EXCEPT ![t] = "terminal"]
  /\ outcome' = [outcome EXCEPT ![t] = IF o = "blocked" THEN "failed" ELSE o]
  /\ admission' = [admission EXCEPT ![t] = FALSE]
  /\ UNCHANGED <<admitted, seqno>>

Terminate(t, o) ==
  /\ state' = [state EXCEPT ![t] = "terminal"]
  /\ outcome' = [outcome EXCEPT ![t] = o]
  /\ admission' = [admission EXCEPT ![t] = FALSE]
  /\ UNCHANGED <<admitted, seqno>>

ReleaseLane ==
  /\ lane' = NoTurn
  /\ leaseLive' = FALSE

-----------------------------------------------------------------------------
(* The worker of a turn, up to its first tool call.                        *)

GoTo(t, l) ==
  /\ pc' = [pc EXCEPT ![t] = l]
  /\ UNCHANGED <<flags, current, calls>>

Raise(t, f) == flags' = [flags EXCEPT ![t] = @ \cup {f}]

\* An exception reaches the engine, which finishes the turn as failed.
Fail(t) ==
  /\ pc' = [pc EXCEPT ![t] = "ending"]
  /\ Raise(t, "failed")
  /\ UNCHANGED <<current, calls>>

\* admit_user_message: the turn is appended with a live admission.
Admit(t) ==
  /\ pc[t] = "new"
  /\ GoTo(t, "waiting")
  /\ admitted' = admitted + 1
  /\ seqno' = [seqno EXCEPT ![t] = admitted + 1]
  /\ state' = [state EXCEPT ![t] = "queued"]
  /\ admission' = [admission EXCEPT ![t] = TRUE]
  /\ UNCHANGED <<outcome, laneVars, opVars, canceller, approvalVars, ghostVars>>

\* The top of the claim loop found no cancellation, and the turn at the head
\* of a free lane.
TryClaim(t) ==
  /\ pc[t] = "waiting"
  /\ "cancel" \notin flags[t]
  /\ IsHead(t) /\ lane = NoTurn /\ admission[t]
  /\ GoTo(t, "trying")
  /\ UNCHANGED <<timelineVars, canceller, approvalVars, ghostVars>>

\* claim_next.
Claim(t) ==
  /\ pc[t] = "trying"
  /\ IF lane = NoTurn /\ IsHead(t) /\ admission[t]
       THEN /\ lane' = t
            /\ leaseLive' = TRUE
            /\ state' = [state EXCEPT ![t] = "running"]
            /\ admission' = [admission EXCEPT ![t] = FALSE]
            /\ GoTo(t, "claiming")
       ELSE /\ GoTo(t, "waiting")
            /\ UNCHANGED <<lane, leaseLive, state, admission>>
  /\ UNCHANGED <<admitted, seqno, outcome, opVars, canceller, approvalVars, ghostVars>>

\* The claim loop ends: cancelled in memory, or terminal on disk.  finish() of
\* a coordinator that claimed nothing writes nothing.
GiveUp(t) ==
  /\ pc[t] = "waiting"
  /\ "cancel" \in flags[t] \/ state[t] = "terminal"
  /\ GoTo(t, "done")
  /\ UNCHANGED <<timelineVars, canceller, approvalVars, ghostVars>>

\* _claimed = True.
NoteClaim(t) ==
  /\ pc[t] = "claiming"
  /\ GoTo(t, "reading")
  /\ UNCHANGED <<timelineVars, canceller, approvalVars, ghostVars>>

\* linearized_history_events: the turn must be running still.
ReadHistory(t) ==
  /\ pc[t] = "reading"
  /\ IF state[t] = "running" THEN GoTo(t, "working") ELSE Fail(t)
  /\ UNCHANGED <<timelineVars, canceller, approvalVars, ghostVars>>

Claimed(t) == pc[t] \in {"reading", "ending"} \cup AtWork

\* renew_lease finds the lane lost; a renewal that succeeds changes nothing here.
HeartbeatFails(t) ==
  /\ pc[t] \in AtWork
  /\ ~LeaseOk(t)
  /\ "cancel" \notin flags[t]
  /\ Raise(t, "cancel")
  /\ UNCHANGED <<pc, current, calls, timelineVars, canceller, approvalVars, ghostVars>>

-----------------------------------------------------------------------------
(* A tool call of the worker.                                              *)

\* Mutants: the quarantine, or the pending continuations, are not looked at.
MayPrecommit_NoQuarantine(t) ==
  /\ flags[t] \cap {"cancel", "blocked", "unknown"} = {}
  /\ LeaseOk(t)
  /\ ~ContinuationPending(t)
  /\ Statuses(t) \subseteq Resolved \cup {"none"}

MayPrecommit_NoContinuation(t) ==
  /\ flags[t] \cap {"cancel", "blocked", "unknown"} = {}
  /\ LeaseOk(t)
  /\ ~Quarantined
  /\ Statuses(t) \subseteq Resolved \cup {"none"}

MayPrecommit(t) ==
  /\ flags[t] \cap {"cancel", "blocked", "unknown"} = {}
  /\ LeaseOk(t)
  /\ ~Quarantined
  /\ ~ContinuationPending(t)
  /\ Statuses(t) \subseteq Resolved \cup {"none"}

\* precommit_mutation, with the registry's answer to a refusal.
Precommit(t) ==
  LET c == calls[t] + 1 IN
  /\ pc[t] = "working"
  /\ c \in Calls
  /\ calls' = [calls EXCEPT ![t] = c]
  /\ IF MayPrecommit(t)
       THEN /\ SetOp(<<t, c>>, "precommitted")
            /\ pc' = [pc EXCEPT ![t] = "bound"]
            /\ UNCHANGED flags
       ELSE /\ Raise(t, "failed")
            /\ UNCHANGED <<op, pc>>
  /\ UNCHANGED <<queueVars, laneVars, boundary, pendingEvent, current,
                 canceller, approvalVars, ghostVars>>

\* block_unstarted_turn: the registry refuses a tool that cannot be tracked.
RefuseTool(t) ==
  /\ pc[t] = "working"
  /\ flags' = [flags EXCEPT ![t] = @ \cup {"blocked", "failed"}]
  /\ UNCHANGED <<pc, current, calls, timelineVars, canceller, approvalVars, ghostVars>>

MayStart(t) ==
  LET x == <<t, calls[t]>> IN
  /\ flags[t] \cap {"cancel", "blocked"} = {}
  /\ LeaseOk(t)
  /\ boundary[t] # "unknown"
  /\ op[x] = "precommitted"
  /\ \A y \in Operations : y[1] = t /\ y # x => op[y] \in Resolved \cup {"none"}

\* mark_mutation_started, durable part.  Refused, the tool stops before its
\* effect.
MarkStarted(t) ==
  /\ pc[t] = "bound"
  /\ IF MayStart(t)
       THEN /\ SetOp(<<t, calls[t]>>, "started")
            /\ boundary' = [boundary EXCEPT ![t] = "started"]
            /\ GoTo(t, "marked")
       ELSE /\ GoTo(t, "dropping")
            /\ UNCHANGED <<op, boundary>>
  /\ UNCHANGED <<queueVars, laneVars, pendingEvent, canceller, approvalVars, ghostVars>>

\* The tool stops short of its effect on its own.
StopShort(t) ==
  /\ pc[t] = "bound"
  /\ GoTo(t, "dropping")
  /\ UNCHANGED <<timelineVars, canceller, approvalVars, ghostVars>>

\* abandon_pre_effect_operation: the turn goes on, to end as blocked.
Abandon(t) ==
  /\ pc[t] = "dropping"
  /\ IF LeaseOk(t) /\ op[<<t, calls[t]>>] = "precommitted"
       THEN /\ SetOp(<<t, calls[t]>>, "abandoned")
            /\ pc' = [pc EXCEPT ![t] = "working"]
            /\ Raise(t, "failed")
            /\ UNCHANGED <<current, calls>>
       ELSE /\ Fail(t)
            /\ UNCHANGED op
  /\ UNCHANGED <<queueVars, laneVars, boundary, pendingEvent,
                 canceller, approvalVars, ghostVars>>

\* The tool stores an approval request, which a user may decide from now on,
\* and the registry blocks the turn.
AskApproval(t) ==
  /\ pc[t] = "bound"
  /\ t \in Approvable
  /\ approval' = [approval EXCEPT ![t] = "pending"]
  /\ ask' = [ask EXCEPT ![t] = calls[t]]
  /\ pc' = [pc EXCEPT ![t] = "asked"]
  /\ Raise(t, "blocked")
  /\ UNCHANGED <<current, calls, timelineVars, canceller, sweep, ghostVars>>

\* persist_approval_pending.
PersistPending(t) ==
  /\ pc[t] = "asked"
  /\ IF LeaseOk(t) /\ op[<<t, ask[t]>>] = "precommitted"
       THEN /\ pendingEvent' = [pendingEvent EXCEPT ![t] = TRUE]
            /\ GoTo(t, "working")
       ELSE /\ Fail(t)
            /\ UNCHANGED pendingEvent
  /\ UNCHANGED <<queueVars, laneVars, boundary, op, canceller, approvalVars, ghostVars>>

\* _current_operation_id is set once the write has returned.
NoteStarted(t) ==
  /\ pc[t] = "marked"
  /\ pc' = [pc EXCEPT ![t] = "effect"]
  /\ current' = [current EXCEPT ![t] = calls[t]]
  /\ UNCHANGED <<flags, calls, timelineVars, canceller, approvalVars, ghostVars>>

TakeOff(x) ==
  /\ starts' = [starts EXCEPT ![x] = @ + 1]
  /\ flying' = flying \cup {x}
  /\ UNCHANGED background

Land(x) ==
  /\ flying' = flying \ {x}
  /\ background' = background \ {x}
  /\ UNCHANGED starts

\* A command started in the background: its process runs on when the call returns.
Detach(x) ==
  /\ flying' = flying \ {x}
  /\ background' = background \cup {x}
  /\ UNCHANGED starts

\* The tool performs its effect, or fails before it.
BeginEffect(t) ==
  /\ pc[t] = "effect"
  /\ \/ GoTo(t, "in") /\ TakeOff(<<t, calls[t]>>)
     \/ GoTo(t, "ran") /\ UNCHANGED ghostVars
  /\ UNCHANGED <<timelineVars, canceller, approvalVars>>

\* Mutant: a tool that failed is run again.
EndEffect_Retry(t) ==
  /\ pc[t] = "in"
  /\ GoTo(t, "ran") \/ GoTo(t, "effect")
  /\ Land(<<t, calls[t]>>)
  /\ UNCHANGED <<timelineVars, canceller, approvalVars>>

\* The call returns with its effect ended, or with its process in the background,
\* or it raises and the effect may go on.
EndEffect(t) ==
  LET x == <<t, calls[t]>> IN
  /\ pc[t] = "in"
  /\ \/ GoTo(t, "ran") /\ Land(x)
     \/ GoTo(t, "detached") /\ Detach(x)
     \/ GoTo(t, "raised") /\ UNCHANGED ghostVars
  /\ UNCHANGED <<timelineVars, canceller, approvalVars>>

\* The dispositions of what a call returned: a command that runs in the background
\* has succeeded.
Reports == [ran      |-> Known \cup {"unknown"},
            detached |-> {"succeeded"},
            raised   |-> {"unknown"}]

Returned == DOMAIN Reports

\* persist_tool_result, durable part.
PersistResult(t) ==
  LET x == <<t, calls[t]>> IN
  /\ pc[t] \in Returned
  /\ IF LeaseOk(t) /\ op[x] = "started" /\ boundary[t] # "unknown"
       THEN /\ \E s \in Reports[pc[t]] : RecordResult(x, s)
            /\ GoTo(t, "stored")
       ELSE /\ Fail(t)
            /\ UNCHANGED opVars
  /\ UNCHANGED <<queueVars, laneVars, canceller, approvalVars, ghostVars>>

\* Its memory.
NoteResult(t) ==
  /\ pc[t] = "stored"
  /\ pc' = [pc EXCEPT ![t] = "working"]
  /\ current' = [current EXCEPT ![t] = 0]
  /\ IF op[<<t, calls[t]>>] = "unknown" THEN Raise(t, "unknown") ELSE UNCHANGED flags
  /\ UNCHANGED <<calls, timelineVars, canceller, approvalVars, ghostVars>>

-----------------------------------------------------------------------------
(* finish().                                                               *)

\* The invocation returned or raised.
StopWorking(t) ==
  /\ pc[t] = "working"
  /\ GoTo(t, "ending") \/ Fail(t)
  /\ UNCHANGED <<timelineVars, canceller, approvalVars, ghostVars>>

\* _mark_current_unknown: idempotent where "unknown" is recorded already.
QuarantineCurrent(t) ==
  LET x == <<t, current[t]>> IN
  /\ pc[t] = "ending"
  /\ current[t] # 0
  /\ IF LeaseOk(t) /\ op[x] \in Hot
       THEN /\ RecordResult(x, "unknown")
            /\ current' = [current EXCEPT ![t] = 0]
            /\ Raise(t, "unknown")
            /\ UNCHANGED <<pc, calls>>
       ELSE /\ GoTo(t, "failed")
            /\ UNCHANGED opVars
  /\ UNCHANGED <<queueVars, laneVars, canceller, approvalVars, ghostVars>>

Verdict(t) ==
  IF "unknown" \in flags[t] THEN "unknown"
  ELSE IF "cancel" \in flags[t] THEN "cancelled"
  ELSE IF flags[t] \cap {"blocked", "failed"} # {} THEN "blocked"
  ELSE "completed"

\* The statuses that an outcome may not conceal.
Concealed == [completed |-> {"precommitted", "started", "unknown"},
              cancelled |-> {"started", "unknown"},
              blocked   |-> {"started", "unknown"},
              unknown   |-> {"precommitted", "started"}]

MayEnd(t, o) ==
  /\ LeaseOk(t)
  /\ ~Has(t, Concealed[o])
  /\ o = "unknown" => Has(t, {"unknown"})

\* terminal() and cancel(): the only writes of a worker that release its lane.
Finish(t) ==
  /\ pc[t] = "ending"
  /\ current[t] = 0
  /\ IF MayEnd(t, Verdict(t))
       THEN /\ Terminate(t, Verdict(t))
            /\ ReleaseLane
            /\ GoTo(t, "done")
       ELSE /\ GoTo(t, "failed")
            /\ UNCHANGED <<queueVars, laneVars>>
  /\ UNCHANGED <<opVars, canceller, approvalVars, ghostVars>>

-----------------------------------------------------------------------------
(* Cancellation by a user.                                                 *)

\* request_cancel raises the flag and loads the timeline.  A turn that it saw
\* running is left to its worker.
RequestCancel(t) ==
  /\ MayCancel
  /\ canceller[t] = "idle"
  /\ pc[t] \notin {"new"} \cup Gone
  /\ Raise(t, "cancel")
  /\ canceller' = [canceller EXCEPT ![t] =
                     IF state[t] = "running" THEN "returned" ELSE "loaded"]
  /\ UNCHANGED <<pc, current, calls, timelineVars, approvalVars, ghostVars>>

\* cancel(), on the state it finds when its turn to write comes.
CancelTurn(t) ==
  /\ canceller[t] = "loaded"
  /\ pc[t] # "crashed"
  /\ canceller' = [canceller EXCEPT ![t] = "returned"]
  /\ \/ /\ state[t] = "queued"
        /\ Terminate(t, "cancelled")
        /\ UNCHANGED laneVars
     \/ /\ state[t] = "running"
        /\ Claimed(t) /\ MayEnd(t, "cancelled")
        /\ Terminate(t, "cancelled")
        /\ ReleaseLane
     \/ /\ state[t] # "queued"
        /\ ~(state[t] = "running" /\ Claimed(t) /\ MayEnd(t, "cancelled"))
        /\ UNCHANGED <<queueVars, laneVars>>
  /\ UNCHANGED <<opVars, workerVars, approvalVars, ghostVars>>

\* request_run_cancel then cancels the worker's task at whatever it awaits; a
\* durable write in progress has happened or not.  finish() follows.
Interrupt(t) ==
  /\ canceller[t] = "returned"
  /\ canceller' = [canceller EXCEPT ![t] = "spent"]
  /\ \/ /\ pc[t] \in {"reading"} \cup AtWork
        /\ GoTo(t, "ending")
     \/ /\ pc[t] \in {"waiting", "trying", "claiming"}
        /\ GoTo(t, "done")
  /\ UNCHANGED <<timelineVars, approvalVars, ghostVars>>

-----------------------------------------------------------------------------
(* Recovery by a worker w that waits for its claim.                        *)

Waits(w) == pc[w] = "waiting" /\ state[w] = "queued" /\ "cancel" \notin flags[w]

\* Mutant: a worker recovers its own admission only.
RecoverAdmission_Own(w, t) ==
  /\ w = t
  /\ Waits(w)
  /\ lane = NoTurn
  /\ IsHead(t)
  /\ ~admission[t]
  /\ Terminate(t, "cancelled")
  /\ UNCHANGED <<laneVars, opVars, workerVars, canceller, approvalVars, ghostVars>>

\* recover_expired_queued_admission: only of the head, and of a free lane.
RecoverAdmission(w, t) ==
  /\ Waits(w)
  /\ lane = NoTurn
  /\ IsHead(t)
  /\ ~admission[t]
  /\ Terminate(t, "cancelled")
  /\ UNCHANGED <<laneVars, opVars, workerVars, canceller, approvalVars, ghostVars>>

\* Mutant: the expiry of the lease is not waited for.
StaleLane_AnyLease(t) == lane = t /\ state[t] = "running"

StaleLane(t) == lane = t /\ ~leaseLive /\ state[t] = "running"

\* Mutant: only an unknown result counts as begun.
UnstartedIsProved_NotUnknown(t) ==
  /\ boundary[t] # "unknown"
  /\ Statuses(t) \subseteq {"none", "precommitted", "started"}

\* recover_stale_unstarted_turn.  A persisted approval interrupt keeps the turn
\* open for its approval.
UnstartedIsProved(t) ==
  /\ boundary[t] = "not_started"
  /\ Statuses(t) \subseteq {"none", "precommitted"}

RecoverUnstarted(w, t) ==
  /\ Waits(w)
  /\ StaleLane(t)
  /\ UnstartedIsProved(t)
  /\ Terminate(t, IF pendingEvent[t] THEN "blocked" ELSE "cancelled")
  /\ ReleaseLane
  /\ UNCHANGED <<opVars, workerVars, canceller, approvalVars, ghostVars>>

\* recover_stale_started_operation.
RecoverStarted(w, t) ==
  /\ Waits(w)
  /\ StaleLane(t)
  /\ Has(t, {"started"})
  /\ op' = [x \in Operations |->
              IF x[1] = t /\ op[x] = "started" THEN "unknown" ELSE op[x]]
  /\ boundary' = [boundary EXCEPT ![t] = "unknown"]
  /\ Terminate(t, "unknown")
  /\ ReleaseLane
  /\ UNCHANGED <<pendingEvent, workerVars, canceller, approvalVars, ghostVars>>

\* The stale lanes that neither recovery accepts.
Wedged(t) == StaleLane(t) /\ ~UnstartedIsProved(t) /\ ~Has(t, {"started"})

-----------------------------------------------------------------------------
(* The approval of a call, decided and executed after its turn paused.     *)

Asked(t) == <<t, ask[t]>>

\* The blocked terminal turn that every continuation operation asks for.
Paused(t) == state[t] = "terminal" /\ outcome[t] = "blocked"

Handler(t, l) ==
  /\ approval' = [approval EXCEPT ![t] = l]
  /\ UNCHANGED <<ask, sweep>>

\* The user decides: a grant is consumed, once, by the handler; a refusal, an
\* expiry or a drifted checkpoint is stored and the operation given up next.
Decide(t) ==
  /\ approval[t] = "pending"
  /\ Handler(t, "claimed") \/ Handler(t, "closing")
  /\ UNCHANGED <<timelineVars, workerVars, canceller, ghostVars>>

\* mark_terminal_precommitted_operation_started, by
\* begin_ordinary_chat_approval_operation.
BeginContinuation(t) ==
  /\ approval[t] = "claimed"
  /\ IF Paused(t) /\ op[Asked(t)] = "precommitted"
       THEN SetOp(Asked(t), "started") /\ Handler(t, "effect")
       ELSE Handler(t, "failing") /\ UNCHANGED op
  /\ UNCHANGED <<queueVars, laneVars, boundary, pendingEvent, workerVars,
                 canceller, ghostVars>>

\* abandon_terminal_precommitted_operation, of a refusal or of a failed begin.
AbandonContinuation(t) ==
  /\ approval[t] \in {"closing", "failing"}
  /\ Handler(t, "over")
  /\ IF Paused(t) /\ op[Asked(t)] = "precommitted"
       THEN SetOp(Asked(t), "abandoned")
       ELSE UNCHANGED op
  /\ UNCHANGED <<queueVars, laneVars, boundary, pendingEvent, workerVars,
                 canceller, ghostVars>>

\* _execute_approved_standalone_request.
BeginApproved(t) ==
  /\ approval[t] = "effect"
  /\ \/ Handler(t, "in") /\ TakeOff(Asked(t))
     \/ Handler(t, "ran") /\ UNCHANGED ghostVars
  /\ UNCHANGED <<timelineVars, workerVars, canceller>>

EndApproved(t) ==
  /\ approval[t] = "in"
  /\ \/ Handler(t, "ran") /\ Land(Asked(t))
     \/ Handler(t, "detached") /\ Detach(Asked(t))
  /\ UNCHANGED <<timelineVars, workerVars, canceller>>

\* The handler is cancelled, or the call raises: what became of the effect is not
\* known, and it may go on.
InterruptApproved(t) ==
  /\ approval[t] \in {"effect", "in"}
  /\ Handler(t, "over")
  /\ IF Paused(t) /\ op[Asked(t)] = "started"
       THEN RecordResult(Asked(t), "unknown")
       ELSE UNCHANGED opVars
  /\ UNCHANGED <<queueVars, laneVars, workerVars, canceller, ghostVars>>

\* Mutant: a late result is written over what the sweep recorded.
RecordContinuation_Late(t) ==
  /\ approval[t] \in {"ran", "detached"}
  /\ IF Paused(t)
       THEN \E s \in Reports[approval[t]] :
              /\ RecordResult(Asked(t), s)
              /\ Handler(t, IF s = "succeeded" THEN "resumed" ELSE "over")
       ELSE Handler(t, "over") /\ UNCHANGED opVars
  /\ UNCHANGED <<queueVars, laneVars, workerVars, canceller, ghostVars>>

\* record_terminal_continuation_result.  After a success the handler resumes the
\* ReAct loop; refused, the record raises and the loop is not entered.
RecordContinuation(t) ==
  /\ approval[t] \in {"ran", "detached"}
  /\ IF Paused(t) /\ op[Asked(t)] = "started"
       THEN \E s \in Reports[approval[t]] :
              /\ RecordResult(Asked(t), s)
              /\ Handler(t, IF s = "succeeded" THEN "resumed" ELSE "over")
       ELSE Handler(t, "over") /\ UNCHANGED opVars
  /\ UNCHANGED <<queueVars, laneVars, workerVars, canceller, ghostVars>>

\* _resume_ordinary_chat_approval_react_loop, by the handler or, when an operator
\* took the grant of a dead handler for applied, by the dispatcher.  The loop runs
\* tools, but no timeline lifecycle goes with it: they are neither precommitted
\* nor marked nor recorded, they leave the timeline as it is, and their effects
\* are not among those counted here.
Redispatch(t) ==
  /\ approval[t] = "dead"
  /\ sweep[t] # "idle"
  /\ Handler(t, "resumed")
  /\ UNCHANGED <<timelineVars, workerVars, canceller, ghostVars>>

LeaveLoop(t) ==
  /\ approval[t] = "resumed"
  /\ Handler(t, "over")
  /\ UNCHANGED <<timelineVars, workerVars, canceller, ghostVars>>

\* _record_stale_ordinary_chat_operation_unknown: the consume lease elapsed with
\* no result.  First the boundary is crossed, if it was not ...
SweepStarts(t) ==
  /\ approval[t] \in Handling
  /\ approval[t] = "dead" \/ MayLapse
  /\ sweep[t] = "idle"
  /\ sweep' = [sweep EXCEPT ![t] = "begun"]
  /\ IF Paused(t) /\ op[Asked(t)] = "precommitted"
       THEN SetOp(Asked(t), "started")
       ELSE UNCHANGED op
  /\ UNCHANGED <<approval, ask, queueVars, laneVars, boundary, pendingEvent,
                 workerVars, canceller, ghostVars>>

\* ... and then the result is unknown.
SweepRecords(t) ==
  /\ sweep[t] = "begun"
  /\ sweep' = [sweep EXCEPT ![t] = "over"]
  /\ IF Paused(t) /\ op[Asked(t)] = "started"
       THEN RecordResult(Asked(t), "unknown")
       ELSE UNCHANGED opVars
  /\ UNCHANGED <<approval, ask, queueVars, laneVars, workerVars, canceller, ghostVars>>

-----------------------------------------------------------------------------
(* The environment.                                                        *)

\* A process dies with what its memory held.
WorkerCrash(t) ==
  /\ MayCrash
  /\ pc[t] \notin {"new"} \cup Gone
  /\ GoTo(t, "crashed")
  /\ UNCHANGED <<timelineVars, canceller, approvalVars, ghostVars>>

HandlerCrash(t) ==
  /\ MayCrash
  /\ \/ approval[t] \in Handling \ {"dead"} /\ Handler(t, "dead")
     \/ approval[t] \in {"closing", "resumed"} /\ Handler(t, "over")
  /\ UNCHANGED <<timelineVars, workerVars, canceller, ghostVars>>

SweepCrash(t) ==
  /\ MayCrash
  /\ sweep[t] = "begun"
  /\ sweep' = [sweep EXCEPT ![t] = "over"]
  /\ UNCHANGED <<approval, ask, timelineVars, workerVars, canceller, ghostVars>>

\* Leases of the dead expire; those of the living may lapse.
AdmissionExpires(t) ==
  /\ admission[t]
  /\ pc[t] \in Gone \/ MayLapse
  /\ admission' = [admission EXCEPT ![t] = FALSE]
  /\ UNCHANGED <<admitted, seqno, state, outcome, laneVars, opVars, workerVars, canceller,
                 approvalVars, ghostVars>>

LeaseExpires(t) ==
  /\ LeaseOk(t)
  /\ pc[t] \in Gone \/ MayLapse
  /\ leaseLive' = FALSE
  /\ UNCHANGED <<lane, queueVars, opVars, workerVars, canceller, approvalVars, ghostVars>>

\* An effect outlives the call that began it, and ends.
OrphanLands(x) ==
  /\ \/ x \in background
     \/ /\ x \in flying
        /\ ~(pc[x[1]] = "in" /\ calls[x[1]] = x[2])
        /\ ~(approval[x[1]] = "in" /\ ask[x[1]] = x[2])
  /\ Land(x)
  /\ UNCHANGED <<timelineVars, workerVars, canceller, approvalVars>>

-----------------------------------------------------------------------------
ClaimStep(t) ==
  TryClaim(t) \/ Claim(t) \/ GiveUp(t) \/ NoteClaim(t) \/ ReadHistory(t)

CallStep(t) ==
  \/ Precommit(t) \/ RefuseTool(t) \/ MarkStarted(t) \/ StopShort(t) \/ Abandon(t)
  \/ AskApproval(t) \/ PersistPending(t) \/ NoteStarted(t)
  \/ BeginEffect(t) \/ EndEffect(t) \/ PersistResult(t) \/ NoteResult(t)

FinishStep(t) == StopWorking(t) \/ QuarantineCurrent(t) \/ Finish(t)

WorkerStep(t) == ClaimStep(t) \/ CallStep(t) \/ FinishStep(t)

CancelStep(t) == RequestCancel(t) \/ CancelTurn(t) \/ Interrupt(t)

ApprovalStep(t) ==
  \/ Decide(t) \/ BeginContinuation(t) \/ AbandonContinuation(t)
  \/ BeginApproved(t) \/ EndApproved(t) \/ InterruptApproved(t) \/ RecordContinuation(t)
  \/ Redispatch(t) \/ LeaveLoop(t) \/ SweepStarts(t) \/ SweepRecords(t)

Recover(w, t) ==
  RecoverAdmission(w, t) \/ RecoverUnstarted(w, t) \/ RecoverStarted(w, t)

LeaseStep(t) == AdmissionExpires(t) \/ LeaseExpires(t)

CrashStep(t) == WorkerCrash(t) \/ HandlerCrash(t) \/ SweepCrash(t)

Next ==
  \/ \E t \in Turns : \/ Admit(t) \/ WorkerStep(t) \/ HeartbeatFails(t)
                      \/ CancelStep(t) \/ ApprovalStep(t)
                      \/ LeaseStep(t) \/ CrashStep(t)
                      \/ \E w \in Turns : Recover(w, t)
  \/ \E x \in Operations : OrphanLands(x)

Spec == Init /\ [][Next]_vars

-----------------------------------------------------------------------------
(* Correctness.                                                            *)

\* Of the operations that the timeline records, no two have effects under way at
\* once in a session: not a late worker's after its lane was taken away, and not
\* an approved operation's beside a turn's (record_operation_precommit's quarantine
\* and continuation checks).  The timeline promises no more: a process left in the
\* background, and the tools of a resumed loop, do run beside later operations.
EffectExclusion == \A x, y \in flying : x = y

\* The effect of an operation begins at most once, whoever executes it.
AtMostOnce == \A x \in Operations : starts[x] <= 1

\* What the durable descriptors say of an effect is true: it began only if it was
\* marked started before; of one whose call has not returned, or raised, no result
\* is known; and a process in the background is never recorded as failed or as
\* abandoned (its "succeeded" says that it was launched, not that it ended).
RecordsAreTrue ==
  /\ \A x \in Operations : starts[x] > 0 => op[x] \in Known \cup Hot
  /\ \A x \in flying : op[x] \in Hot
  /\ \A x \in background : op[x] \in Hot \cup {"succeeded"}

\* A turn that ended as completed or cancelled conceals no effect whose result
\* is not recorded, although its worker may be late: every operation that began
\* has a known result, and none is under way but for a process in the background
\* (whose launch is what was recorded).
NothingConcealed ==
  \A x \in Operations :
    outcome[x[1]] \in {"completed", "cancelled"} =>
      /\ x \notin flying
      /\ starts[x] > 0 => op[x] \in Known

\* A settled operation and a settled turn stay as they are: a late result, a
\* late abandonment or a late cancellation overwrites neither.
SettledIsFinal ==
  [][/\ \A x \in Operations :
          op[x] \in Resolved \cup {"unknown"} => op'[x] = op[x]
     /\ \A t \in Turns :
          state[t] = "terminal" => state'[t] = state[t] /\ outcome'[t] = outcome[t]
    ]_vars

\* Turns are served in the order of their admission, each after the end of all
\* earlier ones.
ServedInOrder ==
  [][\A t \in Turns : state[t] # "running" /\ state'[t] = "running" =>
       \A u \in Turns : seqno[u] \in 1..(seqno[t] - 1) => state[u] = "terminal"]_vars

\* Once the result of an effect is unknown, no operation of the session is
\* precommitted or started any more.  The tools of a resumed loop are no operations
\* and are not stopped by it.
QuarantineHolds ==
  [][Quarantined => \A x \in Operations :
       /\ op[x] = "none" => op'[x] = "none"
       /\ op[x] = "precommitted" => op'[x] # "started"]_vars

\* The promise of SerialEffects about the durable descriptors.
Phase(s) ==
  IF s \in {"none", "precommitted"} THEN "idle"
  ELSE IF s = "started" THEN "open"
  ELSE IF s = "unknown" THEN "lost" ELSE "closed"

Serial == INSTANCE SerialEffects WITH phase <- [x \in Operations |-> Phase(op[x])]

KeepsPromise == Serial!Spec

\* One worker is at its turn's model and tools at a time: "Releasing it here would
\* allow a following turn to start before cancellation has actually stopped the
\* in-flight work" (timeline_coordinator.py:512-514).  The handlers of approved
\* operations, and the loops they resume, are no workers: they run beside the
\* worker of a later turn.
OneWorkerAtATime ==
  \A t, u \in Turns : pc[t] \in AtWork /\ pc[u] \in AtWork => t = u

\* What runs on is a worker's event loop, the handlers' and the clock; users and
\* tools may do nothing, but a tool call that has begun returns.
Fairness ==
  /\ \A t \in Turns : /\ WF_vars(WorkerStep(t))
                      /\ WF_vars(CancelTurn(t))
                      /\ WF_vars(pc[t] \in Gone /\ LeaseStep(t))
  /\ WF_vars(\E w, t \in Turns : Recover(w, t))

FairSpec == Spec /\ Fairness

\* claim() waits "until this turn is FIFO head": a queued turn whose process
\* lives gets the lane or is settled, whatever became of the turns before it.
QueuedTurnProceeds ==
  \A t \in Turns :
    state[t] = "queued" ~> (state[t] # "queued" \/ pc[t] = "crashed")

\* The same, but for the stale lanes that no recovery accepts (Wedged): the worker
\* is gone, and its turn began or abandoned a call but has none marked started.
\* Either all its results are known, or one was recorded unknown before the turn
\* could end, or the turn did no more than abandon calls.
ProceedsUnlessWedged ==
  \A t \in Turns :
    state[t] = "queued" ~>
      (state[t] # "queued" \/ pc[t] = "crashed" \/ \E u \in Turns : Wedged(u))
===============================================================================
