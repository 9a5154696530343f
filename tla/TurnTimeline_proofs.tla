-------------------------- MODULE TurnTimeline_proofs -------------------------
(***************************************************************************)
(* Proofs about TurnTimeline for any set of turns and any number of calls. *)
(*                                                                         *)
(* The argument: at every moment at most one operation of the session is   *)
(* live - marked started or unknown, or precommitted in a turn that could  *)
(* still start it.  A precommit is what makes an operation live, and its   *)
(* checks exclude every other live one, because a turn that holds the lane *)
(* was admitted after every turn that paused (the queue is served in       *)
(* order).  The effect of a call that has not returned is always of a      *)
(* started or unknown operation, so no two are under way.                  *)
(***************************************************************************)
EXTENDS TurnTimeline, TLAPS

-----------------------------------------------------------------------------
(* The inductive invariant.                                                *)

\* The queue and the lane.
Queue ==
  /\ \A t \in Turns : pc[t] = "new" => state[t] = "absent"
  /\ \A t \in Turns : seqno[t] <= admitted /\ (state[t] = "absent" => seqno[t] = 0)
  /\ \A t \in Turns : state[t] = "terminal" <=> outcome[t] # "none"
  /\ \A t \in Turns : state[t] = "running" <=> lane = t

\* Turns that paused precede the running turn, and both precede the queue.
Order ==
  /\ \A t, u \in Turns :
       t # u /\ state[t] # "absent" /\ state[u] # "absent" => seqno[t] # seqno[u]
  /\ \A t, u \in Turns :
       /\ state[t] = "running" /\ state[u] = "queued" => seqno[t] < seqno[u]
       /\ outcome[t] = "blocked" /\ state[u] \in {"queued", "running"}
            => seqno[t] < seqno[u]

\* The operations that have begun, or that may yet.
LiveOp(x) ==
  \/ op[x] \in Hot
  \/ op[x] = "precommitted" /\ (state[x[1]] = "running" \/ outcome[x[1]] = "blocked")

OneLive ==
  /\ \A x \in Operations : op[x] # "none" => state[x[1]] \in {"running", "terminal"}
  /\ \A x \in Operations :
       op[x] \in Hot => state[x[1]] = "running" \/ outcome[x[1]] \in {"blocked", "unknown"}
  /\ \A x, y \in Operations : LiveOp(x) /\ LiveOp(y) => x = y

\* What quarantines the session is an operation of unknown result.
Lost ==
  \A t \in Turns : boundary[t] = "unknown" \/ outcome[t] = "unknown" =>
    \E x \in Operations : x[1] = t /\ op[x] = "unknown"

\* The calls that the worker and the handler of a turn work on.
Worked ==
  /\ \A t \in Turns : pc[t] \in InCall => calls[t] \in Calls
  /\ \A t \in Turns : approval[t] # "none" =>
       ask[t] \in Calls /\ "blocked" \in flags[t] /\ pc[t] \notin InCall \ {"asked"}
  /\ \A t \in Turns : sweep[t] # "idle" => approval[t] # "none"

Bound ==
  /\ \A x \in Operations : x[2] > calls[x[1]] => op[x] = "none"
  /\ Worked
  /\ \A t \in Turns : approval[t] \in {"effect", "in", "ran", "detached"} => Paused(t)

\* The effects that are about to begin, are under way, or have ended.
OpFx ==
  \A x \in Operations :
    /\ op[x] \in {"none", "precommitted", "abandoned"} => starts[x] = 0
    /\ starts[x] <= 1
    /\ x \in flying => op[x] \in Hot
    /\ x \in background => op[x] \in Hot \cup {"succeeded"}

WorkerFx ==
  \A t \in Turns :
    LET x == <<t, calls[t]>> IN
    /\ pc[t] \in {"marked", "effect", "in"} => op[x] \in Hot
    /\ pc[t] \in {"marked", "effect"} => starts[x] = 0
    /\ pc[t] \in {"marked", "effect", "ran", "detached"} => x \notin flying
    /\ pc[t] \in {"marked", "effect", "in", "ran"} => x \notin background

HandlerFx ==
  \A t \in Turns :
    /\ approval[t] \in {"effect", "in"} => op[Asked(t)] \in Hot
    /\ approval[t] = "effect" => starts[Asked(t)] = 0
    /\ approval[t] \in {"effect", "ran", "detached"} => Asked(t) \notin flying
    /\ approval[t] \in {"effect", "in", "ran"} => Asked(t) \notin background

Effects == OpFx /\ WorkerFx /\ HandlerFx

-----------------------------------------------------------------------------
(* Operations and types.                                                   *)

LEMMA Pairs ==
  /\ \A t \in Turns, i \in Calls :
       <<t, i>> \in Operations /\ <<t, i>>[1] = t /\ <<t, i>>[2] = i
  /\ \A x \in Operations : x[1] \in Turns /\ x[2] \in Calls /\ x = <<x[1], x[2]>>
  /\ Calls = 1..MaxCalls /\ Calls \subseteq 0..MaxCalls /\ 0 \notin Calls
BY ConstantsAssumption DEF Operations, Calls

LEMMA InitTypes == Init => TypeOK
<1> SUFFICES ASSUME Init PROVE TypeOK
  OBVIOUS
<1>1. /\ op \in [Operations -> OpStatuses] /\ starts \in [Operations -> Nat]
      /\ flying \subseteq Operations /\ background \subseteq Operations
  BY DEF Init, OpStatuses
<1>2. /\ flags \in [Turns -> SUBSET Flags]
      /\ pc \in [Turns -> Locations]
      /\ outcome \in [Turns -> Outcomes \cup {"none"}]
      /\ approval \in [Turns -> Approvals]
  BY DEF Init, Locations, Approvals
<1>3. /\ current \in [Turns -> 0..MaxCalls]
      /\ calls \in [Turns -> 0..MaxCalls]
      /\ ask \in [Turns -> 0..MaxCalls]
  BY ConstantsAssumption DEF Init
<1>. QED
  BY <1>1, <1>2, <1>3 DEF Init, TypeOK

LEMMA SetOpType ==
  ASSUME TypeOK, NEW x \in Operations, NEW s \in OpStatuses, SetOp(x, s)
  PROVE  /\ op' \in [Operations -> OpStatuses]
         /\ op'[x] = s
         /\ \A y \in Operations : y # x => op'[y] = op[y]
BY DEF TypeOK, SetOp

LEMMA RecordType ==
  ASSUME TypeOK, NEW x \in Operations, NEW s \in Known \cup {"unknown"}, RecordResult(x, s)
  PROVE  /\ op' \in [Operations -> OpStatuses]
         /\ op'[x] = s
         /\ \A y \in Operations : y # x => op'[y] = op[y]
         /\ boundary' \in [Turns -> {"not_started", "started", "unknown"}]
         /\ \A t \in Turns : boundary'[t] = "unknown" =>
              boundary[t] = "unknown" \/ (t = x[1] /\ s = "unknown")
         /\ UNCHANGED pendingEvent
<1>1. s \in OpStatuses /\ SetOp(x, s)
  BY DEF RecordResult, OpStatuses, Resolved, Known, Hot
<1>2. x[1] \in Turns
  BY Pairs
<1>. QED
  BY <1>1, <1>2, SetOpType DEF RecordResult, TypeOK

LEMMA Places ==
  /\ InCall \cup AtWork \cup Gone \cup {"new", "waiting", "trying", "claiming", "reading", "ending"}
       \subseteq Locations
  /\ {"bound", "dropping", "asked", "marked", "effect", "in", "ran", "detached", "raised",
      "stored", "working"} \subseteq Locations
  /\ {"done", "failed", "crashed"} \subseteq Locations
  /\ {"none", "pending", "closing", "resumed", "over"} \subseteq Approvals
  /\ {"claimed", "failing", "effect", "in", "ran", "detached", "dead"} \subseteq Approvals
  /\ {"none", "precommitted", "succeeded", "failed", "abandoned", "started", "unknown"}
       \subseteq OpStatuses
  /\ {"cancel", "blocked", "unknown", "failed"} \subseteq Flags
  /\ {"completed", "cancelled", "blocked", "unknown"} \subseteq Outcomes
BY DEF Locations, AtWork, InCall, Gone, Approvals, Handling, OpStatuses, Resolved, Known, Hot,
       Flags, Outcomes

\* What a call that returned may be recorded as.
LEMMA Reported ==
  /\ Returned = {"ran", "detached", "raised"}
  /\ \A l \in Returned : Reports[l] \subseteq Known \cup {"unknown"}
  /\ Reports["ran"] = Known \cup {"unknown"}
  /\ Reports["detached"] = {"succeeded"}
  /\ Reports["raised"] = {"unknown"}
BY DEF Returned, Reports, Known

\* The types of what the worker keeps.
WorkerTypes ==
  /\ pc \in [Turns -> Locations]
  /\ flags \in [Turns -> SUBSET Flags]
  /\ current \in [Turns -> 0..MaxCalls]
  /\ calls \in [Turns -> 0..MaxCalls]

LEMMA GoToTypes ==
  ASSUME TypeOK, NEW t \in Turns, NEW l \in Locations, GoTo(t, l)
  PROVE  WorkerTypes'
BY DEF TypeOK, WorkerTypes, GoTo

LEMMA RaiseType ==
  ASSUME TypeOK, NEW t \in Turns, NEW f \in Flags, Raise(t, f)
  PROVE  flags' \in [Turns -> SUBSET Flags]
BY DEF TypeOK, Raise

LEMMA FailTypes ==
  ASSUME TypeOK, NEW t \in Turns, Fail(t)
  PROVE  WorkerTypes'
<1>1. flags' \in [Turns -> SUBSET Flags]
  BY RaiseType, Places DEF Fail
<1>. QED
  BY <1>1, Places DEF Fail, TypeOK, WorkerTypes

LEMMA HandlerTypes ==
  ASSUME TypeOK, NEW t \in Turns, NEW l \in Approvals, Handler(t, l)
  PROVE  approval' \in [Turns -> Approvals] /\ UNCHANGED <<ask, sweep>>
BY DEF TypeOK, Handler

LEMMA TerminateTypes ==
  ASSUME TypeOK, NEW t \in Turns, NEW o \in Outcomes, Terminate(t, o)
  PROVE  /\ UNCHANGED <<admitted, seqno>>
         /\ state' \in [Turns -> {"absent", "queued", "running", "terminal"}]
         /\ outcome' \in [Turns -> Outcomes \cup {"none"}]
         /\ admission' \in [Turns -> BOOLEAN]
BY DEF TypeOK, Terminate

LEMMA ClaimStepTypes ==
  ASSUME TypeOK, NEW t \in Turns, Admit(t) \/ ClaimStep(t)
  PROVE  TypeOK'
<1>1. CASE Admit(t)
  <2>1. WorkerTypes'
    BY <1>1, GoToTypes, Places DEF Admit
  <2>2. /\ admitted' \in Nat
        /\ seqno' \in [Turns -> Nat]
        /\ state' \in [Turns -> {"absent", "queued", "running", "terminal"}]
        /\ admission' \in [Turns -> BOOLEAN]
    BY <1>1 DEF Admit, TypeOK
  <2>. QED
    BY <1>1, <2>1, <2>2 DEF Admit, TypeOK, WorkerTypes, laneVars, opVars, approvalVars, ghostVars
<1>2. CASE Claim(t)
  <2>1. WorkerTypes'
    BY <1>2, GoToTypes, Places DEF Claim
  <2>. QED
    BY <1>2, <2>1 DEF Claim, TypeOK, WorkerTypes, opVars, approvalVars, ghostVars
<1>3. CASE TryClaim(t) \/ GiveUp(t) \/ NoteClaim(t) \/ ReadHistory(t)
  <2>1. WorkerTypes'
    BY <1>3, GoToTypes, FailTypes, Places DEF TryClaim, GiveUp, NoteClaim, ReadHistory
  <2>. QED
    BY <1>3, <2>1
    DEF TryClaim, GiveUp, NoteClaim, ReadHistory, TypeOK, WorkerTypes, timelineVars, queueVars,
        laneVars, opVars, approvalVars, ghostVars
<1>. QED
  BY <1>1, <1>2, <1>3 DEF ClaimStep

LEMMA CallStepTypes ==
  ASSUME TypeOK, Bound, NEW t \in Turns, CallStep(t)
  PROVE  TypeOK'
<1>1. CASE Precommit(t)
  <2>. DEFINE c == calls[t] + 1
  <2>1. c \in Calls /\ calls' \in [Turns -> 0..MaxCalls]
    BY <1>1, Pairs DEF Precommit, TypeOK
  <2>2. op' \in [Operations -> OpStatuses] /\ pc' \in [Turns -> Locations]
        /\ flags' \in [Turns -> SUBSET Flags]
    <3>1. CASE MayPrecommit(t)
      <4>1. <<t, c>> \in Operations /\ SetOp(<<t, c>>, "precommitted")
        BY <1>1, <2>1, <3>1, Pairs DEF Precommit
      <4>2. op' \in [Operations -> OpStatuses]
        BY <4>1, Places, SetOpType
      <4>. QED
        BY <1>1, <3>1, <4>2, Places DEF Precommit, TypeOK
    <3>2. CASE ~MayPrecommit(t)
      BY <1>1, <3>2, RaiseType, Places DEF Precommit, TypeOK
    <3>. QED
      BY <3>1, <3>2
  <2>. QED
    BY <1>1, <2>1, <2>2 DEF Precommit, TypeOK, queueVars, laneVars, approvalVars, ghostVars
<1>2. CASE RefuseTool(t)
  <2>1. flags' \in [Turns -> SUBSET Flags]
    BY <1>2, Places DEF RefuseTool, TypeOK
  <2>. QED
    BY <1>2, <2>1
    DEF RefuseTool, TypeOK, timelineVars, queueVars, laneVars, opVars, approvalVars, ghostVars
<1>3. CASE MarkStarted(t)
  <2>1. WorkerTypes'
    BY <1>3, GoToTypes, Places DEF MarkStarted
  <2>2. op' \in [Operations -> OpStatuses]
        /\ boundary' \in [Turns -> {"not_started", "started", "unknown"}]
    <3>1. <<t, calls[t]>> \in Operations
      BY <1>3, Pairs DEF MarkStarted, Bound, Worked, InCall
    <3>2. CASE MayStart(t)
      <4>1. op' \in [Operations -> OpStatuses]
        BY <1>3, <3>1, <3>2, Places, SetOpType DEF MarkStarted
      <4>. QED
        BY <1>3, <3>2, <4>1 DEF MarkStarted, TypeOK
    <3>3. CASE ~MayStart(t)
      BY <1>3, <3>3 DEF MarkStarted, TypeOK
    <3>. QED
      BY <3>2, <3>3
  <2>. QED
    BY <1>3, <2>1, <2>2
    DEF MarkStarted, TypeOK, WorkerTypes, queueVars, laneVars, approvalVars, ghostVars
<1>4. CASE StopShort(t)
  <2>1. WorkerTypes'
    BY <1>4, GoToTypes, Places DEF StopShort
  <2>. QED
    BY <1>4, <2>1
    DEF StopShort, TypeOK, WorkerTypes, timelineVars, queueVars, laneVars, opVars, approvalVars,
        ghostVars
<1>5. CASE Abandon(t)
  <2>1. WorkerTypes' /\ op' \in [Operations -> OpStatuses]
    <3>1. CASE LeaseOk(t) /\ op[<<t, calls[t]>>] = "precommitted"
      <4>1. flags' \in [Turns -> SUBSET Flags]
        BY <1>5, <3>1, RaiseType, Places DEF Abandon
      <4>2. op' \in [Operations -> OpStatuses]
        BY <1>5, <3>1, Pairs, Places, SetOpType DEF Abandon, Bound, Worked, InCall
      <4>. QED
        <5>1. pc' = [pc EXCEPT ![t] = "working"] /\ UNCHANGED <<current, calls>>
          BY <1>5, <3>1 DEF Abandon
        <5>2. pc' \in [Turns -> Locations]
          BY <5>1, Places DEF TypeOK
        <5>. QED
          BY <4>1, <4>2, <5>1, <5>2 DEF TypeOK, WorkerTypes
    <3>2. CASE ~(LeaseOk(t) /\ op[<<t, calls[t]>>] = "precommitted")
      BY <1>5, <3>2, FailTypes DEF Abandon, TypeOK
    <3>. QED
      BY <3>1, <3>2
  <2>. QED
    BY <1>5, <2>1
    DEF Abandon, TypeOK, WorkerTypes, queueVars, laneVars, approvalVars, ghostVars
<1>6. CASE AskApproval(t)
  <2>1. WorkerTypes'
    BY <1>6, RaiseType, Places DEF AskApproval, TypeOK, WorkerTypes
  <2>2. approval' \in [Turns -> Approvals] /\ ask' \in [Turns -> 0..MaxCalls]
    BY <1>6, Places DEF AskApproval, TypeOK
  <2>. QED
    BY <1>6, <2>1, <2>2
    DEF AskApproval, TypeOK, WorkerTypes, timelineVars, queueVars, laneVars, opVars, ghostVars
<1>7. CASE PersistPending(t)
  <2>1. WorkerTypes' /\ pendingEvent' \in [Turns -> BOOLEAN]
    BY <1>7, GoToTypes, FailTypes, Places DEF PersistPending, TypeOK
  <2>. QED
    BY <1>7, <2>1
    DEF PersistPending, TypeOK, WorkerTypes, queueVars, laneVars, approvalVars, ghostVars
<1>8. CASE NoteStarted(t)
  <2>1. WorkerTypes'
    BY <1>8, Places DEF NoteStarted, TypeOK, WorkerTypes
  <2>. QED
    BY <1>8, <2>1
    DEF NoteStarted, TypeOK, WorkerTypes, timelineVars, queueVars, laneVars, opVars, approvalVars,
        ghostVars
<1>9. CASE BeginEffect(t) \/ EndEffect(t)
  <2>1. WorkerTypes'
    BY <1>9, GoToTypes, Places DEF BeginEffect, EndEffect
  <2>2. <<t, calls[t]>> \in Operations
    BY <1>9, Pairs DEF BeginEffect, EndEffect, Bound, Worked, InCall
  <2>3. /\ starts' \in [Operations -> Nat] /\ flying' \subseteq Operations
        /\ background' \subseteq Operations
    <3>1. CASE BeginEffect(t)
      BY <3>1, <2>2 DEF BeginEffect, TakeOff, TypeOK, ghostVars
    <3>2. CASE EndEffect(t)
      BY <3>2, <2>2 DEF EndEffect, Land, Detach, TypeOK, ghostVars
    <3>. QED
      BY <1>9, <3>1, <3>2
  <2>. QED
    BY <1>9, <2>1, <2>3
    DEF BeginEffect, EndEffect, TypeOK, WorkerTypes, timelineVars, queueVars, laneVars, opVars,
        approvalVars
<1>10. CASE PersistResult(t)
  <2>1. WorkerTypes'
    BY <1>10, GoToTypes, FailTypes, Places DEF PersistResult
  <2>2. <<t, calls[t]>> \in Operations
    BY <1>10, Pairs, Reported DEF PersistResult, Bound, Worked, InCall
  <2>3. /\ op' \in [Operations -> OpStatuses]
        /\ boundary' \in [Turns -> {"not_started", "started", "unknown"}]
        /\ pendingEvent' \in [Turns -> BOOLEAN]
    <3>1. CASE \E s \in Known \cup {"unknown"} : RecordResult(<<t, calls[t]>>, s)
      BY <2>2, <3>1, RecordType DEF TypeOK
    <3>2. CASE UNCHANGED opVars
      BY <3>2 DEF TypeOK, opVars
    <3>. QED
      BY <1>10, <3>1, <3>2, Reported DEF PersistResult
  <2>. QED
    BY <1>10, <2>1, <2>3
    DEF PersistResult, TypeOK, WorkerTypes, queueVars, laneVars, approvalVars, ghostVars
<1>11. CASE NoteResult(t)
  <2>1. WorkerTypes'
    <3>1. flags' \in [Turns -> SUBSET Flags]
      BY <1>11, RaiseType, Places DEF NoteResult, TypeOK
    <3>2. pc' \in [Turns -> Locations] /\ calls' \in [Turns -> 0..MaxCalls]
      BY <1>11, Places DEF NoteResult, TypeOK
    <3>3. current' \in [Turns -> 0..MaxCalls]
      BY <1>11, ConstantsAssumption DEF NoteResult, TypeOK
    <3>. QED
      BY <3>1, <3>2, <3>3 DEF WorkerTypes
  <2>. QED
    BY <1>11, <2>1
    DEF NoteResult, TypeOK, WorkerTypes, timelineVars, queueVars, laneVars, opVars, approvalVars,
        ghostVars
<1>. QED
  BY <1>1, <1>2, <1>3, <1>4, <1>5, <1>6, <1>7, <1>8, <1>9, <1>10, <1>11 DEF CallStep

LEMMA EndStepTypes ==
  ASSUME TypeOK, NEW t \in Turns,
         HeartbeatFails(t) \/ FinishStep(t) \/ CancelStep(t)
  PROVE  TypeOK'
<1>1. CASE HeartbeatFails(t)
  <2>1. flags' \in [Turns -> SUBSET Flags]
    BY <1>1, RaiseType, Places DEF HeartbeatFails
  <2>. QED
    BY <1>1, <2>1
    DEF HeartbeatFails, TypeOK, timelineVars, queueVars, laneVars, opVars, approvalVars, ghostVars
<1>2. CASE StopWorking(t) \/ Interrupt(t)
  <2>1. WorkerTypes'
    BY <1>2, GoToTypes, FailTypes, Places DEF StopWorking, Interrupt
  <2>2. canceller' \in [Turns -> {"idle", "loaded", "returned", "spent"}]
    BY <1>2 DEF StopWorking, Interrupt, TypeOK
  <2>. QED
    BY <1>2, <2>1, <2>2
    DEF StopWorking, Interrupt, TypeOK, WorkerTypes, timelineVars, queueVars, laneVars, opVars,
        approvalVars, ghostVars
<1>3. CASE QuarantineCurrent(t)
  <2>. DEFINE x == <<t, current[t]>>
  <2>1. x \in Operations
    BY <1>3, Pairs, ConstantsAssumption DEF QuarantineCurrent, TypeOK
  <2>2. /\ WorkerTypes'
        /\ op' \in [Operations -> OpStatuses]
        /\ boundary' \in [Turns -> {"not_started", "started", "unknown"}]
        /\ UNCHANGED pendingEvent
    <3>1. CASE LeaseOk(t) /\ op[x] \in Hot
      <4>1. /\ op' \in [Operations -> OpStatuses]
            /\ boundary' \in [Turns -> {"not_started", "started", "unknown"}]
            /\ UNCHANGED pendingEvent
        BY <1>3, <2>1, <3>1, RecordType DEF QuarantineCurrent
      <4>2. flags' \in [Turns -> SUBSET Flags]
        BY <1>3, <3>1, RaiseType, Places DEF QuarantineCurrent
      <4>3. current' \in [Turns -> 0..MaxCalls]
        BY <1>3, <3>1, ConstantsAssumption DEF QuarantineCurrent, TypeOK
      <4>. QED
        BY <1>3, <3>1, <4>1, <4>2, <4>3 DEF QuarantineCurrent, TypeOK, WorkerTypes
    <3>2. CASE ~(LeaseOk(t) /\ op[x] \in Hot)
      BY <1>3, <3>2, GoToTypes, Places DEF QuarantineCurrent, TypeOK, opVars
    <3>. QED
      BY <3>1, <3>2
  <2>. QED
    BY <1>3, <2>2
    DEF QuarantineCurrent, TypeOK, WorkerTypes, queueVars, laneVars, approvalVars, ghostVars
<1>4. CASE Finish(t)
  <2>1. WorkerTypes'
    BY <1>4, GoToTypes, Places DEF Finish
  <2>2. Verdict(t) \in Outcomes
    BY Places DEF Verdict
  <2>3. CASE MayEnd(t, Verdict(t))
    BY <1>4, <2>1, <2>2, <2>3, TerminateTypes
    DEF Finish, TypeOK, WorkerTypes, ReleaseLane, opVars, approvalVars, ghostVars
  <2>4. CASE ~MayEnd(t, Verdict(t))
    BY <1>4, <2>1, <2>4
    DEF Finish, TypeOK, WorkerTypes, queueVars, laneVars, opVars, approvalVars, ghostVars
  <2>. QED
    BY <2>3, <2>4
<1>5. CASE RequestCancel(t)
  <2>1. /\ flags' \in [Turns -> SUBSET Flags]
        /\ canceller' \in [Turns -> {"idle", "loaded", "returned", "spent"}]
    BY <1>5, RaiseType, Places DEF RequestCancel, TypeOK
  <2>. QED
    BY <1>5, <2>1
    DEF RequestCancel, TypeOK, timelineVars, queueVars, laneVars, opVars, approvalVars, ghostVars
<1>6. CASE CancelTurn(t)
  <2>1. canceller' \in [Turns -> {"idle", "loaded", "returned", "spent"}]
    BY <1>6 DEF CancelTurn, TypeOK
  <2>2. CASE Terminate(t, "cancelled") /\ (UNCHANGED laneVars \/ ReleaseLane)
    BY <1>6, <2>1, <2>2, TerminateTypes, Places
    DEF CancelTurn, TypeOK, ReleaseLane, laneVars, opVars, workerVars, approvalVars, ghostVars
  <2>3. CASE UNCHANGED <<queueVars, laneVars>>
    BY <1>6, <2>1, <2>3
    DEF CancelTurn, TypeOK, queueVars, laneVars, opVars, workerVars, approvalVars, ghostVars
  <2>. QED
    BY <1>6, <2>2, <2>3 DEF CancelTurn
<1>. QED
  BY <1>1, <1>2, <1>3, <1>4, <1>5, <1>6 DEF FinishStep, CancelStep

LEMMA RecoverTypes ==
  ASSUME TypeOK, NEW w \in Turns, NEW t \in Turns, Recover(w, t)
  PROVE  TypeOK'
<1>1. CASE RecoverAdmission(w, t)
  BY <1>1, TerminateTypes, Places
  DEF RecoverAdmission, TypeOK, laneVars, opVars, workerVars, approvalVars, ghostVars
<1>2. CASE RecoverUnstarted(w, t)
  BY <1>2, TerminateTypes, Places
  DEF RecoverUnstarted, TypeOK, ReleaseLane, opVars, workerVars, approvalVars, ghostVars
<1>3. CASE RecoverStarted(w, t)
  <2>1. /\ op' \in [Operations -> OpStatuses]
        /\ boundary' \in [Turns -> {"not_started", "started", "unknown"}]
    BY <1>3, Places DEF RecoverStarted, TypeOK
  <2>. QED
    BY <1>3, <2>1, TerminateTypes, Places
    DEF RecoverStarted, TypeOK, ReleaseLane, workerVars, approvalVars, ghostVars
<1>. QED
  BY <1>1, <1>2, <1>3 DEF Recover

LEMMA ApprovalStepTypes ==
  ASSUME TypeOK, Bound, NEW t \in Turns, ApprovalStep(t)
  PROVE  TypeOK'
<1>1. approval[t] # "none" => Asked(t) \in Operations
  BY Pairs DEF Bound, Worked, Asked
<1>2. CASE Decide(t)
  BY <1>2, HandlerTypes, Places
  DEF Decide, TypeOK, timelineVars, queueVars, laneVars, opVars, workerVars, ghostVars
<1>3. CASE BeginContinuation(t) \/ AbandonContinuation(t)
  <2>1. approval' \in [Turns -> Approvals] /\ UNCHANGED <<ask, sweep>>
    BY <1>3, HandlerTypes, Places DEF BeginContinuation, AbandonContinuation
  <2>2. op' \in [Operations -> OpStatuses]
    BY <1>1, <1>3, SetOpType, Places DEF BeginContinuation, AbandonContinuation, TypeOK
  <2>. QED
    BY <1>3, <2>1, <2>2
    DEF BeginContinuation, AbandonContinuation, TypeOK, queueVars, laneVars, workerVars, ghostVars
<1>4. CASE BeginApproved(t) \/ EndApproved(t)
  <2>1. approval' \in [Turns -> Approvals] /\ UNCHANGED <<ask, sweep>>
    BY <1>4, HandlerTypes, Places DEF BeginApproved, EndApproved
  <2>2. /\ starts' \in [Operations -> Nat] /\ flying' \subseteq Operations
        /\ background' \subseteq Operations
    BY <1>1, <1>4 DEF BeginApproved, EndApproved, TakeOff, Land, Detach, TypeOK, ghostVars
  <2>. QED
    BY <1>4, <2>1, <2>2
    DEF BeginApproved, EndApproved, TypeOK, timelineVars, queueVars, laneVars, opVars, workerVars
<1>5. CASE InterruptApproved(t) \/ RecordContinuation(t)
  <2>1. approval' \in [Turns -> Approvals] /\ UNCHANGED <<ask, sweep>>
    <3>1. \E l \in {"resumed", "over"} : Handler(t, l)
      BY <1>5 DEF InterruptApproved, RecordContinuation
    <3>. QED
      BY <3>1, HandlerTypes, Places
  <2>2. /\ op' \in [Operations -> OpStatuses]
        /\ boundary' \in [Turns -> {"not_started", "started", "unknown"}]
        /\ UNCHANGED pendingEvent
    <3>1. CASE \E s \in Known \cup {"unknown"} : RecordResult(Asked(t), s)
      BY <1>1, <1>5, <3>1, RecordType DEF InterruptApproved, RecordContinuation
    <3>2. CASE UNCHANGED opVars
      BY <3>2 DEF TypeOK, opVars
    <3>. QED
      BY <1>5, <3>1, <3>2, Reported DEF InterruptApproved, RecordContinuation
  <2>. QED
    BY <1>5, <2>1, <2>2
    DEF InterruptApproved, RecordContinuation, TypeOK, queueVars, laneVars, workerVars, ghostVars
<1>6. CASE SweepStarts(t)
  <2>1. sweep' \in [Turns -> {"idle", "begun", "over"}]
    BY <1>6 DEF SweepStarts, TypeOK
  <2>2. op' \in [Operations -> OpStatuses]
    BY <1>1, <1>6, SetOpType, Places DEF SweepStarts, TypeOK, Handling
  <2>. QED
    BY <1>6, <2>1, <2>2 DEF SweepStarts, TypeOK, queueVars, laneVars, workerVars, ghostVars
<1>7. CASE SweepRecords(t)
  <2>1. sweep' \in [Turns -> {"idle", "begun", "over"}]
    BY <1>7 DEF SweepRecords, TypeOK
  <2>2. /\ op' \in [Operations -> OpStatuses]
        /\ boundary' \in [Turns -> {"not_started", "started", "unknown"}]
        /\ UNCHANGED pendingEvent
    BY <1>1, <1>7, RecordType DEF SweepRecords, Bound, Worked, TypeOK, opVars
  <2>. QED
    BY <1>7, <2>1, <2>2 DEF SweepRecords, TypeOK, queueVars, laneVars, workerVars, ghostVars
<1>8. CASE Redispatch(t) \/ LeaveLoop(t)
  <2>1. approval' \in [Turns -> Approvals] /\ UNCHANGED <<ask, sweep>>
    BY <1>8, HandlerTypes, Places DEF Redispatch, LeaveLoop
  <2>. QED
    BY <1>8, <2>1
    DEF Redispatch, LeaveLoop, TypeOK, timelineVars, queueVars, laneVars, opVars, workerVars,
        ghostVars
<1>. QED
  BY <1>2, <1>3, <1>4, <1>5, <1>6, <1>7, <1>8 DEF ApprovalStep

LEMMA RestTypes ==
  ASSUME TypeOK, NEW t \in Turns, NEW x \in Operations,
         LeaseStep(t) \/ CrashStep(t) \/ OrphanLands(x)
  PROVE  TypeOK'
<1>1. CASE AdmissionExpires(t) \/ LeaseExpires(t)
  <2>1. CASE AdmissionExpires(t)
    BY <2>1
    DEF AdmissionExpires, TypeOK, queueVars, laneVars, opVars, workerVars, approvalVars, ghostVars
  <2>2. CASE LeaseExpires(t)
    BY <2>2
    DEF LeaseExpires, TypeOK, queueVars, laneVars, opVars, workerVars, approvalVars, ghostVars
  <2>. QED
    BY <1>1, <2>1, <2>2
<1>2. CASE WorkerCrash(t)
  <2>1. WorkerTypes'
    BY <1>2, GoToTypes, Places DEF WorkerCrash
  <2>. QED
    BY <1>2, <2>1
    DEF WorkerCrash, TypeOK, WorkerTypes, timelineVars, queueVars, laneVars, opVars,
        approvalVars, ghostVars
<1>3. CASE HandlerCrash(t) \/ SweepCrash(t)
  <2>1. approval' \in [Turns -> Approvals] /\ UNCHANGED ask
        /\ sweep' \in [Turns -> {"idle", "begun", "over"}]
    BY <1>3, HandlerTypes, Places DEF HandlerCrash, SweepCrash, TypeOK
  <2>. QED
    BY <1>3, <2>1
    DEF HandlerCrash, SweepCrash, TypeOK, timelineVars, queueVars, laneVars, opVars, workerVars,
        ghostVars
<1>4. CASE OrphanLands(x)
  BY <1>4
  DEF OrphanLands, Land, TypeOK, timelineVars, queueVars, laneVars, opVars, workerVars,
      approvalVars
<1>. QED
  BY <1>1, <1>2, <1>3, <1>4 DEF LeaseStep, CrashStep

\* The cases of a step.
LEMMA Cases ==
  ASSUME [Next]_vars, NEW P,
         \A t \in Turns : Admit(t) \/ ClaimStep(t) => P,
         \A t \in Turns : CallStep(t) => P,
         \A t \in Turns : HeartbeatFails(t) \/ FinishStep(t) \/ CancelStep(t) => P,
         \A w, t \in Turns : Recover(w, t) => P,
         \A t \in Turns : ApprovalStep(t) => P,
         \A t \in Turns : LeaseStep(t) \/ CrashStep(t) => P,
         \A x \in Operations : OrphanLands(x) => P,
         UNCHANGED vars => P
  PROVE  P
BY DEF Next, WorkerStep

LEMMA NextTypes == TypeOK /\ Bound /\ [Next]_vars => TypeOK'
<1> SUFFICES ASSUME TypeOK, Bound, [Next]_vars PROVE TypeOK'
  OBVIOUS
<1>1. \A t \in Turns : LeaseStep(t) \/ CrashStep(t) => TypeOK'
  <2> SUFFICES ASSUME NEW t \in Turns, LeaseStep(t) \/ CrashStep(t) PROVE TypeOK'
    OBVIOUS
  <2>1. <<t, 1>> \in Operations
    BY ConstantsAssumption, Pairs
  <2>. QED
    BY <2>1, RestTypes
<1>2. \A x \in Operations : OrphanLands(x) => TypeOK'
  BY Pairs, RestTypes
<1>3. UNCHANGED vars => TypeOK'
  BY DEF vars, TypeOK, timelineVars, queueVars, laneVars, opVars, workerVars, approvalVars, ghostVars
<1>. QED
  BY <1>1, <1>2, <1>3, ClaimStepTypes, CallStepTypes, EndStepTypes, RecoverTypes,
     ApprovalStepTypes, Cases

-----------------------------------------------------------------------------
(* The queue and the lane.                                                 *)

\* No turn is admitted a second time.
NoneNew == \A u \in Turns : pc'[u] = "new" => pc[u] = "new"

QueueFixed == UNCHANGED <<admitted, seqno, state, outcome, lane>> /\ NoneNew

\* The steps that end a turn: where it stood, and what becomes of the lane.
Ends(t, o) ==
  /\ Terminate(t, o)
  /\ NoneNew
  /\ \/ state[t] = "queued" /\ o = "cancelled" /\ UNCHANGED lane
     \/ state[t] = "running" /\ lane' = NoTurn

LEMMA Elsewhere ==
  ASSUME TypeOK, NEW t \in Turns, NEW l, l # "new", pc' = [pc EXCEPT ![t] = l]
  PROVE  NoneNew
BY DEF TypeOK, NoneNew

LEMMA CallQueue ==
  ASSUME TypeOK, NEW t \in Turns, CallStep(t)
  PROVE  QueueFixed
<1>1. UNCHANGED <<queueVars, laneVars>>
  BY DEF CallStep, Precommit, RefuseTool, MarkStarted, StopShort, Abandon, AskApproval,
         PersistPending, NoteStarted, BeginEffect, EndEffect, PersistResult, NoteResult,
         timelineVars
<1>2. Precommit(t) \/ RefuseTool(t) => NoneNew
  <2> HAVE Precommit(t) \/ RefuseTool(t)
  <2>1. pc' = pc \/ pc' = [pc EXCEPT ![t] = "bound"]
    BY DEF Precommit, RefuseTool
  <2>. QED
    BY <2>1, Elsewhere DEF NoneNew
<1>3. MarkStarted(t) \/ StopShort(t) \/ Abandon(t) \/ AskApproval(t) \/ PersistPending(t) => NoneNew
  <2> HAVE MarkStarted(t) \/ StopShort(t) \/ Abandon(t) \/ AskApproval(t) \/ PersistPending(t)
  <2>1. \E l \in {"marked", "dropping", "working", "ending", "asked"} : pc' = [pc EXCEPT ![t] = l]
    BY DEF MarkStarted, StopShort, Abandon, AskApproval, PersistPending, GoTo, Fail
  <2>. QED
    BY <2>1, Elsewhere
<1>4. NoteStarted(t) \/ BeginEffect(t) \/ EndEffect(t) \/ PersistResult(t) \/ NoteResult(t) => NoneNew
  <2> HAVE NoteStarted(t) \/ BeginEffect(t) \/ EndEffect(t) \/ PersistResult(t) \/ NoteResult(t)
  <2>1. \E l \in {"effect", "in", "ran", "detached", "raised", "stored", "ending", "working"} :
          pc' = [pc EXCEPT ![t] = l]
    BY DEF NoteStarted, BeginEffect, EndEffect, PersistResult, NoteResult, GoTo, Fail
  <2>. QED
    BY <2>1, Elsewhere
<1>5. NoneNew
  BY <1>2, <1>3, <1>4 DEF CallStep
<1>. QED
  BY <1>1, <1>5 DEF QueueFixed, queueVars, laneVars

LEMMA ApprovalQueue ==
  ASSUME NEW t \in Turns, ApprovalStep(t)
  PROVE  QueueFixed
BY DEF ApprovalStep, Decide, BeginContinuation, AbandonContinuation, BeginApproved, EndApproved,
       InterruptApproved, RecordContinuation, Redispatch, LeaveLoop, SweepStarts, SweepRecords,
       timelineVars, queueVars, laneVars, workerVars, QueueFixed, NoneNew

LEMMA RestQueue ==
  /\ \A t \in Turns : TypeOK /\ (LeaseStep(t) \/ CrashStep(t)) => QueueFixed
  /\ \A x \in Operations : OrphanLands(x) => QueueFixed
  /\ UNCHANGED vars => QueueFixed
BY DEF LeaseStep, CrashStep, AdmissionExpires, LeaseExpires, WorkerCrash, HandlerCrash, SweepCrash,
       OrphanLands, vars, timelineVars, queueVars, laneVars, workerVars, QueueFixed, NoneNew,
       GoTo, TypeOK

LEMMA ClaimStepQueue ==
  ASSUME TypeOK, NEW t \in Turns, TryClaim(t) \/ GiveUp(t) \/ NoteClaim(t) \/ ReadHistory(t)
  PROVE  QueueFixed
BY DEF TryClaim, GiveUp, NoteClaim, ReadHistory, TypeOK, QueueFixed, NoneNew, GoTo, Fail,
       timelineVars, queueVars, laneVars

LEMMA EndsKeepsQueue ==
  ASSUME TypeOK, Queue, Order, NEW t \in Turns, NEW o \in Outcomes, Ends(t, o)
  PROVE  Queue' /\ Order'
<1>1. /\ state' = [state EXCEPT ![t] = "terminal"]
      /\ outcome' = [outcome EXCEPT ![t] = o]
      /\ UNCHANGED <<admitted, seqno>>
      /\ o # "none"
  BY DEF Ends, Terminate, Outcomes
<1>2. Queue'
  BY <1>1, ConstantsAssumption DEF Queue, TypeOK, Ends, NoneNew
<1>3. Order'
  BY <1>1 DEF Order, TypeOK, Ends, Queue
<1>. QED
  BY <1>2, <1>3


-----------------------------------------------------------------------------
(* What a step does to the operations.                                     *)

LEMMA StatusOf ==
  /\ \A t \in Turns : \A S : Has(t, S) <=> \E x \in Operations : x[1] = t /\ op[x] \in S
  /\ \A t \in Turns : \A S : Statuses(t) \subseteq S <=> \A x \in Operations : x[1] = t => op[x] \in S
<1>1. \A t \in Turns : \A s : s \in Statuses(t) <=> \E x \in Operations : x[1] = t /\ op[x] = s
  <2> SUFFICES ASSUME NEW t \in Turns, NEW s
               PROVE  s \in Statuses(t) <=> \E x \in Operations : x[1] = t /\ op[x] = s
    OBVIOUS
  <2>1. ASSUME NEW i \in Calls, s = op[<<t, i>>]
        PROVE  \E x \in Operations : x[1] = t /\ op[x] = s
    <3>1. <<t, i>> \in Operations /\ <<t, i>>[1] = t
      BY Pairs
    <3>. QED
      BY <2>1, <3>1
  <2>2. ASSUME NEW x \in Operations, x[1] = t, op[x] = s
        PROVE  \E i \in Calls : s = op[<<t, i>>]
    <3>1. x[2] \in Calls /\ x = <<t, x[2]>>
      BY <2>2, Pairs
    <3>. QED
      BY <2>2, <3>1
  <2>. QED
    BY <2>1, <2>2 DEF Statuses
<1>. QED
  BY <1>1 DEF Has

OthersFixed(x) ==
  /\ op' \in [Operations -> OpStatuses]
  /\ \A y \in Operations : y # x => op'[y] = op[y]

NoNewUnknown == \A t \in Turns : boundary'[t] = "unknown" => boundary[t] = "unknown"

OpFixed == UNCHANGED op /\ NoNewUnknown

Precommits(x) ==
  /\ MayPrecommit(x[1])
  /\ op[x] = "none" /\ op'[x] = "precommitted" /\ calls'[x[1]] = x[2]
  /\ OthersFixed(x) /\ NoNewUnknown

Starts(x) ==
  /\ op[x] = "precommitted" /\ op'[x] = "started"
  /\ state[x[1]] = "running" \/ Paused(x[1])
  /\ OthersFixed(x) /\ NoNewUnknown

Drops(x) ==
  /\ op[x] = "precommitted" /\ op'[x] = "abandoned"
  /\ OthersFixed(x) /\ NoNewUnknown

Settles(x) ==
  /\ op[x] \in Hot /\ op'[x] \in Known \cup {"unknown"}
  /\ op[x] = "unknown" => op'[x] = "unknown"
  /\ OthersFixed(x)
  /\ \A t \in Turns : boundary'[t] = "unknown" =>
       boundary[t] = "unknown" \/ (t = x[1] /\ op'[x] = "unknown")

OpMoves(x) == Precommits(x) \/ Starts(x) \/ Drops(x) \/ Settles(x)

\* A turn that ends conceals no effect.
EndsOpenly(t, o) ==
  /\ Ends(t, o)
  /\ OpFixed
  /\ IF o = "unknown" THEN Has(t, {"unknown"}) ELSE ~Has(t, Hot)

LEMMA SetsOp ==
  ASSUME TypeOK, NEW x \in Operations, NEW s \in OpStatuses, SetOp(x, s)
  PROVE  op'[x] = s /\ OthersFixed(x)
BY SetOpType DEF OthersFixed

LEMMA Records ==
  ASSUME TypeOK, NEW x \in Operations, NEW s \in Known \cup {"unknown"}, RecordResult(x, s),
         op[x] = "started" \/ (op[x] = "unknown" /\ s = "unknown")
  PROVE  Settles(x)
BY RecordType DEF Settles, OthersFixed, Hot, Known

LEMMA CallOps ==
  ASSUME TypeOK, Queue, Bound, NEW t \in Turns, CallStep(t)
  PROVE  OpFixed \/ \E x \in Operations : OpMoves(x)
<1>. DEFINE x == <<t, calls[t]>>
<1>1. pc[t] \in InCall => x \in Operations
  BY Pairs DEF Bound, Worked
<1>2. LeaseOk(t) => state[t] = "running"
  BY DEF LeaseOk, Queue
<1>3. CASE Precommit(t)
  <2>. DEFINE y == <<t, calls[t] + 1>>
  <2>1. y \in Operations /\ y[1] = t /\ y[2] > calls[t]
    BY <1>3, Pairs DEF Precommit, TypeOK
  <2>2. CASE MayPrecommit(t)
    <3>1. SetOp(y, "precommitted") /\ NoNewUnknown
      BY <1>3, <2>2 DEF Precommit, NoNewUnknown
    <3>2. op[y] = "none" /\ calls'[t] = y[2]
      BY <1>3, <2>1, Pairs DEF Bound, Precommit, TypeOK
    <3>3. Precommits(y)
      BY <2>1, <2>2, <3>1, <3>2, SetsOp, Places DEF Precommits
    <3>. QED
      BY <2>1, <3>3 DEF OpMoves
  <2>3. CASE ~MayPrecommit(t)
    BY <1>3, <2>3 DEF Precommit, OpFixed, NoNewUnknown
  <2>. QED
    BY <2>2, <2>3
<1>4. CASE MarkStarted(t)
  <2>1. CASE MayStart(t)
    <3>1. x \in Operations /\ x[1] = t
      BY <1>1, <1>4, Pairs DEF MarkStarted, InCall
    <3>2. op'[x] = "started" /\ OthersFixed(x)
      BY <1>4, <2>1, <3>1, SetsOp, Places DEF MarkStarted
    <3>3. NoNewUnknown
      BY <1>4, <2>1 DEF MarkStarted, NoNewUnknown, TypeOK
    <3>4. Starts(x)
      BY <1>2, <2>1, <3>1, <3>2, <3>3 DEF Starts, MayStart
    <3>. QED
      BY <3>1, <3>4 DEF OpMoves
  <2>2. CASE ~MayStart(t)
    BY <1>4, <2>2 DEF MarkStarted, OpFixed, NoNewUnknown
  <2>. QED
    BY <2>1, <2>2
<1>5. CASE Abandon(t)
  <2>1. CASE LeaseOk(t) /\ op[x] = "precommitted"
    <3>1. x \in Operations
      BY <1>1, <1>5 DEF Abandon, InCall
    <3>2. Drops(x)
      BY <1>5, <2>1, <3>1, SetsOp, Places DEF Abandon, Drops, NoNewUnknown
    <3>. QED
      BY <3>1, <3>2 DEF OpMoves
  <2>2. CASE ~(LeaseOk(t) /\ op[x] = "precommitted")
    BY <1>5, <2>2 DEF Abandon, OpFixed, NoNewUnknown
  <2>. QED
    BY <2>1, <2>2
<1>6. CASE PersistResult(t)
  <2>1. x \in Operations
    BY <1>1, <1>6, Reported DEF PersistResult, InCall
  <2>2. CASE UNCHANGED opVars
    BY <2>2 DEF opVars, OpFixed, NoNewUnknown
  <2>3. CASE op[x] = "started" /\ \E s \in Known \cup {"unknown"} : RecordResult(x, s)
    BY <2>1, <2>3, Records DEF OpMoves
  <2>. QED
    BY <1>6, <2>2, <2>3, Reported DEF PersistResult
<1>7. CASE RefuseTool(t) \/ StopShort(t) \/ AskApproval(t) \/ PersistPending(t) \/ NoteStarted(t)
           \/ BeginEffect(t) \/ EndEffect(t) \/ NoteResult(t)
  BY <1>7
  DEF RefuseTool, StopShort, AskApproval, PersistPending, NoteStarted, BeginEffect, EndEffect,
      NoteResult, timelineVars, opVars, OpFixed, NoNewUnknown
<1>. QED
  BY <1>3, <1>4, <1>5, <1>6, <1>7 DEF CallStep

LEMMA ApprovalOps ==
  ASSUME TypeOK, Bound, NEW t \in Turns, ApprovalStep(t)
  PROVE  OpFixed \/ \E x \in Operations : OpMoves(x)
<1>. DEFINE x == Asked(t)
<1>1. approval[t] # "none" => x \in Operations /\ x[1] = t
  BY Pairs DEF Bound, Worked, Asked
<1>2. CASE BeginContinuation(t) \/ SweepStarts(t)
  <2>1. x \in Operations /\ x[1] = t
    BY <1>1, <1>2 DEF BeginContinuation, SweepStarts, Handling
  <2>2. CASE SetOp(x, "started") /\ Paused(t) /\ op[x] = "precommitted"
    <3>1. Starts(x)
      BY <1>2, <2>1, <2>2, SetsOp, Places
      DEF BeginContinuation, SweepStarts, Starts, NoNewUnknown
    <3>. QED
      BY <2>1, <3>1 DEF OpMoves
  <2>3. CASE UNCHANGED op
    BY <1>2, <2>3 DEF BeginContinuation, SweepStarts, OpFixed, NoNewUnknown
  <2>. QED
    BY <1>2, <2>2, <2>3 DEF BeginContinuation, SweepStarts
<1>3. CASE AbandonContinuation(t)
  <2>1. x \in Operations
    BY <1>1, <1>3 DEF AbandonContinuation
  <2>2. CASE SetOp(x, "abandoned") /\ op[x] = "precommitted"
    <3>1. Drops(x)
      BY <1>3, <2>1, <2>2, SetsOp, Places DEF AbandonContinuation, Drops, NoNewUnknown
    <3>. QED
      BY <2>1, <3>1 DEF OpMoves
  <2>3. CASE UNCHANGED op
    BY <1>3, <2>3 DEF AbandonContinuation, OpFixed, NoNewUnknown
  <2>. QED
    BY <1>3, <2>2, <2>3 DEF AbandonContinuation
<1>4. CASE InterruptApproved(t) \/ RecordContinuation(t) \/ SweepRecords(t)
  <2>1. x \in Operations
    BY <1>1, <1>4 DEF InterruptApproved, RecordContinuation, SweepRecords, Bound, Worked
  <2>2. CASE UNCHANGED opVars
    BY <2>2 DEF opVars, OpFixed, NoNewUnknown
  <2>3. CASE op[x] = "started" /\ \E s \in Known \cup {"unknown"} : RecordResult(x, s)
    BY <2>1, <2>3, Records DEF OpMoves
  <2>. QED
    BY <1>4, <2>2, <2>3, Reported DEF InterruptApproved, RecordContinuation, SweepRecords
<1>5. CASE Decide(t) \/ BeginApproved(t) \/ EndApproved(t) \/ Redispatch(t) \/ LeaveLoop(t)
  BY <1>5
  DEF Decide, BeginApproved, EndApproved, Redispatch, LeaveLoop, timelineVars, opVars, OpFixed,
      NoNewUnknown
<1>. QED
  BY <1>2, <1>3, <1>4, <1>5 DEF ApprovalStep

LEMMA EndOps ==
  ASSUME TypeOK, Queue, OneLive, NEW t \in Turns,
         HeartbeatFails(t) \/ FinishStep(t) \/ CancelStep(t)
  PROVE  \/ QueueFixed /\ (OpFixed \/ \E x \in Operations : OpMoves(x))
         \/ \E o \in Outcomes : EndsOpenly(t, o)
<1>1. ASSUME NEW o \in Outcomes, MayEnd(t, o)
      PROVE  IF o = "unknown" THEN Has(t, {"unknown"}) ELSE ~Has(t, Hot)
  BY <1>1, StatusOf DEF MayEnd, Concealed, Outcomes, Hot
<1>2. state[t] = "queued" => ~Has(t, Hot)
  BY StatusOf DEF OneLive, Hot
<1>3. CASE HeartbeatFails(t) \/ StopWorking(t) \/ RequestCancel(t) \/ Interrupt(t)
  <2>1. OpFixed
    BY <1>3
    DEF HeartbeatFails, StopWorking, RequestCancel, Interrupt, timelineVars, opVars, OpFixed,
        NoNewUnknown
  <2>2. QueueFixed
    BY <1>3
    DEF HeartbeatFails, StopWorking, RequestCancel, Interrupt, timelineVars, queueVars, laneVars,
        TypeOK, QueueFixed, NoneNew, GoTo, Fail
  <2>. QED
    BY <2>1, <2>2
<1>4. CASE QuarantineCurrent(t)
  <2>. DEFINE x == <<t, current[t]>>
  <2>1. x \in Operations
    BY <1>4, Pairs, ConstantsAssumption DEF QuarantineCurrent, TypeOK
  <2>2. OpFixed \/ Settles(x)
    BY <1>4, <2>1, Records DEF QuarantineCurrent, Hot, OpFixed, NoNewUnknown, opVars
  <2>3. QueueFixed
    BY <1>4
    DEF QuarantineCurrent, queueVars, laneVars, TypeOK, QueueFixed, NoneNew, GoTo
  <2>. QED
    BY <2>1, <2>2, <2>3 DEF OpMoves
<1>5. CASE Finish(t)
  <2>1. OpFixed /\ NoneNew
    BY <1>5 DEF Finish, opVars, OpFixed, NoNewUnknown, NoneNew, GoTo, TypeOK
  <2>2. CASE MayEnd(t, Verdict(t))
    <3>1. Verdict(t) \in Outcomes
      BY Places DEF Verdict
    <3>2. Ends(t, Verdict(t))
      BY <1>5, <2>1, <2>2 DEF Finish, Ends, ReleaseLane, MayEnd, LeaseOk, Queue
    <3>. QED
      BY <1>1, <2>1, <2>2, <3>1, <3>2 DEF EndsOpenly
  <2>3. CASE ~MayEnd(t, Verdict(t))
    BY <1>5, <2>1, <2>3 DEF Finish, QueueFixed, queueVars, laneVars
  <2>. QED
    BY <2>2, <2>3
<1>6. CASE CancelTurn(t)
  <2>1. OpFixed /\ NoneNew
    BY <1>6 DEF CancelTurn, opVars, OpFixed, NoNewUnknown, NoneNew, workerVars
  <2>2. CASE Terminate(t, "cancelled")
    <3>1. \/ state[t] = "queued" /\ UNCHANGED lane
          \/ state[t] = "running" /\ MayEnd(t, "cancelled") /\ lane' = NoTurn
          \/ UNCHANGED <<queueVars, laneVars>>
      BY <1>6 DEF CancelTurn, ReleaseLane, laneVars
    <3>. QED
      BY <1>1, <1>2, <2>1, <2>2, <3>1, Places
      DEF Ends, EndsOpenly, QueueFixed, queueVars, laneVars
  <2>3. CASE UNCHANGED <<queueVars, laneVars>>
    BY <2>1, <2>3 DEF QueueFixed, queueVars, laneVars
  <2>. QED
    BY <1>6, <2>2, <2>3 DEF CancelTurn
<1>. QED
  BY <1>3, <1>4, <1>5, <1>6 DEF FinishStep, CancelStep

LEMMA RecoverOps ==
  ASSUME TypeOK, OneLive, NEW w \in Turns, NEW t \in Turns,
         RecoverAdmission(w, t) \/ RecoverUnstarted(w, t)
  PROVE  \E o \in Outcomes : EndsOpenly(t, o)
<1>1. OpFixed
  BY DEF RecoverAdmission, RecoverUnstarted, opVars, OpFixed, NoNewUnknown
<1>2. ~Has(t, Hot)
  BY StatusOf DEF RecoverAdmission, RecoverUnstarted, UnstartedIsProved, IsHead, OneLive, Hot
<1>3. \E o \in {"cancelled", "blocked"} : Ends(t, o)
  BY DEF RecoverAdmission, RecoverUnstarted, IsHead, StaleLane, ReleaseLane, Ends, NoneNew,
         workerVars, laneVars
<1>. QED
  BY <1>1, <1>2, <1>3, Places DEF EndsOpenly

\* Every step is of one of these kinds.
LEMMA StepKinds ==
  ASSUME TypeOK, Queue, OneLive, Bound, [Next]_vars
  PROVE  \/ QueueFixed /\ (OpFixed \/ \E x \in Operations : OpMoves(x))
         \/ OpFixed /\ \E t \in Turns : Admit(t) \/ Claim(t)
         \/ \E t \in Turns, o \in Outcomes : EndsOpenly(t, o)
         \/ \E w, t \in Turns : RecoverStarted(w, t)
<1>1. ASSUME NEW t \in Turns, ClaimStep(t) \/ Admit(t)
      PROVE  OpFixed /\ (Admit(t) \/ Claim(t) \/ QueueFixed)
  BY <1>1, ClaimStepQueue
  DEF ClaimStep, Admit, TryClaim, Claim, GiveUp, NoteClaim, ReadHistory, timelineVars, opVars,
      OpFixed, NoNewUnknown
<1>2. /\ \A t \in Turns : LeaseStep(t) \/ CrashStep(t) => OpFixed
      /\ \A x \in Operations : OrphanLands(x) => OpFixed
      /\ UNCHANGED vars => OpFixed
  BY DEF LeaseStep, CrashStep, AdmissionExpires, LeaseExpires, WorkerCrash, HandlerCrash,
         SweepCrash, OrphanLands, vars, timelineVars, opVars, OpFixed, NoNewUnknown
<1>. QED
  BY <1>1, <1>2, CallQueue, CallOps, ApprovalQueue, ApprovalOps, EndOps, RecoverOps, RestQueue
  DEF Next, WorkerStep, Recover

LEMMA RecoverStartedEnds ==
  ASSUME NEW w \in Turns, NEW t \in Turns, RecoverStarted(w, t)
  PROVE  Ends(t, "unknown")
BY DEF RecoverStarted, StaleLane, ReleaseLane, Ends, NoneNew, workerVars

LEMMA NextQueue ==
  ASSUME TypeOK, Queue, Order, OneLive, Bound, [Next]_vars
  PROVE  Queue' /\ Order'
<1>1. CASE QueueFixed
  BY <1>1 DEF QueueFixed, NoneNew, Queue, Order
<1>2. ASSUME NEW t \in Turns, Admit(t) PROVE Queue' /\ Order'
  <2>1. /\ state[t] = "absent"
        /\ outcome[t] = "none"
        /\ admitted' = admitted + 1
        /\ seqno' = [seqno EXCEPT ![t] = admitted + 1]
        /\ state' = [state EXCEPT ![t] = "queued"]
        /\ pc' = [pc EXCEPT ![t] = "waiting"]
        /\ UNCHANGED <<outcome, lane>>
    BY <1>2 DEF Admit, Queue, GoTo, laneVars
  <2>2. Queue'
    BY <2>1 DEF Queue, TypeOK
  <2>3. Order'
    BY <2>1 DEF Order, Queue, TypeOK
  <2>. QED
    BY <2>2, <2>3
<1>3. ASSUME NEW t \in Turns, Claim(t) PROVE Queue' /\ Order'
  <2>1. CASE lane = NoTurn /\ IsHead(t) /\ admission[t]
    <3>1. /\ state[t] = "queued"
          /\ lane = NoTurn
          /\ state' = [state EXCEPT ![t] = "running"]
          /\ lane' = t
          /\ pc' = [pc EXCEPT ![t] = "claiming"]
          /\ UNCHANGED <<admitted, seqno, outcome>>
      BY <1>3, <2>1 DEF Claim, IsHead, GoTo
    <3>2. Queue'
      BY <3>1, ConstantsAssumption DEF Queue, TypeOK
    <3>3. Order'
      BY <2>1, <3>1, ConstantsAssumption DEF Order, Queue, IsHead, TypeOK
    <3>. QED
      BY <3>2, <3>3
  <2>2. CASE ~(lane = NoTurn /\ IsHead(t) /\ admission[t])
    BY <1>3, <2>2 DEF Claim, GoTo, Queue, Order, TypeOK
  <2>. QED
    BY <2>1, <2>2
<1>4. ASSUME NEW w \in Turns, NEW t \in Turns, RecoverStarted(w, t) PROVE Queue' /\ Order'
  BY <1>4, RecoverStartedEnds, EndsKeepsQueue, Places
<1>. QED
  BY <1>1, <1>2, <1>3, <1>4, EndsKeepsQueue, StepKinds DEF EndsOpenly

-----------------------------------------------------------------------------
(* One live operation.                                                     *)

\* An operation can be precommitted only if no other is live: a turn that holds
\* the lane was admitted after every turn that paused.
LEMMA PrecommitAlone ==
  ASSUME TypeOK, Queue, Order, OneLive, NEW t \in Turns, MayPrecommit(t),
         NEW y \in Operations, LiveOp(y)
  PROVE  FALSE
<1>. DEFINE u == y[1]
<1>1. u \in Turns /\ state[t] = "running"
  BY Pairs DEF MayPrecommit, LeaseOk, Queue
<1>2. op[y] # "unknown"
  BY <1>1, StatusOf DEF MayPrecommit, Quarantined
<1>3. op[y] \in {"precommitted", "started"}
  BY <1>2 DEF LiveOp, Hot
<1>4. outcome[u] # "unknown"
  BY <1>1 DEF MayPrecommit, Quarantined
<1>5. state[u] = "running" \/ outcome[u] = "blocked"
  BY <1>1, <1>3, <1>4 DEF LiveOp, OneLive, Hot
<1>6. CASE state[u] = "running"
  <2>1. u = t
    BY <1>1, <1>6 DEF Queue
  <2>. QED
    BY <1>1, <1>3, <2>1, StatusOf DEF MayPrecommit, Resolved, Known
<1>7. CASE outcome[u] = "blocked"
  <2>1. seqno[u] < seqno[t]
    BY <1>1, <1>7 DEF Order
  <2>. QED
    BY <1>1, <1>3, <1>7, <2>1, StatusOf DEF MayPrecommit, ContinuationPending
<1>. QED
  BY <1>5, <1>6, <1>7

LEMMA MoveKeepsOneLive ==
  ASSUME TypeOK, Queue, Order, OneLive, QueueFixed, NEW x \in Operations, OpMoves(x)
  PROVE  OneLive'
<1>. DEFINE t == x[1]
<1>1. t \in Turns /\ \A y \in Operations : y # x => op'[y] = op[y]
  BY Pairs DEF OpMoves, Precommits, Starts, Drops, Settles, OthersFixed
<1>2. UNCHANGED <<state, outcome>>
  BY DEF QueueFixed
<1>3. \A y \in Operations : y # x /\ LiveOp(y)' => LiveOp(y)
  BY <1>1, <1>2 DEF LiveOp
<1>4. CASE Precommits(x)
  <2>1. state[t] = "running"
    BY <1>1, <1>4 DEF Precommits, MayPrecommit, LeaseOk, Queue
  <2>2. \A y \in Operations : ~LiveOp(y)
    BY <1>1, <1>4, PrecommitAlone DEF Precommits
  <2>. QED
    BY <1>1, <1>2, <1>3, <1>4, <2>1, <2>2 DEF OneLive, Precommits, Hot
<1>5. CASE Starts(x)
  <2>1. LiveOp(x)
    BY <1>5 DEF Starts, LiveOp, Paused
  <2>. QED
    BY <1>1, <1>2, <1>3, <1>5, <2>1 DEF OneLive, Starts, Paused
<1>6. CASE Drops(x)
  BY <1>1, <1>2, <1>3, <1>6 DEF OneLive, Drops, LiveOp, Hot
<1>7. CASE Settles(x)
  <2>1. LiveOp(x)
    BY <1>7 DEF Settles, LiveOp
  <2>. QED
    BY <1>1, <1>2, <1>3, <1>7, <2>1 DEF OneLive, Settles, Hot, Known
<1>. QED
  BY <1>4, <1>5, <1>6, <1>7 DEF OpMoves

LEMMA EndsKeepsOneLive ==
  ASSUME TypeOK, Queue, OneLive, NEW t \in Turns, NEW o \in Outcomes, EndsOpenly(t, o)
  PROVE  OneLive'
<1>1. /\ state' = [state EXCEPT ![t] = "terminal"]
      /\ outcome' = [outcome EXCEPT ![t] = o]
      /\ UNCHANGED op
      /\ state[t] \in {"queued", "running"}
  BY DEF EndsOpenly, Ends, Terminate, OpFixed
<1>2. \A x \in Operations : x[1] \in Turns
  BY Pairs
<1>3. state[t] = "queued" => \A x \in Operations : x[1] = t => op[x] = "none"
  BY DEF OneLive
<1>4. o # "unknown" => \A x \in Operations : x[1] = t => op[x] \notin Hot
  BY StatusOf DEF EndsOpenly
<1>5. \A x \in Operations : LiveOp(x)' => LiveOp(x)
  BY <1>1, <1>2, <1>3 DEF LiveOp, TypeOK
<1>6. \A x \in Operations : op'[x] # "none" => state'[x[1]] \in {"running", "terminal"}
  BY <1>1, <1>2 DEF OneLive, TypeOK
<1>7. \A x \in Operations :
        op'[x] \in Hot => state'[x[1]] = "running" \/ outcome'[x[1]] \in {"blocked", "unknown"}
  <2> SUFFICES ASSUME NEW x \in Operations, op[x] \in Hot
               PROVE  state'[x[1]] = "running" \/ outcome'[x[1]] \in {"blocked", "unknown"}
    BY <1>1
  <2>1. CASE x[1] = t
    BY <1>1, <1>4, <2>1 DEF TypeOK
  <2>2. CASE x[1] # t
    BY <1>1, <1>2, <2>2 DEF OneLive, TypeOK
  <2>. QED
    BY <2>1, <2>2
<1>. QED
  BY <1>5, <1>6, <1>7 DEF OneLive

LEMMA RecoverKeepsOneLive ==
  ASSUME TypeOK, Queue, OneLive, NEW w \in Turns, NEW t \in Turns, RecoverStarted(w, t)
  PROVE  OneLive'
<1>1. /\ state' = [state EXCEPT ![t] = "terminal"]
      /\ outcome' = [outcome EXCEPT ![t] = "unknown"]
      /\ state[t] = "running"
  BY DEF RecoverStarted, Terminate, StaleLane
<1>2. \A x \in Operations : x[1] \in Turns
  BY Pairs
<1>3. \A x \in Operations :
        op'[x] = IF x[1] = t /\ op[x] = "started" THEN "unknown" ELSE op[x]
  BY DEF RecoverStarted
<1>4. \A x \in Operations : LiveOp(x)' => LiveOp(x)
  BY <1>1, <1>2, <1>3 DEF LiveOp, Hot, TypeOK
<1>5. \A x \in Operations : op'[x] # "none" => state'[x[1]] \in {"running", "terminal"}
  BY <1>1, <1>2, <1>3 DEF OneLive, TypeOK
<1>6. \A x \in Operations :
        op'[x] \in Hot => state'[x[1]] = "running" \/ outcome'[x[1]] \in {"blocked", "unknown"}
  BY <1>1, <1>2, <1>3 DEF OneLive, Hot, TypeOK
<1>. QED
  BY <1>4, <1>5, <1>6 DEF OneLive

LEMMA NextOneLive ==
  ASSUME TypeOK, Queue, Order, OneLive, Bound, [Next]_vars
  PROVE  OneLive'
<1>1. CASE QueueFixed /\ OpFixed
  BY <1>1 DEF QueueFixed, OpFixed, OneLive, LiveOp
<1>2. CASE OpFixed /\ \E t \in Turns : Admit(t) \/ Claim(t)
  <2>1. \A x \in Operations : x[1] \in Turns
    BY Pairs
  <2>2. PICK t \in Turns : Admit(t) \/ Claim(t)
    BY <1>2
  <2>3. /\ UNCHANGED <<op, outcome>>
        /\ UNCHANGED state \/ state' = [state EXCEPT ![t] = "queued"]
                           \/ state' = [state EXCEPT ![t] = "running"]
        /\ state' # state => state[t] \in {"absent", "queued"}
    BY <1>2, <2>2 DEF OpFixed, Admit, Claim, IsHead, Queue, TypeOK
  <2>4. state' # state => \A x \in Operations : x[1] = t => op[x] = "none"
    BY <2>3 DEF OneLive
  <2>5. \A x \in Operations : op[x] # "none" => state'[x[1]] = state[x[1]]
    BY <2>1, <2>3, <2>4 DEF TypeOK
  <2>. QED
    BY <2>1, <2>3, <2>5 DEF OneLive, LiveOp, Hot
<1>. QED
  BY <1>1, <1>2, MoveKeepsOneLive, EndsKeepsOneLive, RecoverKeepsOneLive, StepKinds

-----------------------------------------------------------------------------
(* What quarantines the session, and what a worker and a handler work on.  *)

LEMMA NextLost ==
  ASSUME TypeOK, Queue, OneLive, Bound, Lost, [Next]_vars
  PROVE  Lost'
<1>1. \A x \in Operations : op[x] = "unknown" => op'[x] = "unknown"
  BY StepKinds
  DEF EndsOpenly, OpFixed, OpMoves, Precommits, Starts, Drops, Settles, OthersFixed, Admit, Claim,
      opVars, RecoverStarted
<1>2. CASE UNCHANGED outcome /\ NoNewUnknown
  BY <1>1, <1>2 DEF Lost, NoNewUnknown
<1>3. ASSUME NEW x \in Operations, Settles(x), UNCHANGED outcome PROVE Lost'
  BY <1>1, <1>3 DEF Lost, Settles
<1>4. ASSUME NEW t \in Turns, NEW o \in Outcomes, EndsOpenly(t, o) PROVE Lost'
  <2>1. outcome' = [outcome EXCEPT ![t] = o] /\ NoNewUnknown
    BY <1>4 DEF EndsOpenly, Ends, Terminate, OpFixed
  <2>2. o = "unknown" => \E x \in Operations : x[1] = t /\ op[x] = "unknown"
    BY <1>4, StatusOf DEF EndsOpenly
  <2>. QED
    BY <1>1, <2>1, <2>2 DEF Lost, NoNewUnknown, TypeOK
<1>5. ASSUME NEW w \in Turns, NEW t \in Turns, RecoverStarted(w, t) PROVE Lost'
  <2>1. /\ outcome' = [outcome EXCEPT ![t] = "unknown"]
        /\ boundary' = [boundary EXCEPT ![t] = "unknown"]
    BY <1>5 DEF RecoverStarted, Terminate
  <2>2. PICK x \in Operations : x[1] = t /\ op[x] = "started"
    BY <1>5, StatusOf DEF RecoverStarted
  <2>3. op'[x] = "unknown"
    BY <1>5, <2>2 DEF RecoverStarted
  <2>. QED
    BY <1>1, <2>1, <2>2, <2>3 DEF Lost, TypeOK
<1>. QED
  BY <1>2, <1>3, <1>4, <1>5, StepKinds
  DEF QueueFixed, OpFixed, OpMoves, Precommits, Starts, Drops, Admit, Claim

LEMMA CallWorked ==
  ASSUME TypeOK, Worked, NEW t \in Turns, CallStep(t)
  PROVE  Worked'
<1>1. CASE Precommit(t)
  <2>1. calls' = [calls EXCEPT ![t] = calls[t] + 1] /\ calls[t] + 1 \in Calls
    BY <1>1 DEF Precommit
  <2>2. CASE MayPrecommit(t)
    <3>1. "blocked" \notin flags[t]
      BY <2>2 DEF MayPrecommit
    <3>2. pc' = [pc EXCEPT ![t] = "bound"] /\ UNCHANGED <<flags, approvalVars>>
      BY <1>1, <2>2 DEF Precommit
    <3>. QED
      BY <2>1, <3>1, <3>2 DEF Worked, TypeOK, approvalVars
  <2>3. CASE ~MayPrecommit(t)
    BY <1>1, <2>1, <2>3 DEF Precommit, Raise, Worked, TypeOK, approvalVars
  <2>. QED
    BY <2>2, <2>3
<1>2. CASE RefuseTool(t) \/ StopShort(t) \/ NoteResult(t)
  BY <1>2
  DEF RefuseTool, StopShort, NoteResult, GoTo, Raise, Worked, InCall, TypeOK, approvalVars
<1>3. CASE MarkStarted(t) \/ PersistPending(t) \/ BeginEffect(t) \/ EndEffect(t)
  BY <1>3
  DEF MarkStarted, PersistPending, BeginEffect, EndEffect, GoTo, Fail, Raise, Worked, InCall,
      TypeOK, approvalVars
<1>4. CASE Abandon(t) \/ NoteStarted(t) \/ PersistResult(t)
  BY <1>4, Reported
  DEF Abandon, NoteStarted, PersistResult, GoTo, Fail, Raise, Worked, InCall, TypeOK, approvalVars
<1>5. CASE AskApproval(t)
  BY <1>5 DEF AskApproval, Raise, Worked, InCall, TypeOK
<1>. QED
  BY <1>1, <1>2, <1>3, <1>4, <1>5 DEF CallStep

LEMMA OtherWorked ==
  ASSUME TypeOK, Worked, NEW t \in Turns,
         \/ Admit(t) \/ ClaimStep(t) \/ HeartbeatFails(t)
         \/ FinishStep(t) \/ CancelStep(t) \/ ApprovalStep(t) \/ LeaseStep(t) \/ CrashStep(t)
         \/ \E w \in Turns : Recover(w, t)
         \/ \E x \in Operations : OrphanLands(x)
         \/ UNCHANGED vars
  PROVE  Worked'
<1>1. CASE Admit(t) \/ ClaimStep(t)
  BY <1>1
  DEF Admit, ClaimStep, TryClaim, Claim, GiveUp, NoteClaim, ReadHistory, GoTo, Fail, Raise,
      Worked, InCall, TypeOK, approvalVars
<1>2. CASE HeartbeatFails(t) \/ FinishStep(t)
  BY <1>2
  DEF HeartbeatFails, FinishStep, StopWorking, QuarantineCurrent, Finish, GoTo, Fail, Raise,
      Worked, InCall, TypeOK, approvalVars
<1>3. CASE CancelStep(t)
  BY <1>3
  DEF CancelStep, RequestCancel, CancelTurn, Interrupt, GoTo, Raise, workerVars,
      Worked, InCall, TypeOK, approvalVars
<1>4. CASE ApprovalStep(t)
  BY <1>4
  DEF ApprovalStep, Decide, BeginContinuation, AbandonContinuation, BeginApproved, EndApproved,
      InterruptApproved, RecordContinuation, Redispatch, LeaveLoop, SweepStarts, SweepRecords,
      Handler, workerVars, Worked, TypeOK, Handling
<1>5. CASE LeaseStep(t) \/ CrashStep(t)
  BY <1>5
  DEF LeaseStep, CrashStep, AdmissionExpires, LeaseExpires, WorkerCrash, HandlerCrash, SweepCrash,
      GoTo, Handler, workerVars, Worked, InCall, TypeOK, Handling, approvalVars
<1>6. CASE \E w \in Turns : Recover(w, t)
  BY <1>6
  DEF Recover, RecoverAdmission, RecoverUnstarted, RecoverStarted, workerVars, approvalVars, Worked
<1>7. CASE (\E x \in Operations : OrphanLands(x)) \/ UNCHANGED vars
  BY <1>7 DEF OrphanLands, vars, workerVars, approvalVars, Worked
<1>. QED
  BY <1>1, <1>2, <1>3, <1>4, <1>5, <1>6, <1>7

LEMMA NextWorked == TypeOK /\ Worked /\ [Next]_vars => Worked'
<1> SUFFICES ASSUME TypeOK, Worked, [Next]_vars PROVE Worked'
  OBVIOUS
<1>1. CASE Turns = {}
  BY <1>1 DEF Worked
<1>2. CASE Turns # {}
  BY <1>2, CallWorked, OtherWorked DEF Next, WorkerStep
<1>. QED
  BY <1>1, <1>2

LEMMA CallsGrow ==
  ASSUME TypeOK, [Next]_vars, NEW t \in Turns
  PROVE  calls[t] <= calls'[t]
<1>1. calls[t] \in Nat
  BY ConstantsAssumption DEF TypeOK
<1>2. \A u \in Turns : Precommit(u) => calls' = [calls EXCEPT ![u] = calls[u] + 1]
  BY DEF Precommit
<1>3. \A u \in Turns : CallStep(u) => Precommit(u) \/ UNCHANGED calls
  BY DEF CallStep, RefuseTool, MarkStarted, StopShort, Abandon, AskApproval, PersistPending,
         NoteStarted, BeginEffect, EndEffect, PersistResult, NoteResult, GoTo, Fail
<1>4. \A u \in Turns : Admit(u) \/ ClaimStep(u) => UNCHANGED calls
  BY DEF Admit, ClaimStep, TryClaim, Claim, GiveUp, NoteClaim, ReadHistory, GoTo, Fail
<1>5. \A u \in Turns : HeartbeatFails(u) \/ FinishStep(u) \/ CancelStep(u) => UNCHANGED calls
  BY DEF HeartbeatFails, FinishStep, StopWorking, QuarantineCurrent, Finish, CancelStep,
         RequestCancel, CancelTurn, Interrupt, GoTo, Fail, workerVars
<1>6. \A u \in Turns : ApprovalStep(u) => UNCHANGED calls
  BY DEF ApprovalStep, Decide, BeginContinuation, AbandonContinuation, BeginApproved, EndApproved,
         InterruptApproved, RecordContinuation, Redispatch, LeaveLoop, SweepStarts, SweepRecords,
         workerVars
<1>7. \A u, w \in Turns : LeaseStep(u) \/ CrashStep(u) \/ Recover(w, u) => UNCHANGED calls
  BY DEF LeaseStep, CrashStep, AdmissionExpires, LeaseExpires, WorkerCrash, HandlerCrash,
         SweepCrash, Recover, RecoverAdmission, RecoverUnstarted, RecoverStarted, GoTo, workerVars
<1>8. (\E x \in Operations : OrphanLands(x)) \/ UNCHANGED vars => UNCHANGED calls
  BY DEF OrphanLands, vars, workerVars
<1>9. UNCHANGED calls \/ \E u \in Turns : calls' = [calls EXCEPT ![u] = calls[u] + 1]
  BY <1>2, <1>3, <1>4, <1>5, <1>6, <1>7, <1>8 DEF Next, WorkerStep
<1>. QED
  BY <1>1, <1>9 DEF TypeOK

\* A turn that ended stays as it ended.
LEMMA TerminalStays ==
  ASSUME TypeOK, Queue, OneLive, Bound, [Next]_vars, NEW t \in Turns, state[t] = "terminal"
  PROVE  state'[t] = state[t] /\ outcome'[t] = outcome[t]
<1>1. CASE QueueFixed
  BY <1>1 DEF QueueFixed
<1>2. ASSUME NEW u \in Turns, Admit(u) \/ Claim(u)
      PROVE  state'[t] = state[t] /\ outcome'[t] = outcome[t]
  <2>1. UNCHANGED outcome
    BY <1>2 DEF Admit, Claim
  <2>2. \/ UNCHANGED state
        \/ u # t /\ \E s \in {"queued", "running"} : state' = [state EXCEPT ![u] = s]
    BY <1>2 DEF Admit, Claim, IsHead, Queue
  <2>. QED
    BY <2>1, <2>2 DEF TypeOK
<1>3. ASSUME NEW u \in Turns, NEW o \in Outcomes, Ends(u, o)
      PROVE  state'[t] = state[t] /\ outcome'[t] = outcome[t]
  <2>1. u # t
    BY <1>3 DEF Ends
  <2>. QED
    BY <1>3, <2>1 DEF Ends, Terminate, TypeOK
<1>. QED
  BY <1>1, <1>2, <1>3, RecoverStartedEnds, StepKinds, Places DEF EndsOpenly

\* Who touches the approvals, the effects, and the pc of a worker in its call.
LEMMA ApprovalOnly ==
  ASSUME [Next]_vars
  PROVE  \/ UNCHANGED <<approval, ask>>
         \/ \E u \in Turns : AskApproval(u) \/ ApprovalStep(u) \/ HandlerCrash(u)
<1>1. \A u \in Turns : CallStep(u) => UNCHANGED <<approval, ask>> \/ AskApproval(u)
  BY DEF CallStep, Precommit, RefuseTool, MarkStarted, StopShort, Abandon, PersistPending,
         NoteStarted, BeginEffect, EndEffect, PersistResult, NoteResult, approvalVars
<1>2. \A u \in Turns : Admit(u) \/ ClaimStep(u) => UNCHANGED <<approval, ask>>
  BY DEF Admit, ClaimStep, TryClaim, Claim, GiveUp, NoteClaim, ReadHistory, approvalVars
<1>3. \A u \in Turns :
        HeartbeatFails(u) \/ FinishStep(u) \/ CancelStep(u) => UNCHANGED <<approval, ask>>
  BY DEF HeartbeatFails, FinishStep, StopWorking, QuarantineCurrent, Finish, CancelStep,
         RequestCancel, CancelTurn, Interrupt, approvalVars
<1>4. \A u, w \in Turns : LeaseStep(u) \/ Recover(w, u) => UNCHANGED <<approval, ask>>
  BY DEF LeaseStep, AdmissionExpires, LeaseExpires, Recover, RecoverAdmission,
         RecoverUnstarted, RecoverStarted, approvalVars
<1>5. \A u \in Turns : CrashStep(u) => UNCHANGED <<approval, ask>> \/ HandlerCrash(u)
  BY DEF CrashStep, WorkerCrash, SweepCrash, approvalVars
<1>6. (\E x \in Operations : OrphanLands(x)) \/ UNCHANGED vars => UNCHANGED <<approval, ask>>
  BY DEF OrphanLands, vars, approvalVars
<1>. QED
  BY <1>1, <1>2, <1>3, <1>4, <1>5, <1>6 DEF Next, WorkerStep

LEMMA HandlerMoves ==
  ASSUME TypeOK, [Next]_vars, NEW t \in Turns, approval'[t] \in {"effect", "in", "ran", "detached"}
  PROVE  \/ approval'[t] = approval[t] /\ ask'[t] = ask[t]
         \/ BeginContinuation(t) /\ Paused(t) /\ op[Asked(t)] = "precommitted"
         \/ BeginApproved(t) \/ EndApproved(t)
<1>1. ASSUME NEW u \in Turns, AskApproval(u) \/ HandlerCrash(u)
      PROVE  approval'[t] = approval[t] /\ ask'[t] = ask[t]
  BY <1>1 DEF AskApproval, HandlerCrash, Handler, TypeOK
<1>2. ASSUME NEW u \in Turns, ApprovalStep(u), u # t
      PROVE  approval'[t] = approval[t] /\ ask'[t] = ask[t]
  BY <1>2
  DEF ApprovalStep, Decide, BeginContinuation, AbandonContinuation, BeginApproved,
      EndApproved, InterruptApproved, RecordContinuation, Redispatch, LeaveLoop, SweepStarts,
      SweepRecords, Handler, TypeOK
<1>3. ASSUME ApprovalStep(t)
      PROVE  \/ approval'[t] = approval[t] /\ ask'[t] = ask[t]
             \/ BeginContinuation(t) /\ Paused(t) /\ op[Asked(t)] = "precommitted"
             \/ BeginApproved(t) \/ EndApproved(t)
  BY <1>3
  DEF ApprovalStep, Decide, BeginContinuation, AbandonContinuation, InterruptApproved,
      RecordContinuation, Redispatch, LeaveLoop, SweepStarts, SweepRecords, Handler, TypeOK
<1>. QED
  BY <1>1, <1>2, <1>3, ApprovalOnly

LEMMA GhostOnly ==
  ASSUME [Next]_vars
  PROVE  \/ UNCHANGED ghostVars
         \/ \E u \in Turns : BeginEffect(u) \/ EndEffect(u) \/ BeginApproved(u) \/ EndApproved(u)
         \/ \E x \in Operations : OrphanLands(x)
<1>1. \A u \in Turns : CallStep(u) => UNCHANGED ghostVars \/ BeginEffect(u) \/ EndEffect(u)
  BY DEF CallStep, Precommit, RefuseTool, MarkStarted, StopShort, Abandon, PersistPending,
         AskApproval, NoteStarted, PersistResult, NoteResult
<1>2. \A u \in Turns : ApprovalStep(u) => UNCHANGED ghostVars \/ BeginApproved(u) \/ EndApproved(u)
  BY DEF ApprovalStep, Decide, BeginContinuation, AbandonContinuation, InterruptApproved,
         RecordContinuation, Redispatch, LeaveLoop, SweepStarts, SweepRecords
<1>3. \A u \in Turns : Admit(u) \/ ClaimStep(u) => UNCHANGED ghostVars
  BY DEF Admit, ClaimStep, TryClaim, Claim, GiveUp, NoteClaim, ReadHistory
<1>4. \A u \in Turns : HeartbeatFails(u) \/ FinishStep(u) \/ CancelStep(u) => UNCHANGED ghostVars
  BY DEF HeartbeatFails, FinishStep, StopWorking, QuarantineCurrent, Finish, CancelStep,
         RequestCancel, CancelTurn, Interrupt
<1>5. \A u, w \in Turns : LeaseStep(u) \/ CrashStep(u) \/ Recover(w, u) => UNCHANGED ghostVars
  BY DEF LeaseStep, AdmissionExpires, LeaseExpires, CrashStep, WorkerCrash, HandlerCrash,
         SweepCrash, Recover, RecoverAdmission, RecoverUnstarted, RecoverStarted
<1>. QED
  BY <1>1, <1>2, <1>3, <1>4, <1>5 DEF Next, WorkerStep, vars

LEMMA PcMoves ==
  ASSUME TypeOK, [Next]_vars, NEW t \in Turns,
         pc'[t] \in {"marked", "effect", "in", "ran", "detached"}
  PROVE  \/ pc'[t] = pc[t] /\ calls'[t] = calls[t]
         \/ MarkStarted(t) /\ MayStart(t)
         \/ NoteStarted(t) \/ BeginEffect(t) \/ EndEffect(t)
<1>. DEFINE Same == pc'[t] = pc[t] /\ calls'[t] = calls[t]
<1>1. ASSUME NEW u \in Turns, Admit(u) \/ ClaimStep(u) PROVE Same
  BY <1>1 DEF Admit, ClaimStep, TryClaim, Claim, GiveUp, NoteClaim, ReadHistory, GoTo, Fail, TypeOK
<1>2. ASSUME NEW u \in Turns, u # t, CallStep(u) PROVE Same
  <2>1. CASE Precommit(u) \/ RefuseTool(u) \/ MarkStarted(u) \/ StopShort(u) \/ Abandon(u)
    BY <1>2, <2>1 DEF Precommit, RefuseTool, MarkStarted, StopShort, Abandon, GoTo, Fail, TypeOK
  <2>2. CASE AskApproval(u) \/ PersistPending(u) \/ NoteStarted(u) \/ BeginEffect(u)
    BY <1>2, <2>2 DEF AskApproval, PersistPending, NoteStarted, BeginEffect, GoTo, Fail, TypeOK
  <2>3. CASE EndEffect(u) \/ PersistResult(u) \/ NoteResult(u)
    BY <1>2, <2>3 DEF EndEffect, PersistResult, NoteResult, GoTo, Fail, TypeOK
  <2>. QED
    BY <1>2, <2>1, <2>2, <2>3 DEF CallStep
<1>3. ASSUME CallStep(t)
      PROVE  Same \/ (MarkStarted(t) /\ MayStart(t)) \/ NoteStarted(t) \/ BeginEffect(t) \/ EndEffect(t)
  <2>1. ~(Precommit(t) \/ StopShort(t) \/ Abandon(t) \/ AskApproval(t))
    BY DEF Precommit, StopShort, Abandon, AskApproval, GoTo, Fail, TypeOK
  <2>2. ~(PersistPending(t) \/ PersistResult(t) \/ NoteResult(t))
    BY DEF PersistPending, PersistResult, NoteResult, GoTo, Fail, TypeOK
  <2>3. MarkStarted(t) => MayStart(t)
    BY DEF MarkStarted, GoTo, TypeOK
  <2>4. RefuseTool(t) => Same
    BY DEF RefuseTool
  <2>. QED
    BY <1>3, <2>1, <2>2, <2>3, <2>4 DEF CallStep
<1>4. ASSUME NEW u \in Turns, HeartbeatFails(u) \/ FinishStep(u) \/ CancelStep(u) PROVE Same
  BY <1>4
  DEF HeartbeatFails, FinishStep, StopWorking, QuarantineCurrent, Finish, CancelStep,
      RequestCancel, CancelTurn, Interrupt, GoTo, Fail, workerVars, TypeOK
<1>5. ASSUME NEW u \in Turns, NEW w \in Turns, LeaseStep(u) \/ CrashStep(u) \/ Recover(w, u)
      PROVE  Same
  BY <1>5
  DEF LeaseStep, AdmissionExpires, LeaseExpires, CrashStep, WorkerCrash, HandlerCrash, SweepCrash,
      Recover, RecoverAdmission, RecoverUnstarted, RecoverStarted, GoTo, workerVars, TypeOK
<1>6. ASSUME NEW u \in Turns, ApprovalStep(u) PROVE Same
  BY <1>6
  DEF ApprovalStep, Decide, BeginContinuation, AbandonContinuation, BeginApproved, EndApproved,
      InterruptApproved, RecordContinuation, Redispatch, LeaveLoop, SweepStarts, SweepRecords,
      workerVars
<1>7. (\E x \in Operations : OrphanLands(x)) \/ UNCHANGED vars => Same
  BY DEF OrphanLands, vars, workerVars
<1>. QED
  BY <1>1, <1>2, <1>3, <1>4, <1>5, <1>6, <1>7 DEF Next, WorkerStep

\* Who records a known result, and of which return.
KnownOf(x) ==
  \/ /\ pc[x[1]] \in {"ran", "detached"} /\ op'[x] \in Reports[pc[x[1]]]
     /\ PersistResult(x[1]) /\ x = <<x[1], calls[x[1]]>>
  \/ /\ approval[x[1]] \in {"ran", "detached"} /\ op'[x] \in Reports[approval[x[1]]]
     /\ RecordContinuation(x[1]) /\ x = Asked(x[1])

LEMMA KnownBy ==
  ASSUME TypeOK, Queue, OneLive, Bound, [Next]_vars,
         NEW x \in Operations, op[x] \in Hot, op'[x] \notin Hot
  PROVE  KnownOf(x)
<1>. DEFINE Goal == KnownOf(x)
<1>1. ASSUME NEW u \in Turns, CallStep(u) PROVE Goal
  <2>. DEFINE y == <<u, calls[u]>>
  <2>1. pc[u] \in InCall => y \in Operations
    BY Pairs DEF Bound, Worked
  <2>2. CASE PersistResult(u)
    <3>1. y \in Operations /\ y[1] = u /\ pc[u] \in Returned
      BY <2>1, <2>2, Reported DEF PersistResult, InCall
    <3>2. PICK s \in Reports[pc[u]] : RecordResult(y, s)
      BY <2>2 DEF PersistResult, opVars
    <3>3. x = y /\ op'[x] = s
      BY <3>1, <3>2, Reported, RecordType
    <3>4. pc[u] \in {"ran", "detached"}
      BY <3>1, <3>2, <3>3, Reported DEF Hot
    <3>. QED
      BY <2>2, <3>1, <3>2, <3>3, <3>4 DEF KnownOf
  <2>3. CASE ~PersistResult(u)
    <3>1. UNCHANGED op \/ \E z \in Operations, s \in {"precommitted", "started", "abandoned"} :
                            SetOp(z, s) /\ op[z] \notin Hot
      <4>1. Precommit(u) => UNCHANGED op \/ (SetOp(<<u, calls[u] + 1>>, "precommitted")
                               /\ <<u, calls[u] + 1>> \in Operations
                               /\ op[<<u, calls[u] + 1>>] \notin Hot)
        <5> HAVE Precommit(u)
        <5>1. <<u, calls[u] + 1>> \in Operations
          BY Pairs DEF Precommit
        <5>2. op[<<u, calls[u] + 1>>] = "none"
          BY <5>1, Pairs DEF Bound, Precommit, TypeOK
        <5>. QED
          BY <5>1, <5>2 DEF Precommit, Hot
      <4>. QED
        BY <1>1, <2>1, <2>3, <4>1
        DEF CallStep, RefuseTool, MarkStarted, StopShort, Abandon, AskApproval, PersistPending,
            NoteStarted, BeginEffect, EndEffect, NoteResult, MayStart, timelineVars, opVars,
            InCall, Hot
    <3>2. ASSUME NEW z \in Operations, NEW s \in {"precommitted", "started", "abandoned"},
                 SetOp(z, s), op[z] \notin Hot
          PROVE  FALSE
      BY <3>2, SetOpType, Places DEF TypeOK
    <3>. QED
      BY <3>1, <3>2
  <2>. QED
    BY <2>2, <2>3
<1>2. ASSUME NEW u \in Turns, ApprovalStep(u) PROVE Goal
  <2>. DEFINE y == Asked(u)
  <2>1. approval[u] # "none" => y \in Operations /\ y[1] = u
    BY Pairs DEF Bound, Worked, Asked
  <2>2. CASE RecordContinuation(u)
    <3>1. y \in Operations /\ y[1] = u /\ approval[u] \in {"ran", "detached"}
      BY <2>1, <2>2 DEF RecordContinuation
    <3>2. PICK s \in Reports[approval[u]] : RecordResult(y, s)
      BY <2>2 DEF RecordContinuation, opVars
    <3>3. x = y /\ op'[x] = s
      BY <3>1, <3>2, Reported, RecordType
    <3>. QED
      BY <2>2, <3>1, <3>2, <3>3 DEF KnownOf
  <2>3. CASE ~RecordContinuation(u)
    <3>1. y \in Operations
      BY <1>2, <2>1
      DEF ApprovalStep, Decide, BeginContinuation, AbandonContinuation, BeginApproved, EndApproved,
          InterruptApproved, RecordContinuation, Redispatch, LeaveLoop, SweepStarts, SweepRecords,
          Handling, Bound, Worked
    <3>2. \/ UNCHANGED op
          \/ RecordResult(y, "unknown")
          \/ \E s \in {"started", "abandoned"} : SetOp(y, s) /\ op[y] \notin Hot
      BY <1>2, <2>3
      DEF ApprovalStep, Decide, BeginContinuation, AbandonContinuation, BeginApproved, EndApproved,
          InterruptApproved, Redispatch, LeaveLoop, SweepStarts, SweepRecords, timelineVars,
          opVars, Hot
    <3>3. ~RecordResult(y, "unknown")
      BY <3>1, RecordType DEF Hot
    <3>4. ASSUME NEW s \in {"started", "abandoned"}, SetOp(y, s), op[y] \notin Hot PROVE FALSE
      BY <3>1, <3>4, SetOpType, Places
    <3>. QED
      BY <3>2, <3>3, <3>4
  <2>. QED
    BY <2>2, <2>3
<1>3. ASSUME NEW u \in Turns, HeartbeatFails(u) \/ FinishStep(u) \/ CancelStep(u) PROVE Goal
  <2>1. UNCHANGED op \/ (RecordResult(<<u, current[u]>>, "unknown") /\ current[u] # 0)
    BY <1>3
    DEF HeartbeatFails, FinishStep, StopWorking, QuarantineCurrent, Finish, CancelStep,
        RequestCancel, CancelTurn, Interrupt, timelineVars, opVars
  <2>2. current[u] # 0 => <<u, current[u]>> \in Operations
    BY Pairs, ConstantsAssumption DEF TypeOK
  <2>. QED
    BY <2>1, <2>2, RecordType DEF Hot
<1>4. ASSUME NEW u \in Turns, NEW w \in Turns,
             LeaseStep(u) \/ CrashStep(u) \/ Recover(w, u) \/ Admit(u) \/ ClaimStep(u)
      PROVE  FALSE
  BY <1>4
  DEF LeaseStep, AdmissionExpires, LeaseExpires, CrashStep, WorkerCrash, HandlerCrash, SweepCrash,
      Recover, RecoverAdmission, RecoverUnstarted, RecoverStarted, Admit, ClaimStep, TryClaim,
      Claim, GiveUp, NoteClaim, ReadHistory, timelineVars, opVars, Hot
<1>5. (\E z \in Operations : OrphanLands(z)) \/ UNCHANGED vars => FALSE
  BY DEF OrphanLands, vars, timelineVars, opVars
<1>. QED
  BY <1>1, <1>2, <1>3, <1>4, <1>5 DEF Next, WorkerStep

LEMMA NextBound ==
  ASSUME TypeOK, Queue, OneLive, Bound, [Next]_vars
  PROVE  Bound'
<1>1. ASSUME NEW x \in Operations, x[2] > calls'[x[1]] PROVE op'[x] = "none"
  <2>1. x[1] \in Turns /\ x[2] \in Nat /\ calls[x[1]] \in Nat /\ calls'[x[1]] \in Nat
    <3>1. TypeOK'
      BY NextTypes
    <3>2. calls[x[1]] \in Nat /\ calls'[x[1]] \in Nat /\ x[1] \in Turns /\ x[2] \in Calls
      BY <3>1, Pairs, ConstantsAssumption DEF TypeOK
    <3>. QED
      BY <3>2, Pairs, ConstantsAssumption
  <2>2. op[x] = "none"
    BY <1>1, <2>1, CallsGrow DEF Bound
  <2>3. \A y \in Operations : OpMoves(y) => op'[x] = "none"
    BY <1>1, <2>1, <2>2 DEF OpMoves, Precommits, Starts, Drops, Settles, OthersFixed, Hot
  <2>4. \A w, t \in Turns : RecoverStarted(w, t) => op'[x] = "none"
    BY <2>2 DEF RecoverStarted
  <2>. QED
    BY <2>2, <2>3, <2>4, StepKinds DEF OpFixed, EndsOpenly
<1>2. Worked'
  BY NextWorked DEF Bound
<1>3. ASSUME NEW t \in Turns, approval'[t] \in {"effect", "in", "ran", "detached"}
      PROVE  Paused(t)'
  <2>1. Paused(t) => Paused(t)'
    BY TerminalStays DEF Paused
  <2>2. CASE approval[t] \in {"effect", "in", "ran", "detached"}
    BY <2>1, <2>2 DEF Bound
  <2>3. CASE approval[t] \notin {"effect", "in", "ran", "detached"}
    <3>1. BeginContinuation(t) /\ Paused(t)
      BY <1>3, <2>3, HandlerMoves DEF BeginContinuation, Handler, TypeOK, BeginApproved, EndApproved
    <3>. QED
      BY <2>1, <3>1
  <2>. QED
    BY <2>2, <2>3
<1>. QED
  BY <1>1, <1>2, <1>3 DEF Bound

-----------------------------------------------------------------------------
(* The effects.                                                            *)

LEMMA HotStays ==
  ASSUME TypeOK, Queue, OneLive, Bound, Effects, [Next]_vars, NEW x \in Operations
  PROVE  /\ x \in flying => op'[x] \in Hot
         /\ x \in background => op'[x] \in Hot \cup {"succeeded"}
         /\ op[x] \in Hot => op'[x] \in Hot \cup Known
         /\ op'[x] \in {"none", "precommitted", "abandoned"} =>
              op[x] \in {"none", "precommitted", "abandoned"}
<1>1. x \in flying => op'[x] \in Hot
  <2> SUFFICES ASSUME x \in flying, op'[x] \notin Hot PROVE FALSE
    OBVIOUS
  <2>1. op[x] \in Hot /\ x[1] \in Turns
    BY Pairs DEF Effects, OpFx
  <2>. QED
    BY <2>1, KnownBy DEF KnownOf, Effects, WorkerFx, HandlerFx
<1>4. x \in background => op'[x] \in Hot \cup {"succeeded"}
  <2> SUFFICES ASSUME x \in background, op'[x] \notin Hot PROVE op'[x] = "succeeded"
    OBVIOUS
  <2>1. x[1] \in Turns
    BY Pairs
  <2>2. CASE op[x] \in Hot
    <3>1. KnownOf(x)
      BY <2>2, KnownBy
    <3>. QED
      BY <2>1, <3>1, Reported DEF KnownOf, Effects, WorkerFx, HandlerFx
  <2>3. CASE op[x] = "succeeded"
    <3>1. \A y \in Operations : OpMoves(y) => op'[x] = op[x]
      BY <2>3 DEF OpMoves, Precommits, Starts, Drops, Settles, OthersFixed, Hot
    <3>2. \A w, t \in Turns : RecoverStarted(w, t) => op'[x] = op[x]
      BY <2>3 DEF RecoverStarted
    <3>. QED
      BY <2>3, <3>1, <3>2, StepKinds DEF OpFixed, EndsOpenly
  <2>. QED
    BY <2>2, <2>3 DEF Effects, OpFx
<1>2. \A y \in Operations : OpMoves(y) =>
        /\ op[x] \in Hot => op'[x] \in Hot \cup Known
        /\ op'[x] \in {"none", "precommitted", "abandoned"} =>
             op[x] \in {"none", "precommitted", "abandoned"}
  BY DEF OpMoves, Precommits, Starts, Drops, Settles, OthersFixed, Hot, Known
<1>3. \A w, t \in Turns : RecoverStarted(w, t) =>
        op'[x] = op[x] \/ (op[x] \in Hot /\ op'[x] \in Hot)
  BY DEF RecoverStarted, Hot
<1>. QED
  BY <1>1, <1>2, <1>3, <1>4, StepKinds DEF OpFixed, EndsOpenly, Hot

\* The effect of y begins.
Begins(y) ==
  /\ TakeOff(y) /\ UNCHANGED <<op, ask, calls>>
  /\ \/ BeginEffect(y[1]) /\ pc[y[1]] = "effect" /\ pc'[y[1]] = "in" /\ y = <<y[1], calls[y[1]]>>
     \/ /\ BeginApproved(y[1]) /\ approval[y[1]] = "effect" /\ approval'[y[1]] = "in"
        /\ y = Asked(y[1])

\* The call of y returns and leaves its process in the background.
Detaches(y) ==
  /\ Detach(y) /\ UNCHANGED op
  /\ \/ pc[y[1]] = "in" /\ pc'[y[1]] = "detached" /\ y = <<y[1], calls[y[1]]>>
     \/ approval[y[1]] = "in" /\ approval'[y[1]] = "detached" /\ y = Asked(y[1])

LEMMA GhostSteps ==
  ASSUME TypeOK, Bound, Effects, [Next]_vars
  PROVE  \/ UNCHANGED ghostVars
         \/ \E y \in Operations : Begins(y) /\ op[y] \in Hot /\ starts[y] = 0
         \/ \E y \in Operations : Land(y)
         \/ \E y \in Operations : Detaches(y) /\ op[y] \in Hot
<1>1. ASSUME NEW t \in Turns, BeginEffect(t) \/ EndEffect(t), ~UNCHANGED ghostVars
      PROVE  \/ \E y \in Operations : Begins(y) /\ op[y] \in Hot /\ starts[y] = 0
             \/ \E y \in Operations : Land(y)
             \/ \E y \in Operations : Detaches(y) /\ op[y] \in Hot
  <2>. DEFINE y == <<t, calls[t]>>
  <2>1. y \in Operations /\ y[1] = t /\ y[2] = calls[t]
    BY <1>1, Pairs DEF BeginEffect, EndEffect, Bound, Worked, InCall
  <2>2. CASE BeginEffect(t)
    <3>1. TakeOff(y) /\ pc[t] = "effect" /\ pc'[t] = "in" /\ UNCHANGED <<op, ask, calls>>
      BY <1>1, <2>2 DEF BeginEffect, GoTo, TypeOK, timelineVars, opVars, approvalVars
    <3>2. op[y] \in Hot /\ starts[y] = 0
      BY <3>1 DEF Effects, WorkerFx
    <3>. QED
      BY <2>1, <2>2, <3>1, <3>2 DEF Begins
  <2>3. CASE EndEffect(t)
    <3>1. CASE Land(y)
      BY <2>1, <3>1
    <3>2. CASE Detach(y) /\ GoTo(t, "detached")
      <4>1. pc[t] = "in" /\ pc'[t] = "detached" /\ UNCHANGED op
        BY <2>3, <3>2 DEF EndEffect, GoTo, TypeOK, timelineVars, opVars
      <4>2. op[y] \in Hot
        BY <4>1 DEF Effects, WorkerFx
      <4>. QED
        BY <2>1, <3>2, <4>1, <4>2 DEF Detaches
    <3>. QED
      BY <1>1, <2>3, <3>1, <3>2 DEF EndEffect
  <2>. QED
    BY <1>1, <2>2, <2>3
<1>2. ASSUME NEW t \in Turns, BeginApproved(t) \/ EndApproved(t), ~UNCHANGED ghostVars
      PROVE  \/ \E y \in Operations : Begins(y) /\ op[y] \in Hot /\ starts[y] = 0
             \/ \E y \in Operations : Land(y)
             \/ \E y \in Operations : Detaches(y) /\ op[y] \in Hot
  <2>. DEFINE y == Asked(t)
  <2>1. y \in Operations /\ y[1] = t
    BY <1>2, Pairs DEF BeginApproved, EndApproved, Bound, Worked, Asked
  <2>2. CASE BeginApproved(t)
    <3>1. TakeOff(y) /\ approval[t] = "effect" /\ approval'[t] = "in" /\ UNCHANGED <<op, ask, calls>>
      BY <1>2, <2>2 DEF BeginApproved, Handler, TypeOK, timelineVars, opVars, workerVars
    <3>2. op[y] \in Hot /\ starts[y] = 0
      BY <3>1 DEF Effects, HandlerFx
    <3>. QED
      BY <2>1, <2>2, <3>1, <3>2 DEF Begins
  <2>3. CASE EndApproved(t)
    <3>1. CASE Land(y)
      BY <2>1, <3>1
    <3>2. CASE Detach(y) /\ Handler(t, "detached")
      <4>1. approval[t] = "in" /\ approval'[t] = "detached" /\ UNCHANGED op
        BY <2>3, <3>2 DEF EndApproved, Handler, TypeOK, timelineVars, opVars
      <4>2. op[y] \in Hot
        BY <4>1 DEF Effects, HandlerFx
      <4>. QED
        BY <2>1, <3>2, <4>1, <4>2 DEF Detaches
    <3>. QED
      BY <2>3, <3>1, <3>2 DEF EndApproved
  <2>. QED
    BY <1>2, <2>2, <2>3
<1>. QED
  BY <1>1, <1>2, GhostOnly DEF OrphanLands

LEMMA NextOpFx ==
  ASSUME TypeOK, Queue, OneLive, Bound, Effects, [Next]_vars
  PROVE  OpFx'
<1> SUFFICES ASSUME NEW x \in Operations
             PROVE  /\ op'[x] \in {"none", "precommitted", "abandoned"} => starts'[x] = 0
                    /\ starts'[x] <= 1
                    /\ x \in flying' => op'[x] \in Hot
                    /\ x \in background' => op'[x] \in Hot \cup {"succeeded"}
  BY DEF OpFx
<1>1. CASE UNCHANGED ghostVars \/ \E y \in Operations : Land(y)
  BY <1>1, HotStays DEF ghostVars, Land, Effects, OpFx
<1>2. ASSUME NEW y \in Operations, Begins(y), op[y] \in Hot, starts[y] = 0
      PROVE  /\ op'[x] \in {"none", "precommitted", "abandoned"} => starts'[x] = 0
             /\ starts'[x] <= 1
             /\ x \in flying' => op'[x] \in Hot
             /\ x \in background' => op'[x] \in Hot \cup {"succeeded"}
  BY <1>2 DEF Begins, TakeOff, Effects, OpFx, Hot, TypeOK
<1>3. ASSUME NEW y \in Operations, Detaches(y), op[y] \in Hot
      PROVE  /\ op'[x] \in {"none", "precommitted", "abandoned"} => starts'[x] = 0
             /\ starts'[x] <= 1
             /\ x \in flying' => op'[x] \in Hot
             /\ x \in background' => op'[x] \in Hot \cup {"succeeded"}
  BY <1>3 DEF Detaches, Detach, Effects, OpFx, Hot, TypeOK
<1>. QED
  BY <1>1, <1>2, <1>3, GhostSteps

LEMMA NextWorkerFx ==
  ASSUME TypeOK, Queue, OneLive, Bound, Effects, [Next]_vars
  PROVE  WorkerFx'
<1> SUFFICES ASSUME NEW t \in Turns, pc'[t] \in {"marked", "effect", "in", "ran", "detached"}
             PROVE  LET x == <<t, calls'[t]>> IN
                    /\ pc'[t] \in {"marked", "effect", "in"} => op'[x] \in Hot
                    /\ pc'[t] \in {"marked", "effect"} => starts'[x] = 0
                    /\ pc'[t] # "in" => x \notin flying'
                    /\ pc'[t] # "detached" => x \notin background'
  BY DEF WorkerFx
<1>. DEFINE x == <<t, calls[t]>>
<1>1. CASE pc'[t] = pc[t] /\ calls'[t] = calls[t]
  <2>1. x \in Operations /\ x[1] = t
    BY <1>1, Pairs DEF Bound, Worked, InCall
  <2>2. approval[t] = "none"
    BY <1>1 DEF Bound, Worked, InCall
  <2>3. \A y \in Operations : Begins(y) \/ Detaches(y) => y # x
    BY <1>1, <2>1, <2>2 DEF Begins, Detaches
  <2>4. /\ x \notin flying => x \notin flying'
        /\ x \notin background => x \notin background'
        /\ starts'[x] = starts[x]
    BY <1>1, <2>1, <2>3, GhostSteps
    DEF ghostVars, Land, Begins, TakeOff, Detaches, Detach, TypeOK
  <2>5. pc[t] \in {"marked", "effect", "in"} => op'[x] \in Hot
    BY <2>1, <2>2, KnownBy DEF KnownOf, Effects, WorkerFx
  <2>. QED
    BY <1>1, <2>4, <2>5 DEF Effects, WorkerFx
<1>2. CASE MarkStarted(t) /\ MayStart(t)
  <2>1. x \in Operations
    BY <1>2, Pairs DEF MarkStarted, Bound, Worked, InCall
  <2>2. op[x] = "precommitted" /\ op'[x] = "started" /\ UNCHANGED <<calls, ghostVars>>
    BY <1>2, <2>1, SetOpType, Places DEF MarkStarted, MayStart, GoTo
  <2>. QED
    BY <2>1, <2>2 DEF Effects, OpFx, Hot, ghostVars
<1>3. CASE NoteStarted(t)
  <2>1. pc'[t] = "effect" /\ UNCHANGED <<op, ghostVars, calls>>
    BY <1>3 DEF NoteStarted, TypeOK, timelineVars, opVars
  <2>. QED
    BY <1>3, <2>1 DEF NoteStarted, Effects, WorkerFx, ghostVars
<1>4. CASE BeginEffect(t)
  <2>1. UNCHANGED <<op, calls, background>>
    BY <1>4 DEF BeginEffect, GoTo, TakeOff, timelineVars, opVars, ghostVars
  <2>2. pc'[t] = "in" \/ (pc'[t] = "ran" /\ UNCHANGED flying)
    BY <1>4 DEF BeginEffect, GoTo, TypeOK, ghostVars
  <2>. QED
    BY <1>4, <2>1, <2>2 DEF BeginEffect, Effects, WorkerFx
<1>5. CASE EndEffect(t)
  <2>1. \/ pc'[t] = "ran" /\ Land(x)
        \/ pc'[t] = "detached" /\ Detach(x)
    BY <1>5 DEF EndEffect, GoTo, TypeOK
  <2>2. UNCHANGED calls
    BY <1>5 DEF EndEffect, GoTo
  <2>. QED
    BY <2>1, <2>2 DEF Land, Detach
<1>. QED
  BY <1>1, <1>2, <1>3, <1>4, <1>5, PcMoves

LEMMA NextHandlerFx ==
  ASSUME TypeOK, Queue, OneLive, Bound, Effects, [Next]_vars
  PROVE  HandlerFx'
<1> SUFFICES ASSUME NEW t \in Turns, approval'[t] \in {"effect", "in", "ran", "detached"}
             PROVE  LET x == <<t, ask'[t]>> IN
                    /\ approval'[t] \in {"effect", "in"} => op'[x] \in Hot
                    /\ approval'[t] = "effect" => starts'[x] = 0
                    /\ approval'[t] # "in" => x \notin flying'
                    /\ approval'[t] # "detached" => x \notin background'
  BY DEF HandlerFx, Asked
<1>. DEFINE x == Asked(t)
<1>1. CASE approval'[t] = approval[t] /\ ask'[t] = ask[t]
  <2>1. x \in Operations /\ x[1] = t
    BY <1>1, Pairs DEF Bound, Worked, Asked
  <2>2. pc[t] \notin {"effect", "in", "ran", "detached"}
    BY <1>1 DEF Bound, Worked, InCall
  <2>3. \A y \in Operations : Begins(y) \/ Detaches(y) => y # x
    BY <1>1, <2>1, <2>2 DEF Begins, Detaches
  <2>4. /\ x \notin flying => x \notin flying'
        /\ x \notin background => x \notin background'
        /\ starts'[x] = starts[x]
    BY <1>1, <2>1, <2>3, GhostSteps
    DEF ghostVars, Land, Begins, TakeOff, Detaches, Detach, TypeOK
  <2>5. approval[t] \in {"effect", "in"} => op'[x] \in Hot
    BY <2>1, <2>2, KnownBy DEF KnownOf, Effects, HandlerFx
  <2>. QED
    BY <1>1, <2>4, <2>5 DEF Effects, HandlerFx, Asked
<1>2. CASE BeginContinuation(t) /\ Paused(t) /\ op[x] = "precommitted"
  <2>1. x \in Operations
    BY <1>2, Pairs DEF BeginContinuation, Bound, Worked, Asked
  <2>2. op'[x] = "started" /\ UNCHANGED <<ask, ghostVars>>
    BY <1>2, <2>1, SetOpType, Places DEF BeginContinuation, Handler
  <2>. QED
    BY <1>2, <2>1, <2>2 DEF Effects, OpFx, Hot, Asked, ghostVars
<1>3. CASE BeginApproved(t)
  <2>1. UNCHANGED <<op, ask, background>>
    BY <1>3 DEF BeginApproved, Handler, TakeOff, timelineVars, opVars, ghostVars
  <2>2. approval'[t] = "in" \/ (approval'[t] = "ran" /\ UNCHANGED flying)
    BY <1>3 DEF BeginApproved, Handler, TypeOK, ghostVars
  <2>. QED
    BY <1>3, <2>1, <2>2 DEF BeginApproved, Effects, HandlerFx, Asked
<1>4. CASE EndApproved(t)
  <2>1. \/ approval'[t] = "ran" /\ Land(x)
        \/ approval'[t] = "detached" /\ Detach(x)
    BY <1>4 DEF EndApproved, Handler, TypeOK
  <2>2. UNCHANGED ask
    BY <1>4 DEF EndApproved, Handler
  <2>. QED
    BY <2>1, <2>2 DEF Land, Detach, Asked
<1>. QED
  BY <1>1, <1>2, <1>3, <1>4, HandlerMoves

-----------------------------------------------------------------------------
(* The invariant of the specification, and what follows from it.           *)

IInv == TypeOK /\ Queue /\ Order /\ OneLive /\ Lost /\ Bound /\ Effects

LEMMA InitIInv == Init => IInv
<1> SUFFICES ASSUME Init PROVE IInv
  OBVIOUS
<1>1. \A x \in Operations : op[x] = "none" /\ starts[x] = 0
  BY DEF Init
<1>2. Queue /\ Order
  BY ConstantsAssumption DEF Init, Queue, Order
<1>3. OneLive
  BY <1>1 DEF OneLive, LiveOp, Hot
<1>4. Lost
  BY DEF Init, Lost
<1>5. Bound
  BY <1>1 DEF Init, Bound, Worked, InCall
<1>6. Effects
  BY <1>1 DEF Init, Effects, OpFx, WorkerFx, HandlerFx
<1>. QED
  BY <1>2, <1>3, <1>4, <1>5, <1>6, InitTypes DEF IInv

LEMMA NextIInv == IInv /\ [Next]_vars => IInv'
BY NextTypes, NextQueue, NextOneLive, NextLost, NextBound, NextOpFx, NextWorkerFx, NextHandlerFx
DEF IInv, Effects

LEMMA Invariant == Spec => []IInv
BY InitIInv, NextIInv, PTL DEF Spec

\* Every variable keeps its type: no call number leaves its bound, and no status
\* or outcome other than the code's is ever stored.
THEOREM TimelineTyped == Spec => []TypeOK
<1>1. IInv => TypeOK
  BY DEF IInv
<1>. QED
  BY <1>1, Invariant, PTL

\* Of the operations that the timeline records, no two have effects under way at
\* once, but for processes left in the background: such an effect is of an operation
\* marked started or of unknown result, and that operation is the only live one.
THEOREM EffectsExclude == Spec => []EffectExclusion
<1>1. IInv => EffectExclusion
  <2> SUFFICES ASSUME IInv, NEW x \in flying, NEW y \in flying PROVE x = y
    BY DEF EffectExclusion
  <2>1. x \in Operations /\ y \in Operations
    BY DEF IInv, TypeOK
  <2>2. LiveOp(x) /\ LiveOp(y)
    BY <2>1 DEF IInv, Effects, OpFx, LiveOp
  <2>. QED
    BY <2>1, <2>2 DEF IInv, OneLive
<1>. QED
  BY <1>1, Invariant, PTL

\* Neither a worker and a handler nor a handler and a sweep begin the effect of an
\* operation twice.
THEOREM EffectsAtMostOnce == Spec => []AtMostOnce
<1>1. IInv => AtMostOnce
  BY DEF IInv, Effects, OpFx, AtMostOnce
<1>. QED
  BY <1>1, Invariant, PTL

\* The durable descriptors tell the truth about the effects: what began was marked,
\* no result is known of an effect under way, and a process left in the background
\* is recorded neither as failed nor as abandoned.
THEOREM RecordsTrue == Spec => []RecordsAreTrue
<1>1. IInv => RecordsAreTrue
  <2> SUFFICES ASSUME IInv PROVE RecordsAreTrue
    OBVIOUS
  <2>1. \A x \in Operations : op[x] \in OpStatuses
    BY DEF IInv, TypeOK
  <2>. QED
    BY <2>1 DEF IInv, TypeOK, Effects, OpFx, RecordsAreTrue, OpStatuses, Resolved
<1>. QED
  BY <1>1, Invariant, PTL

\* Every operation of a completed or cancelled turn that began has a known result,
\* and none is under way but for a process that was left in the background.
THEOREM EndsConcealNothing == Spec => []NothingConcealed
<1>1. IInv => NothingConcealed
  <2> SUFFICES ASSUME IInv, NEW x \in Operations, outcome[x[1]] \in {"completed", "cancelled"}
               PROVE  x \notin flying /\ (starts[x] > 0 => op[x] \in Known)
    BY DEF NothingConcealed
  <2>1. x[1] \in Turns /\ op[x] \in OpStatuses /\ starts[x] \in Nat
    BY Pairs DEF IInv, TypeOK
  <2>2. state[x[1]] = "terminal"
    BY <2>1 DEF IInv, Queue
  <2>3. op[x] \notin Hot
    BY <2>1, <2>2 DEF IInv, OneLive
  <2>. QED
    BY <2>1, <2>3 DEF IInv, Effects, OpFx, OpStatuses, Resolved
<1>. QED
  BY <1>1, Invariant, PTL

\* No late result, abandonment or cancellation overwrites a settled operation or
\* turn.
THEOREM SettledStays == Spec => SettledIsFinal
<1>1. IInv /\ [Next]_vars =>
        [/\ \A x \in Operations :
              op[x] \in Resolved \cup {"unknown"} => op'[x] = op[x]
         /\ \A t \in Turns :
              state[t] = "terminal" => state'[t] = state[t] /\ outcome'[t] = outcome[t]
        ]_vars
  <2> SUFFICES ASSUME IInv, [Next]_vars
               PROVE  /\ \A x \in Operations :
                           op[x] \in Resolved \cup {"unknown"} => op'[x] = op[x]
                      /\ \A t \in Turns :
                           state[t] = "terminal" => state'[t] = state[t] /\ outcome'[t] = outcome[t]
    OBVIOUS
  <2>1. ASSUME NEW x \in Operations, op[x] \in Resolved \cup {"unknown"}
        PROVE  op'[x] = op[x]
    <3>1. \A y \in Operations : OpMoves(y) => op'[x] = op[x]
      BY <2>1 DEF OpMoves, Precommits, Starts, Drops, Settles, OthersFixed, Resolved, Known, Hot
    <3>2. \A w, t \in Turns : RecoverStarted(w, t) => op'[x] = op[x]
      BY <2>1 DEF RecoverStarted, Resolved, Known
    <3>. QED
      BY <3>1, <3>2, StepKinds DEF IInv, OpFixed, EndsOpenly
  <2>. QED
    BY <2>1, TerminalStays DEF IInv
<1>. QED
  BY <1>1, Invariant, PTL DEF Spec, SettledIsFinal

\* A turn gets the lane only after every turn admitted before it has ended.
THEOREM TurnsServedInOrder == Spec => ServedInOrder
<1>1. IInv /\ [Next]_vars =>
        [\A t \in Turns : state[t] # "running" /\ state'[t] = "running" =>
           \A u \in Turns : seqno[u] \in 1..(seqno[t] - 1) => state[u] = "terminal"]_vars
  <2> SUFFICES ASSUME IInv, [Next]_vars, NEW t \in Turns, state[t] # "running",
                      state'[t] = "running", NEW u \in Turns, seqno[u] \in 1..(seqno[t] - 1)
               PROVE  state[u] = "terminal"
    OBVIOUS
  <2>1. \A v \in Turns : Admit(v) => state'[t] # "running"
    BY DEF Admit, IInv, TypeOK
  <2>2. \A v \in Turns, o \in Outcomes : Ends(v, o) => state'[t] # "running"
    BY DEF Ends, Terminate, IInv, TypeOK
  <2>3. PICK v \in Turns : Claim(v)
    BY <2>1, <2>2, RecoverStartedEnds, StepKinds, Places DEF IInv, QueueFixed, EndsOpenly
  <2>4. v = t /\ lane = NoTurn /\ IsHead(t)
    BY <2>3 DEF Claim, IInv, TypeOK
  <2>5. seqno[u] \in Nat /\ seqno[t] \in Nat /\ u # t /\ seqno[u] # 0 /\ seqno[u] < seqno[t]
    BY DEF IInv, TypeOK
  <2>6. state[u] # "absent" /\ state[u] # "queued" /\ state[u] # "running"
    BY <2>4, <2>5, ConstantsAssumption DEF IInv, Queue, IsHead
  <2>. QED
    BY <2>6 DEF IInv, TypeOK
<1>. QED
  BY <1>1, Invariant, PTL DEF Spec, ServedInOrder

\* Once a result is unknown, no operation is precommitted or started any more, not
\* even that of an approval which was granted before.
THEOREM QuarantineStays == Spec => QuarantineHolds
<1>1. IInv /\ [Next]_vars =>
        [Quarantined => \A x \in Operations :
           /\ op[x] = "none" => op'[x] = "none"
           /\ op[x] = "precommitted" => op'[x] # "started"]_vars
  <2> SUFFICES ASSUME IInv, [Next]_vars, Quarantined, NEW x \in Operations
               PROVE  /\ op[x] = "none" => op'[x] = "none"
                      /\ op[x] = "precommitted" => op'[x] # "started"
    OBVIOUS
  <2>1. PICK y \in Operations : op[y] = "unknown"
    BY StatusOf DEF IInv, Lost, Quarantined
  <2>2. ~Precommits(x)
    BY DEF Precommits, MayPrecommit
  <2>3. ~Starts(x)
    <3>1. Starts(x) => LiveOp(x)
      BY DEF Starts, LiveOp, Paused
    <3>2. LiveOp(y)
      BY <2>1 DEF LiveOp, Hot
    <3>. QED
      BY <2>1, <3>1, <3>2 DEF IInv, OneLive, Starts
  <2>4. \A z \in Operations : OpMoves(z) =>
          /\ op[x] = "none" => op'[x] = "none"
          /\ op[x] = "precommitted" => op'[x] # "started"
    BY <2>2, <2>3 DEF OpMoves, Precommits, Starts, Drops, Settles, OthersFixed, Hot
  <2>5. \A w, t \in Turns : RecoverStarted(w, t) /\ op[x] # "started" => op'[x] = op[x]
    BY DEF RecoverStarted
  <2>. QED
    BY <2>4, <2>5, StepKinds DEF IInv, OpFixed, EndsOpenly
<1>. QED
  BY <1>1, Invariant, PTL DEF Spec, QuarantineHolds

-----------------------------------------------------------------------------
(* One worker.  Where no live worker loses its lease and no user cancels,  *)
(* the lane of a worker is its own until it ends its turn or is gone.      *)

Busy == {"claiming", "reading", "ending"} \cup AtWork

Holder ==
  /\ \A t \in Turns : canceller[t] = "idle"
  /\ \A t \in Turns : pc[t] \in Busy => LeaseOk(t)

\* A step that leaves the lane alone, and makes no worker busy.
Calm ==
  /\ UNCHANGED <<lane, leaseLive, canceller>>
  /\ \A t \in Turns : pc'[t] \in Busy => pc[t] \in Busy

LEMMA CalmMove ==
  ASSUME TypeOK, NEW t \in Turns, NEW l, pc' = [pc EXCEPT ![t] = l],
         l \in Busy => pc[t] \in Busy, UNCHANGED <<lane, leaseLive, canceller>>
  PROVE  Calm
BY DEF TypeOK, Calm

LEMMA CallCalm ==
  ASSUME TypeOK, NEW t \in Turns, CallStep(t)
  PROVE  Calm
<1>1. UNCHANGED <<lane, leaseLive, canceller>>
  BY DEF CallStep, Precommit, RefuseTool, MarkStarted, StopShort, Abandon, AskApproval,
         PersistPending, NoteStarted, BeginEffect, EndEffect, PersistResult, NoteResult,
         timelineVars, laneVars
<1>2. pc[t] \in Busy
  BY Reported
  DEF CallStep, Precommit, RefuseTool, MarkStarted, StopShort, Abandon, AskApproval,
      PersistPending, NoteStarted, BeginEffect, EndEffect, PersistResult, NoteResult,
      Busy, AtWork, InCall
<1>3. CASE Precommit(t) \/ RefuseTool(t)
  <2>1. UNCHANGED pc \/ pc' = [pc EXCEPT ![t] = "bound"]
    BY <1>3 DEF Precommit, RefuseTool
  <2>. QED
    BY <1>1, <1>2, <2>1, CalmMove DEF Calm
<1>4. CASE MarkStarted(t) \/ StopShort(t) \/ Abandon(t) \/ AskApproval(t) \/ PersistPending(t)
  <2>1. \E l : pc' = [pc EXCEPT ![t] = l]
    BY <1>4 DEF MarkStarted, StopShort, Abandon, AskApproval, PersistPending, GoTo, Fail
  <2>. QED
    BY <1>1, <1>2, <2>1, CalmMove
<1>5. CASE NoteStarted(t) \/ BeginEffect(t) \/ EndEffect(t) \/ PersistResult(t) \/ NoteResult(t)
  <2>1. \E l : pc' = [pc EXCEPT ![t] = l]
    BY <1>5 DEF NoteStarted, BeginEffect, EndEffect, PersistResult, NoteResult, GoTo, Fail
  <2>. QED
    BY <1>1, <1>2, <2>1, CalmMove
<1>. QED
  BY <1>3, <1>4, <1>5 DEF CallStep

LEMMA NextHolder ==
  ASSUME MayLapse = FALSE, MayCancel = FALSE, TypeOK, Holder, [Next]_vars
  PROVE  Holder'
<1>c. Calm => Holder'
  BY DEF Calm, Holder, LeaseOk
<1>n. NoTurn \notin Turns
  BY ConstantsAssumption
<1>1. ASSUME NEW t \in Turns, Admit(t) \/ TryClaim(t) \/ GiveUp(t) \/ NoteClaim(t) \/ ReadHistory(t)
      PROVE  Holder'
  <2>1. /\ UNCHANGED <<lane, leaseLive, canceller>>
        /\ \E l : pc' = [pc EXCEPT ![t] = l] /\ (l \in Busy => pc[t] \in Busy)
    BY <1>1 DEF Admit, TryClaim, GiveUp, NoteClaim, ReadHistory, GoTo, Fail, timelineVars, laneVars,
       Busy, AtWork, InCall, Gone
  <2>. QED
    BY <2>1, <1>c, CalmMove
<1>2. ASSUME NEW t \in Turns, Claim(t) PROVE Holder'
  <2>1. CASE lane = NoTurn /\ IsHead(t) /\ admission[t]
    <3>1. \A u \in Turns : pc[u] \notin Busy
      BY <1>n, <2>1 DEF Holder, LeaseOk
    <3>2. lane' = t /\ leaseLive' /\ pc' = [pc EXCEPT ![t] = "claiming"] /\ UNCHANGED canceller
      BY <1>2, <2>1 DEF Claim, GoTo
    <3>. QED
      BY <3>1, <3>2 DEF Holder, LeaseOk, TypeOK
  <2>2. CASE ~(lane = NoTurn /\ IsHead(t) /\ admission[t])
    <3>1. UNCHANGED <<lane, leaseLive, canceller>> /\ pc' = [pc EXCEPT ![t] = "waiting"]
      BY <1>2, <2>2 DEF Claim, GoTo
    <3>. QED
      BY <3>1, <1>c, CalmMove DEF Busy, AtWork, InCall
  <2>. QED
    BY <2>1, <2>2
<1>3. ASSUME NEW t \in Turns, CallStep(t) PROVE Holder'
  BY <1>3, <1>c, CallCalm
<1>4. ASSUME NEW t \in Turns, HeartbeatFails(t) \/ StopWorking(t) \/ QuarantineCurrent(t)
      PROVE  Holder'
  <2>1. /\ UNCHANGED <<lane, leaseLive, canceller>>
        /\ \/ UNCHANGED pc
           \/ pc[t] \in Busy /\ \E l : pc' = [pc EXCEPT ![t] = l]
    BY <1>4 DEF HeartbeatFails, StopWorking, QuarantineCurrent, GoTo, Fail, timelineVars, laneVars,
       Busy, AtWork
  <2>2. CASE UNCHANGED pc
    BY <2>1, <2>2, <1>c DEF Calm
  <2>. QED
    BY <2>1, <2>2, <1>c, CalmMove
<1>5. ASSUME NEW t \in Turns, Finish(t) PROVE Holder'
  <2>1. pc[t] = "ending" /\ LeaseOk(t)
    BY <1>5 DEF Finish, Holder, Busy
  <2>2. \E l \in {"done", "failed"} : pc' = [pc EXCEPT ![t] = l]
    BY <1>5 DEF Finish, GoTo
  <2>3. UNCHANGED canceller
    BY <1>5 DEF Finish
  <2>4. \A u \in Turns : pc'[u] \notin Busy
    BY <2>1, <2>2 DEF Holder, LeaseOk, Busy, AtWork, InCall, TypeOK
  <2>. QED
    BY <2>3, <2>4 DEF Holder
<1>6. ASSUME NEW t \in Turns PROVE ~CancelStep(t)
  BY DEF CancelStep, RequestCancel, CancelTurn, Interrupt, Holder
<1>7. ASSUME NEW w \in Turns, NEW t \in Turns, Recover(w, t) PROVE Holder'
  <2>1. UNCHANGED <<pc, canceller>>
    BY <1>7 DEF Recover, RecoverAdmission, RecoverUnstarted, RecoverStarted, workerVars
  <2>2. \/ UNCHANGED <<lane, leaseLive>>
        \/ ~leaseLive
    BY <1>7 DEF Recover, RecoverAdmission, RecoverUnstarted, RecoverStarted, StaleLane, laneVars
  <2>. QED
    BY <2>1, <2>2 DEF Holder, LeaseOk
<1>8. ASSUME NEW t \in Turns, ApprovalStep(t) PROVE Holder'
  <2>1. UNCHANGED <<pc, lane, leaseLive, canceller>>
    BY <1>8 DEF ApprovalStep, Decide, BeginContinuation, AbandonContinuation, BeginApproved,
       EndApproved, InterruptApproved, RecordContinuation, Redispatch, LeaveLoop, SweepStarts,
       SweepRecords, timelineVars, laneVars, workerVars
  <2>. QED
    BY <2>1, <1>c DEF Calm
<1>9. ASSUME NEW t \in Turns, LeaseExpires(t) PROVE Holder'
  <2>1. LeaseOk(t) /\ pc[t] \in Gone /\ UNCHANGED <<pc, canceller>>
    BY <1>9 DEF LeaseExpires, workerVars
  <2>2. \A u \in Turns : pc[u] \notin Busy
    BY <2>1 DEF Holder, LeaseOk, Busy, AtWork, InCall, Gone
  <2>. QED
    BY <2>1, <2>2 DEF Holder
<1>10. ASSUME NEW t \in Turns, AdmissionExpires(t) \/ CrashStep(t) PROVE Holder'
  <2>1. /\ UNCHANGED <<lane, leaseLive, canceller>>
        /\ UNCHANGED pc \/ pc' = [pc EXCEPT ![t] = "crashed"]
    BY <1>10 DEF AdmissionExpires, CrashStep, WorkerCrash, HandlerCrash, SweepCrash, GoTo,
       timelineVars, laneVars, workerVars
  <2>2. CASE UNCHANGED pc
    BY <2>1, <2>2, <1>c DEF Calm
  <2>. QED
    BY <2>1, <2>2, <1>c, CalmMove DEF Busy, AtWork, InCall
<1>11. ASSUME NEW x \in Operations, OrphanLands(x) PROVE Holder'
  BY <1>11, <1>c DEF OrphanLands, Calm, timelineVars, laneVars, workerVars
<1>12. CASE UNCHANGED vars
  BY <1>12, <1>c DEF vars, Calm, timelineVars, laneVars, workerVars
<1>. QED
  BY <1>1, <1>2, <1>3, <1>4, <1>5, <1>6, <1>7, <1>8, <1>9, <1>10, <1>11, <1>12, Cases
  DEF ClaimStep, FinishStep, LeaseStep

\* One worker is at work at a time, whatever processes die and whatever leases of
\* the dead expire: the lane passes on only from a worker that ended its turn or is
\* gone.  A live worker's lapsed lease and a cancellation that finds a turn claimed
\* which it had loaded as queued are the two causes that the hypotheses exclude.
\* It speaks of workers only: a handler runs the operation approved for a turn that
\* ended, and the loop it resumes, beside the worker of a later turn.
THEOREM OneWorker ==
  ASSUME MayLapse = FALSE, MayCancel = FALSE
  PROVE  Spec => []OneWorkerAtATime
<1>1. Init => Holder
  BY DEF Init, Holder, Busy, AtWork, InCall
<1>2. IInv /\ Holder /\ [Next]_vars => Holder'
  <2> SUFFICES ASSUME IInv, Holder, [Next]_vars PROVE Holder'
    OBVIOUS
  <2>1. TypeOK
    BY DEF IInv
  <2>. QED
    BY <2>1, NextHolder
<1>3. Holder => OneWorkerAtATime
  BY DEF Holder, OneWorkerAtATime, LeaseOk, Busy
<1>. QED
  BY <1>1, <1>2, <1>3, Invariant, PTL DEF Spec

-----------------------------------------------------------------------------
(* The timeline implements SerialEffects.                                  *)

Phases == [x \in Operations |-> Phase(op[x])]

\* A move of one operation is a move of its phase.
LEMMA PhaseMoves ==
  ASSUME NEW x \in Operations, OthersFixed(x)
  PROVE  Phases' = [Phases EXCEPT ![x] = Phase(op'[x])]
BY DEF Phases, OthersFixed, Phase

LEMMA Alone ==
  ASSUME IInv, NEW x \in Operations, LiveOp(x), op[x] = "precommitted"
  PROVE  \A y \in Operations : Phases[y] \notin {"open", "lost"}
<1> SUFFICES ASSUME NEW y \in Operations, op[y] \in Hot PROVE FALSE
  BY DEF Phases, Phase, Hot
<1>1. LiveOp(y)
  BY DEF LiveOp
<1>. QED
  BY <1>1 DEF IInv, OneLive, Hot

LEMMA MovesServe ==
  ASSUME IInv, NEW x \in Operations, OpMoves(x)
  PROVE  [Serial!Next]_Phases
<1>1. OthersFixed(x)
  BY DEF OpMoves, Precommits, Starts, Drops, Settles
<1>2. Phases[x] = Phase(op[x]) /\ Phases' = [Phases EXCEPT ![x] = Phase(op'[x])]
  BY <1>1, PhaseMoves DEF Phases
<1>3. CASE Precommits(x)
  BY <1>2, <1>3 DEF Precommits, Phase, Phases
<1>4. CASE Starts(x)
  <2>1. LiveOp(x)
    BY <1>4 DEF Starts, LiveOp, Paused
  <2>2. Serial!Open(x)
    BY <1>2, <1>4, <2>1, Alone DEF Serial!Open, Serial!Move, Starts, Phase, Phases
  <2>. QED
    BY <2>2 DEF Serial!Next
<1>5. CASE Drops(x)
  <2>1. Serial!Drop(x)
    BY <1>2, <1>5 DEF Serial!Drop, Serial!Move, Drops, Phase, Phases
  <2>. QED
    BY <2>1 DEF Serial!Next
<1>6. CASE Settles(x)
  <2>1. CASE op[x] = "unknown"
    BY <1>2, <1>6, <2>1 DEF Settles, Phase, Phases
  <2>2. CASE op[x] = "started" /\ op'[x] = "unknown"
    <3>1. Serial!Lose(x)
      BY <1>2, <2>2 DEF Serial!Lose, Serial!Move, Phase, Phases
    <3>. QED
      BY <3>1 DEF Serial!Next
  <2>3. CASE op[x] = "started" /\ op'[x] \in Known
    <3>1. Serial!Close(x)
      BY <1>2, <2>3 DEF Serial!Close, Serial!Move, Phase, Phases, Known
    <3>. QED
      BY <3>1 DEF Serial!Next
  <2>. QED
    BY <1>6, <2>1, <2>2, <2>3 DEF Settles, Hot
<1>. QED
  BY <1>3, <1>4, <1>5, <1>6 DEF OpMoves

LEMMA RecoveryServes ==
  ASSUME IInv, NEW w \in Turns, NEW t \in Turns, RecoverStarted(w, t)
  PROVE  [Serial!Next]_Phases
<1>1. PICK x \in Operations : x[1] = t /\ op[x] = "started"
  BY StatusOf DEF RecoverStarted
<1>2. \A y \in Operations : op[y] = "started" => y = x
  BY <1>1 DEF IInv, OneLive, LiveOp, Hot
<1>3. op'[x] = "unknown" /\ \A y \in Operations : y # x => op'[y] = op[y]
  BY <1>1, <1>2 DEF RecoverStarted
<1>4. Phases' = [Phases EXCEPT ![x] = "lost"] /\ Phases[x] = "open"
  BY <1>1, <1>3 DEF Phases, Phase
<1>5. Serial!Lose(x)
  BY <1>4 DEF Serial!Lose, Serial!Move, Phases
<1>. QED
  BY <1>5 DEF Serial!Next

\* Every behaviour of the timeline, its workers, handlers and recoveries is one of
\* SerialEffects: operations are marked started one at a time, each after the last
\* one's result was recorded, and never after one was lost.
THEOREM Refinement == Spec => KeepsPromise
<1>1. Init => Serial!Init
  BY DEF Init, Serial!Init, Phase
<1>2. IInv /\ [Next]_vars => [Serial!Next]_Phases
  <2> SUFFICES ASSUME IInv, [Next]_vars PROVE [Serial!Next]_Phases
    OBVIOUS
  <2>1. OpFixed => UNCHANGED Phases
    BY DEF OpFixed, Phases
  <2>. QED
    BY <2>1, MovesServe, RecoveryServes, StepKinds DEF IInv, EndsOpenly
<1>. QED
  BY <1>1, <1>2, Invariant, PTL DEF Spec, KeepsPromise, Serial!Spec, Phases

=============================================================================
