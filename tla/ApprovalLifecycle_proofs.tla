----------------------- MODULE ApprovalLifecycle_proofs -----------------------
(***************************************************************************)
(* What ApprovalLifecycle guarantees for every set of approvals, handlers  *)
(* and keys, and for every TTL and lease time.                             *)
(***************************************************************************)
EXTENDS ApprovalLifecycle, TLAPS

-----------------------------------------------------------------------------
\* A handler that is not idle works on an approval.
HandlersHold == \A w \in Workers : pc[w] # "idle" => task[w].approval \in Approvals

Works(w, a) == pc[w] # "idle" /\ task[w].approval = a

\* The claim that a handler may still turn into a dispatch.
Permit(w, a) == pc[w] = "claimed" /\ task[w].approval = a

\* A claim on its way to the tool and to the reply.
Busy(w, a) == pc[w] \in {"claimed", "executed", "barrier"} /\ task[w].approval = a

\* The statuses in which a call has not run and nobody is about to run it.
Unclaimed == {"absent", "pending", "approved_once"} \cup Refused

\* The strengthening of AtMostOneExecution: a permit exists only while the call
\* has not run, is the only one, and is gone whenever a new claim is possible.
ExecRow(a) ==
  /\ status[a] \in Unclaimed => effects[a] = 0
  /\ status[a] = "consumed" => effects[a] > 0
  /\ Succeeded(result[a]) => effects[a] > 0
  /\ effects[a] <= 1

ExecHandler(w, a) ==
  /\ Permit(w, a) => effects[a] = 0 /\ status[a] \notin Unclaimed
  /\ Works(w, a) /\ pc[w] \in {"executed", "barrier"} => effects[a] > 0
  /\ Works(w, a) /\ Succeeded(task[w].res) => effects[a] > 0
  /\ Works(w, a) /\ pc[w] \in {"reclaimed", "resumed"} => status[a] = "consumed"

OneBusy(a) == \A v, w \in Workers : Busy(v, a) /\ Busy(w, a) => v = w

ExecutionInv ==
  \A a \in Approvals :
    /\ ExecRow(a)
    /\ \A w \in Workers : ExecHandler(w, a)
    /\ OneBusy(a)

\* The strengthening of AtMostOneContinuation: as long as a handler is busy no
\* reconciler can be asked for, and once somebody replied nobody will be.
ContRow(a) ==
  /\ replies[a] <= 1
  /\ replies[a] > 0 => effects[a] > 0
  /\ "recovery_required" \in result[a].flags => status[a] = "consumed"
  /\ "recovery_required" \in result[a].flags /\ cont[a] \in {"none", "pending"}
       => replies[a] = 0
  /\ status[a] = "consuming" /\ Applied(result[a]) /\ replies[a] > 0
       => "continuation_started" \in result[a].flags
            \/ "react_continuation" \in result[a].flags
  /\ cont[a] # "none" => status[a] = "consumed"

ContHandler(w, a) ==
  /\ Busy(w, a) =>
       replies[a] = 0 /\ "recovery_required" \notin result[a].flags /\ cont[a] = "none"
  /\ Works(w, a) /\ pc[w] \in Executing => "recovery_required" \notin task[w].res.flags
  /\ Works(w, a) /\ pc[w] \in {"claimed", "executed"} /\ status[a] = "consuming"
       => ~Succeeded(result[a])
  /\ Works(w, a) /\ pc[w] = "barrier" /\ status[a] = "consuming"
       => "continuation_started" \in result[a].flags \/ ~Applied(result[a])
  /\ Works(w, a) /\ pc[w] = "reclaimed"
       => replies[a] = 0 /\ cont[a] \notin {"none", "pending"}

OneReclaimed(a) ==
  \A v, w \in Workers :
    /\ Works(v, a) /\ pc[v] = "reclaimed"
    /\ Works(w, a) /\ pc[w] = "reclaimed"
    => v = w

ContinuationInv ==
  \A a \in Approvals :
    /\ ContRow(a)
    /\ \A w \in Workers : ContHandler(w, a)
    /\ OneReclaimed(a)

-----------------------------------------------------------------------------
\* Types, and what a handler that is not idle works on.
TypeInv == TypeOK /\ HandlersHold

LEMMA InitTypes == Init => TypeInv
BY ConstantsAssumption
DEF Init, TypeInv, TypeOK, LeaseColumns, HandlersHold, Statuses, Terminal, Results, Flags, Result, Plain, NoResult,
    ContStatuses, Locations, NoTask, Task, Tasks

\* What the moves of a handler and the clock keep.
WorkerTypes ==
  /\ pc \in [Workers -> Locations]
  /\ task \in [Workers -> Tasks]
  /\ HandlersHold

LEMMA NewResult ==
  ASSUME NEW t \in Tasks, NEW r \in Results
  PROVE  /\ [t EXCEPT !.res = r] \in Tasks
         /\ [t EXCEPT !.res = r].approval = t.approval
         /\ [t EXCEPT !.res = r].key = t.key
         /\ [t EXCEPT !.res = r].token = t.token
         /\ [t EXCEPT !.res = r].res = r
BY DEF Tasks

LEMMA NewTask ==
  ASSUME NEW a \in Approvals \cup {NoApproval}, NEW k \in Keys \cup {NoKey},
         NEW t \in Nat, NEW r \in Results
  PROVE  Task(a, k, t, r) \in Tasks /\ Task(a, k, t, r).approval = a
         /\ Task(a, k, t, r).key = k /\ Task(a, k, t, r).token = t
         /\ Task(a, k, t, r).res = r
BY DEF Tasks, Task

LEMMA ResultTypes ==
  /\ \A s \in {"none", "completed", "running", "failed"} : Plain(s) \in Results
  /\ \A s \in {"none", "completed", "running", "failed"}, f \in SUBSET Flags :
       Result(s, f) \in Results
  /\ NoResult \in Results
BY DEF Plain, Result, NoResult, Results, Flags

LEMMA IdleTypes ==
  ASSUME WorkerTypes, NEW w \in Workers, BecomeIdle(w)
  PROVE  WorkerTypes'
<1>1. NoTask \in Tasks
  BY NewTask, ResultTypes DEF NoTask
<1>. QED
  BY <1>1 DEF WorkerTypes, HandlersHold, BecomeIdle, Locations

\* Where a move of one handler leaves it, and the others.
LEMMA IdleMove ==
  ASSUME TypeOK, NEW w \in Workers, BecomeIdle(w)
  PROVE  pc'[w] = "idle" /\ \A v \in Workers \ {w} : pc'[v] = pc[v] /\ task'[v] = task[v]
BY DEF TypeOK, BecomeIdle

LEMMA HoldMove ==
  ASSUME TypeOK, NEW w \in Workers, NEW loc, NEW t, Hold(w, loc, t)
  PROVE  /\ pc'[w] = loc /\ task'[w] = t
         /\ \A v \in Workers \ {w} : pc'[v] = pc[v] /\ task'[v] = task[v]
BY DEF TypeOK, Hold

LEMMA HoldTypes ==
  ASSUME WorkerTypes, NEW w \in Workers, NEW loc \in Locations, NEW t \in Tasks,
         t.approval \in Approvals, Hold(w, loc, t)
  PROVE  WorkerTypes'
BY DEF WorkerTypes, HandlersHold, Hold

LEMMA HoldResult ==
  ASSUME TypeOK, HandlersHold, NEW w \in Workers, NEW loc \in Locations, NEW r \in Results,
         pc[w] # "idle", Hold(w, loc, [task[w] EXCEPT !.res = r])
  PROVE  WorkerTypes'
<1>1. task[w] \in Tasks /\ task[w].approval \in Approvals
  BY DEF TypeOK, HandlersHold
<1>2. /\ [task[w] EXCEPT !.res = r] \in Tasks
      /\ [task[w] EXCEPT !.res = r].approval \in Approvals
  BY <1>1, NewResult
<1>3. WorkerTypes
  BY DEF TypeOK, WorkerTypes
<1> DEFINE t == [task[w] EXCEPT !.res = r]
<1>4. Hold(w, loc, t) /\ t \in Tasks /\ t.approval \in Approvals
  BY <1>2
<1>. HIDE DEF t
<1>. QED
  BY <1>3, <1>4, HoldTypes

LEMMA CountDownTypes ==
  ASSUME NEW n \in Nat, NEW timer \in [Approvals -> 0..n]
  PROVE  CountDown(timer) \in [Approvals -> 0..n]
BY DEF CountDown

LEMMA NextTypes == TypeInv /\ [Next]_vars => TypeInv'
<1> SUFFICES ASSUME TypeInv, [Next]_vars PROVE TypeInv'
  OBVIOUS
<1> USE DEF TypeInv, LeaseColumns, Statuses, Terminal, Refused, ContStatuses, Locations,
            Decisions, rowVars, contVars, workerVars, ghostVars
<1>1. ASSUME NEW a \in Approvals, Create(a) PROVE TypeInv'
  BY <1>1, ConstantsAssumption DEF TypeOK, HandlersHold, Create
<1>2. ASSUME NEW a \in Approvals, ResolveTooLate(a) PROVE TypeInv'
  BY <1>2, ConstantsAssumption DEF TypeOK, HandlersHold, ResolveTooLate, MarkExpired, Expired
<1>3. ASSUME NEW a \in Approvals, Supersede(a) PROVE TypeInv'
  BY <1>3, ConstantsAssumption DEF TypeOK, HandlersHold, Supersede, MarkExpired, Expired
<1>4. ASSUME NEW a \in Approvals, RecoverStale(a) PROVE TypeInv'
  <2>1. result[a] \in Results
    BY DEF TypeOK
  <2>2. result' \in [Approvals -> Results]
    <3>1. PICK f \in SUBSET Flags : result' = [result EXCEPT ![a] = Result(result[a].st, f)]
      BY <1>4, <2>1 DEF RecoverStale, Results, Flags
    <3>2. Result(result[a].st, f) \in Results
      BY <2>1, ResultTypes DEF Results
    <3>. HIDE DEF Result
    <3>. QED
      BY <3>1, <3>2 DEF TypeOK
  <2>. QED
    BY <1>4, <2>2, ConstantsAssumption DEF TypeOK, HandlersHold, RecoverStale, ReleaseTo
<1>5. ASSUME NEW a \in Approvals, NEW o \in Outcomes, RecoverConsumption(a, o) PROVE TypeInv'
  <2>1. result' \in [Approvals -> Results]
    BY <1>5, ResultTypes DEF RecoverConsumption, TypeOK
  <2>2. PICK s \in {"consumed", "approved_once", "execution_failed"} : ReleaseTo(a, s)
    BY <1>5, ConstantsAssumption DEF RecoverConsumption
  <2>3. UNCHANGED <<contVars, workerVars, ghostVars>>
    BY <1>5 DEF RecoverConsumption
  <2>. QED
    BY <2>1, <2>2, <2>3, ConstantsAssumption DEF TypeOK, HandlersHold, ReleaseTo
<1>6. ASSUME NEW a \in Approvals, NEW s \in {"completed", "failed"}, StopSession(a, s) PROVE TypeInv'
  <2>1. result' \in [Approvals -> Results]
    BY <1>6, ResultTypes DEF StopSession, TypeOK
  <2>. QED
    BY <1>6, <2>1 DEF TypeOK, HandlersHold, StopSession
<1>7. ASSUME NEW a \in Approvals, Materialise(a) PROVE TypeInv'
  BY <1>7, ConstantsAssumption DEF TypeOK, HandlersHold, Materialise
<1>8. ASSUME NEW a \in Approvals, ClaimTooLate(a) PROVE TypeInv'
  BY <1>8, ConstantsAssumption DEF TypeOK, HandlersHold, ClaimTooLate
<1>9. ASSUME NEW w \in Workers, NEW a \in Approvals, NEW d \in Decisions, Resolve(w, a, d) PROVE TypeInv'
  <2>1. Task(a, NoKey, 0, NoResult) \in Tasks /\ Task(a, NoKey, 0, NoResult).approval = a
    BY NewTask, ResultTypes
  <2>2. WorkerTypes'
    <3>1. CASE d = "reject"
      BY <1>9, <3>1 DEF Resolve, TypeOK, WorkerTypes, HandlersHold
    <3>2. CASE d # "reject"
      BY <1>9, <2>1, <3>2, HoldTypes DEF Resolve, TypeOK, WorkerTypes
    <3>. QED
      BY <3>1, <3>2
  <2>. QED
    BY <1>9, <2>2, ResultTypes DEF Resolve, TypeOK, WorkerTypes
<1>10. ASSUME NEW w \in Workers, NEW a \in Approvals, NEW k \in Keys, Consume(w, a, k) PROVE TypeInv'
  <2>1. claims[a] + 1 \in Nat
    BY DEF TypeOK
  <2>2. /\ Task(a, k, claims[a] + 1, NoResult) \in Tasks
        /\ Task(a, k, claims[a] + 1, NoResult).approval = a
    BY <2>1, NewTask, ResultTypes
  <2>3. WorkerTypes'
    BY <1>10, <2>2, HoldTypes DEF Consume, TypeOK, WorkerTypes
  <2>. QED
    BY <1>10, <2>1, <2>3, ConstantsAssumption DEF Consume, TypeOK, WorkerTypes
<1>11. ASSUME NEW w \in Workers, NEW a \in Approvals, ClaimContinuation(w, a) PROVE TypeInv'
  <2>. result[a] \in Results
    BY DEF TypeOK
  <2>1. Task(a, NoKey, 1, result[a]) \in Tasks /\ Task(a, NoKey, 1, result[a]).approval = a
    BY NewTask
  <2>2. WorkerTypes'
    BY <1>11, <2>1, HoldTypes DEF ClaimContinuation, TypeOK, WorkerTypes
  <2>. QED
    BY <1>11, <2>2, ConstantsAssumption DEF ClaimContinuation, TypeOK, WorkerTypes
<1>12. ASSUME NEW w \in Workers, ConsumeRefused(w) PROVE TypeInv'
  <2>1. WorkerTypes'
    BY <1>12, IdleTypes DEF ConsumeRefused, TypeOK, WorkerTypes
  <2>. QED
    BY <1>12, <2>1 DEF ConsumeRefused, TypeOK, WorkerTypes, MarkExpired
<1>13. ASSUME NEW w \in Workers, NEW s \in {"completed", "running", "failed"}, Dispatch(w, s) PROVE TypeInv'
  <2>1. task[w] \in Tasks /\ task[w].approval \in Approvals
    BY <1>13 DEF TypeOK, HandlersHold, Dispatch
  <2>2. Plain(s) \in Results
    BY <2>1, ResultTypes DEF Tasks, Results, Flags
  <2>3. WorkerTypes'
    <3> DEFINE r == Plain(s)
    <3>1. pc[w] # "idle" /\ Hold(w, "executed", [task[w] EXCEPT !.res = r])
      BY <1>13 DEF Dispatch
    <3>. HIDE DEF r
    <3>. QED
      BY <2>2, <3>1, HoldResult DEF r
  <2>. QED
    BY <1>13, <2>1, <2>2, <2>3 DEF Dispatch, TypeOK, WorkerTypes
<1>14. ASSUME NEW w \in Workers, StartRefused(w) PROVE TypeInv'
  <2>1. task[w] \in Tasks /\ task[w].approval \in Approvals
    BY <1>14 DEF TypeOK, HandlersHold, StartRefused
  <2>2. Plain("failed") \in Results
    BY <2>1, ResultTypes DEF Tasks, Results, Flags
  <2>3. WorkerTypes'
    <3> DEFINE r == Plain("failed")
    <3>1. pc[w] # "idle" /\ Hold(w, "recorded", [task[w] EXCEPT !.res = r])
      BY <1>14 DEF StartRefused
    <3>. HIDE DEF r
    <3>. QED
      BY <2>2, <3>1, HoldResult DEF r
  <2>. QED
    BY <1>14, <2>1, <2>2, <2>3 DEF StartRefused, TypeOK, WorkerTypes, StoreResult
<1>15. ASSUME NEW w \in Workers, Record(w) PROVE TypeInv'
  <2> DEFINE a == task[w].approval
             chatSuccess == a \in Chat /\ Succeeded(task[w].res)
             r == Result(task[w].res.st,
                         IF chatSuccess THEN {"continuation_started"} ELSE {})
             loc == IF chatSuccess THEN "barrier" ELSE "recorded"
  <2>1. task[w] \in Tasks /\ a \in Approvals /\ loc \in Locations
    BY <1>15 DEF TypeOK, HandlersHold, Record
  <2>2. r \in Results
    BY <2>1, ResultTypes DEF Tasks, Results, Flags
  <2>3. WorkerTypes'
    <3>1. pc[w] # "idle" /\ Hold(w, loc, [task[w] EXCEPT !.res = r])
      BY <1>15 DEF Record
    <3>. HIDE DEF r, loc
    <3>. QED
      BY <2>1, <2>2, <3>1, HoldResult
  <2>4. StoreResult(a, r)
    BY <1>15 DEF Record
  <2>. HIDE DEF r
  <2>. QED
    BY <1>15, <2>1, <2>2, <2>3, <2>4 DEF Record, TypeOK, WorkerTypes, StoreResult
<1>16. ASSUME NEW w \in Workers, Resume(w) PROVE TypeInv'
  <2>1. task[w] \in Tasks /\ task[w].approval \in Approvals
    BY <1>16 DEF TypeOK, HandlersHold, Resume
  <2>2. Result(task[w].res.st, {"react_continuation"}) \in Results
    BY <2>1, ResultTypes DEF Tasks, Results, Flags
  <2>3. WorkerTypes'
    <3> DEFINE r == Result(task[w].res.st, {"react_continuation"})
    <3>1. pc[w] # "idle" /\ Hold(w, "recorded", [task[w] EXCEPT !.res = r])
      BY <1>16 DEF Resume
    <3>. HIDE DEF r
    <3>. QED
      BY <2>2, <3>1, HoldResult DEF r
  <2>. QED
    BY <1>16, <2>1, <2>2, <2>3 DEF Resume, TypeOK, WorkerTypes
<1>17. ASSUME NEW w \in Workers, Complete(w) PROVE TypeInv'
  <2>1. WorkerTypes'
    BY <1>17, IdleTypes DEF Complete, TypeOK, WorkerTypes
  <2>2. task[w].res \in Results /\ task[w].approval \in Approvals
    BY <1>17 DEF TypeOK, HandlersHold, Complete, Tasks
  <2>. QED
    BY <1>17, <2>1, <2>2, ConstantsAssumption DEF Complete, TypeOK, WorkerTypes
<1>18. ASSUME NEW w \in Workers, CompleteRefused(w) PROVE TypeInv'
  <2>1. WorkerTypes'
    BY <1>18, IdleTypes DEF CompleteRefused, TypeOK, WorkerTypes
  <2>. QED
    BY <1>18, <2>1 DEF CompleteRefused, TypeOK, WorkerTypes
<1>19. ASSUME NEW w \in Workers, ResumeRecovered(w) PROVE TypeInv'
  <2>1. task[w] \in Tasks /\ task[w].approval \in Approvals
    BY <1>19 DEF TypeOK, HandlersHold, ResumeRecovered
  <2>2. Result(task[w].res.st,
                   (task[w].res.flags \ {"recovery_required"}) \cup {"react_continuation"}) \in Results
    BY <2>1, ResultTypes DEF Tasks, Results, Flags
  <2>3. WorkerTypes'
    <3> DEFINE r == Result(task[w].res.st,
                  (task[w].res.flags \ {"recovery_required"}) \cup {"react_continuation"})
    <3>1. pc[w] # "idle" /\ Hold(w, "resumed", [task[w] EXCEPT !.res = r])
      BY <1>19 DEF ResumeRecovered
    <3>. HIDE DEF r
    <3>. QED
      BY <2>2, <3>1, HoldResult DEF r
  <2>. QED
    BY <1>19, <2>1, <2>2, <2>3 DEF ResumeRecovered, TypeOK, WorkerTypes
<1>20. ASSUME NEW w \in Workers, CompleteContinuation(w) PROVE TypeInv'
  <2>1. WorkerTypes'
    BY <1>20, IdleTypes DEF CompleteContinuation, TypeOK, WorkerTypes
  <2>2. task[w].res \in Results /\ task[w].approval \in Approvals
    BY <1>20 DEF TypeOK, HandlersHold, CompleteContinuation, Tasks
  <2>. QED
    BY <1>20, <2>1, <2>2, ConstantsAssumption DEF CompleteContinuation, TypeOK, WorkerTypes, EndContinuation
<1>21. ASSUME NEW w \in Workers, FailContinuation(w) PROVE TypeInv'
  <2>1. WorkerTypes'
    BY <1>21, IdleTypes DEF FailContinuation, TypeOK, WorkerTypes
  <2>. QED
    BY <1>21, <2>1, ConstantsAssumption DEF FailContinuation, TypeOK, WorkerTypes, EndContinuation, HandlersHold
<1>22. ASSUME NEW w \in Workers, ContinuationRefused(w) PROVE TypeInv'
  <2>1. WorkerTypes'
    BY <1>22, IdleTypes DEF ContinuationRefused, TypeOK, WorkerTypes
  <2>. QED
    BY <1>22, <2>1 DEF ContinuationRefused, TypeOK, WorkerTypes
<1>23. ASSUME NEW w \in Workers, Crash(w) PROVE TypeInv'
  <2>1. WorkerTypes'
    BY <1>23, IdleTypes DEF Crash, TypeOK, WorkerTypes
  <2>. QED
    BY <1>23, <2>1 DEF Crash, TypeOK, WorkerTypes
<1>24. ASSUME Tick PROVE TypeInv'
  <2>1. /\ CountDown(ttl) \in [Approvals -> 0..TTL]
        /\ CountDown(lease) \in [Approvals -> 0..LeaseTime]
        /\ CountDown(contLease) \in [Approvals -> 0..LeaseTime]
    BY CountDownTypes, ConstantsAssumption DEF TypeOK
  <2>2. LeaseColumns'
    BY <1>24 DEF Tick, TypeOK, LeaseColumns, CountDown
  <2>3. ttl' \in [Approvals -> 0..TTL]
    BY <1>24, <2>1 DEF Tick, TypeOK
  <2>4. TypeOK'
    BY <1>24, <2>1, <2>2, <2>3 DEF Tick, TypeOK, workerVars, ghostVars
  <2>. QED
    BY <1>24, <2>4 DEF Tick, HandlersHold, workerVars
<1>25. ASSUME UNCHANGED vars PROVE TypeInv'
  BY <1>25, ConstantsAssumption DEF TypeOK, HandlersHold, vars
<1>. HIDE DEF TypeInv
<1>26. ASSUME NEW a \in Approvals, RowStep(a) PROVE TypeInv'
  BY <1>26, <1>1, <1>2, <1>3, <1>4, <1>5, <1>6, <1>7, <1>8 DEF RowStep
<1>27. ASSUME NEW w \in Workers, NEW a \in Approvals, ClaimStep(w, a) PROVE TypeInv'
  BY <1>27, <1>9, <1>10, <1>11 DEF ClaimStep
<1>28. ASSUME NEW w \in Workers, HandlerStep(w) PROVE TypeInv'
  BY <1>28, <1>12, <1>13, <1>14, <1>15, <1>16, <1>17, <1>18, <1>19, <1>20, <1>21, <1>22
  DEF HandlerStep
<1>. QED
  BY <1>23, <1>24, <1>25, <1>26, <1>27, <1>28 DEF Next

\* Every variable keeps its type, and a handler in the middle of its work holds
\* an approval (every operation of the store and of the handlers).
THEOREM TypeCorrect == Spec => []TypeOK
<1>1. TypeInv => TypeOK
  BY DEF TypeInv
<1>. QED
  BY InitTypes, NextTypes, <1>1, PTL DEF Spec

-----------------------------------------------------------------------------
\* One execution.
LEMMA InitExecution == Init => ExecutionInv
<1> SUFFICES ASSUME Init PROVE ExecutionInv
  OBVIOUS
<1>1. ASSUME NEW a \in Approvals PROVE ExecRow(a)
  <2>1. CASE a \in Legacy
    <3>1. effects[a] = 1 /\ status[a] \in {"consuming", "consumed"}
      BY <2>1 DEF Init
    <3>. QED
      BY <3>1 DEF ExecRow, Unclaimed, Refused
  <2>2. CASE a \notin Legacy
    <3>1. effects[a] = 0 /\ status[a] = "absent" /\ result[a] = NoResult
      BY <2>2 DEF Init
    <3>. QED
      BY <3>1 DEF ExecRow, Succeeded, NoResult, Plain, Result
  <2>. QED
    BY <2>1, <2>2
<1>2. \A w \in Workers : pc[w] = "idle"
  BY DEF Init
<1>. QED
  BY <1>1, <1>2 DEF ExecutionInv, ExecHandler, OneBusy, Permit, Works, Busy

LEMMA NextExecution == TypeInv /\ TypeInv' /\ ExecutionInv /\ [Next]_vars => ExecutionInv'
<1> SUFFICES ASSUME TypeInv, TypeInv', ExecutionInv, [Next]_vars PROVE ExecutionInv'
  OBVIOUS
<1> USE DEF TypeInv, HandlersHold, ExecutionInv, ExecRow, ExecHandler, OneBusy, Permit, Works, Busy,
            Unclaimed, Refused, Terminal, Succeeded, Applied, Task, Plain, Result, NoResult, Results, Tasks,
            rowVars, contVars, workerVars, ghostVars
<1>1. ASSUME NEW a \in Approvals, Create(a) PROVE ExecutionInv'
  BY <1>1, ConstantsAssumption DEF TypeOK, Create
<1>2. ASSUME NEW a \in Approvals, ResolveTooLate(a) PROVE ExecutionInv'
  BY <1>2, ConstantsAssumption DEF TypeOK, ResolveTooLate, MarkExpired, Expired
<1>3. ASSUME NEW a \in Approvals, Supersede(a) PROVE ExecutionInv'
  BY <1>3, ConstantsAssumption DEF TypeOK, Supersede, MarkExpired, Expired
<1>4. ASSUME NEW a \in Approvals, RecoverStale(a) PROVE ExecutionInv'
  <2>1. \A b \in Approvals : Succeeded(result'[b]) <=> Succeeded(result[b])
    BY <1>4 DEF RecoverStale, TypeOK
  <2>2. status'[a] = "consumed" => Succeeded(result[a])
    BY <1>4 DEF RecoverStale, ReleaseTo, TypeOK
  <2>3. PICK s \in {"expired", "consumed", "execution_failed"} :
          status' = [status EXCEPT ![a] = s]
    BY <1>4 DEF RecoverStale, ReleaseTo
  <2>4. status[a] = "consuming" /\ UNCHANGED <<workerVars, ghostVars>>
    BY <1>4 DEF RecoverStale, Stale
  <2>. HIDE DEF Succeeded
  <2>. QED
    BY <2>1, <2>2, <2>3, <2>4 DEF TypeOK
<1>5. ASSUME NEW a \in Approvals, NEW o \in Outcomes, RecoverConsumption(a, o) PROVE ExecutionInv'
  <2>1. \A b \in Approvals : Succeeded(result'[b]) => effects[b] > 0
    <3>1. \/ UNCHANGED result
          \/ effects[a] > 0 /\ \A b \in Approvals \ {a} : result'[b] = result[b]
      BY <1>5 DEF RecoverConsumption, Evidence, TypeOK
    <3>. HIDE DEF Succeeded
    <3>. QED
      BY <3>1
  <2>2. PICK s \in {"expired", "consumed", "approved_once", "execution_failed"} :
          /\ status' = [status EXCEPT ![a] = s]
          /\ s = "consumed" => effects[a] > 0
          /\ s = "approved_once" =>
               effects[a] = 0 /\ \A w \in Workers : pc[w] = "claimed" => task[w].approval # a
    <3>1. CASE o = "applied"
      BY <1>5, <3>1 DEF RecoverConsumption, ReleaseTo, Evidence
    <3>2. CASE o = "not_started"
      BY <1>5, <3>2 DEF RecoverConsumption, ReleaseTo, Evidence
    <3>3. CASE o = "unknown"
      BY <1>5, <3>3 DEF RecoverConsumption, ReleaseTo, Evidence
    <3>. QED
      BY <3>1, <3>2, <3>3, ConstantsAssumption
  <2>3. status[a] = "consuming" /\ UNCHANGED <<workerVars, ghostVars>>
    BY <1>5 DEF RecoverConsumption, Stale
  <2>. HIDE DEF Succeeded
  <2>. QED
    BY <2>1, <2>2, <2>3 DEF TypeOK
<1>6. ASSUME NEW a \in Approvals, NEW s \in {"completed", "failed"}, StopSession(a, s) PROVE ExecutionInv'
  BY <1>6, ConstantsAssumption DEF TypeOK, StopSession
<1>7. ASSUME NEW a \in Approvals, Materialise(a) PROVE ExecutionInv'
  BY <1>7, ConstantsAssumption DEF TypeOK, Materialise
<1>8. ASSUME NEW a \in Approvals, ClaimTooLate(a) PROVE ExecutionInv'
  BY <1>8, ConstantsAssumption DEF TypeOK, ClaimTooLate
<1>9. ASSUME NEW w \in Workers, NEW a \in Approvals, NEW d \in Decisions, Resolve(w, a, d) PROVE ExecutionInv'
  <2>1. \A b \in Approvals : ExecRow(b)'
    BY <1>9 DEF Resolve, TypeOK
  <2>2. /\ status[a] = "pending"
        /\ effects' = effects
        /\ \A b \in Approvals \ {a} : status'[b] = status[b]
    BY <1>9 DEF Resolve, TypeOK
  <2>3. \/ UNCHANGED workerVars
        \/ /\ pc' = [pc EXCEPT ![w] = "resolved"]
           /\ task' = [task EXCEPT ![w] = Task(a, NoKey, 0, NoResult)]
    BY <1>9 DEF Resolve, Hold
  <2>4. \A v \in Workers : ~Permit(v, a) /\ ~(Works(v, a) /\ pc[v] \in {"reclaimed", "resumed"})
    BY <2>2
  <2>5. CASE UNCHANGED workerVars
    BY <2>1, <2>2, <2>4, <2>5
  <2>6. CASE /\ pc' = [pc EXCEPT ![w] = "resolved"]
             /\ task' = [task EXCEPT ![w] = Task(a, NoKey, 0, NoResult)]
    <3>1. \A v \in Workers \ {w} : pc'[v] = pc[v] /\ task'[v] = task[v]
      BY <2>6 DEF TypeOK
    <3>2. pc'[w] = "resolved" /\ task'[w].res.st = "none"
      BY <2>6 DEF TypeOK
    <3>. QED
      BY <2>1, <2>2, <2>4, <3>1, <3>2
  <2>. QED
    BY <2>3, <2>5, <2>6
<1>10. ASSUME NEW w \in Workers, NEW a \in Approvals, NEW k \in Keys, Consume(w, a, k) PROVE ExecutionInv'
  <2>1. status[a] = "approved_once" /\ effects[a] = 0
    BY <1>10 DEF Consume, Claimable
  <2>2. \A b \in Approvals : ExecRow(b)'
    BY <1>10 DEF Consume, TypeOK
  <2>3. pc'[w] = "claimed" /\ task'[w] = Task(a, k, claims[a] + 1, NoResult)
    BY <1>10 DEF Consume, Hold, TypeOK
  <2>4. \A v \in Workers \ {w} : pc'[v] = pc[v] /\ task'[v] = task[v]
    BY <1>10 DEF Consume, Hold, TypeOK
  <2>5. \A b \in Approvals \ {a} : status'[b] = status[b]
    BY <1>10 DEF Consume, TypeOK
  <2>6. effects' = effects /\ status'[a] = "consuming"
    BY <1>10 DEF Consume, TypeOK
  <2>7. \A v \in Workers : ~Busy(v, a)
    BY <2>1
  <2>8. \A v \in Workers, b \in Approvals : ExecHandler(v, b)'
    BY <2>1, <2>3, <2>4, <2>5, <2>6
  <2>9. \A b \in Approvals : OneBusy(b)'
    BY <2>3, <2>4, <2>7
  <2>. QED
    BY <2>2, <2>8, <2>9
<1>11. ASSUME NEW w \in Workers, NEW a \in Approvals, ClaimContinuation(w, a) PROVE ExecutionInv'
  <2>1. pc'[w] = "reclaimed" /\ task'[w] = Task(a, NoKey, 1, result[a])
    BY <1>11 DEF ClaimContinuation, Hold, TypeOK
  <2>2. \A v \in Workers \ {w} : pc'[v] = pc[v] /\ task'[v] = task[v]
    BY <1>11 DEF ClaimContinuation, Hold, TypeOK
  <2>3. UNCHANGED <<rowVars, ghostVars>> /\ status[a] = "consumed"
    BY <1>11 DEF ClaimContinuation, AwaitsContinuation
  <2>. HIDE DEF Succeeded
  <2>. QED
    BY <2>1, <2>2, <2>3
<1>12. ASSUME NEW w \in Workers, ConsumeRefused(w) PROVE ExecutionInv'
  BY <1>12, ConstantsAssumption DEF TypeOK, ConsumeRefused, MarkExpired, BecomeIdle, NoTask
<1>13. ASSUME NEW w \in Workers, NEW s \in {"completed", "running", "failed"}, Dispatch(w, s) PROVE ExecutionInv'
  BY <1>13, ConstantsAssumption DEF TypeOK, Dispatch, Hold
<1>14. ASSUME NEW w \in Workers, StartRefused(w) PROVE ExecutionInv'
  BY <1>14, ConstantsAssumption DEF TypeOK, StartRefused, StoreResult, Hold
<1>15. ASSUME NEW w \in Workers, Record(w) PROVE ExecutionInv'
  <2> DEFINE a == task[w].approval
  <2>1. a \in Approvals /\ pc[w] = "executed" /\ effects[a] > 0
    BY <1>15 DEF Record
  <2>2. /\ pc'[w] \in {"barrier", "recorded"}
        /\ task'[w].approval = a /\ task'[w].res.st = task[w].res.st
        /\ \A v \in Workers \ {w} : pc'[v] = pc[v] /\ task'[v] = task[v]
    BY <1>15 DEF Record, Hold, TypeOK
  <2>3. UNCHANGED <<status, ghostVars>> /\ \A b \in Approvals \ {a} : result'[b] = result[b]
    BY <1>15 DEF Record, StoreResult, TypeOK
  <2>. HIDE DEF a
  <2>4. \A b \in Approvals : ExecRow(b)'
    BY <2>1, <2>3
  <2>5. \A b \in Approvals : ExecHandler(w, b)'
    BY <2>1, <2>2, <2>3 DEF a
  <2>6. \A v \in Workers \ {w}, b \in Approvals : ExecHandler(v, b)'
    BY <2>2, <2>3
  <2>7. \A b \in Approvals : OneBusy(b)'
    BY <2>1, <2>2 DEF a
  <2>. QED
    BY <2>4, <2>5, <2>6, <2>7
<1>16. ASSUME NEW w \in Workers, Resume(w) PROVE ExecutionInv'
  BY <1>16, ConstantsAssumption DEF TypeOK, Resume, Hold
<1>17. ASSUME NEW w \in Workers, Complete(w) PROVE ExecutionInv'
  <2> DEFINE a == task[w].approval
  <2>1. /\ a \in Approvals
        /\ status[a] = "consuming"
        /\ Succeeded(task[w].res) => effects[a] > 0
    BY <1>17 DEF Complete, OwnsLease
  <2>2. PICK s \in {"consumed", "execution_failed"} :
          /\ status' = [status EXCEPT ![a] = s]
          /\ s = "consumed" => Succeeded(task[w].res)
    BY <1>17 DEF Complete
  <2>3. result' = [result EXCEPT ![a] = task[w].res] /\ UNCHANGED ghostVars
    BY <1>17 DEF Complete
  <2>4. pc'[w] = "idle" /\ \A v \in Workers \ {w} : pc'[v] = pc[v] /\ task'[v] = task[v]
    BY <1>17 DEF Complete, BecomeIdle, TypeOK
  <2>5. \A b \in Approvals : ExecRow(b)'
    <3>. HIDE DEF a, Succeeded
    <3>. QED
      BY <2>1, <2>2, <2>3 DEF TypeOK
  <2>6. \A v \in Workers, b \in Approvals : ExecHandler(v, b)'
    <3>1. effects' = effects
      BY <2>3
    <3>2. \A b \in Approvals \ {a} : status'[b] = status[b]
      BY <2>2 DEF TypeOK
    <3>3. status'[a] \in {"consumed", "execution_failed"}
      BY <2>1, <2>2 DEF TypeOK
    <3>4. \A v \in Workers : ~(Works(v, a) /\ pc[v] \in {"reclaimed", "resumed"})
      BY <2>1
    <3>. HIDE DEF a, Succeeded
    <3>. QED
      BY <2>4, <3>1, <3>2, <3>3, <3>4
  <2>7. \A b \in Approvals : OneBusy(b)'
    BY <2>4
  <2>. QED
    BY <2>5, <2>6, <2>7
<1>18. ASSUME NEW w \in Workers, CompleteRefused(w) PROVE ExecutionInv'
  BY <1>18, ConstantsAssumption DEF TypeOK, CompleteRefused, BecomeIdle, NoTask
<1>19. ASSUME NEW w \in Workers, ResumeRecovered(w) PROVE ExecutionInv'
  BY <1>19, ConstantsAssumption DEF TypeOK, ResumeRecovered, Hold
<1>20. ASSUME NEW w \in Workers, CompleteContinuation(w) PROVE ExecutionInv'
  BY <1>20, ConstantsAssumption DEF TypeOK, CompleteContinuation, EndContinuation, BecomeIdle
<1>21. ASSUME NEW w \in Workers, FailContinuation(w) PROVE ExecutionInv'
  BY <1>21, ConstantsAssumption DEF TypeOK, FailContinuation, EndContinuation, BecomeIdle
<1>22. ASSUME NEW w \in Workers, ContinuationRefused(w) PROVE ExecutionInv'
  BY <1>22, ConstantsAssumption DEF TypeOK, ContinuationRefused, BecomeIdle
<1>23. ASSUME NEW w \in Workers, Crash(w) PROVE ExecutionInv'
  BY <1>23, ConstantsAssumption DEF TypeOK, Crash, BecomeIdle
<1>24. ASSUME Tick PROVE ExecutionInv'
  BY <1>24, ConstantsAssumption DEF TypeOK, Tick, CountDown
<1>25. ASSUME UNCHANGED vars PROVE ExecutionInv'
  BY <1>25, ConstantsAssumption DEF TypeOK, vars
<1>. HIDE DEF TypeInv, ExecutionInv
<1>26. ASSUME NEW a \in Approvals, RowStep(a) PROVE ExecutionInv'
  BY <1>26, <1>1, <1>2, <1>3, <1>4, <1>5, <1>6, <1>7, <1>8 DEF RowStep
<1>27. ASSUME NEW w \in Workers, NEW a \in Approvals, ClaimStep(w, a) PROVE ExecutionInv'
  BY <1>27, <1>9, <1>10, <1>11 DEF ClaimStep
<1>28. ASSUME NEW w \in Workers, HandlerStep(w) PROVE ExecutionInv'
  BY <1>28, <1>12, <1>13, <1>14, <1>15, <1>16, <1>17, <1>18, <1>19, <1>20, <1>21, <1>22
  DEF HandlerStep
<1>. QED
  BY <1>23, <1>24, <1>25, <1>26, <1>27, <1>28 DEF Next

LEMMA ExecutionIsInvariant == Spec => [](TypeInv /\ ExecutionInv)
<1>1. Init => TypeInv /\ ExecutionInv
  BY InitTypes, InitExecution
<1>2. TypeInv /\ ExecutionInv /\ [Next]_vars => (TypeInv /\ ExecutionInv)'
  BY NextTypes, NextExecution
<1>. QED
  BY <1>1, <1>2, PTL DEF Spec

\* One approval authorises one dispatch of its call, however many handlers,
\* recoveries and crashes there are (consume, recover_consumption and
\* recover_stale_consumptions).
THEOREM OneExecution == Spec => []AtMostOneExecution
<1>1. ExecutionInv => AtMostOneExecution
  BY DEF ExecutionInv, ExecRow, AtMostOneExecution
<1>. QED
  BY ExecutionIsInvariant, <1>1, PTL

\* No call reaches its tool unless an operator granted it and a handler claimed
\* the grant (resolve and consume).
THEOREM GrantBeforeEffect == Spec => []NoEffectWithoutGrant
<1>1. ExecutionInv => NoEffectWithoutGrant
  BY DEF ExecutionInv, ExecRow, NoEffectWithoutGrant, Unclaimed
<1>. QED
  BY ExecutionIsInvariant, <1>1, PTL

\* The store never reports as consumed a call that was not dispatched
\* (complete_consumption and both recoveries).
THEOREM ConsumedIsExecuted == Spec => []ConsumedWasExecuted
<1>1. ExecutionInv => ConsumedWasExecuted
  BY DEF ExecutionInv, ExecRow, ConsumedWasExecuted
<1>. QED
  BY ExecutionIsInvariant, <1>1, PTL

-----------------------------------------------------------------------------
\* One continuation.
LEMMA InitContinuation == Init => ContinuationInv
<1> SUFFICES ASSUME Init PROVE ContinuationInv
  OBVIOUS
<1>1. ASSUME NEW a \in Approvals PROVE ContRow(a)
  <2>1. replies[a] = 0 /\ cont[a] = "none"
    BY DEF Init
  <2>2. "recovery_required" \in result[a].flags => status[a] = "consumed"
    <3>1. CASE a \in Legacy
      BY <3>1 DEF Init, Result
    <3>2. CASE a \notin Legacy
      BY <3>2 DEF Init, NoResult, Plain, Result
    <3>. QED
      BY <3>1, <3>2
  <2>. QED
    BY <2>1, <2>2 DEF ContRow
<1>2. \A w \in Workers : pc[w] = "idle"
  BY DEF Init
<1>. QED
  BY <1>1, <1>2 DEF ContinuationInv, ContHandler, OneReclaimed, Works, Busy

LEMMA NextContinuation ==
  ASSUME OperatorStops = FALSE, TypeInv, TypeInv', ExecutionInv, ExecutionInv', ContinuationInv, [Next]_vars
  PROVE  ContinuationInv'
<1> USE DEF TypeInv, HandlersHold, ExecutionInv, ContinuationInv, ContRow, ContHandler, OneReclaimed, Works, Busy,
            rowVars, contVars, workerVars, ghostVars
<1> USE DEF ExecRow, ExecHandler, OneBusy, Permit, Executing,
            Unclaimed, Refused, Terminal, Succeeded, Applied, Task, Plain, Result, NoResult, Results, Tasks
<1>1. ASSUME NEW a \in Approvals, Create(a) PROVE ContinuationInv'
  BY <1>1, ConstantsAssumption DEF TypeOK, Create
<1>2. ASSUME NEW a \in Approvals, ResolveTooLate(a) PROVE ContinuationInv'
  BY <1>2, ConstantsAssumption DEF TypeOK, ResolveTooLate, MarkExpired, Expired
<1>3. ASSUME NEW a \in Approvals, Supersede(a) PROVE ContinuationInv'
  BY <1>3, ConstantsAssumption DEF TypeOK, Supersede, MarkExpired, Expired
<1>4. ASSUME NEW a \in Approvals, RecoverStale(a) PROVE ContinuationInv'
  <2> DEFINE asks == /\ Applied(result[a])
                     /\ "continuation_started" \notin result[a].flags
                     /\ "react_continuation" \notin result[a].flags
  <2>1. \A b \in Approvals : result'[b].st = result[b].st
    BY <1>4 DEF RecoverStale, TypeOK
  <2>2. \A b \in Approvals \ {a} : result'[b] = result[b] /\ status'[b] = status[b]
    BY <1>4 DEF RecoverStale, ReleaseTo, TypeOK
  <2>3. status[a] = "consuming" /\ UNCHANGED <<contVars, workerVars, ghostVars>>
    BY <1>4 DEF RecoverStale, Stale
  <2>4. status'[a] # "consuming"
    BY <1>4 DEF RecoverStale, ReleaseTo, TypeOK
  <2>5. "recovery_required" \in result'[a].flags
          => asks /\ status'[a] = "consumed"
    BY <1>4, <2>3 DEF RecoverStale, ReleaseTo, TypeOK
  <2>6. asks => replies[a] = 0 /\ \A w \in Workers : ~Busy(w, a)
    BY <2>3 DEF TypeOK
  <2>7. cont[a] = "none"
    BY <2>3
  <2>8. \A b \in Approvals : ContRow(b)'
    BY <2>1, <2>2, <2>3, <2>4, <2>5, <2>6, <2>7
  <2>9. \A w \in Workers, b \in Approvals : ContHandler(w, b)'
    BY <2>1, <2>2, <2>3, <2>4, <2>5, <2>6, <2>7
  <2>. QED
    BY <2>3, <2>8, <2>9
<1>5. ASSUME NEW a \in Approvals, NEW o \in Outcomes, RecoverConsumption(a, o) PROVE ContinuationInv'
  <2>1. status[a] = "consuming" /\ UNCHANGED <<contVars, workerVars, ghostVars>>
    BY <1>5 DEF RecoverConsumption, Stale
  <2>2. \A b \in Approvals \ {a} : result'[b] = result[b] /\ status'[b] = status[b]
    BY <1>5 DEF RecoverConsumption, ReleaseTo, TypeOK
  <2>3. status'[a] # "consuming"
    <3>1. PICK s \in {"expired", "consumed", "approved_once", "execution_failed"} :
            status' = [status EXCEPT ![a] = s]
      BY <1>5, ConstantsAssumption DEF RecoverConsumption, ReleaseTo
    <3>. QED
      BY <3>1 DEF TypeOK
  <2>4. "recovery_required" \notin result'[a].flags
    BY <1>5, <2>1 DEF RecoverConsumption, TypeOK
  <2>5. cont[a] = "none"
    BY <2>1
  <2>6. \A b \in Approvals : ContRow(b)'
    BY <2>1, <2>2, <2>3, <2>4, <2>5
  <2>7. \A w \in Workers, b \in Approvals : ContHandler(w, b)'
    BY <2>1, <2>2, <2>3, <2>4, <2>5
  <2>. QED
    BY <2>1, <2>6, <2>7
<1>6. ASSUME NEW a \in Approvals, NEW s \in {"completed", "failed"}, StopSession(a, s) PROVE ContinuationInv'
  BY <1>6, ConstantsAssumption DEF TypeOK, StopSession
<1>7. ASSUME NEW a \in Approvals, Materialise(a) PROVE ContinuationInv'
  <2>1. /\ status[a] = "consumed"
        /\ "recovery_required" \in result[a].flags
        /\ cont[a] = "none"
        /\ UNCHANGED <<rowVars, workerVars, ghostVars>>
    BY <1>7 DEF Materialise, AwaitsContinuation
  <2>2. \A b \in Approvals \ {a} : cont'[b] = cont[b]
    BY <1>7 DEF Materialise, TypeOK
  <2>3. \A w \in Workers : ~Busy(w, a) /\ ~(Works(w, a) /\ pc[w] = "reclaimed")
    BY <2>1
  <2>4. replies[a] = 0
    BY <2>1
  <2>5. \A b \in Approvals : ContRow(b)'
    BY <2>1, <2>2, <2>4
  <2>6. \A w \in Workers, b \in Approvals : ContHandler(w, b)'
    BY <2>1, <2>2, <2>3
  <2>. QED
    BY <2>1, <2>5, <2>6
<1>8. ASSUME NEW a \in Approvals, ClaimTooLate(a) PROVE ContinuationInv'
  BY <1>8, ConstantsAssumption DEF TypeOK, ClaimTooLate
<1>9. ASSUME NEW w \in Workers, NEW a \in Approvals, NEW d \in Decisions, Resolve(w, a, d) PROVE ContinuationInv'
  <2>1. /\ status[a] = "pending" /\ status'[a] # "consuming"
        /\ result'[a] = NoResult
        /\ \A b \in Approvals \ {a} : status'[b] = status[b] /\ result'[b] = result[b]
    BY <1>9 DEF Resolve, TypeOK
  <2>2. UNCHANGED <<contVars, ghostVars>> /\ cont[a] = "none"
    BY <1>9, <2>1 DEF Resolve
  <2>3. \A v \in Workers : \/ pc'[v] \in {"idle", "resolved"}
                           \/ pc'[v] = pc[v] /\ task'[v] = task[v]
    <3>1. CASE UNCHANGED workerVars
      BY <3>1
    <3>2. CASE Hold(w, "resolved", Task(a, NoKey, 0, NoResult))
      <4>1. pc'[w] = "resolved"
        BY <3>2 DEF Hold, TypeOK
      <4>2. \A v \in Workers \ {w} : pc'[v] = pc[v] /\ task'[v] = task[v]
        BY <3>2 DEF Hold, TypeOK
      <4>. QED
        BY <4>1, <4>2
    <3>. QED
      BY <1>9, <3>1, <3>2 DEF Resolve
  <2>4. \A v \in Workers : ~(Works(v, a) /\ pc[v] = "reclaimed")
    BY <2>2
  <2>5. \A b \in Approvals : ContRow(b)'
    BY <2>1, <2>2
  <2>6. \A v \in Workers, b \in Approvals : ContHandler(v, b)'
    BY <2>1, <2>2, <2>3, <2>4
  <2>7. \A b \in Approvals : OneReclaimed(b)'
    BY <2>3
  <2>. QED
    BY <2>5, <2>6, <2>7
<1>10. ASSUME NEW w \in Workers, NEW a \in Approvals, NEW k \in Keys, Consume(w, a, k) PROVE ContinuationInv'
  BY <1>10, ConstantsAssumption DEF TypeOK, Consume, Hold
<1>11. ASSUME NEW w \in Workers, NEW a \in Approvals, ClaimContinuation(w, a) PROVE ContinuationInv'
  <2>1. /\ status[a] = "consumed"
        /\ "recovery_required" \in result[a].flags
        /\ cont[a] \in {"none", "pending"}
        /\ UNCHANGED <<rowVars, ghostVars>>
    BY <1>11 DEF ClaimContinuation, AwaitsContinuation
  <2>2. cont'[a] = "reconciling" /\ \A b \in Approvals \ {a} : cont'[b] = cont[b]
    BY <1>11 DEF ClaimContinuation, TypeOK
  <2>3. /\ pc'[w] = "reclaimed" /\ task'[w].approval = a
        /\ \A v \in Workers \ {w} : pc'[v] = pc[v] /\ task'[v] = task[v]
    BY <1>11 DEF ClaimContinuation, Hold, TypeOK
  <2>4. replies[a] = 0
    BY <2>1
  <2>5. \A v \in Workers : ~Busy(v, a) /\ ~(Works(v, a) /\ pc[v] = "reclaimed")
    BY <2>1
  <2>6. \A b \in Approvals : ContRow(b)'
    BY <2>1, <2>2, <2>4
  <2>7. \A v \in Workers, b \in Approvals : ContHandler(v, b)'
    BY <2>1, <2>2, <2>3, <2>4, <2>5
  <2>8. \A b \in Approvals : OneReclaimed(b)'
    BY <2>3, <2>5
  <2>. QED
    BY <2>6, <2>7, <2>8
<1>12. ASSUME NEW w \in Workers, ConsumeRefused(w) PROVE ContinuationInv'
  BY <1>12, ConstantsAssumption DEF TypeOK, ConsumeRefused, MarkExpired, BecomeIdle, NoTask
<1>13. ASSUME NEW w \in Workers, NEW s \in {"completed", "running", "failed"}, Dispatch(w, s) PROVE ContinuationInv'
  BY <1>13, ConstantsAssumption DEF TypeOK, Dispatch, Hold
<1>14. ASSUME NEW w \in Workers, StartRefused(w) PROVE ContinuationInv'
  BY <1>14, ConstantsAssumption DEF TypeOK, StartRefused, StoreResult, Hold
<1>15. ASSUME NEW w \in Workers, Record(w) PROVE ContinuationInv'
  <2>0. PICK a \in Approvals : a = task[w].approval
    BY <1>15 DEF Record
  <2> DEFINE chatSuccess == a \in Chat /\ Succeeded(task[w].res)
             r == Result(task[w].res.st,
                         IF chatSuccess THEN {"continuation_started"} ELSE {})
  <2>1. Busy(w, a) /\ pc[w] = "executed"
    BY <1>15, <2>0 DEF Record
  <2>2. /\ replies[a] = 0
        /\ "recovery_required" \notin result[a].flags
        /\ cont[a] = "none"
    BY <2>1
  <2>3. /\ pc'[w] = IF chatSuccess THEN "barrier" ELSE "recorded"
        /\ task'[w].approval = a /\ task'[w].res = r
        /\ \A v \in Workers \ {w} : pc'[v] = pc[v] /\ task'[v] = task[v]
    <3>1. Hold(w, IF chatSuccess THEN "barrier" ELSE "recorded", [task[w] EXCEPT !.res = r])
      BY <1>15, <2>0 DEF Record
    <3>2. task[w] \in Tasks /\ pc \in [Workers -> Locations] /\ task \in [Workers -> Tasks]
      BY DEF TypeOK
    <3>. HIDE DEF chatSuccess, r
    <3>. QED
      BY <2>0, <3>1, <3>2 DEF Hold
  <2>4. /\ UNCHANGED <<status, contVars, ghostVars>>
        /\ result'[a] = IF Recordable(a) THEN r ELSE result[a]
        /\ \A b \in Approvals \ {a} : result'[b] = result[b]
    BY <1>15, <2>0 DEF Record, StoreResult, TypeOK
  <2>5. /\ "recovery_required" \notin r.flags
        /\ chatSuccess => "continuation_started" \in r.flags
    OBVIOUS
  <2>6. status[a] = "consuming" => Recordable(a)
    BY DEF Recordable
  <2>7. \A v \in Workers \ {w} : ~Busy(v, a)
    BY <2>1
  <2>. HIDE DEF r, chatSuccess
  <2>8. \A b \in Approvals : ContRow(b)'
    BY <2>1, <2>2, <2>4, <2>5
  <2>9. \A b \in Approvals : ContHandler(w, b)'
    <3>1. ContHandler(w, a)'
      BY <2>1, <2>2, <2>3, <2>4, <2>5, <2>6
    <3>2. \A b \in Approvals \ {a} : ContHandler(w, b)'
      BY <2>3
    <3>. HIDE DEF ContHandler
    <3>. QED
      BY <3>1, <3>2
  <2>10. \A v \in Workers \ {w}, b \in Approvals : ContHandler(v, b)'
    <3>1. \A v \in Workers \ {w} : ContHandler(v, a)'
      BY <2>1, <2>2, <2>3, <2>4, <2>7
    <3>2. \A v \in Workers \ {w}, b \in Approvals \ {a} : ContHandler(v, b)'
      BY <2>3, <2>4
    <3>. HIDE DEF ContHandler
    <3>. QED
      BY <3>1, <3>2
  <2>11. \A b \in Approvals : OneReclaimed(b)'
    BY <2>3
  <2>. QED
    BY <2>8, <2>9, <2>10, <2>11
<1>16. ASSUME NEW w \in Workers, Resume(w) PROVE ContinuationInv'
  <2>0. PICK a \in Approvals : a = task[w].approval
    BY <1>16 DEF Resume
  <2>1. Busy(w, a) /\ pc[w] = "barrier"
    BY <1>16, <2>0 DEF Resume
  <2>2. /\ replies[a] = 0
        /\ "recovery_required" \notin result[a].flags
        /\ cont[a] = "none"
    BY <2>1
  <2>3. /\ pc'[w] = "recorded"
        /\ task'[w].approval = a /\ "recovery_required" \notin task'[w].res.flags
        /\ \A v \in Workers \ {w} : pc'[v] = pc[v] /\ task'[v] = task[v]
    BY <1>16, <2>0 DEF Resume, Hold, TypeOK
  <2>4. /\ UNCHANGED <<rowVars, contVars, effects>>
        /\ replies'[a] \in {0, 1}
        /\ \A b \in Approvals \ {a} : replies'[b] = replies[b]
    BY <1>16, <2>0, <2>2 DEF Resume, TypeOK
  <2>5. effects[a] > 0
    BY <2>1
  <2>6. status[a] = "consuming" => "continuation_started" \in result[a].flags \/ ~Applied(result[a])
    BY <2>1
  <2>7. \A v \in Workers \ {w} : ~Busy(v, a)
    BY <2>1
  <2>8. \A v \in Workers : ~(Works(v, a) /\ pc[v] = "reclaimed")
    BY <2>2
  <2>9. \A b \in Approvals : ContRow(b)'
    BY <2>1, <2>2, <2>4, <2>5, <2>6
  <2>10. \A v \in Workers, b \in Approvals : ContHandler(v, b)'
    BY <2>1, <2>2, <2>3, <2>4, <2>7, <2>8
  <2>11. \A b \in Approvals : OneReclaimed(b)'
    BY <2>3
  <2>. QED
    BY <2>9, <2>10, <2>11
<1>17. ASSUME NEW w \in Workers, Complete(w) PROVE ContinuationInv'
  <2> DEFINE a == task[w].approval
  <2>1. /\ a \in Approvals
        /\ status[a] = "consuming"
        /\ "recovery_required" \notin task[w].res.flags
    BY <1>17 DEF Complete, OwnsLease
  <2>2. status'[a] # "consuming" /\ \A b \in Approvals \ {a} : status'[b] = status[b]
    BY <1>17, <2>1 DEF Complete, TypeOK
  <2>3. /\ result'[a] = task[w].res
        /\ \A b \in Approvals \ {a} : result'[b] = result[b]
        /\ UNCHANGED <<contVars, ghostVars>>
    BY <1>17, <2>1 DEF Complete, TypeOK
  <2>4. pc'[w] = "idle" /\ \A v \in Workers \ {w} : pc'[v] = pc[v] /\ task'[v] = task[v]
    BY <1>17 DEF Complete, BecomeIdle, TypeOK
  <2>5. cont[a] = "none"
    BY <2>1
  <2>. HIDE DEF a
  <2>6. \A b \in Approvals : ContRow(b)'
    BY <2>1, <2>2, <2>3, <2>5
  <2>7. \A v \in Workers, b \in Approvals : ContHandler(v, b)'
    BY <2>1, <2>2, <2>3, <2>4
  <2>8. \A b \in Approvals : OneReclaimed(b)'
    BY <2>4
  <2>. QED
    BY <2>6, <2>7, <2>8
<1>18. ASSUME NEW w \in Workers, CompleteRefused(w) PROVE ContinuationInv'
  BY <1>18, ConstantsAssumption DEF TypeOK, CompleteRefused, BecomeIdle, NoTask
<1>19. ASSUME NEW w \in Workers, ResumeRecovered(w) PROVE ContinuationInv'
  <2> DEFINE a == task[w].approval
  <2>1. /\ a \in Approvals /\ pc[w] = "reclaimed" /\ Works(w, a)
        /\ replies[a] = 0 /\ cont[a] \notin {"none", "pending"}
    BY <1>19 DEF ResumeRecovered
  <2>2. replies'[a] = 1 /\ \A b \in Approvals \ {a} : replies'[b] = replies[b]
    BY <1>19, <2>1 DEF ResumeRecovered, TypeOK
  <2>3. /\ pc'[w] = "resumed" /\ task'[w].approval = a
        /\ \A v \in Workers \ {w} : pc'[v] = pc[v] /\ task'[v] = task[v]
    <3> DEFINE r == Result(task[w].res.st,
                  (task[w].res.flags \ {"recovery_required"}) \cup {"react_continuation"})
    <3>1. Hold(w, "resumed", [task[w] EXCEPT !.res = r])
      BY <1>19 DEF ResumeRecovered
    <3>2. task[w] \in Tasks /\ pc \in [Workers -> Locations] /\ task \in [Workers -> Tasks]
      BY DEF TypeOK
    <3>. HIDE DEF r
    <3>. QED
      BY <3>1, <3>2 DEF Hold
  <2>4. UNCHANGED <<rowVars, contVars, effects>>
    BY <1>19 DEF ResumeRecovered
  <2>5. status[a] = "consumed" /\ effects[a] > 0
    BY <2>1
  <2>6. \A v \in Workers \ {w} : ~(Works(v, a) /\ pc[v] = "reclaimed")
    BY <2>1
  <2>. HIDE DEF a
  <2>7. \A b \in Approvals : ContRow(b)'
    BY <2>1, <2>2, <2>4, <2>5
  <2>8. \A v \in Workers, b \in Approvals : ContHandler(v, b)'
    BY <2>1, <2>2, <2>3, <2>4, <2>5, <2>6
  <2>9. \A b \in Approvals : OneReclaimed(b)'
    BY <2>3
  <2>. QED
    BY <2>7, <2>8, <2>9
<1>20. ASSUME NEW w \in Workers, CompleteContinuation(w) PROVE ContinuationInv'
  <2> DEFINE a == task[w].approval
  <2>1. a \in Approvals /\ cont[a] = "reconciling" /\ status[a] = "consumed"
    BY <1>20 DEF CompleteContinuation, OwnsContinuation
  <2>2. cont'[a] \in ContTerminal /\ \A b \in Approvals \ {a} : cont'[b] = cont[b]
    BY <1>20, <2>1 DEF CompleteContinuation, EndContinuation, TypeOK, ContTerminal
  <2>3. UNCHANGED <<status, ghostVars>> /\ \A b \in Approvals \ {a} : result'[b] = result[b]
    BY <1>20 DEF CompleteContinuation, TypeOK
  <2>4. pc'[w] = "idle" /\ \A v \in Workers \ {w} : pc'[v] = pc[v] /\ task'[v] = task[v]
    BY <1>20 DEF CompleteContinuation, BecomeIdle, TypeOK
  <2>5. \A v \in Workers : ~Busy(v, a)
    BY <2>1
  <2>. HIDE DEF a
  <2>6. \A b \in Approvals : ContRow(b)'
    BY <2>1, <2>2, <2>3 DEF ContTerminal
  <2>7. \A v \in Workers, b \in Approvals : ContHandler(v, b)'
    BY <2>1, <2>2, <2>3, <2>4, <2>5 DEF ContTerminal
  <2>8. \A b \in Approvals : OneReclaimed(b)'
    BY <2>4
  <2>. QED
    BY <2>6, <2>7, <2>8
<1>21. ASSUME NEW w \in Workers, FailContinuation(w) PROVE ContinuationInv'
  <2> DEFINE a == task[w].approval
  <2>1. a \in Approvals /\ cont[a] = "reconciling" /\ status[a] = "consumed"
    BY <1>21 DEF FailContinuation, OwnsContinuation
  <2>2. cont'[a] \in ContTerminal /\ \A b \in Approvals \ {a} : cont'[b] = cont[b]
    BY <1>21, <2>1 DEF FailContinuation, EndContinuation, TypeOK, ContTerminal
  <2>3. UNCHANGED <<status, result, ghostVars>>
    BY <1>21 DEF FailContinuation, TypeOK
  <2>4. pc'[w] = "idle" /\ \A v \in Workers \ {w} : pc'[v] = pc[v] /\ task'[v] = task[v]
    BY <1>21 DEF FailContinuation, BecomeIdle, TypeOK
  <2>5. \A v \in Workers : ~Busy(v, a)
    BY <2>1
  <2>. HIDE DEF a
  <2>6. \A b \in Approvals : ContRow(b)'
    BY <2>1, <2>2, <2>3 DEF ContTerminal
  <2>7. \A v \in Workers, b \in Approvals : ContHandler(v, b)'
    BY <2>1, <2>2, <2>3, <2>4, <2>5 DEF ContTerminal
  <2>8. \A b \in Approvals : OneReclaimed(b)'
    BY <2>4
  <2>. QED
    BY <2>6, <2>7, <2>8
<1>22. ASSUME NEW w \in Workers, ContinuationRefused(w) PROVE ContinuationInv'
  BY <1>22, ConstantsAssumption DEF TypeOK, ContinuationRefused, BecomeIdle
<1>23. ASSUME NEW w \in Workers, Crash(w) PROVE ContinuationInv'
  BY <1>23, ConstantsAssumption DEF TypeOK, Crash, BecomeIdle
<1>24. ASSUME Tick PROVE ContinuationInv'
  BY <1>24, ConstantsAssumption DEF TypeOK, Tick, CountDown
<1>25. ASSUME UNCHANGED vars PROVE ContinuationInv'
  BY <1>25, ConstantsAssumption DEF TypeOK, vars
<1>. HIDE DEF TypeInv, ExecutionInv, ContinuationInv
<1>26. ASSUME NEW a \in Approvals, RowStep(a) PROVE ContinuationInv'
  BY <1>26, <1>1, <1>2, <1>3, <1>4, <1>5, <1>6, <1>7, <1>8 DEF RowStep
<1>27. ASSUME NEW w \in Workers, NEW a \in Approvals, ClaimStep(w, a) PROVE ContinuationInv'
  BY <1>27, <1>9, <1>10, <1>11 DEF ClaimStep
<1>28. ASSUME NEW w \in Workers, HandlerStep(w) PROVE ContinuationInv'
  BY <1>28, <1>12, <1>13, <1>14, <1>15, <1>16, <1>17, <1>18, <1>19, <1>20, <1>21, <1>22
  DEF HandlerStep
<1>. QED
  BY <1>23, <1>24, <1>25, <1>26, <1>27, <1>28 DEF Next

\* The Chat turn of an approval is resumed at most once, and only after its call
\* was made, whatever sweeps, dispatchers and crashes do (the barrier of the
\* resolve flow, recover_stale_consumptions and the continuation claim), as long
\* as no operator stops the exec session of the call.
THEOREM OneContinuation ==
  ASSUME OperatorStops = FALSE
  PROVE  Spec => []AtMostOneContinuation
<1>1. Init => TypeInv /\ ExecutionInv /\ ContinuationInv
  BY InitTypes, InitExecution, InitContinuation
<1>2. TypeInv /\ ExecutionInv /\ ContinuationInv /\ [Next]_vars
        => (TypeInv /\ ExecutionInv /\ ContinuationInv)'
  BY NextTypes, NextExecution, NextContinuation
<1>3. TypeInv /\ ExecutionInv /\ ContinuationInv => AtMostOneContinuation
  <2> SUFFICES ASSUME TypeOK, ExecutionInv, ContinuationInv, NEW a \in Approvals
               PROVE  replies[a] <= 1 /\ replies[a] <= effects[a]
    BY DEF TypeInv, AtMostOneContinuation
  <2>1. /\ replies[a] \in Nat /\ effects[a] \in Nat
        /\ replies[a] <= 1
        /\ replies[a] > 0 => effects[a] > 0
    BY DEF TypeOK, ContinuationInv, ContRow
  <2>. QED
    BY <2>1
<1>. QED
  BY <1>1, <1>2, <1>3, PTL DEF Spec

-----------------------------------------------------------------------------
\* Execution keys: only a claim writes one.
LEMMA KeyWriters ==
  [Next]_vars =>
    \/ UNCHANGED key
    \/ \E w \in Workers, a \in Approvals, k \in Keys : Consume(w, a, k)
BY DEF Next, RowStep, ClaimStep, HandlerStep, vars, rowVars, contVars,
       Create, ResolveTooLate, Supersede, RecoverStale, RecoverConsumption, StopSession,
       Materialise, ClaimTooLate, Resolve, ClaimContinuation, ConsumeRefused, Dispatch,
       StartRefused, Record, Resume, Complete, CompleteRefused, ResumeRecovered,
       CompleteContinuation, FailContinuation, ContinuationRefused, Crash, Tick,
       MarkExpired, ReleaseTo

\* An execution key belongs to one approval: the UNIQUE index and the check of
\* consume.
THEOREM KeysUnique == Spec => []KeysAreUnique
<1>1. Init => KeysAreUnique
  <2> SUFFICES ASSUME Init, NEW a \in Approvals, NEW b \in Approvals,
                      key[a] = key[b], key[a] # NoKey
               PROVE  a = b
    BY DEF KeysAreUnique
  <2>1. PICK k \in [Legacy -> Keys] :
          /\ \A c, d \in Legacy : k[c] = k[d] => c = d
          /\ key = [c \in Approvals |-> IF c \in Legacy THEN k[c] ELSE NoKey]
    BY DEF Init
  <2>. QED
    BY <2>1
<1>2. TypeOK /\ KeysAreUnique /\ [Next]_vars => KeysAreUnique'
  <2> SUFFICES ASSUME TypeOK, KeysAreUnique, [Next]_vars PROVE KeysAreUnique'
    OBVIOUS
  <2>1. ASSUME NEW w \in Workers, NEW a \in Approvals, NEW k \in Keys, Consume(w, a, k)
        PROVE  KeysAreUnique'
    BY <2>1 DEF TypeOK, KeysAreUnique, Consume, KeyUsable
  <2>2. CASE UNCHANGED key
    BY <2>2 DEF KeysAreUnique
  <2>. QED
    BY <2>1, <2>2, KeyWriters
<1>. QED
  BY <1>1, <1>2, TypeCorrect, PTL DEF Spec

\* An approval that has a key keeps it, through every recovery and every later
\* claim.
THEOREM KeyForGood == Spec => KeyIsForGood
<1>1. TypeOK /\ [Next]_vars =>
        [\A a \in Approvals : key[a] # NoKey => key'[a] = key[a]]_vars
  <2> SUFFICES ASSUME TypeOK, [Next]_vars, NEW a \in Approvals, key[a] # NoKey
               PROVE  key'[a] = key[a]
    OBVIOUS
  <2>1. ASSUME NEW w \in Workers, NEW b \in Approvals, NEW k \in Keys, Consume(w, b, k)
        PROVE  key'[a] = key[a]
    BY <2>1 DEF TypeOK, Consume, KeyUsable
  <2>. QED
    BY <2>1, KeyWriters
<1>. QED
  BY <1>1, TypeCorrect, PTL DEF Spec, KeyIsForGood

-----------------------------------------------------------------------------
\* Terminal statuses.
RowFinal ==
  \A a \in Approvals : status[a] \in Terminal => status'[a] = status[a]
ContFinal ==
  \A a \in Approvals :
    /\ cont[a] \in ContTerminal => cont'[a] = cont[a]
    /\ cont[a] = "reconciling" => cont'[a] \notin {"none", "pending"}

LEMMA RowsAreFinal ==
  ASSUME TypeInv, [Next]_vars
  PROVE  RowFinal
<1> USE DEF RowFinal, Terminal, Refused, TypeInv, TypeOK
<1>1. CASE UNCHANGED status
  BY <1>1
<1>2. ASSUME NEW a \in Approvals, NEW from \in SUBSET {"pending", "approved_once"}, MarkExpired(a, from)
      PROVE  RowFinal
  BY <1>2 DEF MarkExpired
<1>3. ASSUME NEW a \in Approvals, NEW s, status[a] = "consuming",
             status' = [status EXCEPT ![a] = s]
      PROVE  RowFinal
  BY <1>3
<1>4. ASSUME NEW a \in Approvals, Create(a) PROVE RowFinal
  BY <1>4 DEF Create
<1>5. ASSUME NEW a \in Approvals, ResolveTooLate(a) PROVE RowFinal
  BY <1>5, <1>2 DEF ResolveTooLate
<1>6. ASSUME NEW a \in Approvals, Supersede(a) PROVE RowFinal
  BY <1>6, <1>2 DEF Supersede
<1>7. ASSUME NEW a \in Approvals, RecoverStale(a) PROVE RowFinal
  BY <1>7, <1>3 DEF RecoverStale, ReleaseTo, Stale
<1>8. ASSUME NEW a \in Approvals, NEW o \in Outcomes, RecoverConsumption(a, o) PROVE RowFinal
  BY <1>8, <1>3 DEF RecoverConsumption, ReleaseTo, Stale
<1>9. ASSUME NEW w \in Workers, NEW a \in Approvals, NEW d \in Decisions, Resolve(w, a, d)
      PROVE  RowFinal
  BY <1>9 DEF Resolve
<1>10. ASSUME NEW w \in Workers, NEW a \in Approvals, NEW k \in Keys, Consume(w, a, k)
       PROVE  RowFinal
  BY <1>10 DEF Consume, Claimable
<1>11. ASSUME NEW w \in Workers, ConsumeRefused(w) PROVE RowFinal
  <2>1. CASE UNCHANGED rowVars
    BY <2>1, <1>1 DEF rowVars
  <2>2. CASE MarkExpired(task[w].approval, {"approved_once"})
    BY <2>2 DEF MarkExpired
  <2>. QED
    BY <1>11, <2>1, <2>2 DEF ConsumeRefused
<1>12. ASSUME NEW w \in Workers, Complete(w) PROVE RowFinal
  BY <1>12 DEF Complete, OwnsLease
<1>. QED
  BY <1>1, <1>4, <1>5, <1>6, <1>7, <1>8, <1>9, <1>10, <1>11, <1>12
  DEF Next, RowStep, ClaimStep, HandlerStep, vars, rowVars, StopSession, Materialise,
      ClaimTooLate, ClaimContinuation, Dispatch, StartRefused, Record, Resume,
      CompleteRefused, ResumeRecovered, CompleteContinuation, FailContinuation,
      ContinuationRefused, Crash, Tick

LEMMA ContinuationsAreFinal ==
  ASSUME TypeInv, [Next]_vars
  PROVE  ContFinal
<1> USE DEF ContFinal, ContTerminal, TypeInv, TypeOK
<1>1. CASE UNCHANGED cont
  BY <1>1
<1>2. ASSUME NEW a \in Approvals, Materialise(a) PROVE ContFinal
  BY <1>2 DEF Materialise
<1>3. ASSUME NEW a \in Approvals, ClaimTooLate(a) PROVE ContFinal
  BY <1>3 DEF ClaimTooLate
<1>4. ASSUME NEW w \in Workers, NEW a \in Approvals, ClaimContinuation(w, a) PROVE ContFinal
  BY <1>4 DEF ClaimContinuation
<1>5. ASSUME NEW w \in Workers, CompleteContinuation(w) PROVE ContFinal
  BY <1>5 DEF CompleteContinuation, OwnsContinuation, EndContinuation
<1>6. ASSUME NEW w \in Workers, FailContinuation(w) PROVE ContFinal
  BY <1>6 DEF FailContinuation, OwnsContinuation, EndContinuation
<1>. HIDE DEF ContFinal, TypeInv, TypeOK
<1>7. ASSUME NEW a \in Approvals, RowStep(a) PROVE ContFinal
  BY <1>7, <1>1, <1>2, <1>3
  DEF RowStep, contVars, Create, ResolveTooLate, Supersede, RecoverStale, RecoverConsumption,
      StopSession
<1>8. ASSUME NEW w \in Workers, NEW a \in Approvals, ClaimStep(w, a) PROVE ContFinal
  BY <1>8, <1>1, <1>4 DEF ClaimStep, contVars, Resolve, Consume
<1>9. ASSUME NEW w \in Workers, HandlerStep(w) PROVE ContFinal
  BY <1>9, <1>1, <1>5, <1>6
  DEF HandlerStep, contVars, ConsumeRefused, Dispatch, StartRefused, Record, Resume, Complete,
      CompleteRefused, ResumeRecovered, ContinuationRefused
<1>. QED
  BY <1>1, <1>7, <1>8, <1>9 DEF Next, vars, contVars, Crash, Tick

\* No operation leaves a terminal status, and a continuation that ended or whose
\* outcome became unknown is never offered again.
THEOREM TerminalStays == Spec => TerminalIsFinal
<1>1. TypeInv /\ [Next]_vars =>
        [\A a \in Approvals :
           /\ status[a] \in Terminal => status'[a] = status[a]
           /\ cont[a] \in ContTerminal => cont'[a] = cont[a]
           /\ cont[a] = "reconciling" => cont'[a] \notin {"none", "pending"}]_vars
  BY RowsAreFinal, ContinuationsAreFinal DEF RowFinal, ContFinal
<1>2. Spec => []TypeInv
  BY InitTypes, NextTypes, PTL DEF Spec
<1>. QED
  BY <1>1, <1>2, PTL DEF Spec, TerminalIsFinal

-----------------------------------------------------------------------------
\* One lease.  Every claim draws a token that no handler of the approval holds,
\* and a handler keeps the token it drew as long as it executes.
TokensApart ==
  \A v, w \in Workers :
    /\ pc[v] \in Executing => task[v].token \in 1..claims[task[v].approval]
    /\ /\ pc[v] \in Executing /\ pc[w] \in Executing
       /\ task[v].approval = task[w].approval
       /\ task[v].token = task[w].token
       => v = w

\* What a step other than a claim leaves of the handlers that execute.
TokensKept ==
  /\ claims' = claims
  /\ \A v \in Workers :
       pc'[v] \in Executing =>
         /\ pc[v] \in Executing
         /\ task'[v].approval = task[v].approval
         /\ task'[v].token = task[v].token

LEMMA ClaimOrKeep ==
  ASSUME TypeInv, [Next]_vars
  PROVE  \/ \E w \in Workers, a \in Approvals, k \in Keys : Consume(w, a, k)
         \/ TokensKept
<1> USE DEF TypeInv, TokensKept
<1>1. ASSUME claims' = claims, UNCHANGED workerVars PROVE TokensKept
  BY <1>1 DEF workerVars
<1>2. ASSUME NEW w \in Workers, BecomeIdle(w), claims' = claims PROVE TokensKept
  BY <1>2, IdleMove DEF Executing
<1>3. ASSUME NEW w \in Workers, NEW loc, NEW t, Hold(w, loc, t), loc \notin Executing,
             claims' = claims
      PROVE  TokensKept
  BY <1>3, HoldMove
<1>4. ASSUME NEW w \in Workers, NEW loc, NEW r, Hold(w, loc, [task[w] EXCEPT !.res = r]),
             pc[w] \in Executing, r \in Results, claims' = claims
      PROVE  TokensKept
  <2> DEFINE t == [task[w] EXCEPT !.res = r]
  <2>1. t.approval = task[w].approval /\ t.token = task[w].token
    BY <1>4, NewResult DEF TypeOK
  <2>2. Hold(w, loc, t)
    BY <1>4
  <2>. HIDE DEF t
  <2>. QED
    BY <1>4, <2>1, <2>2, HoldMove
<1>5. ASSUME NEW a \in Approvals, RowStep(a) PROVE TokensKept
  BY <1>5, <1>1 DEF RowStep, Create, ResolveTooLate, Supersede, RecoverStale, RecoverConsumption,
     StopSession, Materialise, ClaimTooLate, ghostVars
<1>6. ASSUME NEW w \in Workers, NEW a \in Approvals, NEW d \in Decisions, Resolve(w, a, d)
      PROVE  TokensKept
  BY <1>6, <1>1, <1>3 DEF Resolve, ghostVars, Executing
<1>7. ASSUME NEW w \in Workers, NEW a \in Approvals, ClaimContinuation(w, a) PROVE TokensKept
  BY <1>7, <1>3 DEF ClaimContinuation, ghostVars, Executing
<1>8. ASSUME NEW w \in Workers,
             \/ ConsumeRefused(w) \/ Complete(w) \/ CompleteRefused(w)
             \/ CompleteContinuation(w) \/ FailContinuation(w)
             \/ ContinuationRefused(w) \/ Crash(w)
      PROVE  TokensKept
  BY <1>8, <1>2 DEF ConsumeRefused, Complete, CompleteRefused, CompleteContinuation,
     FailContinuation, ContinuationRefused, Crash, ghostVars
<1>9. ASSUME NEW w \in Workers, NEW s \in {"completed", "running", "failed"}, Dispatch(w, s)
      PROVE  TokensKept
  BY <1>9, <1>4, ResultTypes DEF Dispatch, Executing
<1>10. ASSUME NEW w \in Workers, StartRefused(w) PROVE TokensKept
  BY <1>10, <1>4, ResultTypes DEF StartRefused, ghostVars, Executing
<1>11. ASSUME NEW w \in Workers, Record(w) PROVE TokensKept
  <2> DEFINE chatSuccess == task[w].approval \in Chat /\ Succeeded(task[w].res)
             r == Result(task[w].res.st, IF chatSuccess THEN {"continuation_started"} ELSE {})
             loc == IF chatSuccess THEN "barrier" ELSE "recorded"
  <2>1. Hold(w, loc, [task[w] EXCEPT !.res = r]) /\ pc[w] = "executed" /\ claims' = claims
    BY <1>11 DEF Record, ghostVars
  <2>2. r \in Results
    BY ResultTypes DEF TypeOK, Tasks, Results, Flags
  <2>. HIDE DEF r, loc
  <2>. QED
    BY <1>4, <2>1, <2>2 DEF Executing
<1>12. ASSUME NEW w \in Workers, Resume(w) PROVE TokensKept
  <2>1. Result(task[w].res.st, {"react_continuation"}) \in Results
    BY ResultTypes DEF TypeOK, Tasks, Results, Flags
  <2>. QED
    BY <1>12, <1>4, <2>1 DEF Resume, Executing
<1>13. ASSUME NEW w \in Workers, ResumeRecovered(w) PROVE TokensKept
  <2>1. PICK t : Hold(w, "resumed", t)
    BY <1>13 DEF ResumeRecovered
  <2>. QED
    BY <1>13, <1>3, <2>1 DEF ResumeRecovered, Executing
<1>14. CASE Tick
  BY <1>14, <1>1 DEF Tick, ghostVars
<1>15. CASE UNCHANGED vars
  BY <1>15, <1>1 DEF vars, ghostVars
<1>. HIDE DEF TokensKept, TypeInv
<1>. QED
  BY <1>5, <1>6, <1>7, <1>8, <1>9, <1>10, <1>11, <1>12, <1>13, <1>14, <1>15
  DEF Next, ClaimStep, HandlerStep

LEMMA NextTokens == TypeInv /\ TokensApart /\ [Next]_vars => TokensApart'
<1> SUFFICES ASSUME TypeInv, TokensApart, [Next]_vars PROVE TokensApart'
  OBVIOUS
<1>1. CASE TokensKept
  BY <1>1 DEF TokensKept, TokensApart
<1>2. ASSUME NEW w \in Workers, NEW a \in Approvals, NEW k \in Keys, Consume(w, a, k)
      PROVE  TokensApart'
  <2>1. /\ claims[a] \in Nat /\ claims'[a] = claims[a] + 1
        /\ \A b \in Approvals \ {a} : claims'[b] = claims[b]
    BY <1>2 DEF Consume, TypeInv, TypeOK
  <2>2. /\ pc'[w] = "claimed" /\ task'[w] = Task(a, k, claims[a] + 1, NoResult)
        /\ \A v \in Workers \ {w} : pc'[v] = pc[v] /\ task'[v] = task[v]
    BY <1>2, HoldMove DEF Consume, TypeInv
  <2>3. task'[w].approval = a /\ task'[w].token = claims[a] + 1
    BY <2>2 DEF Task
  <2>4. \A v \in Workers \ {w} :
          pc'[v] \in Executing =>
            /\ task'[v].approval \in Approvals
            /\ task'[v].token \in 1..claims[task'[v].approval]
    BY <2>2 DEF TokensApart, TypeInv, HandlersHold, Executing
  <2>5. \A v \in Workers :
          pc'[v] \in Executing => task'[v].token \in 1..claims'[task'[v].approval]
    BY <2>1, <2>3, <2>4
  <2>6. \A v \in Workers \ {w} :
          pc'[v] \in Executing /\ task'[v].approval = a => task'[v].token # claims[a] + 1
    BY <2>1, <2>4
  <2>7. \A u, v \in Workers \ {w} :
          /\ pc'[u] \in Executing /\ pc'[v] \in Executing
          /\ task'[u].approval = task'[v].approval
          /\ task'[u].token = task'[v].token
          => u = v
    BY <2>2 DEF TokensApart
  <2>. QED
    BY <2>3, <2>5, <2>6, <2>7 DEF TokensApart
<1>. QED
  BY <1>1, <1>2, ClaimOrKeep

\* At most one handler can still complete an approval: the claim that follows a
\* recovery draws a token of its own, and complete_consumption asks for it, so
\* that the handler that was recovered from is shut out (consume,
\* recover_consumption and complete_consumption).
THEOREM OneHolder == Spec => []OneLeaseHolder
<1>1. Init => TypeInv /\ TokensApart
  BY InitTypes DEF Init, TokensApart, Executing
<1>2. TypeInv /\ TokensApart /\ [Next]_vars => (TypeInv /\ TokensApart)'
  BY NextTypes, NextTokens
<1>3. TokensApart => OneLeaseHolder
  BY DEF TokensApart, OneLeaseHolder, OwnsLease
<1>. QED
  BY <1>1, <1>2, <1>3, PTL DEF Spec

-----------------------------------------------------------------------------
\* The applied Chat call that somebody will find.  What a handler is about to
\* store of such a call already says how its turn goes on.
ShownRow(a) == status[a] = "consumed" /\ Applied(result[a]) => result[a].flags # {}

ShownTask(w) ==
  task[w].approval \in Chat =>
    /\ pc[w] = "recorded" /\ Applied(task[w].res) => task[w].res.flags # {}
    /\ pc[w] = "resumed" => task[w].res.flags # {}

ShownInv ==
  /\ \A a \in Chat : ShownRow(a)
  /\ \A w \in Workers : ShownTask(w)

\* The two ways to write a result: over no consumed row, or with its flags.
LEMMA ShownRowStep ==
  ASSUME TypeInv, ShownInv, NEW a \in Approvals,
         \A b \in Approvals \ {a} : status'[b] = status[b] /\ result'[b] = result[b],
         a \in Chat /\ status'[a] = "consumed" /\ Applied(result'[a])
           => \/ result'[a].flags # {}
              \/ UNCHANGED <<status, result>>
  PROVE  \A b \in Chat : ShownRow(b)'
<1>. SUFFICES ASSUME NEW b \in Chat PROVE ShownRow(b)'
  OBVIOUS
<1>1. b \in Approvals /\ ShownRow(b)
  BY ConstantsAssumption DEF ShownInv
<1>. QED
  BY <1>1 DEF ShownRow, Applied

LEMMA ShownMove ==
  ASSUME TypeInv, ShownInv, NEW w \in Workers,
         \A v \in Workers \ {w} : pc'[v] = pc[v] /\ task'[v] = task[v],
         ShownTask(w)'
  PROVE  \A v \in Workers : ShownTask(v)'
<1>. SUFFICES ASSUME NEW v \in Workers \ {w} PROVE ShownTask(v)'
  OBVIOUS
<1>. QED
  BY DEF ShownInv, ShownTask

LEMMA NextShown ==
  ASSUME OperatorStops = FALSE, "applied" \notin Outcomes,
         TypeInv, ShownInv, [Next]_vars
  PROVE  ShownInv'
<1> USE DEF TypeInv, TypeOK
<1>r. ASSUME \A v \in Workers : ShownTask(v)', \A b \in Chat : ShownRow(b)' PROVE ShownInv'
  BY <1>r DEF ShownInv
<1>t. ASSUME UNCHANGED workerVars PROVE \A v \in Workers : ShownTask(v)'
  BY <1>t DEF workerVars, ShownInv, ShownTask, Applied
<1>s. ASSUME UNCHANGED <<status, result>> PROVE \A b \in Chat : ShownRow(b)'
  BY <1>s DEF ShownInv, ShownRow, Applied
<1>m. ASSUME NEW w \in Workers, NEW loc, NEW t, Hold(w, loc, t), loc \notin {"recorded", "resumed"}
      PROVE  \A v \in Workers : ShownTask(v)'
  BY <1>m, HoldMove, ShownMove DEF ShownTask
<1>i. ASSUME NEW w \in Workers, BecomeIdle(w) PROVE \A v \in Workers : ShownTask(v)'
  BY <1>i, IdleMove, ShownMove DEF ShownTask
<1>h. ASSUME NEW w \in Workers, NEW loc, NEW r \in Results, Hold(w, loc, [task[w] EXCEPT !.res = r]),
             /\ loc = "recorded" /\ Applied(r) => r.flags # {}
             /\ loc = "resumed" => r.flags # {}
      PROVE  \A v \in Workers : ShownTask(v)'
  <2> DEFINE t == [task[w] EXCEPT !.res = r]
  <2>1. t.res = r
    BY NewResult
  <2>2. Hold(w, loc, t)
    BY <1>h
  <2>. HIDE DEF t
  <2>3. pc'[w] = loc /\ task'[w].res = r
    BY <2>1, <2>2, HoldMove
  <2>4. ShownTask(w)'
    BY <1>h, <2>3 DEF ShownTask, Applied
  <2>. QED
    BY <2>2, <2>4, HoldMove, ShownMove
<1>k. ASSUME NEW w \in Workers, pc[w] # "idle" PROVE task[w].approval \in Approvals
  BY <1>k DEF HandlersHold
<1>1. ASSUME NEW a \in Approvals, NEW s, s # "consumed", status' = [status EXCEPT ![a] = s],
             \A b \in Approvals \ {a} : result'[b] = result[b]
      PROVE  \A b \in Chat : ShownRow(b)'
  BY <1>1, ShownRowStep
<1>2. ASSUME NEW a \in Approvals, Create(a) PROVE ShownInv'
  BY <1>2, <1>1, <1>r, <1>t DEF Create
<1>3. ASSUME NEW a \in Approvals, NEW from, MarkExpired(a, from) PROVE \A b \in Chat : ShownRow(b)'
  BY <1>3, <1>1 DEF MarkExpired
<1>4. ASSUME NEW a \in Approvals, ResolveTooLate(a) PROVE ShownInv'
  BY <1>4, <1>3, <1>r, <1>t DEF ResolveTooLate
<1>5. ASSUME NEW a \in Approvals, Supersede(a) PROVE ShownInv'
  BY <1>5, <1>1, <1>3, <1>r, <1>t DEF Supersede
<1>6. ASSUME NEW a \in Approvals, RecoverStale(a) PROVE ShownInv'
  <2>1. \A b \in Approvals \ {a} : status'[b] = status[b] /\ result'[b] = result[b]
    BY <1>6 DEF RecoverStale, ReleaseTo
  <2>2. ASSUME a \in Chat, status'[a] = "consumed", Applied(result'[a]) PROVE result'[a].flags # {}
    <3>1. ~Expired(a) /\ Applied(result[a])
      BY <1>6, <2>2 DEF RecoverStale, ReleaseTo, Result, Applied
    <3>2. CASE "react_continuation" \in result[a].flags
      BY <1>6, <3>1, <3>2 DEF RecoverStale, Result
    <3>3. CASE "react_continuation" \notin result[a].flags /\ "continuation_started" \in result[a].flags
      <4>1. result'[a].flags = result[a].flags \ {"recovery_required"}
        BY <1>6, <2>2, <3>1, <3>3 DEF RecoverStale, Result
      <4>. QED
        BY <3>3, <4>1
    <3>4. CASE "react_continuation" \notin result[a].flags /\ "continuation_started" \notin result[a].flags
      <4>1. result'[a].flags = result[a].flags \cup {"recovery_required"}
        BY <1>6, <2>2, <3>1, <3>4 DEF RecoverStale, Result
      <4>. QED
        BY <4>1
    <3>. QED
      BY <3>2, <3>3, <3>4
  <2>. QED
    BY <1>6, <2>1, <2>2, ShownRowStep, <1>r, <1>t DEF RecoverStale
<1>7. ASSUME NEW a \in Approvals, NEW o \in Outcomes, RecoverConsumption(a, o) PROVE ShownInv'
  <2>1. o \in {"not_started", "unknown"}
    BY ConstantsAssumption
  <2>2. PICK s \in {"expired", "approved_once", "execution_failed"} :
          status' = [status EXCEPT ![a] = s]
    <3>1. CASE o = "not_started"
      BY <1>7, <3>1 DEF RecoverConsumption, ReleaseTo
    <3>2. CASE o = "unknown"
      BY <1>7, <3>2 DEF RecoverConsumption, ReleaseTo
    <3>. QED
      BY <2>1, <3>1, <3>2
  <2>. QED
    BY <1>7, <2>1, <2>2, <1>1, <1>r, <1>t DEF RecoverConsumption
<1>8. ASSUME NEW a \in Approvals, Materialise(a) \/ ClaimTooLate(a) PROVE ShownInv'
  BY <1>8, <1>r, <1>s, <1>t DEF Materialise, ClaimTooLate, rowVars
<1>9. ASSUME NEW w \in Workers, NEW a \in Approvals, NEW d \in Decisions, Resolve(w, a, d)
      PROVE  ShownInv'
  <2>1. \A b \in Chat : ShownRow(b)'
    BY <1>9, <1>1 DEF Resolve
  <2>. QED
    BY <1>9, <2>1, <1>m, <1>r, <1>t DEF Resolve
<1>10. ASSUME NEW w \in Workers, NEW a \in Approvals, NEW k \in Keys, Consume(w, a, k)
       PROVE  ShownInv'
  <2>1. \A b \in Chat : ShownRow(b)'
    BY <1>10, <1>1 DEF Consume
  <2>2. PICK t : Hold(w, "claimed", t)
    BY <1>10 DEF Consume
  <2>. QED
    BY <2>1, <2>2, <1>m, <1>r
<1>11. ASSUME NEW w \in Workers, NEW a \in Approvals, ClaimContinuation(w, a) PROVE ShownInv'
  BY <1>11, <1>m, <1>r, <1>s DEF ClaimContinuation, rowVars
<1>12. ASSUME NEW w \in Workers, ConsumeRefused(w) PROVE ShownInv'
  BY <1>12, <1>3, <1>i, <1>k, <1>r, <1>s DEF ConsumeRefused, rowVars
<1>13. ASSUME NEW w \in Workers, NEW s \in {"completed", "running", "failed"}, Dispatch(w, s)
       PROVE  ShownInv'
  BY <1>13, <1>m, <1>r, <1>s DEF Dispatch, rowVars
<1>14. ASSUME NEW w \in Workers, NEW r \in Results, StoreResult(task[w].approval, r),
              pc[w] # "idle", UNCHANGED status,
              task[w].approval \in Chat /\ Applied(r) => r.flags # {}
       PROVE  \A b \in Chat : ShownRow(b)'
  <2> DEFINE a == task[w].approval
  <2>1. a \in Approvals
    BY <1>14, <1>k
  <2>2. UNCHANGED result \/ result' = [result EXCEPT ![a] = r]
    BY <1>14 DEF StoreResult
  <2>3. CASE UNCHANGED result
    BY <1>14, <2>3, <1>s
  <2>4. CASE result' = [result EXCEPT ![a] = r]
    BY <1>14, <2>1, <2>4, ShownRowStep
  <2>. QED
    BY <2>2, <2>3, <2>4
<1>15. ASSUME NEW w \in Workers, StartRefused(w) PROVE ShownInv'
  <2>1. Plain("failed") \in Results /\ ~Applied(Plain("failed"))
    BY ResultTypes DEF Plain, Result, Applied
  <2>. QED
    BY <1>15, <2>1, <1>14, <1>h, <1>r DEF StartRefused
<1>16. ASSUME NEW w \in Workers, Record(w) PROVE ShownInv'
  <2> DEFINE chatSuccess == task[w].approval \in Chat /\ Succeeded(task[w].res)
             r == Result(task[w].res.st, IF chatSuccess THEN {"continuation_started"} ELSE {})
             loc == IF chatSuccess THEN "barrier" ELSE "recorded"
  <2>1. /\ pc[w] = "executed" /\ UNCHANGED status
        /\ StoreResult(task[w].approval, r)
        /\ Hold(w, loc, [task[w] EXCEPT !.res = r])
    BY <1>16 DEF Record
  <2>2. r \in Results
    BY ResultTypes DEF Tasks, Results, Flags
  <2>3. task[w].approval \in Chat /\ Applied(r) => r.flags # {}
    BY DEF Applied, Succeeded, Result
  <2>4. \/ loc \notin {"recorded", "resumed"}
        \/ loc = "recorded" /\ (task[w].approval \notin Chat \/ ~Applied(r))
    <3>1. Applied(r) => Succeeded(task[w].res)
      BY DEF Applied, Succeeded, Result
    <3>2. CASE chatSuccess
      BY <3>2
    <3>3. CASE ~chatSuccess
      BY <3>1, <3>3
    <3>. QED
      BY <3>2, <3>3
  <2>. HIDE DEF r, loc
  <2>5. \A b \in Chat : ShownRow(b)'
    BY <2>1, <2>2, <2>3, <1>14
  <2>6. \A v \in Workers : ShownTask(v)'
    <3>1. CASE loc \notin {"recorded", "resumed"}
      BY <2>1, <3>1, <1>m
    <3>2. CASE loc = "recorded" /\ ~Applied(r)
      BY <2>1, <2>2, <3>2, <1>h
    <3>3. CASE task[w].approval \notin Chat
      <4>1. task[w] \in Tasks /\ [task[w] EXCEPT !.res = r].approval = task[w].approval
        BY <2>2, NewResult
      <4>2. task'[w] = [task[w] EXCEPT !.res = r]
        BY <2>1 DEF Hold
      <4>3. ShownTask(w)'
        BY <3>3, <4>1, <4>2 DEF ShownTask
      <4>. QED
        BY <2>1, <4>3, ShownMove DEF Hold
    <3>. QED
      BY <2>4, <3>1, <3>2, <3>3
  <2>. QED
    BY <2>5, <2>6, <1>r
<1>17. ASSUME NEW w \in Workers, Resume(w) PROVE ShownInv'
  <2> DEFINE r == Result(task[w].res.st, {"react_continuation"})
  <2>1. r \in Results /\ r.flags # {}
    BY ResultTypes DEF Tasks, Results, Flags, Result
  <2>2. Hold(w, "recorded", [task[w] EXCEPT !.res = r]) /\ UNCHANGED rowVars
    BY <1>17 DEF Resume
  <2>. HIDE DEF r
  <2>. QED
    BY <2>1, <2>2, <1>h, <1>r, <1>s DEF rowVars
<1>18. ASSUME NEW w \in Workers, Complete(w) PROVE ShownInv'
  <2> DEFINE a == task[w].approval
  <2>1. a \in Approvals /\ pc[w] = "recorded"
    BY <1>18, <1>k DEF Complete
  <2>2. /\ result' = [result EXCEPT ![a] = task[w].res]
        /\ \A b \in Approvals \ {a} : status'[b] = status[b]
    BY <1>18 DEF Complete
  <2>3. a \in Chat /\ Applied(task[w].res) => task[w].res.flags # {}
    BY <2>1 DEF ShownInv, ShownTask
  <2>4. \A b \in Chat : ShownRow(b)'
    BY <2>1, <2>2, <2>3, ShownRowStep
  <2>. QED
    BY <1>18, <2>4, <1>i, <1>r DEF Complete
<1>19. ASSUME NEW w \in Workers, CompleteContinuation(w) PROVE ShownInv'
  <2> DEFINE a == task[w].approval
  <2>1. a \in Approvals /\ pc[w] = "resumed"
    BY <1>19, <1>k DEF CompleteContinuation
  <2>2. result' = [result EXCEPT ![a] = task[w].res] /\ UNCHANGED status
    BY <1>19 DEF CompleteContinuation
  <2>3. a \in Chat => task[w].res.flags # {}
    BY <2>1 DEF ShownInv, ShownTask
  <2>4. \A b \in Chat : ShownRow(b)'
    BY <2>1, <2>2, <2>3, ShownRowStep
  <2>. QED
    BY <1>19, <2>4, <1>i, <1>r DEF CompleteContinuation
<1>20. ASSUME NEW w \in Workers,
              \/ CompleteRefused(w) \/ FailContinuation(w) \/ ContinuationRefused(w) \/ Crash(w)
       PROVE  ShownInv'
  BY <1>20, <1>i, <1>r, <1>s DEF CompleteRefused, FailContinuation, ContinuationRefused, Crash,
     rowVars
<1>21. ASSUME NEW w \in Workers, ResumeRecovered(w) PROVE ShownInv'
  <2> DEFINE r == Result(task[w].res.st,
                (task[w].res.flags \ {"recovery_required"}) \cup {"react_continuation"})
  <2>1. r \in Results /\ r.flags # {}
    BY ResultTypes DEF Tasks, Results, Flags, Result
  <2>2. Hold(w, "resumed", [task[w] EXCEPT !.res = r]) /\ UNCHANGED rowVars
    BY <1>21 DEF ResumeRecovered
  <2>. HIDE DEF r
  <2>. QED
    BY <2>1, <2>2, <1>h, <1>r, <1>s DEF rowVars
<1>22. CASE Tick \/ UNCHANGED vars
  BY <1>22, <1>r, <1>s, <1>t DEF Tick, vars, rowVars
<1>. HIDE DEF TypeInv, TypeOK
<1>. QED
  BY <1>2, <1>4, <1>5, <1>6, <1>7, <1>8, <1>9, <1>10, <1>11, <1>12, <1>13, <1>15, <1>16, <1>17,
     <1>18, <1>19, <1>20, <1>21, <1>22
  DEF Next, RowStep, ClaimStep, HandlerStep, StopSession

\* An applied Chat call that ended consumed has its reply or its barrier, or asks
\* the dispatcher for its continuation: a crash at any point between the tool and
\* complete_consumption leaves nothing that recover_stale_consumptions would not
\* make discoverable.  The callers of the code justify the hypotheses: nothing
\* under src/mochi calls recover_consumption with "applied", and an operator who
\* stops the session of a call replaces its stored result, flags included.
THEOREM ChatIsDiscoverable ==
  ASSUME OperatorStops = FALSE, "applied" \notin Outcomes
  PROVE  Spec => []AppliedChatIsDiscoverable
<1>1. Init => TypeInv /\ ShownInv
  <2> SUFFICES ASSUME Init PROVE ShownInv
    BY InitTypes
  <2>1. ASSUME NEW a \in Chat PROVE ShownRow(a)
    <3>1. a \in Approvals
      BY ConstantsAssumption
    <3>2. CASE a \in Legacy
      <4>1. status[a] = "consumed" => result[a] = Result("completed", {"recovery_required"})
        BY <3>1, <3>2 DEF Init
      <4>. QED
        BY <4>1 DEF ShownRow, Result
    <3>3. CASE a \notin Legacy
      BY <3>1, <3>3 DEF Init, ShownRow
    <3>. QED
      BY <3>2, <3>3
  <2>2. \A w \in Workers : pc[w] = "idle"
    BY DEF Init
  <2>. QED
    BY <2>1, <2>2 DEF ShownInv, ShownTask
<1>2. TypeInv /\ ShownInv /\ [Next]_vars => (TypeInv /\ ShownInv)'
  BY NextTypes, NextShown
<1>3. ShownInv => AppliedChatIsDiscoverable
  BY DEF ShownInv, ShownRow, AppliedChatIsDiscoverable
<1>. QED
  BY <1>1, <1>2, <1>3, PTL DEF Spec

-----------------------------------------------------------------------------
\* The store and its handlers implement OneShotApproval.  Phases and Permits are
\* the values the refinement mapping gives to its first two variables.
Phases  == [a \in Approvals |-> PhaseOf(status[a])]
Permits == {a \in Approvals : PermitHeld(a)}

LEMMA PhaseValues ==
  /\ PhaseOf("absent") = "open"           /\ PhaseOf("pending") = "open"
  /\ PhaseOf("approved_once") = "granted" /\ PhaseOf("consuming") = "spent"
  /\ PhaseOf("rejected") = "closed"       /\ PhaseOf("superseded") = "closed"
  /\ PhaseOf("expired") = "closed"        /\ PhaseOf("consumed") = "closed"
  /\ PhaseOf("execution_failed") = "closed"
BY DEF PhaseOf, Terminal, Refused

\* A handler that moves elsewhere than into or out of its permit.
LEMMA PermitsStay ==
  ASSUME NEW w \in Workers, pc[w] # "claimed", pc'[w] # "claimed",
         \A v \in Workers \ {w} : pc'[v] = pc[v] /\ task'[v] = task[v]
  PROVE  Permits' = Permits
<1>1. \A a \in Approvals : PermitHeld(a)' <=> PermitHeld(a)
  BY DEF PermitHeld
<1>. QED
  BY <1>1 DEF Permits

LEMMA PermitGoes ==
  ASSUME TypeInv, ExecutionInv, NEW w \in Workers, pc[w] = "claimed", pc'[w] # "claimed",
         \A v \in Workers \ {w} : pc'[v] = pc[v] /\ task'[v] = task[v]
  PROVE  /\ task[w].approval \in Permits
         /\ Permits' = Permits \ {task[w].approval}
<1>1. PICK a \in Approvals : a = task[w].approval
  BY DEF TypeInv, HandlersHold
<1>2. \A v \in Workers : pc[v] = "claimed" /\ task[v].approval = a => v = w
  BY <1>1 DEF ExecutionInv, OneBusy, Busy
<1>3. PermitHeld(a) /\ ~PermitHeld(a)'
  BY <1>1, <1>2 DEF PermitHeld
<1>4. \A b \in Approvals \ {a} : PermitHeld(b)' <=> PermitHeld(b)
  BY <1>1 DEF PermitHeld
<1>5. a \in Permits /\ Permits' = Permits \ {a}
  BY <1>3, <1>4 DEF Permits
<1>. QED
  BY <1>1, <1>5

LEMMA PromiseStart == Init => Promise!Init
<1> SUFFICES ASSUME Init PROVE Promise!Init
  OBVIOUS
<1>1. ASSUME NEW a \in Approvals
      PROVE  /\ Phases[a] \in {"open", "spent", "closed"}
             /\ effects[a] = IF Phases[a] = "open" THEN 0 ELSE 1
  <2>1. CASE a \in Legacy
    <3>1. status[a] \in {"consuming", "consumed"} /\ effects[a] = 1
      BY <2>1 DEF Init
    <3>. QED
      BY <3>1, PhaseValues DEF Phases
  <2>2. CASE a \notin Legacy
    <3>1. status[a] = "absent" /\ effects[a] = 0
      BY <2>2 DEF Init
    <3>. QED
      BY <3>1, PhaseValues DEF Phases
  <2>. QED
    BY <2>1, <2>2
<1>2. effects = [a \in Approvals |-> effects[a]]
  BY DEF Init
<1>3. Phases \in [Approvals -> {"open", "spent", "closed"}]
  BY <1>1 DEF Phases
<1>4. effects = [a \in Approvals |-> IF Phases[a] = "open" THEN 0 ELSE 1]
  BY <1>1, <1>2
<1>5. Permits = {} /\ replies = [a \in Approvals |-> 0]
  BY DEF Init, Permits, PermitHeld
<1>. QED
  BY <1>3, <1>4, <1>5 DEF Promise!Init, Phases, Permits

LEMMA PromiseStep ==
  ASSUME OperatorStops = FALSE, TypeInv, ExecutionInv, ContinuationInv, [Next]_vars
  PROVE  [Promise!Next]_(Promise!vars)
<1> DEFINE Stutter == Phases' = Phases /\ Permits' = Permits /\ effects' = effects /\ replies' = replies
<1>. USE DEF TypeInv
<1>s. Stutter => UNCHANGED Promise!vars
  BY DEF Promise!vars, Phases, Permits
<1>p. UNCHANGED status => Phases' = Phases
  BY DEF Phases
<1>w. UNCHANGED workerVars => Permits' = Permits
  BY DEF workerVars, Permits, PermitHeld
<1>n. \A a \in Approvals :
        Promise!Grant(a) \/ Promise!Refuse(a) \/ Promise!Claim(a) \/ Promise!Run(a)
          \/ Promise!Lose(a) \/ Promise!Return(a) \/ Promise!Close(a) \/ Promise!Tell(a)
        => Promise!Next
  BY DEF Promise!Next
<1> HIDE DEF Stutter
<1>m. ASSUME NEW a \in Approvals, NEW from \in SUBSET {"pending", "approved_once"},
             MarkExpired(a, from), Permits' = Permits, UNCHANGED ghostVars
      PROVE  Promise!Refuse(a)
  <2>1. Phases' = [Phases EXCEPT ![a] = "closed"] /\ Phases[a] \in {"open", "granted"}
    BY <1>m, PhaseValues DEF MarkExpired, Phases, TypeOK
  <2>. QED
    BY <1>m, <2>1 DEF Promise!Refuse, Phases, Permits, ghostVars
<1>1. ASSUME NEW a \in Approvals, Create(a) PROVE Stutter
  <2>1. Phases' = [Phases EXCEPT ![a] = "open"] /\ Phases[a] = "open"
    BY <1>1, PhaseValues DEF Create, Phases, TypeOK
  <2>2. Phases' = Phases
    BY <2>1 DEF Phases
  <2>. QED
    BY <1>1, <1>w, <2>2 DEF Create, ghostVars, Stutter
<1>2. ASSUME NEW a \in Approvals, ResolveTooLate(a) PROVE Promise!Refuse(a)
  BY <1>2, <1>m, <1>w DEF ResolveTooLate
<1>3. ASSUME NEW a \in Approvals, Supersede(a) PROVE Promise!Refuse(a)
  <2>1. CASE MarkExpired(a, {"pending"})
    BY <1>3, <2>1, <1>m, <1>w DEF Supersede
  <2>2. CASE status[a] = "pending" /\ status' = [status EXCEPT ![a] = "superseded"]
    <3>1. Phases' = [Phases EXCEPT ![a] = "closed"] /\ Phases[a] = "open"
      BY <2>2, PhaseValues DEF Phases, TypeOK
    <3>2. Permits' = Permits /\ UNCHANGED ghostVars
      BY <1>3, <1>w DEF Supersede
    <3>. QED
      BY <3>1, <3>2 DEF Promise!Refuse, Phases, Permits, ghostVars
  <2>. QED
    BY <1>3, <2>1, <2>2 DEF Supersede
<1>4. ASSUME NEW a \in Approvals, RecoverStale(a) PROVE Promise!Close(a)
  <2>1. PICK s \in {"expired", "consumed", "execution_failed"} :
          status' = [status EXCEPT ![a] = s]
    BY <1>4 DEF RecoverStale, ReleaseTo
  <2>2. status[a] = "consuming" /\ UNCHANGED <<workerVars, ghostVars>>
    BY <1>4 DEF RecoverStale, Stale
  <2>3. Phases' = [Phases EXCEPT ![a] = "closed"] /\ Phases[a] = "spent"
    BY <2>1, <2>2, PhaseValues DEF Phases, TypeOK
  <2>. QED
    BY <2>2, <2>3, <1>w DEF Promise!Close, Phases, Permits, ghostVars
<1>5. ASSUME NEW a \in Approvals, NEW o \in Outcomes, RecoverConsumption(a, o)
      PROVE  Promise!Close(a) \/ Promise!Return(a)
  <2>1. status[a] = "consuming" /\ UNCHANGED <<workerVars, ghostVars>>
    BY <1>5 DEF RecoverConsumption, Stale
  <2>2. Permits' = Permits /\ Phases[a] = "spent" /\ UNCHANGED <<effects, replies>>
    BY <2>1, <1>w, PhaseValues DEF Phases, ghostVars
  <2>3. CASE \E s \in {"expired", "consumed", "execution_failed"} :
               status' = [status EXCEPT ![a] = s]
    <3>1. PICK s \in {"expired", "consumed", "execution_failed"} :
            status' = [status EXCEPT ![a] = s]
      BY <2>3
    <3>2. PhaseOf(s) = "closed"
      BY PhaseValues
    <3>3. Phases' = [Phases EXCEPT ![a] = "closed"]
      BY <3>1, <3>2 DEF Phases, TypeOK
    <3>. QED
      BY <2>2, <3>3 DEF Promise!Close, Phases, Permits
  <2>4. CASE o = "not_started" /\ status' = [status EXCEPT ![a] = "approved_once"]
    <3>1. Phases' = [Phases EXCEPT ![a] = "granted"]
      BY <2>4, PhaseValues DEF Phases, TypeOK
    <3>2. effects[a] = 0 /\ a \notin Permits
      BY <1>5, <2>4 DEF RecoverConsumption, Evidence, Permits, PermitHeld
    <3>. QED
      BY <2>2, <3>1, <3>2 DEF Promise!Return, Phases, Permits
  <2>5. CASE o = "applied"
    BY <1>5, <2>3, <2>5 DEF RecoverConsumption, ReleaseTo
  <2>6. CASE o = "not_started"
    BY <1>5, <2>3, <2>4, <2>6 DEF RecoverConsumption, ReleaseTo
  <2>7. CASE o = "unknown"
    BY <1>5, <2>3, <2>7 DEF RecoverConsumption, ReleaseTo
  <2>. QED
    BY <2>5, <2>6, <2>7, ConstantsAssumption
<1>6. ASSUME NEW a \in Approvals, Materialise(a) \/ ClaimTooLate(a) PROVE Stutter
  BY <1>6, <1>p, <1>w DEF Materialise, ClaimTooLate, rowVars, ghostVars, Stutter
<1>7. ASSUME NEW w \in Workers, NEW a \in Approvals, NEW d \in Decisions, Resolve(w, a, d)
      PROVE  Promise!Grant(a) \/ Promise!Refuse(a)
  <2>1. status[a] = "pending" /\ Phases[a] = "open" /\ UNCHANGED ghostVars
    BY <1>7, PhaseValues DEF Resolve, Phases
  <2>2. CASE d = "reject"
    <3>1. Phases' = [Phases EXCEPT ![a] = "closed"]
      BY <1>7, <2>2, PhaseValues DEF Resolve, Phases, TypeOK
    <3>2. Permits' = Permits
      BY <1>7, <2>2, <1>w DEF Resolve
    <3>. QED
      BY <2>1, <3>1, <3>2 DEF Promise!Refuse, Phases, Permits, ghostVars
  <2>3. CASE d # "reject"
    <3>1. Phases' = [Phases EXCEPT ![a] = "granted"]
      BY <1>7, <2>3, PhaseValues DEF Resolve, Phases, TypeOK
    <3>2. Hold(w, "resolved", Task(a, NoKey, 0, NoResult)) /\ pc[w] = "idle"
      BY <1>7, <2>3 DEF Resolve
    <3>3. Permits' = Permits
      BY <3>2, HoldMove, PermitsStay
    <3>. QED
      BY <2>1, <3>1, <3>3 DEF Promise!Grant, Phases, Permits, ghostVars
  <2>. QED
    BY <2>2, <2>3
<1>8. ASSUME NEW w \in Workers, NEW a \in Approvals, NEW k \in Keys, Consume(w, a, k)
      PROVE  Promise!Claim(a)
  <2>1. status[a] = "approved_once" /\ UNCHANGED <<effects, replies>>
    BY <1>8 DEF Consume, Claimable
  <2>2. Phases' = [Phases EXCEPT ![a] = "spent"] /\ Phases[a] = "granted"
    BY <1>8, <2>1, PhaseValues DEF Consume, Phases, TypeOK
  <2>3. effects[a] = 0 /\ \A v \in Workers : ~Permit(v, a)
    BY <2>1 DEF ExecutionInv, ExecRow, ExecHandler, Unclaimed
  <2>4. a \notin Permits
    BY <2>3 DEF Permits, PermitHeld, Permit
  <2>5. /\ pc'[w] = "claimed" /\ task'[w].approval = a /\ pc[w] # "claimed"
        /\ \A v \in Workers \ {w} : pc'[v] = pc[v] /\ task'[v] = task[v]
    <3>1. Hold(w, "claimed", Task(a, k, claims[a] + 1, NoResult)) /\ pc[w] # "claimed"
      BY <1>8 DEF Consume, MayConsume
    <3>. QED
      BY <3>1, HoldMove DEF Task
  <2>6. PermitHeld(a)' /\ \A b \in Approvals \ {a} : PermitHeld(b)' <=> PermitHeld(b)
    BY <2>5 DEF PermitHeld
  <2>7. Permits' = Permits \cup {a}
    BY <2>6 DEF Permits
  <2>. QED
    BY <2>1, <2>2, <2>3, <2>4, <2>7 DEF Promise!Claim, Phases, Permits
<1>9. ASSUME NEW w \in Workers, NEW a \in Approvals, ClaimContinuation(w, a) PROVE Stutter
  <2>1. Hold(w, "reclaimed", Task(a, NoKey, 1, result[a])) /\ pc[w] = "idle"
    BY <1>9 DEF ClaimContinuation
  <2>2. Permits' = Permits
    BY <2>1, HoldMove, PermitsStay
  <2>. QED
    BY <1>9, <2>2, <1>p DEF ClaimContinuation, rowVars, ghostVars, Stutter
<1>10. ASSUME NEW w \in Workers, ConsumeRefused(w)
       PROVE  Stutter \/ Promise!Refuse(task[w].approval)
  <2>1. Permits' = Permits
    BY <1>10, IdleMove, PermitsStay DEF ConsumeRefused
  <2>2. CASE UNCHANGED rowVars
    BY <1>10, <2>1, <2>2, <1>p DEF ConsumeRefused, rowVars, ghostVars, Stutter
  <2>3. CASE MarkExpired(task[w].approval, {"approved_once"})
    <3>1. task[w].approval \in Approvals /\ UNCHANGED ghostVars
      BY <1>10 DEF ConsumeRefused, HandlersHold
    <3>. QED
      BY <2>1, <2>3, <3>1, <1>m
  <2>. QED
    BY <1>10, <2>2, <2>3 DEF ConsumeRefused
<1>11. ASSUME NEW w \in Workers, NEW s, Dispatch(w, s)
       PROVE  Promise!Run(task[w].approval)
  <2>1. Hold(w, "executed", [task[w] EXCEPT !.res = Plain(s)]) /\ pc[w] = "claimed"
    BY <1>11 DEF Dispatch
  <2>2. task[w].approval \in Permits /\ Permits' = Permits \ {task[w].approval}
    BY <2>1, HoldMove, PermitGoes
  <2>3. Phases' = Phases
    BY <1>11, <1>p DEF Dispatch, rowVars
  <2>. QED
    BY <1>11, <2>2, <2>3 DEF Dispatch, Promise!Run, Phases, Permits
<1>12. ASSUME NEW w \in Workers, StartRefused(w) PROVE Promise!Lose(task[w].approval)
  <2>1. Hold(w, "recorded", [task[w] EXCEPT !.res = Plain("failed")]) /\ pc[w] = "claimed"
    BY <1>12 DEF StartRefused
  <2>2. task[w].approval \in Permits /\ Permits' = Permits \ {task[w].approval}
    BY <2>1, HoldMove, PermitGoes
  <2>3. Phases' = Phases
    BY <1>12, <1>p DEF StartRefused
  <2>. QED
    BY <1>12, <2>2, <2>3 DEF StartRefused, Promise!Lose, Phases, Permits, ghostVars
<1>13. ASSUME NEW w \in Workers, Record(w) PROVE Stutter
  <2>1. \E loc \in {"barrier", "recorded"} : \E t : Hold(w, loc, t)
    BY <1>13 DEF Record
  <2>2. pc[w] = "executed"
    BY <1>13 DEF Record
  <2>3. Permits' = Permits
    BY <2>1, <2>2, HoldMove, PermitsStay
  <2>. QED
    BY <1>13, <2>3, <1>p DEF Record, ghostVars, Stutter
<1>14. ASSUME NEW w \in Workers, Resume(w) PROVE Stutter \/ Promise!Tell(task[w].approval)
  <2> DEFINE a == task[w].approval
  <2>1. pc[w] = "barrier" /\ a \in Approvals
    BY <1>14 DEF Resume, HandlersHold
  <2>2. effects[a] = 1 /\ replies[a] = 0
    BY <2>1 DEF TypeOK, ExecutionInv, ExecRow, ExecHandler, ContinuationInv, ContHandler, Works, Busy
  <2>3. \E t : Hold(w, "recorded", t)
    BY <1>14 DEF Resume
  <2>4. Permits' = Permits
    BY <2>1, <2>3, HoldMove, PermitsStay
  <2>5. Phases' = Phases /\ effects' = effects
    BY <1>14, <1>p DEF Resume, rowVars
  <2>6. replies' = [replies EXCEPT ![a] = 1] \/ UNCHANGED replies
    BY <1>14, <2>2 DEF Resume
  <2>. QED
    BY <2>2, <2>4, <2>5, <2>6 DEF Promise!Tell, Phases, Permits, Stutter
<1>15. ASSUME NEW w \in Workers, Complete(w) PROVE Promise!Close(task[w].approval)
  <2> DEFINE a == task[w].approval
  <2>1. status[a] = "consuming" /\ pc[w] = "recorded" /\ a \in Approvals /\ UNCHANGED ghostVars
    BY <1>15 DEF Complete, OwnsLease, HandlersHold
  <2>2. PICK s \in {"consumed", "execution_failed"} : status' = [status EXCEPT ![a] = s]
    BY <1>15 DEF Complete
  <2>3. Phases' = [Phases EXCEPT ![a] = "closed"] /\ Phases[a] = "spent"
    BY <2>1, <2>2, PhaseValues DEF Phases, TypeOK
  <2>4. Permits' = Permits
    BY <1>15, <2>1, IdleMove, PermitsStay DEF Complete
  <2>. QED
    BY <2>1, <2>3, <2>4 DEF Promise!Close, Phases, Permits, ghostVars
<1>16. ASSUME NEW w \in Workers,
              CompleteRefused(w) \/ CompleteContinuation(w) \/ FailContinuation(w)
                \/ ContinuationRefused(w)
       PROVE  Stutter
  <2>1. pc[w] # "claimed" /\ BecomeIdle(w)
    BY <1>16 DEF CompleteRefused, CompleteContinuation, FailContinuation, ContinuationRefused
  <2>2. Permits' = Permits
    BY <2>1, IdleMove, PermitsStay
  <2>. QED
    BY <1>16, <2>2, <1>p DEF CompleteRefused, CompleteContinuation, FailContinuation,
       ContinuationRefused, rowVars, ghostVars, Stutter
<1>17. ASSUME NEW w \in Workers, ResumeRecovered(w) PROVE Promise!Tell(task[w].approval)
  <2> DEFINE a == task[w].approval
  <2>1. pc[w] = "reclaimed" /\ a \in Approvals
    BY <1>17 DEF ResumeRecovered, HandlersHold
  <2>2. effects[a] = 1 /\ replies[a] = 0
    BY <2>1 DEF TypeOK, ExecutionInv, ExecRow, ExecHandler, ContinuationInv, ContHandler, Works
  <2>3. \E t : Hold(w, "resumed", t)
    BY <1>17 DEF ResumeRecovered
  <2>4. Permits' = Permits
    BY <2>1, <2>3, HoldMove, PermitsStay
  <2>5. Phases' = Phases /\ effects' = effects
    BY <1>17, <1>p DEF ResumeRecovered, rowVars
  <2>6. replies' = [replies EXCEPT ![a] = 1]
    BY <1>17, <2>2 DEF ResumeRecovered
  <2>. QED
    BY <2>2, <2>4, <2>5, <2>6 DEF Promise!Tell, Phases, Permits
<1>18. ASSUME NEW w \in Workers, Crash(w) PROVE Stutter \/ Promise!Lose(task[w].approval)
  <2>1. BecomeIdle(w) /\ Phases' = Phases /\ UNCHANGED ghostVars
    BY <1>18, <1>p DEF Crash, rowVars
  <2>2. CASE pc[w] = "claimed"
    <3>1. task[w].approval \in Permits /\ Permits' = Permits \ {task[w].approval}
      BY <2>1, <2>2, IdleMove, PermitGoes
    <3>. QED
      BY <2>1, <3>1 DEF Promise!Lose, Phases, Permits, ghostVars
  <2>3. CASE pc[w] # "claimed"
    <3>1. Permits' = Permits
      BY <2>1, <2>3, IdleMove, PermitsStay
    <3>. QED
      BY <2>1, <3>1 DEF ghostVars, Stutter
  <2>. QED
    BY <2>2, <2>3
<1>19. ASSUME Tick PROVE Stutter
  BY <1>19, <1>p, <1>w DEF Tick, ghostVars, Stutter
<1>20. ASSUME UNCHANGED vars PROVE Stutter
  BY <1>20, <1>p, <1>w DEF vars, rowVars, ghostVars, Stutter
<1>. QED
  <2>1. ASSUME NEW a \in Approvals, RowStep(a) PROVE Stutter \/ Promise!Next
    BY <2>1, <1>n, <1>1, <1>2, <1>3, <1>4, <1>5, <1>6 DEF RowStep, StopSession
  <2>2. ASSUME NEW w \in Workers, NEW a \in Approvals, ClaimStep(w, a)
        PROVE  Stutter \/ Promise!Next
    BY <2>2, <1>n, <1>7, <1>8, <1>9 DEF ClaimStep
  <2>3. ASSUME NEW w \in Workers, HandlerStep(w) \/ Crash(w) PROVE Stutter \/ Promise!Next
    <3>1. pc[w] # "idle"
      BY <2>3 DEF HandlerStep, Crash, ConsumeRefused, Dispatch, StartRefused, Record, Resume,
         Complete, CompleteRefused, ResumeRecovered, CompleteContinuation,
         FailContinuation, ContinuationRefused
    <3>2. task[w].approval \in Approvals
      BY <3>1 DEF HandlersHold
    <3>. QED
      BY <2>3, <3>2, <1>n, <1>10, <1>11, <1>12, <1>13, <1>14, <1>15, <1>16, <1>17, <1>18
      DEF HandlerStep
  <2>. QED
    BY <2>1, <2>2, <2>3, <1>19, <1>20, <1>s DEF Next

\* The store and its handlers keep the promise of OneShotApproval for any number
\* of approvals, handlers and keys: each of their steps is one of its steps or a
\* stutter, as long as no operator stops the exec session of a call.
THEOREM Refinement ==
  ASSUME OperatorStops = FALSE
  PROVE  Spec => KeepsPromise
<1>1. Init => TypeInv /\ ExecutionInv /\ ContinuationInv
  BY InitTypes, InitExecution, InitContinuation
<1>2. TypeInv /\ ExecutionInv /\ ContinuationInv /\ [Next]_vars
        => (TypeInv /\ ExecutionInv /\ ContinuationInv)'
  BY NextTypes, NextExecution, NextContinuation
<1>3. TypeInv /\ ExecutionInv /\ ContinuationInv /\ [Next]_vars
        => [Promise!Next]_(Promise!vars)
  BY PromiseStep
<1>. QED
  BY <1>1, <1>2, <1>3, PromiseStart, PTL DEF Spec, KeepsPromise, Promise!Spec

=============================================================================
