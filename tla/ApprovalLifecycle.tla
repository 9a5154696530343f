-------------------------- MODULE ApprovalLifecycle --------------------------
(***************************************************************************)
(* The durable approval of one tool call: PersistentApprovalStore          *)
(* (src/mochi/runtime/approval_lifecycle.py) with the pure transitions of  *)
(* approval_state_machine.py, driven by the RuntimeService handlers that   *)
(* resolve, consume, execute, record, resume and complete an approval.     *)
(*                                                                         *)
(* Every store operation is one BEGIN IMMEDIATE transaction and so one     *)
(* action; a handler is a worker that runs several of them with awaits in  *)
(* between, where other workers, the recovery sweep and a crash may step   *)
(* in.  A crash loses the worker's locals and never the rows.              *)
(*                                                                         *)
(* Time is kept in the rows: ttl and the two leases are countdowns which   *)
(* Tick decrements together; "expired" is a countdown at zero.  A lease    *)
(* token (uuid4) is the number of the claim that drew it; lease_owner is   *)
(* left out because the token already determines it.  The caller's         *)
(* requester and digests are left out: a mismatch is refused before any    *)
(* write.                                                                  *)
(***************************************************************************)
EXTENDS Naturals

CONSTANTS
  Approvals,       \* approval ids
  NoApproval,      \* what an idle handler works on
  Workers,         \* concurrent handlers, of one process or of several
  Keys,            \* execution idempotency keys
  NoKey,           \* the NULL of execution_idempotency_key
  TTL,             \* ticks before an unconsumed approval expires
  LeaseTime,       \* ticks a consume or continuation lease lasts
  Chat,            \* approvals that carry an ordinary-Chat checkpoint
  Trusted,         \* those whose checkpoint matches its metadata exactly
  Legacy,          \* rows left behind by an earlier release
  Outcomes,        \* outcomes recover_consumption is called with
  OperatorStops    \* may an operator stop the exec session of an approval?

ASSUME ConstantsAssumption ==
  /\ TTL \in Nat \ {0}
  /\ LeaseTime \in Nat \ {0}
  /\ Trusted \subseteq Chat
  /\ Chat \subseteq Approvals
  /\ Legacy \subseteq Approvals
  /\ Outcomes \subseteq {"applied", "not_started", "unknown"}
  /\ NoKey \notin Keys
  /\ NoApproval \notin Approvals
  /\ OperatorStops \in BOOLEAN

VARIABLES
  status,      \* exec_approval_requests.status ("absent": no row yet)
  ttl,         \* time left before expires_at
  key,         \* execution_idempotency_key
  token,       \* consume_lease_token, 0 for NULL
  lease,       \* time left before consume_lease_expires_at
  result,      \* execution_result_json
  outbox,      \* the approval_side_effects row of a saved rule
  cont,        \* approval_continuation_reconciliations.status
  contToken,   \* its lease_token, 0 for NULL
  contLease,   \* time left before its lease_expires_at
  pc,          \* where each handler stands
  task,        \* what each handler holds in its local variables
  claims,      \* ghost: consume tokens drawn so far for each approval
  effects,     \* ghost: times the approved call was dispatched to its tool
  replies      \* ghost: times the Chat turn was resumed with its result

rowVars    == <<status, ttl, key, token, lease, result, outbox>>
contVars   == <<cont, contToken, contLease>>
workerVars == <<pc, task>>
ghostVars  == <<claims, effects, replies>>
vars       == <<rowVars, contVars, workerVars, ghostVars>>

-----------------------------------------------------------------------------
Decisions == {"approve_once", "approve_and_save_rule", "reject"}
Refused   == {"rejected", "superseded"}
Terminal  == Refused \cup {"expired", "consumed", "execution_failed"}
Statuses  == {"absent", "pending", "approved_once", "consuming"} \cup Terminal

\* What the code reads of execution_result: the tool status, and which of three
\* keys are there.  continuation_started is the barrier before the Chat turn is
\* resumed, recovery_required asks the dispatcher to resume it, and
\* react_continuation is what resuming it returned.
Flags == {"continuation_started", "recovery_required", "react_continuation"}
Results == [st : {"none", "completed", "running", "failed"}, flags : SUBSET Flags]

Result(s, f) == [st |-> s, flags |-> f]
Plain(s) == Result(s, {})
NoResult == Plain("none")

\* _exec_approval_result_disposition: a background session that is running
\* counts as a success, like a completed one.
Succeeded(r) == r.st \in {"completed", "running"}

\* The test recovery uses instead: only a terminal success is "applied".
Applied(r) == r.st = "completed"

ContStatuses == {"none", "pending", "reconciling", "continued", "unknown"}
ContTerminal == {"continued", "unknown"}

Locations == {"idle", "resolved", "claimed", "executed", "barrier", "recorded",
              "reclaimed", "resumed"}
Task(a, k, t, r) == [approval |-> a, key |-> k, token |-> t, res |-> r]
NoTask == Task(NoApproval, NoKey, 0, NoResult)
Tasks  == [approval : Approvals \cup {NoApproval}, key : Keys \cup {NoKey},
           token : Nat, res : Results]

\* A row has the columns of a claim exactly as long as somebody's claim is on it.
LeaseColumns ==
  \A a \in Approvals : /\ status[a] = "consuming" <=> token[a] # 0
                       /\ status[a] # "consuming" => lease[a] = 0

TypeOK ==
  /\ status \in [Approvals -> Statuses]
  /\ ttl \in [Approvals -> 0..TTL]
  /\ key \in [Approvals -> Keys \cup {NoKey}]
  /\ token \in [Approvals -> Nat]
  /\ lease \in [Approvals -> 0..LeaseTime]
  /\ result \in [Approvals -> Results]
  /\ outbox \in [Approvals -> {"none", "pending"}]
  /\ cont \in [Approvals -> ContStatuses]
  /\ contToken \in [Approvals -> 0..1]
  /\ contLease \in [Approvals -> 0..LeaseTime]
  /\ pc \in [Workers -> Locations]
  /\ task \in [Workers -> Tasks]
  /\ claims \in [Approvals -> Nat]
  /\ effects \in [Approvals -> Nat]
  /\ replies \in [Approvals -> Nat]
  /\ LeaseColumns

-----------------------------------------------------------------------------
\* A row of an earlier release: its call ran and its result was stored.  The
\* process died before completing it ("consuming"), or set recovery_required
\* when there was no continuation table yet ("consumed").
Init ==
  \E old \in [Legacy -> {"consuming", "consumed"}], k \in [Legacy -> Keys] :
    /\ \A a, b \in Legacy : k[a] = k[b] => a = b
    /\ status = [a \in Approvals |-> IF a \in Legacy THEN old[a] ELSE "absent"]
    /\ ttl = [a \in Approvals |-> TTL]
    /\ key = [a \in Approvals |-> IF a \in Legacy THEN k[a] ELSE NoKey]
    /\ token = [a \in Approvals |->
                  IF a \in Legacy /\ old[a] = "consuming" THEN 1 ELSE 0]
    /\ lease = [a \in Approvals |-> 0]
    /\ result = [a \in Approvals |->
                   IF a \in Legacy
                     THEN Result("completed", IF old[a] = "consumed"
                                                THEN {"recovery_required"} ELSE {})
                     ELSE NoResult]
    /\ outbox = [a \in Approvals |-> "none"]
    /\ cont = [a \in Approvals |-> "none"]
    /\ contToken = [a \in Approvals |-> 0]
    /\ contLease = [a \in Approvals |-> 0]
    /\ pc = [w \in Workers |-> "idle"]
    /\ task = [w \in Workers |-> NoTask]
    /\ claims = [a \in Approvals |-> IF a \in Legacy THEN 1 ELSE 0]
    /\ effects = [a \in Approvals |-> IF a \in Legacy THEN 1 ELSE 0]
    /\ replies = [a \in Approvals |-> 0]

-----------------------------------------------------------------------------
\* Handlers move by becoming idle, or by holding a new task at a location.
BecomeIdle(w) ==
  /\ pc' = [pc EXCEPT ![w] = "idle"]
  /\ task' = [task EXCEPT ![w] = NoTask]

Hold(w, loc, t) ==
  /\ pc' = [pc EXCEPT ![w] = loc]
  /\ task' = [task EXCEPT ![w] = t]

Expired(a) == ttl[a] = 0

\* Mutant: the UPDATE forgets its WHERE status IN (...).
MarkExpired_AnyStatus(a, from) ==
  /\ Expired(a)
  /\ status[a] # "absent"
  /\ status' = [status EXCEPT ![a] = "expired"]
  /\ UNCHANGED <<ttl, key, token, lease, result, outbox>>

\* The UPDATE ... SET status='expired' WHERE status IN (from) of an operation
\* that found the approval expired.
MarkExpired(a, from) ==
  /\ Expired(a)
  /\ status[a] \in from
  /\ status' = [status EXCEPT ![a] = "expired"]
  /\ UNCHANGED <<ttl, key, token, lease, result, outbox>>

\* create: a tool that needs approval stores its request.
Create(a) ==
  /\ status[a] = "absent"
  /\ status' = [status EXCEPT ![a] = "pending"]
  /\ UNCHANGED <<ttl, key, token, lease, result, outbox,
                 contVars, workerVars, ghostVars>>

\* resolve, the decision of an operator.  A grant leaves the handler about to
\* consume; a saved rule is enqueued in the same transaction.
Resolve(w, a, d) ==
  /\ pc[w] = "idle"
  /\ status[a] = "pending"
  /\ ~Expired(a)
  /\ status' = [status EXCEPT ![a] =
                  IF d = "reject" THEN "rejected" ELSE "approved_once"]
  /\ outbox' = [outbox EXCEPT ![a] =
                  IF d = "approve_and_save_rule" THEN "pending" ELSE @]
  /\ result' = [result EXCEPT ![a] = NoResult]
  /\ IF d = "reject"
       THEN UNCHANGED workerVars
       ELSE Hold(w, "resolved", Task(a, NoKey, 0, NoResult))
  /\ UNCHANGED <<ttl, key, token, lease, contVars, ghostVars>>

\* resolve on an approval whose TTL has elapsed.
ResolveTooLate(a) ==
  /\ MarkExpired(a, {"pending", "approved_once"})
  /\ UNCHANGED <<contVars, workerVars, ghostVars>>

\* supersede: the checkpoint drifted, or a newer request replaces this one.
Supersede(a) ==
  /\ \/ MarkExpired(a, {"pending"})
     \/ /\ status[a] = "pending"
        /\ ~Expired(a)
        /\ status' = [status EXCEPT ![a] = "superseded"]
        /\ UNCHANGED <<ttl, key, token, lease, result, outbox>>
  /\ UNCHANGED <<contVars, workerVars, ghostVars>>

-----------------------------------------------------------------------------
\* consume: the handler that resolved the approval claims it; so may an idle
\* one, because the store, and not its caller, arbitrates concurrent claims.
MayConsume(w, a) ==
  \/ pc[w] = "idle"
  \/ pc[w] = "resolved" /\ task[w].approval = a

\* Mutant: the key is not checked against the row.
KeyUsable_AnyKey(a, k) == \A b \in Approvals \ {a} : key[b] # k

\* "Recovered consumption must reuse its execution key", and the UNIQUE index
\* refuses a key that another approval holds.
KeyUsable(a, k) ==
  /\ key[a] \in {NoKey, k}
  /\ \A b \in Approvals \ {a} : key[b] # k

\* Mutant: the claim forgets its compare-and-swap on approved_once.
Claimable_NoCAS(a) == status[a] \in {"approved_once", "consuming"} /\ ~Expired(a)

Claimable(a) == status[a] = "approved_once" /\ ~Expired(a)

Consume(w, a, k) ==
  /\ MayConsume(w, a)
  /\ Claimable(a)
  /\ KeyUsable(a, k)
  /\ status' = [status EXCEPT ![a] = "consuming"]
  /\ key' = [key EXCEPT ![a] = k]
  /\ token' = [token EXCEPT ![a] = claims[a] + 1]
  /\ lease' = [lease EXCEPT ![a] = LeaseTime]
  /\ claims' = [claims EXCEPT ![a] = @ + 1]
  /\ Hold(w, "claimed", Task(a, k, claims[a] + 1, NoResult))
  /\ UNCHANGED <<ttl, result, outbox, contVars, effects, replies>>

\* consume raised: the approval is expired, taken, or its key is.
ConsumeRefused(w) ==
  LET a == task[w].approval IN
  /\ pc[w] = "resolved"
  /\ \/ MarkExpired(a, {"approved_once"})
     \/ /\ \/ status[a] # "approved_once"
           \/ ~Expired(a) /\ \E k \in Keys : ~KeyUsable(a, k)
        /\ UNCHANGED rowVars
  /\ BecomeIdle(w)
  /\ UNCHANGED <<contVars, ghostVars>>

\* _execute_approved_standalone_request: the approved call reaches its tool.
Dispatch(w, s) ==
  LET a == task[w].approval IN
  /\ pc[w] = "claimed"
  /\ effects' = [effects EXCEPT ![a] = @ + 1]
  /\ Hold(w, "executed", [task[w] EXCEPT !.res = Plain(s)])
  /\ UNCHANGED <<rowVars, contVars, claims, replies>>

\* record_execution_result: an UPDATE that asks for no lease and no token.
Recordable(a) == status[a] \in {"consuming", "consumed", "execution_failed"}

StoreResult(a, r) ==
  result' = IF Recordable(a) THEN [result EXCEPT ![a] = r] ELSE result

\* The timeline refused the effect boundary: nothing was dispatched, and the
\* handler records a failure that it is about to complete.
StartRefused(w) ==
  LET a == task[w].approval IN
  /\ pc[w] = "claimed"
  /\ a \in Chat
  /\ StoreResult(a, Plain("failed"))
  /\ Hold(w, "recorded", [task[w] EXCEPT !.res = Plain("failed")])
  /\ UNCHANGED <<status, ttl, key, token, lease, outbox, contVars, ghostVars>>

\* Mutant: the result is recorded without the barrier.
Record_NoBarrier(w) ==
  /\ pc[w] = "executed"
  /\ StoreResult(task[w].approval, task[w].res)
  /\ Hold(w, IF task[w].approval \in Chat /\ Succeeded(task[w].res)
               THEN "barrier" ELSE "recorded", task[w])
  /\ UNCHANGED <<status, ttl, key, token, lease, outbox, contVars, ghostVars>>

\* A Chat success is recorded with the barrier continuation_started; any other
\* result is recorded as it is.
Record(w) ==
  LET a == task[w].approval
      chatSuccess == a \in Chat /\ Succeeded(task[w].res)
      r == Result(task[w].res.st,
                  IF chatSuccess THEN {"continuation_started"} ELSE {}) IN
  /\ pc[w] = "executed"
  /\ StoreResult(a, r)
  /\ Hold(w, IF chatSuccess THEN "barrier" ELSE "recorded",
          [task[w] EXCEPT !.res = r])
  /\ UNCHANGED <<status, ttl, key, token, lease, outbox, contVars, ghostVars>>

\* _resume_ordinary_chat_approval_react_loop: the Chat turn continues, or the
\* engine is missing or refuses; either way react_continuation says so.
Resume(w) ==
  LET a == task[w].approval IN
  /\ pc[w] = "barrier"
  /\ \/ replies' = [replies EXCEPT ![a] = @ + 1]
     \/ UNCHANGED replies
  /\ Hold(w, "recorded",
          [task[w] EXCEPT !.res = Result(task[w].res.st, {"react_continuation"})])
  /\ UNCHANGED <<rowVars, contVars, claims, effects>>

\* Mutant: completion compares the key and not the token.
OwnsLease_KeyOnly(w, a) == status[a] = "consuming" /\ key[a] = task[w].key

\* complete_consumption: only under the lease's own key and token; an elapsed
\* lease that nobody recovered is still good.
OwnsLease(w, a) ==
  /\ status[a] = "consuming"
  /\ key[a] = task[w].key
  /\ token[a] = task[w].token

Complete(w) ==
  LET a == task[w].approval IN
  /\ pc[w] = "recorded"
  /\ OwnsLease(w, a)
  /\ status' = [status EXCEPT ![a] =
                  IF Succeeded(task[w].res) THEN "consumed" ELSE "execution_failed"]
  /\ result' = [result EXCEPT ![a] = task[w].res]
  /\ token' = [token EXCEPT ![a] = 0]
  /\ lease' = [lease EXCEPT ![a] = 0]
  /\ BecomeIdle(w)
  /\ UNCHANGED <<ttl, key, outbox, contVars, ghostVars>>

CompleteRefused(w) ==
  /\ pc[w] = "recorded"
  /\ ~OwnsLease(w, task[w].approval)
  /\ BecomeIdle(w)
  /\ UNCHANGED <<rowVars, contVars, ghostVars>>

-----------------------------------------------------------------------------
\* Mutant: only a NULL lease expiry counts as stale.
Stale_NullOnly(a) == status[a] = "consuming" /\ token[a] = 0

Stale(a) == status[a] = "consuming" /\ lease[a] = 0

\* Mutant: a recovery forgets the columns of the claim that it ends.
ReleaseTo_KeepsClaim(a, s) ==
  /\ status' = [status EXCEPT ![a] = IF Expired(a) THEN "expired" ELSE s]
  /\ UNCHANGED <<token, lease, ttl, key, outbox>>

\* What both recoveries write besides the result.
ReleaseTo(a, s) ==
  /\ status' = [status EXCEPT ![a] = IF Expired(a) THEN "expired" ELSE s]
  /\ token' = [token EXCEPT ![a] = 0]
  /\ lease' = [lease EXCEPT ![a] = 0]
  /\ UNCHANGED <<ttl, key, outbox>>

\* Mutants: recovery_required is left to a second write, as in a previous
\* implementation; every stale call is taken to have been applied.
RecoverStale_TwoWrites(a) ==
  /\ Stale(a)
  /\ ReleaseTo(a, IF Applied(result[a]) THEN "consumed" ELSE "execution_failed")
  /\ UNCHANGED <<result, contVars, workerVars, ghostVars>>
RecoverStale_AlwaysApplied(a) ==
  /\ Stale(a)
  /\ ReleaseTo(a, "consumed")
  /\ UNCHANGED <<result, contVars, workerVars, ghostVars>>

\* recover_stale_consumptions: the scheduler's sweep, one transaction a row.
\* In the transition that makes an applied Chat call consumed, it asks for the
\* continuation, unless that has begun or has ended.
RecoverStale(a) ==
  LET r == result[a]
      applied == ~Expired(a) /\ Applied(r)
      asks == applied /\ a \in Chat /\ "react_continuation" \notin r.flags
      flags == IF "continuation_started" \in r.flags
                 THEN r.flags \ {"recovery_required"}
                 ELSE r.flags \cup {"recovery_required"} IN
  /\ Stale(a)
  /\ ReleaseTo(a, IF Applied(r) THEN "consumed" ELSE "execution_failed")
  /\ result' = [result EXCEPT ![a] =
                  Result(r.st, IF asks THEN flags ELSE r.flags)]
  /\ UNCHANGED <<contVars, workerVars, ghostVars>>

\* The evidence recover_consumption is called with: a call nobody dispatched,
\* and nobody can any more, is "not_started".
Evidence(a, outcome) ==
  CASE outcome = "applied"     -> effects[a] > 0
    [] outcome = "not_started" ->
         /\ effects[a] = 0
         /\ \A w \in Workers : pc[w] = "claimed" => task[w].approval # a
    [] outcome = "unknown"     -> TRUE

\* Mutant: an unknown outcome is offered for another try.
RecoverConsumption_RetryUnknown(a, outcome) ==
  /\ Stale(a)
  /\ Evidence(a, outcome)
  /\ ReleaseTo(a, IF outcome = "applied" THEN "consumed" ELSE "approved_once")
  /\ UNCHANGED <<result, contVars, workerVars, ghostVars>>

\* recover_consumption with the caller's evidence, and its result if any.
RecoverConsumption(a, outcome) ==
  /\ Stale(a)
  /\ Evidence(a, outcome)
  /\ ReleaseTo(a, CASE outcome = "applied"     -> "consumed"
                    [] outcome = "not_started" -> "approved_once"
                    [] outcome = "unknown"     -> "execution_failed")
  /\ \/ UNCHANGED result
     \/ outcome = "applied" /\ result' = [result EXCEPT ![a] = Plain("completed")]
  /\ UNCHANGED <<contVars, workerVars, ghostVars>>

\* stop_approval_exec_session: the last poll of the session replaces the
\* stored result, with none of its flags.
StopSession(a, s) ==
  /\ OperatorStops
  /\ Recordable(a)
  /\ result[a].st \in {"completed", "running"}
  /\ result[a].st = "completed" => s = "completed"
  /\ result' = [result EXCEPT ![a] = Plain(s)]
  /\ UNCHANGED <<status, ttl, key, token, lease, outbox,
                 contVars, workerVars, ghostVars>>

-----------------------------------------------------------------------------
AwaitsContinuation(a) ==
  status[a] = "consumed" /\ "recovery_required" \in result[a].flags

\* list_continuation_reconciliation_candidates gives each row found a
\* continuation row; without trustworthy evidence it is terminal at once.
Materialise(a) ==
  /\ AwaitsContinuation(a)
  /\ cont[a] = "none"
  /\ cont' = [cont EXCEPT ![a] =
                IF /\ a \in Trusted
                   /\ Applied(result[a])
                   /\ "continuation_started" \notin result[a].flags
                  THEN "pending" ELSE "unknown"]
  /\ UNCHANGED <<rowVars, contToken, contLease, workerVars, ghostVars>>

\* claim_continuation_reconciliation draws the one token there will be.
ClaimContinuation(w, a) ==
  /\ pc[w] = "idle"
  /\ AwaitsContinuation(a)
  /\ cont[a] \in {"none", "pending"}
  /\ cont' = [cont EXCEPT ![a] = "reconciling"]
  /\ contToken' = [contToken EXCEPT ![a] = 1]
  /\ contLease' = [contLease EXCEPT ![a] = LeaseTime]
  /\ Hold(w, "reclaimed", Task(a, NoKey, 1, result[a]))
  /\ UNCHANGED <<rowVars, ghostVars>>

\* Mutants: the elapsed continuation is offered again, or is only refused.
ClaimTooLate_Retry(a) ==
  /\ cont[a] = "reconciling" /\ contLease[a] = 0
  /\ cont' = [cont EXCEPT ![a] = "pending"]
  /\ UNCHANGED <<rowVars, contToken, contLease, workerVars, ghostVars>>
ClaimTooLate_Refused(a) == FALSE /\ UNCHANGED vars

\* The same claim on an elapsed lease: the outcome stays unknown, for ever.
ClaimTooLate(a) ==
  /\ AwaitsContinuation(a)
  /\ cont[a] = "reconciling"
  /\ contLease[a] = 0
  /\ cont' = [cont EXCEPT ![a] = "unknown"]
  /\ UNCHANGED <<rowVars, contToken, contLease, workerVars, ghostVars>>

\* The reconciler resumes the Chat turn, its checkpoint having passed the
\* preflight.
ResumeRecovered(w) ==
  LET a == task[w].approval IN
  /\ pc[w] = "reclaimed"
  /\ a \in Trusted
  /\ replies' = [replies EXCEPT ![a] = @ + 1]
  /\ Hold(w, "resumed",
          [task[w] EXCEPT !.res = Result(task[w].res.st,
             (task[w].res.flags \ {"recovery_required"})
               \cup {"react_continuation"})])
  /\ UNCHANGED <<rowVars, contVars, claims, effects>>

OwnsContinuation(w, a) ==
  cont[a] = "reconciling" /\ contToken[a] = task[w].token

EndContinuation(a, s) ==
  /\ cont' = [cont EXCEPT ![a] = s]
  /\ contToken' = [contToken EXCEPT ![a] = 0]
  /\ contLease' = [contLease EXCEPT ![a] = 0]

\* complete_continuation_reconciliation: both rows, or neither.
CompleteContinuation(w) ==
  LET a == task[w].approval IN
  /\ pc[w] = "resumed"
  /\ OwnsContinuation(w, a)
  /\ status[a] = "consumed"
  /\ EndContinuation(a, "continued")
  /\ result' = [result EXCEPT ![a] = task[w].res]
  /\ BecomeIdle(w)
  /\ UNCHANGED <<status, ttl, key, token, lease, outbox, ghostVars>>

\* fail_continuation_reconciliation: refused by the preflight, not continued,
\* or cancelled.
FailContinuation(w) ==
  LET a == task[w].approval IN
  /\ pc[w] \in {"reclaimed", "resumed"}
  /\ OwnsContinuation(w, a)
  /\ EndContinuation(a, "unknown")
  /\ BecomeIdle(w)
  /\ UNCHANGED <<rowVars, ghostVars>>

ContinuationRefused(w) ==
  /\ pc[w] \in {"reclaimed", "resumed"}
  /\ ~OwnsContinuation(w, task[w].approval)
  /\ BecomeIdle(w)
  /\ UNCHANGED <<rowVars, contVars, ghostVars>>

-----------------------------------------------------------------------------
\* A handler's process dies, or the handler is cancelled.
Crash(w) ==
  /\ pc[w] # "idle"
  /\ BecomeIdle(w)
  /\ UNCHANGED <<rowVars, contVars, ghostVars>>


CountDown(timer) == [a \in Approvals |-> IF timer[a] = 0 THEN 0 ELSE timer[a] - 1]

Tick ==
  /\ \E a \in Approvals : ttl[a] + lease[a] + contLease[a] > 0
  /\ ttl' = [a \in Approvals |->
               IF status[a] = "absent" THEN ttl[a] ELSE CountDown(ttl)[a]]
  /\ lease' = CountDown(lease)
  /\ contLease' = CountDown(contLease)
  /\ UNCHANGED <<status, key, token, result, outbox, cont, contToken,
                 workerVars, ghostVars>>

-----------------------------------------------------------------------------
RowStep(a) ==
  \/ Create(a)
  \/ ResolveTooLate(a)
  \/ Supersede(a)
  \/ RecoverStale(a)
  \/ \E o \in Outcomes : RecoverConsumption(a, o)
  \/ \E s \in {"completed", "failed"} : StopSession(a, s)
  \/ Materialise(a)
  \/ ClaimTooLate(a)

ClaimStep(w, a) ==
  \/ \E d \in Decisions : Resolve(w, a, d)
  \/ \E k \in Keys : Consume(w, a, k)
  \/ ClaimContinuation(w, a)

\* The steps of a handler that has begun.
HandlerStep(w) ==
  \/ ConsumeRefused(w)
  \/ \E s \in {"completed", "running", "failed"} : Dispatch(w, s)
  \/ StartRefused(w)
  \/ Record(w)
  \/ Resume(w)
  \/ Complete(w)
  \/ CompleteRefused(w)
  \/ ResumeRecovered(w)
  \/ CompleteContinuation(w)
  \/ FailContinuation(w)
  \/ ContinuationRefused(w)

Next ==
  \/ \E a \in Approvals : RowStep(a)
  \/ \E w \in Workers, a \in Approvals : ClaimStep(w, a)
  \/ \E w \in Workers : HandlerStep(w) \/ Crash(w)
  \/ Tick

Spec == Init /\ [][Next]_vars

\* The scheduler loop sweeps and dispatches for ever; a handler's awaits
\* return or are cancelled; time passes.  Nothing makes an operator decide.
Fairness ==
  /\ WF_vars(Tick)
  /\ \A a \in Approvals :
       /\ WF_vars(RecoverStale(a))
       /\ WF_vars(Materialise(a))
       /\ WF_vars(ClaimTooLate(a))
       /\ WF_vars(\E w \in Workers : ClaimContinuation(w, a))
  /\ \A w \in Workers : WF_vars(HandlerStep(w))

FairSpec == Spec /\ Fairness

-----------------------------------------------------------------------------
\* One approval authorises one dispatch of its call, whatever crashes, sweeps,
\* late handlers and second claims come in between (consume and both
\* recoveries).
AtMostOneExecution == \A a \in Approvals : effects[a] <= 1

\* The Chat turn of an approval is resumed at most once, by the handler behind
\* its barrier or by one reconciler, and only with the result of a call that
\* was made.
AtMostOneContinuation ==
  \A a \in Approvals : replies[a] <= 1 /\ replies[a] <= effects[a]

\* No call runs that no operator granted: an approval that is undecided,
\* refused, or granted and not claimed has not reached its tool.
NoEffectWithoutGrant ==
  \A a \in Approvals :
    status[a] \in {"absent", "pending", "approved_once"} \cup Refused
      => effects[a] = 0

\* "consumed" is said only of a call that was dispatched.
ConsumedWasExecuted ==
  \A a \in Approvals : status[a] = "consumed" => effects[a] > 0

\* At most one handler can still complete an approval: a claim that follows a
\* recovery shuts out the handler that was recovered from.
Executing == {"claimed", "executed", "barrier", "recorded"}
OneLeaseHolder ==
  \A v, w \in Workers :
    /\ v # w
    /\ pc[v] \in Executing /\ OwnsLease(v, task[v].approval)
    /\ pc[w] \in Executing /\ OwnsLease(w, task[w].approval)
    => task[v].approval # task[w].approval

\* An applied Chat call that ended consumed has its reply, or its barrier, or
\* is still to be found by the dispatcher: the crash window that
\* recover_stale_consumptions closes by one transition.
AppliedChatIsDiscoverable ==
  \A a \in Chat :
    status[a] = "consumed" /\ Applied(result[a])
      => result[a].flags # {}

\* An execution key belongs to one approval, and an approval keeps its key for
\* good: a retry cannot run under another identity.
KeysAreUnique ==
  \A a, b \in Approvals : key[a] = key[b] /\ key[a] # NoKey => a = b
KeyIsForGood ==
  [][\A a \in Approvals : key[a] # NoKey => key'[a] = key[a]]_vars

\* No operation of the store leaves a terminal status, and no continuation
\* that ended, or whose outcome became unknown, is offered again.
TerminalIsFinal ==
  [][\A a \in Approvals :
       /\ status[a] \in Terminal => status'[a] = status[a]
       /\ cont[a] \in ContTerminal => cont'[a] = cont[a]
       /\ cont[a] = "reconciling" => cont'[a] \notin {"none", "pending"}]_vars

\* An approval does not stay consuming: its handler completes it or, the lease
\* having elapsed, the sweep does.
ConsumptionEnds ==
  \A a \in Approvals : status[a] = "consuming" ~> status[a] # "consuming"

\* A continuation that is asked for is settled, if only as unknown, unless an
\* operator's stop takes the request back: it replaces the stored result.
ContinuationSettles ==
  \A a \in Approvals :
    AwaitsContinuation(a) ~>
      (cont[a] \in ContTerminal \/ (OperatorStops /\ result[a].flags = {}))

\* The abstract promise, read off the rows and the handlers.
PhaseOf(s) ==
  CASE s \in {"absent", "pending"} -> "open"
    [] s = "approved_once"         -> "granted"
    [] s = "consuming"             -> "spent"
    [] s \in Terminal              -> "closed"

PermitHeld(a) == \E w \in Workers : pc[w] = "claimed" /\ task[w].approval = a

Promise == INSTANCE OneShotApproval WITH
  phase   <- [a \in Approvals |-> PhaseOf(status[a])],
  permits <- {a \in Approvals : PermitHeld(a)},
  runs    <- effects,
  told    <- replies

\* The store and its handlers keep the promise of OneShotApproval.
KeepsPromise == Promise!Spec

=============================================================================
