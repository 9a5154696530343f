# Mochi agent runtime: TLA+ specifications, model checking and proofs

Mochi is an asynchronous Python agent framework.  Most of it turns text into
text; the part that can go wrong in ways a unit test does not reach is the
durable core: SQLite rows and files that several asyncio tasks, threads and
processes change, with leases, sweeps, retries and crashes in between.  This
directory models that core, one component at a time.

## 1. The system

| Component | Code | State | Who changes it |
| --- | --- | --- | --- |
| Exec approval lifecycle | `runtime/approval_lifecycle.py`, `approval_state_machine.py`, the handlers in `runtime/service.py` | a row per approval: status, TTL, execution key, consume lease, result; a row per Chat continuation | HTTP handlers, the scheduler sweep, the continuation dispatcher |
| Approval side effects | `runtime/approval_side_effects.py`, `approval_side_effect_worker.py`, `config/manager.py` | outbox row per saved rule, the config file | the delivery loop, operators saving settings |
| File operations | `tools/file_ops.py`, `file_mutations.py`, `api/routes/file_ops.py` | the workspace's files | an approved patch, its undo, everybody else |
| File transactions | `tools/file_transaction.py` | files and their staged successors | undo; a journalled transaction that nothing in `mochi/` starts |
| Change sets and journals | `runtime/change_sets.py` | change sets, applied records, undo retention, blobs and their references, journals | preparation, approval, preview, undo, garbage collection |
| Agent run and goal leases | `runtime/store.py`, `supervision.py`, `run_adoption.py`, `cancellation.py`, `service.py` | owner, epoch and expiry of a run lease; checkpoint and completion | runtimes that adopt, renew, complete or cancel a run |
| Task-linked approvals | `runtime/runtime_approval_lifecycle.py` | the approvals of the runtime database | as above, and previews of edited patches |
| Turn timeline | `sessions/timeline_coordinator.py`, `turn_timeline.py` | lane of a session's turns, operations, attempts | Chat turns, recovery |
| Learning failure outbox | `learning/failure_outbox.py`, `failure_worker.py` | queue of failure observations | turns, the worker |
| Tool workflow outbox | `api/tool_workflow_outbox.py`, `tool_workflow_aggregate.py` | ordered events of a session, acknowledged revisions | tool runs, clients, restart audits |
| Exec runtime | `runtime/exec_runtime.py`, `exec_sessions.py`, `process_identity.py` | sessions, process identities, manifests | exec tools, operators, restarts |
| Sessions, memory, learning stores | `sessions/`, `memory/`, `learning/` | transcripts, indexes | sequential |
| Engine, ReAct loop, multi-agent | `agents/` | conversation state, plan ledger | one turn at a time |
| Tools, security policy, API, channels, backends, auth, voice, web | the other packages | adapters, classifiers, user interface | sequential or pure I/O |

How they interact.  A Chat turn (engine, timeline) asks for a tool; a call that
needs consent creates an approval and suspends the turn.  An operator resolves
it over the API; the handler in `RuntimeService.resolve_approval` claims the
row, tells the timeline that an effect begins, runs the tool (exec runtime, file
operations), stores its result, resumes the turn in the engine, and completes
the row.  A rule the operator saves goes through the side-effect outbox into the
config file.  Goal and task runs use the same tools under a run lease.  The
scheduler loop (`_scheduler_loop`) sweeps all of it.

What is hard.  Every await of a handler lets another handler, a sweep or another
process in; any await may be the last (crash, cancellation); leases elapse under
a live owner, because nothing renews them; an effect outside the database (a
tool, a file, the model) cannot be in the same transaction as its record, so
that recovery has to tell from the record whether the effect happened.

What makes each component correct:

* approvals: a grant is used once; a turn is resumed once; what recovery reports
  is what happened; nothing is stuck;
* side effects: a rule is added once, in spite of retries, and no concurrent
  setting is lost;
* change sets and their approvals: one consent applies one patch once, to the files
  it was given for, whatever happened to the files or to the approval since;
* undo: all of the selected files or none, and only if they are still as the change
  left them;
* run leases: nobody writes a run's status under a lease that is over; a run
  completes or is cancelled, never both; a durable completion is not lost;
* timeline: turns are served in order of admission; of the operations that it records
  a session has one under way at a time, begins it at most once, and starts no other
  after one whose result nobody knows; the lane is always handed on.  A command in the
  background and the tools of a resumed loop are outside this promise (section 6);
* outboxes: nothing is lost, nothing is applied twice, order is kept.

## 2. Plan

1. `ApprovalLifecycle` over `OneShotApproval`: done, with proofs.
2. `RuleOutbox` over `ExactlyOnceOutbox`: the outbox of saved rules, its delivery, the
   config file and the settings handlers: done, with proofs.
3. `TurnTimeline` over `SerialEffects`: the lane of a session's turns, their
   operations, cancellation, recoveries, approved continuations: done, with proofs.
4. `RunLease` over `FencedStatus`: ownership leases with epochs, the job, the API
   calls, the commit fence, adoption after a restart: done, with proofs.
5. `ChangeSet`, its approvals over `OneShotApproval`: the file changes of a task, their
   approvals, replacement and undo: done, with proofs.
6. `FailureOutbox`, `ToolWorkflowOutbox`: queues, claims and acknowledgements: left.
   Their pattern (claim, lease, retry, settle once) is the one of `RuleOutbox`.
7. Goal-backed runs with their supervision, on top of `RunLease`: left.
8. `FileTransaction`: journal, participants, crash recovery, blob references: left.
   It comes last because nothing in `mochi/` starts such a transaction.

Abstract specifications: a one-shot permit, an exactly-once outbox, serial effects and
a fenced status, all refined below.

## 3. Modules

### ApprovalLifecycle

One row per approval (`status`, `ttl`, `key`, `token`, `lease`, `result`,
`outbox`), one per continuation (`cont`, `contToken`, `contLease`), and handlers
(`pc`, `task`) that run several store operations with awaits between them.

| Action | Code |
| --- | --- |
| `Create`, `Resolve`, `ResolveTooLate`, `Supersede`, `Consume`, `Complete`, `RecoverConsumption`, `RecoverStale` | the operations of `PersistentApprovalStore`; each is one `BEGIN IMMEDIATE` transaction, so one action |
| `Dispatch`, `StartRefused`, `Record`, `Resume`, `Complete`, `CompleteRefused`, `ConsumeRefused` | the rest of `RuntimeService.resolve_approval`, one action per await |
| `Materialise`, `ClaimContinuation`, `ClaimTooLate`, `ResumeRecovered`, `CompleteContinuation`, `FailContinuation`, `ContinuationRefused` | the continuation reconciliation and its dispatcher |
| `StopSession` | `stop_approval_exec_session`, which stores the last poll |
| `Crash` | the handler's process dies, or the handler raises or is cancelled: its locals are lost, its rows stay |
| `Tick` | time: a TTL or a lease is a countdown in the row, "expired" is zero |

Abstractions.  A lease token (a uuid) is the number of the claim that drew it.
`lease_owner` is left out because the token determines it.  The execution result
keeps its tool status and the three keys the code reads.  Requester and digests
are left out: a mismatch is refused before any write.  The reconciler reads the
approval before it claims and the model at the claim; this is the same because
`recovery_required`, once seen, can only disappear, and then the claim is
refused.  `Init` may contain rows an earlier release left behind.

A result is `completed`, or it is not: the handler takes a completed command with an
exit code other than zero, or that timed out, for a failure (`service.py:16008`), where
the recovery takes it for applied (`approval_lifecycle.py:1279`).  Here `completed` is
both (`Succeeded`), and a command that failed is one that did not complete.

`claims`, `effects` and `replies` are ghosts: they count and guard nothing except
in `Evidence`, the environment's assumption about the callers of
`recover_consumption` (they pass `not_started` only for a call that was not and
cannot be dispatched any more), and in `Consume`, where `claims` draws the token.

### OneShotApproval

What the store promises with no rows, leases or time: a permit is given once, is
used at most once, and its turn is told at most once.  `ApprovalLifecycle`
implements it (`KeepsPromise`): the phase is read from `status`, a permit is a
handler that has claimed and not yet dispatched.  `ChangeSet` implements it too
(`KeepsConsent`): the phase is read from `approval`, a permit is a request that has
claimed and not yet run the tool, and no turn is told.

### RuleOutbox

A row per saved rule (`status`, `attempts`, `owner`, `lease`), the config file
(`file`: rules, ids of applied effects, settings), the tasks that deliver (`pc`,
`job`), and in each process what the application keeps of the config (`cache`)
and where its settings client stands (`edit`, `draft`, `etag`).

| Action | Code |
| --- | --- |
| `Enqueue` | the insert of `PersistentApprovalStore.resolve` |
| `Claim` | `claim_side_effect`, one transaction |
| `Reject`, `Load`, `Save`, `SaveConflicts`, `LoadOrSaveFails` | `ApprovalSideEffectWorker._deliver`: validation, then load, check and save in up to four rounds |
| `MarkDelivered`, `MarkFailed`, `MarkRetry` | `mark_side_effect_*`, each with the `WHERE` clause of `_transition` (`Owned`) |
| `Die` | an exception that `_deliver` does not catch |
| `GetSettings`, `PatchSettings`, `SaveSettings`, `SettingsRefused`, `KeepSettings` | `get_settings` and `update_settings` with `_get_config` and `_persist_config_if_enabled`, cut at the await of the voice download and between the save and the second read of the revision |
| `Restart` | a process dies and starts again |
| `Tick` | time: a lease or a backoff is a countdown |

Two kinds of concurrency.  `_deliver` loads and saves without an await, so
nothing else of its process runs in between, but other processes do; `HoldsLoop`
says who holds the event loop of a process.  Hence `SaveConflicts` can happen only
with two processes.

Abstractions.  A revision is the SHA-256 of the file's bytes, which are a
function of its content: the content is its own revision.  The config keeps what
the properties tell apart: rules, applied ids and settings that can be switched
on.  The lock file of `save_config` makes compare and write one action; when the
write fails it puts the old bytes back (`LoadOrSaveFails`).  A worker draws a new
`lease_owner` when its process restarts; the model reuses the process's name,
which differs only for a claim that the dead worker left, and nobody acts for that
one.  A delivery that finds the config file itself invalid fails for good in the
code; here the file is always valid.  A worker that serves several databases asks
them in turn; here there is one.  The backoff has one length.  A process has one settings
client, and a setting is only ever switched on, so that the settings never come back to
what they were while `update_settings` awaits (`settings.py:430` to `448`): nothing is
said of a change that was undone meanwhile.

`applied` and `saved` are ghosts; `saved` also keeps a client from making a change
twice.

### ExactlyOnceOutbox

What is promised with no processes, leases, files or revisions: each change is made to
what the config is at that moment, an effect is applied at most once and a malformed
one never, and it is reported as delivered only if it was applied.  `RuleOutbox`
implements it (`KeepsPromise`): the phase is read from `status`, rules and settings
from `file`.  A rule may be applied after its effect was given up, because a slow
deliverer is not stopped when another one gives up.

### TurnTimeline

One session.  On disk: each turn's `seqno`, `state`, `outcome`, `admission` lease,
side-effect `boundary` and `pendingEvent`, the `lane` with its lease, and the status
of every operation (`op`).  In memory: where each turn's worker stands (`pc`), its
coordinator's flags and current operation, its canceller, and the approval that a
call asked for with the handler that executes it (`approval`, `ask`, `sweep`).

| Action | Code |
| --- | --- |
| `Admit`, `TryClaim`, `Claim`, `GiveUp`, `NoteClaim`, `ReadHistory` | `admit_user_message`, the loop of `claim()`, `claim_next`, `linearized_history_events` |
| `HeartbeatFails` | `_heartbeat`, when `renew_lease` finds the lane lost |
| `Precommit`, `RefuseTool`, `MarkStarted`, `StopShort`, `Abandon`, `AskApproval`, `PersistPending`, `NoteStarted`, `BeginEffect`, `EndEffect`, `PersistResult`, `NoteResult` | one call of `ToolRegistry.execute`, cut where it awaits the timeline or the tool |
| `StopWorking`, `QuarantineCurrent`, `Finish` | the end of `_run_chat` and `finish()` |
| `RequestCancel`, `CancelTurn`, `Interrupt` | `request_cancel`, whose load and write are apart, and the cancellation of the worker's task |
| `RecoverAdmission`, `RecoverUnstarted`, `RecoverStarted` | what a waiting worker does about an expired admission or a stale lane |
| `Decide`, `BeginContinuation`, `BeginApproved`, `EndApproved`, `InterruptApproved`, `RecordContinuation`, `AbandonContinuation` | `resolve_approval`: refusal, or consumption and the execution of the approved call |
| `LeaveLoop`, `Redispatch` | the ReAct loop that the handler resumes after a successful call, its end, and its resumption by the dispatcher once the handler is dead |
| `SweepStarts`, `SweepRecords` | `_record_stale_ordinary_chat_operation_unknown` |
| `WorkerCrash`, `HandlerCrash`, `SweepCrash`, `AdmissionExpires`, `LeaseExpires`, `OrphanLands` | death of a process, leases, and effects that outlive who began them |

Every repository operation is a compare-and-swap on the session's history that
`_mutate` repeats on a conflict, and so one action.  The memory that follows the
write is an action of its own, because a cancellation or a crash may come between
(`MarkStarted` and `NoteStarted`, `PersistResult` and `NoteResult`, `Claim` and
`NoteClaim`).  A cancelled write has happened or not: `Interrupt` may come before
or after it.

Abstractions.  Owner and token of a lease are drawn by each coordinator and
determined by the turn.  A lease is live or not.  The approval row is the one of
`ApprovalLifecycle`, here only as far as the timeline sees it: decided once, its
grant consumed once, its consumption swept once.  The eight retries of `_mutate`
are as many as it takes.  Re-admission of the same message, older payload versions
and malformed histories are left out.  A dispatcher that resumes the loop beside a slow
handler that is still alive is the business of `ApprovalLifecycle`.

How a call ends.  It returns with its effect over (`ran`, any disposition); or it is an
`exec_command` in the background and returns with its process running (`detached`,
recorded `succeeded` all the same: `exec_runtime.py:241`, `exec_command.py:1053`, and
for an approved call `service.py:16016`); or it raises and the effect may go on
(`raised`, recorded `unknown`).  `Reports` says what may be recorded of each.  The tools
of the loop that an approved call resumes (`resumed`) do not touch the timeline, for
want of a lifecycle in their context, and their effects are not modelled.

`starts`, `flying` and `background` are ghosts: the physical effects, which the
properties relate to the records.  `flying` are those that began and have not ended;
an effect leaves it for `background` when its call returns and its process stays.
They guard nothing but `OrphanLands`, the end of an effect that nobody awaits any more.

### SerialEffects

What the timeline promises with no turns, lanes or leases: an operation opens at
most once, only while no other is open, and never after one was lost.
`TurnTimeline` implements it (`KeepsPromise`), the phase read from `op`: it is a promise
about the durable descriptors, and says nothing of what they do not record.

### RunLease

One standalone agent run.  In the database: its `status`, whether its schedule is
`enabled`, the `resume` lease, the completions `committed`, and the ownership
`lease` with the last epoch given.  A runtime is one life of a `RuntimeService`,
because its owner id is drawn anew when it starts; in its memory are the cached
epoch, the commit `fence`, and four tasks on one event loop (`at`, `to`, `token`):
the startup reconciliation, one API call, the scheduler and the run's job.

| Action | Code |
| --- | --- |
| `Own`, `Write` | `_update_agent_run_status_with_ownership`: acquire or renew the lease, then `update_agent_run_status_if_lease_current` |
| `EnsureJob` | `_ensure_agent_run_job` |
| `JobBegin`, `JobResult`, `JobCommit`, `JobRefuse`, `JobSave`, `JobRaises`, `JobCancelled`, `JobHandler`, `JobFinally`, `JobLeaves`, `JobBeginCancelled`, `JobFinallyCancelled` | `_run_agent_run`, cut at its awaits: lease, orchestrator, commit fence, durable event, saving, status, and the `except` and `finally` blocks, with a cancellation surfacing at any of them |
| `StartRun`, `PauseRun`, `PauseStop`, `PauseReturns`, `ResumeRun`, `FinalizeRun`, `CancelTerminal`, `CancelRun`, `CancelDecide` | the API calls |
| `Trigger` | the scheduler's trigger of a due run |
| `Boot`, `Adopt`, `Judge`, `BootRelease` | `_reconcile_agent_runs_on_startup` with `RunAdoptionReconciler` |
| `Close`, `Closed`, `Crash`, `Lapse` | shutdown, death of a process, a lease nobody renewed |

Abstractions.  A renewal that fails and the acquisition that follows are one action,
and so are the two acquisitions of a trigger.  A store call interrupted by a
cancellation lands at once or never.  Whether the workers of an orphaned run are
verified is nondeterministic.  The orchestrator's result is `succeeded`, `partial` or
`awaiting_resources` (nothing it returns is projected as failed), exceptions come
from it and from saving its result.  `stalled` and `awaiting_approval` are not told
apart from the statuses that are treated alike.  `PauseReturns` comes as soon as the
job has deregistered.  A run whose schedule pauses it on failure or after a number
of runs, failures of linked approvals (`service.py:6973`), goal-backed runs and the
deletion of runs are left out.  `decided` is a ghost; `ops` bounds the calls.

### FencedStatus

What the lease promises with no rows and tasks: an owner at a time, taken from no
live owner, an epoch for each grant, and a status that only the owner changes -
except that resuming an idle run makes it run.  `RunLease` implements it
(`KeepsPromise`): a live lease is an owner.

### ChangeSet

The file changes of one task in the mode `enforce`.  On disk the workspace's `file`s
(content and inode).  In the database the change sets (`status`, `patchOf`, `base`:
the files each was prepared from, `record`: the files it left behind, `retention` of
its undo), the approvals (`approval`, `of`, the consume lease `holder` and `live`)
and the `task`.  A handler is one request (`pc` and its locals).

| Action | Code |
| --- | --- |
| `Approve`, `Inspect`, `Spoil`, `Resolve`, `Claim` | `resolve_approval`: load and revalidate the change set, mark it conflicted, grant and claim the approval |
| `Reload`, `Reinspect`, `Plan`, `Write`, `WriteFails` | `_execute_approved_file_mutation`: revalidate again, then `ApplyPatchTool`, which prepares the patch anew and writes in place, one file after the other |
| `Attach`, `Mark`, `Conclude`, `Finish`, `Complete` | the undo contract, the status of the change set and of the task, the end of the claim |
| `Reject`, `CancelTask`, `Dismiss` | a refusal, `cancel_task` |
| `Preview`, `Replace` | `preview_workspace_patch`: an edited patch gets a change set (or the one it had) and supersedes the approval |
| `AskUndo`, `CheckUndo`, `Undo`, `UndoFails`, `Rollback`, `Observe`, `Refuse`, `Consume` | `undo_change_set`, `execute_authoritative_undo` with the observation of every file after the last replacement, which may raise when there is no rollback any more, and `consume_undo_retention` |
| `Sweep`, `Lapse`, `Elapse`, `Age` | the sweep of consume leases; time |
| `Crash`, `Edit` | death of a request; others who edit, replace, create and remove files |

A check that only reads is one action, although it reads several files: every file
is read before the writes in any case, and what others do after it is what the
properties are about.

Abstractions.  What a patch does to a file is to add, update or delete it (`Kind`);
the result of an update is a function of the patch and of what was there; a patch
applies to content no patch has written.  Inode numbers are not reused.  File modes and
times, the order of entries, dependency groups, subset previews, blobs, the inverse
change set of an undo and the preview of an unchanged patch are left out.  A
failing write may leave a torn file, a crash between two writes only whole ones.
`Rollback` does not fail (the code suppresses it if it does, and then nothing can be
said).  A replacement takes an unused approval id, of which there are finitely many.
The default mode is `observe`, in which nothing is refused; the properties are
about `enforce`.

`runs` and `since` are ghosts: how often the tool was run for an approval, and which
files others have changed since a handler claimed its approval or asked for its undo.

## 4. Runs

| Run | What it asks | Bounds |
| --- | --- | --- |
| `approval_safety` | a fresh Chat approval beside a row of an earlier release, three handlers: one execution, one continuation, one lease holder, claim columns only on a claimed row, keys fixed, no lost Chat call, terminal states final, `OneShotApproval` implemented | TTL 3, leases of 1 tick, 3 keys, outcome `not_started` |
| `approval_live` | a Chat call and a plain one, all recovery outcomes, operators that stop sessions: no effect without grant, `consumed` only of a call that ran; under the scheduler's fairness nothing stays consuming and every continuation is settled or taken back | 2 handlers, TTL 2, one key for both calls |
| `rules_one_process` | the loop, an operator's pass and a settings client of one process: no change lost, a removed rule stays removed, `ExactlyOnceOutbox` implemented, every row settles | 2 effects, one malformed, 1 setting, 8 claims each, 1 crash |
| `rules_two_processes` | two processes deliver, one effect is malformed, loops may die: types, each effect applied once | 3 effects, 3 claims each, 1 round, 1 crash |
| `timeline_safety` | crashes, lapses and cancellations anywhere, background commands, calls that raise: recorded effects exclusive and at most once, records true, ends conceal nothing, settled things final, an unknown result quarantines, `SerialEffects` implemented | 2 turns, 1 call each, one may need approval |
| `timeline_queue` | order of service, one worker at a time, and a queued turn gets the lane or is settled, unless the lane is wedged (`Wedged`: its worker is gone, and its turn has begun or abandoned a call but has none marked started) | 3 turns, 1 call each, no approvals, crashes, leases of live workers hold |
| `timeline_wedge` | violation: the lane of a worker that died after its result is never released | 2 turns, crashes |
| `run_safety` | two runtimes on one store: one runtime per token, commit or cancel, writes fenced, `FencedStatus` implemented | 2 runtimes, 2 calls or triggers; leases lapse, runtimes die |
| `run_restart` | one runtime at a time: calls return, a committed completion becomes the status | 2 lives, 3 calls or triggers, crashes, shutdowns, exceptions, every result |
| `run_shutdown` | violation: a shutdown undoes a committed completion | 1 runtime, 1 call |
| `run_rerun` | violation: the second execution of a scheduled run is refused as cancelled | 1 runtime, 2 triggers |
| `change_set` | a task's patch: run once, no file changed blindly, an undo that is done restored all, one that is refused all or none | 2 files, 2 patches, 2 requests at a time and 3 in all, 2 approvals, 1 edit from outside; crashes, failing writes, time |

The bounds are small because every hazard is a race of at most three parties (a
late owner, the sweep, the next owner) on one row; a second row matters only
for the keys.  A lease of one tick elapses in every interleaving with the rest.
Three ticks of TTL leave room for a claim, a lease that elapses, a recovery and
a second claim before the approval expires.  Handlers are symmetric in
`approval_safety`.

In the rule runs the valid effects carry different rules where two of them compete,
because a second approval of the same rule may rightly bring a removed rule back.
In `rules_two_processes` three claims of an effect let a claimant die or be
overtaken and its successor err.  In `rules_one_process` the claims must not be the
reason that an effect stays: eight is more than the attempts, one crash and the
overtaken claims of two tasks can use.

In the timeline runs two turns show what a turn leaves for the next one; a third is
there for the order of the queue.  That a second call of a turn changes nothing is
left to the proofs, which hold for any number of calls.  `OneWorkerAtATime` and
liveness are checked where processes die but the lease of a live worker does not
lapse and nobody cancels: when a lease lapses, the code lets the late worker think
on and only its writes are refused.  It counts workers: the handler of an approved call,
and the loop it resumes, do work beside the worker of a later turn.

In the run runs two runtimes show every handover of a lease; a third would only repeat
it.  Two calls let one be under way while its run is paused, resumed, cancelled or
triggered again, three let a run be paused, resumed and cancelled across a restart.  A
lease may lapse under a live owner in `run_safety` only: liveness cannot be had from
owners whose lease lapses again and again.

In `change_set` the two patches differ in what they do to one file (update, delete) and
both add the other one, so that each kind of change, its undo and its rollback
happens, and an applied patch makes the other one impossible.  Three requests are
an approval or a preview, its rival, and an undo; two at a time are a race.  One edit
from outside is enough to make a base or a record stale.  What more requests,
approvals and files could do is left to the proofs, which bound none of them.

Fairness.  `_scheduler_loop` runs the sweep and the dispatcher in a loop with a
poll interval of at least 0.05 s for as long as the service runs and survives
exceptions, which gives weak fairness of `RecoverStale`, `Materialise`,
`ClaimContinuation` and `ClaimTooLate`; time passes; a handler's awaits return or
raise.  No operator is obliged to decide and no crash is obliged to happen.  The
dispatcher awaits a continuation inside the scheduler loop, so a model call that
never returns would stop the sweep: that awaits return is assumed.
`_approval_side_effect_loop` polls every 0.5 s, which gives weak fairness of
`ClaimNext` for the loop and not for an operator's pass; a delivery under way goes
on (`Deliver`), and so does a settings handler that has saved (`KeepSettings`, which
no await separates from the save).  For the timeline, a worker's event loop goes on
(`WorkerStep`, which includes that a tool that began returns), the write of a
cancellation happens, the leases of the dead expire, and a waiting worker polls
every 20 ms and recovers what it finds.  Approvals have no fairness: nothing makes a user decide.
For a run, each task of an event loop gets its turn (`JobStep`, `ApiStep`, `LoopStep`,
`BootStep`, `JobLeaves`, `Closed`), because awaits of the store return; nothing makes
the orchestrator return, anybody call, or a lease lapse.  `change_set` has no
liveness: the code promises none.

## 5. Proofs

`ApprovalLifecycle_proofs` proves for all sets of approvals, handlers and keys
and all positive TTLs and lease times:

* `TypeCorrect`, from `TypeInv`: types, that a handler that is not idle holds
  an approval, and that a row has a consume token exactly while it is consuming, and a
  lease only then;
* `OneExecution`, `GrantBeforeEffect`, `ConsumedIsExecuted`, from `ExecutionInv`:
  for each status, how often the call was dispatched and who may still
  dispatch it.  It needs to say that at most one handler stands between claim and
  dispatch (`OneBusy`), and that a row offered again was never dispatched;
* `OneHolder`, from `TokensApart`: the handlers of one approval hold different tokens,
  none of them later than its last claim;
* `OneContinuation`, from `ContinuationInv`: the same for the Chat turn.  It needs
  the barrier in the row or in the hands of one handler.  It assumes that no
  operator stops the session, and needs to: see section 6;
* `ChatIsDiscoverable`, from `ShownInv`: besides the consumed rows it speaks of the
  handlers that are about to store a result, because completing trusts what they
  stored.  It assumes no operator stops, which replace that result, and that
  `recover_consumption` is not called with `applied`: nothing in `mochi/` does, and a
  caller that did would have to bring the flags with the result;
* `KeysUnique`, `KeyForGood`, `TerminalStays`: from the type invariant, action by
  action;
* `Refinement`: the initial states map to initial states of `OneShotApproval`, and
  every action maps to one of its actions or to a stutter.

`RuleOutbox_proofs` proves for all effects, rules, processes, deliveries,
settings and bounds:

* `RulesTyped`, from `TypeInv`: types, that a delivery under way holds an effect
  and has rounds left, and that no config in memory is too long;
* `SettledStays`: settled rows are final;
* `EffectAppliedOnce`, from `OnceInv`: the ids in the file are exactly the effects
  that were saved; a delivery about to save holds a snapshot without its id, and
  the compare-and-swap makes that the file; a client whose save is accepted has
  exactly the ids of the file, because its `etag`, its draft and the file only grow
  in that order.  It assumes that the config remembers every valid effect
  (`IdsSuffice`; a dropped id could be applied again) and that all writers share one
  process or only deliveries write (`WritersKnown`; section 6 says why);
* `WritesSurvive`, `RemovalSurvives`: a config *keeps* the rules of the effects whose
  ids it has, but for those removed (`KeptInv`), and what was removed from it is gone
  (`GoneInv`).  Neither is inductive for the file alone: a draft keeps and misses the
  same with its own change counted, so that it may become the file.  The ids do the
  work of both, since an accepted save has exactly the ids of the file.
  `RemovalSurvives` assumes that no two valid effects carry the same rule
  (`RulesDiffer`): a second approval of a rule rightly brings it back;
* `Refinement`: every step is one of `ExactlyOnceOutbox` or a stutter, under
  `IdsSuffice` and `WritersKnown`.  Besides `OnceInv` it needs that a draft which
  could still be accepted is the file with one change (`DraftInv`), and that only
  enqueued effects are delivered (`QueuedInv`).

`SettledStays` has no run of its own: that a settled row stays settled is part of
`ExactlyOnceOutbox`, which `rules_one_process` checks.

`TurnTimeline_proofs` proves for all sets of turns and numbers of calls, with
crashes, lapsing leases and cancellations allowed or not:

* `TimelineTyped`, `EffectsExclude`, `EffectsAtMostOnce`, `RecordsTrue`,
  `EndsConcealNothing`: the safety invariants of `timeline_safety`;
* `SettledStays`, `TurnsServedInOrder`, `QuarantineStays`: its action properties, the
  order of service from `timeline_queue`;
* `OneWorker`: one worker is at its turn's model and tools at a time.  It speaks of
  workers, not of the handlers of approved calls, and assumes
  that the lease of a live worker does not lapse and that nobody cancels; section 6
  has what happens if somebody does.  Its invariant `Holder` says that every busy worker
  owns the lane, which it cannot lose but by ending its turn or dying;
* `Refinement`: every step is a step of `SerialEffects` or changes no phase.

The first group speaks of what the timeline records: `flying` are the effects of recorded
operations whose call has not returned, or raised.  For a process left in the background
`RecordsTrue` says that it is not recorded as failed or abandoned, and no theorem says
that it runs alone.

The argument is one inductive invariant, `IInv`.  None of the properties is
inductive: that two effects are never under way says nothing of the operations that
may begin one.  Its core is `OneLive`: at most one operation of the session is
*live*, that is started, unknown, or precommitted in a turn that is running or
paused.  Only a precommit makes an operation live, and its checks see every live
one: the turn's own, an unknown one (`Lost` says that a quarantine always is one),
and those of paused turns, but only of turns admitted *earlier*.  That is enough
because a turn that holds the lane was admitted after every turn that paused
(`Order`), which needs the queue to be served in order (`Queue`).  `Bound` says
which call a worker and a handler are at, and `Effects` that an effect that is
about to begin or under way is of a started or unknown operation, and has not begun
before.  `StepKinds` classifies every step by what it does to the operations, so
that `OneLive` and the refinement are shown once for each kind.

`RunLease_proofs` proves for all sets of runtimes and results and any number of
calls, lapses, crashes and shutdowns:

* `LeaseTypeCorrect`, `TokensAreApart`, `CommitsOrCancels`, `WritesAreFenced` and
  `LeaseRefinement`, the five properties of `run_safety`.

The inductive invariant is types, `TokenInv`, `ActiveInv` and `FenceInv`.  `TokenInv`
says that no epoch anywhere exceeds the last one given, that whoever caches or is
about to write the epoch of the row owns the row, and that two runtimes never have
the same epoch: an epoch drawn from `lastEpoch + 1` is nobody's yet, and the mutants
that reuse one show that this is what it needs.  `FenceInv` relates the
fence to the event and to the answers given: a live runtime that committed has a
fence committed, one that answered a cancellation has it closed for one, and a job
that is about to append the event has passed the fence and has not appended it yet.
`ActiveInv` says that the tasks of a runtime that is not up are gone.

`ChangeSet_proofs` proves for all sets of files, patches, change sets, approvals and
requests:

* `TypeCorrect`, `ExecutesOnce`, `OverwritesNothingUnseen`, `UndoesAllOrNothing`, the
  four properties of `change_set`;
* `ConsentIsKept`: its approvals implement `OneShotApproval`.  No run checks
  `KeepsConsent`; TLC confirms it when it is added to `change_set`.

The inductive invariant has three parts.  `TypeInv` adds to the types that a change
set that exists was prepared from files its patch applies to, and that a selection to
undo is within the patch.  `ExecInv` says that at most one approval is neither
unused nor superseded, that at most one handler executes, that its approval is
claimed and has run the tool exactly if the handler has come that far, and that nobody
executes once a change set is applied.  An undo, which needs an applied change set,
therefore meets no executor, so that bases and records stand still under it.
`DiskInv` then says, for each handler and each file it has
still to change, that the file is the one it has compared (`base` or `record`), or
was changed by somebody since; and for each file it has changed already, that it is
what the handler made it, or was changed since.  None of it holds without the second
revalidation (the mutant of `NoBlindOverwrite`).  A refused undo may come from two
places, with nothing changed or put back (`Unharmed`) or with everything restored and
observed in vain (`Undone`), and `UndoesAllOrNothing` says that it is never in between.

`ConsentIsKept` needs no more than the first two parts: a claim finds no other request
at work, and the tool has not run for any approval that can be claimed.

`Promises_proofs` proves what the abstract specifications amount to, and so what every
component has that implements one of them:

* `CallsRunOnce`: under `OneShotApproval` a call runs at most once, and is neither open
  nor granted once it ran or its permit is out; its turn is told at most once, and only
  if it ran;
* `EffectsSerial`: under `SerialEffects` effects under way exclude each other, and one
  whose result is lost excludes every later one;
* `ReportsAreTrue`: under `ExactlyOnceOutbox` what is reported as delivered was applied,
  once, and no rule is in the config that no valid saved effect brought.

Model-checked and not proved are the liveness properties alone (`ConsumptionEnds`,
`ContinuationSettles`, `EffectSettles`, `CallsReturn`, `CommitIsProjected`,
`ProceedsUnlessWedged`): fairness and ENABLED are out of the prover's reach.

## 6. Findings

Shown by a run:

* `timeline_wedge` (`timeline_coordinator.py:645`): a stale lane whose operations
  all have their results is refused by both recoveries; the session's later turns
  wait for ever.
* `run_shutdown` (`service.py:7030`): a shutdown between the durable completion and the
  status makes the completed run cancelled, and no start repairs it.
* `run_rerun` (`service.py:6940`): the commit fence of a run is never opened again, so
  that a scheduled run that completed once is refused the result of its next
  execution, and stays running.

Reproduced while modelling, without a run of their own; the constants named make
TLC find them again, with the property given:

* An operator's stop (`service.py:9832`) replaces the execution result and with it the
  barrier `continuation_started`, and the sweep has the Chat turn resumed twice:
  `AtMostOneContinuation` of `ApprovalLifecycle` with `OperatorStops = TRUE` and one
  Chat approval.  The comment at `service.py:8193` forbids it.
* Recovery reports `expired` for a call that was dispatched in time and applied
  (`approval_lifecycle.py:1283`, `approval_state_machine.py:260`), against "The
  approval TTL elapsed before resolve or consume" (`approval_state_machine.py:44`):
  the invariant that an expired approval has no effects, in `ApprovalLifecycle`.
* The revision kept with a saved config is read after the lock is released
  (`api/routes/settings.py:1139`); another process's save in between is overwritten
  by the next PATCH without a conflict: `NoLostUpdate` of `RuleOutbox` with two
  processes, one of them in `Editors`, and two settings.
* A cancellation decided on a queued turn is written on the running one and releases
  its lane (`timeline_coordinator.py:520`): `OneWorkerAtATime` of `TurnTimeline` with
  cancellations allowed.
* An approval decided before its turn has ended is spent without releasing its
  operation, which then blocks every later side effect of the session
  (`turn_timeline.py:1505`): the invariant that a paused turn whose approval is over
  has no precommitted operation, in `TurnTimeline`.
* A job that has deregistered releases the lease a resumed job has renewed meanwhile
  (`service.py:7143`), and a second runtime adopts a run that is being executed: the
  invariant that one runtime has a job at work, in `RunLease` with two concurrent
  runtimes, without lapses or crashes.  The status stays fenced.
* Two approvals of one request at once: the second finds the change set applied and
  marks it conflicted whatever it was (`file_ops.py:1105`), so that the undo is refused
  for good, or the first one fails after it has changed the files: two `Approve` steps
  of `ChangeSet`.
* An undo that restored every file is answered 409 if the observation after the last
  replacement raises (`file_transaction.py:500`, `api/routes/file_ops.py:348`): nothing
  is put back, the inverse change set is marked conflicted, the retention is not
  consumed, and a later undo finds the files not as recorded: the invariant that a
  request of `ChangeSet` in place `refuse` has put its files back (`Unharmed`).
* A command in the background is recorded `succeeded` while its process runs
  (`exec_runtime.py:241`, `exec_command.py:1053`, `service.py:16016`), so that later
  operations of the session overlap it: the invariant that `flying \cup background` has
  one element, in `TurnTimeline`.
* The handler of an approved call resumes the ReAct loop with all tools and no timeline
  lifecycle (`service.py:8203`, `agents/engine.py:1702`; the lifecycle is set only at
  `engine.py:2965`, and without one `tools/registry.py:716` neither precommits nor
  marks).  The effects of these tools overlap the operations of a later turn and start
  after a quarantine: the invariant that no other turn's worker is at work (`AtWork`)
  while an approval is `resumed`, in `TurnTimeline`.

Seen and without a run: `_approval_side_effect_loop` (`service.py:1257`) has no
`except`, so that a `SecretStoreError` or `sqlite3.Error` of a delivery ends the
loop until the process restarts (`Die`; with `LoopMayDie` the rows stay).  A write
that fails in the middle of an approved patch (`file_ops.py:2204`) leaves the files
partly written and the task awaiting an approval that is used up.  A crash after the
undo of the files and before its record (`api/routes/file_ops.py:377`) makes every
later undo a conflict.

Hazards the code lives with, for which it promises nothing and no property is stated:
a granted approval whose process died before the claim waits for its TTL; an approval
nobody decides, or whose sweep died half-way (`service.py:824`), blocks its session's
later effects; the config remembers 4096 applied ids; a run stays running without a
job if `_ensure_agent_run_job` finds the old one not yet deregistered, `paused` may be
written over a terminal status (`service.py:2882`), a resume lease has no expiry
(`service.py:2935`), and a process that restarts within its old lease's time leaves the
run to the operator; a patch prepared again gets its old, perhaps conflicted, change
set back (`change_sets.py:246`); `cancel_task` leaves the approval pending, and granting
it later applies the patch.

## 7. Not modelled

`InMemoryApprovalStore` (tests only), steps 6 to 8 of the plan, what section 3 names
as left out of each module, and the components that the table of section 1 calls
sequential or pure I/O: they hold no state that several actors change, or are data
transformation that examples test better.  Most of the repository's lines are of
that kind, so that the share these modules cover is small.  Hazards without a
property are those the code breaks (section 6) or promises nothing about; PROJECT.json
says which, at each line.
