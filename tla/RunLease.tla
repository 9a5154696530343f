------------------------------- MODULE RunLease -------------------------------
(***************************************************************************)
(* One standalone agent run: the ownership lease, the fenced status        *)
(* updates and the resume lease of RuntimeStore (src/mochi/runtime/        *)
(* store.py), and the RuntimeService of each process that starts, pauses,  *)
(* resumes, cancels, schedules, executes and adopts the run (service.py),  *)
(* with its CommitFence (cancellation.py) and its RunAdoptionReconciler    *)
(* (run_adoption.py).                                                      *)
(*                                                                         *)
(* A runtime is one life of a RuntimeService: its owner id is drawn when   *)
(* it is created, so a restart is another runtime.  It runs four tasks on  *)
(* one event loop: the startup reconciliation, one API call, the scheduler *)
(* and the job of the run.  A store transaction, with the code up to the   *)
(* next await, is one action; a renewal that fails and the acquisition     *)
(* that follows it are one.  Time is abstract: a lease nobody renews may   *)
(* lapse at any moment, a schedule may be due at any moment.               *)
(***************************************************************************)
EXTENDS Naturals

CONSTANTS
  Runtimes,    \* owner ids
  NoRuntime,   \* the owner of no lease
  Results,     \* completion statuses the orchestrator may return
  Scheduled,   \* has the run a recurring schedule?
  Concurrent,  \* may two runtimes be up on one store?
  MayLapse,    \* may the lease of a live runtime lapse (jobs send no heartbeat)?
  MayCrash,    \* may a runtime die?
  MayClose,    \* may a runtime be shut down?
  MayRaise,    \* may the orchestrator or the saving of its result raise?
  MaxOps       \* bound: API calls and scheduler triggers

Terminal  == {"cancelled", "failed", "succeeded"}
Resumable == {"paused", "partial", "awaiting_resources"}
Statuses  == {"created", "running"} \cup Terminal \cup Resumable

ASSUME ConstantsAssumption ==
  /\ NoRuntime \notin Runtimes
  /\ Results \subseteq {"succeeded", "partial", "awaiting_resources"}
  /\ Scheduled \in BOOLEAN
  /\ Concurrent \in BOOLEAN
  /\ MayLapse \in BOOLEAN
  /\ MayCrash \in BOOLEAN
  /\ MayClose \in BOOLEAN
  /\ MayRaise \in BOOLEAN
  /\ MaxOps \in Nat

Slots == {"boot", "api", "loop", "job"}

VARIABLES
  status,     \* agent_runs.status
  enabled,    \* schedule.enabled
  resume,     \* the resume lease: its id (0: none yet) and whether it is active
  committed,  \* run_completion_committed events, by the runtime that wrote them
  lease,      \* the row of agent_run_leases
  lastEpoch,  \* agent_run_lease_epochs.last_epoch
  life,       \* of each runtime
  cached,     \* the epoch in _standalone_agent_run_leases, 0 when absent
  fence,      \* _agent_run_commit_fences
  at,         \* where each task stands
  to,         \* the status it is about to write
  token,      \* the epoch it will write it with
  flags,      \* of the registered job
  took,       \* the resume lease id the job will release, 0 for None
  leaving,    \* jobs that have deregistered and still hold the lease
  decided,    \* ghost: runtimes that answered a cancellation cancelled_pre_commit
  ops         \* calls made so far

runVars   == <<status, enabled, resume, committed>>
leaseVars == <<lease, lastEpoch>>
taskVars  == <<at, to, token>>
jobVars   == <<flags, took, leaving>>
fenceVars == <<fence, decided>>
vars == <<runVars, leaseVars, life, cached, fenceVars, taskVars, jobVars, ops>>

-----------------------------------------------------------------------------
Lives  == {"new", "up", "closing", "down"}
\* "cancel": Task.cancel() was called; "except": the job is in an except clause;
\* "awaited": pause_agent_run waits for its end.
Flags  == {"cancel", "except", "awaited"}
Places == {"idle", "own", "write", "ensure",           \* any task
           "adopt", "judge", "release",                \* the reconciliation
           "decide", "stop", "await",                  \* API calls
           "begin", "running", "committing", "refusing",
           "saving", "handler", "finally"}             \* the job
NoLease == [owner |-> NoRuntime, epoch |-> 0, live |-> FALSE]

TypeOK ==
  /\ status \in Statuses
  /\ enabled \in BOOLEAN
  /\ resume \in [id : Nat, active : BOOLEAN]
  /\ committed \in [Runtimes -> Nat]
  /\ lease \in [owner : Runtimes, epoch : Nat \ {0}, live : BOOLEAN] \cup {NoLease}
  /\ lastEpoch \in Nat
  /\ life \in [Runtimes -> Lives]
  /\ cached \in [Runtimes -> Nat]
  /\ fence \in [Runtimes -> {"open", "committed", "cancellation_requested"}]
  /\ at \in [Runtimes -> [Slots -> Places]]
  /\ to \in [Runtimes -> [Slots -> Statuses]]
  /\ token \in [Runtimes -> [Slots -> Nat]]
  /\ flags \in [Runtimes -> SUBSET Flags]
  /\ took \in [Runtimes -> Nat]
  /\ leaving \in [Runtimes -> Nat]
  /\ decided \subseteq Runtimes
  /\ ops \in 0..MaxOps

Init ==
  /\ status = "created"
  /\ enabled = Scheduled
  /\ resume = [id |-> 0, active |-> FALSE]
  /\ committed = [r \in Runtimes |-> 0]
  /\ lease = NoLease
  /\ lastEpoch = 0
  /\ life = [r \in Runtimes |-> "new"]
  /\ cached = [r \in Runtimes |-> 0]
  /\ fence = [r \in Runtimes |-> "open"]
  /\ at = [r \in Runtimes |-> [k \in Slots |-> "idle"]]
  /\ to = [r \in Runtimes |-> [k \in Slots |-> "created"]]
  /\ token = [r \in Runtimes |-> [k \in Slots |-> 0]]
  /\ flags = [r \in Runtimes |-> {}]
  /\ took = [r \in Runtimes |-> 0]
  /\ leaving = [r \in Runtimes |-> 0]
  /\ decided = {}
  /\ ops = 0

-----------------------------------------------------------------------------
(* The lease. *)

\* Does the row, live, belong to r?
Holds(r) == lease.owner = r /\ lease.live
\* Will acquire_agent_run_lease grant r the lease?
Granted(r) == Holds(r) \/ ~lease.live

\* Mutant: a takeover keeps the epoch of the stale row.
EpochFor_NoBump(r) ==
  IF lease.owner # NoRuntime THEN lease.epoch ELSE lastEpoch + 1
\* The row after r acquired or renewed it: an absent or stale row gets the next
\* epoch, a live row of r keeps its own.
EpochFor(r) == IF Holds(r) THEN lease.epoch ELSE lastEpoch + 1
TakeRow(r) ==
  /\ lease' = [owner |-> r, epoch |-> EpochFor(r), live |-> TRUE]
  /\ lastEpoch' = IF Holds(r) THEN lastEpoch ELSE lastEpoch + 1

\* _acquire_standalone_agent_run_lease, granted and refused.
Take(r)   == TakeRow(r) /\ cached' = [cached EXCEPT ![r] = EpochFor(r)]
Denied(r) == cached' = [cached EXCEPT ![r] = 0] /\ UNCHANGED leaseVars

\* Mutant: the row is emptied instead of deleted.
Release_Emptied(r) ==
  /\ cached' = [cached EXCEPT ![r] = 0]
  /\ lease' = IF cached[r] # 0 /\ lease.owner = r /\ lease.epoch = cached[r]
              THEN [lease EXCEPT !.owner = NoRuntime] ELSE lease
  /\ UNCHANGED lastEpoch
\* _release_standalone_agent_run_lease
Release(r) ==
  /\ cached' = [cached EXCEPT ![r] = 0]
  /\ lease' = IF cached[r] # 0 /\ lease.owner = r /\ lease.epoch = cached[r]
              THEN NoLease ELSE lease
  /\ UNCHANGED lastEpoch

\* Mutants: the update compares the owner alone, or does not look at the expiry.
Current_AnyEpoch(r, k)   == Holds(r)
Current_EvenStale(r, k)  == lease.owner = r /\ lease.epoch = token[r][k]
\* Is the token of a task the current fence (update_..._if_lease_current)?
Current(r, k) == Holds(r) /\ lease.epoch = token[r][k]

-----------------------------------------------------------------------------
(* Tasks. *)

Serving(r) == life[r] = "up" /\ at[r]["boot"] = "idle"
Completed  == \E r \in Runtimes : committed[r] > 0
Spend      == ops < MaxOps /\ ops' = ops + 1

Go(r, k, place)         == at' = [at EXCEPT ![r][k] = place]
GoWrite(r, k, s)        == Go(r, k, "own") /\ to' = [to EXCEPT ![r][k] = s]
Cancels(r, k)           == k = "job" /\ "cancel" \in flags[r]

\* Where a task goes once its status is written, and when it is refused.
Written(k, s) ==
  IF k = "job" THEN "finally"
  ELSE CASE s = "running"                                 -> "ensure"
         [] s = "paused"                                  -> "stop"
         [] s \notin {"running", "paused"} /\ k = "boot" -> "release"
         [] OTHER                                         -> "idle"
Refused(k) == IF k = "job" THEN "finally" ELSE "idle"

\* CancelledError leaves the try block for its handler, and an except clause
\* for the finally block.
CaughtAt(r) == IF "except" \in flags[r] THEN "finally" ELSE "handler"

Caught(r) == [flags EXCEPT ![r] = (@ \ {"cancel"}) \cup {"except"}]

\* A step of the job: a cancellation surfaces when the awaited call returns.
JobGo(r, place) ==
  /\ Go(r, "job", IF Cancels(r, "job") THEN CaughtAt(r) ELSE place)
  /\ flags' = IF Cancels(r, "job") THEN Caught(r) ELSE flags

\* _update_agent_run_status_with_ownership: acquire or renew the lease ...
Own(r, k) ==
  /\ at[r][k] = "own"
  /\ IF Granted(r)
     THEN TakeRow(r) /\ token' = [token EXCEPT ![r][k] = EpochFor(r)]
     ELSE UNCHANGED <<leaseVars, token>>
  /\ cached' = IF Cancels(r, k) THEN cached
               ELSE [cached EXCEPT ![r] = IF Granted(r) THEN EpochFor(r) ELSE 0]
  /\ LET place == IF Granted(r) THEN "write" ELSE Refused(k) IN
       IF k = "job" THEN JobGo(r, place) ELSE Go(r, k, place) /\ UNCHANGED flags
  /\ to' = IF Granted(r) THEN to ELSE [to EXCEPT ![r][k] = "created"]
  /\ UNCHANGED <<runVars, life, fenceVars, took, leaving, ops>>

\* ... and write the status if the fence is still current.
Write(r, k) ==
  /\ at[r][k] = "write"
  /\ status' = IF Current(r, k) THEN to[r][k] ELSE status
  /\ LET place == IF Current(r, k) THEN Written(k, to[r][k]) ELSE Refused(k) IN
       IF k = "job" THEN JobGo(r, place) ELSE Go(r, k, place) /\ UNCHANGED flags
  /\ to' = [to EXCEPT ![r][k] = "created"]
  /\ token' = [token EXCEPT ![r][k] = 0]
  /\ UNCHANGED <<enabled, resume, committed, leaseVars, life, cached, fenceVars,
                 took, leaving, ops>>

\* _ensure_agent_run_job: an unfinished job is left alone.
EnsureJob(r, k) ==
  /\ at[r][k] = "ensure"
  /\ at' = [at EXCEPT ![r][k] = "idle",
                      ![r]["job"] = IF @ = "idle" THEN "begin" ELSE @]
  /\ UNCHANGED <<runVars, leaseVars, life, cached, fenceVars, to, token, jobVars,
                 ops>>

-----------------------------------------------------------------------------
(* The job: _run_agent_run. *)

\* It takes the lease, or leaves before the try block.
JobBegin(r) ==
  /\ at[r]["job"] = "begin"
  /\ ~Cancels(r, "job")
  /\ IF Granted(r)
     THEN /\ Take(r)
          /\ Go(r, "job", "running")
          /\ took' = [took EXCEPT ![r] = resume.id]
     ELSE /\ Denied(r)
          /\ Go(r, "job", "idle")
          /\ UNCHANGED took
  /\ UNCHANGED <<runVars, life, fenceVars, to, token, flags, leaving, ops>>

\* Cancelled there, it just ends; the acquisition in flight may still land.
JobBeginCancelled(r) ==
  /\ at[r]["job"] = "begin"
  /\ Cancels(r, "job")
  /\ \/ Granted(r) /\ TakeRow(r)
     \/ UNCHANGED leaseVars
  /\ Go(r, "job", "idle")
  /\ flags' = [flags EXCEPT ![r] = {}]
  /\ UNCHANGED <<runVars, life, cached, fenceVars, to, token, took, leaving, ops>>

\* The orchestrator returns; a terminal result must pass the commit fence.
JobResult(r) ==
  /\ at[r]["job"] = "running"
  /\ ~Cancels(r, "job")
  /\ \E s \in Results :
       /\ to' = [to EXCEPT ![r]["job"] = s]
       /\ IF s \in Terminal
          THEN /\ fence' = [fence EXCEPT ![r] = IF @ = "open" THEN "committed" ELSE @]
               /\ Go(r, "job", IF fence[r] = "open" THEN "committing" ELSE "refusing")
          ELSE Go(r, "job", "saving") /\ UNCHANGED fence
  /\ UNCHANGED <<runVars, leaseVars, life, cached, decided, token, jobVars, ops>>

\* Append run_completion_committed.
JobCommit(r) ==
  /\ at[r]["job"] = "committing"
  /\ committed' = [committed EXCEPT ![r] = @ + 1]
  /\ JobGo(r, "saving")
  /\ UNCHANGED <<status, enabled, resume, leaseVars, life, cached, fenceVars, to,
                 token, took, leaving, ops>>

\* Append run_completion_cancelled_pre_commit; the status is left as it is.
JobRefuse(r) ==
  /\ at[r]["job"] = "refusing"
  /\ JobGo(r, "finally")
  /\ UNCHANGED <<runVars, leaseVars, life, cached, fenceVars, to, token, took,
                 leaving, ops>>

\* Metadata, artifacts, packages and the completion of the schedule: unfenced.
JobSave(r) ==
  /\ at[r]["job"] = "saving"
  /\ enabled' = (enabled /\ to[r]["job"] # "awaiting_resources")
  /\ JobGo(r, "own")
  /\ UNCHANGED <<status, resume, committed, leaseVars, life, cached, fenceVars, to,
                 token, took, leaving, ops>>

\* except Exception: a recoverable resource failure or any other.
JobRaises(r) ==
  /\ MayRaise
  /\ at[r]["job"] \in {"running", "committing", "saving"}
  /\ ~Cancels(r, "job")
  /\ \E s \in {"failed", "awaiting_resources"} :
       /\ GoWrite(r, "job", s)
       /\ enabled' = (enabled /\ s # "awaiting_resources")
  /\ flags' = Caught(r)
  /\ UNCHANGED <<status, resume, committed, leaseVars, life, cached, fenceVars,
                 token, took, leaving, ops>>

\* CancelledError before the call in flight took effect.
JobCancelled(r) ==
  /\ at[r]["job"] \in {"running", "committing", "refusing", "saving", "own",
                       "write", "handler", "finally"}
  /\ Cancels(r, "job")
  /\ at[r]["job"] = "finally" => "except" \notin flags[r]
  /\ Go(r, "job", CaughtAt(r))
  /\ flags' = Caught(r)
  /\ UNCHANGED <<runVars, leaseVars, life, cached, fenceVars, to, token, took,
                 leaving, ops>>

\* except CancelledError: a run still running becomes cancelled.
JobHandler(r) ==
  /\ at[r]["job"] = "handler"
  /\ ~Cancels(r, "job")
  /\ IF status \in {"created", "running"}
     THEN GoWrite(r, "job", "cancelled")
     ELSE Go(r, "job", "finally") /\ UNCHANGED to
  /\ UNCHANGED <<runVars, leaseVars, life, cached, fenceVars, token, jobVars, ops>>

ResumeReleased(r) ==
  IF took[r] # 0 /\ resume.id = took[r] THEN [resume EXCEPT !.active = FALSE]
  ELSE resume

\* The locals of a job that ended.
Forget(r) ==
  /\ flags' = [flags EXCEPT ![r] = {}]
  /\ took' = [took EXCEPT ![r] = 0]
  /\ to' = [to EXCEPT ![r]["job"] = "created"]
  /\ token' = [token EXCEPT ![r]["job"] = 0]

\* finally: release the resume lease, deregister ...
JobFinally(r) ==
  /\ at[r]["job"] = "finally"
  /\ ~Cancels(r, "job")
  /\ resume' = ResumeReleased(r)
  /\ Go(r, "job", "idle")
  /\ leaving' = [leaving EXCEPT ![r] = @ + 1]
  /\ Forget(r)
  /\ UNCHANGED <<status, enabled, committed, leaseVars, life, cached, fenceVars,
                 ops>>

\* ... and, awaits later, release the ownership lease.
JobLeaves(r) ==
  /\ leaving[r] > 0
  /\ leaving' = [leaving EXCEPT ![r] = @ - 1]
  /\ Release(r)
  /\ UNCHANGED <<runVars, life, fenceVars, taskVars, flags, took, ops>>

\* Cancelled in the finally block, the job ends with the lease held.
JobFinallyCancelled(r) ==
  /\ at[r]["job"] = "finally"
  /\ Cancels(r, "job")
  /\ resume' \in {resume, ResumeReleased(r)}
  /\ Go(r, "job", "idle")
  /\ Forget(r)
  /\ UNCHANGED <<status, enabled, committed, leaseVars, life, cached, fenceVars,
                 leaving, ops>>

Interrupt(r) ==
  flags' = IF at[r]["job"] = "idle" THEN flags
           ELSE [flags EXCEPT ![r] = @ \cup {"cancel"}]

-----------------------------------------------------------------------------
(* API calls and the scheduler. *)

Calls(r) == Serving(r) /\ at[r]["api"] = "idle" /\ Spend
CallUnchanged == UNCHANGED <<leaseVars, life, cached, token, took, leaving>>

\* start_agent_run
StartRun(r) ==
  /\ Calls(r)
  /\ \/ /\ status \in {"created"} \cup Resumable
        /\ GoWrite(r, "api", "running")
     \/ /\ status = "running"
        /\ Go(r, "api", "ensure")
        /\ UNCHANGED to
  /\ CallUnchanged
  /\ UNCHANGED <<runVars, fenceVars, flags>>

\* pause_agent_run: write the status, cancel the job, await it.
PauseRun(r) ==
  /\ Calls(r)
  /\ status = "running"
  /\ GoWrite(r, "api", "paused")
  /\ CallUnchanged
  /\ UNCHANGED <<runVars, fenceVars, flags>>

\* Mutant: it awaits the job without cancelling it.
PauseStop_NoCancel(r) ==
  /\ at[r]["api"] = "stop"
  /\ flags' = IF at[r]["job"] = "idle" THEN flags
              ELSE [flags EXCEPT ![r] = @ \cup {"awaited"}]
  /\ Go(r, "api", IF at[r]["job"] = "idle" THEN "idle" ELSE "await")
  /\ CallUnchanged
  /\ UNCHANGED <<runVars, fenceVars, to, ops>>
PauseStop(r) ==
  /\ at[r]["api"] = "stop"
  /\ flags' = IF at[r]["job"] = "idle" THEN flags
              ELSE [flags EXCEPT ![r] = @ \cup {"cancel", "awaited"}]
  /\ Go(r, "api", IF at[r]["job"] = "idle" THEN "idle" ELSE "await")
  /\ CallUnchanged
  /\ UNCHANGED <<runVars, fenceVars, to, ops>>

PauseReturns(r) ==
  /\ at[r]["api"] = "await"
  /\ "awaited" \notin flags[r]
  /\ Go(r, "api", "idle")
  /\ CallUnchanged
  /\ UNCHANGED <<runVars, fenceVars, to, flags, ops>>

\* resume_agent_run: its own lease and the status, with no ownership fence.
ResumeRun(r) ==
  /\ Calls(r)
  /\ status \in Resumable
  /\ ~resume.active
  /\ resume' = [id |-> resume.id + 1, active |-> TRUE]
  /\ status' = "running"
  /\ Go(r, "api", "ensure")
  /\ CallUnchanged
  /\ UNCHANGED <<enabled, committed, fenceVars, to, flags>>

\* finalize_agent_run_partial
FinalizeRun(r) ==
  /\ Calls(r)
  /\ status = "awaiting_resources"
  /\ GoWrite(r, "api", "partial")
  /\ CallUnchanged
  /\ UNCHANGED <<runVars, fenceVars, flags>>

\* Mutant: a request closes a committed fence, too.
RequestCancellation_Always(r, f) ==
  /\ fence' = [fence EXCEPT ![r] = "cancellation_requested"]
  /\ decided' = decided \cup {r}
\* CommitFence.request_cancellation, and its answer.
RequestCancellation(r, f) ==
  /\ fence' = [fence EXCEPT ![r] = IF f = "committed" THEN f
                                   ELSE "cancellation_requested"]
  /\ decided' = IF f = "committed" THEN decided ELSE decided \cup {r}
\* The fence after a try_commit whose outcome was already durable.
Recovered(r, done) == IF done /\ fence[r] = "open" THEN "committed" ELSE fence[r]

\* cancel_agent_run of a terminal run answers from the fence ...
CancelTerminal(r) ==
  /\ Calls(r)
  /\ status \in Terminal
  /\ RequestCancellation(r, Recovered(r, status # "cancelled"))
  /\ CallUnchanged
  /\ UNCHANGED <<runVars, at, to, flags>>

CancelRun(r) ==
  /\ Calls(r)
  /\ status \notin Terminal
  /\ Go(r, "api", "decide")
  /\ CallUnchanged
  /\ UNCHANGED <<runVars, fenceVars, to, flags>>

\* ... and of any other run from the events, too.
CancelDecide(r) ==
  /\ at[r]["api"] = "decide"
  /\ LET f == Recovered(r, Completed) IN
       /\ RequestCancellation(r, f)
       /\ IF f = "committed"
          THEN Go(r, "api", "idle") /\ UNCHANGED <<to, flags>>
          ELSE GoWrite(r, "api", "cancelled") /\ Interrupt(r)
  /\ CallUnchanged
  /\ UNCHANGED <<runVars, ops>>

\* _trigger_scheduled_agent_run
Trigger(r) ==
  /\ Serving(r) /\ at[r]["loop"] = "idle" /\ Spend
  /\ enabled
  /\ status \notin {"running", "paused", "cancelled"}
  /\ GoWrite(r, "loop", "running")
  /\ CallUnchanged
  /\ UNCHANGED <<runVars, fenceVars, flags>>

-----------------------------------------------------------------------------
(* Startup, shutdown, crash. *)

\* start: _reconcile_agent_runs_on_startup looks at a run left running ...
Boot(r) ==
  /\ life[r] = "new"
  /\ Concurrent \/ \A q \in Runtimes : life[q] \in {"new", "down"}
  /\ life' = [life EXCEPT ![r] = "up"]
  /\ Go(r, "boot", IF status = "running" THEN "adopt" ELSE "idle")
  /\ UNCHANGED <<runVars, leaseVars, cached, fenceVars, to, token, jobVars, ops>>

\* ... takes its lease if it can ...
Adopt(r) ==
  /\ at[r]["boot"] = "adopt"
  /\ IF Granted(r) THEN Take(r) ELSE Denied(r)
  /\ Go(r, "boot", "judge")
  /\ UNCHANGED <<runVars, life, fenceVars, to, token, jobVars, ops>>

\* Mutant: the events are not consulted.
Judge_Forgetful(r) ==
  /\ at[r]["boot"] = "judge"
  /\ \/ cached[r] # 0 /\ Go(r, "boot", "ensure")
     \/ Go(r, "boot", "idle")
  /\ UNCHANGED <<runVars, leaseVars, life, cached, fenceVars, to, token, jobVars,
                 ops>>
\* ... and classifies it: a committed completion is projected, an owned run
\* with verified workers is adopted, any other is left to the operator.
Judge(r) ==
  /\ at[r]["boot"] = "judge"
  /\ IF Completed
     THEN GoWrite(r, "boot", "succeeded")
     ELSE /\ \/ cached[r] # 0 /\ Go(r, "boot", "ensure")
             \/ Go(r, "boot", "idle")
          /\ UNCHANGED to
  /\ UNCHANGED <<runVars, leaseVars, life, cached, fenceVars, token, jobVars, ops>>

BootRelease(r) ==
  /\ at[r]["boot"] = "release"
  /\ Release(r)
  /\ Go(r, "boot", "idle")
  /\ UNCHANGED <<runVars, life, fenceVars, to, token, jobVars, ops>>

\* close: stop the scheduler, cancel the job and await it.
Close(r) ==
  /\ MayClose /\ Serving(r) /\ at[r]["api"] = "idle"
  /\ life' = [life EXCEPT ![r] = "closing"]
  /\ Go(r, "loop", "idle")
  /\ to' = [to EXCEPT ![r]["loop"] = "created"]
  /\ token' = [token EXCEPT ![r]["loop"] = 0]
  /\ Interrupt(r)
  /\ UNCHANGED <<runVars, leaseVars, cached, fenceVars, took, leaving, ops>>

\* The runtime is gone, and its tasks and memory with it.
Ends(r) ==
  /\ life' = [life EXCEPT ![r] = "down"]
  /\ at' = [at EXCEPT ![r] = [k \in Slots |-> "idle"]]
  /\ cached' = [cached EXCEPT ![r] = 0]
  /\ flags' = [flags EXCEPT ![r] = {}]
  /\ took' = [took EXCEPT ![r] = 0]
  /\ leaving' = [leaving EXCEPT ![r] = 0]
  /\ to' = [to EXCEPT ![r] = [k \in Slots |-> "created"]]
  /\ token' = [token EXCEPT ![r] = [k \in Slots |-> 0]]
  /\ fence' = [fence EXCEPT ![r] = "open"]
  /\ UNCHANGED <<runVars, leaseVars, decided, ops>>

\* The jobs it awaited have released what they held.
Closed(r) ==
  life[r] = "closing" /\ at[r]["job"] = "idle" /\ leaving[r] = 0 /\ Ends(r)
Crash(r)  == MayCrash /\ life[r] \in {"up", "closing"} /\ Ends(r)

\* The lease is not renewed for its time to live.
Lapse ==
  /\ lease.live
  /\ MayLapse \/ \E r \in Runtimes : lease.owner = r /\ life[r] = "down"
  /\ lease' = [lease EXCEPT !.live = FALSE]
  /\ UNCHANGED <<runVars, lastEpoch, life, cached, fenceVars, taskVars, jobVars, ops>>

-----------------------------------------------------------------------------
\* The steps a live runtime takes by itself.
JobStep(r) ==
  \/ JobBegin(r) \/ JobBeginCancelled(r) \/ JobCommit(r) \/ JobRefuse(r)
  \/ JobSave(r) \/ JobCancelled(r) \/ JobHandler(r) \/ JobFinally(r)
  \/ JobFinallyCancelled(r) \/ Own(r, "job") \/ Write(r, "job")
ApiStep(r) ==
  \/ Own(r, "api") \/ Write(r, "api") \/ EnsureJob(r, "api")
  \/ PauseStop(r) \/ PauseReturns(r) \/ CancelDecide(r)
LoopStep(r) == Own(r, "loop") \/ Write(r, "loop") \/ EnsureJob(r, "loop")
BootStep(r) ==
  \/ Adopt(r) \/ Judge(r) \/ Own(r, "boot") \/ Write(r, "boot")
  \/ BootRelease(r) \/ EnsureJob(r, "boot")
\* What users, schedules and faults do.
Environment(r) ==
  \/ StartRun(r) \/ PauseRun(r) \/ ResumeRun(r) \/ FinalizeRun(r)
  \/ CancelTerminal(r) \/ CancelRun(r) \/ Trigger(r)
  \/ Boot(r) \/ Close(r) \/ Crash(r)
\* The orchestrator may work for as long as it likes.
Outcome(r) == JobResult(r) \/ JobRaises(r)

Next ==
  \/ \E r \in Runtimes : \/ JobStep(r) \/ ApiStep(r) \/ LoopStep(r) \/ BootStep(r)
                         \/ JobLeaves(r) \/ Closed(r)
                         \/ Environment(r) \/ Outcome(r)
  \/ Lapse

Spec == Init /\ [][Next]_vars

\* Each task of an event loop gets its turn; nothing makes anybody call, the
\* orchestrator return or a lease lapse.
Fairness ==
  /\ \A r \in Runtimes :
       /\ WF_vars(JobStep(r)) /\ WF_vars(ApiStep(r))
       /\ WF_vars(LoopStep(r)) /\ WF_vars(BootStep(r))
       /\ WF_vars(JobLeaves(r)) /\ WF_vars(Closed(r))
FairSpec == Spec /\ Fairness

-----------------------------------------------------------------------------
\* A fencing token belongs to one runtime for good: of two runtimes, at most one
\* remembers the epoch of the row, and no task is about to write with an epoch
\* that another runtime was given.
OneToken ==
  /\ \A r \in Runtimes : cached[r] # 0 /\ cached[r] = lease.epoch => lease.owner = r
  /\ \A q, r \in Runtimes, j, k \in Slots :
       /\ at[q][j] = "write" /\ at[r][k] = "write" /\ token[q][j] = token[r][k]
       => q = r

\* One runtime never both commits a completion and answers a cancellation with
\* cancelled_pre_commit, and never commits twice.
CommitXorCancel ==
  \A r \in Runtimes : committed[r] + (IF r \in decided THEN 1 ELSE 0) <= 1

\* Whatever awaits lie between a decision and its write, the status is changed
\* by the resume lease or by the task of the runtime whose lease is live, with
\* the highest epoch ever granted: a token that lapsed, was released or was
\* superseded writes nothing.
FencedWrites ==
  [][ status' # status =>
        \/ resume'.id # resume.id
        \/ \E r \in Runtimes, k \in Slots :
             /\ at[r][k] = "write" /\ at'[r][k] # "write"
             /\ Holds(r) /\ token[r][k] = lastEpoch ]_vars

\* The lease as an abstract register: a live lease is an owner.
Lease == INSTANCE FencedStatus WITH
  Owners <- Runtimes, Nobody <- NoRuntime, Idle <- Resumable, Running <- "running",
  owner <- IF lease.live THEN lease.owner ELSE NoRuntime, epoch <- lastEpoch
\* The runtimes keep its promise: nobody takes the run from a live owner, and
\* every grant, after a release or a lapse alike, advances the epoch.
KeepsPromise == Lease!Spec

\* A result is refused as "cancelled before durable completion" only if somebody
\* asked for a cancellation.
RefusedOnlyIfCancelled ==
  \A r \in Runtimes :
    at[r]["job"] = "refusing" => fence[r] = "cancellation_requested"

\* A completion that was committed is not undone by a cancellation.
CommittedIsNotUndone ==
  [][ status = "running" /\ status' = "cancelled" => ~Completed ]_vars

\* Every API call returns: pause_agent_run awaits the job it cancels, and a job
\* ends once it is cancelled, however long the orchestrator would have worked.
CallsReturn == \A r \in Runtimes : at[r]["api"] # "idle" ~> at[r]["api"] = "idle"

\* A completion that a dead runtime committed reaches the status once a runtime
\* that starts is granted the lease, unless that one dies too.
CommitIsProjected ==
  \A r \in Runtimes :
    at[r]["boot"] = "judge" /\ Holds(r) /\ Completed
      ~> status = "succeeded" \/ life[r] = "down"
===============================================================================
