--------------------------- MODULE RunLease_proofs ---------------------------
(***************************************************************************)
(* Proofs about RunLease for any set of runtimes and any number of calls.  *)
(*                                                                         *)
(* The argument: the row, when there is one, carries the last epoch that   *)
(* was granted; an epoch a runtime remembers, or is about to write with,   *)
(* was granted to it, and if the row still carries it, the row is its own. *)
(* A grant to another runtime takes an epoch nobody holds yet.  The fence  *)
(* of a runtime that is up says whether it committed or was asked to       *)
(* cancel, and a runtime that has not started, or is gone, has no task.    *)
(***************************************************************************)
EXTENDS RunLease, TLAPS

-----------------------------------------------------------------------------
(* The inductive invariant.                                                *)

RowInv == lease = NoLease \/ (lease.owner \in Runtimes /\ lease.epoch = lastEpoch)

CacheInv ==
  \A r \in Runtimes :
    /\ cached[r] <= lastEpoch
    /\ cached[r] # 0 /\ cached[r] = lease.epoch => lease.owner = r

WriteInv ==
  \A r \in Runtimes, k \in Slots : at[r][k] = "write" =>
    /\ token[r][k] \in 1..lastEpoch
    /\ token[r][k] = lease.epoch => lease.owner = r

\* Two runtimes about to write were given different epochs.
ApartInv ==
  \A q, r \in Runtimes, j, k \in Slots :
    /\ at[q][j] = "write" /\ at[r][k] = "write" /\ token[q][j] = token[r][k]
    => q = r

TokenInv == RowInv /\ CacheInv /\ WriteInv /\ ApartInv

Alive == {"up", "closing"}

ActiveInv ==
  \A r \in Runtimes, k \in Slots : life[r] \notin Alive => at[r][k] = "idle"

FenceInv ==
  \A r \in Runtimes :
    /\ committed[r] = 0 \/ (committed[r] = 1 /\ r \notin decided)
    /\ life[r] = "new" => committed[r] = 0 /\ r \notin decided
    /\ life[r] \in Alive => /\ committed[r] # 0 => fence[r] = "committed"
                            /\ r \in decided => fence[r] = "cancellation_requested"
    /\ at[r]["job"] = "committing" => fence[r] = "committed" /\ committed[r] = 0

IInv == TypeOK /\ TokenInv /\ ActiveInv /\ FenceInv

-----------------------------------------------------------------------------
(* Type correctness.                                                       *)

LEMMA Parts ==
  /\ {"boot", "api", "loop", "job"} = Slots
  /\ \A s \in Results : s \in Statuses
BY ConstantsAssumption DEF Slots, Statuses, Resumable, Terminal

LeaseTyped ==
  /\ lease \in [owner : Runtimes, epoch : Nat \ {0}, live : BOOLEAN] \cup {NoLease}
  /\ lastEpoch \in Nat
  /\ cached \in [Runtimes -> Nat]
TaskTyped ==
  /\ at \in [Runtimes -> [Slots -> Places]]
  /\ to \in [Runtimes -> [Slots -> Statuses]]
  /\ token \in [Runtimes -> [Slots -> Nat]]
JobTyped ==
  /\ flags \in [Runtimes -> SUBSET Flags]
  /\ took \in [Runtimes -> Nat]
  /\ leaving \in [Runtimes -> Nat]
RunTyped ==
  /\ status \in Statuses
  /\ enabled \in BOOLEAN
  /\ resume \in [id : Nat, active : BOOLEAN]
  /\ committed \in [Runtimes -> Nat]
RuntimeTyped ==
  /\ life \in [Runtimes -> Lives]
  /\ fence \in [Runtimes -> {"open", "committed", "cancellation_requested"}]
  /\ decided \subseteq Runtimes
  /\ ops \in 0..MaxOps

LEMMA TypedParts ==
  TypeOK <=> RunTyped /\ LeaseTyped /\ RuntimeTyped /\ TaskTyped /\ JobTyped
BY DEF TypeOK, RunTyped, LeaseTyped, RuntimeTyped, TaskTyped, JobTyped

LEMMA EpochTyped ==
  ASSUME LeaseTyped, NEW r \in Runtimes
  PROVE  EpochFor(r) \in Nat \ {0}
BY ConstantsAssumption DEF LeaseTyped, EpochFor, Holds, NoLease

LEMMA TakeTyped ==
  ASSUME LeaseTyped, NEW r \in Runtimes, TakeRow(r),
         cached' \in {cached, [cached EXCEPT ![r] = EpochFor(r)]}
  PROVE  LeaseTyped'
<1>1. lease' \in [owner : Runtimes, epoch : Nat \ {0}, live : BOOLEAN]
  BY EpochTyped DEF TakeRow
<1>2. lastEpoch' \in Nat
  BY DEF TakeRow, LeaseTyped
<1>3. cached' \in [Runtimes -> Nat]
  BY EpochTyped DEF LeaseTyped
<1>. QED
  BY <1>1, <1>2, <1>3 DEF LeaseTyped, NoLease

LEMMA ReleaseTyped ==
  ASSUME LeaseTyped, NEW r \in Runtimes, Release(r) \/ Denied(r)
  PROVE  LeaseTyped'
BY DEF LeaseTyped, Release, Denied, leaseVars, NoLease

LEMMA CaughtTyped ==
  ASSUME JobTyped, NEW r \in Runtimes
  PROVE  /\ Caught(r) \in [Runtimes -> SUBSET Flags]
         /\ CaughtAt(r) \in Places
BY DEF JobTyped, Caught, CaughtAt, Flags, Places

LEMMA GoTyped ==
  ASSUME TaskTyped, NEW r \in Runtimes, NEW k \in Slots, NEW p \in Places, Go(r, k, p)
  PROVE  at' \in [Runtimes -> [Slots -> Places]]
BY DEF TaskTyped, Go

LEMMA GoWriteTyped ==
  ASSUME TaskTyped, NEW r \in Runtimes, NEW k \in Slots, NEW s \in Statuses,
         GoWrite(r, k, s)
  PROVE  at' \in [Runtimes -> [Slots -> Places]] /\ to' \in [Runtimes -> [Slots -> Statuses]]
<1>1. "own" \in Places
  BY DEF Places
<1>. QED
  BY <1>1, GoTyped DEF GoWrite, TaskTyped

LEMMA JobGoTyped ==
  ASSUME TaskTyped, JobTyped, NEW r \in Runtimes, NEW p \in Places, JobGo(r, p)
  PROVE  /\ at' \in [Runtimes -> [Slots -> Places]]
         /\ flags' \in [Runtimes -> SUBSET Flags]
<1>1. "job" \in Slots
  BY DEF Slots
<1>. QED
  BY <1>1, GoTyped, CaughtTyped DEF JobGo, JobTyped

LEMMA PlacesTyped ==
  ASSUME NEW k \in Slots, NEW s \in Statuses
  PROVE  Written(k, s) \in Places /\ Refused(k) \in Places
BY DEF Written, Refused, Places

LEMMA TypeNext == TypeOK /\ [Next]_vars => TypeOK'
<1> SUFFICES ASSUME TypeOK, [Next]_vars
             PROVE  RunTyped' /\ LeaseTyped' /\ RuntimeTyped' /\ TaskTyped' /\ JobTyped'
  BY TypedParts DEF TypeOK, RunTyped, LeaseTyped, RuntimeTyped, TaskTyped, JobTyped
<1>0. RunTyped /\ LeaseTyped /\ RuntimeTyped /\ TaskTyped /\ JobTyped
  BY TypedParts
<1> DEFINE Typed == RunTyped' /\ LeaseTyped' /\ RuntimeTyped' /\ TaskTyped' /\ JobTyped'
<1>a. "created" \in Statuses /\ "idle" \in Places /\ {"boot", "api", "loop", "job"} = Slots
  BY DEF Statuses, Places, Slots
<1>1. ASSUME NEW r \in Runtimes, NEW k \in Slots, Own(r, k) PROVE Typed
  <2>1. RunTyped' /\ RuntimeTyped'
    BY <1>0, <1>1 DEF Own, RunTyped, RuntimeTyped, runVars, fenceVars
  <2>2. LeaseTyped'
    <3>1. CASE Granted(r)
      BY <1>0, <1>1, <3>1, TakeTyped DEF Own
    <3>2. CASE ~Granted(r)
      BY <1>0, <1>1, <3>2 DEF Own, LeaseTyped, leaseVars
    <3>. QED
      BY <3>1, <3>2
  <2>3. at' \in [Runtimes -> [Slots -> Places]] /\ flags' \in [Runtimes -> SUBSET Flags]
    <3> DEFINE place == IF Granted(r) THEN "write" ELSE Refused(k)
    <3>1. place \in Places
      BY PlacesTyped, <1>a DEF Places
    <3>2. IF k = "job" THEN JobGo(r, place) ELSE Go(r, k, place) /\ UNCHANGED flags
      BY <1>1 DEF Own
    <3>. HIDE DEF place
    <3>. QED
      BY <1>0, <3>1, <3>2, JobGoTyped, GoTyped DEF JobTyped
  <2>4. to' \in [Runtimes -> [Slots -> Statuses]] /\ token' \in [Runtimes -> [Slots -> Nat]]
    BY <1>0, <1>1, <1>a, EpochTyped DEF Own, TaskTyped
  <2>. QED
    BY <1>0, <1>1, <2>1, <2>2, <2>3, <2>4 DEF Own, TaskTyped, JobTyped
<1>2. ASSUME NEW r \in Runtimes, NEW k \in Slots, Write(r, k) PROVE Typed
  <2>1. to[r][k] \in Statuses
    BY <1>0 DEF TaskTyped
  <2>2. RunTyped' /\ LeaseTyped' /\ RuntimeTyped'
    BY <1>0, <1>2, <2>1 DEF Write, RunTyped, LeaseTyped, RuntimeTyped, leaseVars, fenceVars
  <2>3. at' \in [Runtimes -> [Slots -> Places]] /\ flags' \in [Runtimes -> SUBSET Flags]
    <3> DEFINE place == IF Current(r, k) THEN Written(k, to[r][k]) ELSE Refused(k)
    <3>1. place \in Places
      BY PlacesTyped, <2>1
    <3>2. IF k = "job" THEN JobGo(r, place) ELSE Go(r, k, place) /\ UNCHANGED flags
      BY <1>2 DEF Write
    <3>. HIDE DEF place
    <3>. QED
      BY <1>0, <3>1, <3>2, JobGoTyped, GoTyped DEF JobTyped
  <2>. QED
    BY <1>0, <1>2, <1>a, <2>2, <2>3 DEF Write, TaskTyped, JobTyped
<1>3. ASSUME NEW r \in Runtimes, NEW k \in Slots, EnsureJob(r, k) PROVE Typed
  <2>1. at' \in [Runtimes -> [Slots -> Places]]
    BY <1>0, <1>3, <1>a DEF EnsureJob, TaskTyped, Places
  <2>. QED
    BY <1>0, <1>3, <2>1 DEF EnsureJob, RunTyped, LeaseTyped, RuntimeTyped, TaskTyped,
         JobTyped, runVars, leaseVars, fenceVars, jobVars
<1>4. ASSUME NEW r \in Runtimes, JobBegin(r) PROVE Typed
  <2>1. LeaseTyped'
    BY <1>0, <1>4, TakeTyped, ReleaseTyped DEF JobBegin, Take
  <2>2. at' \in [Runtimes -> [Slots -> Places]]
    BY <1>0, <1>4, <1>a, GoTyped DEF JobBegin, Places
  <2>. QED
    BY <1>0, <1>4, <2>1, <2>2 DEF JobBegin, RunTyped, RuntimeTyped, TaskTyped, JobTyped,
         runVars, fenceVars
<1>5. ASSUME NEW r \in Runtimes, JobBeginCancelled(r) PROVE Typed
  <2>1. LeaseTyped'
    <3>1. CASE TakeRow(r)
      BY <1>0, <1>5, <3>1, TakeTyped DEF JobBeginCancelled
    <3>2. CASE UNCHANGED leaseVars
      BY <1>0, <1>5, <3>2 DEF JobBeginCancelled, LeaseTyped, leaseVars
    <3>. QED
      BY <1>5, <3>1, <3>2 DEF JobBeginCancelled
  <2>2. at' \in [Runtimes -> [Slots -> Places]]
    BY <1>0, <1>5, <1>a, GoTyped DEF JobBeginCancelled
  <2>. QED
    BY <1>0, <1>5, <2>1, <2>2 DEF JobBeginCancelled, RunTyped, RuntimeTyped, TaskTyped,
         JobTyped, runVars, fenceVars
<1>6. ASSUME NEW r \in Runtimes, JobResult(r) PROVE Typed
  <2>1. at' \in [Runtimes -> [Slots -> Places]]
    BY <1>0, <1>6, <1>a, GoTyped DEF JobResult, Places
  <2>2. to' \in [Runtimes -> [Slots -> Statuses]]
    BY <1>0, <1>6, <1>a, Parts DEF JobResult, TaskTyped
  <2>. QED
    BY <1>0, <1>6, <2>1, <2>2 DEF JobResult, RunTyped, LeaseTyped, RuntimeTyped, TaskTyped,
         JobTyped, runVars, leaseVars, jobVars
<1>7. ASSUME NEW r \in Runtimes, JobCommit(r) \/ JobRefuse(r) \/ JobSave(r) PROVE Typed
  <2>1. at' \in [Runtimes -> [Slots -> Places]] /\ flags' \in [Runtimes -> SUBSET Flags]
    BY <1>0, <1>7, JobGoTyped DEF JobCommit, JobRefuse, JobSave, Places
  <2>2. RunTyped'
    <3>1. enabled' \in BOOLEAN
      BY <1>0, <1>7 DEF JobCommit, JobRefuse, JobSave, RunTyped, runVars
    <3>2. committed' \in [Runtimes -> Nat]
      BY <1>0, <1>7 DEF JobCommit, JobRefuse, JobSave, RunTyped, runVars
    <3>. QED
      BY <1>0, <1>7, <3>1, <3>2 DEF JobCommit, JobRefuse, JobSave, RunTyped, runVars
  <2>. QED
    BY <1>0, <1>7, <2>1, <2>2 DEF JobCommit, JobRefuse, JobSave, LeaseTyped, RuntimeTyped,
         TaskTyped, JobTyped, leaseVars, fenceVars
<1>8. ASSUME NEW r \in Runtimes, JobRaises(r) PROVE Typed
  <2>1. at' \in [Runtimes -> [Slots -> Places]] /\ to' \in [Runtimes -> [Slots -> Statuses]]
    BY <1>0, <1>8, <1>a, GoWriteTyped DEF JobRaises, Statuses, Terminal, Resumable
  <2>. QED
    BY <1>0, <1>8, <2>1, CaughtTyped DEF JobRaises, RunTyped, LeaseTyped, RuntimeTyped,
         TaskTyped, JobTyped, leaseVars, fenceVars
<1>9. ASSUME NEW r \in Runtimes, JobCancelled(r) PROVE Typed
  <2>1. at' \in [Runtimes -> [Slots -> Places]]
    BY <1>0, <1>9, <1>a, GoTyped, CaughtTyped DEF JobCancelled
  <2>. QED
    BY <1>0, <1>9, <2>1, CaughtTyped DEF JobCancelled, RunTyped, LeaseTyped, RuntimeTyped,
         TaskTyped, JobTyped, runVars, leaseVars, fenceVars
<1>10. ASSUME NEW r \in Runtimes, JobHandler(r) PROVE Typed
  <2>1. at' \in [Runtimes -> [Slots -> Places]] /\ to' \in [Runtimes -> [Slots -> Statuses]]
    <3>1. "cancelled" \in Statuses /\ "finally" \in Places
      BY DEF Statuses, Terminal, Places
    <3>. QED
      BY <1>0, <1>10, <1>a, <3>1, GoTyped, GoWriteTyped DEF JobHandler, TaskTyped
  <2>. QED
    BY <1>0, <1>10, <2>1 DEF JobHandler, RunTyped, LeaseTyped, RuntimeTyped,
         TaskTyped, JobTyped, runVars, leaseVars, fenceVars, jobVars
<1>11. ASSUME NEW r \in Runtimes, JobFinally(r) \/ JobFinallyCancelled(r) PROVE Typed
  <2>1. at' \in [Runtimes -> [Slots -> Places]]
    BY <1>0, <1>11, <1>a, GoTyped DEF JobFinally, JobFinallyCancelled
  <2>2. TaskTyped'
    <3>1. Forget(r)
      BY <1>11 DEF JobFinally, JobFinallyCancelled
    <3>2. to' \in [Runtimes -> [Slots -> Statuses]]
      BY <1>0, <1>a, <3>1 DEF Forget, TaskTyped
    <3>3. token' \in [Runtimes -> [Slots -> Nat]]
      BY <1>0, <1>a, <3>1 DEF Forget, TaskTyped
    <3>. QED
      BY <2>1, <3>2, <3>3 DEF TaskTyped
  <2>3. JobTyped'
    BY <1>0, <1>11 DEF JobFinally, JobFinallyCancelled, Forget, JobTyped
  <2>4. resume' \in [id : Nat, active : BOOLEAN]
    BY <1>0, <1>11 DEF JobFinally, JobFinallyCancelled, ResumeReleased, RunTyped
  <2>. QED
    BY <1>0, <1>11, <2>2, <2>3, <2>4 DEF JobFinally, JobFinallyCancelled, RunTyped,
         LeaseTyped, RuntimeTyped, leaseVars, fenceVars
<1>12. ASSUME NEW r \in Runtimes, JobLeaves(r) PROVE Typed
  <2>1. leaving' \in [Runtimes -> Nat]
    BY <1>0, <1>12 DEF JobLeaves, JobTyped
  <2>. QED
    BY <1>0, <1>12, <2>1, ReleaseTyped DEF JobLeaves, RunTyped, RuntimeTyped, TaskTyped,
         JobTyped, runVars, fenceVars, taskVars
<1>13. ASSUME NEW r \in Runtimes,
              StartRun(r) \/ PauseRun(r) \/ FinalizeRun(r) \/ Trigger(r) PROVE Typed
  <2>1. {"running", "paused", "partial"} \subseteq Statuses /\ "ensure" \in Places
    BY DEF Statuses, Resumable, Places
  <2>2. at' \in [Runtimes -> [Slots -> Places]] /\ to' \in [Runtimes -> [Slots -> Statuses]]
    BY <1>0, <1>13, <1>a, <2>1, GoTyped, GoWriteTyped
      DEF StartRun, PauseRun, FinalizeRun, Trigger, TaskTyped
  <2>3. RuntimeTyped'
    BY <1>0, <1>13, ConstantsAssumption DEF StartRun, PauseRun, FinalizeRun, Trigger, Calls, Spend,
         CallUnchanged, fenceVars, RuntimeTyped
  <2>4. UNCHANGED <<runVars, leaseVars, cached, token, took, leaving, flags>>
    BY <1>13 DEF StartRun, PauseRun, FinalizeRun, Trigger, CallUnchanged
  <2>. QED
    BY <1>0, <2>2, <2>3, <2>4 DEF RunTyped, LeaseTyped, TaskTyped, JobTyped, runVars,
         leaseVars
<1>14. ASSUME NEW r \in Runtimes, ResumeRun(r) PROVE Typed
  <2>1. at' \in [Runtimes -> [Slots -> Places]]
    BY <1>0, <1>14, <1>a, GoTyped DEF ResumeRun, Places
  <2>2. RunTyped'
    BY <1>0, <1>14 DEF ResumeRun, RunTyped, Statuses
  <2>3. RuntimeTyped'
    BY <1>0, <1>14, ConstantsAssumption DEF ResumeRun, Calls, Spend, CallUnchanged,
         fenceVars, RuntimeTyped
  <2>. QED
    BY <1>0, <1>14, <2>1, <2>2, <2>3 DEF ResumeRun, CallUnchanged, LeaseTyped, TaskTyped,
         JobTyped, leaseVars
<1>15. ASSUME NEW r \in Runtimes, PauseStop(r) \/ PauseReturns(r) \/ CancelRun(r) PROVE Typed
  <2>1. at' \in [Runtimes -> [Slots -> Places]]
    BY <1>0, <1>15, <1>a, GoTyped DEF PauseStop, PauseReturns, CancelRun, Places
  <2>2. JobTyped'
    BY <1>0, <1>15 DEF PauseStop, PauseReturns, CancelRun, CallUnchanged, JobTyped, Flags
  <2>3. RuntimeTyped'
    BY <1>0, <1>15, ConstantsAssumption DEF PauseStop, PauseReturns, CancelRun, Calls, Spend,
         CallUnchanged, fenceVars, RuntimeTyped
  <2>. QED
    BY <1>0, <1>15, <2>1, <2>2, <2>3 DEF PauseStop, PauseReturns, CancelRun, CallUnchanged,
         RunTyped, LeaseTyped, TaskTyped, runVars, leaseVars
<1>16. ASSUME NEW r \in Runtimes, CancelTerminal(r) PROVE Typed
  <2>1. RuntimeTyped'
    BY <1>0, <1>16, ConstantsAssumption DEF CancelTerminal, Calls, Spend, CallUnchanged,
         RequestCancellation, Recovered, RuntimeTyped
  <2>. QED
    BY <1>0, <1>16, <2>1 DEF CancelTerminal, CallUnchanged, RunTyped, LeaseTyped, TaskTyped,
         JobTyped, runVars, leaseVars
<1>17. ASSUME NEW r \in Runtimes, CancelDecide(r) PROVE Typed
  <2>1. RuntimeTyped'
    BY <1>0, <1>17 DEF CancelDecide, CallUnchanged, RequestCancellation, Recovered,
         RuntimeTyped
  <2>2. at' \in [Runtimes -> [Slots -> Places]] /\ to' \in [Runtimes -> [Slots -> Statuses]]
    <3>1. "cancelled" \in Statuses
      BY DEF Statuses, Terminal
    <3>. QED
      BY <1>0, <1>17, <1>a, <3>1, GoTyped, GoWriteTyped DEF CancelDecide, TaskTyped
  <2>3. JobTyped'
    BY <1>0, <1>17 DEF CancelDecide, Interrupt, CallUnchanged, JobTyped, Flags
  <2>. QED
    BY <1>0, <1>17, <2>1, <2>2, <2>3 DEF CancelDecide, CallUnchanged, RunTyped, LeaseTyped,
         TaskTyped, runVars, leaseVars
<1>18. ASSUME NEW r \in Runtimes, Boot(r) \/ Adopt(r) \/ Judge(r) \/ BootRelease(r) PROVE Typed
  <2>1. LeaseTyped'
    <3>1. CASE Boot(r) \/ Judge(r)
      BY <1>0, <3>1 DEF Boot, Judge, LeaseTyped, leaseVars
    <3>2. CASE Adopt(r)
      BY <1>0, <3>2, TakeTyped, ReleaseTyped DEF Adopt, Take
    <3>3. CASE BootRelease(r)
      BY <1>0, <3>3, ReleaseTyped DEF BootRelease
    <3>. QED
      BY <1>18, <3>1, <3>2, <3>3
  <2>2. at' \in [Runtimes -> [Slots -> Places]] /\ to' \in [Runtimes -> [Slots -> Statuses]]
    <3>1. {"adopt", "judge", "idle", "ensure"} \subseteq Places /\ "succeeded" \in Statuses
      BY DEF Places, Statuses, Terminal
    <3>. QED
      BY <1>0, <1>18, <1>a, <3>1, GoTyped, GoWriteTyped
        DEF Boot, Adopt, Judge, BootRelease, TaskTyped
  <2>3. RunTyped' /\ RuntimeTyped'
    BY <1>0, <1>18 DEF Boot, Adopt, Judge, BootRelease, RunTyped, RuntimeTyped, Lives,
         runVars, fenceVars
  <2>. QED
    BY <1>0, <1>18, <2>1, <2>2, <2>3 DEF Boot, Adopt, Judge, BootRelease, TaskTyped, JobTyped,
         jobVars
<1>19. ASSUME NEW r \in Runtimes, Close(r) PROVE Typed
  <2>1. at' \in [Runtimes -> [Slots -> Places]]
    BY <1>0, <1>19, <1>a, GoTyped DEF Close
  <2>2. TaskTyped'
    BY <1>0, <1>19, <1>a, <2>1 DEF Close, TaskTyped
  <2>3. JobTyped'
    BY <1>0, <1>19 DEF Close, Interrupt, JobTyped, Flags
  <2>. QED
    BY <1>0, <1>19, <2>2, <2>3 DEF Close, RunTyped, LeaseTyped, RuntimeTyped, Lives, runVars,
         leaseVars, fenceVars
<1>20. ASSUME NEW r \in Runtimes, Ends(r) PROVE Typed
  <2>1. TaskTyped'
    BY <1>0, <1>20, <1>a DEF Ends, TaskTyped
  <2>2. LeaseTyped' /\ JobTyped'
    BY <1>0, <1>20 DEF Ends, LeaseTyped, JobTyped, leaseVars
  <2>. QED
    BY <1>0, <1>20, <2>1, <2>2 DEF Ends, RunTyped, RuntimeTyped, Lives, runVars
<1>21. ASSUME Lapse PROVE Typed
  <2>1. LeaseTyped'
    <3>1. lease \in [owner : Runtimes, epoch : Nat \ {0}, live : BOOLEAN]
      BY <1>0, <1>21 DEF Lapse, LeaseTyped, NoLease
    <3>2. lease' = [lease EXCEPT !.live = FALSE]
      BY <1>21 DEF Lapse
    <3>3. lease' \in [owner : Runtimes, epoch : Nat \ {0}, live : BOOLEAN]
      BY <3>1, <3>2
    <3>. QED
      BY <1>0, <1>21, <3>3 DEF Lapse, LeaseTyped
  <2>. QED
    BY <1>0, <1>21, <2>1 DEF Lapse, RunTyped, RuntimeTyped, TaskTyped, JobTyped, runVars,
         fenceVars, taskVars, jobVars
<1>22. ASSUME UNCHANGED vars PROVE Typed
  BY <1>0, <1>22 DEF vars, runVars, leaseVars, fenceVars, taskVars, jobVars, RunTyped,
       LeaseTyped, RuntimeTyped, TaskTyped, JobTyped
<1>. QED
  BY <1>a, <1>1, <1>2, <1>3, <1>4, <1>5, <1>6, <1>7, <1>8, <1>9, <1>10, <1>11, <1>12, <1>13,
     <1>14, <1>15, <1>16, <1>17, <1>18, <1>19, <1>20, <1>21, <1>22
    DEF Next, JobStep, ApiStep, LoopStep, BootStep, Environment, Outcome, Closed, Crash

\* Every variable of the lease, the runtimes and their tasks keeps its type.
THEOREM LeaseTypeCorrect == Spec => []TypeOK
<1>1. Init => TypeOK
  BY ConstantsAssumption DEF Init, TypeOK, NoLease, Statuses, Lives, Places, Flags, Slots
<1>. QED
  BY <1>1, TypeNext, PTL DEF Spec

-----------------------------------------------------------------------------
(* What a step does to the lease and to the tokens.                        *)

LeaseFixed == UNCHANGED <<leaseVars, cached>>

\* r acquires or renews the lease, and may not get to remember it.
Taken(r) ==
  /\ Granted(r) /\ TakeRow(r)
  /\ cached' \in {cached, [cached EXCEPT ![r] = EpochFor(r)]}

Lapses == lease.live /\ lease' = [lease EXCEPT !.live = FALSE]
                     /\ UNCHANGED <<lastEpoch, cached>>

LeaseMoves ==
  \/ LeaseFixed
  \/ \E r \in Runtimes : Taken(r) \/ Denied(r) \/ Release(r)
  \/ Lapses

\* Nobody gets a token, except r for its task k.
OthersAt(r, k) ==
  \A q \in Runtimes, j \in Slots :
    at'[q][j] = "write" /\ <<q, j>> # <<r, k>>
      => at[q][j] = "write" /\ token'[q][j] = token[q][j]
NoneGained ==
  \A q \in Runtimes, j \in Slots :
    at'[q][j] = "write" => at[q][j] = "write" /\ token'[q][j] = token[q][j]

\* A step that leaves the status alone and hands out no token.
Plain == LeaseMoves /\ NoneGained /\ UNCHANGED status

\* A task acquires or renews the lease for its write.
Wins(r, k) ==
  /\ Taken(r) /\ OthersAt(r, k)
  /\ token'[r][k] = EpochFor(r)
  /\ UNCHANGED status

NoneArrives ==
  \A q \in Runtimes, j \in Slots : at'[q][j] = "write" => at[q][j] = "write"

LEMMA GoKinds ==
  ASSUME TypeOK, NEW r \in Runtimes, NEW k \in Slots, NEW p, p # "write", Go(r, k, p)
  PROVE  NoneArrives
BY DEF TypeOK, Go, NoneArrives

LEMMA JobGoKinds ==
  ASSUME TypeOK, NEW r \in Runtimes, NEW p, p # "write", JobGo(r, p)
  PROVE  NoneArrives
<1>1. "job" \in Slots
  BY DEF Slots
<1>. QED
  BY <1>1, GoKinds DEF JobGo, CaughtAt

LEMMA OwnKinds ==
  ASSUME TypeOK, NEW r \in Runtimes, NEW k \in Slots, Own(r, k)
  PROVE  Plain \/ Wins(r, k)
<1>1. UNCHANGED status
  BY DEF Own, runVars
<1>2. "job" \in Slots
  BY DEF Slots
<1>3. OthersAt(r, k)
  BY <1>2 DEF Own, OthersAt, TypeOK, JobGo, Go
<1>4. CASE Granted(r)
  <2>1. Taken(r)
    BY <1>4 DEF Own, Taken
  <2>2. token'[r][k] = EpochFor(r)
    BY <1>4 DEF Own, TypeOK
  <2>. QED
    BY <1>1, <1>3, <2>1, <2>2 DEF Wins
<1>5. CASE ~Granted(r)
  <2>1. at'[r][k] # "write"
    BY <1>2, <1>5 DEF Own, TypeOK, JobGo, Go, CaughtAt, Refused
  <2>2. LeaseFixed \/ Denied(r)
    BY <1>5 DEF Own, LeaseFixed, Denied
  <2>. QED
    BY <1>1, <1>3, <2>1, <2>2 DEF Plain, LeaseMoves, NoneGained, OthersAt
<1>. QED
  BY <1>4, <1>5

LEMMA WriteKinds ==
  ASSUME TypeOK, NEW r \in Runtimes, NEW k \in Slots, Write(r, k)
  PROVE  /\ LeaseFixed /\ NoneGained
         /\ at'[r][k] # "write"
         /\ status' # status => Current(r, k) /\ status' \in Statuses
<1>1. LeaseFixed
  BY DEF Write, LeaseFixed
<1>2. "job" \in Slots
  BY DEF Slots
<1>3. at'[r][k] # "write"
  BY <1>2 DEF Write, TypeOK, JobGo, Go, CaughtAt, Refused, Written
<1>4. NoneGained
  BY <1>2, <1>3 DEF Write, TypeOK, JobGo, Go, NoneGained
<1>5. status' # status => Current(r, k) /\ status' \in Statuses
  BY DEF Write, TypeOK
<1>. QED
  BY <1>1, <1>3, <1>4, <1>5

LEMMA ResumeKinds ==
  ASSUME TypeOK, NEW r \in Runtimes, ResumeRun(r)
  PROVE  /\ LeaseFixed /\ NoneGained
         /\ status \in Resumable /\ status' = "running"
         /\ resume'.id # resume.id
<1>1. "api" \in Slots
  BY DEF Slots
<1>2. NoneGained
  BY <1>1 DEF ResumeRun, CallUnchanged, TypeOK, Go, NoneGained
<1>3. resume'.id # resume.id
  BY DEF ResumeRun, TypeOK
<1>. QED
  BY <1>2, <1>3 DEF ResumeRun, CallUnchanged, LeaseFixed

LEMMA StepKinds ==
  ASSUME TypeOK, [Next]_vars
  PROVE  \/ Plain
         \/ \E r \in Runtimes, k \in Slots : Wins(r, k) \/ Write(r, k)
         \/ \E r \in Runtimes : ResumeRun(r)
<1>a. {"boot", "api", "loop", "job"} = Slots
  BY DEF Slots
<1>1. ASSUME NEW r \in Runtimes, JobBegin(r) PROVE Plain
  <2>1. LeaseMoves
    BY <1>1 DEF JobBegin, Take, Taken, LeaseMoves
  <2>2. NoneGained
    BY <1>a, <1>1, GoKinds DEF JobBegin, NoneArrives, NoneGained
  <2>. QED
    BY <1>1, <2>1, <2>2 DEF JobBegin, Plain, runVars
<1>2. ASSUME NEW r \in Runtimes, JobBeginCancelled(r) PROVE Plain
  <2>1. LeaseMoves
    BY <1>2 DEF JobBeginCancelled, Taken, LeaseFixed, LeaseMoves
  <2>2. NoneGained
    BY <1>a, <1>2, GoKinds DEF JobBeginCancelled, NoneArrives, NoneGained
  <2>. QED
    BY <1>2, <2>1, <2>2 DEF JobBeginCancelled, Plain, runVars
<1>3. ASSUME NEW r \in Runtimes,
             \/ JobCommit(r) \/ JobRefuse(r) \/ JobSave(r) \/ JobCancelled(r)
             \/ JobHandler(r) \/ JobResult(r) \/ JobRaises(r)
      PROVE  Plain
  <2>1. LeaseFixed /\ UNCHANGED status /\ UNCHANGED token
    BY <1>3 DEF JobCommit, JobRefuse, JobSave, JobCancelled, JobHandler, JobResult,
         JobRaises, LeaseFixed, runVars
  <2>2. NoneArrives
    BY <1>a, <1>3, GoKinds, JobGoKinds DEF JobCommit, JobRefuse, JobSave, JobCancelled,
         JobHandler, JobResult, JobRaises, GoWrite, CaughtAt
  <2>. QED
    BY <2>1, <2>2 DEF Plain, LeaseMoves, NoneArrives, NoneGained
<1>4. ASSUME NEW r \in Runtimes, JobFinally(r) \/ JobFinallyCancelled(r) PROVE Plain
  <2>1. LeaseFixed /\ UNCHANGED status
    BY <1>4 DEF JobFinally, JobFinallyCancelled, LeaseFixed
  <2>2. NoneGained
    BY <1>a, <1>4 DEF JobFinally, JobFinallyCancelled, Forget, Go, TypeOK, NoneGained
  <2>. QED
    BY <2>1, <2>2 DEF Plain, LeaseMoves
<1>5. ASSUME NEW r \in Runtimes, JobLeaves(r) PROVE Plain
  BY <1>5 DEF JobLeaves, Plain, LeaseMoves, NoneGained, runVars, taskVars
<1>6. ASSUME NEW r \in Runtimes, NEW k \in Slots, EnsureJob(r, k) PROVE Plain
  <2>1. NoneArrives
    BY <1>a, <1>6 DEF EnsureJob, TypeOK, NoneArrives
  <2>. QED
    BY <1>6, <2>1 DEF EnsureJob, Plain, LeaseMoves, LeaseFixed, NoneArrives, NoneGained,
         runVars
<1>7. ASSUME NEW r \in Runtimes,
             \/ StartRun(r) \/ PauseRun(r) \/ FinalizeRun(r) \/ Trigger(r)
             \/ PauseStop(r) \/ PauseReturns(r)
             \/ CancelTerminal(r) \/ CancelRun(r) \/ CancelDecide(r)
      PROVE  Plain
  <2>1. LeaseFixed /\ UNCHANGED status /\ UNCHANGED token
    BY <1>7 DEF StartRun, PauseRun, FinalizeRun, Trigger, PauseStop, PauseReturns,
         CancelTerminal, CancelRun, CancelDecide, CallUnchanged, LeaseFixed, runVars
  <2>2. NoneArrives
    BY <1>a, <1>7, GoKinds DEF StartRun, PauseRun, FinalizeRun, Trigger, PauseStop,
         PauseReturns, CancelTerminal, CancelRun, CancelDecide, GoWrite, NoneArrives
  <2>. QED
    BY <2>1, <2>2 DEF Plain, LeaseMoves, NoneArrives, NoneGained
<1>8. ASSUME NEW r \in Runtimes, Boot(r) \/ Adopt(r) \/ Judge(r) \/ BootRelease(r)
      PROVE  Plain
  <2>1. LeaseMoves
    <3>1. CASE Boot(r) \/ Judge(r)
      BY <3>1 DEF Boot, Judge, LeaseMoves, LeaseFixed
    <3>2. CASE Adopt(r)
      BY <3>2 DEF Adopt, Take, Taken, LeaseMoves
    <3>3. CASE BootRelease(r)
      BY <3>3 DEF BootRelease, LeaseMoves
    <3>. QED
      BY <1>8, <3>1, <3>2, <3>3
  <2>2. NoneArrives
    BY <1>a, <1>8, GoKinds DEF Boot, Adopt, Judge, BootRelease, GoWrite
  <2>3. UNCHANGED status /\ UNCHANGED token
    BY <1>8 DEF Boot, Adopt, Judge, BootRelease, runVars
  <2>. QED
    BY <2>1, <2>2, <2>3 DEF Plain, NoneArrives, NoneGained
<1>9. ASSUME NEW r \in Runtimes, Close(r) PROVE Plain
  <2>1. NoneGained
    BY <1>a, <1>9 DEF Close, Go, TypeOK, NoneGained
  <2>. QED
    BY <1>9, <2>1 DEF Close, Plain, LeaseMoves, LeaseFixed, runVars
<1>10. ASSUME NEW r \in Runtimes, Ends(r) PROVE Plain
  <2>1. LeaseMoves
    BY <1>10 DEF Ends, LeaseMoves, Denied
  <2>2. NoneGained
    BY <1>10 DEF Ends, TypeOK, NoneGained
  <2>. QED
    BY <1>10, <2>1, <2>2 DEF Ends, Plain, runVars
<1>11. ASSUME Lapse PROVE Plain
  BY <1>11 DEF Lapse, Plain, LeaseMoves, Lapses, NoneGained, runVars, taskVars
<1>12. ASSUME UNCHANGED vars PROVE Plain
  BY <1>12 DEF vars, runVars, leaseVars, taskVars, Plain, LeaseMoves, LeaseFixed, NoneGained
<1>13. ASSUME NEW r \in Runtimes, NEW k \in Slots, Own(r, k)
       PROVE  Plain \/ Wins(r, k)
  BY <1>13, OwnKinds
<1>. QED
  BY <1>a, <1>1, <1>2, <1>3, <1>4, <1>5, <1>6, <1>7, <1>8, <1>9, <1>10, <1>11, <1>12, <1>13
    DEF Next, JobStep, ApiStep, LoopStep, BootStep, Environment, Outcome, Closed, Crash

-----------------------------------------------------------------------------
(* The tokens.                                                             *)

\* A grant: the epoch is new, unless the owner renews its own live lease.
LEMMA GrantedEpoch ==
  ASSUME TypeOK, RowInv, NEW r \in Runtimes, TakeRow(r)
  PROVE  /\ lease'.owner = r /\ lease'.epoch = EpochFor(r) /\ lastEpoch' = EpochFor(r)
         /\ EpochFor(r) \in Nat \ {0} /\ lastEpoch <= lastEpoch'
         /\ \/ EpochFor(r) > lastEpoch
            \/ EpochFor(r) = lease.epoch /\ lease.owner = r
<1>1. lastEpoch \in Nat /\ lease.epoch \in Nat
  BY DEF TypeOK, NoLease
<1>2. CASE Holds(r)
  <2>1. lease # NoLease
    BY <1>2, ConstantsAssumption DEF Holds, NoLease
  <2>. QED
    BY <1>1, <1>2, <2>1 DEF TakeRow, EpochFor, Holds, RowInv, TypeOK
<1>3. CASE ~Holds(r)
  BY <1>1, <1>3 DEF TakeRow, EpochFor
<1>. QED
  BY <1>2, <1>3

LEMMA RowNext ==
  ASSUME TypeOK, RowInv, LeaseMoves
  PROVE  RowInv'
<1>1. ASSUME NEW r \in Runtimes, Taken(r) PROVE RowInv'
  BY <1>1, GrantedEpoch DEF Taken, RowInv
<1>2. ASSUME NEW r \in Runtimes, Denied(r) \/ Release(r) PROVE RowInv'
  BY <1>2 DEF Denied, Release, RowInv, leaseVars, NoLease
<1>3. CASE Lapses
  BY <1>3 DEF Lapses, RowInv, NoLease, TypeOK
<1>4. CASE LeaseFixed
  BY <1>4 DEF LeaseFixed, leaseVars, RowInv, NoLease
<1>. QED
  BY <1>1, <1>2, <1>3, <1>4 DEF LeaseMoves

\* An epoch that r was given, and that r alone can use.
Exclusive(e, r) == e <= lastEpoch /\ (e # 0 /\ e = lease.epoch => lease.owner = r)

\* It stays so.
LEMMA StaysExclusive ==
  ASSUME TypeOK, RowInv, LeaseMoves, NEW r \in Runtimes, NEW e \in Nat, Exclusive(e, r)
  PROVE  Exclusive(e, r)'
<1>1. ASSUME NEW q \in Runtimes, Taken(q) PROVE Exclusive(e, r)'
  BY <1>1, GrantedEpoch DEF Taken, Exclusive, TypeOK
<1>2. ASSUME NEW q \in Runtimes, Denied(q) \/ Release(q) PROVE Exclusive(e, r)'
  BY <1>2 DEF Denied, Release, leaseVars, NoLease, Exclusive
<1>3. CASE Lapses
  BY <1>3 DEF Lapses, Exclusive, TypeOK, NoLease
<1>4. CASE LeaseFixed
  BY <1>4 DEF LeaseFixed, leaseVars, Exclusive
<1>. QED
  BY <1>1, <1>2, <1>3, <1>4 DEF LeaseMoves

LEMMA TokenNext == TypeOK /\ TokenInv /\ [Next]_vars => TokenInv'
<1> SUFFICES ASSUME TypeOK, TokenInv, [Next]_vars
             PROVE  TokenInv'
  OBVIOUS
<1>a. RowInv /\ CacheInv /\ WriteInv /\ ApartInv
  BY DEF TokenInv
\* Who remembers an epoch was given it.
<1>1. ASSUME LeaseMoves PROVE CacheInv'
  <2> SUFFICES ASSUME NEW r \in Runtimes PROVE Exclusive(cached[r], r)'
    BY DEF CacheInv, Exclusive
  <2>1. cached[r] \in Nat /\ Exclusive(cached[r], r)
    BY <1>a DEF TypeOK, CacheInv, Exclusive
  <2>2. CASE cached'[r] = cached[r]
    <3> DEFINE e == cached[r]
    <3>1. e \in Nat /\ Exclusive(e, r) /\ cached'[r] = e
      BY <2>1, <2>2
    <3>. HIDE DEF e
    <3>2. e <= lastEpoch' /\ (e # 0 /\ e = lease'.epoch => lease'.owner = r)
      BY <1>1, <1>a, <3>1, StaysExclusive DEF Exclusive
    <3>. QED
      BY <3>1, <3>2 DEF Exclusive
  <2>3. CASE cached'[r] = 0
    <3>1. lastEpoch' \in Nat
      BY TypeNext DEF TypeOK
    <3>. QED
      BY <2>3, <3>1 DEF Exclusive
  <2>4. CASE Taken(r) /\ cached'[r] = EpochFor(r)
    BY <1>a, <2>4, GrantedEpoch DEF Taken, Exclusive
  <2>. QED
    BY <1>1, <2>2, <2>3, <2>4
      DEF LeaseMoves, LeaseFixed, Lapses, Taken, Denied, Release, TypeOK
\* So does who holds a token that he held before.
<1>2. ASSUME LeaseMoves, NEW r \in Runtimes, NEW k \in Slots, at'[r][k] = "write",
             at[r][k] = "write", token'[r][k] = token[r][k]
      PROVE  /\ token'[r][k] \in 1..lastEpoch'
             /\ token'[r][k] = lease'.epoch => lease'.owner = r
  <2> DEFINE e == token[r][k]
  <2>1. e \in Nat \ {0} /\ Exclusive(e, r) /\ token'[r][k] = e
    BY <1>2, <1>a DEF WriteInv, Exclusive, TypeOK
  <2>. HIDE DEF e
  <2>2. e <= lastEpoch' /\ (e = lease'.epoch => lease'.owner = r)
    BY <1>2, <1>a, <2>1, StaysExclusive DEF Exclusive
  <2>3. lastEpoch' \in Nat
    BY TypeNext DEF TypeOK
  <2>. QED
    BY <2>1, <2>2, <2>3
<1>3. ASSUME LeaseMoves, NoneGained PROVE TokenInv'
  <2>1. WriteInv'
    BY <1>2, <1>3 DEF WriteInv, NoneGained
  <2>2. ApartInv'
    BY <1>3, <1>a DEF ApartInv, NoneGained
  <2>. QED
    BY <1>1, <1>3, <1>a, <2>1, <2>2, RowNext DEF TokenInv
<1>4. ASSUME NEW r \in Runtimes, NEW k \in Slots, Wins(r, k) PROVE TokenInv'
  <2>1. LeaseMoves
    BY <1>4 DEF Wins, LeaseMoves
  <2>2. /\ lease'.owner = r /\ lease'.epoch = EpochFor(r) /\ lastEpoch' = EpochFor(r)
        /\ token'[r][k] = EpochFor(r) /\ EpochFor(r) \in Nat \ {0}
        /\ \/ EpochFor(r) > lastEpoch
           \/ EpochFor(r) = lease.epoch /\ lease.owner = r
    BY <1>4, <1>a, GrantedEpoch DEF Wins, Taken
  <2>3. ASSUME NEW q \in Runtimes, NEW j \in Slots, at'[q][j] = "write"
        PROVE  \/ q = r /\ j = k
               \/ at[q][j] = "write" /\ token'[q][j] = token[q][j]
    BY <1>4, <2>3 DEF Wins, OthersAt
  <2>4. WriteInv'
    <3> SUFFICES ASSUME NEW q \in Runtimes, NEW j \in Slots, at'[q][j] = "write"
                 PROVE  /\ token'[q][j] \in 1..lastEpoch'
                        /\ token'[q][j] = lease'.epoch => lease'.owner = q
      BY DEF WriteInv
    <3>1. CASE q = r /\ j = k
      BY <2>2, <3>1
    <3>2. CASE at[q][j] = "write" /\ token'[q][j] = token[q][j]
      BY <1>2, <2>1, <3>2
    <3>. QED
      BY <2>3, <3>1, <3>2
  <2>5. ASSUME NEW q \in Runtimes, NEW j \in Slots, at[q][j] = "write",
               token[q][j] = EpochFor(r)
        PROVE  q = r
    <3>1. token[q][j] \in 1..lastEpoch /\ (token[q][j] = lease.epoch => lease.owner = q)
      BY <1>a, <2>5 DEF WriteInv
    <3>2. lastEpoch \in Nat
      BY DEF TypeOK
    <3>. QED
      BY <2>2, <2>5, <3>1, <3>2
  <2>6. ApartInv'
    <3> SUFFICES ASSUME NEW p \in Runtimes, NEW q \in Runtimes, NEW i \in Slots,
                        NEW j \in Slots, at'[p][i] = "write", at'[q][j] = "write",
                        token'[p][i] = token'[q][j]
                 PROVE  p = q
      BY DEF ApartInv
    <3>1. CASE p = r /\ i = k
      BY <2>2, <2>3, <2>5, <3>1
    <3>2. CASE q = r /\ j = k
      BY <2>2, <2>3, <2>5, <3>2
    <3>3. CASE ~(p = r /\ i = k) /\ ~(q = r /\ j = k)
      <4>1. at[p][i] = "write" /\ at[q][j] = "write" /\ token[p][i] = token[q][j]
        BY <2>3, <3>3
      <4>. QED
        BY <1>a, <4>1 DEF ApartInv
    <3>. QED
      BY <3>1, <3>2, <3>3
  <2>. QED
    BY <1>1, <1>a, <2>1, <2>4, <2>6, RowNext DEF TokenInv
<1>5. ASSUME NEW r \in Runtimes, NEW k \in Slots, Write(r, k) PROVE TokenInv'
  BY <1>3, <1>5, WriteKinds DEF LeaseMoves
<1>6. ASSUME NEW r \in Runtimes, ResumeRun(r) PROVE TokenInv'
  BY <1>3, <1>6, ResumeKinds DEF LeaseMoves
<1>. QED
  BY <1>3, <1>4, <1>5, <1>6, StepKinds DEF Plain

-----------------------------------------------------------------------------
(* Lives and fences.                                                       *)

\* A step that concerns r alone, and leaves it alive or without a task.
OwnLife(r) ==
  /\ \A q \in Runtimes \ {r} : life'[q] = life[q] /\ at'[q] = at[q]
  /\ life'[r] \in Alive \/ \A k \in Slots : at'[r][k] = "idle"

LEMMA ActiveNext == TypeOK /\ ActiveInv /\ [Next]_vars => ActiveInv'
<1> SUFFICES ASSUME TypeOK, ActiveInv, [Next]_vars
             PROVE  ActiveInv'
  OBVIOUS
<1>a. {"boot", "api", "loop", "job"} = Slots
  BY DEF Slots
<1>b. ASSUME NEW r \in Runtimes, NEW k \in Slots, at[r][k] # "idle" PROVE life[r] \in Alive
  BY <1>b DEF ActiveInv
<1>c. ASSUME NEW r \in Runtimes, life[r] \in Alive, UNCHANGED life,
             \A q \in Runtimes \ {r} : at'[q] = at[q]
      PROVE  OwnLife(r)
  BY <1>c DEF OwnLife
<1>1. ASSUME NEW r \in Runtimes, NEW k \in Slots, Own(r, k) \/ Write(r, k) PROVE OwnLife(r)
  BY <1>a, <1>b, <1>c, <1>1 DEF Own, Write, JobGo, Go, TypeOK
<1>2. ASSUME NEW r \in Runtimes, NEW k \in Slots, EnsureJob(r, k) PROVE OwnLife(r)
  BY <1>b, <1>c, <1>2 DEF EnsureJob, TypeOK
<1>3. ASSUME NEW r \in Runtimes, JobBegin(r) \/ JobBeginCancelled(r) PROVE OwnLife(r)
  BY <1>a, <1>b, <1>c, <1>3 DEF JobBegin, JobBeginCancelled, Go, TypeOK
<1>4. ASSUME NEW r \in Runtimes,
             \/ JobCommit(r) \/ JobRefuse(r) \/ JobSave(r) \/ JobCancelled(r)
             \/ JobHandler(r) \/ JobResult(r) \/ JobRaises(r)
      PROVE  OwnLife(r)
  <2>1. at[r]["job"] # "idle"
    BY <1>4 DEF JobCommit, JobRefuse, JobSave, JobCancelled, JobHandler, JobResult, JobRaises
  <2>2. UNCHANGED life
    BY <1>4 DEF JobCommit, JobRefuse, JobSave, JobCancelled, JobHandler, JobResult, JobRaises
  <2>3. \A q \in Runtimes \ {r} : at'[q] = at[q]
    BY <1>4 DEF JobCommit, JobRefuse, JobSave, JobCancelled, JobHandler, JobResult, JobRaises,
         JobGo, GoWrite, Go, TypeOK
  <2>. QED
    BY <1>a, <1>b, <1>c, <2>1, <2>2, <2>3
<1>5. ASSUME NEW r \in Runtimes, JobFinally(r) \/ JobFinallyCancelled(r) PROVE OwnLife(r)
  BY <1>a, <1>b, <1>c, <1>5 DEF JobFinally, JobFinallyCancelled, Go, TypeOK
<1>6. ASSUME NEW r \in Runtimes,
             \/ StartRun(r) \/ PauseRun(r) \/ FinalizeRun(r) \/ Trigger(r) \/ ResumeRun(r)
             \/ CancelTerminal(r) \/ CancelRun(r)
      PROVE  OwnLife(r)
  <2>1. life[r] \in Alive /\ UNCHANGED life
    BY <1>6 DEF StartRun, PauseRun, FinalizeRun, Trigger, ResumeRun, CancelTerminal,
         CancelRun, Calls, Serving, CallUnchanged, Alive
  <2>2. \A q \in Runtimes \ {r} : at'[q] = at[q]
    BY <1>6 DEF StartRun, PauseRun, FinalizeRun, Trigger, ResumeRun, CancelTerminal,
         CancelRun, GoWrite, Go, TypeOK
  <2>. QED
    BY <1>c, <2>1, <2>2
<1>7. ASSUME NEW r \in Runtimes, PauseStop(r) \/ PauseReturns(r) \/ CancelDecide(r)
      PROVE  OwnLife(r)
  <2>1. at[r]["api"] # "idle" /\ UNCHANGED life
    BY <1>7 DEF PauseStop, PauseReturns, CancelDecide, CallUnchanged
  <2>2. \A q \in Runtimes \ {r} : at'[q] = at[q]
    BY <1>7 DEF PauseStop, PauseReturns, CancelDecide, GoWrite, Go, TypeOK
  <2>. QED
    BY <1>a, <1>b, <1>c, <2>1, <2>2
<1>8. ASSUME NEW r \in Runtimes, Adopt(r) \/ Judge(r) \/ BootRelease(r) PROVE OwnLife(r)
  BY <1>a, <1>b, <1>c, <1>8 DEF Adopt, Judge, BootRelease, GoWrite, Go, TypeOK
<1>9. ASSUME NEW r \in Runtimes, Boot(r) \/ Close(r) PROVE OwnLife(r)
  BY <1>9 DEF Boot, Close, Go, TypeOK, OwnLife, Alive
<1>10. ASSUME NEW r \in Runtimes, Ends(r) PROVE OwnLife(r)
  BY <1>10 DEF Ends, TypeOK, OwnLife
<1>11. ASSUME UNCHANGED life, UNCHANGED at PROVE ActiveInv'
  BY <1>11 DEF ActiveInv
<1>12. ASSUME NEW r \in Runtimes, OwnLife(r) PROVE ActiveInv'
  BY <1>12 DEF OwnLife, ActiveInv
<1>13. ASSUME (\E r \in Runtimes : JobLeaves(r)) \/ Lapse \/ UNCHANGED vars
       PROVE  UNCHANGED life /\ UNCHANGED at
  BY <1>13 DEF JobLeaves, Lapse, vars, taskVars
<1>. QED
  BY <1>a, <1>1, <1>2, <1>3, <1>4, <1>5, <1>6, <1>7, <1>8, <1>9, <1>10, <1>11, <1>12, <1>13
    DEF Next, JobStep, ApiStep, LoopStep, BootStep, Environment, Outcome, Closed, Crash

\* A step that neither decides anything nor brings a job to its commit.
Undecided ==
  /\ UNCHANGED <<fence, decided, committed, life>>
  /\ \A r \in Runtimes : at'[r]["job"] = "committing" => at[r]["job"] = "committing"

NoneCommits ==
  \A r \in Runtimes : at'[r]["job"] = "committing" => at[r]["job"] = "committing"

LEMMA GoCommits ==
  ASSUME TypeOK, NEW r \in Runtimes, NEW k \in Slots, NEW p, Go(r, k, p),
         k # "job" \/ p # "committing"
  PROVE  NoneCommits
BY DEF TypeOK, Go, NoneCommits, Slots

LEMMA JobGoCommits ==
  ASSUME TypeOK, NEW r \in Runtimes, NEW p, p # "committing", JobGo(r, p)
  PROVE  NoneCommits
<1>1. "job" \in Slots
  BY DEF Slots
<1>. QED
  BY <1>1, GoCommits DEF JobGo, CaughtAt

LEMMA FenceKinds ==
  ASSUME TypeOK, [Next]_vars
  PROVE  \/ Undecided
         \/ \E r \in Runtimes :
              \/ JobResult(r) \/ JobCommit(r) \/ CancelTerminal(r) \/ CancelDecide(r)
              \/ Boot(r) \/ Close(r) \/ Ends(r)
<1>a. {"boot", "api", "loop", "job"} = Slots
  BY DEF Slots
<1>1. ASSUME NEW r \in Runtimes, NEW k \in Slots, Own(r, k) \/ Write(r, k) PROVE Undecided
  <2>1. NoneCommits
    <3> DEFINE place == IF Own(r, k) THEN IF Granted(r) THEN "write" ELSE Refused(k)
                        ELSE IF Current(r, k) THEN Written(k, to[r][k]) ELSE Refused(k)
    <3>1. place # "committing"
      BY DEF Written, Refused
    <3>2. IF k = "job" THEN JobGo(r, place) ELSE Go(r, k, place)
      BY <1>1 DEF Own, Write
    <3>. HIDE DEF place
    <3>. QED
      BY <3>1, <3>2, GoCommits, JobGoCommits
  <2>. QED
    BY <1>1, <2>1 DEF Own, Write, NoneCommits, Undecided, runVars, fenceVars
<1>2. ASSUME NEW r \in Runtimes, NEW k \in Slots, EnsureJob(r, k) PROVE Undecided
  <2>1. NoneCommits
    BY <1>a, <1>2 DEF EnsureJob, TypeOK, NoneCommits
  <2>. QED
    BY <1>2, <2>1 DEF EnsureJob, NoneCommits, Undecided, runVars, fenceVars
<1>3. ASSUME NEW r \in Runtimes,
             \/ JobBegin(r) \/ JobBeginCancelled(r) \/ JobRefuse(r) \/ JobSave(r)
             \/ JobCancelled(r) \/ JobHandler(r) \/ JobRaises(r) \/ JobFinally(r)
             \/ JobFinallyCancelled(r)
      PROVE  Undecided
  <2>1. NoneCommits
    BY <1>a, <1>3, GoCommits, JobGoCommits DEF JobBegin, JobBeginCancelled, JobRefuse,
         JobSave, JobCancelled, JobHandler, JobRaises, JobFinally, JobFinallyCancelled,
         GoWrite, CaughtAt
  <2>2. UNCHANGED <<fence, decided, committed, life>>
    BY <1>3 DEF JobBegin, JobBeginCancelled, JobRefuse, JobSave, JobCancelled, JobHandler,
         JobRaises, JobFinally, JobFinallyCancelled, runVars, fenceVars
  <2>. QED
    BY <2>1, <2>2 DEF NoneCommits, Undecided
<1>4. ASSUME NEW r \in Runtimes, JobLeaves(r) \/ Adopt(r) \/ Judge(r) \/ BootRelease(r)
      PROVE  Undecided
  <2>1. NoneCommits
    BY <1>a, <1>4, GoCommits DEF JobLeaves, Adopt, Judge, BootRelease, GoWrite, NoneCommits,
         taskVars
  <2>. QED
    BY <1>4, <2>1 DEF JobLeaves, Adopt, Judge, BootRelease, NoneCommits, Undecided, runVars,
         fenceVars
<1>5. ASSUME NEW r \in Runtimes,
             \/ StartRun(r) \/ PauseRun(r) \/ FinalizeRun(r) \/ Trigger(r) \/ ResumeRun(r)
             \/ PauseStop(r) \/ PauseReturns(r) \/ CancelRun(r)
      PROVE  Undecided
  <2>1. NoneCommits
    BY <1>a, <1>5, GoCommits DEF StartRun, PauseRun, FinalizeRun, Trigger, ResumeRun,
         PauseStop, PauseReturns, CancelRun, GoWrite
  <2>2. UNCHANGED <<fence, decided, committed, life>>
    BY <1>5 DEF StartRun, PauseRun, FinalizeRun, Trigger, ResumeRun, PauseStop, PauseReturns,
         CancelRun, CallUnchanged, runVars, fenceVars
  <2>. QED
    BY <2>1, <2>2 DEF NoneCommits, Undecided
<1>6. ASSUME Lapse \/ UNCHANGED vars PROVE Undecided
  BY <1>6 DEF Lapse, vars, Undecided, runVars, fenceVars, taskVars
<1>. QED
  BY <1>a, <1>1, <1>2, <1>3, <1>4, <1>5, <1>6
    DEF Next, JobStep, ApiStep, LoopStep, BootStep, Environment, Outcome, Closed, Crash

LEMMA FenceNext == TypeOK /\ ActiveInv /\ FenceInv /\ [Next]_vars => FenceInv'
<1> SUFFICES ASSUME TypeOK, ActiveInv, FenceInv, [Next]_vars
             PROVE  FenceInv'
  OBVIOUS
<1>a. "job" \in Slots /\ "api" \in Slots
  BY DEF Slots
<1>1. ASSUME Undecided PROVE FenceInv'
  BY <1>1 DEF Undecided, FenceInv
<1>2. ASSUME NEW r \in Runtimes, JobResult(r) PROVE FenceInv'
  <2>1. life[r] \in Alive
    BY <1>a, <1>2 DEF JobResult, ActiveInv
  <2>2. \A q \in Runtimes \ {r} : fence'[q] = fence[q] /\ at'[q] = at[q]
    BY <1>2 DEF JobResult, Go, TypeOK
  <2>3. UNCHANGED <<life, committed, decided>>
    BY <1>2 DEF JobResult, runVars
  <2>4. /\ fence'[r] = IF at'[r]["job"] = "committing" THEN "committed" ELSE fence[r]
        /\ at'[r]["job"] = "committing" => fence[r] = "open"
    BY <1>a, <1>2 DEF JobResult, Go, TypeOK
  <2>. QED
    BY <2>1, <2>2, <2>3, <2>4 DEF FenceInv
<1>3. ASSUME NEW r \in Runtimes, JobCommit(r) PROVE FenceInv'
  <2>1. life[r] \in Alive /\ fence[r] = "committed" /\ committed[r] = 0
    BY <1>a, <1>3 DEF JobCommit, ActiveInv, FenceInv
  <2>2. \A q \in Runtimes \ {r} : committed'[q] = committed[q] /\ at'[q] = at[q]
    BY <1>3 DEF JobCommit, JobGo, Go, TypeOK
  <2>3. UNCHANGED <<life, fence, decided>>
    BY <1>3 DEF JobCommit, fenceVars
  <2>4. committed'[r] = 1 /\ at'[r]["job"] # "committing"
    BY <1>a, <1>3, <2>1 DEF JobCommit, JobGo, Go, CaughtAt, TypeOK
  <2>. QED
    BY <2>1, <2>2, <2>3, <2>4 DEF FenceInv, Alive
<1>4. ASSUME NEW r \in Runtimes, CancelTerminal(r) \/ CancelDecide(r) PROVE FenceInv'
  <2>1. life[r] \in Alive
    <3>1. CASE CancelTerminal(r)
      BY <3>1 DEF CancelTerminal, Calls, Serving, Alive
    <3>2. CASE CancelDecide(r)
      BY <1>a, <3>2 DEF CancelDecide, ActiveInv
    <3>. QED
      BY <1>4, <3>1, <3>2
  <2>2. PICK f \in {Recovered(r, TRUE), Recovered(r, FALSE)} :
          /\ RequestCancellation(r, f)
          /\ f = Recovered(r, FALSE) => CancelTerminal(r) \/ ~Completed \/ fence[r] # "open"
    BY <1>4 DEF CancelTerminal, CancelDecide, Recovered
  <2>3. UNCHANGED <<life, committed>>
    BY <1>4 DEF CancelTerminal, CancelDecide, CallUnchanged, runVars
  <2>4. NoneCommits
    BY <1>a, <1>4, GoCommits DEF CancelTerminal, CancelDecide, CallUnchanged, GoWrite,
         NoneCommits
  <2>5. \A q \in Runtimes \ {r} : fence'[q] = fence[q] /\ (q \in decided' <=> q \in decided)
    BY <2>2 DEF RequestCancellation, TypeOK
  <2>6. CASE f = "committed"
    <3>1. fence'[r] = "committed" /\ (r \in decided' <=> r \in decided)
      BY <2>2, <2>6 DEF RequestCancellation, TypeOK
    <3>2. r \notin decided
      BY <2>1, <2>2, <2>6 DEF Recovered, FenceInv
    <3>. QED
      BY <2>1, <2>3, <2>4, <2>5, <3>1, <3>2 DEF FenceInv, NoneCommits
  <2>7. CASE f # "committed"
    <3>1. fence'[r] = "cancellation_requested"
      BY <2>2, <2>7 DEF RequestCancellation, TypeOK
    <3>2. fence[r] # "committed"
      BY <2>2, <2>7 DEF Recovered
    <3>3. committed[r] = 0 /\ at[r]["job"] # "committing"
      BY <2>1, <3>2 DEF FenceInv
    <3>. QED
      BY <2>1, <2>3, <2>4, <2>5, <3>1, <3>3 DEF FenceInv, NoneCommits, Alive
  <2>. QED
    BY <2>6, <2>7
<1>5. ASSUME NEW r \in Runtimes, Boot(r) \/ Close(r) PROVE FenceInv'
  <2>1. UNCHANGED <<fence, decided, committed>>
    BY <1>5 DEF Boot, Close, runVars, fenceVars
  <2>2. NoneCommits
    BY <1>5, GoCommits DEF Boot, Close, Slots
  <2>3. /\ \A q \in Runtimes \ {r} : life'[q] = life[q]
        /\ life[r] \in {"new", "up"} /\ life'[r] \in Alive
    BY <1>5 DEF Boot, Close, Serving, TypeOK, Alive
  <2>. QED
    BY <2>1, <2>2, <2>3 DEF FenceInv, NoneCommits, Alive
<1>6. ASSUME NEW r \in Runtimes, Ends(r) PROVE FenceInv'
  <2>1. /\ \A q \in Runtimes \ {r} : life'[q] = life[q] /\ fence'[q] = fence[q] /\ at'[q] = at[q]
        /\ life'[r] = "down" /\ at'[r]["job"] = "idle"
    BY <1>a, <1>6 DEF Ends, TypeOK
  <2>2. UNCHANGED <<decided, committed>>
    BY <1>6 DEF Ends, runVars
  <2>. QED
    BY <2>1, <2>2 DEF FenceInv, Alive
<1>. QED
  BY <1>1, <1>2, <1>3, <1>4, <1>5, <1>6, FenceKinds

-----------------------------------------------------------------------------
(* The theorems.                                                           *)

LEMMA Invariant == Spec => []IInv
<1>1. Init => IInv
  <2> SUFFICES ASSUME Init PROVE IInv
    OBVIOUS
  <2>1. TypeOK
    BY ConstantsAssumption DEF Init, TypeOK, NoLease, Statuses, Lives, Places, Flags, Slots
  <2>2. TokenInv
    BY DEF Init, NoLease, TokenInv, RowInv, CacheInv, WriteInv, ApartInv
  <2>3. ActiveInv /\ FenceInv
    BY DEF Init, ActiveInv, FenceInv, Alive, Slots
  <2>. QED
    BY <2>1, <2>2, <2>3 DEF IInv
<1>2. IInv /\ [Next]_vars => IInv'
  BY TypeNext, TokenNext, ActiveNext, FenceNext DEF IInv
<1>. QED
  BY <1>1, <1>2, PTL DEF Spec

\* Of two runtimes at most one remembers the epoch of the row, and no two are
\* about to write with the same one, for any number of runtimes.
THEOREM TokensAreApart == Spec => []OneToken
<1>1. IInv => OneToken
  BY DEF IInv, TokenInv, CacheInv, ApartInv, OneToken
<1>. QED
  BY <1>1, Invariant, PTL

\* No runtime both commits a completion and answers that it was cancelled before,
\* and none commits twice, for any number of calls and attempts.
THEOREM CommitsOrCancels == Spec => []CommitXorCancel
<1>1. IInv => CommitXorCancel
  <2> SUFFICES ASSUME IInv, NEW r \in Runtimes
               PROVE  committed[r] + (IF r \in decided THEN 1 ELSE 0) <= 1
    BY DEF CommitXorCancel
  <2>1. committed[r] = 0 \/ (committed[r] = 1 /\ r \notin decided)
    BY DEF IInv, FenceInv
  <2>2. CASE r \in decided
    BY <2>1, <2>2
  <2>3. CASE r \notin decided
    BY <2>1, <2>3
  <2>. QED
    BY <2>2, <2>3
<1>. QED
  BY <1>1, Invariant, PTL

\* The token of a task that writes is the last epoch, if the fence lets it write.
LEMMA CurrentIsLast ==
  ASSUME IInv, NEW r \in Runtimes, NEW k \in Slots, Current(r, k)
  PROVE  Holds(r) /\ token[r][k] = lastEpoch
BY ConstantsAssumption DEF Current, Holds, IInv, TokenInv, RowInv, NoLease

\* A token that lapsed, was released or was superseded writes no status,
\* whatever awaits lie between the decision and the write.
THEOREM WritesAreFenced == Spec => FencedWrites
<1>1. IInv /\ [Next]_vars =>
        [ status' # status =>
            \/ resume'.id # resume.id
            \/ \E r \in Runtimes, k \in Slots :
                 /\ at[r][k] = "write" /\ at'[r][k] # "write"
                 /\ Holds(r) /\ token[r][k] = lastEpoch ]_vars
  <2> SUFFICES ASSUME IInv, [Next]_vars, status' # status
               PROVE  \/ resume'.id # resume.id
                      \/ \E r \in Runtimes, k \in Slots :
                           /\ at[r][k] = "write" /\ at'[r][k] # "write"
                           /\ Holds(r) /\ token[r][k] = lastEpoch
    OBVIOUS
  <2>1. TypeOK
    BY DEF IInv
  <2>2. ASSUME NEW r \in Runtimes, NEW k \in Slots, Write(r, k)
        PROVE  /\ at[r][k] = "write" /\ at'[r][k] # "write"
               /\ Holds(r) /\ token[r][k] = lastEpoch
    BY <2>1, <2>2, WriteKinds, CurrentIsLast DEF Write
  <2>3. ASSUME NEW r \in Runtimes, ResumeRun(r) PROVE resume'.id # resume.id
    BY <2>1, <2>3, ResumeKinds
  <2>. QED
    BY <2>1, <2>2, <2>3, StepKinds DEF Plain, Wins
<1>. QED
  BY <1>1, Invariant, PTL DEF Spec, FencedWrites

-----------------------------------------------------------------------------
(* The refinement of FencedStatus.                                         *)

Owner == IF lease.live THEN lease.owner ELSE NoRuntime
View  == <<status, Owner, lastEpoch>>

\* Every move of the lease is a grant to a new owner, a loss, or none.
LEMMA MovesKeepPromise ==
  ASSUME TypeOK, RowInv, LeaseMoves, UNCHANGED status
  PROVE  Lease!Next \/ UNCHANGED View
<1>1. ASSUME NEW r \in Runtimes, Taken(r) PROVE Lease!Next \/ UNCHANGED View
  <2>1. CASE Holds(r)
    BY <1>1, <2>1 DEF Taken, TakeRow, EpochFor, Holds, View, Owner
  <2>2. CASE ~Holds(r)
    <3>1. Owner = NoRuntime /\ Owner' = r /\ lastEpoch' = lastEpoch + 1
      BY <1>1, <2>2 DEF Taken, Granted, TakeRow, Owner
    <3>2. Lease!Grant(r)
      BY <3>1 DEF Lease!Grant, Owner
    <3>. QED
      BY <3>2 DEF Lease!Next
  <2>. QED
    BY <2>1, <2>2
<1>2. ASSUME NEW r \in Runtimes, Denied(r) \/ Release(r)
      PROVE  Lease!Next \/ UNCHANGED View
  <2>1. lastEpoch' = lastEpoch /\ (lease' = lease \/ lease' = NoLease)
    BY <1>2 DEF Denied, Release, leaseVars
  <2>. QED
    BY <2>1 DEF NoLease, Lease!Next, Lease!Lose, View, Owner
<1>3. CASE Lapses
  <2>1. lease'.live = FALSE
    BY <1>3 DEF Lapses, TypeOK, NoLease
  <2>. QED
    BY <1>3, <2>1 DEF Lapses, Lease!Next, Lease!Lose
<1>4. CASE LeaseFixed
  BY <1>4 DEF LeaseFixed, leaseVars, View, Owner
<1>. QED
  BY <1>1, <1>2, <1>3, <1>4 DEF LeaseMoves

\* The lease keeps the promise its store makes: the owner of a live lease is
\* never replaced, each grant has a new epoch, and only the owner changes the
\* status, except that a resumption makes an idle run run.
THEOREM LeaseRefinement == Spec => KeepsPromise
<1>1. Init => Lease!Init
  BY DEF Init, Lease!Init, NoLease, Statuses
<1>2. IInv /\ [Next]_vars => [Lease!Next]_View
  <2> SUFFICES ASSUME IInv, [Next]_vars PROVE Lease!Next \/ UNCHANGED View
    OBVIOUS
  <2>1. TypeOK /\ RowInv
    BY DEF IInv, TokenInv
  <2>2. CASE Plain
    BY <2>1, <2>2, MovesKeepPromise DEF Plain
  <2>3. ASSUME NEW r \in Runtimes, NEW k \in Slots, Wins(r, k)
        PROVE  Lease!Next \/ UNCHANGED View
    BY <2>1, <2>3, MovesKeepPromise DEF Wins, LeaseMoves
  <2>4. ASSUME NEW r \in Runtimes, NEW k \in Slots, Write(r, k)
        PROVE  Lease!Next \/ UNCHANGED View
    <3>1. UNCHANGED <<Owner, lastEpoch>>
      BY <2>1, <2>4, WriteKinds DEF LeaseFixed, leaseVars, Owner
    <3>2. status' # status => Holds(r) /\ status' \in Statuses
      BY <2>1, <2>4, WriteKinds DEF Current
    <3>3. status' # status => Lease!Change
      BY <3>1, <3>2, ConstantsAssumption DEF Holds, Lease!Change, Owner
    <3>. QED
      BY <3>1, <3>3 DEF Lease!Next, View
  <2>5. ASSUME NEW r \in Runtimes, ResumeRun(r) PROVE Lease!Next
    <3>1. UNCHANGED <<Owner, lastEpoch>>
      BY <2>1, <2>5, ResumeKinds DEF LeaseFixed, leaseVars, Owner
    <3>. QED
      BY <2>1, <2>5, <3>1, ResumeKinds DEF Lease!Resume, Lease!Next, Owner
  <2>. QED
    BY <2>1, <2>2, <2>3, <2>4, <2>5, StepKinds
<1>. QED
  BY <1>1, <1>2, Invariant, PTL DEF Spec, KeepsPromise, Lease!Spec, View, Owner
=============================================================================
