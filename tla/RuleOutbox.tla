------------------------------ MODULE RuleOutbox ------------------------------
(***************************************************************************)
(* The command rules that operators save with an approval: rows of         *)
(* approval_side_effects (src/mochi/runtime/approval_side_effects.py), the *)
(* ApprovalSideEffectWorker of each process that delivers them into the    *)
(* config file, and the settings handlers that edit the same file.         *)
(*                                                                         *)
(* The rows are changed by SQLite transactions.  The file is changed by    *)
(* save_config, a compare-and-swap on the SHA-256 of its bytes under a     *)
(* file lock; the bytes are a function of the content, so that the content *)
(* stands for its own revision.                                            *)
(*                                                                         *)
(* The tasks of one process share its event loop: between two awaits a     *)
(* task runs alone in its process, while other processes go on.  A task    *)
(* that is in the middle of such a stretch holds the loop (HoldsLoop).     *)
(***************************************************************************)
EXTENDS Naturals, Sequences

CONSTANTS
  Effects,       \* side effects, numbered in the order of created_at
  Rules,         \* command rules
  RuleOf,        \* the rule in the payload of each effect
  Malformed,     \* effects whose payload does not validate
  Processes,     \* processes; each is one lease owner
  NoProcess,     \* the NULL of lease_owner
  Deliveries,    \* tasks that deliver: the loop, or an operator's pass
  Loops,         \* those of them that are a _approval_side_effect_loop
  ProcessOf,     \* the process of each delivery task
  Editors,       \* processes that serve the settings API to a client
  Settings,      \* settings a client may switch on
  MaxAttempts,   \* attempts after which an error is final (5)
  Rounds,        \* compare-and-swaps tried in one attempt (4)
  LeaseTime,     \* ticks a claim lasts
  RetryTime,     \* ticks of backoff; the code doubles it from 1 to 60 s
  IdLimit,       \* applied ids the config remembers (4096)
  LoopMayDie,    \* may an exception that _deliver does not catch occur?
  MaxClaims,     \* bound on the claims of one effect
  MaxCrashes     \* bound on crashes of processes

ASSUME ConstantsAssumption ==
  /\ Effects \subseteq Nat \ {0}
  /\ RuleOf \in [Effects -> Rules]
  /\ Malformed \subseteq Effects
  /\ NoProcess \notin Processes
  /\ Loops \subseteq Deliveries
  /\ ProcessOf \in [Deliveries -> Processes]
  /\ Editors \subseteq Processes
  /\ Rules \cap Settings = {}
  /\ {MaxAttempts, Rounds, LeaseTime, RetryTime, IdLimit} \subseteq Nat \ {0}
  /\ MaxClaims \in Nat
  /\ MaxCrashes \in Nat
  /\ LoopMayDie \in BOOLEAN

VARIABLES
  status,    \* approval_side_effects.status ("absent": not saved yet)
  attempts,  \* its attempts
  owner,     \* its lease_owner
  lease,     \* time left before its lease_expires_at, 0 for NULL
  file,      \* the content of the config file
  pc,        \* where each delivery task stands
  job,       \* its local variables
  edit,      \* where the settings client of each process stands
  draft,     \* the config its PATCH is about to save, and the change it makes
  cache,     \* app.state.config and app.state.config_revision
  etag,      \* the revision the client sends as If-Match
  applied,   \* ghost: times an effect was saved into the file
  saved,     \* ghost: changes of clients that were saved
  crashes    \* crashes so far

rowVars    == <<status, attempts, owner, lease>>
taskVars   == <<pc, job>>
clientVars == <<edit, draft, cache, etag>>
vars == <<rowVars, file, taskVars, clientVars, applied, saved, crashes>>

-----------------------------------------------------------------------------
\* What the config file says: the rules, the newest ids of applied effects,
\* and everything else.
Config == [rules : SUBSET Rules, ids : Seq(Effects), settings : SUBSET Settings]
Ids(c) == {c.ids[i] : i \in DOMAIN c.ids}
EmptyConfig == [rules |-> {}, ids |-> <<>>, settings |-> {}]

Job(e, n, r, s) == [effect |-> e, attempts |-> n, round |-> r, snap |-> s]
NoJob == Job(0, 0, 0, EmptyConfig)
Jobs  == [effect : Effects \cup {0}, attempts : Nat, round : 0..Rounds,
          snap : Config]

\* A change a client makes: it switches a setting on, or removes a rule.
Changes == Settings \cup Rules
NoDraft == [config |-> EmptyConfig, change |-> {}]
Cached(c, r) == [config |-> c, rev |-> r]

TypeOK ==
  /\ status \in [Effects -> {"absent", "pending", "retrying", "delivered", "failed"}]
  /\ attempts \in [Effects -> Nat]
  /\ owner \in [Effects -> Processes \cup {NoProcess}]
  /\ lease \in [Effects -> Nat]
  /\ file \in Config
  /\ Len(file.ids) <= IdLimit
  /\ pc \in [Deliveries -> {"idle", "claimed", "loaded", "reloading", "applied",
                            "erred", "invalid", "dead"}]
  /\ job \in [Deliveries -> Jobs]
  /\ edit \in [Processes -> {"none", "drafted", "saved"}]
  /\ draft \in [Processes -> [config : Config, change : SUBSET Changes]]
  /\ cache \in [Processes -> [config : Config, rev : Config]]
  /\ etag \in [Processes -> Config]
  /\ applied \in [Effects -> Nat]
  /\ saved \subseteq Changes
  /\ crashes \in Nat

Init ==
  /\ status = [e \in Effects |-> "absent"]
  /\ attempts = [e \in Effects |-> 0]
  /\ owner = [e \in Effects |-> NoProcess]
  /\ lease = [e \in Effects |-> 0]
  /\ file = EmptyConfig
  /\ pc = [d \in Deliveries |-> "idle"]
  /\ job = [d \in Deliveries |-> NoJob]
  /\ edit = [p \in Processes |-> "none"]
  /\ draft = [p \in Processes |-> NoDraft]
  /\ cache = [p \in Processes |-> Cached(EmptyConfig, EmptyConfig)]
  /\ etag = [p \in Processes |-> EmptyConfig]
  /\ applied = [e \in Effects |-> 0]
  /\ saved = {}
  /\ crashes = 0

-----------------------------------------------------------------------------
TasksOf(p) == {d \in Deliveries : ProcessOf[d] = p}

\* A task holds the loop between reading the file and its next await.
HoldsLoop(p) ==
  \/ \E d \in TasksOf(p) : pc[d] \in {"loaded", "reloading"}
  \/ edit[p] = "saved"

GoTo(d, loc) == pc' = [pc EXCEPT ![d] = loc] /\ UNCHANGED job

Finish(d) ==
  /\ pc' = [pc EXCEPT ![d] = "idle"]
  /\ job' = [job EXCEPT ![d] = NoJob]

\* An operator approves and saves the rule: resolve inserts the row.
Enqueue(e) ==
  /\ status[e] = "absent"
  /\ \A f \in Effects : f < e => status[f] # "absent"
  /\ status' = [status EXCEPT ![e] = "pending"]
  /\ UNCHANGED <<attempts, owner, lease, file, taskVars, clientVars, applied,
                 saved, crashes>>

\* Mutant: a row whose claimant died is never claimed again.
Eligible_PendingOnly(e) == status[e] = "pending"

Eligible(e) ==
  \/ status[e] = "pending"
  \/ status[e] = "retrying" /\ lease[e] = 0

\* claim_side_effect: the oldest eligible row.
Claim(d, e) ==
  /\ pc[d] = "idle"
  /\ Eligible(e)
  /\ \A f \in Effects : Eligible(f) => e <= f
  /\ attempts[e] < MaxClaims
  /\ status' = [status EXCEPT ![e] = "retrying"]
  /\ attempts' = [attempts EXCEPT ![e] = @ + 1]
  /\ owner' = [owner EXCEPT ![e] = ProcessOf[d]]
  /\ lease' = [lease EXCEPT ![e] = LeaseTime]
  /\ pc' = [pc EXCEPT ![d] = "claimed"]
  /\ job' = [job EXCEPT ![d] = Job(e, attempts[e] + 1, 0, EmptyConfig)]
  /\ UNCHANGED <<file, clientVars, applied, saved, crashes>>

Running(d) ==
  \/ pc[d] = "reloading"
  \/ pc[d] = "claimed" /\ ~HoldsLoop(ProcessOf[d])

\* The payload does not validate: no retry will help.
Reject(d) ==
  /\ Running(d)
  /\ job[d].effect \in Malformed
  /\ GoTo(d, "invalid")
  /\ UNCHANGED <<rowVars, file, clientVars, applied, saved, crashes>>

\* Mutant: the rule is looked for instead of the id.
Known_ByRule(d) == RuleOf[job[d].effect] \in file.rules

Known(d) == job[d].effect \in Ids(file)

\* load_config_snapshot, and the check that an earlier attempt applied it.
Load(d) ==
  /\ Running(d)
  /\ job[d].effect \notin Malformed
  /\ IF Known(d)
       THEN GoTo(d, "applied")
       ELSE /\ pc' = [pc EXCEPT ![d] = "loaded"]
            /\ job' = [job EXCEPT ![d].snap = file]
  /\ UNCHANGED <<rowVars, file, clientVars, applied, saved, crashes>>

\* An OSError while reading or writing the file; save_config has put back the
\* bytes it found.
LoadOrSaveFails(d) ==
  /\ \/ Running(d) /\ job[d].effect \notin Malformed
     \/ pc[d] = "loaded"
  /\ GoTo(d, "erred")
  /\ UNCHANGED <<rowVars, file, clientVars, applied, saved, crashes>>

\* The rule is appended unless it is there, the id always; only the newest ids
\* are kept.
WithEffect(c, e) ==
  LET ids == Append(c.ids, e) IN
  [c EXCEPT !.rules = @ \cup {RuleOf[e]},
            !.ids = IF Len(ids) > IdLimit THEN Tail(ids) ELSE ids]

\* Mutant: save_config compares no revision.
Unchanged_Any(c) == c = c

Unchanged(c) == file = c

Save(d) ==
  /\ pc[d] = "loaded"
  /\ Unchanged(job[d].snap)
  /\ file' = WithEffect(job[d].snap, job[d].effect)
  /\ applied' = [applied EXCEPT ![job[d].effect] = @ + 1]
  /\ GoTo(d, "applied")
  /\ UNCHANGED <<rowVars, clientVars, saved, crashes>>

\* Mutant: one round more than the code tries.
SaveConflicts_OneMore(d) ==
  /\ pc[d] = "loaded"
  /\ ~Unchanged(job[d].snap)
  /\ pc' = [pc EXCEPT ![d] = IF job[d].round < Rounds THEN "reloading" ELSE "erred"]
  /\ job' = [job EXCEPT ![d].round = @ + 1]
  /\ UNCHANGED <<rowVars, file, clientVars, applied, saved, crashes>>

\* ConfigRevisionConflict: load again at once, or give this attempt up.
SaveConflicts(d) ==
  /\ pc[d] = "loaded"
  /\ ~Unchanged(job[d].snap)
  /\ pc' = [pc EXCEPT ![d] = IF job[d].round + 1 < Rounds THEN "reloading" ELSE "erred"]
  /\ job' = [job EXCEPT ![d].round = @ + 1]
  /\ UNCHANGED <<rowVars, file, clientVars, applied, saved, crashes>>

\* Mutant: the UPDATE asks for the side_effect_id alone.
Owned_Any(d) == job[d].effect \in Effects /\ status[job[d].effect] # "absent"

\* _transition: WHERE status='retrying' AND lease_owner=?
Owned(d) ==
  /\ status[job[d].effect] = "retrying"
  /\ owner[job[d].effect] = ProcessOf[d]

Transition(d, s, delay) ==
  LET e == job[d].effect IN
  IF Owned(d)
    THEN /\ status' = [status EXCEPT ![e] = s]
         /\ owner' = [owner EXCEPT ![e] = NoProcess]
         /\ lease' = [lease EXCEPT ![e] = delay]
         /\ UNCHANGED attempts
    ELSE UNCHANGED rowVars

MarkDelivered(d) ==
  /\ pc[d] = "applied"
  /\ Transition(d, "delivered", 0)
  /\ Finish(d)
  /\ UNCHANGED <<file, clientVars, applied, saved, crashes>>

MarkFailed(d) ==
  /\ \/ pc[d] = "invalid"
     \/ pc[d] = "erred" /\ job[d].attempts >= MaxAttempts
  /\ Transition(d, "failed", 0)
  /\ Finish(d)
  /\ UNCHANGED <<file, clientVars, applied, saved, crashes>>

MarkRetry(d) ==
  /\ pc[d] = "erred"
  /\ job[d].attempts < MaxAttempts
  /\ Transition(d, "retrying", RetryTime)
  /\ Finish(d)
  /\ UNCHANGED <<file, clientVars, applied, saved, crashes>>

\* A SecretStoreError of load or save, or a sqlite3.Error of a transition:
\* _deliver catches neither, and the loop's task ends with it.
Die(d) ==
  /\ LoopMayDie
  /\ pc[d] \notin {"idle", "dead"}
  /\ pc' = [pc EXCEPT ![d] = "dead"]
  /\ job' = [job EXCEPT ![d] = NoJob]
  /\ UNCHANGED <<rowVars, file, clientVars, applied, saved, crashes>>

-----------------------------------------------------------------------------
\* _get_config: another revision on disk is loaded first.
Refreshed(p) ==
  IF cache[p].rev = file THEN cache[p] ELSE Cached(file, file)

\* GET /settings gives the client the revision to send back.
GetSettings(p) ==
  /\ p \in Editors
  /\ edit[p] = "none"
  /\ ~HoldsLoop(p)
  /\ cache' = [cache EXCEPT ![p] = Refreshed(p)]
  /\ etag' = [etag EXCEPT ![p] = Refreshed(p).rev]
  /\ UNCHANGED <<rowVars, file, taskVars, edit, draft, applied, saved, crashes>>

Changed(c, x) ==
  IF x \in Settings THEN [c EXCEPT !.settings = @ \cup {x}]
                    ELSE [c EXCEPT !.rules = @ \ {x}]

\* PATCH /settings up to its first await: the change is made to the config of
\* the application.  A client changes what it sees, and each thing once.
PatchSettings(p, x) ==
  LET seen == Refreshed(p).config IN
  /\ p \in Editors
  /\ edit[p] = "none"
  /\ ~HoldsLoop(p)
  /\ x \notin saved
  /\ x \in Settings \/ x \in seen.rules
  /\ cache' = [cache EXCEPT ![p] = Refreshed(p)]
  /\ draft' = [draft EXCEPT ![p] = [config |-> Changed(seen, x), change |-> {x}]]
  /\ edit' = [edit EXCEPT ![p] = "drafted"]
  /\ UNCHANGED <<rowVars, file, taskVars, etag, applied, saved, crashes>>

\* Its save, against If-Match.
SaveSettings(p) ==
  /\ edit[p] = "drafted"
  /\ ~HoldsLoop(p)
  /\ Unchanged(etag[p])
  /\ file' = draft[p].config
  /\ saved' = saved \cup draft[p].change
  /\ edit' = [edit EXCEPT ![p] = "saved"]
  /\ UNCHANGED <<rowVars, taskVars, draft, cache, etag, applied, crashes>>

\* ConfigRevisionConflict, or an error of the file or of the secret store.
SettingsRefused(p) ==
  /\ edit[p] = "drafted"
  /\ ~HoldsLoop(p)
  /\ edit' = [edit EXCEPT ![p] = "none"]
  /\ draft' = [draft EXCEPT ![p] = NoDraft]
  /\ UNCHANGED <<rowVars, file, taskVars, cache, etag, applied, saved, crashes>>

\* After the save the handler reads the revision of the file again, and keeps
\* it with the config it has just saved.
KeepSettings(p) ==
  /\ edit[p] = "saved"
  /\ cache' = [cache EXCEPT ![p] = Cached(draft[p].config, file)]
  /\ etag' = [etag EXCEPT ![p] = file]
  /\ edit' = [edit EXCEPT ![p] = "none"]
  /\ draft' = [draft EXCEPT ![p] = NoDraft]
  /\ UNCHANGED <<rowVars, file, taskVars, applied, saved, crashes>>

-----------------------------------------------------------------------------
\* A process dies and starts again.
Restart(p) ==
  /\ crashes < MaxCrashes
  /\ crashes' = crashes + 1
  /\ pc' = [d \in Deliveries |-> IF d \in TasksOf(p) THEN "idle" ELSE pc[d]]
  /\ job' = [d \in Deliveries |-> IF d \in TasksOf(p) THEN NoJob ELSE job[d]]
  /\ edit' = [edit EXCEPT ![p] = "none"]
  /\ draft' = [draft EXCEPT ![p] = NoDraft]
  /\ cache' = [cache EXCEPT ![p] = Cached(file, file)]
  /\ UNCHANGED <<rowVars, file, etag, applied, saved>>

Tick ==
  /\ \E e \in Effects : lease[e] > 0
  /\ lease' = [e \in Effects |-> IF lease[e] = 0 THEN 0 ELSE lease[e] - 1]
  /\ UNCHANGED <<status, attempts, owner, file, taskVars, clientVars, applied,
                 saved, crashes>>

ClaimNext(d) == \E e \in Effects : Claim(d, e)

\* _deliver.
Deliver(d) ==
  \/ Reject(d)
  \/ Load(d)
  \/ LoadOrSaveFails(d)
  \/ Save(d)
  \/ SaveConflicts(d)
  \/ MarkDelivered(d)
  \/ MarkFailed(d)
  \/ MarkRetry(d)
  \/ Die(d)

ClientStep(p) ==
  \/ GetSettings(p)
  \/ \E x \in Changes : PatchSettings(p, x)
  \/ SaveSettings(p)
  \/ SettingsRefused(p)
  \/ KeepSettings(p)

Next ==
  \/ \E e \in Effects : Enqueue(e)
  \/ \E d \in Deliveries : ClaimNext(d) \/ Deliver(d)
  \/ \E p \in Processes : ClientStep(p) \/ Restart(p)
  \/ Tick

Spec == Init /\ [][Next]_vars

\* The loop polls for ever (nobody has to make an operator's pass), a delivery
\* that has claimed a row goes on, and time passes.
Fairness ==
  /\ WF_vars(Tick)
  /\ \A d \in Loops : WF_vars(ClaimNext(d))
  /\ \A d \in Deliveries : WF_vars(Deliver(d))
  /\ \A p \in Processes : WF_vars(KeepSettings(p))

FairSpec == Spec /\ Fairness

-----------------------------------------------------------------------------
\* However often an effect is claimed, and by whom, it is saved into the config
\* at most once (the ids that _deliver looks for).
AppliedOnce == \A e \in Effects : applied[e] <= 1

\* A rule reported as delivered is in the config unless an operator removed it,
\* and a setting that was saved is still there: no writer of the file undoes
\* what another one wrote.
NoLostUpdate ==
  /\ \A e \in Effects :
       status[e] = "delivered" => RuleOf[e] \in file.rules \cup saved
  /\ saved \cap Settings \subseteq file.settings

\* A rule that an operator removed is not brought back by a retry of the
\* delivery that added it.
RemovedStaysRemoved == saved \cap Rules \cap file.rules = {}

\* A settled row is settled: a slow deliverer whose lease was taken over
\* changes nothing.
SettledIsFinal ==
  [][\A e \in Effects :
       status[e] \in {"delivered", "failed"} => status'[e] = status[e]]_vars

\* Every saved rule is delivered, or fails for good: _deliver must "transition
\* malformed durable payloads to a terminal failure instead of crashing its
\* loop".
EffectSettles ==
  \A e \in Effects :
    status[e] = "pending" ~> status[e] \in {"delivered", "failed"}

\* The abstract promise, read off the rows and the file.
PhaseOf(s) == IF s \in {"pending", "retrying"} THEN "queued" ELSE s

Promise == INSTANCE ExactlyOnceOutbox WITH
  phase    <- [e \in Effects |-> PhaseOf(status[e])],
  rules    <- file.rules,
  settings <- file.settings

\* However many tasks deliver and edit, and whenever they stop, the config
\* changes as if each delivery and each client had made its one change to it
\* alone, and each rule is applied at most once: ExactlyOnceOutbox.
KeepsPromise == Promise!Spec

=============================================================================
