------------------------------- MODULE ChangeSet -------------------------------
(***************************************************************************)
(* The file changes one task asks consent for, in the mode "enforce": the  *)
(* change sets of ChangeSetStore (src/mochi/runtime/change_sets.py), the   *)
(* task-linked approvals of RuntimeStore (runtime_approval_lifecycle.py),  *)
(* RuntimeService.resolve_approval that revalidates, claims, applies and   *)
(* records a change set (service.py, tools/file_ops.py), the preview that  *)
(* replaces it by an edited patch (api/routes/workspace.py), and the undo  *)
(* of an applied one (api/routes/file_ops.py, tools/file_transaction.py).  *)
(*                                                                         *)
(* A handler is one request.  A database transaction is one action, and so *)
(* is the change of one file; a check that only reads is one action, too,  *)
(* whatever it reads.  Time is abstract.  The identity of a file is its    *)
(* inode, and a new one is never one seen before.                          *)
(***************************************************************************)
EXTENDS Naturals

CONSTANTS
  Files,         \* paths in the workspace
  Patches,       \* patches that agents and users write
  NoPatch,       \* the patch of a content no patch has written
  Kind,          \* what each patch does to each file
  Present,       \* files that exist at first
  Manifests,     \* change set ids
  First,         \* the change set the task has prepared,
  FirstPatch,    \* of this patch,
  Approvals,     \* approval ids
  Asked,         \* and the approval it waits for
  Handlers,      \* requests
  NoHandler,     \* the holder of no lease
  MayCrash,      \* may a process die?
  MayFail,       \* may changing a file raise?
  MayElapse,     \* may leases, approvals and retentions elapse?
  MaxCalls,      \* bound: requests
  MaxEdits       \* bound: changes of files by others

ASSUME ConstantsAssumption ==
  /\ NoPatch \notin Patches
  /\ Kind \in [Patches -> [Files -> {"none", "add", "update", "delete"}]]
  /\ Present \subseteq Files
  /\ First \in Manifests
  /\ FirstPatch \in Patches
  /\ Asked \in Approvals
  /\ NoHandler \notin Handlers
  /\ MayCrash \in BOOLEAN
  /\ MayFail \in BOOLEAN
  /\ MayElapse \in BOOLEAN
  /\ MaxCalls \in Nat
  /\ MaxEdits \in Nat

VARIABLES
  file,       \* content and inode of each path
  inodes,     \* the last inode given
  status,     \* change_sets.status, "none" for no row
  patchOf,    \* the patch of a change set
  base,       \* the files it was prepared from
  record,     \* applied_change_entries
  retention,  \* undo_retention.status of each entry
  elapsed,    \* is the change set's, and so its approvals', expires_at past?
  aged,       \* is retained_until past?
  approval,   \* approval_requests.status, "none" for no row
  of,         \* the change set in its metadata
  holder,     \* whose consume_lease_token it has
  live,       \* is that lease still running?
  task,       \* task_runs.status
  pc,         \* where each handler stands
  app,        \* the approval it was called with
  set,        \* the change set it works on
  chosen,     \* the entries it applies or undoes
  todo,       \* those it has not changed, or put back, yet
  plan,       \* the contents it will write
  ok,         \* has nothing failed so far?
  runs,       \* ghost: how often the tool was run for an approval
  since,      \* ghost: files others have changed since it claimed or asked
  calls,      \* requests made so far
  edits       \* changes by others so far

diskVars     == <<file, inodes, edits>>
setVars      == <<status, patchOf, base, record, retention, elapsed, aged>>
approvalVars == <<approval, of, holder, live>>
localVars    == <<app, set, chosen, todo, plan, ok>>
vars == <<diskVars, setVars, approvalVars, task, pc, localVars, runs, since, calls>>

-----------------------------------------------------------------------------
(* Files and patches. *)

Contents == [by : Patches \cup {NoPatch}, on : {"absent", "old", "edited", "torn"}]
Absent   == [by |-> NoPatch, on |-> "absent"]
Gone     == [content |-> Absent, inode |-> 0]
FileStates == {x \in [content : Contents, inode : Nat] :
                 x.content = Absent <=> x.inode = 0}

Touched(p) == {f \in Files : Kind[p][f] # "none"}

\* What a patch makes of a content, and whether it may be applied to it.
After(p, f, c) ==
  CASE Kind[p][f] = "add"    -> [by |-> p, on |-> "absent"]
    [] Kind[p][f] = "update" -> [by |-> p, on |-> c.on]
    [] OTHER                 -> Absent
Applies(p, f, c) ==
  IF Kind[p][f] = "add" THEN c = Absent
  ELSE c # Absent /\ (Kind[p][f] = "update" => c.by = NoPatch)

\* prepare_apply_patch succeeds; hunks may not match a content somebody edited.
MayPrepare(p)  == \A f \in Touched(p) : Applies(p, f, file[f].content)
MayRefuse(p)   == \E f \in Touched(p) :
                    \/ ~Applies(p, f, file[f].content)
                    \/ file[f].content.on \in {"edited", "torn"}
Snapshot(p)    == [f \in Files |-> IF f \in Touched(p) THEN file[f] ELSE Gone]

Statuses  == {"none", "prepared", "applied", "conflicted"}
Decisions == {"none", "pending", "approved_once", "consuming", "consumed",
              "execution_failed", "rejected", "superseded", "expired"}
Claiming == {"reload", "reinspect", "plan", "write"}
Undoing  == {"check", "undo", "rollback", "observe", "consume", "refuse"}
Places   == Claiming \cup Undoing \cup
            {"idle", "inspect", "spoil", "resolve", "claim", "attach", "mark",
             "conclude", "finish", "complete", "dismiss", "cancel", "replace"}

TypeOK ==
  /\ file \in [Files -> FileStates]
  /\ inodes \in Nat
  /\ status \in [Manifests -> Statuses]
  /\ patchOf \in [Manifests -> Patches]
  /\ base \in [Manifests -> [Files -> FileStates]]
  /\ record \in [Manifests -> [Files -> FileStates]]
  /\ retention \in [Manifests -> [Files -> {"none", "retained", "expired", "undone"}]]
  /\ elapsed \in [Manifests -> BOOLEAN]
  /\ aged \in [Manifests -> BOOLEAN]
  /\ approval \in [Approvals -> Decisions]
  /\ of \in [Approvals -> Manifests]
  /\ holder \in [Approvals -> Handlers \cup {NoHandler}]
  /\ live \in [Approvals -> BOOLEAN]
  /\ task \in {"awaiting_approval", "succeeded", "failed", "cancelled"}
  /\ pc \in [Handlers -> Places]
  /\ app \in [Handlers -> Approvals]
  /\ set \in [Handlers -> Manifests]
  /\ chosen \in [Handlers -> SUBSET Files]
  /\ todo \in [Handlers -> SUBSET Files]
  /\ plan \in [Handlers -> [Files -> Contents]]
  /\ ok \in [Handlers -> BOOLEAN]
  /\ runs \in [Approvals -> Nat]
  /\ since \in [Handlers -> SUBSET Files]
  /\ calls \in 0..MaxCalls
  /\ edits \in 0..MaxEdits

\* A task has called apply_patch and waits for consent.
Init ==
  /\ file = [f \in Files |-> IF f \in Present
                             THEN [content |-> [by |-> NoPatch, on |-> "old"], inode |-> 1]
                             ELSE Gone]
  /\ inodes = 1
  /\ MayPrepare(FirstPatch)
  /\ status = [m \in Manifests |-> IF m = First THEN "prepared" ELSE "none"]
  /\ patchOf = [m \in Manifests |-> FirstPatch]
  /\ base = [m \in Manifests |-> Snapshot(FirstPatch)]
  /\ record = [m \in Manifests |-> [f \in Files |-> Gone]]
  /\ retention = [m \in Manifests |-> [f \in Files |-> "none"]]
  /\ elapsed = [m \in Manifests |-> FALSE]
  /\ aged = [m \in Manifests |-> FALSE]
  /\ approval = [a \in Approvals |-> IF a = Asked THEN "pending" ELSE "none"]
  /\ of = [a \in Approvals |-> First]
  /\ holder = [a \in Approvals |-> NoHandler]
  /\ live = [a \in Approvals |-> FALSE]
  /\ task = "awaiting_approval"
  /\ pc = [h \in Handlers |-> "idle"]
  /\ app = [h \in Handlers |-> Asked]
  /\ set = [h \in Handlers |-> First]
  /\ chosen = [h \in Handlers |-> {}]
  /\ todo = [h \in Handlers |-> {}]
  /\ plan = [h \in Handlers |-> [f \in Files |-> Absent]]
  /\ ok = [h \in Handlers |-> TRUE]
  /\ runs = [a \in Approvals |-> 0]
  /\ since = [h \in Handlers |-> {}]
  /\ calls = 0
  /\ edits = 0

-----------------------------------------------------------------------------
(* Handlers. *)

Begin(h) == pc[h] = "idle" /\ calls < MaxCalls /\ calls' = calls + 1
Goto(h, place) == pc' = [pc EXCEPT ![h] = place] /\ UNCHANGED <<calls, localVars>>

\* The handler answers or raises; its locals are gone.
Exit(h) ==
  /\ pc' = [pc EXCEPT ![h] = "idle"]
  /\ app' = [app EXCEPT ![h] = Asked]
  /\ set' = [set EXCEPT ![h] = First]
  /\ chosen' = [chosen EXCEPT ![h] = {}]
  /\ todo' = [todo EXCEPT ![h] = {}]
  /\ plan' = [plan EXCEPT ![h] = [f \in Files |-> Absent]]
  /\ ok' = [ok EXCEPT ![h] = TRUE]
  /\ UNCHANGED calls
Leave(h) == Exit(h) /\ since' = [since EXCEPT ![h] = {}]

\* The path f becomes x, by the handler or somebody (NoHandler).
Noticed(h, f) ==
  [k \in Handlers |-> IF k # h /\ pc[k] \in Claiming \cup Undoing
                      THEN since[k] \cup {f} ELSE since[k]]
SetFile(h, f, x) ==
  /\ file' = [file EXCEPT ![f] = x]
  /\ since' = Noticed(h, f)
FreshInode == inodes' = inodes + 1

\* A writer opens the path and replaces what it holds, or creates it.
Opened(f, c) == IF file[f] = Gone THEN [content |-> c, inode |-> inodes + 1]
                ELSE [file[f] EXCEPT !.content = c]
MayCreate(f) == inodes' = IF file[f] = Gone THEN inodes + 1 ELSE inodes

-----------------------------------------------------------------------------
(* Approving: resolve_approval.  First the change set is revalidated ... *)

Current(m) == status[m] = "prepared" /\ ~elapsed[m]

Approve(h, a) ==
  /\ Begin(h)
  /\ approval[a] # "none"
  /\ app' = [app EXCEPT ![h] = a]
  /\ set' = [set EXCEPT ![h] = of[a]]
  /\ pc' = [pc EXCEPT ![h] = IF Current(of[a]) THEN "inspect" ELSE "spoil"]
  /\ UNCHANGED <<diskVars, setVars, approvalVars, task, chosen, todo, plan, ok,
                 runs, since>>

\* Each file is the one the manifest was prepared from.
AsPrepared(m) == \A f \in Touched(patchOf[m]) : file[f] = base[m][f]

Inspect(h) ==
  /\ pc[h] = "inspect"
  /\ Goto(h, IF AsPrepared(set[h]) THEN "resolve" ELSE "spoil")
  /\ UNCHANGED <<diskVars, setVars, approvalVars, task, runs, since>>

\* ... and a change set that fails is conflicted, whatever it was.
Spoil(h) ==
  /\ pc[h] = "spoil"
  /\ status' = [status EXCEPT ![set[h]] = "conflicted"]
  /\ Leave(h)
  /\ UNCHANGED <<diskVars, patchOf, base, record, retention, elapsed, aged,
                 approvalVars, task, runs>>

\* resolve_approval_request, for both decisions.
Resolved(a, decision) ==
  approval' = [approval EXCEPT ![a] =
                 IF elapsed[of[a]]
                 THEN IF @ \in {"pending", "approved_once"} THEN "expired" ELSE @
                 ELSE IF @ = "pending" THEN decision ELSE @]
Resolves(a) == approval[a] = "pending" /\ ~elapsed[of[a]]

Resolve(h) ==
  /\ pc[h] = "resolve"
  /\ Resolved(app[h], "approved_once")
  /\ IF Resolves(app[h]) THEN Goto(h, "claim") /\ UNCHANGED since ELSE Leave(h)
  /\ UNCHANGED <<diskVars, setVars, of, holder, live, task, runs>>

\* consume_approval_request
Claim(h) ==
  LET a == app[h] IN
  /\ pc[h] = "claim"
  /\ IF approval[a] = "approved_once" /\ ~elapsed[of[a]]
     THEN /\ approval' = [approval EXCEPT ![a] = "consuming"]
          /\ holder' = [holder EXCEPT ![a] = h]
          /\ live' = [live EXCEPT ![a] = TRUE]
          /\ Goto(h, "reload") /\ UNCHANGED since
     ELSE /\ approval' = [approval EXCEPT ![a] =
                            IF elapsed[of[a]] /\ @ = "approved_once" THEN "expired" ELSE @]
          /\ Leave(h)
          /\ UNCHANGED <<holder, live>>
  /\ UNCHANGED <<diskVars, setVars, of, task, runs>>

-----------------------------------------------------------------------------
(* ... then it is revalidated again, applied and recorded.  A conflict found
   here leaves the approval consuming. *)

\* Mutant: the second revalidation is left out.
Reload_Skip(h) ==
  /\ pc[h] = "reload"
  /\ Goto(h, "plan")
  /\ UNCHANGED <<diskVars, setVars, approvalVars, task, runs, since>>
Reload(h) ==
  /\ pc[h] = "reload"
  /\ Goto(h, IF Current(set[h]) THEN "reinspect" ELSE "spoil")
  /\ UNCHANGED <<diskVars, setVars, approvalVars, task, runs, since>>

Reinspect(h) ==
  /\ pc[h] = "reinspect"
  /\ Goto(h, IF AsPrepared(set[h]) THEN "plan" ELSE "spoil")
  /\ UNCHANGED <<diskVars, setVars, approvalVars, task, runs, since>>

\* ApplyPatchTool.execute prepares the patch again from the files as they are ...
Plan(h) ==
  LET p == patchOf[set[h]] IN
  /\ pc[h] = "plan"
  /\ runs' = [runs EXCEPT ![app[h]] = @ + 1]
  /\ \/ /\ MayPrepare(p)
        /\ pc' = [pc EXCEPT ![h] = IF Touched(p) = {} THEN "attach" ELSE "write"]
        /\ chosen' = [chosen EXCEPT ![h] = Touched(p)]
        /\ todo' = [todo EXCEPT ![h] = Touched(p)]
        /\ plan' = [plan EXCEPT ![h] = [f \in Files |-> After(p, f, file[f].content)]]
        /\ UNCHANGED ok
     \/ /\ MayRefuse(p)
        /\ pc' = [pc EXCEPT ![h] = "mark"]
        /\ ok' = [ok EXCEPT ![h] = FALSE]
        /\ UNCHANGED <<chosen, todo, plan>>
  /\ UNCHANGED <<diskVars, setVars, approvalVars, task, app, set, since, calls>>

\* ... and changes one file after the other, in place.
Write(h, f) ==
  /\ pc[h] = "write"
  /\ f \in todo[h]
  /\ IF plan[h][f] = Absent
     THEN SetFile(h, f, Gone) /\ UNCHANGED inodes
     ELSE SetFile(h, f, Opened(f, plan[h][f])) /\ MayCreate(f)
  /\ todo' = [todo EXCEPT ![h] = @ \ {f}]
  /\ pc' = [pc EXCEPT ![h] = IF todo[h] = {f} THEN "attach" ELSE @]
  /\ UNCHANGED <<setVars, approvalVars, task, app, set, chosen, plan, ok, runs,
                 calls, edits>>

\* The exception is not caught: the approval stays consuming, the files as they are.
Torn(f) == [file[f].content EXCEPT !.on = "torn"]
WriteFails(h, f) ==
  /\ MayFail
  /\ pc[h] = "write"
  /\ f \in todo[h]
  /\ \/ Leave(h) /\ UNCHANGED <<file, inodes>>
     \/ /\ plan[h][f] # Absent
        /\ file' = [file EXCEPT ![f] = Opened(f, Torn(f))]
        /\ MayCreate(f)
        /\ Exit(h)
        /\ since' = [Noticed(h, f) EXCEPT ![h] = {}]
  /\ UNCHANGED <<edits, setVars, approvalVars, task, runs>>

AsPlanned(m) ==
  LET p == patchOf[m] IN
  \A f \in Touched(p) : file[f].content = After(p, f, base[m][f].content)
MayRetain(m) ==
  /\ status[m] \in {"prepared", "applied"}
  /\ \A f \in Touched(patchOf[m]) : retention[m][f] \in {"none", "retained"}

\* _attach_file_mutation_undo_contract and activate_undo_retention
Attach(h) ==
  LET m == set[h]
      good == AsPlanned(m) /\ MayRetain(m) IN
  /\ pc[h] = "attach"
  /\ record' = IF good THEN [record EXCEPT ![m] = Snapshot(patchOf[m])] ELSE record
  /\ retention' = IF good
                  THEN [retention EXCEPT ![m] = [f \in Files |->
                          IF f \in Touched(patchOf[m]) THEN "retained" ELSE @[f]]]
                  ELSE retention
  /\ ok' = [ok EXCEPT ![h] = good]
  /\ pc' = [pc EXCEPT ![h] = "mark"]
  /\ UNCHANGED <<diskVars, status, patchOf, base, elapsed, aged, approvalVars, task,
                 app, set, chosen, todo, plan, runs, since, calls>>

\* mark_change_set_status, whatever the status has become
Mark(h) ==
  /\ pc[h] = "mark"
  /\ status' = [status EXCEPT ![set[h]] = IF ok[h] THEN "applied" ELSE "conflicted"]
  /\ Goto(h, "conclude")
  /\ UNCHANGED <<diskVars, patchOf, base, record, retention, elapsed, aged,
                 approvalVars, task, runs, since>>

Conclude(h) ==
  /\ pc[h] = "conclude"
  /\ task' = IF ok[h] THEN "succeeded" ELSE "failed"
  /\ Goto(h, "finish")
  /\ UNCHANGED <<diskVars, setVars, approvalVars, runs, since>>

\* _complete_runtime_approval_claim reads the task ...
Finish(h) ==
  /\ pc[h] = "finish"
  /\ ok' = [ok EXCEPT ![h] = task \notin {"failed", "cancelled"}]
  /\ pc' = [pc EXCEPT ![h] = "complete"]
  /\ UNCHANGED <<diskVars, setVars, approvalVars, task, app, set, chosen, todo, plan,
                 runs, since, calls>>

\* ... and completes the consumption, if it is still its own.
Complete(h) ==
  LET a == app[h]
      mine == approval[a] = "consuming" /\ holder[a] = h IN
  /\ pc[h] = "complete"
  /\ approval' = IF mine
                 THEN [approval EXCEPT ![a] =
                         IF ok[h] THEN "consumed" ELSE "execution_failed"]
                 ELSE approval
  /\ holder' = IF mine THEN [holder EXCEPT ![a] = NoHandler] ELSE holder
  /\ live' = IF mine THEN [live EXCEPT ![a] = FALSE] ELSE live
  /\ Leave(h)
  /\ UNCHANGED <<diskVars, setVars, of, task, runs>>

-----------------------------------------------------------------------------
(* Refusing, cancelling, previewing an edited patch. *)

Reject(h, a) ==
  /\ Begin(h)
  /\ approval[a] # "none"
  /\ Resolved(a, "rejected")
  /\ IF Resolves(a)
     THEN /\ pc' = [pc EXCEPT ![h] = "dismiss"]
          /\ app' = [app EXCEPT ![h] = a]
     ELSE UNCHANGED <<pc, app>>
  /\ UNCHANGED <<diskVars, setVars, of, holder, live, task, set, chosen, todo, plan,
                 ok, runs, since>>

\* cancel_task looks at the task and writes later; the approval stays as it is.
CancelTask(h) ==
  /\ Begin(h)
  /\ task = "awaiting_approval"
  /\ pc' = [pc EXCEPT ![h] = "cancel"]
  /\ UNCHANGED <<diskVars, setVars, approvalVars, task, localVars, runs, since>>

Dismiss(h) ==
  /\ pc[h] \in {"dismiss", "cancel"}
  /\ task' = "cancelled"
  /\ Leave(h)
  /\ UNCHANGED <<diskVars, setVars, approvalVars, runs>>

\* persist_manifest returns the change set of the same request, if there is one,
\* whatever became of it.
Persisted(p, m) ==
  IF \E k \in Manifests :
       status[k] # "none" /\ patchOf[k] = p /\ base[k] = Snapshot(p)
  THEN /\ status[m] # "none" /\ patchOf[m] = p /\ base[m] = Snapshot(p)
       /\ UNCHANGED <<status, patchOf, base>>
  ELSE /\ status[m] = "none"
       /\ status' = [status EXCEPT ![m] = "prepared"]
       /\ patchOf' = [patchOf EXCEPT ![m] = p]
       /\ base' = [base EXCEPT ![m] = Snapshot(p)]

Preview(h, a, p, m) ==
  /\ Begin(h)
  /\ approval[a] # "none"
  /\ p # patchOf[of[a]]
  /\ MayPrepare(p)
  /\ Persisted(p, m)
  /\ IF approval[a] = "superseded"
     THEN UNCHANGED <<pc, app, set>>
     ELSE /\ pc' = [pc EXCEPT ![h] = "replace"]
          /\ app' = [app EXCEPT ![h] = a]
          /\ set' = [set EXCEPT ![h] = m]
  /\ UNCHANGED <<diskVars, record, retention, elapsed, aged, approvalVars, task,
                 chosen, todo, plan, ok, runs, since>>

\* Mutant: the old approval is not superseded.
Superseded_Not(a) == approval
Superseded(a) == [approval EXCEPT ![a] = "superseded"]

\* supersede_and_create_approval_request
Replace(h, new) ==
  LET a == app[h] IN
  /\ pc[h] = "replace"
  /\ IF Resolves(a)
     THEN /\ approval[new] = "none"
          /\ approval' = [Superseded(a) EXCEPT ![new] = "pending"]
          /\ of' = [of EXCEPT ![new] = set[h]]
     ELSE UNCHANGED <<approval, of>>
  /\ Leave(h)
  /\ UNCHANGED <<diskVars, setVars, holder, live, task, runs>>

-----------------------------------------------------------------------------
(* Undo. *)

\* get_undo_material; a retention that is over is written so.
AskUndo(h, m, selected) ==
  /\ Begin(h)
  /\ status[m] = "applied"
  /\ selected # {}
  /\ \A f \in selected : f \in Touched(patchOf[m]) /\ retention[m][f] = "retained"
  /\ IF aged[m]
     THEN /\ retention' = [retention EXCEPT ![m] = [f \in Files |->
                             IF f \in selected THEN "expired" ELSE @[f]]]
          /\ UNCHANGED <<pc, set, chosen, todo>>
     ELSE /\ pc' = [pc EXCEPT ![h] = "check"]
          /\ set' = [set EXCEPT ![h] = m]
          /\ chosen' = [chosen EXCEPT ![h] = selected]
          /\ todo' = [todo EXCEPT ![h] = selected]
          /\ UNCHANGED retention
  /\ UNCHANGED <<diskVars, status, patchOf, base, record, elapsed, aged, approvalVars,
                 task, app, plan, ok, runs, since>>

AsRecorded(m, f) == file[f] = record[m][f]

\* execute_authoritative_undo validates every target ...
CheckUndo(h) ==
  /\ pc[h] = "check"
  /\ IF \A f \in chosen[h] : AsRecorded(set[h], f)
     THEN Goto(h, "undo") /\ UNCHANGED since
     ELSE Leave(h)
  /\ UNCHANGED <<diskVars, setVars, approvalVars, task, runs>>

\* Mutant: an added file is rewritten, too, with the nothing that it was.
Undo_Rewrite(h, f) ==
  LET m == set[h] IN
  /\ pc[h] = "undo"
  /\ f \in todo[h]
  /\ SetFile(h, f, [content |-> base[m][f].content, inode |-> inodes + 1])
  /\ FreshInode
  /\ todo' = [todo EXCEPT ![h] = @ \ {f}]
  /\ pc' = [pc EXCEPT ![h] = IF todo[h] = {f} THEN "observe" ELSE @]
  /\ UNCHANGED <<setVars, approvalVars, task, app, set, chosen, plan, ok, runs,
                 calls, edits>>
\* ... removes or replaces one after the other ...
Undo(h, f) ==
  LET m == set[h] IN
  /\ pc[h] = "undo"
  /\ f \in todo[h]
  /\ IF Kind[patchOf[m]][f] = "add"
     THEN /\ file[f] # Gone
          /\ SetFile(h, f, Gone)
          /\ UNCHANGED inodes
     ELSE /\ SetFile(h, f, [content |-> base[m][f].content, inode |-> inodes + 1])
          /\ FreshInode
  /\ todo' = [todo EXCEPT ![h] = @ \ {f}]
  /\ pc' = [pc EXCEPT ![h] = IF todo[h] = {f} THEN "observe" ELSE @]
  /\ UNCHANGED <<setVars, approvalVars, task, app, set, chosen, plan, ok, runs,
                 calls, edits>>

\* Mutant: the files already changed are left as they are.
UndoFails_Keep(h, f) ==
  /\ pc[h] = "undo"
  /\ f \in todo[h]
  /\ MayFail \/ (Kind[patchOf[set[h]]][f] = "add" /\ file[f] = Gone)
  /\ Goto(h, "refuse")
  /\ UNCHANGED <<diskVars, setVars, approvalVars, task, runs, since>>
\* ... and puts back what it has changed if one of them raises.
UndoFails(h, f) ==
  /\ pc[h] = "undo"
  /\ f \in todo[h]
  /\ MayFail \/ (Kind[patchOf[set[h]]][f] = "add" /\ file[f] = Gone)
  /\ todo' = [todo EXCEPT ![h] = chosen[h] \ @]
  /\ pc' = [pc EXCEPT ![h] = IF chosen[h] = todo[h] THEN "refuse" ELSE "rollback"]
  /\ UNCHANGED <<diskVars, setVars, approvalVars, task, app, set, chosen, plan, ok,
                 runs, since, calls>>

Rollback(h, f) ==
  LET was == record[set[h]][f].content IN
  /\ pc[h] = "rollback"
  /\ f \in todo[h]
  /\ IF was = Absent
     THEN SetFile(h, f, Gone) /\ UNCHANGED inodes
     ELSE SetFile(h, f, [content |-> was, inode |-> inodes + 1]) /\ FreshInode
  /\ todo' = [todo EXCEPT ![h] = @ \ {f}]
  /\ pc' = [pc EXCEPT ![h] = IF todo[h] = {f} THEN "refuse" ELSE @]
  /\ UNCHANGED <<setVars, approvalVars, task, app, set, chosen, plan, ok, runs,
                 calls, edits>>

\* When all is done, it looks at every file once more.  If that raises, because of
\* what somebody has made of a file or on its own, nothing is put back.
Observe(h) ==
  /\ pc[h] = "observe"
  /\ \/ Goto(h, "consume")
     \/ /\ MayFail \/ chosen[h] \cap since[h] # {}
        /\ Goto(h, "refuse")
  /\ UNCHANGED <<diskVars, setVars, approvalVars, task, runs, since>>

\* The undo is answered 409, and the retention stays.
Refuse(h) ==
  /\ pc[h] = "refuse"
  /\ Leave(h)
  /\ UNCHANGED <<diskVars, setVars, approvalVars, task, runs>>

\* consume_undo_retention: all of the selection or, with an error, nothing
Consume(h) ==
  LET m == set[h] IN
  /\ pc[h] = "consume"
  /\ retention' = IF \A f \in chosen[h] : retention[m][f] = "retained"
                  THEN [retention EXCEPT ![m] = [f \in Files |->
                          IF f \in chosen[h] THEN "undone" ELSE @[f]]]
                  ELSE retention
  /\ Leave(h)
  /\ UNCHANGED <<diskVars, status, patchOf, base, record, elapsed, aged, approvalVars,
                 task, runs>>

-----------------------------------------------------------------------------
(* The sweep, time, crashes and other users of the workspace. *)

Handled == UNCHANGED <<pc, localVars, runs, calls>>

\* recover_stale_approval_consumptions
Sweep(a) ==
  /\ approval[a] = "consuming"
  /\ ~live[a]
  /\ approval' = [approval EXCEPT ![a] =
                    IF elapsed[of[a]] THEN "expired"
                    ELSE IF task = "succeeded" THEN "consumed" ELSE "execution_failed"]
  /\ holder' = [holder EXCEPT ![a] = NoHandler]
  /\ Handled
  /\ UNCHANGED <<diskVars, setVars, of, live, task, since>>

Lapse(a) ==
  /\ MayElapse /\ approval[a] = "consuming" /\ live[a]
  /\ live' = [live EXCEPT ![a] = FALSE]
  /\ Handled
  /\ UNCHANGED <<diskVars, setVars, approval, of, holder, task, since>>

Elapse(m) ==
  /\ MayElapse /\ status[m] # "none" /\ ~elapsed[m]
  /\ elapsed' = [elapsed EXCEPT ![m] = TRUE]
  /\ Handled
  /\ UNCHANGED <<diskVars, status, patchOf, base, record, retention, aged,
                 approvalVars, task, since>>

Age(m) ==
  /\ MayElapse /\ ~aged[m] /\ \E f \in Files : retention[m][f] = "retained"
  /\ aged' = [aged EXCEPT ![m] = TRUE]
  /\ Handled
  /\ UNCHANGED <<diskVars, status, patchOf, base, record, retention, elapsed,
                 approvalVars, task, since>>

Crash(h) ==
  /\ MayCrash /\ pc[h] # "idle"
  /\ Leave(h)
  /\ UNCHANGED <<diskVars, setVars, approvalVars, task, runs>>

\* Somebody else edits a file in place, replaces it or removes it.
Edit(f) ==
  /\ edits < MaxEdits
  /\ edits' = edits + 1
  /\ \/ file[f] # Gone /\ SetFile(NoHandler, f, Gone) /\ UNCHANGED inodes
     \/ /\ file[f] # Gone
        /\ SetFile(NoHandler, f, [file[f] EXCEPT !.content = [by |-> NoPatch, on |-> "edited"]])
        /\ UNCHANGED inodes
     \/ /\ \E c \in {file[f].content, [by |-> NoPatch, on |-> "edited"]} \ {Absent} :
             SetFile(NoHandler, f, [content |-> c, inode |-> inodes + 1])
        /\ FreshInode
  /\ Handled
  /\ UNCHANGED <<setVars, approvalVars, task>>

-----------------------------------------------------------------------------
ApproveStep(h) ==
  \/ Inspect(h) \/ Spoil(h) \/ Resolve(h) \/ Claim(h) \/ Reload(h) \/ Reinspect(h)
  \/ Plan(h) \/ Attach(h) \/ Mark(h) \/ Conclude(h) \/ Finish(h) \/ Complete(h)
  \/ Dismiss(h)
UndoStep(h)    == CheckUndo(h) \/ Observe(h) \/ Refuse(h) \/ Consume(h)
FileStep(h, f) ==
  \/ Write(h, f) \/ WriteFails(h, f)
  \/ Undo(h, f) \/ UndoFails(h, f) \/ Rollback(h, f)
Request(h) ==
  \/ \E a \in Approvals : Approve(h, a) \/ Reject(h, a) \/ Replace(h, a)
  \/ CancelTask(h)
  \/ \E a \in Approvals, p \in Patches, m \in Manifests : Preview(h, a, p, m)
  \/ \E m \in Manifests, selected \in SUBSET Files : AskUndo(h, m, selected)
Environment ==
  \/ \E a \in Approvals : Sweep(a) \/ Lapse(a)
  \/ \E m \in Manifests : Elapse(m) \/ Age(m)
  \/ \E f \in Files : Edit(f)

Next ==
  \/ \E h \in Handlers : \/ ApproveStep(h) \/ UndoStep(h) \/ Request(h) \/ Crash(h)
                         \/ \E f \in Files : FileStep(h, f)
  \/ Environment
Spec == Init /\ [][Next]_vars

-----------------------------------------------------------------------------
\* A task's file changes are executed at most once, by one approval: neither two
\* handlers of one approval nor an approval and its replacement run the tool.
OneExecution ==
  /\ \A a \in Approvals : runs[a] <= 1
  /\ \A a, b \in Approvals : runs[a] = 1 /\ runs[b] = 1 => a = b

\* Whatever happened between the preview and the approval, or between the change
\* and its undo: a handler changes a file only if it is still the one that was
\* approved, or recorded, or was changed by somebody after the handler's claim.
NoBlindOverwrite ==
  [][ \A h \in Handlers, f \in Files :
        f \in todo[h] /\ f \notin todo'[h] /\ file'[f] # file[f] /\ f \notin since[h]
        => \/ pc[h] = "write" /\ file[f] = base[set[h]][f]
           \/ pc[h] = "undo" /\ file[f] = record[set[h]][f]
           \/ pc[h] = "rollback" ]_vars

\* The selected files that nobody else has changed are undone, or as they were.
Undone(h)   == \A f \in chosen[h] \ since[h] : file[f].content = base[set[h]][f].content
Unharmed(h) == \A f \in chosen[h] \ since[h] : file[f].content = record[set[h]][f].content

\* An undo restores all of its selection or none, whatever raises: once it reports
\* success every selected file has its old content, and once it reports failure
\* either all have their applied content or all the old one, those apart that
\* somebody else has changed meanwhile.  A failure may be reported of an undo that
\* is done, because the last look at the files is not covered by the rollback.
UndoIsAllOrNothing ==
  \A h \in Handlers : /\ pc[h] = "consume" => Undone(h)
                      /\ pc[h] = "refuse"  => Undone(h) \/ Unharmed(h)

\* The promise of OneShotApproval, read off the approvals and the handlers.
PhaseOf(s) ==
  CASE s \in {"none", "pending"} -> "open"
    [] s = "approved_once"      -> "granted"
    [] s = "consuming"          -> "spent"
    [] OTHER                    -> "closed"

Consent == INSTANCE OneShotApproval WITH
  phase   <- [a \in Approvals |-> PhaseOf(approval[a])],
  permits <- {a \in Approvals :
                \E h \in Handlers : pc[h] \in {"reload", "reinspect", "plan"} /\ app[h] = a},
  told    <- [a \in Approvals |-> 0]

\* The approvals of a task keep the promise that the store of exec approvals keeps
\* for its own: a tool runs once, for the request that claimed a grant, and never
\* if the approval was refused, replaced or expired before a claim.
KeepsConsent == Consent!Spec
===============================================================================
