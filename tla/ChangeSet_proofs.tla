--------------------------- MODULE ChangeSet_proofs ---------------------------
(***************************************************************************)
(* Proofs about ChangeSet for any files, patches, requests and approvals.  *)
(*                                                                         *)
(* The argument: at most one approval of the task is neither unused nor    *)
(* superseded, and only it can be claimed, once; so one handler executes   *)
(* one change set, and an undo finds nobody executing.  What a handler     *)
(* compared, the change set's base or the applied record, is therefore     *)
(* not changed under it, and a file it has yet to change is the one it     *)
(* compared or was changed since.                                          *)
(***************************************************************************)
EXTENDS ChangeSet, TLAPS

-----------------------------------------------------------------------------
(* The inductive invariant.                                                *)

\* A change set is what a patch makes of files that it applies to, and every
\* approval and every handler has one.
PreparedInv ==
  /\ \A m \in Manifests : status[m] # "none" =>
       \A f \in Touched(patchOf[m]) : Applies(patchOf[m], f, base[m][f].content)
  /\ status[First] # "none"
  /\ \A a \in Approvals : status[of[a]] # "none"
  /\ \A h \in Handlers : status[set[h]] # "none"

Selects == {"check", "undo", "rollback", "observe", "consume", "refuse", "write"}

SelectInv ==
  \A h \in Handlers : pc[h] \in Selects =>
    /\ chosen[h] \subseteq Touched(patchOf[set[h]])
    /\ todo[h] \subseteq chosen[h]
    /\ pc[h] = "check" => todo[h] = chosen[h]

TypeInv == TypeOK /\ PreparedInv /\ SelectInv

\* An approval that was not claimed has run nothing, and one approval at most is
\* neither absent nor superseded.
Unused == {"none", "pending", "approved_once", "superseded", "rejected"}
Void   == {"none", "superseded"}

ApprovalInv ==
  /\ \A a \in Approvals : runs[a] \in {0, 1} /\ (approval[a] \in Unused => runs[a] = 0)
  /\ \A a, b \in Approvals : a = b \/ approval[a] \in Void \/ approval[b] \in Void

\* A handler that executes has claimed its approval, and it is the only one.
Ahead     == {"reload", "reinspect", "plan"}
Executing == Ahead \cup {"write", "attach", "mark"}

ExecutorInv ==
  /\ \A h \in Handlers : pc[h] \in Executing =>
       /\ approval[app[h]] \notin Unused
       /\ runs[app[h]] = IF pc[h] \in Ahead THEN 0 ELSE 1
  /\ \A h, k \in Handlers : pc[h] \in Executing /\ pc[k] \in Executing => h = k

\* Once a change set is applied, and while one is undone, nobody executes.
Applied == (\E m \in Manifests : status[m] = "applied") \/ (\E h \in Handlers : pc[h] \in Undoing)
DoneInv ==
  Applied => /\ \E a \in Approvals : runs[a] = 1
             /\ \A h \in Handlers : pc[h] \notin Executing

ExecInv == ApprovalInv /\ ExecutorInv /\ DoneInv

\* What is known of the files that a handler has still to change, and of those it
\* has changed, unless somebody else changed them since.
DiskRow(h) ==
  LET m == set[h] IN
  /\ pc[h] = "plan" => \A f \in Touched(patchOf[m]) \ since[h] : file[f] = base[m][f]
  /\ pc[h] = "write" => \A f \in todo[h] \ since[h] : file[f] = base[m][f]
  /\ pc[h] = "undo" => \A f \in todo[h] \ since[h] : file[f] = record[m][f]
  /\ pc[h] = "undo" => \A f \in (chosen[h] \ todo[h]) \ since[h] :
                         file[f].content = base[m][f].content
  /\ pc[h] \in {"observe", "consume"} => Undone(h)
  /\ pc[h] = "rollback" => \A f \in (chosen[h] \ todo[h]) \ since[h] :
                             file[f].content = record[m][f].content
  /\ pc[h] = "refuse" => Undone(h) \/ Unharmed(h)

DiskInv == \A h \in Handlers : DiskRow(h)

IInv == TypeInv /\ ExecInv /\ DiskInv

-----------------------------------------------------------------------------
(* Type correctness.                                                       *)

DiskOK ==
  /\ file \in [Files -> FileStates]
  /\ inodes \in Nat
  /\ edits \in 0..MaxEdits
SetsOK ==
  /\ status \in [Manifests -> Statuses]
  /\ patchOf \in [Manifests -> Patches]
  /\ base \in [Manifests -> [Files -> FileStates]]
  /\ record \in [Manifests -> [Files -> FileStates]]
  /\ retention \in [Manifests -> [Files -> {"none", "retained", "expired", "undone"}]]
  /\ elapsed \in [Manifests -> BOOLEAN]
  /\ aged \in [Manifests -> BOOLEAN]
ApprovalsOK ==
  /\ approval \in [Approvals -> Decisions]
  /\ of \in [Approvals -> Manifests]
  /\ holder \in [Approvals -> Handlers \cup {NoHandler}]
  /\ live \in [Approvals -> BOOLEAN]
LocalsOK ==
  /\ pc \in [Handlers -> Places]
  /\ app \in [Handlers -> Approvals]
  /\ set \in [Handlers -> Manifests]
  /\ chosen \in [Handlers -> SUBSET Files]
  /\ todo \in [Handlers -> SUBSET Files]
  /\ plan \in [Handlers -> [Files -> Contents]]
  /\ ok \in [Handlers -> BOOLEAN]
  /\ calls \in 0..MaxCalls
TaskOK  == task \in {"awaiting_approval", "succeeded", "failed", "cancelled"}
SinceOK == since \in [Handlers -> SUBSET Files]
RunsOK  == runs \in [Approvals -> Nat]

LEMMA TypedParts ==
  TypeOK <=> DiskOK /\ SetsOK /\ ApprovalsOK /\ LocalsOK /\ TaskOK /\ SinceOK /\ RunsOK
BY DEF TypeOK, DiskOK, SetsOK, ApprovalsOK, LocalsOK, TaskOK, SinceOK, RunsOK

LEMMA TypedAfter ==
  DiskOK' /\ SetsOK' /\ ApprovalsOK' /\ LocalsOK' /\ TaskOK' /\ SinceOK' /\ RunsOK'
  => TypeOK'
BY DEF TypeOK, DiskOK, SetsOK, ApprovalsOK, LocalsOK, TaskOK, SinceOK, RunsOK

LEMMA Stays ==
  /\ DiskOK /\ UNCHANGED diskVars => DiskOK'
  /\ SetsOK /\ UNCHANGED setVars => SetsOK'
  /\ ApprovalsOK /\ UNCHANGED approvalVars => ApprovalsOK'
  /\ LocalsOK /\ UNCHANGED <<pc, localVars, calls>> => LocalsOK'
  /\ TaskOK /\ UNCHANGED task => TaskOK'
  /\ SinceOK /\ UNCHANGED since => SinceOK'
  /\ RunsOK /\ UNCHANGED runs => RunsOK'
BY DEF DiskOK, SetsOK, ApprovalsOK, LocalsOK, TaskOK, SinceOK, RunsOK,
       diskVars, setVars, approvalVars, localVars

LEMMA AbsentTyped == Absent \in Contents /\ Gone \in FileStates
BY DEF Absent, Gone, Contents, FileStates

LEMMA AfterTyped ==
  ASSUME NEW p \in Patches, NEW f \in Files, NEW c \in Contents
  PROVE  After(p, f, c) \in Contents
BY AbsentTyped, ConstantsAssumption DEF After, Contents

LEMMA NewFileTyped ==
  ASSUME NEW c \in Contents, c # Absent, NEW i \in Nat
  PROVE  [content |-> c, inode |-> i + 1] \in FileStates
BY DEF FileStates

LEMMA PresentTyped ==
  ASSUME NEW x \in FileStates
  PROVE  x.content \in Contents /\ (x # Gone <=> x.content # Absent)
BY DEF FileStates, Gone

LEMMA OpenedTyped ==
  ASSUME DiskOK, NEW f \in Files, NEW c \in Contents, c # Absent
  PROVE  Opened(f, c) \in FileStates
<1>1. CASE file[f] = Gone
  BY <1>1, NewFileTyped DEF DiskOK, Opened
<1>2. CASE file[f] # Gone
  BY <1>2 DEF DiskOK, Opened, FileStates, Gone
<1>. QED
  BY <1>1, <1>2

LEMMA NoticedTyped ==
  ASSUME SinceOK, NEW h, NEW f \in Files
  PROVE  Noticed(h, f) \in [Handlers -> SUBSET Files]
BY DEF SinceOK, Noticed

LEMMA SetFileTyped ==
  ASSUME DiskOK, SinceOK, NEW h, NEW f \in Files, NEW x \in FileStates,
         SetFile(h, f, x), inodes' \in Nat, UNCHANGED edits
  PROVE  DiskOK' /\ SinceOK'
BY NoticedTyped DEF SetFile, DiskOK, SinceOK

LEMMA GotoTyped ==
  ASSUME LocalsOK, NEW h \in Handlers, NEW p \in Places, Goto(h, p)
  PROVE  LocalsOK'
BY DEF LocalsOK, Goto, localVars

LEMMA ExitTyped ==
  ASSUME LocalsOK, NEW h \in Handlers, Exit(h)
  PROVE  LocalsOK'
BY AbsentTyped, ConstantsAssumption DEF LocalsOK, Exit, Places

LEMMA LeaveTyped ==
  ASSUME LocalsOK, SinceOK, NEW h \in Handlers, Leave(h)
  PROVE  LocalsOK' /\ SinceOK'
<1>1. LocalsOK'
  BY ExitTyped DEF Leave
<1>. QED
  BY <1>1 DEF Leave, SinceOK

LEMMA BeginTyped ==
  ASSUME LocalsOK, NEW h, Begin(h)
  PROVE  calls' \in 0..MaxCalls
BY ConstantsAssumption DEF LocalsOK, Begin

LEMMA SnapshotTyped ==
  ASSUME DiskOK, NEW p
  PROVE  Snapshot(p) \in [Files -> FileStates]
BY AbsentTyped DEF DiskOK, Snapshot

LEMMA PlacesTyped ==
  \A p \in {"idle", "inspect", "spoil", "resolve", "claim", "reload", "reinspect",
            "plan", "write", "attach", "mark", "conclude", "finish", "complete",
            "dismiss", "cancel", "replace", "check", "undo", "rollback", "observe",
            "consume", "refuse"} : p \in Places
BY DEF Places, Claiming, Undoing

LEMMA InitTyped == Init => TypeInv
<1>. SUFFICES ASSUME Init PROVE TypeInv
  OBVIOUS
<1>1. DiskOK
  <2>1. [content |-> [by |-> NoPatch, on |-> "old"], inode |-> 1] \in FileStates
    BY DEF FileStates, Contents, Absent
  <2>. QED
    BY <2>1, AbsentTyped, ConstantsAssumption DEF Init, DiskOK
<1>2. SetsOK
  <2>1. Snapshot(FirstPatch) \in [Files -> FileStates]
    BY <1>1, SnapshotTyped
  <2>2. [f \in Files |-> Gone] \in [Files -> FileStates]
    BY AbsentTyped
  <2>. QED
    BY <2>1, <2>2, ConstantsAssumption DEF Init, SetsOK, Statuses
<1>3. ApprovalsOK
  BY ConstantsAssumption DEF Init, ApprovalsOK, Decisions
<1>4. LocalsOK
  BY AbsentTyped, PlacesTyped, ConstantsAssumption DEF Init, LocalsOK
<1>5. TaskOK /\ SinceOK /\ RunsOK
  BY DEF Init, TaskOK, SinceOK, RunsOK
<1>6. PreparedInv
  <2>1. ASSUME NEW f \in Touched(FirstPatch)
        PROVE  Applies(FirstPatch, f, base[First][f].content)
    BY ConstantsAssumption DEF Init, MayPrepare, Snapshot, Touched
  <2>. QED
    BY <2>1, ConstantsAssumption DEF Init, PreparedInv
<1>7. SelectInv
  BY DEF Init, SelectInv, Selects
<1>. QED
  BY <1>1, <1>2, <1>3, <1>4, <1>5, <1>6, <1>7, TypedParts DEF TypeInv

\* What a handler's own step leaves alone, whichever action it is.
Only(h) ==
  \A k \in Handlers \ {h} :
    pc'[k] = pc[k] /\ app'[k] = app[k] /\ set'[k] = set[k] /\ chosen'[k] = chosen[k]
    /\ todo'[k] = todo[k]

LEMMA GotoOnly ==
  ASSUME LocalsOK, NEW h \in Handlers, NEW p, Goto(h, p)
  PROVE  /\ Only(h) /\ pc'[h] = p
         /\ set' = set /\ app' = app /\ chosen' = chosen /\ todo' = todo
BY DEF LocalsOK, Goto, localVars, Only

LEMMA ExitOnly ==
  ASSUME LocalsOK, NEW h \in Handlers, Exit(h)
  PROVE  /\ Only(h) /\ pc'[h] = "idle" /\ set'[h] = First
         /\ \A k \in Handlers : set'[k] = set[k] \/ set'[k] = First
BY DEF LocalsOK, Exit, Only

LEMMA LeaveOnly ==
  ASSUME LocalsOK, NEW h \in Handlers, Leave(h)
  PROVE  /\ Only(h) /\ pc'[h] = "idle" /\ set'[h] = First
         /\ \A k \in Handlers : set'[k] = set[k] \/ set'[k] = First
BY ExitOnly DEF Leave

LEMMA StillTyped ==
  ASSUME TypeInv, UNCHANGED <<status, patchOf, base, of>>, TypeOK',
         NEW h \in Handlers, Only(h),
         set'[h] \in {set[h], First} \cup {of[a] : a \in Approvals},
         pc'[h] \in Selects => /\ chosen'[h] \subseteq Touched(patchOf[set'[h]])
                               /\ todo'[h] \subseteq chosen'[h]
                               /\ pc'[h] = "check" => todo'[h] = chosen'[h]
  PROVE  TypeInv'
<1>. PreparedInv /\ SelectInv /\ TypeOK
  BY DEF TypeInv
<1>1. ASSUME NEW k \in Handlers PROVE status'[set'[k]] # "none"
  BY DEF PreparedInv, Only
<1>2. PreparedInv'
  BY <1>1 DEF PreparedInv, Touched, Applies
<1>3. SelectInv'
  BY DEF SelectInv, Only, Touched
<1>. QED
  BY <1>2, <1>3 DEF TypeInv

\* The steps that change neither change sets nor places that select entries.
LEMMA PlainTyped ==
  ASSUME TypeInv, UNCHANGED <<status, patchOf, base, of>>, TypeOK',
         NEW h \in Handlers, \/ Leave(h) \/ Exit(h)
                            \/ \E p \in Places \ Selects : Goto(h, p)
  PROVE  TypeInv'
<1>. LocalsOK
  BY TypedParts DEF TypeInv
<1>1. CASE Leave(h) \/ Exit(h)
  BY <1>1, LeaveOnly, ExitOnly, StillTyped DEF Selects
<1>2. CASE \E p \in Places \ Selects : Goto(h, p)
  BY <1>2, GotoOnly, StillTyped
<1>. QED
  BY <1>1, <1>2

LEMMA ApproveTyped ==
  ASSUME TypeInv, NEW h \in Handlers, NEW a \in Approvals, Approve(h, a)
  PROVE  TypeInv'
<1>. TypeOK
  BY DEF TypeInv
<1>1. LocalsOK'
  BY TypedParts, BeginTyped, PlacesTyped DEF Approve, LocalsOK, ApprovalsOK, localVars
<1>2. TypeOK'
  BY <1>1, TypedParts, TypedAfter, Stays DEF Approve
<1>3. Only(h) /\ pc'[h] \notin Selects /\ set'[h] = of[a]
  BY TypedParts DEF Approve, Only, Selects, LocalsOK
<1>4. UNCHANGED <<status, patchOf, base, of>>
  BY DEF Approve, setVars, approvalVars
<1>. QED
  BY <1>2, <1>3, <1>4, StillTyped

LEMMA ReadingTyped ==
  ASSUME TypeInv, NEW h \in Handlers, Inspect(h) \/ Reload(h) \/ Reinspect(h)
  PROVE  TypeInv'
<1>. TypeOK
  BY DEF TypeInv
<1>1. PICK p \in Places \ Selects : Goto(h, p)
  BY PlacesTyped DEF Inspect, Reload, Reinspect, Selects
<1>2. UNCHANGED <<diskVars, setVars, approvalVars, task, runs, since>>
  BY DEF Inspect, Reload, Reinspect
<1>3. TypeOK'
  BY <1>1, <1>2, TypedParts, TypedAfter, Stays, GotoTyped
<1>. QED
  BY <1>1, <1>2, <1>3, PlainTyped DEF setVars, approvalVars

LEMMA SpoilTyped ==
  ASSUME TypeInv, NEW h \in Handlers, Spoil(h) \/ Mark(h)
  PROVE  TypeInv'
<1>. TypeOK /\ LocalsOK /\ SinceOK
  BY TypedParts DEF TypeInv
<1>1. /\ \/ Leave(h)
         \/ Goto(h, "conclude") /\ UNCHANGED since
      /\ \E s \in {"applied", "conflicted"} : status' = [status EXCEPT ![set[h]] = s]
      /\ UNCHANGED <<diskVars, patchOf, base, record, retention, elapsed, aged,
                     approvalVars, task, runs>>
  BY DEF Spoil, Mark
<1>2. SetsOK'
  BY <1>1, TypedParts DEF SetsOK, Statuses, LocalsOK
<1>3. LocalsOK' /\ SinceOK'
  BY <1>1, LeaveTyped, GotoTyped, PlacesTyped, Stays
<1>4. TypeOK'
  BY <1>1, <1>2, <1>3, TypedParts, TypedAfter, Stays
<1>5. /\ \A m \in Manifests : status[m] # "none" <=> status'[m] # "none"
      /\ of' = of
  <2>1. status \in [Manifests -> Statuses] /\ set[h] \in Manifests /\ status[set[h]] # "none"
    BY TypedParts DEF SetsOK, LocalsOK, PreparedInv, TypeInv
  <2>. QED
    BY <1>1, <2>1 DEF approvalVars
<1>6. /\ Only(h)
      /\ \A k \in Handlers : set'[k] = set[k] \/ set'[k] = First
      /\ pc'[h] \notin Selects
  BY <1>1, LeaveOnly, GotoOnly DEF Selects
<1>7. PreparedInv'
  <2>1. \A m \in Manifests : status'[m] # "none" =>
         \A f \in Touched(patchOf[m]) : Applies(patchOf[m], f, base[m][f].content)
    BY <1>5 DEF TypeInv, PreparedInv
  <2>2. status'[First] # "none" /\ \A a \in Approvals : status'[of'[a]] # "none"
    BY <1>5, TypedParts, ConstantsAssumption DEF TypeInv, PreparedInv, ApprovalsOK
  <2>3. \A k \in Handlers : status'[set'[k]] # "none"
    BY <1>5, <1>6, <2>2, TypedParts DEF TypeInv, PreparedInv, LocalsOK
  <2>. QED
    BY <1>1, <2>1, <2>2, <2>3 DEF PreparedInv, Touched, Applies
<1>8. SelectInv'
  BY <1>1, <1>6 DEF TypeInv, SelectInv, Only, Touched
<1>. QED
  BY <1>4, <1>7, <1>8 DEF TypeInv

LEMMA ResolvedTyped ==
  ASSUME ApprovalsOK, SetsOK, NEW a \in Approvals, NEW decision \in Decisions,
         Resolved(a, decision), UNCHANGED <<of, holder, live>>
  PROVE  ApprovalsOK'
BY DEF ApprovalsOK, Resolved, Decisions

LEMMA ResolveTyped ==
  ASSUME TypeInv, NEW h \in Handlers, Resolve(h)
  PROVE  TypeInv'
<1>. TypeOK
  BY DEF TypeInv
<1>1. (Goto(h, "claim") /\ UNCHANGED since) \/ Leave(h)
  BY DEF Resolve
<1>2. ApprovalsOK'
  BY TypedParts, ResolvedTyped DEF Resolve, Decisions, LocalsOK
<1>3. TypeOK'
  BY <1>1, <1>2, TypedParts, TypedAfter, Stays, GotoTyped, LeaveTyped, PlacesTyped DEF Resolve
<1>. QED
  BY <1>1, <1>3, PlainTyped, PlacesTyped DEF Resolve, setVars, Selects

LEMMA ClaimTyped ==
  ASSUME TypeInv, NEW h \in Handlers, Claim(h)
  PROVE  TypeInv'
<1>. TypeOK
  BY DEF TypeInv
<1>1. (Goto(h, "reload") /\ UNCHANGED since) \/ Leave(h)
  BY DEF Claim
<1>2. ApprovalsOK'
  BY TypedParts DEF Claim, ApprovalsOK, LocalsOK, Decisions
<1>3. TypeOK'
  BY <1>1, <1>2, TypedParts, TypedAfter, Stays, GotoTyped, LeaveTyped, PlacesTyped DEF Claim
<1>. QED
  BY <1>1, <1>3, PlainTyped, PlacesTyped DEF Claim, setVars, Selects

LEMMA PlanTyped ==
  ASSUME TypeInv, NEW h \in Handlers, Plan(h)
  PROVE  TypeInv'
<1>. TypeOK
  BY DEF TypeInv
<1>. DEFINE p == patchOf[set[h]]
            q == [f \in Files |-> After(p, f, file[f].content)]
<1>1. q \in [Files -> Contents] /\ Touched(p) \subseteq Files
  <2>1. p \in Patches
    BY TypedParts DEF SetsOK, LocalsOK
  <2>2. ASSUME NEW f \in Files PROVE file[f].content \in Contents
    BY TypedParts, PresentTyped DEF DiskOK
  <2>. QED
    BY <2>1, <2>2, AfterTyped DEF Touched
<1>2. LocalsOK'
  <2>1. CASE UNCHANGED <<chosen, todo, plan>> /\ pc' = [pc EXCEPT ![h] = "mark"]
             /\ ok' = [ok EXCEPT ![h] = FALSE]
    BY <2>1, TypedParts, PlacesTyped DEF Plan, LocalsOK
  <2>2. CASE /\ pc' = [pc EXCEPT ![h] = IF Touched(p) = {} THEN "attach" ELSE "write"]
             /\ chosen' = [chosen EXCEPT ![h] = Touched(p)]
             /\ todo' = [todo EXCEPT ![h] = Touched(p)]
             /\ plan' = [plan EXCEPT ![h] = q] /\ UNCHANGED ok
    BY <1>1, <2>2, TypedParts, PlacesTyped DEF Plan, LocalsOK
  <2>. QED
    BY <2>1, <2>2 DEF Plan
<1>3. RunsOK'
  BY TypedParts DEF Plan, RunsOK, LocalsOK
<1>4. TypeOK'
  BY <1>2, <1>3, TypedParts, TypedAfter, Stays DEF Plan
<1>5. /\ Only(h) /\ set'[h] = set[h]
      /\ pc'[h] \in Selects => chosen'[h] = Touched(p) /\ todo'[h] = chosen'[h]
  BY TypedParts DEF Plan, Only, LocalsOK, Selects
<1>. QED
  BY <1>4, <1>5, StillTyped DEF Plan, setVars, approvalVars

LEMMA WriteTyped ==
  ASSUME TypeInv, NEW h \in Handlers, NEW f \in Files, Write(h, f)
  PROVE  TypeInv'
<1>. TypeOK
  BY DEF TypeInv
<1>1. PICK x \in FileStates : SetFile(h, f, x) /\ inodes' \in Nat
  <2>1. CASE plan[h][f] = Absent
    BY <2>1, TypedParts, AbsentTyped DEF Write, DiskOK
  <2>2. CASE plan[h][f] # Absent
    BY <2>2, TypedParts, OpenedTyped DEF Write, MayCreate, DiskOK, LocalsOK
  <2>. QED
    BY <2>1, <2>2
<1>2. DiskOK' /\ SinceOK'
  BY <1>1, TypedParts, SetFileTyped DEF Write
<1>3. LocalsOK'
  BY TypedParts, PlacesTyped DEF Write, LocalsOK
<1>4. TypeOK'
  BY <1>2, <1>3, TypedParts, TypedAfter, Stays DEF Write
<1>5. /\ Only(h) /\ set'[h] = set[h] /\ chosen'[h] = chosen[h]
      /\ todo'[h] \subseteq todo[h] /\ pc'[h] \in {"write", "attach"}
      /\ pc[h] = "write"
  BY TypedParts DEF Write, Only, LocalsOK
<1>6. /\ chosen[h] \subseteq Touched(patchOf[set[h]])
      /\ todo[h] \subseteq chosen[h]
  BY <1>5 DEF TypeInv, SelectInv, Selects
<1>. QED
  BY <1>4, <1>5, <1>6, StillTyped DEF Write, setVars, approvalVars

LEMMA WriteFailsTyped ==
  ASSUME TypeInv, NEW h \in Handlers, NEW f \in Files, WriteFails(h, f)
  PROVE  TypeInv'
<1>. TypeOK
  BY DEF TypeInv
<1>1. Torn(f) \in Contents /\ Torn(f) # Absent
  BY TypedParts, PresentTyped DEF DiskOK, Torn, Contents, Absent
<1>2. CASE Leave(h) /\ UNCHANGED <<file, inodes>>
  <2>1. DiskOK' /\ LocalsOK' /\ SinceOK'
    BY <1>2, TypedParts, LeaveTyped, Stays DEF WriteFails, diskVars
  <2>2. TypeOK'
    BY <2>1, TypedParts, TypedAfter, Stays DEF WriteFails
  <2>. QED
    BY <1>2, <2>2, PlainTyped DEF WriteFails, setVars, approvalVars
<1>3. CASE ~(Leave(h) /\ UNCHANGED <<file, inodes>>)
  <2>1. DiskOK'
    BY <1>1, <1>3, TypedParts, OpenedTyped DEF WriteFails, MayCreate, DiskOK
  <2>2. Exit(h) /\ SinceOK'
    BY <1>3, TypedParts, NoticedTyped DEF WriteFails, SinceOK
  <2>3. TypeOK'
    BY <2>1, <2>2, TypedParts, TypedAfter, ExitTyped, Stays DEF WriteFails
  <2>. QED
    BY <2>2, <2>3, PlainTyped DEF WriteFails, setVars, approvalVars
<1>. QED
  BY <1>2, <1>3

LEMMA AttachTyped ==
  ASSUME TypeInv, NEW h \in Handlers, Attach(h)
  PROVE  TypeInv'
<1>. TypeOK
  BY DEF TypeInv
<1>1. SetsOK'
  BY TypedParts, SnapshotTyped DEF Attach, SetsOK, LocalsOK
<1>2. LocalsOK'
  <2>1. (AsPlanned(set[h]) /\ MayRetain(set[h])) \in BOOLEAN
    OBVIOUS
  <2>. QED
    BY TypedParts, PlacesTyped, <2>1 DEF Attach, LocalsOK
<1>3. TypeOK'
  BY <1>1, <1>2, TypedParts, TypedAfter, Stays DEF Attach
<1>4. Only(h) /\ set'[h] = set[h] /\ pc'[h] \notin Selects
  BY TypedParts DEF Attach, Only, LocalsOK, Selects
<1>. QED
  BY <1>3, <1>4, StillTyped DEF Attach, approvalVars

LEMMA ConcludeTyped ==
  ASSUME TypeInv, NEW h \in Handlers, Conclude(h) \/ Dismiss(h) \/ Refuse(h) \/ Crash(h)
  PROVE  TypeInv'
<1>. TypeOK
  BY DEF TypeInv
<1>1. /\ (Goto(h, "finish") /\ UNCHANGED since) \/ Leave(h)
      /\ UNCHANGED <<diskVars, setVars, approvalVars, runs>>
      /\ TaskOK'
  BY TypedParts DEF Conclude, Dismiss, Refuse, Crash, TaskOK
<1>2. TypeOK'
  BY <1>1, TypedParts, TypedAfter, Stays, GotoTyped, LeaveTyped, PlacesTyped
<1>. QED
  BY <1>1, <1>2, PlainTyped, PlacesTyped DEF setVars, approvalVars, Selects

LEMMA FinishTyped ==
  ASSUME TypeInv, NEW h \in Handlers, Finish(h) \/ CancelTask(h)
  PROVE  TypeInv'
<1>. TypeOK
  BY DEF TypeInv
<1>1. LocalsOK'
  <2>1. CASE Finish(h)
    BY <2>1, TypedParts, PlacesTyped DEF Finish, LocalsOK
  <2>2. CASE CancelTask(h)
    BY <2>2, TypedParts, BeginTyped, PlacesTyped DEF CancelTask, LocalsOK, localVars
  <2>. QED
    BY <2>1, <2>2
<1>2. TypeOK'
  BY <1>1, TypedParts, TypedAfter, Stays DEF Finish, CancelTask
<1>3. Only(h) /\ set'[h] = set[h] /\ pc'[h] \notin Selects
  BY TypedParts DEF Finish, CancelTask, localVars, Only, LocalsOK, Selects
<1>. QED
  BY <1>2, <1>3, StillTyped DEF Finish, CancelTask, setVars, approvalVars

LEMMA CompleteTyped ==
  ASSUME TypeInv, NEW h \in Handlers, Complete(h)
  PROVE  TypeInv'
<1>. TypeOK
  BY DEF TypeInv
<1>1. ApprovalsOK'
  BY TypedParts DEF Complete, ApprovalsOK, LocalsOK, Decisions
<1>2. TypeOK'
  BY <1>1, TypedParts, TypedAfter, Stays, LeaveTyped DEF Complete
<1>. QED
  BY <1>2, PlainTyped DEF Complete, setVars

LEMMA RejectTyped ==
  ASSUME TypeInv, NEW h \in Handlers, NEW a \in Approvals, Reject(h, a)
  PROVE  TypeInv'
<1>. TypeOK
  BY DEF TypeInv
<1>1. LocalsOK'
  BY TypedParts, BeginTyped, PlacesTyped DEF Reject, LocalsOK
<1>2. ApprovalsOK'
  BY TypedParts, ResolvedTyped DEF Reject, Decisions
<1>3. TypeOK'
  BY <1>1, <1>2, TypedParts, TypedAfter, Stays DEF Reject
<1>4. Only(h) /\ set'[h] = set[h] /\ pc'[h] \notin Selects
  BY TypedParts DEF Reject, Begin, Only, LocalsOK, Selects
<1>. QED
  BY <1>3, <1>4, StillTyped DEF Reject, setVars

\* What a preview persists is a change set that its patch applies to, and none
\* that exists is changed.
Firm ==
  \A m \in Manifests : status[m] # "none" =>
    status'[m] # "none" /\ patchOf'[m] = patchOf[m] /\ base'[m] = base[m]

LEMMA PersistedFirm ==
  ASSUME DiskOK, SetsOK, NEW p \in Patches, NEW m \in Manifests, MayPrepare(p), Persisted(p, m)
  PROVE  /\ Firm /\ status'[m] # "none"
         /\ status' \in [Manifests -> Statuses]
         /\ patchOf' \in [Manifests -> Patches]
         /\ base' \in [Manifests -> [Files -> FileStates]]
         /\ \A k \in Manifests : status'[k] = "applied" => status[k] = "applied"
         /\ \A k \in Manifests : status[k] = "none" /\ status'[k] # "none" =>
              \A f \in Touched(patchOf'[k]) : Applies(patchOf'[k], f, base'[k][f].content)
<1>. DEFINE s == Snapshot(p)
<1>1. s \in [Files -> FileStates] /\ \A f \in Touched(p) : s[f] = file[f]
  BY SnapshotTyped DEF Snapshot, Touched
<1>2. \A f \in Touched(p) : Applies(p, f, s[f].content)
  BY <1>1 DEF MayPrepare
<1>. CASE UNCHANGED <<status, patchOf, base>> /\ status[m] # "none"
  BY DEF SetsOK, Firm
<1>. CASE /\ status[m] = "none"
          /\ status' = [status EXCEPT ![m] = "prepared"]
          /\ patchOf' = [patchOf EXCEPT ![m] = p]
          /\ base' = [base EXCEPT ![m] = s]
  <2>. HIDE DEF s
  <2>1. patchOf'[m] = p /\ base'[m] = s
    BY DEF SetsOK
  <2>2. \A f \in Touched(patchOf'[m]) : Applies(patchOf'[m], f, base'[m][f].content)
    BY <1>2, <2>1
  <2>3. \A k \in Manifests \ {m} : status'[k] = status[k]
    BY DEF SetsOK
  <2>4. /\ status' \in [Manifests -> Statuses] /\ status'[m] = "prepared"
        /\ patchOf' \in [Manifests -> Patches]
        /\ base' \in [Manifests -> [Files -> FileStates]] /\ Firm
    BY <1>1 DEF SetsOK, Firm, Statuses
  <2>. QED
    BY <2>2, <2>3, <2>4
<1>. QED
  BY DEF Persisted

LEMMA PreviewTyped ==
  ASSUME TypeInv, NEW h \in Handlers, NEW a \in Approvals, NEW p \in Patches,
         NEW m \in Manifests, Preview(h, a, p, m)
  PROVE  TypeInv'
<1>. TypeOK
  BY DEF TypeInv
<1>1. LocalsOK'
  BY TypedParts, BeginTyped, PlacesTyped DEF Preview, LocalsOK
<1>2. SetsOK'
  <2>1. /\ status' \in [Manifests -> Statuses]
        /\ patchOf' \in [Manifests -> Patches]
        /\ base' \in [Manifests -> [Files -> FileStates]]
    BY TypedParts, PersistedFirm DEF Preview
  <2>. QED
    BY <2>1, TypedParts DEF Preview, SetsOK
<1>3. TypeOK'
  BY <1>1, <1>2, TypedParts, TypedAfter, Stays DEF Preview
<1>4. Only(h) /\ set'[h] \in {set[h], m} /\ pc'[h] \notin Selects
  BY TypedParts DEF Preview, Begin, Only, LocalsOK, Selects
<1>5. Firm /\ status'[m] # "none" /\ UNCHANGED of
  BY TypedParts, PersistedFirm DEF Preview, approvalVars
<1>6. PreparedInv'
  <2>1. ASSUME NEW k \in Manifests, status'[k] # "none", NEW f \in Touched(patchOf'[k])
        PROVE  Applies(patchOf'[k], f, base'[k][f].content)
    <3>1. CASE status[k] # "none"
      BY <2>1, <3>1, <1>5 DEF Firm, TypeInv, PreparedInv
    <3>2. CASE status[k] = "none"
      BY <2>1, <3>2, TypedParts, PersistedFirm DEF Preview
    <3>. QED
      BY <3>1, <3>2
  <2>2. status'[First] # "none" /\ \A b \in Approvals : status'[of'[b]] # "none"
    BY <1>5, TypedParts, ConstantsAssumption DEF Firm, TypeInv, PreparedInv, ApprovalsOK
  <2>3. \A k \in Handlers : status'[set'[k]] # "none"
    BY <1>4, <1>5, TypedParts DEF Only, Firm, TypeInv, PreparedInv, LocalsOK
  <2>. QED
    BY <2>1, <2>2, <2>3 DEF PreparedInv, Touched, Applies
<1>7. SelectInv'
  <2>1. ASSUME NEW k \in Handlers \ {h} PROVE patchOf'[set[k]] = patchOf[set[k]]
    BY <1>5, TypedParts DEF Firm, TypeInv, PreparedInv, LocalsOK
  <2>. QED
    BY <1>4, <2>1 DEF TypeInv, SelectInv, Only, Touched
<1>. QED
  BY <1>3, <1>6, <1>7 DEF TypeInv

LEMMA ReplaceTyped ==
  ASSUME TypeInv, NEW h \in Handlers, NEW new \in Approvals, Replace(h, new)
  PROVE  TypeInv'
<1>. TypeOK
  BY DEF TypeInv
<1>1. ApprovalsOK'
  BY TypedParts DEF Replace, Superseded, ApprovalsOK, LocalsOK, Decisions
<1>2. TypeOK'
  BY <1>1, TypedParts, TypedAfter, Stays, LeaveTyped DEF Replace
<1>3. /\ Only(h) /\ pc'[h] = "idle"
      /\ \A k \in Handlers : set'[k] = set[k] \/ set'[k] = First
  BY TypedParts, LeaveOnly DEF Replace
<1>4. \A b \in Approvals : of'[b] = of[b] \/ of'[b] = set[h]
  BY TypedParts DEF Replace, ApprovalsOK
<1>5. UNCHANGED <<status, patchOf, base>>
  BY DEF Replace, setVars
<1>6. PreparedInv'
  BY <1>3, <1>4, <1>5 DEF TypeInv, PreparedInv, Touched, Applies
<1>7. SelectInv'
  BY <1>3, <1>5 DEF TypeInv, SelectInv, Only, Touched, Selects
<1>. QED
  BY <1>2, <1>6, <1>7 DEF TypeInv

LEMMA RetentionTyped ==
  ASSUME SetsOK, NEW m \in Manifests, NEW selected, NEW s \in {"expired", "undone"},
         \/ UNCHANGED retention
         \/ retention' = [retention EXCEPT ![m] = [f \in Files |->
                            IF f \in selected THEN s ELSE @[f]]]
  PROVE  retention' \in [Manifests -> [Files -> {"none", "retained", "expired", "undone"}]]
<1>1. [f \in Files |-> IF f \in selected THEN s ELSE retention[m][f]]
      \in [Files -> {"none", "retained", "expired", "undone"}]
  BY DEF SetsOK
<1>. QED
  BY <1>1 DEF SetsOK

LEMMA AskUndoTyped ==
  ASSUME TypeInv, NEW h \in Handlers, NEW m \in Manifests, NEW selected \in SUBSET Files,
         AskUndo(h, m, selected)
  PROVE  TypeInv'
<1>. TypeOK
  BY DEF TypeInv
<1>0. LocalsOK /\ SetsOK
  BY TypedParts
<1>1. LocalsOK'
  <2>1. calls' \in 0..MaxCalls /\ "check" \in Places
    BY <1>0, BeginTyped, PlacesTyped DEF AskUndo
  <2>2. CASE UNCHANGED <<pc, set, chosen, todo>>
    BY <1>0, <2>1, <2>2 DEF AskUndo, LocalsOK
  <2>3. CASE /\ pc' = [pc EXCEPT ![h] = "check"]
             /\ set' = [set EXCEPT ![h] = m]
             /\ chosen' = [chosen EXCEPT ![h] = selected]
             /\ todo' = [todo EXCEPT ![h] = selected]
    BY <1>0, <2>1, <2>3 DEF AskUndo, LocalsOK
  <2>. QED
    BY <2>2, <2>3 DEF AskUndo
<1>2. SetsOK'
  <2>1. \/ UNCHANGED retention
        \/ retention' = [retention EXCEPT ![m] = [f \in Files |->
                           IF f \in selected THEN "expired" ELSE @[f]]]
    BY DEF AskUndo
  <2>2. retention' \in [Manifests -> [Files -> {"none", "retained", "expired", "undone"}]]
    BY <1>0, <2>1, RetentionTyped
  <2>3. UNCHANGED <<status, patchOf, base, record, elapsed, aged>>
    BY DEF AskUndo
  <2>. QED
    BY <1>0, <2>2, <2>3 DEF SetsOK
<1>3. TypeOK'
  BY <1>1, <1>2, TypedParts, TypedAfter, Stays DEF AskUndo
<1>4. /\ \A k \in Handlers \ {h} : /\ pc'[k] = pc[k] /\ app'[k] = app[k] /\ set'[k] = set[k]
                                  /\ chosen'[k] = chosen[k] /\ todo'[k] = todo[k]
      /\ \/ pc'[h] = "idle" /\ set'[h] = set[h]
         \/ /\ pc'[h] = "check" /\ set'[h] = m
            /\ chosen'[h] = selected /\ todo'[h] = selected
  BY TypedParts DEF AskUndo, Begin, LocalsOK
<1>5. /\ UNCHANGED <<status, patchOf, base, of>> /\ status[m] # "none"
      /\ selected \subseteq Touched(patchOf[m])
  BY DEF AskUndo, approvalVars
<1>6. PreparedInv'
  BY <1>4, <1>5 DEF TypeInv, PreparedInv, Touched, Applies
<1>7. SelectInv'
  BY <1>4, <1>5 DEF TypeInv, SelectInv, Touched, Selects
<1>. QED
  BY <1>3, <1>6, <1>7 DEF TypeInv

LEMMA CheckUndoTyped ==
  ASSUME TypeInv, NEW h \in Handlers, CheckUndo(h)
  PROVE  TypeInv'
<1>. TypeOK
  BY DEF TypeInv
<1>1. (Goto(h, "undo") /\ UNCHANGED since) \/ Leave(h)
  BY DEF CheckUndo
<1>2. TypeOK'
  BY <1>1, TypedParts, TypedAfter, Stays, GotoTyped, LeaveTyped, PlacesTyped DEF CheckUndo
<1>3. UNCHANGED <<status, patchOf, base, of>> /\ pc[h] = "check"
  BY DEF CheckUndo, setVars, approvalVars
<1>4. CASE Goto(h, "undo")
  <2>1. /\ Only(h) /\ pc'[h] = "undo" /\ set'[h] = set[h]
        /\ chosen'[h] = chosen[h] /\ todo'[h] = todo[h]
    BY <1>4, TypedParts, GotoOnly
  <2>2. chosen[h] \subseteq Touched(patchOf[set[h]]) /\ todo[h] \subseteq chosen[h]
    BY <1>3 DEF TypeInv, SelectInv, Selects
  <2>. QED
    BY <1>2, <1>3, <2>1, <2>2, StillTyped
<1>5. CASE Leave(h)
  BY <1>2, <1>3, <1>5, PlainTyped
<1>. QED
  BY <1>1, <1>4, <1>5

LEMMA UndoTyped ==
  ASSUME TypeInv, NEW h \in Handlers, NEW f \in Files, Undo(h, f)
  PROVE  TypeInv'
<1>. TypeOK
  BY DEF TypeInv
<1>. DEFINE m == set[h]
<1>1. pc[h] = "undo" /\ f \in todo[h] /\ UNCHANGED <<status, patchOf, base, of>>
  BY DEF Undo, setVars, approvalVars
<1>2. chosen[h] \subseteq Touched(patchOf[m]) /\ todo[h] \subseteq chosen[h]
  BY <1>1 DEF TypeInv, SelectInv, Selects
<1>3. m \in Manifests /\ base[m][f] \in FileStates
  BY TypedParts DEF SetsOK, LocalsOK
<1>4. Applies(patchOf[m], f, base[m][f].content)
  BY <1>1, <1>2, <1>3 DEF TypeInv, PreparedInv
<1>5. PICK x \in FileStates : SetFile(h, f, x) /\ inodes' \in Nat
  <2>1. CASE Kind[patchOf[m]][f] = "add"
    BY <2>1, TypedParts, AbsentTyped DEF Undo, DiskOK
  <2>2. CASE Kind[patchOf[m]][f] # "add"
    <3>1. base[m][f].content \in Contents /\ base[m][f].content # Absent
      BY <1>3, <1>4, <2>2, PresentTyped DEF Applies
    <3>. QED
      BY <2>2, <3>1, TypedParts, NewFileTyped DEF Undo, DiskOK, FreshInode
  <2>. QED
    BY <2>1, <2>2
<1>6. DiskOK' /\ SinceOK'
  BY <1>5, TypedParts, SetFileTyped DEF Undo
<1>7. LocalsOK'
  BY TypedParts, PlacesTyped DEF Undo, LocalsOK
<1>8. TypeOK'
  BY <1>6, <1>7, TypedParts, TypedAfter, Stays DEF Undo
<1>9. /\ Only(h) /\ set'[h] = set[h] /\ chosen'[h] = chosen[h]
      /\ todo'[h] \subseteq todo[h] /\ pc'[h] \in {"undo", "observe"}
  BY TypedParts DEF Undo, Only, LocalsOK
<1>. QED
  BY <1>1, <1>2, <1>8, <1>9, StillTyped

LEMMA UndoFailsTyped ==
  ASSUME TypeInv, NEW h \in Handlers, NEW f \in Files, UndoFails(h, f)
  PROVE  TypeInv'
<1>. TypeOK
  BY DEF TypeInv
<1>1. LocalsOK'
  BY TypedParts, PlacesTyped DEF UndoFails, LocalsOK
<1>2. TypeOK'
  BY <1>1, TypedParts, TypedAfter, Stays DEF UndoFails
<1>3. /\ Only(h) /\ set'[h] = set[h] /\ chosen'[h] = chosen[h] /\ pc[h] = "undo"
      /\ todo'[h] \subseteq chosen[h] /\ pc'[h] \in {"refuse", "rollback"}
  BY TypedParts DEF UndoFails, Only, LocalsOK
<1>4. chosen[h] \subseteq Touched(patchOf[set[h]])
  BY <1>3 DEF TypeInv, SelectInv, Selects
<1>. QED
  BY <1>2, <1>3, <1>4, StillTyped DEF UndoFails, setVars, approvalVars

LEMMA RollbackTyped ==
  ASSUME TypeInv, NEW h \in Handlers, NEW f \in Files, Rollback(h, f)
  PROVE  TypeInv'
<1>. TypeOK
  BY DEF TypeInv
<1>. DEFINE was == record[set[h]][f].content
<1>1. was \in Contents
  <2>1. record[set[h]][f] \in FileStates
    BY TypedParts DEF SetsOK, LocalsOK
  <2>. QED
    BY <2>1, PresentTyped
<1>2. PICK x \in FileStates : SetFile(h, f, x) /\ inodes' \in Nat
  BY <1>1, TypedParts, AbsentTyped, NewFileTyped DEF Rollback, DiskOK, FreshInode
<1>3. DiskOK' /\ SinceOK'
  BY <1>2, TypedParts, SetFileTyped DEF Rollback
<1>4. LocalsOK'
  BY TypedParts, PlacesTyped DEF Rollback, LocalsOK
<1>5. TypeOK'
  BY <1>3, <1>4, TypedParts, TypedAfter, Stays DEF Rollback
<1>6. /\ Only(h) /\ set'[h] = set[h] /\ chosen'[h] = chosen[h] /\ pc[h] = "rollback"
      /\ todo'[h] \subseteq todo[h] /\ pc'[h] \in {"refuse", "rollback"}
  BY TypedParts DEF Rollback, Only, LocalsOK
<1>7. chosen[h] \subseteq Touched(patchOf[set[h]]) /\ todo[h] \subseteq chosen[h]
  BY <1>6 DEF TypeInv, SelectInv, Selects
<1>. QED
  BY <1>5, <1>6, <1>7, StillTyped DEF Rollback, setVars, approvalVars

LEMMA ObserveTyped ==
  ASSUME TypeInv, NEW h \in Handlers, Observe(h)
  PROVE  TypeInv'
<1>. TypeOK /\ LocalsOK
  BY TypedParts DEF TypeInv
<1>1. PICK p \in {"consume", "refuse"} : Goto(h, p)
  BY DEF Observe
<1>2. TypeOK'
  BY <1>1, TypedParts, TypedAfter, Stays, GotoTyped, PlacesTyped DEF Observe
<1>3. UNCHANGED <<status, patchOf, base, of>> /\ pc[h] = "observe"
  BY DEF Observe, setVars, approvalVars
<1>4. /\ Only(h) /\ pc'[h] = p /\ set'[h] = set[h]
      /\ chosen'[h] = chosen[h] /\ todo'[h] = todo[h]
  BY <1>1, GotoOnly
<1>5. chosen[h] \subseteq Touched(patchOf[set[h]]) /\ todo[h] \subseteq chosen[h]
  BY <1>3 DEF TypeInv, SelectInv, Selects
<1>. QED
  BY <1>2, <1>3, <1>4, <1>5, StillTyped

LEMMA ConsumeTyped ==
  ASSUME TypeInv, NEW h \in Handlers, Consume(h)
  PROVE  TypeInv'
<1>. TypeOK
  BY DEF TypeInv
<1>1. SetsOK'
  BY TypedParts, RetentionTyped DEF Consume, SetsOK, LocalsOK
<1>2. TypeOK'
  BY <1>1, TypedParts, TypedAfter, Stays, LeaveTyped DEF Consume
<1>. QED
  BY <1>2, PlainTyped DEF Consume, approvalVars

\* Nobody's place changes.
LEMMA IdleTyped ==
  ASSUME TypeInv, UNCHANGED <<status, patchOf, base, of, pc, localVars, calls>>, TypeOK'
  PROVE  TypeInv'
BY DEF TypeInv, PreparedInv, SelectInv, Touched, Applies, localVars

LEMMA EnvironmentTyped == TypeInv /\ Environment => TypeInv'
<1>. SUFFICES ASSUME TypeInv, Environment PROVE TypeInv'
  OBVIOUS
<1>. TypeOK
  BY DEF TypeInv
<1>0. ASSUME Handled PROVE LocalsOK' /\ RunsOK'
  BY <1>0, TypedParts, Stays DEF Handled
<1>1. ASSUME NEW a \in Approvals, Sweep(a) \/ Lapse(a) PROVE TypeInv'
  <2>1. ApprovalsOK'
    BY <1>1, TypedParts DEF Sweep, Lapse, ApprovalsOK, Decisions
  <2>2. TypeOK'
    BY <1>0, <1>1, <2>1, TypedParts, TypedAfter, Stays DEF Sweep, Lapse
  <2>. QED
    BY <1>1, <2>2, IdleTyped DEF Sweep, Lapse, Handled, setVars
<1>2. ASSUME NEW m \in Manifests, Elapse(m) \/ Age(m) PROVE TypeInv'
  <2>1. SetsOK'
    BY <1>2, TypedParts DEF Elapse, Age, SetsOK
  <2>2. TypeOK'
    BY <1>0, <1>2, <2>1, TypedParts, TypedAfter, Stays DEF Elapse, Age
  <2>. QED
    BY <1>2, <2>2, IdleTyped DEF Elapse, Age, Handled, approvalVars
<1>3. ASSUME NEW f \in Files, Edit(f) PROVE TypeInv'
  <2>. DEFINE edited == [by |-> NoPatch, on |-> "edited"]
  <2>1. edited \in Contents /\ edited # Absent
    BY DEF Contents, Absent
  <2>2. file[f] \in FileStates /\ file[f].content \in Contents
    BY TypedParts, PresentTyped DEF DiskOK
  <2>3. PICK x \in FileStates : SetFile(NoHandler, f, x) /\ inodes' \in Nat
    <3>1. CASE SetFile(NoHandler, f, Gone) /\ UNCHANGED inodes
      BY <3>1, TypedParts, AbsentTyped DEF DiskOK
    <3>2. CASE /\ file[f] # Gone /\ UNCHANGED inodes
               /\ SetFile(NoHandler, f, [file[f] EXCEPT !.content = edited])
      <4>1. [file[f] EXCEPT !.content = edited] \in FileStates
        BY <2>1, <2>2, <3>2 DEF FileStates, Gone
      <4>. QED
        BY <3>2, <4>1, TypedParts DEF DiskOK
    <3>3. CASE /\ FreshInode
               /\ \E c \in {file[f].content, edited} \ {Absent} :
                    SetFile(NoHandler, f, [content |-> c, inode |-> inodes + 1])
      BY <2>1, <2>2, <3>3, TypedParts, NewFileTyped DEF DiskOK, FreshInode
    <3>. QED
      BY <1>3, <3>1, <3>2, <3>3 DEF Edit
  <2>4. edits' \in 0..MaxEdits
    BY <1>3, TypedParts, ConstantsAssumption DEF Edit, DiskOK
  <2>5. DiskOK' /\ SinceOK'
    BY <2>3, <2>4, TypedParts, NoticedTyped DEF SetFile, DiskOK, SinceOK
  <2>6. TypeOK'
    BY <1>0, <1>3, <2>5, TypedParts, TypedAfter, Stays DEF Edit
  <2>. QED
    BY <1>3, <2>6, IdleTyped DEF Edit, Handled, setVars, approvalVars
<1>. QED
  BY <1>1, <1>2, <1>3 DEF Environment

LEMMA TypeNext == TypeInv /\ [Next]_vars => TypeInv'
<1>. SUFFICES ASSUME TypeInv, [Next]_vars PROVE TypeInv'
  OBVIOUS
<1>1. ASSUME NEW h \in Handlers, ApproveStep(h) PROVE TypeInv'
  BY <1>1, ReadingTyped, SpoilTyped, ResolveTyped, ClaimTyped, PlanTyped, AttachTyped,
     ConcludeTyped, FinishTyped, CompleteTyped DEF ApproveStep
<1>2. ASSUME NEW h \in Handlers, UndoStep(h) PROVE TypeInv'
  BY <1>2, CheckUndoTyped, ObserveTyped, ConcludeTyped, ConsumeTyped DEF UndoStep
<1>3. ASSUME NEW h \in Handlers, NEW f \in Files, FileStep(h, f) PROVE TypeInv'
  BY <1>3, WriteTyped, WriteFailsTyped, UndoTyped, UndoFailsTyped, RollbackTyped
     DEF FileStep
<1>4. ASSUME NEW h \in Handlers, Request(h) PROVE TypeInv'
  BY <1>4, ApproveTyped, RejectTyped, ReplaceTyped, FinishTyped, PreviewTyped,
     AskUndoTyped DEF Request
<1>5. ASSUME NEW h \in Handlers, Crash(h) PROVE TypeInv'
  BY <1>5, ConcludeTyped
<1>6. CASE UNCHANGED vars
  <2>1. TypeOK'
    BY <1>6 DEF TypeInv, TypeOK, vars, diskVars, setVars, approvalVars, localVars
  <2>. QED
    BY <1>6, <2>1, IdleTyped DEF vars, setVars, approvalVars
<1>. QED
  BY <1>1, <1>2, <1>3, <1>4, <1>5, <1>6, EnvironmentTyped DEF Next

\* Every variable of the files, the change sets, the approvals and the handlers
\* keeps its type; in particular a path has a content exactly if it has an inode,
\* whatever is applied, torn, undone or rolled back.
THEOREM TypeCorrect == Spec => []TypeOK
<1>1. TypeInv => TypeOK
  BY DEF TypeInv
<1>. QED
  BY <1>1, InitTyped, TypeNext, PTL DEF Spec

-----------------------------------------------------------------------------
(* One execution.                                                          *)

\* Claimed approvals stay claimed, and superseded ones superseded.
Onward ==
  \A a \in Approvals :
    /\ approval[a] \notin Unused => approval'[a] \notin Unused
    /\ approval[a] \in Void => approval'[a] = approval[a]

\* The handler neither begins to execute nor advances beyond the plan, and an undo
\* begins with a change set that is applied.
Tame(k) ==
  /\ pc'[k] \in Executing => /\ pc[k] \in Executing /\ app'[k] = app[k]
                             /\ pc'[k] \in Ahead <=> pc[k] \in Ahead
  /\ pc'[k] \in Undoing => Applied

LEMMA QuietExec ==
  ASSUME TypeInv, ExecInv, Onward, UNCHANGED runs, \A k \in Handlers : Tame(k),
         \A m \in Manifests : status'[m] = "applied" => status[m] = "applied"
  PROVE  ExecInv'
<1>. ApprovalInv /\ ExecutorInv /\ DoneInv
  BY DEF ExecInv
<1>1. ApprovalInv'
  BY DEF ApprovalInv, Onward, Unused, Void
<1>2. ExecutorInv'
  <2>1. app \in [Handlers -> Approvals]
    BY TypedParts DEF TypeInv, LocalsOK
  <2>. QED
    BY <2>1 DEF ExecutorInv, Onward, Tame
<1>3. DoneInv'
  <2>1. Applied' => Applied
    BY DEF Applied, Tame
  <2>. QED
    BY <2>1 DEF DoneInv, Tame
<1>. QED
  BY <1>1, <1>2, <1>3 DEF ExecInv

\* A step of one handler that leaves the approvals alone.
LEMMA QuietStep ==
  ASSUME TypeInv, ExecInv, Onward, UNCHANGED runs, NEW h \in Handlers, Only(h), Tame(h),
         \A m \in Manifests : status'[m] = "applied" => status[m] = "applied"
  PROVE  ExecInv'
<1>1. ASSUME NEW k \in Handlers \ {h} PROVE Tame(k)
  BY DEF Only, Tame, Applied
<1>. QED
  BY <1>1, QuietExec

LEMMA SameOnward == UNCHANGED approval => Onward
BY DEF Onward

LEMMA AwayTame ==
  ASSUME NEW h \in Handlers, pc'[h] \notin Executing, pc'[h] \notin Undoing
  PROVE  Tame(h)
BY DEF Tame

LEMMA UndoingTame ==
  ASSUME NEW h \in Handlers, pc[h] \in Undoing, pc'[h] \notin Executing
  PROVE  Tame(h)
BY DEF Tame, Applied

LEMMA ResolvedOnward ==
  ASSUME TypeInv, NEW a \in Approvals, NEW d \in {"approved_once", "rejected"}, Resolved(a, d)
  PROVE  Onward
BY TypedParts DEF TypeInv, ApprovalsOK, Resolved, Onward, Unused, Void

LEMMA ResolveExec ==
  ASSUME TypeInv, ExecInv, NEW h \in Handlers, Resolve(h)
  PROVE  ExecInv'
<1>. LocalsOK
  BY TypedParts DEF TypeInv
<1>1. Onward
  BY ResolvedOnward DEF Resolve, LocalsOK
<1>2. Only(h) /\ pc'[h] \in {"claim", "idle"}
  BY GotoOnly, LeaveOnly DEF Resolve
<1>3. Tame(h)
  BY <1>2, AwayTame DEF Executing, Ahead, Undoing
<1>. QED
  BY <1>1, <1>2, <1>3, QuietStep DEF Resolve, setVars

LEMMA ClaimExec ==
  ASSUME TypeInv, ExecInv, NEW h \in Handlers, Claim(h)
  PROVE  ExecInv'
<1>. DEFINE a == app[h]
<1>. LocalsOK /\ ApprovalsOK /\ a \in Approvals
  BY TypedParts DEF TypeInv, LocalsOK
<1>. ApprovalInv /\ ExecutorInv /\ DoneInv
  BY DEF ExecInv
<1>1. CASE approval[a] = "approved_once" /\ ~elapsed[of[a]]
  <2>1. /\ approval' = [approval EXCEPT ![a] = "consuming"]
        /\ Only(h) /\ pc'[h] = "reload" /\ app' = app
        /\ UNCHANGED <<runs, status>>
    BY <1>1, GotoOnly DEF Claim, setVars
  <2>2. runs[a] = 0 /\ \A b \in Approvals \ {a} : approval[b] \in Void
    BY <1>1 DEF ApprovalInv, Unused, Void
  <2>3. \A b \in Approvals : runs[b] = 0
    BY <2>2 DEF ApprovalInv, Unused, Void
  <2>4. ApprovalInv'
    BY <2>1, <2>2, <2>3 DEF ApprovalInv, ApprovalsOK
  <2>5. \A k \in Handlers : pc[k] \notin Executing
    <3>1. ASSUME NEW k \in Handlers, pc[k] \in Executing PROVE FALSE
      <4>1. approval[app[k]] \notin Unused /\ app[k] \in Approvals
        BY <3>1 DEF ExecutorInv, LocalsOK
      <4>. QED
        BY <1>1, <2>2, <4>1 DEF Unused, Void
    <3>. QED
      BY <3>1
  <2>6. ExecutorInv'
    <3>1. approval'[a] = "consuming" /\ "consuming" \notin Unused /\ pc'[h] \in Ahead
      BY <2>1 DEF ApprovalsOK, Unused, Ahead
    <3>2. \A k \in Handlers : pc'[k] \in Executing => k = h
      BY <2>1, <2>5 DEF Only
    <3>. QED
      BY <2>1, <2>2, <3>1, <3>2 DEF ExecutorInv
  <2>7. DoneInv'
    <3>1. ~Applied
      BY <2>3 DEF DoneInv
    <3>2. ~Applied'
      BY <2>1, <3>1 DEF Applied, Only, Undoing
    <3>. QED
      BY <3>2 DEF DoneInv
  <2>. QED
    BY <2>4, <2>6, <2>7 DEF ExecInv
<1>2. CASE ~(approval[a] = "approved_once" /\ ~elapsed[of[a]])
  <2>1. /\ approval' = [approval EXCEPT ![a] =
                          IF elapsed[of[a]] /\ @ = "approved_once" THEN "expired" ELSE @]
        /\ Only(h) /\ pc'[h] = "idle" /\ UNCHANGED <<runs, status>>
    BY <1>2, LeaveOnly DEF Claim, setVars
  <2>2. Onward
    BY <2>1 DEF Onward, Unused, Void, ApprovalsOK
  <2>3. Tame(h)
    BY <2>1, AwayTame DEF Executing, Ahead, Undoing
  <2>. QED
    BY <2>1, <2>2, <2>3, QuietStep
<1>. QED
  BY <1>1, <1>2

LEMMA PlanExec ==
  ASSUME TypeInv, ExecInv, NEW h \in Handlers, Plan(h)
  PROVE  ExecInv'
<1>. DEFINE a == app[h]
<1>. LocalsOK /\ RunsOK /\ a \in Approvals
  BY TypedParts DEF TypeInv, LocalsOK
<1>. ApprovalInv /\ ExecutorInv /\ DoneInv
  BY DEF ExecInv
<1>1. /\ runs' = [runs EXCEPT ![a] = @ + 1]
      /\ Only(h) /\ pc[h] = "plan" /\ pc'[h] \in {"attach", "write", "mark"}
      /\ UNCHANGED <<approval, status, app>>
  BY DEF Plan, Only, LocalsOK, approvalVars, setVars
<1>2. pc[h] \in Executing /\ pc[h] \in Ahead /\ pc'[h] \in Executing /\ pc'[h] \notin Ahead
  BY <1>1 DEF Executing, Ahead
<1>3. approval[a] \notin Unused /\ runs[a] = 0
  BY <1>2 DEF ExecutorInv
<1>4. runs'[a] = 1 /\ \A b \in Approvals \ {a} : runs'[b] = runs[b]
  BY <1>1, <1>3 DEF RunsOK
<1>5. ApprovalInv'
  BY <1>1, <1>3, <1>4 DEF ApprovalInv
<1>6. \A k \in Handlers : pc'[k] \in Executing => k = h
  BY <1>1, <1>2 DEF ExecutorInv, Only
<1>7. ExecutorInv'
  BY <1>1, <1>2, <1>3, <1>4, <1>6 DEF ExecutorInv
<1>8. DoneInv'
  <2>1. ~Applied
    BY <1>2 DEF DoneInv
  <2>2. ~Applied'
    BY <1>1, <2>1 DEF Applied, Only, Undoing
  <2>. QED
    BY <2>2 DEF DoneInv
<1>. QED
  BY <1>5, <1>7, <1>8 DEF ExecInv

LEMMA MarkExec ==
  ASSUME TypeInv, ExecInv, NEW h \in Handlers, Mark(h)
  PROVE  ExecInv'
<1>. LocalsOK /\ app[h] \in Approvals
  BY TypedParts DEF TypeInv, LocalsOK
<1>. ApprovalInv /\ ExecutorInv /\ DoneInv
  BY DEF ExecInv
<1>1. /\ pc[h] = "mark" /\ pc'[h] = "conclude" /\ Only(h)
      /\ UNCHANGED <<approval, runs, app>>
  BY GotoOnly DEF Mark, approvalVars
<1>2. pc[h] \in Executing /\ pc[h] \notin Ahead /\ pc'[h] \notin Executing
  BY <1>1 DEF Executing, Ahead
<1>3. runs[app[h]] = 1
  BY <1>2 DEF ExecutorInv
<1>4. \A k \in Handlers : pc'[k] \notin Executing
  BY <1>1, <1>2 DEF ExecutorInv, Only
<1>. QED
  BY <1>1, <1>3, <1>4 DEF ExecInv, ApprovalInv, ExecutorInv, DoneInv

LEMMA ReplaceExec ==
  ASSUME TypeInv, ExecInv, NEW h \in Handlers, NEW new \in Approvals, Replace(h, new)
  PROVE  ExecInv'
<1>. DEFINE a == app[h]
<1>. LocalsOK /\ ApprovalsOK /\ a \in Approvals
  BY TypedParts DEF TypeInv, LocalsOK
<1>. ApprovalInv /\ ExecutorInv /\ DoneInv
  BY DEF ExecInv
<1>1. /\ Only(h) /\ pc'[h] = "idle" /\ UNCHANGED <<runs, status>>
  BY LeaveOnly DEF Replace, setVars
<1>2. CASE ~Resolves(a)
  BY <1>1, <1>2, QuietStep, SameOnward, AwayTame
     DEF Replace, Executing, Ahead, Undoing
<1>3. CASE Resolves(a)
  <2>1. /\ approval[a] = "pending" /\ approval[new] = "none" /\ a # new
        /\ approval'[a] = "superseded" /\ approval'[new] = "pending"
        /\ \A b \in Approvals \ {a, new} : approval'[b] = approval[b]
    BY <1>3 DEF Replace, Resolves, Superseded, ApprovalsOK
  <2>2. \A b \in Approvals \ {new} : approval'[b] \in Void
    BY <2>1 DEF ApprovalInv, Void
  <2>3. ApprovalInv'
    BY <1>1, <2>1, <2>2 DEF ApprovalInv, Unused
  <2>4. \A k \in Handlers : pc'[k] \notin Executing
    <3>1. \A b \in Approvals : approval[b] \in Unused
      BY <2>1 DEF ApprovalInv, Unused, Void
    <3>. QED
      BY <1>1, <3>1 DEF ExecutorInv, Only, LocalsOK, Executing, Ahead
  <2>5. Applied' => Applied
    BY <1>1 DEF Applied, Only, Undoing
  <2>. QED
    BY <1>1, <2>3, <2>4, <2>5 DEF ExecInv, ExecutorInv, DoneInv
<1>. QED
  BY <1>2, <1>3

\* The other steps of an approval.
LEMMA ApproveExec ==
  ASSUME TypeInv, ExecInv, NEW h \in Handlers, ApproveStep(h) \/ Crash(h)
  PROVE  ExecInv'
<1>. LocalsOK /\ ApprovalsOK /\ SetsOK
  BY TypedParts DEF TypeInv
<1>. USE DEF Executing, Ahead, Undoing
<1>1. CASE Inspect(h)
  <2>1. Only(h) /\ pc'[h] \in {"resolve", "spoil"} /\ UNCHANGED <<approval, runs, status>>
    BY <1>1, GotoOnly DEF Inspect, approvalVars, setVars
  <2>. QED
    BY <2>1, QuietStep, SameOnward, AwayTame
<1>2. CASE Spoil(h)
  <2>1. /\ Only(h) /\ pc'[h] = "idle" /\ UNCHANGED <<approval, runs>>
        /\ status' = [status EXCEPT ![set[h]] = "conflicted"]
    BY <1>2, LeaveOnly DEF Spoil, approvalVars
  <2>2. \A m \in Manifests : status'[m] = "applied" => status[m] = "applied"
    BY <2>1 DEF SetsOK
  <2>. QED
    BY <2>1, <2>2, QuietStep, SameOnward, AwayTame
<1>3. CASE Reload(h) \/ Reinspect(h)
  <2>1. /\ Only(h) /\ pc[h] \in Ahead /\ pc'[h] \in {"reinspect", "plan", "spoil"}
        /\ UNCHANGED <<approval, runs, status, app>>
    BY <1>3, GotoOnly DEF Reload, Reinspect, approvalVars, setVars
  <2>2. Tame(h)
    BY <2>1 DEF Tame
  <2>. QED
    BY <2>1, <2>2, QuietStep, SameOnward
<1>4. CASE Attach(h)
  <2>1. /\ Only(h) /\ pc[h] = "attach" /\ pc'[h] = "mark"
        /\ UNCHANGED <<approval, runs, status, app>>
    BY <1>4 DEF Attach, Only, LocalsOK, approvalVars
  <2>2. Tame(h)
    BY <2>1 DEF Tame
  <2>. QED
    BY <2>1, <2>2, QuietStep, SameOnward
<1>5. CASE Conclude(h) \/ Dismiss(h) \/ Crash(h)
  <2>1. /\ Only(h) /\ pc'[h] \in {"finish", "idle"} /\ UNCHANGED <<approval, runs, status>>
    BY <1>5, GotoOnly, LeaveOnly DEF Conclude, Dismiss, Crash, approvalVars, setVars
  <2>. QED
    BY <2>1, QuietStep, SameOnward, AwayTame
<1>6. CASE Finish(h)
  <2>1. /\ Only(h) /\ pc'[h] = "complete" /\ UNCHANGED <<approval, runs, status>>
    BY <1>6 DEF Finish, Only, LocalsOK, approvalVars, setVars
  <2>. QED
    BY <2>1, QuietStep, SameOnward, AwayTame
<1>7. CASE Complete(h)
  <2>1. Only(h) /\ pc'[h] = "idle" /\ UNCHANGED <<runs, status>>
    BY <1>7, LeaveOnly DEF Complete, setVars
  <2>2. Onward
    BY <1>7 DEF Complete, ApprovalsOK, LocalsOK, Onward, Unused, Void
  <2>. QED
    BY <2>1, <2>2, QuietStep, AwayTame
<1>. QED
  BY <1>1, <1>2, <1>3, <1>4, <1>5, <1>6, <1>7, ResolveExec, ClaimExec, PlanExec, MarkExec
     DEF ApproveStep

LEMMA RequestExec ==
  ASSUME TypeInv, ExecInv, NEW h \in Handlers, Request(h)
  PROVE  ExecInv'
<1>. LocalsOK /\ ApprovalsOK /\ SetsOK
  BY TypedParts DEF TypeInv
<1>. USE DEF Executing, Ahead, Undoing
<1>1. ASSUME NEW a \in Approvals, Approve(h, a) PROVE ExecInv'
  <2>1. Only(h) /\ pc'[h] \in {"inspect", "spoil"} /\ UNCHANGED <<approval, runs, status>>
    BY <1>1 DEF Approve, Only, LocalsOK, approvalVars, setVars
  <2>. QED
    BY <2>1, QuietStep, SameOnward, AwayTame
<1>2. ASSUME NEW a \in Approvals, Reject(h, a) PROVE ExecInv'
  <2>1. Only(h) /\ pc'[h] \in {"idle", "dismiss"} /\ UNCHANGED <<runs, status>>
    BY <1>2 DEF Reject, Begin, Only, LocalsOK, setVars
  <2>2. Onward
    BY <1>2, ResolvedOnward DEF Reject
  <2>. QED
    BY <2>1, <2>2, QuietStep, AwayTame
<1>3. ASSUME CancelTask(h) PROVE ExecInv'
  <2>1. Only(h) /\ pc'[h] = "cancel" /\ UNCHANGED <<approval, runs, status>>
    BY <1>3 DEF CancelTask, Only, LocalsOK, localVars, approvalVars, setVars
  <2>. QED
    BY <2>1, QuietStep, SameOnward, AwayTame
<1>4. ASSUME NEW a \in Approvals, NEW p \in Patches, NEW m \in Manifests, Preview(h, a, p, m)
      PROVE  ExecInv'
  <2>1. Only(h) /\ pc'[h] \in {"idle", "replace"} /\ UNCHANGED <<approval, runs>>
    BY <1>4 DEF Preview, Begin, Only, LocalsOK, approvalVars
  <2>2. \A k \in Manifests : status'[k] = "applied" => status[k] = "applied"
    BY <1>4, TypedParts, PersistedFirm DEF Preview, TypeInv
  <2>. QED
    BY <2>1, <2>2, QuietStep, SameOnward, AwayTame
<1>5. ASSUME NEW m \in Manifests, NEW selected \in SUBSET Files, AskUndo(h, m, selected)
      PROVE  ExecInv'
  <2>1. /\ \A k \in Handlers \ {h} : pc'[k] = pc[k] /\ app'[k] = app[k]
        /\ pc'[h] \in {"idle", "check"} /\ UNCHANGED <<approval, runs, status>>
    BY <1>5 DEF AskUndo, Begin, LocalsOK, approvalVars
  <2>2. Applied
    BY <1>5 DEF AskUndo, Applied
  <2>3. \A k \in Handlers : Tame(k)
    BY <2>1, <2>2 DEF Tame
  <2>. QED
    BY <2>1, <2>3, QuietExec, SameOnward
<1>. QED
  BY <1>1, <1>2, <1>3, <1>4, <1>5, ReplaceExec DEF Request

LEMMA UndoExec ==
  ASSUME TypeInv, ExecInv, NEW h \in Handlers, UndoStep(h)
  PROVE  ExecInv'
<1>. LocalsOK
  BY TypedParts DEF TypeInv
<1>1. /\ Only(h) /\ pc[h] \in Undoing
      /\ pc'[h] \in {"idle", "undo", "consume", "refuse"}
      /\ UNCHANGED <<approval, runs, status>>
  BY GotoOnly, LeaveOnly
     DEF UndoStep, CheckUndo, Observe, Refuse, Consume, Undoing, approvalVars, setVars
<1>. QED
  BY <1>1, QuietStep, SameOnward, UndoingTame DEF Executing, Ahead

LEMMA FileExec ==
  ASSUME TypeInv, ExecInv, NEW h \in Handlers, NEW f \in Files, FileStep(h, f)
  PROVE  ExecInv'
<1>. LocalsOK
  BY TypedParts DEF TypeInv
<1>1. UNCHANGED <<approval, runs, status>>
  BY DEF FileStep, Write, WriteFails, Undo, UndoFails, Rollback, approvalVars, setVars
<1>2. CASE Write(h, f)
  <2>1. Only(h) /\ pc[h] = "write" /\ pc'[h] \in {"write", "attach"} /\ app' = app
    BY <1>2 DEF Write, Only, LocalsOK
  <2>2. Tame(h)
    BY <2>1 DEF Tame, Executing, Ahead, Undoing
  <2>. QED
    BY <1>1, <2>1, <2>2, QuietStep, SameOnward
<1>3. CASE WriteFails(h, f)
  <2>1. Only(h) /\ pc'[h] = "idle"
    BY <1>3, ExitOnly, LeaveOnly DEF WriteFails
  <2>. QED
    BY <1>1, <2>1, QuietStep, SameOnward, AwayTame DEF Executing, Ahead, Undoing
<1>4. CASE Undo(h, f) \/ UndoFails(h, f) \/ Rollback(h, f)
  <2>1. /\ Only(h) /\ pc[h] \in Undoing
        /\ pc'[h] \in {"undo", "observe", "refuse", "rollback"}
    BY <1>4 DEF Undo, UndoFails, Rollback, Only, LocalsOK, Undoing
  <2>. QED
    BY <1>1, <2>1, QuietStep, SameOnward, UndoingTame DEF Executing, Ahead
<1>. QED
  BY <1>2, <1>3, <1>4 DEF FileStep

LEMMA EnvironmentExec ==
  ASSUME TypeInv, ExecInv, Environment \/ UNCHANGED vars
  PROVE  ExecInv'
<1>1. \A k \in Handlers : pc'[k] = pc[k] /\ app'[k] = app[k]
  BY DEF Environment, Sweep, Lapse, Elapse, Age, Edit, Handled, localVars, vars
<1>2. UNCHANGED <<runs, status>>
  BY DEF Environment, Sweep, Lapse, Elapse, Age, Edit, Handled, setVars, vars
<1>3. Onward
  BY TypedParts DEF TypeInv, ApprovalsOK, Onward, Unused, Void,
     Environment, Sweep, Lapse, Elapse, Age, Edit, approvalVars, vars
<1>4. \A k \in Handlers : Tame(k)
  BY <1>1 DEF Tame, Applied
<1>. QED
  BY <1>2, <1>3, <1>4, QuietExec

LEMMA ExecNext == TypeInv /\ ExecInv /\ [Next]_vars => ExecInv'
BY ApproveExec, RequestExec, UndoExec, FileExec, EnvironmentExec DEF Next

LEMMA InitExec == Init => ExecInv
BY ConstantsAssumption DEF Init, ExecInv, ApprovalInv, ExecutorInv, DoneInv, Applied,
   Unused, Void, Executing, Ahead, Undoing

LEMMA ExecInvariant == Spec => [](TypeInv /\ ExecInv)
BY InitTyped, InitExec, TypeNext, ExecNext, PTL DEF Spec

\* However many requests approve, replace, retry or crash, and whatever lapses: the
\* file changes of a task are executed at most once, under one approval.
THEOREM ExecutesOnce == Spec => []OneExecution
<1>1. TypeInv /\ ExecInv => OneExecution
  <2>. SUFFICES ASSUME TypeInv, ExecInv PROVE OneExecution
    OBVIOUS
  <2>1. \A a \in Approvals : runs[a] \in {0, 1} /\ (approval[a] \in Void => runs[a] = 0)
    BY DEF ExecInv, ApprovalInv, Unused, Void
  <2>. QED
    BY <2>1 DEF ExecInv, ApprovalInv, OneExecution
<1>. QED
  BY <1>1, ExecInvariant, PTL

-----------------------------------------------------------------------------
(* Files.                                                                  *)

\* A step of h tells the others of every file it changes.
Tells(h) ==
  \A k \in Handlers \ {h} :
    /\ since[k] \subseteq since'[k]
    /\ \A f \in Files : file'[f] = file[f] \/ f \in since'[k]
                         \/ pc[k] \notin Claiming \cup Undoing

LEMMA SilentTells ==
  ASSUME SinceOK, NEW h \in Handlers, UNCHANGED file,
         since' \in {since, [since EXCEPT ![h] = {}]}
  PROVE  Tells(h)
BY DEF Tells, SinceOK

LEMMA SetFileTells ==
  ASSUME DiskOK, SinceOK, NEW h, NEW f \in Files, NEW x, SetFile(h, f, x)
  PROVE  /\ Tells(h) /\ \A g \in Files \ {f} : file'[g] = file[g]
         /\ file'[f] = x /\ (h \in Handlers => since'[h] = since[h])
BY DEF Tells, DiskOK, SinceOK, SetFile, Noticed

\* No step changes what an existing change set was prepared from.
LEMMA NextFirm == TypeInv /\ [Next]_vars => Firm
<1>. SUFFICES ASSUME TypeInv, [Next]_vars PROVE Firm
  OBVIOUS
<1>1. CASE UNCHANGED <<status, patchOf, base>>
  BY <1>1 DEF Firm
<1>2. ASSUME NEW h \in Handlers, Spoil(h) \/ Mark(h) PROVE Firm
  BY <1>2, TypedParts DEF TypeInv, SetsOK, Spoil, Mark, Firm
<1>3. ASSUME NEW h \in Handlers, NEW a \in Approvals, NEW p \in Patches, NEW m \in Manifests,
             Preview(h, a, p, m)
      PROVE  Firm
  BY <1>3, TypedParts, PersistedFirm DEF TypeInv, Preview
<1>4. ASSUME NEW h \in Handlers, ApproveStep(h) PROVE Firm
  BY <1>1, <1>2, <1>4 DEF ApproveStep, Inspect, Resolve, Claim, Reload, Reinspect, Plan,
     Attach, Conclude, Finish, Complete, Dismiss, setVars
<1>5. ASSUME NEW h \in Handlers, NEW f \in Files, FileStep(h, f) PROVE Firm
  BY <1>1, <1>5 DEF FileStep, Write, WriteFails, Undo, UndoFails, Rollback, setVars
<1>6. ASSUME NEW h \in Handlers, Request(h) PROVE Firm
  BY <1>1, <1>3, <1>6 DEF Request, Approve, Reject, Replace, CancelTask, AskUndo, setVars
<1>7. ASSUME NEW h \in Handlers, UndoStep(h) \/ Crash(h) PROVE Firm
  BY <1>1, <1>7 DEF UndoStep, CheckUndo, Observe, Refuse, Consume, Crash, setVars
<1>8. CASE Environment
  BY <1>1, <1>8 DEF Environment, Sweep, Lapse, Elapse, Age, Edit, setVars
<1>. QED
  BY <1>1, <1>4, <1>5, <1>6, <1>7, <1>8 DEF Next, vars, setVars

\* What others do leaves a handler's row true, the applied record being nobody's to
\* change while one undoes.
LEMMA OtherRow ==
  ASSUME TypeInv, Firm, DiskInv, NEW k \in Handlers,
         pc'[k] = pc[k], set'[k] = set[k], chosen'[k] = chosen[k], todo'[k] = todo[k],
         since[k] \subseteq since'[k],
         \A f \in Files : file'[f] = file[f] \/ f \in since'[k]
                          \/ pc[k] \notin Claiming \cup Undoing,
         pc[k] \in Undoing => record' = record
  PROVE  DiskRow(k)'
<1>1. /\ patchOf'[set[k]] = patchOf[set[k]] /\ base'[set[k]] = base[set[k]]
  BY TypedParts DEF Firm, TypeInv, PreparedInv, LocalsOK
<1>2. chosen[k] \subseteq Files /\ todo[k] \subseteq Files
  BY TypedParts DEF TypeInv, LocalsOK
<1>3. DiskRow(k)
  BY DEF DiskInv
<1>4. pc[k] \in {"plan", "write"} =>
        \A f \in Files \ since'[k] : file'[f] = file[f] /\ f \notin since[k]
  BY DEF Claiming
<1>5. pc[k] \in {"undo", "observe", "consume", "rollback", "refuse"} =>
        /\ record' = record
        /\ \A f \in Files \ since'[k] : file'[f] = file[f] /\ f \notin since[k]
  BY DEF Undoing
<1>6. Touched(patchOf[set[k]]) \subseteq Files /\ Touched(patchOf[set[k]])' = Touched(patchOf[set[k]])
  BY <1>1 DEF Touched
<1>. QED
  BY <1>1, <1>2, <1>3, <1>4, <1>5, <1>6 DEF DiskRow, Undone, Unharmed

\* A step of h that leaves its own row true.
LEMMA OwnStep ==
  ASSUME TypeInv, DiskInv, [Next]_vars, NEW h \in Handlers, Only(h), Tells(h),
         record' = record \/ \A k \in Handlers : pc[k] \notin Undoing,
         DiskRow(h)'
  PROVE  DiskInv'
<1>1. Firm
  BY NextFirm
<1>2. ASSUME NEW k \in Handlers \ {h} PROVE DiskRow(k)'
  BY <1>1, OtherRow DEF Only, Tells
<1>. QED
  BY <1>2 DEF DiskInv

Rows == {"plan", "write", "undo", "observe", "consume", "rollback", "refuse"}

LEMMA AwayRow ==
  ASSUME NEW h \in Handlers, pc'[h] \notin Rows
  PROVE  DiskRow(h)'
BY DEF DiskRow, Rows

LEMMA ReinspectRow ==
  ASSUME TypeInv, NEW h \in Handlers, Reinspect(h)
  PROVE  DiskRow(h)'
<1>. LocalsOK
  BY TypedParts DEF TypeInv
<1>1. CASE AsPrepared(set[h])
  <2>1. /\ pc'[h] = "plan" /\ set' = set
        /\ UNCHANGED <<file, patchOf, base, since>>
    BY <1>1, GotoOnly DEF Reinspect, diskVars, setVars
  <2>. QED
    BY <1>1, <2>1 DEF DiskRow, AsPrepared, Touched
<1>2. CASE ~AsPrepared(set[h])
  BY <1>2, GotoOnly, AwayRow DEF Reinspect, Rows
<1>. QED
  BY <1>1, <1>2

LEMMA PlanRow ==
  ASSUME TypeInv, DiskInv, NEW h \in Handlers, Plan(h)
  PROVE  DiskRow(h)'
<1>. LocalsOK
  BY TypedParts DEF TypeInv
<1>. DEFINE m == set[h]
<1>1. CASE pc'[h] = "write"
  <2>1. /\ pc[h] = "plan" /\ set'[h] = m /\ todo'[h] = Touched(patchOf[m])
        /\ UNCHANGED <<file, base, since>>
    BY <1>1 DEF Plan, LocalsOK, diskVars, setVars
  <2>2. \A f \in todo'[h] \ since'[h] : file'[f] = base'[m][f]
    BY <2>1 DEF DiskInv, DiskRow
  <2>. QED
    BY <1>1, <2>1, <2>2 DEF DiskRow
<1>2. CASE pc'[h] # "write"
  <2>1. pc'[h] \in {"attach", "mark"}
    BY <1>2 DEF Plan, LocalsOK
  <2>. QED
    BY <2>1, AwayRow DEF Rows
<1>. QED
  BY <1>1, <1>2

LEMMA WriteRow ==
  ASSUME TypeInv, DiskInv, NEW h \in Handlers, NEW f \in Files, Write(h, f)
  PROVE  DiskRow(h)' /\ Tells(h) /\ (file[f] = base[set[h]][f] \/ f \in since[h])
<1>. LocalsOK /\ DiskOK /\ SinceOK /\ DiskRow(h)
  BY TypedParts DEF TypeInv, DiskInv
<1>1. PICK x : SetFile(h, f, x)
  BY DEF Write
<1>2. /\ Tells(h) /\ since'[h] = since[h]
      /\ \A g \in Files \ {f} : file'[g] = file[g]
  BY <1>1, SetFileTells
<1>3. /\ pc[h] = "write" /\ set' = set /\ f \in todo[h] /\ todo'[h] = todo[h] \ {f}
      /\ pc'[h] \in {"write", "attach"} /\ todo[h] \subseteq Files /\ base' = base
  BY DEF Write, LocalsOK, setVars
<1>4. DiskRow(h)'
  BY <1>2, <1>3 DEF DiskRow
<1>. QED
  BY <1>2, <1>3, <1>4 DEF DiskRow

LEMMA CheckUndoRow ==
  ASSUME TypeInv, NEW h \in Handlers, CheckUndo(h)
  PROVE  DiskRow(h)'
<1>. LocalsOK
  BY TypedParts DEF TypeInv
<1>1. CASE \A f \in chosen[h] : AsRecorded(set[h], f)
  <2>1. /\ pc[h] = "check" /\ pc'[h] = "undo" /\ set' = set /\ chosen' = chosen
        /\ todo' = todo /\ UNCHANGED <<file, record, since>>
    BY <1>1, GotoOnly DEF CheckUndo, diskVars, setVars
  <2>2. todo[h] = chosen[h]
    BY <2>1 DEF TypeInv, SelectInv, Selects
  <2>. QED
    BY <1>1, <2>1, <2>2 DEF DiskRow, AsRecorded
<1>2. CASE ~\A f \in chosen[h] : AsRecorded(set[h], f)
  BY <1>2, LeaveOnly, AwayRow DEF CheckUndo, Rows
<1>. QED
  BY <1>1, <1>2

LEMMA UndoRow ==
  ASSUME TypeInv, DiskInv, NEW h \in Handlers, NEW f \in Files, Undo(h, f)
  PROVE  DiskRow(h)' /\ Tells(h) /\ (file[f] = record[set[h]][f] \/ f \in since[h])
<1>. DEFINE m == set[h]
<1>. LocalsOK /\ DiskOK /\ SinceOK /\ DiskRow(h)
  BY TypedParts DEF TypeInv, DiskInv
<1>1. /\ pc[h] = "undo" /\ set' = set /\ chosen' = chosen
      /\ f \in todo[h] /\ todo'[h] = todo[h] \ {f}
      /\ pc'[h] = IF todo[h] = {f} THEN "observe" ELSE "undo"
      /\ chosen[h] \subseteq Files /\ UNCHANGED <<base, record>>
  BY DEF Undo, LocalsOK, setVars
<1>2. chosen[h] \subseteq Touched(patchOf[m]) /\ todo[h] \subseteq chosen[h]
  BY <1>1 DEF TypeInv, SelectInv, Selects
<1>3. PICK x : SetFile(h, f, x) /\ x.content = base[m][f].content
  <2>1. CASE Kind[patchOf[m]][f] = "add"
    <3>1. base[m][f].content = Absent
      BY <1>1, <1>2, <2>1 DEF TypeInv, PreparedInv, Applies, LocalsOK
    <3>. QED
      BY <2>1, <3>1 DEF Undo, Gone
  <2>2. CASE Kind[patchOf[m]][f] # "add"
    BY <2>2 DEF Undo
  <2>. QED
    BY <2>1, <2>2
<1>4. /\ Tells(h) /\ since'[h] = since[h] /\ file'[f].content = base[m][f].content
      /\ \A g \in Files \ {f} : file'[g] = file[g]
  BY <1>3, SetFileTells
<1>5. \A g \in (chosen[h] \ todo'[h]) \ since[h] : file'[g].content = base[m][g].content
  BY <1>1, <1>4 DEF DiskRow
<1>6. \A g \in todo'[h] \ since[h] : file'[g] = record[m][g]
  BY <1>1, <1>2, <1>4 DEF DiskRow
<1>7. DiskRow(h)'
  <2>1. CASE pc'[h] = "undo"
    BY <1>1, <1>4, <1>5, <1>6, <2>1 DEF DiskRow
  <2>2. CASE pc'[h] = "observe"
    BY <1>1, <1>4, <1>5, <2>2 DEF DiskRow, Undone
  <2>. QED
    BY <1>1, <2>1, <2>2
<1>. QED
  BY <1>1, <1>4, <1>7 DEF DiskRow

LEMMA ObserveRow ==
  ASSUME TypeInv, DiskInv, NEW h \in Handlers, Observe(h)
  PROVE  DiskRow(h)'
<1>. LocalsOK /\ DiskRow(h)
  BY TypedParts DEF TypeInv, DiskInv
<1>1. pc'[h] \in {"consume", "refuse"} /\ UNCHANGED <<set, chosen>>
  BY GotoOnly DEF Observe
<1>2. pc[h] = "observe" /\ UNCHANGED <<file, base, since>>
  BY DEF Observe, setVars, diskVars
<1>3. Undone(h) /\ Undone(h)'
  BY <1>1, <1>2 DEF DiskRow, Undone
<1>. QED
  BY <1>1, <1>3 DEF DiskRow

LEMMA UndoFailsRow ==
  ASSUME TypeInv, DiskInv, NEW h \in Handlers, NEW f \in Files, UndoFails(h, f)
  PROVE  DiskRow(h)'
<1>. LocalsOK /\ DiskRow(h)
  BY TypedParts DEF TypeInv, DiskInv
<1>1. /\ pc[h] = "undo" /\ set' = set /\ chosen' = chosen
      /\ todo'[h] = chosen[h] \ todo[h]
      /\ pc'[h] = IF chosen[h] = todo[h] THEN "refuse" ELSE "rollback"
      /\ UNCHANGED <<file, base, record, since>>
  BY DEF UndoFails, LocalsOK, setVars, diskVars
<1>2. todo[h] \subseteq chosen[h]
  BY <1>1 DEF TypeInv, SelectInv, Selects
<1>3. \A g \in (chosen'[h] \ todo'[h]) \ since'[h] : file'[g].content = record'[set'[h]][g].content
  BY <1>1, <1>2 DEF DiskRow
<1>. QED
  BY <1>1, <1>2, <1>3 DEF DiskRow, Unharmed

LEMMA RollbackRow ==
  ASSUME TypeInv, DiskInv, NEW h \in Handlers, NEW f \in Files, Rollback(h, f)
  PROVE  DiskRow(h)' /\ Tells(h)
<1>. DEFINE m == set[h]
<1>. LocalsOK /\ DiskOK /\ SinceOK /\ DiskRow(h)
  BY TypedParts DEF TypeInv, DiskInv
<1>1. /\ pc[h] = "rollback" /\ set' = set /\ chosen' = chosen
      /\ f \in todo[h] /\ todo'[h] = todo[h] \ {f}
      /\ pc'[h] = IF todo[h] = {f} THEN "refuse" ELSE "rollback"
      /\ chosen[h] \subseteq Files /\ UNCHANGED <<base, record>>
  BY DEF Rollback, LocalsOK, setVars
<1>2. todo[h] \subseteq chosen[h]
  BY <1>1 DEF TypeInv, SelectInv, Selects
<1>3. PICK x : SetFile(h, f, x) /\ x.content = record[m][f].content
  BY DEF Rollback, Gone
<1>4. /\ Tells(h) /\ since'[h] = since[h] /\ file'[f].content = record[m][f].content
      /\ \A g \in Files \ {f} : file'[g] = file[g]
  BY <1>3, SetFileTells
<1>5. \A g \in (chosen[h] \ todo'[h]) \ since[h] : file'[g].content = record[m][g].content
  BY <1>1, <1>4 DEF DiskRow
<1>6. DiskRow(h)'
  <2>1. CASE pc'[h] = "rollback"
    BY <1>1, <1>4, <1>5, <2>1 DEF DiskRow
  <2>2. CASE pc'[h] = "refuse"
    BY <1>1, <1>4, <1>5, <2>2 DEF DiskRow, Unharmed
  <2>. QED
    BY <1>1, <2>1, <2>2
<1>. QED
  BY <1>4, <1>6

LEMMA WriteFailsRow ==
  ASSUME TypeInv, NEW h \in Handlers, NEW f \in Files, WriteFails(h, f)
  PROVE  /\ DiskRow(h)' /\ Tells(h) /\ pc[h] = "write"
         /\ \A g \in Files \ {f} : file'[g] = file[g]
<1>. LocalsOK /\ DiskOK /\ SinceOK
  BY TypedParts DEF TypeInv
<1>1. pc'[h] = "idle" /\ pc[h] = "write"
  BY ExitOnly, LeaveOnly DEF WriteFails
<1>2. Tells(h) /\ \A g \in Files \ {f} : file'[g] = file[g]
  <2>1. CASE Leave(h) /\ UNCHANGED <<file, inodes>>
    BY <2>1, SilentTells DEF Leave
  <2>2. CASE ~(Leave(h) /\ UNCHANGED <<file, inodes>>)
    <3>1. /\ \A g \in Files \ {f} : file'[g] = file[g]
          /\ since' = [Noticed(h, f) EXCEPT ![h] = {}]
      BY <2>2 DEF WriteFails, DiskOK
    <3>. QED
      BY <3>1 DEF Tells, Noticed, SinceOK
  <2>. QED
    BY <2>1, <2>2
<1>. QED
  BY <1>1, <1>2, AwayRow DEF Rows

LEMMA ApproveOnly ==
  ASSUME LocalsOK, NEW h \in Handlers, ApproveStep(h) \/ UndoStep(h) \/ Crash(h)
  PROVE  /\ Only(h) /\ UNCHANGED file
         /\ since' \in {since, [since EXCEPT ![h] = {}]}
<1>1. CASE \/ Inspect(h) \/ Spoil(h) \/ Resolve(h) \/ Claim(h) \/ Reload(h) \/ Reinspect(h)
           \/ Mark(h) \/ Conclude(h) \/ Complete(h) \/ Dismiss(h) \/ UndoStep(h) \/ Crash(h)
  <2>1. (\E p : Goto(h, p) /\ UNCHANGED since) \/ Leave(h)
    BY <1>1 DEF Inspect, Spoil, Resolve, Claim, Reload, Reinspect, Mark, Conclude,
       Complete, Dismiss, UndoStep, CheckUndo, Observe, Refuse, Consume, Crash
  <2>2. UNCHANGED file
    BY <1>1 DEF Inspect, Spoil, Resolve, Claim, Reload, Reinspect, Mark, Conclude,
       Complete, Dismiss, UndoStep, CheckUndo, Observe, Refuse, Consume, Crash, diskVars
  <2>. QED
    BY <2>1, <2>2, GotoOnly, LeaveOnly DEF Leave
<1>2. CASE Plan(h) \/ Attach(h) \/ Finish(h)
  BY <1>2 DEF Plan, Attach, Finish, Only, LocalsOK, diskVars
<1>. QED
  BY <1>1, <1>2 DEF ApproveStep

LEMMA RequestOnly ==
  ASSUME LocalsOK, NEW h \in Handlers, Request(h)
  PROVE  /\ Only(h) /\ UNCHANGED <<file, record>>
         /\ since' \in {since, [since EXCEPT ![h] = {}]}
         /\ pc'[h] \notin Rows
<1>. USE DEF Rows
<1>1. ASSUME NEW a \in Approvals, Approve(h, a) \/ Reject(h, a)
      PROVE  Only(h) /\ UNCHANGED <<file, record, since>> /\ pc'[h] \notin Rows
  BY <1>1 DEF Approve, Reject, Begin, Only, LocalsOK, diskVars, setVars
<1>2. ASSUME NEW a \in Approvals, Replace(h, a)
      PROVE  /\ Only(h) /\ UNCHANGED <<file, record>> /\ pc'[h] \notin Rows
             /\ since' = [since EXCEPT ![h] = {}]
  BY <1>2, LeaveOnly DEF Replace, Leave, diskVars, setVars
<1>3. ASSUME CancelTask(h)
      PROVE  Only(h) /\ UNCHANGED <<file, record, since>> /\ pc'[h] \notin Rows
  BY <1>3 DEF CancelTask, Only, LocalsOK, localVars, diskVars, setVars
<1>4. ASSUME NEW a \in Approvals, NEW p \in Patches, NEW m \in Manifests, Preview(h, a, p, m)
      PROVE  Only(h) /\ UNCHANGED <<file, record, since>> /\ pc'[h] \notin Rows
  BY <1>4 DEF Preview, Begin, Only, LocalsOK, diskVars
<1>5. ASSUME NEW m \in Manifests, NEW selected \in SUBSET Files, AskUndo(h, m, selected)
      PROVE  Only(h) /\ UNCHANGED <<file, record, since>> /\ pc'[h] \notin Rows
  BY <1>5 DEF AskUndo, Begin, Only, LocalsOK, diskVars
<1>. QED
  BY <1>1, <1>2, <1>3, <1>4, <1>5 DEF Request

LEMMA ApproveDisk ==
  ASSUME TypeInv, ExecInv, DiskInv, [Next]_vars, NEW h \in Handlers,
         ApproveStep(h) \/ UndoStep(h) \/ Crash(h)
  PROVE  DiskInv'
<1>. LocalsOK /\ SinceOK
  BY TypedParts DEF TypeInv
<1>1. Only(h) /\ Tells(h)
  BY ApproveOnly, SilentTells
<1>2. record' = record \/ \A k \in Handlers : pc[k] \notin Undoing
  <2>1. CASE Attach(h)
    <3>1. pc[h] \in Executing
      BY <2>1 DEF Attach, Executing
    <3>. QED
      BY <3>1 DEF ExecInv, DoneInv, Applied
  <2>2. CASE ~Attach(h)
    BY <2>2 DEF ApproveStep, Inspect, Spoil, Resolve, Claim, Reload, Reinspect, Plan,
       Mark, Conclude, Finish, Complete, Dismiss, UndoStep, CheckUndo, Observe, Refuse,
       Consume, Crash, setVars
  <2>. QED
    BY <2>1, <2>2
<1>3. DiskRow(h)'
  <2>1. CASE Plan(h) \/ Reinspect(h) \/ CheckUndo(h) \/ Observe(h)
    BY <2>1, PlanRow, ReinspectRow, CheckUndoRow, ObserveRow
  <2>2. CASE \/ Inspect(h) \/ Spoil(h) \/ Resolve(h) \/ Claim(h) \/ Reload(h) \/ Mark(h)
             \/ Conclude(h) \/ Complete(h) \/ Dismiss(h) \/ Refuse(h) \/ Consume(h) \/ Crash(h)
    <3>1. (\E p : p \notin Rows /\ Goto(h, p)) \/ Leave(h)
      BY <2>2 DEF Inspect, Spoil, Resolve, Claim, Reload, Mark, Conclude, Complete, Dismiss,
         Refuse, Consume, Crash, Rows
    <3>. QED
      BY <3>1, GotoOnly, LeaveOnly, AwayRow DEF Rows
  <2>3. CASE Attach(h) \/ Finish(h)
    BY <2>3, AwayRow DEF Attach, Finish, LocalsOK, Rows
  <2>. QED
    BY <2>1, <2>2, <2>3 DEF ApproveStep, UndoStep
<1>. QED
  BY <1>1, <1>2, <1>3, OwnStep

LEMMA FileDisk ==
  ASSUME TypeInv, ExecInv, DiskInv, [Next]_vars, NEW h \in Handlers, NEW f \in Files,
         FileStep(h, f)
  PROVE  DiskInv'
<1>. LocalsOK /\ SinceOK
  BY TypedParts DEF TypeInv
<1>1. Only(h)
  <2>1. CASE WriteFails(h, f)
    BY <2>1, ExitOnly, LeaveOnly DEF WriteFails
  <2>2. CASE Write(h, f) \/ Undo(h, f) \/ UndoFails(h, f) \/ Rollback(h, f)
    BY <2>2 DEF Write, Undo, UndoFails, Rollback, Only, LocalsOK
  <2>. QED
    BY <2>1, <2>2 DEF FileStep
<1>2. record' = record
  BY DEF FileStep, Write, WriteFails, Undo, UndoFails, Rollback, setVars
<1>3. Tells(h) /\ DiskRow(h)'
  <2>1. CASE UndoFails(h, f)
    BY <2>1, UndoFailsRow, SilentTells DEF UndoFails, diskVars
  <2>. QED
    BY <2>1, WriteRow, WriteFailsRow, UndoRow, RollbackRow DEF FileStep
<1>. QED
  BY <1>1, <1>2, <1>3, OwnStep

LEMMA RequestDisk ==
  ASSUME TypeInv, DiskInv, [Next]_vars, NEW h \in Handlers, Request(h)
  PROVE  DiskInv'
<1>. LocalsOK /\ SinceOK
  BY TypedParts DEF TypeInv
<1>1. Only(h) /\ Tells(h) /\ record' = record /\ DiskRow(h)'
  BY RequestOnly, SilentTells, AwayRow
<1>. QED
  BY <1>1, OwnStep

LEMMA EnvironmentDisk ==
  ASSUME TypeInv, DiskInv, Environment \/ UNCHANGED vars
  PROVE  DiskInv'
<1>. DiskOK /\ SinceOK
  BY TypedParts DEF TypeInv
<1>1. /\ UNCHANGED <<pc, set, chosen, todo, record>>
  BY DEF Environment, Sweep, Lapse, Elapse, Age, Edit, Handled, localVars, setVars, vars
<1>2. ASSUME NEW k \in Handlers
      PROVE  /\ since[k] \subseteq since'[k]
             /\ \A f \in Files : file'[f] = file[f] \/ f \in since'[k]
                                  \/ pc[k] \notin Claiming \cup Undoing
  <2>1. ASSUME NEW f \in Files, Edit(f)
        PROVE  /\ since[k] \subseteq since'[k]
               /\ \A g \in Files : file'[g] = file[g] \/ g \in since'[k]
                                    \/ pc[k] \notin Claiming \cup Undoing
    <3>1. PICK x : SetFile(NoHandler, f, x)
      BY <2>1 DEF Edit
    <3>2. k # NoHandler
      BY ConstantsAssumption
    <3>. QED
      BY <3>1, <3>2 DEF SetFile, Noticed, DiskOK, SinceOK
  <2>2. CASE UNCHANGED <<file, since>>
    BY <2>2
  <2>. QED
    BY <2>1, <2>2 DEF Environment, Sweep, Lapse, Elapse, Age, diskVars, vars
<1>3. Firm
  BY NextFirm DEF Next
<1>. QED
  BY <1>1, <1>2, <1>3, OtherRow DEF DiskInv

LEMMA DiskNext == IInv /\ [Next]_vars => DiskInv'
BY ApproveDisk, FileDisk, RequestDisk, EnvironmentDisk DEF IInv, Next

LEMMA Invariant == Spec => []IInv
<1>1. Init => IInv
  BY InitTyped, InitExec DEF IInv, DiskInv, DiskRow, Init
<1>2. IInv /\ [Next]_vars => IInv'
  BY TypeNext, ExecNext, DiskNext DEF IInv
<1>. QED
  BY <1>1, <1>2, PTL DEF Spec

\* Whatever happens between the preview and the approval, or the change and its undo,
\* a handler changes only a file that is the one approved, or recorded, or that was
\* changed by somebody after its claim; a rollback puts back what the undo took.
THEOREM OverwritesNothingUnseen == Spec => NoBlindOverwrite
<1>1. IInv /\ [Next]_vars =>
      [ \A h \in Handlers, f \in Files :
          f \in todo[h] /\ f \notin todo'[h] /\ file'[f] # file[f] /\ f \notin since[h]
          => \/ pc[h] = "write" /\ file[f] = base[set[h]][f]
             \/ pc[h] = "undo" /\ file[f] = record[set[h]][f]
             \/ pc[h] = "rollback" ]_vars
  <2>. SUFFICES ASSUME IInv, [Next]_vars, NEW h \in Handlers, NEW f \in Files,
                       f \in todo[h], f \notin todo'[h], file'[f] # file[f], f \notin since[h]
                PROVE  \/ pc[h] = "write" /\ file[f] = base[set[h]][f]
                       \/ pc[h] = "undo" /\ file[f] = record[set[h]][f]
                       \/ pc[h] = "rollback"
    OBVIOUS
  <2>. TypeInv /\ DiskInv /\ LocalsOK /\ DiskOK /\ SinceOK
    BY TypedParts DEF IInv, TypeInv
  <2>1. PICK g \in Handlers, e \in Files : FileStep(g, e)
    <3>1. ~UNCHANGED file /\ ~UNCHANGED todo
      OBVIOUS
    <3>2. ~Environment /\ ~UNCHANGED vars
      BY <3>1 DEF Environment, Sweep, Lapse, Elapse, Age, Edit, Handled, localVars, vars
    <3>3. \A g \in Handlers : ~(ApproveStep(g) \/ UndoStep(g) \/ Crash(g) \/ Request(g))
      BY <3>1, ApproveOnly, RequestOnly
    <3>. QED
      BY <3>2, <3>3 DEF Next
  <2>2. g = h
    <3>1. Only(g)
      BY <2>1, ExitOnly, LeaveOnly
         DEF FileStep, WriteFails, Write, Undo, UndoFails, Rollback, Only, LocalsOK
    <3>. QED
      BY <3>1 DEF Only
  <2>3. CASE Write(h, e)
    <3>1. e = f
      BY <2>3, SetFileTells DEF Write
    <3>. QED
      BY <2>3, <3>1, WriteRow DEF Write
  <2>4. CASE WriteFails(h, e)
    BY <2>4, WriteFailsRow DEF DiskInv, DiskRow
  <2>5. CASE Undo(h, e)
    <3>1. e = f
      BY <2>5, SetFileTells DEF Undo
    <3>. QED
      BY <2>5, <3>1, UndoRow DEF Undo
  <2>6. CASE UndoFails(h, e)
    BY <2>6 DEF UndoFails, diskVars
  <2>7. CASE Rollback(h, e)
    BY <2>7 DEF Rollback
  <2>. QED
    BY <2>1, <2>2, <2>3, <2>4, <2>5, <2>6, <2>7 DEF FileStep
<1>. QED
  BY <1>1, Invariant, PTL DEF Spec, NoBlindOverwrite

\* An undo that reports success has restored every selected file, and one that reports
\* failure has restored every one or none, whichever change or observation fails, but
\* for files that somebody else has changed meanwhile.
THEOREM UndoesAllOrNothing == Spec => []UndoIsAllOrNothing
<1>1. IInv => UndoIsAllOrNothing
  BY DEF IInv, DiskInv, DiskRow, UndoIsAllOrNothing
<1>. QED
  BY <1>1, Invariant, PTL

-----------------------------------------------------------------------------
(* The promise of OneShotApproval.                                         *)

Phases  == [a \in Approvals |-> PhaseOf(approval[a])]
Permits == {a \in Approvals : \E h \in Handlers : pc[h] \in Ahead /\ app[h] = a}

Quiet == UNCHANGED <<Phases, Permits, runs>>

Kept == Quiet \/ Consent!Next

\* The others stay where they are.
Alone(h) == \A k \in Handlers \ {h} : pc'[k] = pc[k] /\ app'[k] = app[k]

LEMMA OnlyAlone == ASSUME NEW h \in Handlers, Only(h) PROVE Alone(h)
BY DEF Only, Alone

LEMMA ConsentVars ==
  /\ Quiet => UNCHANGED Consent!vars
  /\ \A a \in Approvals :
       Consent!Grant(a) \/ Consent!Refuse(a) \/ Consent!Claim(a) \/ Consent!Run(a)
         \/ Consent!Lose(a) \/ Consent!Close(a) => Kept
BY DEF Quiet, Phases, Permits, Ahead, Consent!vars, Consent!Next, Kept

\* A permit stays with its holder ...
LEMMA PermitsStay ==
  ASSUME NEW h \in Handlers, Alone(h),
         \/ pc[h] \notin Ahead /\ pc'[h] \notin Ahead
         \/ pc[h] \in Ahead /\ pc'[h] \in Ahead /\ app'[h] = app[h]
  PROVE  Permits' = Permits
BY DEF Permits, Alone

\* ... who is the only one.
LEMMA PermitGoes ==
  ASSUME TypeInv, ExecInv, NEW h \in Handlers, Alone(h), pc[h] \in Ahead, pc'[h] \notin Ahead
  PROVE  app[h] \in Permits /\ Permits' = Permits \ {app[h]}
<1>. app[h] \in Approvals
  BY TypedParts DEF TypeInv, LocalsOK
<1>1. \A k \in Handlers : pc[k] \in Ahead => k = h
  BY DEF ExecInv, ExecutorInv, Executing
<1>. QED
  BY <1>1 DEF Permits, Alone

LEMMA PhaseMoves ==
  ASSUME ApprovalsOK, NEW a \in Approvals, NEW d, approval' = [approval EXCEPT ![a] = d]
  PROVE  Phases[a] = PhaseOf(approval[a]) /\ Phases' = [Phases EXCEPT ![a] = PhaseOf(d)]
<1>1. \A b \in Approvals : approval'[b] = IF b = a THEN d ELSE approval[b]
  BY DEF ApprovalsOK
<1>2. \A b \in Approvals :
        PhaseOf(approval'[b]) = IF b = a THEN PhaseOf(d) ELSE PhaseOf(approval[b])
  BY <1>1
<1>3. Phases' = [b \in Approvals |-> PhaseOf(approval'[b])]
  BY DEF Phases
<1>. QED
  BY <1>2, <1>3 DEF Phases

LEMMA PhaseTable ==
  /\ PhaseOf("none") = "open" /\ PhaseOf("pending") = "open"
  /\ PhaseOf("approved_once") = "granted" /\ PhaseOf("consuming") = "spent"
  /\ \A s \in {"superseded", "rejected", "expired", "consumed", "execution_failed"} :
       PhaseOf(s) = "closed"
BY DEF PhaseOf

LEMMA CalledFor ==
  ASSUME TypeInv, NEW h \in Handlers
  PROVE  \E a \in Approvals : app[h] = a
BY TypedParts DEF TypeInv, LocalsOK

\* A step of one handler that leaves approvals and permits alone.
LEMMA QuietKept ==
  ASSUME NEW h \in Handlers, Alone(h), UNCHANGED <<approval, runs>>,
         \/ pc[h] \notin Ahead /\ pc'[h] \notin Ahead
         \/ pc[h] \in Ahead /\ pc'[h] \in Ahead /\ app'[h] = app[h]
  PROVE  Kept
BY PermitsStay DEF Quiet, Kept, Phases

LEMMA LoseKept ==
  ASSUME TypeInv, ExecInv, NEW h \in Handlers, Alone(h), UNCHANGED <<approval, runs>>,
         pc[h] \in Ahead, pc'[h] \notin Ahead
  PROVE  Kept
<1>1. PICK a \in Approvals : app[h] = a
  BY CalledFor
<1>2. a \in Permits /\ Permits' = Permits \ {a}
  BY <1>1, PermitGoes
<1>3. Consent!Lose(a)
  BY <1>2 DEF Consent!Lose, Permits, Ahead
<1>. QED
  BY <1>3, ConsentVars

\* A decision, or its expiry.
LEMMA ResolvedKept ==
  ASSUME TypeInv, NEW a \in Approvals, NEW d \in {"approved_once", "rejected"},
         Resolved(a, d), UNCHANGED <<Permits, runs>>
  PROVE  Kept
<1>. ApprovalsOK
  BY TypedParts DEF TypeInv
<1>1. CASE elapsed[of[a]] /\ approval[a] \in {"pending", "approved_once"}
  <2>1. approval' = [approval EXCEPT ![a] = "expired"]
    BY <1>1 DEF Resolved
  <2>2. Phases[a] \in {"open", "granted"} /\ Phases' = [Phases EXCEPT ![a] = "closed"]
    <3>1. /\ Phases[a] = PhaseOf(approval[a])
          /\ Phases' = [Phases EXCEPT ![a] = PhaseOf("expired")]
      BY <2>1, PhaseMoves
    <3>. QED
      BY <1>1, <3>1, PhaseTable
  <2>3. Consent!Refuse(a)
    BY <2>2 DEF Consent!Refuse, Phases, Permits, Ahead
  <2>. QED
    BY <2>3, ConsentVars
<1>2. CASE ~elapsed[of[a]] /\ approval[a] = "pending"
  <2>1. approval' = [approval EXCEPT ![a] = d]
    BY <1>2 DEF Resolved
  <2>2. Consent!Grant(a) \/ Consent!Refuse(a)
    BY <1>2, <2>1, PhaseMoves
       DEF Consent!Grant, Consent!Refuse, Phases, PhaseOf, Permits, Ahead
  <2>. QED
    BY <2>2, ConsentVars
<1>3. CASE approval' = approval
  BY <1>3 DEF Kept, Quiet, Phases
<1>4. (elapsed[of[a]] /\ approval[a] \notin {"pending", "approved_once"})
        \/ (~elapsed[of[a]] /\ approval[a] # "pending") => approval' = approval
  BY DEF Resolved, ApprovalsOK
<1>. QED
  BY <1>1, <1>2, <1>3, <1>4

LEMMA ClaimKept ==
  ASSUME TypeInv, ExecInv, NEW h \in Handlers, Claim(h)
  PROVE  Kept
<1>. PICK a \in Approvals : app[h] = a
  BY CalledFor
<1>. LocalsOK /\ ApprovalsOK
  BY TypedParts DEF TypeInv
<1>0. pc[h] = "claim" /\ "claim" \notin Ahead /\ "idle" \notin Ahead
  BY DEF Claim, Ahead
<1>1. CASE approval[a] = "approved_once" /\ ~elapsed[of[a]]
  <2>1. /\ approval' = [approval EXCEPT ![a] = "consuming"]
        /\ Alone(h) /\ pc'[h] = "reload" /\ app' = app /\ UNCHANGED runs
    BY <1>1, GotoOnly, OnlyAlone DEF Claim
  <2>2. runs[a] = 0 /\ a \notin Permits
    BY <1>1 DEF ExecInv, ApprovalInv, ExecutorInv, Unused, Permits, Executing
  <2>3. Permits' = Permits \cup {a}
    BY <1>0, <2>1 DEF Permits, Alone, Ahead
  <2>4. Consent!Claim(a)
    BY <1>1, <2>1, <2>2, <2>3, PhaseMoves
       DEF Consent!Claim, Phases, PhaseOf, Permits, Ahead
  <2>. QED
    BY <2>4, ConsentVars
<1>2. CASE ~(approval[a] = "approved_once" /\ ~elapsed[of[a]])
  <2>1. /\ approval' = [approval EXCEPT ![a] =
                          IF elapsed[of[a]] /\ @ = "approved_once" THEN "expired" ELSE @]
        /\ Alone(h) /\ pc'[h] = "idle" /\ UNCHANGED runs
    BY <1>2, LeaveOnly, OnlyAlone DEF Claim
  <2>2. UNCHANGED Permits
    BY <1>0, <2>1, PermitsStay
  <2>3. CASE approval[a] = "approved_once"
    <3>1. approval' = [approval EXCEPT ![a] = "expired"]
      BY <1>2, <2>1, <2>3
    <3>2. Phases[a] = "granted" /\ Phases' = [Phases EXCEPT ![a] = "closed"]
      <4>1. /\ Phases[a] = PhaseOf(approval[a])
            /\ Phases' = [Phases EXCEPT ![a] = PhaseOf("expired")]
        BY <3>1, PhaseMoves
      <4>. QED
        BY <2>3, <4>1, PhaseTable
    <3>3. Consent!Refuse(a)
      BY <2>1, <2>2, <3>2 DEF Consent!Refuse, Phases, Permits, Ahead
    <3>. QED
      BY <3>3, ConsentVars
  <2>4. CASE approval[a] # "approved_once"
    BY <2>1, <2>2, <2>4 DEF ApprovalsOK, Kept, Quiet, Phases
  <2>. QED
    BY <2>3, <2>4
<1>. QED
  BY <1>1, <1>2

LEMMA PlanKept ==
  ASSUME TypeInv, ExecInv, NEW h \in Handlers, Plan(h)
  PROVE  Kept
<1>. PICK a \in Approvals : app[h] = a
  BY CalledFor
<1>1. /\ runs' = [runs EXCEPT ![a] = @ + 1]
      /\ Alone(h) /\ pc[h] = "plan" /\ pc'[h] \in {"attach", "write", "mark"}
      /\ UNCHANGED approval
  BY TypedParts DEF TypeInv, Plan, Alone, LocalsOK, approvalVars
<1>2. a \in Permits /\ Permits' = Permits \ {a}
  BY <1>1, PermitGoes DEF Ahead
<1>3. Consent!Run(a)
  BY <1>1, <1>2 DEF Consent!Run, Phases, Permits, Ahead
<1>. QED
  BY <1>3, ConsentVars

\* A consumption that ends, by its request or by the sweep.
LEMMA CloseKept ==
  ASSUME TypeInv, NEW a \in Approvals, approval[a] = "consuming",
         NEW d \in {"consumed", "execution_failed", "expired"},
         approval' = [approval EXCEPT ![a] = d], UNCHANGED <<Permits, runs>>
  PROVE  Kept
<1>. ApprovalsOK
  BY TypedParts DEF TypeInv
<1>1. Consent!Close(a)
  BY PhaseMoves DEF Consent!Close, Phases, PhaseOf, Permits, Ahead
<1>. QED
  BY <1>1, ConsentVars

LEMMA CompleteKept ==
  ASSUME TypeInv, NEW h \in Handlers, Complete(h)
  PROVE  Kept
<1>. LocalsOK /\ ApprovalsOK /\ app[h] \in Approvals
  BY TypedParts DEF TypeInv, LocalsOK
<1>1. Alone(h) /\ pc[h] = "complete" /\ pc'[h] = "idle" /\ UNCHANGED runs
  BY LeaveOnly, OnlyAlone DEF Complete
<1>2. UNCHANGED Permits
  BY <1>1, PermitsStay DEF Ahead
<1>3. CASE approval[app[h]] = "consuming" /\ holder[app[h]] = h
  <2>1. approval' = [approval EXCEPT ![app[h]] = IF ok[h] THEN "consumed"
                                                 ELSE "execution_failed"]
    BY <1>3 DEF Complete
  <2>. QED
    BY <1>1, <1>2, <1>3, <2>1, CloseKept
<1>4. CASE ~(approval[app[h]] = "consuming" /\ holder[app[h]] = h)
  BY <1>1, <1>2, <1>4 DEF Complete, Kept, Quiet, Phases
<1>. QED
  BY <1>3, <1>4

LEMMA ReplaceKept ==
  ASSUME TypeInv, NEW h \in Handlers, NEW new \in Approvals, Replace(h, new)
  PROVE  Kept
<1>. PICK a \in Approvals : app[h] = a
  BY CalledFor
<1>. LocalsOK /\ ApprovalsOK
  BY TypedParts DEF TypeInv
<1>1. Alone(h) /\ pc[h] = "replace" /\ pc'[h] = "idle" /\ UNCHANGED runs
  BY LeaveOnly, OnlyAlone DEF Replace
<1>2. UNCHANGED Permits
  BY <1>1, PermitsStay DEF Ahead
<1>3. CASE Resolves(a)
  <2>1. /\ approval[a] = "pending" /\ approval[new] = "none"
        /\ \A b \in Approvals : approval'[b] = IF b = new THEN "pending"
                                               ELSE IF b = a THEN "superseded"
                                               ELSE approval[b]
    BY <1>3 DEF Replace, Resolves, Superseded, ApprovalsOK
  <2>2. \A b \in Approvals :
          PhaseOf(approval'[b]) = IF b = a THEN "closed" ELSE PhaseOf(approval[b])
    BY <2>1 DEF PhaseOf
  <2>3. Phases' = [Phases EXCEPT ![a] = "closed"] /\ Phases[a] = "open"
    BY <2>1, <2>2 DEF Phases, PhaseOf
  <2>4. Consent!Refuse(a)
    BY <1>1, <1>2, <2>3 DEF Consent!Refuse, Phases, Permits, Ahead
  <2>. QED
    BY <2>4, ConsentVars
<1>4. CASE ~Resolves(a)
  BY <1>1, <1>2, <1>4 DEF Replace, Kept, Quiet, Phases
<1>. QED
  BY <1>3, <1>4

LEMMA ApproveKept ==
  ASSUME TypeInv, ExecInv, NEW h \in Handlers, ApproveStep(h) \/ Crash(h)
  PROVE  Kept
<1>. LocalsOK
  BY TypedParts DEF TypeInv
<1>. USE DEF Ahead
<1>1. CASE Inspect(h) \/ Spoil(h) \/ Conclude(h) \/ Dismiss(h) \/ Mark(h)
  <2>1. /\ Alone(h) /\ pc[h] \notin Ahead /\ pc'[h] \notin Ahead
        /\ UNCHANGED <<approval, runs>>
    BY <1>1, GotoOnly, LeaveOnly, OnlyAlone
       DEF Inspect, Spoil, Conclude, Dismiss, Mark, approvalVars
  <2>. QED
    BY <2>1, QuietKept
<1>2. CASE Resolve(h)
  <2>1. /\ Alone(h) /\ pc[h] = "resolve" /\ pc'[h] \in {"claim", "idle"}
        /\ UNCHANGED runs /\ Resolved(app[h], "approved_once") /\ app[h] \in Approvals
    BY <1>2, GotoOnly, LeaveOnly, OnlyAlone DEF Resolve, LocalsOK
  <2>2. UNCHANGED Permits
    BY <2>1, PermitsStay
  <2>. QED
    BY <2>1, <2>2, ResolvedKept
<1>3. CASE Reload(h) \/ Reinspect(h)
  <2>1. /\ Alone(h) /\ pc[h] \in Ahead /\ pc'[h] \in {"reinspect", "plan", "spoil"}
        /\ app' = app /\ UNCHANGED <<approval, runs>>
    BY <1>3, GotoOnly, OnlyAlone DEF Reload, Reinspect, approvalVars
  <2>. QED
    BY <2>1, QuietKept, LoseKept
<1>4. CASE Attach(h) \/ Finish(h)
  <2>1. /\ Alone(h) /\ pc[h] \notin Ahead /\ pc'[h] \notin Ahead
        /\ UNCHANGED <<approval, runs>>
    BY <1>4 DEF Attach, Finish, Alone, LocalsOK, approvalVars
  <2>. QED
    BY <2>1, QuietKept
<1>5. CASE Crash(h)
  <2>1. Alone(h) /\ pc'[h] = "idle" /\ UNCHANGED <<approval, runs>>
    BY <1>5, LeaveOnly, OnlyAlone DEF Crash, approvalVars
  <2>. QED
    BY <2>1, QuietKept, LoseKept
<1>. QED
  BY <1>1, <1>2, <1>3, <1>4, <1>5, ClaimKept, PlanKept, CompleteKept DEF ApproveStep

LEMMA RequestKept ==
  ASSUME TypeInv, ExecInv, NEW h \in Handlers, Request(h)
  PROVE  Kept
<1>. LocalsOK
  BY TypedParts DEF TypeInv
<1>. USE DEF Ahead
<1>1. ASSUME NEW a \in Approvals, Reject(h, a) PROVE Kept
  <2>1. /\ Alone(h) /\ pc[h] = "idle" /\ pc'[h] \in {"idle", "dismiss"}
        /\ UNCHANGED runs /\ Resolved(a, "rejected")
    BY <1>1 DEF Reject, Begin, Alone, LocalsOK
  <2>2. UNCHANGED Permits
    BY <2>1, PermitsStay
  <2>. QED
    BY <2>1, <2>2, ResolvedKept
<1>2. CASE \/ \E a \in Approvals : Approve(h, a)
           \/ CancelTask(h)
           \/ \E a \in Approvals, p \in Patches, m \in Manifests : Preview(h, a, p, m)
           \/ \E m \in Manifests, selected \in SUBSET Files : AskUndo(h, m, selected)
  <2>1. /\ Alone(h) /\ pc[h] = "idle" /\ pc'[h] \notin Ahead
        /\ UNCHANGED <<approval, runs>>
    BY <1>2 DEF Approve, CancelTask, Preview, AskUndo, Begin, Alone, LocalsOK, localVars,
                approvalVars
  <2>. QED
    BY <2>1, QuietKept
<1>. QED
  BY <1>1, <1>2, ReplaceKept DEF Request

LEMMA FileKept ==
  ASSUME TypeInv, NEW h \in Handlers, UndoStep(h) \/ \E f \in Files : FileStep(h, f)
  PROVE  Kept
<1>. LocalsOK
  BY TypedParts DEF TypeInv
<1>. USE DEF Ahead
<1>1. CASE UndoStep(h)
  <2>1. /\ Alone(h) /\ pc[h] \notin Ahead /\ pc'[h] \notin Ahead
        /\ UNCHANGED <<approval, runs>>
    BY <1>1, GotoOnly, LeaveOnly, OnlyAlone
       DEF UndoStep, CheckUndo, Observe, Refuse, Consume, approvalVars
  <2>. QED
    BY <2>1, QuietKept
<1>2. ASSUME NEW f \in Files, FileStep(h, f) PROVE Kept
  <2>1. UNCHANGED <<approval, runs>>
    BY <1>2 DEF FileStep, Write, WriteFails, Undo, UndoFails, Rollback, approvalVars
  <2>2. Alone(h) /\ pc[h] \notin Ahead /\ pc'[h] \notin Ahead
    <3>1. CASE WriteFails(h, f)
      BY <3>1, LeaveOnly, ExitOnly, OnlyAlone DEF WriteFails
    <3>2. CASE Write(h, f) \/ Undo(h, f) \/ UndoFails(h, f) \/ Rollback(h, f)
      BY <3>2 DEF Write, Undo, UndoFails, Rollback, Alone, LocalsOK
    <3>. QED
      BY <1>2, <3>1, <3>2 DEF FileStep
  <2>. QED
    BY <2>1, <2>2, QuietKept
<1>. QED
  BY <1>1, <1>2

LEMMA EnvironmentKept ==
  ASSUME TypeInv, Environment \/ UNCHANGED vars
  PROVE  Kept
<1>1. UNCHANGED <<pc, app, runs>>
  BY DEF Environment, Sweep, Lapse, Elapse, Age, Edit, Handled, localVars, vars
<1>2. UNCHANGED <<Permits, runs>>
  BY <1>1 DEF Permits
<1>3. ASSUME NEW a \in Approvals, Sweep(a) PROVE Kept
  <2>1. PICK d \in {"consumed", "execution_failed", "expired"} :
          approval' = [approval EXCEPT ![a] = d]
    <3>1. approval' = [approval EXCEPT ![a] = IF elapsed[of[a]] THEN "expired"
                                              ELSE IF task = "succeeded" THEN "consumed"
                                              ELSE "execution_failed"]
      BY <1>3 DEF Sweep
    <3>2. CASE elapsed[of[a]]
      BY <3>1, <3>2
    <3>3. CASE ~elapsed[of[a]] /\ task = "succeeded"
      BY <3>1, <3>3
    <3>4. CASE ~elapsed[of[a]] /\ task # "succeeded"
      BY <3>1, <3>4
    <3>. QED
      BY <3>2, <3>3, <3>4
  <2>. QED
    BY <1>2, <1>3, <2>1, CloseKept DEF Sweep
<1>4. CASE UNCHANGED approval
  BY <1>2, <1>4 DEF Kept, Quiet, Phases
<1>5. UNCHANGED approval \/ \E a \in Approvals : Sweep(a)
  BY DEF Environment, Lapse, Elapse, Age, Edit, approvalVars, vars
<1>. QED
  BY <1>3, <1>4, <1>5

LEMMA ConsentStart == Init => Consent!Init
<1>. SUFFICES ASSUME Init PROVE Consent!Init
  OBVIOUS
<1>1. Phases = [a \in Approvals |-> "open"]
  BY DEF Init, Phases, PhaseOf
<1>2. Permits = {}
  BY DEF Init, Permits, Ahead
<1>. QED
  BY <1>1, <1>2 DEF Init, Consent!Init, Phases, Permits, Ahead

\* A task-linked approval keeps the promise of OneShotApproval, as an exec approval
\* does: whatever requests race, crash, retry or replace it, and whatever elapses, its
\* tool runs once at most, for the request that claimed its grant, and never if it was
\* refused, replaced or expired before a claim.
THEOREM ConsentIsKept == Spec => KeepsConsent
<1>1. TypeInv /\ ExecInv /\ [Next]_vars => [Consent!Next]_(Consent!vars)
  <2>1. TypeInv /\ ExecInv /\ [Next]_vars => Kept
    BY ApproveKept, RequestKept, FileKept, EnvironmentKept DEF Next
  <2>. QED
    BY <2>1, ConsentVars DEF Kept
<1>. QED
  BY <1>1, ConsentStart, ExecInvariant, PTL DEF Spec, KeepsConsent, Consent!Spec
===============================================================================
