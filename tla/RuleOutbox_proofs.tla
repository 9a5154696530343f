--------------------------- MODULE RuleOutbox_proofs ---------------------------
(***************************************************************************)
(* What RuleOutbox guarantees for every set of effects, rules, processes,  *)
(* deliveries and settings.                                                *)
(***************************************************************************)
EXTENDS RuleOutbox, FiniteSetTheorems, FunctionTheorems, TLAPS

-----------------------------------------------------------------------------
\* A delivery that is under way holds an effect and has rounds left, and no
\* config in memory remembers more ids than the file may.
Engaged(d) == pc[d] \notin {"idle", "dead"}

JobInv ==
  \A d \in Deliveries :
    /\ Engaged(d) => job[d].effect \in Effects
    /\ pc[d] \in {"claimed", "loaded", "reloading"} => job[d].round < Rounds

Short(c) == Len(c.ids) <= IdLimit

ConfigsShort ==
  \A p \in Processes :
    Short(cache[p].config) /\ Short(cache[p].rev) /\ Short(draft[p].config)

TypeInv == TypeOK /\ JobInv /\ ConfigsShort

\* No id is remembered twice.
Distinct(s) == \A i, j \in DOMAIN s : s[i] = s[j] => i = j

\* Somebody writes the file behind nobody's back: either only deliveries
\* write it, or all writers share one process.
WritersKnown == Editors = {} \/ \E p \in Processes : Processes = {p}

\* The config remembers every effect that can be delivered.
Valid == Effects \ Malformed

IdsSuffice == IsFiniteSet(Valid) /\ Cardinality(Valid) <= IdLimit

\* The strengthening of AppliedOnce: the ids in the file are the effects that
\* were saved, all of them valid; a delivery that is about to save knows that its
\* effect is valid and not among them; and the config of a client whose save would
\* be accepted has exactly the ids of the file.
FileInv ==
  /\ \A e \in Effects : applied[e] = IF e \in Ids(file) THEN 1 ELSE 0
  /\ Distinct(file.ids)
  /\ Ids(file) \subseteq Valid

SnapInv ==
  \A d \in Deliveries :
    pc[d] = "loaded" => /\ job[d].effect \notin Ids(job[d].snap)
                        /\ job[d].effect \notin Malformed

ClientInv(p) ==
  /\ cache[p].config.ids = cache[p].rev.ids
  /\ Ids(etag[p]) \subseteq Ids(file)
  /\ edit[p] # "none" => p \in Editors
  /\ edit[p] = "drafted" =>
       /\ Distinct(draft[p].config.ids)
       /\ Ids(etag[p]) \subseteq Ids(draft[p].config)
       /\ Ids(draft[p].config) \subseteq Ids(file)
  /\ edit[p] = "saved" =>
       /\ draft[p].config = file
       /\ \A d \in TasksOf(p) : pc[d] \notin {"loaded", "reloading"}

OnceInv == FileInv /\ SnapInv /\ \A p \in Processes : ClientInv(p)

-----------------------------------------------------------------------------
\* What the helpers return.

LEMMA WithEffectType ==
  ASSUME NEW c \in Config, NEW e \in Effects, Short(c)
  PROVE  WithEffect(c, e) \in Config /\ Short(WithEffect(c, e))
<1>1. RuleOf[e] \in Rules
  BY ConstantsAssumption
<1>2. Append(c.ids, e) \in Seq(Effects) /\ Len(Append(c.ids, e)) = Len(c.ids) + 1
  BY DEF Config
<1>3. Append(c.ids, e) # <<>>
  BY <1>2 DEF Config
<1>4. /\ Tail(Append(c.ids, e)) \in Seq(Effects)
      /\ Len(Tail(Append(c.ids, e))) = Len(c.ids)
  BY <1>2, <1>3 DEF Config
<1>5. c.rules \cup {RuleOf[e]} \in SUBSET Rules
  BY <1>1 DEF Config
<1>6. IdLimit \in Nat /\ Len(c.ids) \in Nat
  BY ConstantsAssumption DEF Config
<1> DEFINE ids == IF Len(Append(c.ids, e)) > IdLimit
                    THEN Tail(Append(c.ids, e)) ELSE Append(c.ids, e)
<1>7. ids \in Seq(Effects) /\ Len(ids) <= IdLimit
  BY <1>2, <1>4, <1>6 DEF Short
<1>8. WithEffect(c, e) = [c EXCEPT !.rules = @ \cup {RuleOf[e]}, !.ids = ids]
  BY DEF WithEffect
<1> HIDE DEF ids
<1>q. QED
  BY <1>5, <1>7, <1>8 DEF Config, Short

LEMMA ChangedType ==
  ASSUME NEW c \in Config, NEW x \in Changes
  PROVE  Changed(c, x) \in Config /\ Changed(c, x).ids = c.ids
BY DEF Changed, Changes, Config

LEMMA RefreshedType ==
  ASSUME TypeInv, NEW p \in Processes
  PROVE  /\ Refreshed(p) \in [config : Config, rev : Config]
         /\ Short(Refreshed(p).config) /\ Short(Refreshed(p).rev)
         /\ Refreshed(p).rev = file
BY DEF Refreshed, TypeInv, TypeOK, ConfigsShort, Cached, Short

\* An id that is not remembered yet can be remembered.
LEMMA RoomForOne ==
  ASSUME IdsSuffice, NEW s \in Seq(Effects), Distinct(s),
         {s[i] : i \in DOMAIN s} \subseteq Valid,
         NEW e \in Valid, e \notin {s[i] : i \in DOMAIN s}
  PROVE  Len(s) + 1 <= IdLimit
<1>1. PICK n \in Nat : n = Len(s)
  OBVIOUS
<1>2. DOMAIN s = 1..n /\ \A i \in 1..n : s[i] \in Valid
  BY <1>1
<1> DEFINE f == [i \in 1..(n + 1) |-> IF i = n + 1 THEN e ELSE s[i]]
<1>3. f \in [1..(n + 1) -> Valid]
  BY <1>2
<1>4. ASSUME NEW i \in 1..(n + 1), NEW j \in 1..(n + 1), f[i] = f[j]
      PROVE  i = j
  <2>1. CASE i = n + 1 /\ j = n + 1
    BY <2>1
  <2>2. CASE i # n + 1 /\ j # n + 1
    BY <1>2, <1>4, <2>2 DEF Distinct
  <2>3. CASE i = n + 1 /\ j # n + 1
    BY <1>2, <1>4, <2>3
  <2>4. CASE i # n + 1 /\ j = n + 1
    BY <1>2, <1>4, <2>4
  <2>q. QED
    BY <2>1, <2>2, <2>3, <2>4
<1>5. f \in Injection(1..(n + 1), Valid)
  BY <1>3, <1>4, Fun_IsInj
<1>6. Cardinality(1..(n + 1)) <= Cardinality(Valid)
  BY <1>5, FS_Injection DEF IdsSuffice
<1>7. Cardinality(1..(n + 1)) = n + 1
  BY FS_Interval
<1>8. Cardinality(Valid) \in Nat /\ IdLimit \in Nat
  BY FS_CardinalityType, ConstantsAssumption DEF IdsSuffice
<1>q. QED
  BY <1>1, <1>6, <1>7, <1>8 DEF IdsSuffice

\* A new id is added to those of the file, and none is dropped.
LEMMA WithEffectIds ==
  ASSUME IdsSuffice, NEW c \in Config, Distinct(c.ids), Ids(c) \subseteq Valid,
         NEW e \in Valid, e \notin Ids(c)
  PROVE  /\ Ids(WithEffect(c, e)) = Ids(c) \cup {e}
         /\ Distinct(WithEffect(c, e).ids)
<1>1. c.ids \in Seq(Effects)
  BY DEF Config
<1>2. Len(c.ids) + 1 <= IdLimit
  BY <1>1, RoomForOne DEF Ids
<1>3. Len(Append(c.ids, e)) = Len(c.ids) + 1 /\ IdLimit \in Nat /\ Len(c.ids) \in Nat
  BY <1>1, ConstantsAssumption
<1>4. WithEffect(c, e).ids = Append(c.ids, e)
  BY <1>2, <1>3 DEF WithEffect, Config
<1>5. PICK n \in Nat : n = Len(c.ids)
  BY <1>3
<1>6. DOMAIN c.ids = 1..n /\ DOMAIN Append(c.ids, e) = 1..(n + 1)
  BY <1>1, <1>3, <1>5
<1>7. /\ \A i \in 1..n : Append(c.ids, e)[i] = c.ids[i]
      /\ Append(c.ids, e)[n + 1] = e
  BY <1>1, <1>5
<1>8. 1..(n + 1) = (1..n) \cup {n + 1}
  OBVIOUS
<1>9. {Append(c.ids, e)[i] : i \in 1..(n + 1)} = {c.ids[i] : i \in 1..n} \cup {e}
  BY <1>7, <1>8
<1>10. Distinct(Append(c.ids, e))
  BY <1>6, <1>7, <1>8 DEF Distinct, Ids
<1>q. QED
  BY <1>4, <1>6, <1>9, <1>10 DEF Ids

-----------------------------------------------------------------------------
\* Type correctness.

LEMMA InitType == Init => TypeInv
<1> SUFFICES ASSUME Init PROVE TypeInv
  OBVIOUS
<1> USE ConstantsAssumption
<1>1. EmptyConfig \in Config /\ EmptyConfig.ids = <<>>
  BY DEF EmptyConfig, Config
<1>2. NoJob \in Jobs
  BY <1>1 DEF NoJob, Job, Jobs
<1>3. NoDraft \in [config : Config, change : SUBSET Changes]
  BY <1>1 DEF NoDraft
<1>4. Short(EmptyConfig)
  BY <1>1 DEF Short
<1>5. TypeOK
  BY <1>1, <1>2, <1>3, <1>4 DEF Init, TypeOK, Cached, Short
<1>6. JobInv
  BY DEF Init, JobInv, Engaged
<1>7. ConfigsShort
  BY <1>1, <1>4 DEF Init, ConfigsShort, Cached, NoDraft
<1>q. QED
  BY <1>5, <1>6, <1>7 DEF TypeInv

LEMMA TypeStep == TypeInv /\ [Next]_vars => TypeInv'
<1> SUFFICES ASSUME TypeInv, [Next]_vars PROVE TypeInv'
  OBVIOUS
<1> USE ConstantsAssumption DEF TypeInv
<1>0. NoJob \in Jobs /\ EmptyConfig \in Config /\ Short(EmptyConfig)
  BY DEF NoJob, Job, Jobs, EmptyConfig, Config, Short
<1>1. CASE \E e \in Effects : Enqueue(e)
  BY <1>1 DEF Enqueue, TypeOK, JobInv, ConfigsShort, Engaged, Short, taskVars, clientVars
<1>2. ASSUME NEW d \in Deliveries, ClaimNext(d) PROVE TypeInv'
  <2>1. PICK e \in Effects : Claim(d, e)
    BY <1>2 DEF ClaimNext
  <2>2. Job(e, attempts[e] + 1, 0, EmptyConfig) \in Jobs
    BY <1>0 DEF Job, Jobs, TypeOK
  <2>3. TypeOK'
    <3>0. attempts \in [Effects -> Nat] /\ lease \in [Effects -> Nat] /\ LeaseTime \in Nat
      BY DEF TypeOK
    <3>1. attempts' \in [Effects -> Nat] /\ lease' \in [Effects -> Nat]
      BY <2>1, <3>0 DEF Claim
    <3>2. job' \in [Deliveries -> Jobs]
      BY <2>1, <2>2 DEF Claim, TypeOK
    <3>3. owner' \in [Effects -> Processes \cup {NoProcess}]
      BY <2>1 DEF Claim, TypeOK
    <3>q. QED
      BY <2>1, <3>1, <3>2, <3>3 DEF Claim, TypeOK, clientVars
  <2>4. JobInv'
    BY <2>1 DEF Claim, JobInv, Engaged, Job, TypeOK
  <2>5. ConfigsShort'
    BY <2>1 DEF Claim, ConfigsShort, Short, clientVars
  <2>q. QED
    BY <2>3, <2>4, <2>5
<1>3. ASSUME NEW d \in Deliveries, Deliver(d) PROVE TypeInv'
  <2> USE DEF rowVars, taskVars, clientVars
  <2>1. CASE Reject(d)
    BY <2>1 DEF Reject, Running, GoTo, TypeOK, JobInv, ConfigsShort, Engaged, Short
  <2>2. CASE Load(d)
    <3>1. job'[d] \in Jobs /\ job'[d].effect = job[d].effect /\ job'[d].round = job[d].round
      <4>1. job[d] \in Jobs /\ file \in Config
        BY DEF TypeOK
      <4>2. CASE UNCHANGED job
        BY <4>1, <4>2
      <4>3. CASE job' = [job EXCEPT ![d].snap = file]
        <5>1. job'[d] = [job[d] EXCEPT !.snap = file]
          BY <4>3 DEF TypeOK
        <5>q. QED
          BY <4>1, <5>1 DEF Jobs
      <4>q. QED
        BY <2>2, <4>2, <4>3 DEF Load, GoTo
    <3>2. TypeOK'
      BY <2>2, <3>1 DEF Load, GoTo, TypeOK
    <3>3. JobInv'
      BY <2>2, <3>1 DEF Load, GoTo, Running, TypeOK, JobInv, Engaged
    <3>4. ConfigsShort'
      BY <2>2 DEF Load, ConfigsShort, Short
    <3>q. QED
      BY <3>2, <3>3, <3>4
  <2>3. CASE LoadOrSaveFails(d)
    BY <2>3 DEF LoadOrSaveFails, Running, GoTo, TypeOK, JobInv, ConfigsShort, Engaged, Short
  <2>4. CASE Save(d)
    <3>1. job[d].effect \in Effects /\ job[d].snap = file
      BY <2>4 DEF Save, Unchanged, JobInv, Engaged
    <3>2. file' \in Config /\ Short(file')
      BY <2>4, <3>1, WithEffectType DEF Save, TypeOK, Short
    <3>3. TypeOK'
      <4>1. applied' \in [Effects -> Nat]
        <5>1. applied' = [applied EXCEPT ![job[d].effect] = applied[job[d].effect] + 1]
          BY <2>4 DEF Save
        <5>2. applied \in [Effects -> Nat]
          BY DEF TypeOK
        <5>q. QED
          <6>1. PICK e \in Effects : e = job[d].effect
            BY <3>1
          <6>2. applied' = [applied EXCEPT ![e] = applied[e] + 1] /\ applied[e] + 1 \in Nat
            BY <5>1, <5>2, <6>1
          <6>q. QED
            BY <5>2, <6>2
      <4>q. QED
        BY <2>4, <3>2, <4>1 DEF Save, GoTo, TypeOK, Short
    <3>4. JobInv' /\ ConfigsShort'
      BY <2>4 DEF Save, GoTo, TypeOK, JobInv, ConfigsShort, Engaged, Short
    <3>q. QED
      BY <3>3, <3>4
  <2>5. CASE SaveConflicts(d)
    <3>1. job[d].round < Rounds /\ job[d] \in Jobs
      BY <2>5 DEF SaveConflicts, JobInv, TypeOK
    <3>2. /\ job'[d] \in Jobs /\ job'[d].effect = job[d].effect
          /\ job'[d].round = job[d].round + 1
      <4>1. job'[d] = [job[d] EXCEPT !.round = job[d].round + 1]
        BY <2>5 DEF SaveConflicts, TypeOK
      <4>2. job[d].round + 1 \in 0..Rounds
        BY <3>1 DEF Jobs
      <4>q. QED
        BY <3>1, <4>1, <4>2 DEF Jobs
    <3>3. TypeOK'
      BY <2>5, <3>2 DEF SaveConflicts, TypeOK
    <3>4. JobInv'
      BY <2>5, <3>2 DEF SaveConflicts, TypeOK, JobInv, Engaged
    <3>5. ConfigsShort'
      BY <2>5 DEF SaveConflicts, ConfigsShort, Short
    <3>q. QED
      BY <3>3, <3>4, <3>5
  <2>6. ASSUME NEW s \in {"delivered", "failed", "retrying"}, NEW n \in Nat,
               Transition(d, s, n), Finish(d),
               UNCHANGED <<file, clientVars, applied, saved, crashes>>
        PROVE  TypeInv'
    <3>1. TypeOK'
      <4>1. /\ status' \in [Effects -> {"absent", "pending", "retrying", "delivered", "failed"}]
            /\ attempts' \in [Effects -> Nat]
            /\ owner' \in [Effects -> Processes \cup {NoProcess}]
            /\ lease' \in [Effects -> Nat]
        <5>1. CASE Owned(d)
          <6>1. /\ status' = [status EXCEPT ![job[d].effect] = s]
                /\ owner' = [owner EXCEPT ![job[d].effect] = NoProcess]
                /\ lease' = [lease EXCEPT ![job[d].effect] = n]
                /\ attempts' = attempts
            BY <2>6, <5>1 DEF Transition
          <6>2. /\ status \in [Effects -> {"absent", "pending", "retrying", "delivered", "failed"}]
                /\ attempts \in [Effects -> Nat]
                /\ owner \in [Effects -> Processes \cup {NoProcess}]
                /\ lease \in [Effects -> Nat]
            BY DEF TypeOK
          <6>q. QED
            BY <2>6, <6>1, <6>2
        <5>2. CASE ~Owned(d)
          BY <2>6, <5>2 DEF Transition, TypeOK
        <5>q. QED
          BY <5>1, <5>2
      <4>2. /\ pc' \in [Deliveries -> {"idle", "claimed", "loaded", "reloading", "applied",
                                       "erred", "invalid", "dead"}]
            /\ job' \in [Deliveries -> Jobs]
        BY <2>6, <1>0 DEF Finish, TypeOK
      <4>q. QED
        BY <2>6, <4>1, <4>2 DEF TypeOK
    <3>2. JobInv' /\ ConfigsShort'
      BY <2>6, <1>0 DEF Finish, TypeOK, JobInv, ConfigsShort, Engaged, Short
    <3>q. QED
      BY <3>1, <3>2
  <2>7. CASE MarkDelivered(d)
    BY <2>6, <2>7 DEF MarkDelivered
  <2>8. CASE MarkFailed(d)
    BY <2>6, <2>8 DEF MarkFailed
  <2>9. CASE MarkRetry(d)
    BY <2>6, <2>9 DEF MarkRetry
  <2>10. CASE Die(d)
    BY <2>10, <1>0 DEF Die, TypeOK, JobInv, ConfigsShort, Engaged, Short
  <2>q. QED
    BY <1>3, <2>1, <2>2, <2>3, <2>4, <2>5, <2>7, <2>8, <2>9, <2>10 DEF Deliver
<1>4. ASSUME NEW p \in Processes, ClientStep(p) PROVE TypeInv'
  <2> USE DEF rowVars, taskVars
  <2>0. /\ Refreshed(p) \in [config : Config, rev : Config]
        /\ Short(Refreshed(p).config) /\ Short(Refreshed(p).rev)
    BY RefreshedType
  <2>1. CASE GetSettings(p)
    BY <2>0, <2>1 DEF GetSettings, TypeOK, JobInv, ConfigsShort, Engaged, Short
  <2>2. CASE \E x \in Changes : PatchSettings(p, x)
    <3>1. PICK x \in Changes : PatchSettings(p, x)
      BY <2>2
    <3>2. Changed(Refreshed(p).config, x) \in Config /\ Short(Changed(Refreshed(p).config, x))
      BY <2>0, ChangedType DEF Short
    <3>3. TypeOK'
      BY <2>0, <3>1, <3>2 DEF PatchSettings, TypeOK, Changes
    <3>4. JobInv'
      BY <3>1 DEF PatchSettings, JobInv, Engaged
    <3>5. ConfigsShort'
      BY <2>0, <3>1, <3>2 DEF PatchSettings, ConfigsShort, TypeOK
    <3>q. QED
      BY <3>3, <3>4, <3>5
  <2>3. CASE SaveSettings(p)
    BY <2>3 DEF SaveSettings, TypeOK, JobInv, ConfigsShort, Engaged, Short
  <2>4. CASE SettingsRefused(p)
    BY <2>4, <1>0 DEF SettingsRefused, NoDraft, TypeOK, JobInv, ConfigsShort, Engaged
  <2>5. CASE KeepSettings(p)
    <3>1. Cached(draft[p].config, file) \in [config : Config, rev : Config]
      BY DEF Cached, TypeOK
    <3>2. TypeOK'
      BY <2>5, <1>0, <3>1 DEF KeepSettings, NoDraft, TypeOK
    <3>3. JobInv'
      BY <2>5 DEF KeepSettings, JobInv, Engaged
    <3>4. ConfigsShort'
      BY <2>5, <1>0 DEF KeepSettings, NoDraft, Cached, TypeOK, ConfigsShort, Short
    <3>q. QED
      BY <3>2, <3>3, <3>4
  <2>q. QED
    BY <1>4, <2>1, <2>2, <2>3, <2>4, <2>5 DEF ClientStep
<1>5. ASSUME NEW p \in Processes, Restart(p) PROVE TypeInv'
  <2>1. TypeOK'
    BY <1>5, <1>0 DEF Restart, NoDraft, Cached, TypeOK, rowVars
  <2>2. JobInv'
    BY <1>5, <1>0 DEF Restart, TypeOK, JobInv, Engaged
  <2>3. ConfigsShort'
    BY <1>5, <1>0 DEF Restart, NoDraft, Cached, TypeOK, ConfigsShort, Short
  <2>q. QED
    BY <2>1, <2>2, <2>3
<1>6. CASE Tick
  <2>1. lease' \in [Effects -> Nat]
    BY <1>6 DEF Tick, TypeOK
  <2>2. TypeOK'
    BY <1>6, <2>1 DEF Tick, TypeOK, taskVars, clientVars
  <2>3. JobInv' /\ ConfigsShort'
    BY <1>6 DEF Tick, JobInv, ConfigsShort, Engaged, Short, taskVars, clientVars
  <2>q. QED
    BY <2>2, <2>3
<1>7. CASE UNCHANGED vars
  BY <1>7 DEF vars, rowVars, taskVars, clientVars, TypeOK, JobInv, ConfigsShort, Engaged, Short
<1>q. QED
  BY <1>1, <1>2, <1>3, <1>4, <1>5, <1>6, <1>7 DEF Next

\* Every row, delivery and client keeps its type, the config never remembers
\* more ids than IdLimit, and no attempt exceeds its rounds (approval_side_effects.py,
\* approval_side_effect_worker.py, the settings handlers).
THEOREM RulesTyped == Spec => []TypeOK
<1>1. TypeInv => TypeOK
  BY DEF TypeInv
<1>q. QED
  BY InitType, TypeStep, <1>1, PTL DEF Spec

\* No step changes the status of a delivered or failed row, whoever was slow
\* and whatever crashed (the WHERE clause of _transition).
THEOREM SettledStays == Spec => SettledIsFinal
<1>1. ASSUME TypeInv, [Next]_vars, NEW e \in Effects, status[e] \in {"delivered", "failed"}
      PROVE  status'[e] = status[e]
  <2> USE <1>1 DEF rowVars, taskVars, clientVars, TypeInv, TypeOK
  <2>1. CASE \E f \in Effects : Enqueue(f)
    BY <2>1 DEF Enqueue
  <2>2. CASE \E d \in Deliveries : ClaimNext(d)
    BY <2>2 DEF ClaimNext, Claim, Eligible
  <2>3. ASSUME NEW d \in Deliveries, Deliver(d) PROVE status'[e] = status[e]
    BY <2>3 DEF Deliver, Reject, Load, LoadOrSaveFails, Save, SaveConflicts, MarkDelivered,
                MarkFailed, MarkRetry, Die, Transition, Owned
  <2>4. CASE \E p \in Processes : ClientStep(p) \/ Restart(p)
    BY <2>4 DEF ClientStep, GetSettings, PatchSettings, SaveSettings, SettingsRefused,
                KeepSettings, Restart
  <2>5. CASE Tick \/ UNCHANGED vars
    BY <2>5 DEF Tick, vars
  <2>q. QED
    BY <2>1, <2>2, <2>3, <2>4, <2>5 DEF Next
<1>2. TypeInv /\ [Next]_vars =>
        [\A e \in Effects :
           status[e] \in {"delivered", "failed"} => status'[e] = status[e]]_vars
  BY <1>1
<1>q. QED
  BY InitType, TypeStep, <1>2, PTL DEF Spec, SettledIsFinal

-----------------------------------------------------------------------------
\* Applied once.

LEMMA InitOnce == Init => OnceInv
<1> SUFFICES ASSUME Init PROVE OnceInv
  OBVIOUS
<1>1. file.ids = <<>> /\ Ids(file) = {}
  BY DEF Init, EmptyConfig, Ids
<1>2. FileInv
  BY <1>1 DEF Init, FileInv, Distinct
<1>3. SnapInv
  BY DEF Init, SnapInv
<1>4. ASSUME NEW p \in Processes PROVE ClientInv(p)
  BY <1>1 DEF Init, ClientInv, Cached, Ids, EmptyConfig
<1>q. QED
  BY <1>2, <1>3, <1>4 DEF OnceInv

\* A client's config depends on the file only through its ids, unless the
\* client has just saved.
LEMMA ClientKeeps ==
  ASSUME NEW p \in Processes, ClientInv(p),
         cache'[p] = cache[p], etag'[p] = etag[p], edit'[p] = edit[p], draft'[p] = draft[p],
         Ids(file) \subseteq Ids(file)',
         edit[p] = "saved" =>
           /\ file' = file
           /\ \A d \in TasksOf(p) : pc'[d] \notin {"loaded", "reloading"}
  PROVE  ClientInv(p)'
<1>1. \A q \in Processes : TasksOf(q)' = TasksOf(q)
  BY DEF TasksOf
<1>2. /\ Ids(etag[p])' = Ids(etag[p])
      /\ Ids(draft[p].config)' = Ids(draft[p].config)
  BY DEF Ids
<1>3. CASE edit[p] = "saved"
  BY <1>1, <1>2, <1>3 DEF ClientInv
<1>4. CASE edit[p] # "saved"
  <2>. HIDE DEF Ids
  <2>q. QED
    BY <1>2, <1>4 DEF ClientInv
<1>q. QED
  BY <1>3, <1>4

LEMMA OnceStep ==
  ASSUME WritersKnown, IdsSuffice, TypeInv, OnceInv, [Next]_vars
  PROVE  OnceInv'
<1> USE DEF rowVars, taskVars, clientVars
<1>1. ASSUME UNCHANGED <<file, applied>> PROVE FileInv'
  BY <1>1 DEF OnceInv, FileInv, Ids
<1>2. ASSUME UNCHANGED <<file, clientVars>>,
             \A d \in Deliveries :
               pc'[d] \in {"loaded", "reloading"} =>
                 \/ pc[d] \in {"loaded", "reloading"}
                 \/ edit[ProcessOf[d]] # "saved"
      PROVE  \A p \in Processes : ClientInv(p)'
  <2> SUFFICES ASSUME NEW p \in Processes PROVE ClientInv(p)'
    OBVIOUS
  <2>1. ClientInv(p)
    BY DEF OnceInv
  <2>2. ASSUME edit[p] = "saved", NEW d \in TasksOf(p)
        PROVE  pc'[d] \notin {"loaded", "reloading"}
    BY <1>2, <2>1, <2>2 DEF ClientInv, TasksOf
  <2>3. Ids(file) \subseteq Ids(file)'
    BY <1>2 DEF Ids
  <2>q. QED
    BY <1>2, <2>1, <2>2, <2>3, ClientKeeps
<1>3. ASSUME UNCHANGED taskVars PROVE SnapInv'
  BY <1>3 DEF OnceInv, SnapInv, Ids
<1>4. \A p, q \in Processes : edit[p] # "none" => p = q
  BY DEF WritersKnown, OnceInv, ClientInv
<1>5. CASE \E e \in Effects : Enqueue(e)
  BY <1>1, <1>2, <1>3, <1>5 DEF Enqueue, OnceInv
<1>6. ASSUME NEW d \in Deliveries, ClaimNext(d) PROVE OnceInv'
  <2>1. PICK e \in Effects : Claim(d, e)
    BY <1>6 DEF ClaimNext
  <2>2. \A c \in Deliveries : pc'[c] \in {"loaded", "reloading"} =>
           pc[c] = pc'[c] /\ job'[c] = job[c]
    BY <2>1 DEF Claim, TypeInv, TypeOK
  <2>3. SnapInv'
    BY <2>2 DEF OnceInv, SnapInv, Ids
  <2>q. QED
    BY <1>1, <1>2, <2>1, <2>2, <2>3 DEF Claim, OnceInv
<1>7. ASSUME NEW d \in Deliveries, Deliver(d) PROVE OnceInv'
  <2>1. ASSUME UNCHANGED <<file, applied, clientVars>>,
               \A c \in Deliveries \ {d} : pc'[c] = pc[c] /\ job'[c] = job[c],
               pc'[d] \notin {"loaded", "reloading"}
        PROVE  OnceInv'
    <3>1. SnapInv'
      BY <2>1 DEF OnceInv, SnapInv, Ids
    <3>q. QED
      BY <1>1, <1>2, <2>1, <3>1 DEF OnceInv
  <2>2. CASE Reject(d) \/ LoadOrSaveFails(d) \/ Die(d)
    BY <2>1, <2>2 DEF Reject, LoadOrSaveFails, Die, GoTo, TypeInv, TypeOK
  <2>3. CASE MarkDelivered(d) \/ MarkFailed(d) \/ MarkRetry(d)
    BY <2>1, <2>3 DEF MarkDelivered, MarkFailed, MarkRetry, Finish, TypeInv, TypeOK
  <2>4. CASE Load(d)
    <3>1. CASE Known(d)
      BY <2>1, <2>4, <3>1 DEF Load, GoTo, TypeInv, TypeOK
    <3>2. CASE ~Known(d)
      <4>1. /\ pc' = [pc EXCEPT ![d] = "loaded"]
            /\ job' = [job EXCEPT ![d].snap = file]
            /\ UNCHANGED <<file, applied, clientVars>>
        BY <2>4, <3>2 DEF Load
      <4>2. /\ job'[d].snap = file /\ job'[d].effect = job[d].effect
            /\ job[d].effect \notin Malformed
        BY <2>4, <4>1 DEF Load, TypeInv, TypeOK, Jobs
      <4>3. \A c \in Deliveries \ {d} : pc'[c] = pc[c] /\ job'[c] = job[c]
        BY <4>1 DEF TypeInv, TypeOK
      <4>4. SnapInv'
        BY <3>2, <4>2, <4>3 DEF OnceInv, SnapInv, Ids, Known
      <4>5. pc[d] \in {"loaded", "reloading"} \/ edit[ProcessOf[d]] # "saved"
        BY <2>4 DEF Load, Running, HoldsLoop
      <4>q. QED
        BY <1>1, <1>2, <4>1, <4>3, <4>4, <4>5 DEF OnceInv
    <3>q. QED
      BY <3>1, <3>2
  <2>5. CASE SaveConflicts(d)
    <3>1. \A c \in Deliveries \ {d} : pc'[c] = pc[c] /\ job'[c] = job[c]
      BY <2>5 DEF SaveConflicts, TypeInv, TypeOK
    <3>2. pc[d] = "loaded" /\ pc'[d] # "loaded"
      BY <2>5 DEF SaveConflicts, TypeInv, TypeOK
    <3>3. SnapInv'
      BY <3>1, <3>2 DEF OnceInv, SnapInv, Ids
    <3>4. UNCHANGED <<file, applied, clientVars>>
      BY <2>5 DEF SaveConflicts
    <3>q. QED
      BY <1>1, <1>2, <3>1, <3>2, <3>3, <3>4 DEF OnceInv
  <2>6. CASE Save(d)
    <3> DEFINE e == job[d].effect
    <3>1. /\ pc[d] = "loaded" /\ job[d].snap = file
          /\ file' = WithEffect(file, e)
          /\ applied' = [applied EXCEPT ![e] = applied[e] + 1]
          /\ pc' = [pc EXCEPT ![d] = "applied"] /\ job' = job
          /\ UNCHANGED clientVars
      BY <2>6 DEF Save, Unchanged, GoTo
    <3>2. /\ e \in Effects /\ e \in Valid /\ e \notin Ids(file)
          /\ file \in Config /\ Distinct(file.ids) /\ Ids(file) \subseteq Valid
      BY <3>1 DEF TypeInv, TypeOK, JobInv, Engaged, OnceInv, SnapInv, FileInv, Valid
    <3>3. Ids(file') = Ids(file) \cup {e} /\ Distinct(file'.ids)
      BY <3>1, <3>2, WithEffectIds
    <3>4. Ids(file)' = Ids(file')
      BY DEF Ids
    <3>5. applied \in [Effects -> Nat]
      BY DEF TypeInv, TypeOK
    <3>6. \A f \in Effects : applied[f] = IF f \in Ids(file) THEN 1 ELSE 0
      BY DEF OnceInv, FileInv
    <3> HIDE DEF e
    <3>7. ASSUME NEW f \in Effects PROVE applied'[f] = IF f \in Ids(file') THEN 1 ELSE 0
      <4>1. CASE f = e
        BY <3>1, <3>2, <3>3, <3>5, <3>6, <4>1
      <4>2. CASE f # e
        BY <3>1, <3>2, <3>3, <3>5, <3>6, <4>2
      <4>q. QED
        BY <4>1, <4>2
    <3>8. FileInv'
      BY <3>2, <3>3, <3>4, <3>7 DEF FileInv, Distinct, Valid
    <3>9. SnapInv'
      BY <3>1 DEF OnceInv, SnapInv, Ids, TypeInv, TypeOK
    <3>10. ASSUME NEW p \in Processes PROVE ClientInv(p)'
      <4>1. ClientInv(p) /\ ProcessOf[d] \in Processes
        BY ConstantsAssumption DEF OnceInv
      <4>2. edit[p] # "saved"
        BY <1>4, <3>1, <4>1 DEF ClientInv, TasksOf
      <4>q. QED
        BY <3>1, <3>3, <3>4, <4>1, <4>2, ClientKeeps
    <3>q. QED
      BY <3>8, <3>9, <3>10 DEF OnceInv
  <2>q. QED
    BY <1>7, <2>2, <2>3, <2>4, <2>5, <2>6 DEF Deliver
<1>8. ASSUME NEW p \in Processes, ClientStep(p) PROVE OnceInv'
  <2>0. /\ Refreshed(p).config.ids = file.ids
        /\ Refreshed(p).rev = file
    BY DEF Refreshed, Cached, OnceInv, ClientInv
  <2>1. ASSUME NEW q \in Processes \ {p}, UNCHANGED <<file, taskVars>>,
               cache'[q] = cache[q], etag'[q] = etag[q],
               edit'[q] = edit[q], draft'[q] = draft[q]
        PROVE  ClientInv(q)'
    <3>1. ClientInv(q)
      BY DEF OnceInv
    <3>2. Ids(file) \subseteq Ids(file)'
      BY <2>1 DEF Ids
    <3>q. QED
      BY <2>1, <3>1, <3>2, ClientKeeps DEF ClientInv
  <2>2. CASE GetSettings(p)
    <3>1. ASSUME NEW q \in Processes PROVE ClientInv(q)'
      <4>1. CASE q # p
        BY <2>1, <2>2, <4>1 DEF GetSettings, TypeInv, TypeOK
      <4>2. CASE q = p
        <5>1. /\ cache'[p] = Refreshed(p) /\ etag'[p] = file
              /\ edit'[p] = "none" /\ file' = file
          BY <2>0, <2>2 DEF GetSettings, TypeInv, TypeOK
        <5>q. QED
          BY <2>0, <4>2, <5>1 DEF ClientInv, Ids
      <4>q. QED
        BY <4>1, <4>2
    <3>q. QED
      BY <1>1, <1>3, <2>2, <3>1 DEF GetSettings, OnceInv
  <2>3. CASE \E x \in Changes : PatchSettings(p, x)
    <3>1. PICK x \in Changes : PatchSettings(p, x)
      BY <2>3
    <3>2. ASSUME NEW q \in Processes PROVE ClientInv(q)'
      <4>1. CASE q # p
        BY <2>1, <3>1, <4>1 DEF PatchSettings, TypeInv, TypeOK
      <4>2. CASE q = p
        <5>1. /\ cache'[p] = Refreshed(p) /\ etag'[p] = etag[p]
              /\ draft'[p].config = Changed(Refreshed(p).config, x)
              /\ edit'[p] = "drafted" /\ file' = file /\ p \in Editors
          BY <3>1 DEF PatchSettings, TypeInv, TypeOK
        <5>2. draft'[p].config.ids = file.ids
          BY <2>0, <5>1, RefreshedType, ChangedType
        <5>3. Ids(etag[p]) \subseteq Ids(file) /\ Distinct(file.ids)
          BY DEF OnceInv, ClientInv, FileInv
        <5>4. Ids(draft'[p].config) = Ids(file)
          BY <5>2 DEF Ids
        <5>5. Ids(etag[p])' = Ids(etag[p]) /\ Ids(file)' = Ids(file)
              /\ Ids(draft[p].config)' = Ids(draft'[p].config)
          BY <5>1 DEF Ids
        <5>6. Distinct(draft[p].config.ids)'
          BY <5>2, <5>3 DEF Distinct
        <5>q. QED
          BY <2>0, <4>2, <5>1, <5>3, <5>4, <5>5, <5>6 DEF ClientInv
      <4>q. QED
        BY <4>1, <4>2
    <3>q. QED
      BY <1>1, <1>3, <3>1, <3>2 DEF PatchSettings, OnceInv
  <2>4. CASE SaveSettings(p)
    <3>1. /\ edit[p] = "drafted" /\ file = etag[p] /\ file' = draft[p].config
          /\ edit' = [edit EXCEPT ![p] = "saved"] /\ ~HoldsLoop(p)
          /\ UNCHANGED <<taskVars, draft, cache, etag, applied>>
      BY <2>4 DEF SaveSettings, Unchanged
    <3>2. /\ Distinct(draft[p].config.ids)
          /\ Ids(draft[p].config) = Ids(file)
          /\ p \in Editors
      BY <3>1 DEF OnceInv, ClientInv
    <3>3. Ids(file)' = Ids(file)
      BY <3>1, <3>2 DEF Ids
    <3>4. FileInv'
      BY <3>1, <3>2, <3>3 DEF OnceInv, FileInv, Distinct
    <3>5. ASSUME NEW q \in Processes PROVE ClientInv(q)'
      <4>1. q = p
        BY <1>4, <3>1
      <4>2. edit'[p] = "saved" /\ draft'[p].config = file'
        BY <3>1 DEF TypeInv, TypeOK
      <4>3. \A d \in TasksOf(p)' : pc'[d] \notin {"loaded", "reloading"}
        BY <3>1 DEF HoldsLoop, TasksOf
      <4>4. Ids(etag[p])' = Ids(etag[p])
        BY <3>1 DEF Ids
      <4>q. QED
        BY <3>1, <3>2, <3>3, <4>1, <4>2, <4>3, <4>4 DEF OnceInv, ClientInv
    <3>q. QED
      BY <1>3, <3>1, <3>4, <3>5 DEF OnceInv
  <2>5. CASE SettingsRefused(p)
    <3>1. ASSUME NEW q \in Processes PROVE ClientInv(q)'
      <4>1. CASE q # p
        BY <2>1, <2>5, <4>1 DEF SettingsRefused, TypeInv, TypeOK
      <4>2. CASE q = p
        <5>1. /\ edit'[p] = "none"
              /\ UNCHANGED <<file, cache, etag>>
          BY <2>5 DEF SettingsRefused, TypeInv, TypeOK
        <5>2. /\ cache[p].config.ids = cache[p].rev.ids
              /\ Ids(etag[p]) \subseteq Ids(file)
          BY DEF OnceInv, ClientInv
        <5>q. QED
          BY <4>2, <5>1, <5>2 DEF ClientInv, Ids
      <4>q. QED
        BY <4>1, <4>2
    <3>q. QED
      BY <1>1, <1>3, <2>5, <3>1 DEF SettingsRefused, OnceInv
  <2>6. CASE KeepSettings(p)
    <3>1. ASSUME NEW q \in Processes PROVE ClientInv(q)'
      <4>1. CASE q # p
        BY <2>1, <2>6, <4>1 DEF KeepSettings, TypeInv, TypeOK
      <4>2. CASE q = p
        <5>1. draft[p].config = file
          BY <2>6 DEF KeepSettings, OnceInv, ClientInv
        <5>2. /\ cache'[p].config = file /\ cache'[p].rev = file /\ etag'[p] = file
              /\ edit'[p] = "none" /\ file' = file
          BY <2>6, <5>1 DEF KeepSettings, Cached, TypeInv, TypeOK
        <5>q. QED
          BY <4>2, <5>2 DEF ClientInv, Ids
      <4>q. QED
        BY <4>1, <4>2
    <3>q. QED
      BY <1>1, <1>3, <2>6, <3>1 DEF KeepSettings, OnceInv
  <2>q. QED
    BY <1>8, <2>2, <2>3, <2>4, <2>5, <2>6 DEF ClientStep
<1>9. ASSUME NEW p \in Processes, Restart(p) PROVE OnceInv'
  <2>1. \A d \in Deliveries : pc'[d] \in {"loaded", "reloading"} =>
          pc[d] = pc'[d] /\ job'[d] = job[d]
    BY <1>9 DEF Restart
  <2>2. SnapInv'
    BY <2>1 DEF OnceInv, SnapInv, Ids
  <2>3. ASSUME NEW q \in Processes PROVE ClientInv(q)'
    <3>0. ClientInv(q) /\ file' = file /\ etag' = etag /\ Ids(file)' = Ids(file)
      BY <1>9 DEF OnceInv, Restart, Ids
    <3>1. CASE q = p
      <4>1. cache'[p].config = file /\ cache'[p].rev = file /\ edit'[p] = "none"
        BY <1>9 DEF Restart, Cached, TypeInv, TypeOK
      <4>q. QED
        BY <3>0, <3>1, <4>1 DEF ClientInv, Ids
    <3>2. CASE q # p
      <4>1. /\ cache'[q] = cache[q] /\ edit'[q] = edit[q] /\ draft'[q] = draft[q]
        BY <1>9, <3>2 DEF Restart, TypeInv, TypeOK
      <4>q. QED
        BY <2>1, <3>0, <4>1, ClientKeeps DEF ClientInv, TasksOf
    <3>q. QED
      BY <3>1, <3>2
  <2>q. QED
    BY <1>1, <1>9, <2>2, <2>3 DEF Restart, OnceInv
<1>10. CASE Tick
  BY <1>1, <1>2, <1>3, <1>10 DEF Tick, OnceInv
<1>11. CASE UNCHANGED vars
  BY <1>1, <1>2, <1>3, <1>11 DEF vars, OnceInv
<1>q. QED
  BY <1>5, <1>6, <1>7, <1>8, <1>9, <1>10, <1>11 DEF Next

\* Each effect is saved into the config at most once, however often it is
\* claimed, by however many processes and with whatever crashes in between, as
\* long as nobody else writes the file behind a client's back (the ids that
\* ApprovalSideEffectWorker._deliver looks for, and the revisions of save_config).
THEOREM EffectAppliedOnce ==
  ASSUME WritersKnown, IdsSuffice
  PROVE  Spec => []AppliedOnce
<1>1. TypeInv /\ OnceInv => AppliedOnce
  <2> SUFFICES ASSUME OnceInv, NEW e \in Effects PROVE applied[e] <= 1
    BY DEF AppliedOnce
  <2>1. applied[e] = 0 \/ applied[e] = 1
    BY DEF OnceInv, FileInv
  <2>q. QED
    BY <2>1
<1>2. TypeInv /\ OnceInv /\ [Next]_vars => (TypeInv /\ OnceInv)'
  BY OnceStep, TypeStep
<1>q. QED
  BY InitType, InitOnce, <1>1, <1>2, PTL DEF Spec

-----------------------------------------------------------------------------
\* No writer undoes what another one wrote.

\* A config keeps what was done to it: the rule of every effect it remembers is
\* there unless it was removed, and every setting that was switched on is on.
Kept(c, done) ==
  /\ \A e \in Ids(c) : RuleOf[e] \in c.rules \cup done
  /\ done \cap Settings \subseteq c.settings

\* What was removed from a config is gone, and each rule that is there, or was
\* there, came with an effect that the config remembers.
Gone(c, done) ==
  /\ done \cap c.rules = {}
  /\ \A r \in c.rules \cup (done \cap Rules) : \E e \in Ids(c) \cap Valid : RuleOf[e] = r

\* No two effects that can be delivered carry the same rule: a second approval
\* may rightly bring a rule back that an operator removed.
RulesDiffer == \A e, f \in Valid : RuleOf[e] = RuleOf[f] => e = f

\* The application's config is the one whose revision it keeps.
CacheInv == \A p \in Processes : cache[p].config = cache[p].rev

\* What a row, or the delivery that is about to say so, calls delivered is in
\* the file.
DeliveredInv ==
  /\ \A e \in Effects : status[e] = "delivered" => e \in Ids(file)
  /\ \A d \in Deliveries : pc[d] = "applied" => job[d].effect \in Ids(file)

\* A client's draft keeps, next to the change it makes, what the file keeps.
DraftKept(p) ==
  edit[p] = "drafted" => Kept(draft[p].config, saved \cup draft[p].change)

KeptInv == Kept(file, saved) /\ \A p \in Processes : DraftKept(p)

DraftGone(p) ==
  edit[p] = "drafted" => Gone(draft[p].config, saved \cup draft[p].change)

GoneInv == Gone(file, saved) /\ \A p \in Processes : DraftGone(p)

WriteInv == TypeInv /\ OnceInv /\ CacheInv /\ DeliveredInv

\* A delivery saves its effect.
Delivers(d) ==
  /\ pc[d] = "loaded"
  /\ job[d].effect \in Valid \ Ids(file)
  /\ file' = WithEffect(file, job[d].effect)
  /\ Ids(file') = Ids(file) \cup {job[d].effect}
  /\ pc'[d] = "applied"
  /\ UNCHANGED <<job, saved, clientVars, status>>
  /\ \A c \in Deliveries \ {d} : pc'[c] = pc[c]

\* A client saves its draft.
ClientSaves(p) ==
  /\ edit[p] = "drafted"
  /\ file' = draft[p].config
  /\ Ids(file') = Ids(file)
  /\ saved' = saved \cup draft[p].change
  /\ \A q \in Processes : edit'[q] # "drafted"
  /\ UNCHANGED <<status, taskVars, cache>>

LEMMA SaveDelivers ==
  ASSUME IdsSuffice, TypeInv, OnceInv, NEW d \in Deliveries, Save(d)
  PROVE  Delivers(d)
<1> DEFINE e == job[d].effect
<1>1. /\ pc[d] = "loaded" /\ job[d].snap = file
      /\ file' = WithEffect(file, e)
      /\ pc' = [pc EXCEPT ![d] = "applied"] /\ job' = job
      /\ UNCHANGED <<status, clientVars, saved>>
  BY DEF Save, Unchanged, GoTo, rowVars
<1>2. /\ e \in Valid \ Ids(file) /\ file \in Config
      /\ Distinct(file.ids) /\ Ids(file) \subseteq Valid
  BY <1>1 DEF TypeInv, TypeOK, JobInv, Engaged, OnceInv, SnapInv, FileInv, Valid
<1>3. Ids(file') = Ids(file) \cup {e}
  BY <1>1, <1>2, WithEffectIds
<1>4. pc'[d] = "applied" /\ \A c \in Deliveries \ {d} : pc'[c] = pc[c]
  BY <1>1 DEF TypeInv, TypeOK
<1>q. QED
  BY <1>1, <1>2, <1>3, <1>4 DEF Delivers

LEMMA SettingsSaved ==
  ASSUME WritersKnown, TypeInv, OnceInv, NEW p \in Processes, SaveSettings(p)
  PROVE  ClientSaves(p)
<1>1. /\ edit[p] = "drafted" /\ file = etag[p] /\ file' = draft[p].config
      /\ saved' = saved \cup draft[p].change
      /\ edit' = [edit EXCEPT ![p] = "saved"]
      /\ UNCHANGED <<status, taskVars, draft, cache, etag>>
  BY DEF SaveSettings, Unchanged, rowVars
<1>2. Ids(draft[p].config) = Ids(file) /\ p \in Editors
  BY <1>1 DEF OnceInv, ClientInv
<1>3. \A q \in Processes : q = p
  BY <1>2 DEF WritersKnown
<1>4. \A q \in Processes : edit'[q] # "drafted"
  BY <1>1, <1>3 DEF TypeInv, TypeOK
<1>q. QED
  BY <1>1, <1>2, <1>4 DEF ClientSaves

LEMMA Writers ==
  ASSUME WritersKnown, IdsSuffice, TypeInv, OnceInv, [Next]_vars
  PROVE  \/ UNCHANGED <<file, saved>>
         \/ \E d \in Deliveries : Delivers(d)
         \/ \E p \in Processes : ClientSaves(p)
<1> USE DEF rowVars, taskVars, clientVars
<1>1. CASE \E e \in Effects : Enqueue(e)
  BY <1>1 DEF Enqueue
<1>2. CASE \E d \in Deliveries : ClaimNext(d)
  BY <1>2 DEF ClaimNext, Claim
<1>3. ASSUME NEW d \in Deliveries, Deliver(d), ~Save(d) PROVE UNCHANGED <<file, saved>>
  BY <1>3 DEF Deliver, Reject, Load, LoadOrSaveFails, SaveConflicts, MarkDelivered,
              MarkFailed, MarkRetry, Die
<1>4. ASSUME NEW p \in Processes, ClientStep(p), ~SaveSettings(p)
      PROVE  UNCHANGED <<file, saved>>
  BY <1>4 DEF ClientStep, GetSettings, PatchSettings, SettingsRefused, KeepSettings
<1>5. CASE \E p \in Processes : Restart(p)
  BY <1>5 DEF Restart
<1>6. CASE Tick \/ UNCHANGED vars
  BY <1>6 DEF Tick, vars
<1>q. QED
  BY <1>1, <1>2, <1>3, <1>4, <1>5, <1>6, SaveDelivers, SettingsSaved DEF Next

\* A draft was there before, or was made of the file just now.
LEMMA Drafters ==
  ASSUME CacheInv, TypeInv, [Next]_vars, NEW p \in Processes, edit'[p] = "drafted"
  PROVE  \/ edit[p] = "drafted" /\ draft'[p] = draft[p]
         \/ /\ UNCHANGED <<file, saved>>
            /\ \E x \in Changes :
                 /\ x \in Settings \/ x \in file.rules
                 /\ draft'[p].config = Changed(file, x)
                 /\ draft'[p].change = {x}
<1> USE DEF rowVars, taskVars, clientVars, TypeInv, TypeOK
<1>1. CASE \E e \in Effects : Enqueue(e)
  BY <1>1 DEF Enqueue
<1>2. CASE \E d \in Deliveries : ClaimNext(d)
  BY <1>2 DEF ClaimNext, Claim
<1>3. CASE \E d \in Deliveries : Deliver(d)
  BY <1>3 DEF Deliver, Reject, Load, LoadOrSaveFails, Save, SaveConflicts, MarkDelivered,
              MarkFailed, MarkRetry, Die
<1>4. ASSUME NEW q \in Processes, NEW x \in Changes, PatchSettings(q, x), q = p
      PROVE  /\ UNCHANGED <<file, saved>>
             /\ x \in Settings \/ x \in file.rules
             /\ draft'[p].config = Changed(file, x)
             /\ draft'[p].change = {x}
  <2>1. Refreshed(p).config = file
    BY DEF Refreshed, Cached, CacheInv
  <2>2. draft'[p] = [config |-> Changed(file, x), change |-> {x}]
    BY <1>4, <2>1 DEF PatchSettings
  <2>q. QED
    BY <1>4, <2>1, <2>2 DEF PatchSettings
<1>5. ASSUME NEW q \in Processes, NEW x \in Changes, PatchSettings(q, x), q # p
      PROVE  edit[p] = "drafted" /\ draft'[p] = draft[p]
  BY <1>5 DEF PatchSettings
<1>6. ASSUME NEW q \in Processes,
             GetSettings(q) \/ SaveSettings(q) \/ SettingsRefused(q) \/ KeepSettings(q)
      PROVE  edit[p] = "drafted" /\ draft'[p] = draft[p]
  BY <1>6 DEF GetSettings, SaveSettings, SettingsRefused, KeepSettings
<1>7. ASSUME NEW q \in Processes, Restart(q)
      PROVE  edit[p] = "drafted" /\ draft'[p] = draft[p]
  BY <1>7 DEF Restart
<1>8. CASE Tick \/ UNCHANGED vars
  BY <1>8 DEF Tick, vars
<1>q. QED
  BY <1>1, <1>2, <1>3, <1>4, <1>5, <1>6, <1>7, <1>8 DEF Next, ClientStep

LEMMA WithEffectFields ==
  ASSUME NEW c \in Config, NEW e \in Effects
  PROVE  /\ WithEffect(c, e).rules = c.rules \cup {RuleOf[e]}
         /\ WithEffect(c, e).settings = c.settings
BY DEF WithEffect, Config

LEMMA KeptWithEffect ==
  ASSUME NEW c \in Config, NEW e \in Effects, NEW done, Kept(c, done),
         Ids(WithEffect(c, e)) = Ids(c) \cup {e}
  PROVE  Kept(WithEffect(c, e), done)
BY WithEffectFields DEF Kept

LEMMA GoneWithEffect ==
  ASSUME RulesDiffer, NEW c \in Config, NEW e \in Valid, NEW done,
         Gone(c, done), e \notin Ids(c),
         Ids(WithEffect(c, e)) = Ids(c) \cup {e}
  PROVE  Gone(WithEffect(c, e), done)
<1>1. WithEffect(c, e).rules = c.rules \cup {RuleOf[e]} /\ RuleOf[e] \in Rules
  BY WithEffectFields, ConstantsAssumption DEF Valid
<1>2. RuleOf[e] \notin done
  BY <1>1 DEF Gone, RulesDiffer
<1>q. QED
  BY <1>1, <1>2 DEF Gone

\* The change of a client is made, and undoes nothing.
LEMMA ChangedKeeps ==
  ASSUME NEW c \in Config, NEW x \in Changes, NEW done
  PROVE  /\ Kept(c, done) => Kept(Changed(c, x), done \cup {x})
         /\ Gone(c, done) /\ x \in Settings \cup c.rules => Gone(Changed(c, x), done \cup {x})
<1>1. Ids(Changed(c, x)) = Ids(c)
  BY ChangedType DEF Ids
<1>2. Rules \cap Settings = {} /\ c.rules \subseteq Rules
  BY ConstantsAssumption DEF Config
<1>3. CASE x \in Settings
  <2>1. Changed(c, x).rules = c.rules /\ Changed(c, x).settings = c.settings \cup {x}
    BY <1>3 DEF Changed, Config
  <2>q. QED
    BY <1>1, <1>2, <1>3, <2>1 DEF Kept, Gone
<1>4. CASE x \notin Settings
  <2>1. Changed(c, x).rules = c.rules \ {x} /\ Changed(c, x).settings = c.settings
    BY <1>4 DEF Changed, Config
  <2>q. QED
    BY <1>1, <1>2, <1>4, <2>1 DEF Kept, Gone
<1>q. QED
  BY <1>3, <1>4

LEMMA CacheStep ==
  ASSUME OnceInv, CacheInv, TypeInv, [Next]_vars
  PROVE  CacheInv'
<1> USE DEF rowVars, taskVars, clientVars, TypeInv, TypeOK
<1> SUFFICES ASSUME NEW p \in Processes PROVE cache'[p].config = cache'[p].rev
  BY DEF CacheInv
<1>0. cache[p].config = cache[p].rev
  BY DEF CacheInv
<1>1. CASE \E e \in Effects : Enqueue(e)
  BY <1>0, <1>1 DEF Enqueue
<1>2. CASE \E d \in Deliveries : ClaimNext(d)
  BY <1>0, <1>2 DEF ClaimNext, Claim
<1>3. CASE \E d \in Deliveries : Deliver(d)
  BY <1>0, <1>3 DEF Deliver, Reject, Load, LoadOrSaveFails, Save, SaveConflicts,
                    MarkDelivered, MarkFailed, MarkRetry, Die
<1>4. ASSUME NEW q \in Processes,
             GetSettings(q) \/ \E x \in Changes : PatchSettings(q, x)
      PROVE  cache'[p].config = cache'[p].rev
  <2>1. Refreshed(q).config = Refreshed(q).rev
    BY DEF Refreshed, Cached, CacheInv
  <2>2. cache' = [cache EXCEPT ![q] = Refreshed(q)]
    BY <1>4 DEF GetSettings, PatchSettings
  <2>q. QED
    BY <1>0, <2>1, <2>2
<1>5. ASSUME NEW q \in Processes, SaveSettings(q) \/ SettingsRefused(q)
      PROVE  cache'[p].config = cache'[p].rev
  BY <1>0, <1>5 DEF SaveSettings, SettingsRefused
<1>6. ASSUME NEW q \in Processes, KeepSettings(q)
      PROVE  cache'[p].config = cache'[p].rev
  <2>1. draft[q].config = file
    BY <1>6 DEF KeepSettings, OnceInv, ClientInv
  <2>q. QED
    BY <1>0, <1>6, <2>1 DEF KeepSettings, Cached
<1>7. ASSUME NEW q \in Processes, Restart(q)
      PROVE  cache'[p].config = cache'[p].rev
  BY <1>0, <1>7 DEF Restart, Cached
<1>8. CASE Tick \/ UNCHANGED vars
  BY <1>0, <1>8 DEF Tick, vars
<1>q. QED
  BY <1>1, <1>2, <1>3, <1>4, <1>5, <1>6, <1>7, <1>8 DEF Next, ClientStep

\* A row becomes delivered, and a delivery gets to say so, only for an effect
\* that is in the file.
LEMMA DeliveredStep ==
  ASSUME WritersKnown, IdsSuffice, TypeInv, OnceInv, DeliveredInv, [Next]_vars
  PROVE  DeliveredInv'
<1> USE DEF rowVars, taskVars, clientVars
<1>1. Ids(file) \subseteq Ids(file')
  BY Writers DEF Delivers, ClientSaves
<1>2. Ids(file)' = Ids(file')
  BY DEF Ids
<1>3. ASSUME NEW e \in Effects, status'[e] = "delivered" PROVE e \in Ids(file')
  <2> USE <1>1, <1>3 DEF TypeInv, TypeOK
  <2>0. status[e] = "delivered" => e \in Ids(file')
    BY DEF DeliveredInv
  <2>1. CASE \E f \in Effects : Enqueue(f)
    BY <2>0, <2>1 DEF Enqueue
  <2>2. CASE \E d \in Deliveries : ClaimNext(d)
    BY <2>0, <2>2 DEF ClaimNext, Claim
  <2>3. ASSUME NEW d \in Deliveries, MarkDelivered(d) PROVE e \in Ids(file')
    <3>1. job[d].effect \in Ids(file)
      BY <2>3 DEF MarkDelivered, DeliveredInv
    <3>q. QED
      BY <2>0, <2>3, <3>1 DEF MarkDelivered, Transition
  <2>4. ASSUME NEW d \in Deliveries, Deliver(d), ~MarkDelivered(d) PROVE e \in Ids(file')
    BY <2>0, <2>4 DEF Deliver, Reject, Load, LoadOrSaveFails, Save, SaveConflicts,
                      MarkFailed, MarkRetry, Die, Transition
  <2>5. CASE \E p \in Processes : ClientStep(p) \/ Restart(p)
    BY <2>0, <2>5 DEF ClientStep, GetSettings, PatchSettings, SaveSettings, SettingsRefused,
                      KeepSettings, Restart
  <2>6. CASE Tick \/ UNCHANGED vars
    BY <2>0, <2>6 DEF Tick, vars
  <2>q. QED
    BY <2>1, <2>2, <2>3, <2>4, <2>5, <2>6 DEF Next
<1>4. ASSUME NEW d \in Deliveries, pc'[d] = "applied" PROVE job'[d].effect \in Ids(file')
  <2> USE <1>1, <1>4 DEF TypeInv, TypeOK
  <2>0. pc[d] = "applied" => job[d].effect \in Ids(file')
    BY DEF DeliveredInv
  <2>1. CASE \E f \in Effects : Enqueue(f)
    BY <2>0, <2>1 DEF Enqueue
  <2>2. CASE \E c \in Deliveries : ClaimNext(c)
    BY <2>0, <2>2 DEF ClaimNext, Claim
  <2>3. ASSUME NEW c \in Deliveries, Load(c) PROVE job'[d].effect \in Ids(file')
    BY <2>0, <2>3 DEF Load, GoTo, Known, Jobs
  <2>4. ASSUME NEW c \in Deliveries, Save(c) PROVE job'[d].effect \in Ids(file')
    <3>1. Delivers(c)
      BY <2>4, SaveDelivers
    <3>q. QED
      BY <2>0, <3>1 DEF Delivers
  <2>5. ASSUME NEW c \in Deliveries, Deliver(c), ~Load(c), ~Save(c)
        PROVE  job'[d].effect \in Ids(file')
    BY <2>0, <2>5 DEF Deliver, Reject, LoadOrSaveFails, SaveConflicts, MarkDelivered,
                      MarkFailed, MarkRetry, Die, GoTo, Finish
  <2>6. CASE \E p \in Processes : ClientStep(p)
    BY <2>0, <2>6 DEF ClientStep, GetSettings, PatchSettings, SaveSettings, SettingsRefused,
                      KeepSettings
  <2>7. CASE \E p \in Processes : Restart(p)
    BY <2>0, <2>7 DEF Restart
  <2>8. CASE Tick \/ UNCHANGED vars
    BY <2>0, <2>8 DEF Tick, vars
  <2>q. QED
    BY <2>1, <2>2, <2>3, <2>4, <2>5, <2>6, <2>7, <2>8 DEF Next
<1>q. QED
  BY <1>2, <1>3, <1>4 DEF DeliveredInv

LEMMA KeptStep ==
  ASSUME WritersKnown, IdsSuffice, TypeInv, OnceInv, CacheInv, KeptInv, [Next]_vars
  PROVE  KeptInv'
<1>0. file \in Config
  BY DEF TypeInv, TypeOK
<1>1. Kept(file', saved')
  <2>1. CASE UNCHANGED <<file, saved>>
    BY <2>1 DEF KeptInv
  <2>2. ASSUME NEW d \in Deliveries, Delivers(d) PROVE Kept(file', saved')
    BY <1>0, <2>2, KeptWithEffect DEF Delivers, KeptInv, Valid
  <2>3. ASSUME NEW p \in Processes, ClientSaves(p) PROVE Kept(file', saved')
    BY <2>3 DEF ClientSaves, KeptInv, DraftKept
  <2>q. QED
    BY <2>1, <2>2, <2>3, Writers
<1>2. ASSUME NEW p \in Processes, edit'[p] = "drafted"
      PROVE  Kept(draft'[p].config, saved' \cup draft'[p].change)
  <2>1. saved' = saved
    BY <1>2, Writers DEF Delivers, ClientSaves
  <2>2. CASE edit[p] = "drafted" /\ draft'[p] = draft[p]
    BY <2>1, <2>2 DEF KeptInv, DraftKept
  <2>3. ASSUME NEW x \in Changes, draft'[p].config = Changed(file, x), draft'[p].change = {x}
        PROVE  Kept(draft'[p].config, saved' \cup draft'[p].change)
    BY <1>0, <2>1, <2>3, ChangedKeeps DEF KeptInv
  <2>q. QED
    BY <1>2, <2>2, <2>3, Drafters
<1>3. Kept(file, saved)'
  BY <1>1 DEF Kept, Ids
<1>4. \A p \in Processes : DraftKept(p)'
  BY <1>2 DEF DraftKept, Kept, Ids
<1>q. QED
  BY <1>3, <1>4 DEF KeptInv

LEMMA GoneStep ==
  ASSUME WritersKnown, IdsSuffice, RulesDiffer,
         TypeInv, OnceInv, CacheInv, GoneInv, [Next]_vars
  PROVE  GoneInv'
<1>0. file \in Config
  BY DEF TypeInv, TypeOK
<1>1. Gone(file', saved')
  <2>1. CASE UNCHANGED <<file, saved>>
    BY <2>1 DEF GoneInv
  <2>2. ASSUME NEW d \in Deliveries, Delivers(d) PROVE Gone(file', saved')
    BY <1>0, <2>2, GoneWithEffect DEF Delivers, GoneInv
  <2>3. ASSUME NEW p \in Processes, ClientSaves(p) PROVE Gone(file', saved')
    BY <2>3 DEF ClientSaves, GoneInv, DraftGone
  <2>q. QED
    BY <2>1, <2>2, <2>3, Writers
<1>2. ASSUME NEW p \in Processes, edit'[p] = "drafted"
      PROVE  Gone(draft'[p].config, saved' \cup draft'[p].change)
  <2>1. saved' = saved
    BY <1>2, Writers DEF Delivers, ClientSaves
  <2>2. CASE edit[p] = "drafted" /\ draft'[p] = draft[p]
    BY <2>1, <2>2 DEF GoneInv, DraftGone
  <2>3. ASSUME NEW x \in Changes, x \in Settings \/ x \in file.rules,
               draft'[p].config = Changed(file, x), draft'[p].change = {x}
        PROVE  Gone(draft'[p].config, saved' \cup draft'[p].change)
    BY <1>0, <2>1, <2>3, ChangedKeeps DEF GoneInv
  <2>q. QED
    BY <1>2, <2>2, <2>3, Drafters
<1>3. Gone(file, saved)'
  BY <1>1 DEF Gone, Ids
<1>4. \A p \in Processes : DraftGone(p)'
  BY <1>2 DEF DraftGone, Gone, Ids
<1>q. QED
  BY <1>3, <1>4 DEF GoneInv

LEMMA InitWrites == Init => CacheInv /\ DeliveredInv /\ KeptInv /\ GoneInv
<1> SUFFICES ASSUME Init PROVE CacheInv /\ DeliveredInv /\ KeptInv /\ GoneInv
  OBVIOUS
<1>1. file.ids = <<>> /\ Ids(file) = {} /\ file.rules = {}
  BY DEF Init, EmptyConfig, Ids
<1>2. CacheInv
  BY DEF Init, CacheInv, Cached
<1>3. DeliveredInv
  BY DEF Init, DeliveredInv
<1>4. KeptInv
  BY <1>1 DEF Init, KeptInv, DraftKept, Kept
<1>5. GoneInv
  BY <1>1 DEF Init, GoneInv, DraftGone, Gone
<1>q. QED
  BY <1>2, <1>3, <1>4, <1>5

LEMMA WriteStep ==
  ASSUME WritersKnown, IdsSuffice
  PROVE  WriteInv /\ [Next]_vars => WriteInv'
BY TypeStep, OnceStep, CacheStep, DeliveredStep DEF WriteInv

\* What a row calls delivered stays in the config, and what a client saved
\* stays saved, unless an operator undoes it: no delivery, retry, settings save
\* or crash undoes what another writer wrote, as long as the writers are known
\* (save_config compares revisions, and _get_config loads what another process
\* wrote).
THEOREM WritesSurvive ==
  ASSUME WritersKnown, IdsSuffice
  PROVE  Spec => []NoLostUpdate
<1>1. WriteInv /\ KeptInv => NoLostUpdate
  BY DEF WriteInv, DeliveredInv, KeptInv, Kept, NoLostUpdate
<1>2. WriteInv /\ KeptInv /\ [Next]_vars => (WriteInv /\ KeptInv)'
  <2>1. WriteInv /\ KeptInv /\ [Next]_vars => KeptInv'
    BY KeptStep DEF WriteInv
  <2>q. QED
    BY <2>1, WriteStep
<1>3. Init => WriteInv /\ KeptInv
  BY InitType, InitOnce, InitWrites DEF WriteInv
<1>q. QED
  BY <1>1, <1>2, <1>3, PTL DEF Spec

\* A rule that an operator removed is not brought back by a retry of its
\* delivery or by a client that saw it before, even after a crash between the
\* save and the transition of the row (the ids that _deliver looks for).
THEOREM RemovalSurvives ==
  ASSUME WritersKnown, IdsSuffice, RulesDiffer
  PROVE  Spec => []RemovedStaysRemoved
<1>1. GoneInv => RemovedStaysRemoved
  BY DEF GoneInv, Gone, RemovedStaysRemoved
<1>2. WriteInv /\ GoneInv /\ [Next]_vars => (WriteInv /\ GoneInv)'
  <2>1. WriteInv /\ GoneInv /\ [Next]_vars => GoneInv'
    BY GoneStep DEF WriteInv
  <2>q. QED
    BY <2>1, WriteStep
<1>3. Init => WriteInv /\ GoneInv
  BY InitType, InitOnce, InitWrites DEF WriteInv
<1>q. QED
  BY <1>1, <1>2, <1>3, PTL DEF Spec

-----------------------------------------------------------------------------
\* The promise of ExactlyOnceOutbox.

\* Every change is made to what the file is at that moment: a draft whose save
\* could still be accepted is the file with its one change.
DraftInv ==
  \A p \in Processes :
    edit[p] = "drafted" /\ Ids(draft[p].config) = Ids(file) =>
      \E x \in Changes : /\ x \in Settings \/ x \in file.rules
                         /\ draft[p].config = Changed(file, x)

\* Only rows that were saved are delivered.
QueuedInv ==
  \A d \in Deliveries : Engaged(d) => status[job[d].effect] # "absent"

PromiseInv == WriteInv /\ DraftInv /\ QueuedInv

LEMMA DraftStep ==
  ASSUME WritersKnown, IdsSuffice, WriteInv, DraftInv, [Next]_vars
  PROVE  DraftInv'
<1> USE DEF WriteInv
<1> SUFFICES ASSUME NEW p \in Processes, edit'[p] = "drafted",
                    Ids(draft'[p].config) = Ids(file')
             PROVE  \E x \in Changes : /\ x \in Settings \/ x \in file'.rules
                                       /\ draft'[p].config = Changed(file', x)
  BY DEF DraftInv, Ids, Changed
<1>1. CASE edit[p] = "drafted" /\ draft'[p] = draft[p]
  <2>1. Ids(draft[p].config) \subseteq Ids(file)
    BY <1>1 DEF OnceInv, ClientInv
  <2>2. UNCHANGED file
    BY <1>1, <2>1, Writers DEF Delivers, ClientSaves
  <2>q. QED
    BY <1>1, <2>2 DEF DraftInv
<1>2. CASE UNCHANGED file /\ \E x \in Changes :
             /\ x \in Settings \/ x \in file.rules
             /\ draft'[p].config = Changed(file, x)
  BY <1>2
<1>q. QED
  BY <1>1, <1>2, Drafters

LEMMA QueuedStep == TypeInv /\ QueuedInv /\ [Next]_vars => QueuedInv'
<1> SUFFICES ASSUME TypeInv, QueuedInv, [Next]_vars,
                    NEW d \in Deliveries, pc'[d] \notin {"idle", "dead"}
             PROVE  status'[job'[d].effect] # "absent"
  BY DEF QueuedInv, Engaged
<1> USE DEF rowVars, taskVars, clientVars, TypeInv, TypeOK, Engaged
<1>0. pc[d] \notin {"idle", "dead"} =>
        job[d].effect \in Effects /\ status[job[d].effect] # "absent"
  BY DEF QueuedInv, JobInv
<1>1. ASSUME NEW e \in Effects, Enqueue(e) PROVE status'[job'[d].effect] # "absent"
  BY <1>0, <1>1 DEF Enqueue
<1>2. ASSUME NEW c \in Deliveries, NEW e \in Effects, Claim(c, e)
      PROVE  status'[job'[d].effect] # "absent"
  <2>1. CASE c = d
    BY <1>2, <2>1 DEF Claim, Job
  <2>2. CASE c # d
    BY <1>0, <1>2, <2>2 DEF Claim
  <2>q. QED
    BY <2>1, <2>2
<1>3. ASSUME NEW c \in Deliveries, Deliver(c) PROVE status'[job'[d].effect] # "absent"
  <2>1. CASE MarkDelivered(c) \/ MarkFailed(c) \/ MarkRetry(c) \/ Die(c)
    <3>1. pc'[c] \in {"idle", "dead"} /\ (c # d => pc'[d] = pc[d] /\ job'[d] = job[d])
      BY <2>1 DEF MarkDelivered, MarkFailed, MarkRetry, Die, Finish
    <3>2. ASSUME NEW e \in Effects, status[e] # "absent" PROVE status'[e] # "absent"
      BY <2>1, <3>2 DEF MarkDelivered, MarkFailed, MarkRetry, Die, Transition
    <3>q. QED
      BY <1>0, <3>1, <3>2
  <2>2. CASE Reject(c) \/ Load(c) \/ LoadOrSaveFails(c) \/ Save(c) \/ SaveConflicts(c)
    <3>1. UNCHANGED status /\ (pc'[d] = pc[d] \/ (c = d /\ pc[c] \notin {"idle", "dead"}))
      BY <2>2 DEF Reject, Load, LoadOrSaveFails, Save, SaveConflicts, Running, GoTo
    <3>2. job'[d].effect = job[d].effect
      <4>1. CASE UNCHANGED job
        BY <4>1
      <4>t. job \in [Deliveries -> Jobs]
        OBVIOUS
      <4> HIDE DEF TypeInv, TypeOK
      <4>2. CASE job' = [job EXCEPT ![c].snap = file]
        <5>1. job'[d] = IF c = d THEN [job[d] EXCEPT !.snap = file] ELSE job[d]
          BY <4>t, <4>2
        <5>q. QED
          BY <4>t, <5>1 DEF Jobs
      <4>3. CASE job' = [job EXCEPT ![c].round = job[c].round + 1]
        <5>1. job'[d] = IF c = d THEN [job[d] EXCEPT !.round = job[d].round + 1]
                                 ELSE job[d]
          BY <4>t, <4>3
        <5>q. QED
          BY <4>t, <5>1 DEF Jobs
      <4>q. QED
        BY <2>2, <4>1, <4>2, <4>3
        DEF Reject, Load, LoadOrSaveFails, Save, SaveConflicts, GoTo
    <3>q. QED
      BY <1>0, <3>1, <3>2
  <2>q. QED
    BY <1>3, <2>1, <2>2 DEF Deliver
<1>4. CASE \E p \in Processes : ClientStep(p)
  BY <1>0, <1>4 DEF ClientStep, GetSettings, PatchSettings, SaveSettings, SettingsRefused,
                    KeepSettings
<1>5. CASE \E p \in Processes : Restart(p)
  BY <1>0, <1>5 DEF Restart
<1>6. CASE Tick \/ UNCHANGED vars
  BY <1>0, <1>6 DEF Tick, vars
<1>q. QED
  BY <1>1, <1>2, <1>3, <1>4, <1>5, <1>6 DEF Next, ClaimNext

Phases == [e \in Effects |-> PhaseOf(status[e])]

Stutter == UNCHANGED <<Phases, applied, file>>

\* An effect moves from one phase to another, and nothing else happens.
Moves(e, from, to) ==
  /\ PhaseOf(status[e]) = from
  /\ status' = [status EXCEPT ![e] = to]
  /\ UNCHANGED <<applied, file>>

LEMMA MovesPhases ==
  ASSUME TypeInv, NEW e \in Effects, NEW from, NEW to, Moves(e, from, to)
  PROVE  /\ Phases[e] = from /\ Phases' = [Phases EXCEPT ![e] = PhaseOf(to)]
         /\ UNCHANGED <<applied, file.rules, file.settings>>
<1>1. \A f \in Effects : status'[f] = IF f = e THEN to ELSE status[f]
  BY DEF Moves, TypeInv, TypeOK
<1>2. \A f \in Effects : PhaseOf(status'[f]) = IF f = e THEN PhaseOf(to) ELSE PhaseOf(status[f])
  BY <1>1
<1>3. Phases' = [f \in Effects |-> PhaseOf(status'[f])]
  BY DEF Phases
<1>4. Phases' = [Phases EXCEPT ![e] = PhaseOf(to)]
  BY <1>2, <1>3 DEF Phases
<1>q. QED
  BY <1>4 DEF Moves, Phases

LEMMA PromiseStart == Init => Promise!Init
<1> SUFFICES ASSUME Init PROVE Promise!Init
  OBVIOUS
<1>1. Phases = [e \in Effects |-> "absent"]
  BY DEF Init, Phases, PhaseOf
<1>2. file.rules = {} /\ file.settings = {}
  BY DEF Init, EmptyConfig
<1>q. QED
  BY <1>1, <1>2 DEF Init, Promise!Init, Phases

LEMMA PromiseStep ==
  ASSUME WritersKnown, IdsSuffice, PromiseInv, [Next]_vars
  PROVE  [Promise!Next]_(Promise!vars)
<1> USE DEF rowVars, taskVars, clientVars, PromiseInv, WriteInv
<1>s. Stutter => UNCHANGED Promise!vars
  BY DEF Stutter, Promise!vars, Phases
<1>n. ASSUME NEW e \in Effects,
             Promise!Ask(e) \/ Promise!Apply(e) \/ Promise!Deliver(e) \/ Promise!GiveUp(e)
      PROVE  Promise!Next
  BY <1>n DEF Promise!Next
<1>1. ASSUME NEW e \in Effects, Enqueue(e) PROVE Promise!Ask(e)
  <2>1. Moves(e, "absent", "pending")
    BY <1>1 DEF Enqueue, Moves, PhaseOf
  <2>q. QED
    BY <2>1, MovesPhases DEF Promise!Ask, Promise!Move, Phases, PhaseOf
<1>2. ASSUME NEW d \in Deliveries, ClaimNext(d) PROVE Stutter
  <2>1. PICK e \in Effects : Claim(d, e)
    BY <1>2 DEF ClaimNext
  <2>2. ASSUME NEW f \in Effects PROVE PhaseOf(status'[f]) = PhaseOf(status[f])
    BY <2>1 DEF Claim, Eligible, PhaseOf, TypeInv, TypeOK
  <2>q. QED
    BY <2>1, <2>2 DEF Claim, Stutter, Phases
<1>3. ASSUME NEW d \in Deliveries, Save(d) PROVE Promise!Apply(job[d].effect)
  <2> DEFINE e == job[d].effect
  <2>1. Delivers(d)
    BY <1>3, SaveDelivers
  <2>2. e \in Effects \ Ids(file) /\ e \notin Malformed /\ status[e] # "absent"
    BY <2>1 DEF Delivers, Valid, QueuedInv, Engaged
  <2>3. applied[e] = 0
    BY <2>2 DEF OnceInv, FileInv
  <2>4. applied' = [applied EXCEPT ![e] = 1] /\ UNCHANGED status
    BY <1>3, <2>3 DEF Save
  <2>5. /\ file'.rules = file.rules \cup {RuleOf[e]}
        /\ file'.settings = file.settings
    BY <2>1, <2>2, WithEffectFields DEF Delivers, TypeInv, TypeOK
  <2>6. Phases[e] # "absent" /\ UNCHANGED Phases
    BY <2>2, <2>4 DEF Phases, PhaseOf
  <2> HIDE DEF e
  <2>q. QED
    BY <2>2, <2>3, <2>4, <2>5, <2>6 DEF Promise!Apply, Phases, e
<1>4. ASSUME NEW d \in Deliveries, MarkDelivered(d)
      PROVE  Stutter \/ Promise!Deliver(job[d].effect)
  <2> DEFINE e == job[d].effect
  <2>1. e \in Effects /\ applied[e] = 1
    BY <1>4 DEF MarkDelivered, DeliveredInv, JobInv, Engaged, TypeInv, OnceInv, FileInv
  <2>2. CASE Owned(d)
    <3>1. Moves(e, "queued", "delivered")
      BY <1>4, <2>2 DEF MarkDelivered, Transition, Owned, Moves, PhaseOf
    <3>q. QED
      BY <2>1, <3>1, MovesPhases DEF Promise!Deliver, Promise!Move, Phases, PhaseOf
  <2>3. CASE ~Owned(d)
    BY <1>4, <2>3 DEF MarkDelivered, Transition, Stutter, Phases
  <2>q. QED
    BY <2>2, <2>3
<1>5. ASSUME NEW d \in Deliveries, MarkFailed(d)
      PROVE  Stutter \/ Promise!GiveUp(job[d].effect)
  <2> DEFINE e == job[d].effect
  <2>1. e \in Effects
    BY <1>5 DEF MarkFailed, JobInv, Engaged, TypeInv
  <2>2. CASE Owned(d)
    <3>1. Moves(e, "queued", "failed")
      BY <1>5, <2>2 DEF MarkFailed, Transition, Owned, Moves, PhaseOf
    <3>q. QED
      BY <2>1, <3>1, MovesPhases DEF Promise!GiveUp, Promise!Move, Phases, PhaseOf
  <2>3. CASE ~Owned(d)
    BY <1>5, <2>3 DEF MarkFailed, Transition, Stutter, Phases
  <2>q. QED
    BY <2>2, <2>3
<1>6. ASSUME NEW d \in Deliveries, MarkRetry(d) PROVE Stutter
  <2>1. ASSUME NEW f \in Effects PROVE PhaseOf(status'[f]) = PhaseOf(status[f])
    BY <1>6 DEF MarkRetry, Transition, Owned, PhaseOf, TypeInv, TypeOK
  <2>q. QED
    BY <1>6, <2>1 DEF MarkRetry, Stutter, Phases
<1>7. ASSUME NEW d \in Deliveries,
             Reject(d) \/ Load(d) \/ LoadOrSaveFails(d) \/ SaveConflicts(d) \/ Die(d)
      PROVE  Stutter
  BY <1>7 DEF Reject, Load, LoadOrSaveFails, SaveConflicts, Die, Stutter, Phases
<1>8. ASSUME NEW p \in Processes, SaveSettings(p) PROVE Promise!Next
  <2>1. ClientSaves(p) /\ UNCHANGED applied
    BY <1>8, SettingsSaved DEF SaveSettings
  <2>2. PICK x \in Changes : /\ x \in Settings \/ x \in file.rules
                             /\ file' = Changed(file, x)
    BY <2>1 DEF ClientSaves, DraftInv
  <2>3. UNCHANGED Phases /\ file \in Config
    BY <2>1 DEF ClientSaves, Phases, TypeInv, TypeOK
  <2>4. CASE x \in Settings
    <3>1. file'.rules = file.rules /\ file'.settings = file.settings \cup {x}
      BY <2>2, <2>3, <2>4 DEF Changed, Config
    <3>2. Promise!SwitchOn(x)
      BY <2>1, <2>3, <3>1 DEF Promise!SwitchOn, Phases
    <3>q. QED
      BY <2>4, <3>2 DEF Promise!Next
  <2>5. CASE x \notin Settings
    <3>1. file'.rules = file.rules \ {x} /\ file'.settings = file.settings
      BY <2>2, <2>3, <2>5 DEF Changed, Config
    <3>2. x \in file.rules /\ Promise!Remove(x)
      BY <2>1, <2>2, <2>3, <2>5, <3>1 DEF Promise!Remove, Phases
    <3>q. QED
      BY <3>2 DEF Promise!Next
  <2>q. QED
    BY <2>4, <2>5
<1>9. ASSUME NEW p \in Processes, ClientStep(p), ~SaveSettings(p) PROVE Stutter
  BY <1>9 DEF ClientStep, GetSettings, PatchSettings, SettingsRefused, KeepSettings,
              Stutter, Phases
<1>10. ASSUME (\E p \in Processes : Restart(p)) \/ Tick \/ UNCHANGED vars
       PROVE  Stutter
  <2> SUFFICES UNCHANGED <<status, applied, file>>
    BY DEF Stutter, Phases
  <2>1. CASE \E p \in Processes : Restart(p)
    BY <2>1 DEF Restart
  <2>2. CASE Tick
    BY <2>2 DEF Tick
  <2>3. CASE UNCHANGED vars
    BY <2>3 DEF vars
  <2>q. QED
    BY <1>10, <2>1, <2>2, <2>3
<1>11. ASSUME NEW d \in Deliveries, Deliver(d) PROVE Stutter \/ Promise!Next
  <2>1. pc[d] \in {"loaded", "applied", "erred", "invalid"} => job[d].effect \in Effects
    BY DEF TypeInv, JobInv, Engaged
  <2>q. QED
    BY <1>n, <1>3, <1>4, <1>5, <1>6, <1>7, <1>11, <2>1
       DEF Deliver, Save, MarkDelivered, MarkFailed
<1>q. QED
  BY <1>s, <1>n, <1>1, <1>2, <1>8, <1>9, <1>10, <1>11 DEF Next

\* Deliveries and settings clients keep the promise of ExactlyOnceOutbox: each
\* save makes one change to what the file is at that moment, an effect is applied
\* at most once and a malformed one never, and it is reported as delivered only
\* when it was applied (_deliver, the settings handlers, save_config).
THEOREM Refinement ==
  ASSUME WritersKnown, IdsSuffice
  PROVE  Spec => KeepsPromise
<1>1. Init => PromiseInv
  <2>1. Init => DraftInv /\ QueuedInv
    BY DEF Init, DraftInv, QueuedInv, Engaged
  <2>q. QED
    BY <2>1, InitType, InitOnce, InitWrites DEF PromiseInv, WriteInv
<1>2. PromiseInv /\ [Next]_vars => PromiseInv'
  <2>1. PromiseInv /\ [Next]_vars => WriteInv' /\ DraftInv'
    BY WriteStep, DraftStep DEF PromiseInv
  <2>2. PromiseInv /\ [Next]_vars => QueuedInv'
    BY QueuedStep DEF PromiseInv, WriteInv
  <2>q. QED
    BY <2>1, <2>2 DEF PromiseInv
<1>3. PromiseInv /\ [Next]_vars => [Promise!Next]_(Promise!vars)
  BY PromiseStep
<1>q. QED
  BY <1>1, <1>2, <1>3, PromiseStart, PTL DEF Spec, KeepsPromise, Promise!Spec

===============================================================================
