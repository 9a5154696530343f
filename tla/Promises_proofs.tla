---------------------------- MODULE Promises_proofs ----------------------------
(***************************************************************************)
(* What the abstract specifications amount to: the guarantees that a       *)
(* component has because it implements one of them.                        *)
(***************************************************************************)
EXTENDS Naturals, TLAPS

CONSTANTS Approvals, Operations, Effects, RuleOf, Malformed, Settings
VARIABLES phase, permits, runs, told, applied, rules, settings

OneShot == INSTANCE OneShotApproval
Serial  == INSTANCE SerialEffects
Outbox  == INSTANCE ExactlyOnceOutbox

-----------------------------------------------------------------------------
\* A call that ran, or whose permit is given out, is not granted any more, and
\* the turn is told of no call that did not run.
NeverAgain(a) ==
  /\ runs[a] \in {0, 1}
  /\ told[a] \in {0, 1}
  /\ told[a] <= runs[a]
  /\ runs[a] = 1 \/ a \in permits => phase[a] \in {"spent", "closed"}
  /\ a \in permits => runs[a] = 0

OneShotInv ==
  /\ phase \in [Approvals -> {"open", "granted", "spent", "closed"}]
  /\ permits \subseteq Approvals
  /\ runs \in [Approvals -> {0, 1}]
  /\ told \in [Approvals -> {0, 1}]
  /\ \A a \in Approvals : NeverAgain(a)

\* Under OneShotApproval a call runs at most once, and is open or granted no more
\* once it ran or its permit is given out; its turn is told of it once at most,
\* and only if it ran (exec approvals).
THEOREM CallsRunOnce == OneShot!Spec => [](\A a \in Approvals : NeverAgain(a))
<1>1. OneShot!Init => OneShotInv
  <2> SUFFICES ASSUME OneShot!Init PROVE OneShotInv
    OBVIOUS
  <2>1. runs \in [Approvals -> {0, 1}] /\ told = [a \in Approvals |-> 0] /\ permits = {}
    BY DEF OneShot!Init
  <2>2. phase \in [Approvals -> {"open", "granted", "spent", "closed"}]
    BY DEF OneShot!Init
  <2>3. ASSUME NEW a \in Approvals PROVE NeverAgain(a)
    <3>1. phase[a] \in {"open", "spent", "closed"} /\ (phase[a] = "open" => runs[a] = 0)
      BY DEF OneShot!Init
    <3>q. QED
      BY <2>1, <3>1 DEF NeverAgain
  <2>q. QED
    BY <2>1, <2>2, <2>3 DEF OneShotInv
<1>2. OneShotInv /\ [OneShot!Next]_(OneShot!vars) => OneShotInv'
  <2> SUFFICES ASSUME OneShotInv, [OneShot!Next]_(OneShot!vars) PROVE OneShotInv'
    OBVIOUS
  <2>1. ASSUME NEW a \in Approvals,
               OneShot!Grant(a) \/ OneShot!Refuse(a) \/ OneShot!Return(a) \/ OneShot!Close(a)
        PROVE  OneShotInv'
    BY <2>1 DEF OneShotInv, NeverAgain, OneShot!Grant, OneShot!Refuse, OneShot!Return,
                OneShot!Close
  <2>2. ASSUME NEW a \in Approvals, OneShot!Claim(a) PROVE OneShotInv'
    BY <2>2 DEF OneShotInv, NeverAgain, OneShot!Claim
  <2>3. ASSUME NEW a \in Approvals, OneShot!Run(a) PROVE OneShotInv'
    <3>1. a \in permits /\ runs' = [runs EXCEPT ![a] = runs[a] + 1]
          /\ permits' = permits \ {a} /\ UNCHANGED <<phase, told>>
      BY <2>3 DEF OneShot!Run
    <3>2. runs[a] = 0 /\ phase[a] \in {"spent", "closed"} /\ told[a] \in {0, 1}
      BY <3>1 DEF OneShotInv, NeverAgain
    <3>3. 0 + 1 = 1
      OBVIOUS
    <3>4. runs' = [runs EXCEPT ![a] = 1]
      BY <3>1, <3>2, <3>3
    <3>5. runs' \in [Approvals -> {0, 1}] /\ runs'[a] = 1
      BY <3>4 DEF OneShotInv
    <3>6. ASSUME NEW b \in Approvals PROVE NeverAgain(b)'
      <4>1. CASE b = a
        BY <4>1, <3>1, <3>2, <3>5 DEF NeverAgain, OneShotInv
      <4>2. CASE b # a
        <5>1. runs'[b] = runs[b]
          BY <3>4, <4>2 DEF OneShotInv
        <5>q. QED
          BY <4>2, <5>1, <3>1 DEF NeverAgain, OneShotInv
      <4>q. QED
        BY <4>1, <4>2
    <3>q. QED
      BY <3>1, <3>5, <3>6 DEF OneShotInv
  <2>4. ASSUME NEW a \in Approvals, OneShot!Lose(a) \/ OneShot!Tell(a) PROVE OneShotInv'
    BY <2>4 DEF OneShotInv, NeverAgain, OneShot!Lose, OneShot!Tell
  <2>5. CASE UNCHANGED OneShot!vars
    BY <2>5 DEF OneShot!vars, OneShotInv, NeverAgain
  <2>q. QED
    BY <2>1, <2>2, <2>3, <2>4, <2>5 DEF OneShot!Next
<1>3. OneShotInv => \A a \in Approvals : NeverAgain(a)
  BY DEF OneShotInv
<1>q. QED
  BY <1>1, <1>2, <1>3, PTL DEF OneShot!Spec

-----------------------------------------------------------------------------
\* While an operation is open no other one is, and none was lost.
Exclusive ==
  \A x, y \in Operations : phase[x] = "open" /\ phase[y] \in {"open", "lost"} => x = y

\* Under SerialEffects the recorded operations of a session exclude each other, and
\* one whose result is lost excludes all that are not open, for ever (the turn
\* timeline's durable descriptors).
THEOREM EffectsSerial == Serial!Spec => []Exclusive
<1>1. Serial!Init => Serial!TypeOK /\ Exclusive
  BY DEF Serial!Init, Serial!TypeOK, Serial!Phases, Exclusive
<1>2. Serial!TypeOK /\ Exclusive /\ [Serial!Next]_phase => (Serial!TypeOK /\ Exclusive)'
  <2> SUFFICES ASSUME Serial!TypeOK, Exclusive, [Serial!Next]_phase
               PROVE  (Serial!TypeOK /\ Exclusive)'
    OBVIOUS
  <2> USE DEF Serial!TypeOK, Serial!Phases, Exclusive, Serial!Move
  <2>1. ASSUME NEW x \in Operations, Serial!Open(x) PROVE (Serial!TypeOK /\ Exclusive)'
    BY <2>1 DEF Serial!Open
  <2>2. ASSUME NEW x \in Operations, Serial!Close(x) \/ Serial!Drop(x) \/ Serial!Lose(x)
        PROVE  (Serial!TypeOK /\ Exclusive)'
    BY <2>2 DEF Serial!Close, Serial!Drop, Serial!Lose
  <2>3. CASE UNCHANGED phase
    BY <2>3
  <2>q. QED
    BY <2>1, <2>2, <2>3 DEF Serial!Next
<1>q. QED
  BY <1>1, <1>2, PTL DEF Serial!Spec

-----------------------------------------------------------------------------
\* An effect is applied once, never if it is malformed, and is reported as
\* delivered only if it was applied; every rule comes with such an effect.
TrueReports ==
  /\ \A e \in Effects :
       /\ applied[e] \in {0, 1}
       /\ applied[e] = 1 => e \notin Malformed /\ phase[e] # "absent"
       /\ phase[e] = "delivered" => applied[e] = 1
  /\ \A r \in rules : \E e \in Effects : applied[e] = 1 /\ RuleOf[e] = r

OutboxInv ==
  /\ phase \in [Effects -> {"absent", "queued", "delivered", "failed"}]
  /\ applied \in [Effects -> {0, 1}]
  /\ TrueReports

\* Under ExactlyOnceOutbox reports are true, a malformed payload never gets into the
\* config, and no rule does that no operator saved (the side effects of approvals).
THEOREM ReportsAreTrue == Outbox!Spec => []TrueReports
<1>1. Outbox!Init => OutboxInv
  BY DEF Outbox!Init, OutboxInv, TrueReports
<1>2. OutboxInv /\ [Outbox!Next]_(Outbox!vars) => OutboxInv'
  <2> SUFFICES ASSUME OutboxInv, [Outbox!Next]_(Outbox!vars) PROVE OutboxInv'
    OBVIOUS
  <2>1. ASSUME NEW e \in Effects,
               Outbox!Ask(e) \/ Outbox!Deliver(e) \/ Outbox!GiveUp(e)
        PROVE  OutboxInv'
    BY <2>1 DEF OutboxInv, TrueReports, Outbox!Ask, Outbox!Deliver, Outbox!GiveUp, Outbox!Move
  <2>2. ASSUME NEW e \in Effects, Outbox!Apply(e) PROVE OutboxInv'
    <3>1. applied' \in [Effects -> {0, 1}] /\ applied'[e] = 1
      BY <2>2 DEF OutboxInv, Outbox!Apply
    <3>2. \A f \in Effects \ {e} : applied'[f] = applied[f]
      BY <2>2 DEF OutboxInv, Outbox!Apply
    <3>3. ASSUME NEW r \in rules' PROVE \E f \in Effects : applied'[f] = 1 /\ RuleOf[f] = r
      <4>1. CASE r = RuleOf[e]
        BY <3>1, <4>1
      <4>2. CASE r \in rules
        BY <3>1, <3>2, <4>2 DEF OutboxInv, TrueReports
      <4>q. QED
        BY <2>2, <4>1, <4>2 DEF Outbox!Apply
    <3>4. phase' = phase /\ e \notin Malformed /\ phase[e] # "absent"
      BY <2>2 DEF Outbox!Apply
    <3>q. QED
      BY <3>1, <3>2, <3>3, <3>4 DEF OutboxInv, TrueReports
  <2>3. ASSUME NEW r \in rules, Outbox!Remove(r) PROVE OutboxInv'
    BY <2>3 DEF OutboxInv, TrueReports, Outbox!Remove
  <2>4. ASSUME NEW s \in Settings, Outbox!SwitchOn(s) PROVE OutboxInv'
    BY <2>4 DEF OutboxInv, TrueReports, Outbox!SwitchOn
  <2>5. CASE UNCHANGED Outbox!vars
    BY <2>5 DEF Outbox!vars, OutboxInv, TrueReports
  <2>q. QED
    BY <2>1, <2>2, <2>3, <2>4, <2>5 DEF Outbox!Next
<1>3. OutboxInv => TrueReports
  BY DEF OutboxInv
<1>q. QED
  BY <1>1, <1>2, <1>3, PTL DEF Outbox!Spec

===============================================================================
