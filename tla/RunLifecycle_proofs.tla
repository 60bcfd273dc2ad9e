------------------------ MODULE RunLifecycle_proofs ------------------------
(***************************************************************************)
(* Proofs about RunLifecycle.                                               *)
(***************************************************************************)
EXTENDS RunLifecycle, TLAPS

-----------------------------------------------------------------------------
(* The proofs.                                                                *)

\* What a plan is made of.
LEMMA PlanFacts ==
    ASSUME TypeOK
    PROVE  /\ plan \in PlanType
           /\ Len(plan.steps) \in Nat /\ Len(plan.steps) >= 1
           /\ Len(plan.restore) \in Nat
           /\ \A k \in 1..Len(plan.restore) : plan.restore[k] \in SourceOutputs
           /\ plan.uses \in SUBSET Sessions
           /\ Step \in StepType
           /\ Gate \in SUBSET Outputs
           /\ \A k, l \in DOMAIN plan.restore : plan.restore[k] = plan.restore[l] => k = l
<1>1. plan \in PlanType /\ plan.steps # <<>>
  BY RunAssumption DEF TypeOK
<1>2. plan.steps \in Seq(StepType) /\ plan.restore \in Seq(SourceOutputs)
  BY <1>1 DEF PlanType
<1>3. Step \in StepType
  BY <1>2 DEF Step, TypeOK
<1>4. Inferred(plan) \in SUBSET Outputs
  <2>1. ASSUME NEW i \in DOMAIN plan.steps, plan.steps[i].call # NoCall
        PROVE  plan.steps[i].call.out \in Outputs
    <3>1. plan.steps[i] \in StepType
      BY <1>2
    <3>2. plan.steps[i].call \in CallType
      BY <3>1, <2>1 DEF StepType
    <3> QED
      BY <3>2 DEF CallType
  <2>2. ASSUME NEW i \in DOMAIN plan.restore PROVE plan.restore[i] \in Outputs
    BY <1>2, RunAssumption
  <2> QED
    BY <2>1, <2>2 DEF Inferred
<1>5. Gate \in SUBSET Outputs
  <2>1. plan.off \in SUBSET Outputs /\ Step.off \in SUBSET Outputs
    BY <1>1, <1>3 DEF PlanType, StepType
  <2> QED
    BY <2>1, <1>4 DEF Gate, Targets
<1> QED
  BY <1>1, <1>2, <1>3, <1>5, RunAssumption DEF PlanType, TypeOK

LEMMA StatusFacts ==
    ASSUME NEW c \in CallType, NEW s \in Status
    PROVE  /\ After(c, s) \in Status
           /\ c.want = "on" => After(c, s).on
           /\ c.want = "off" => ~After(c, s).on
           /\ c.want = "level" => After(c, s).on = s.on /\ After(c, s).level = c.level
           /\ c.want # "level" => After(c, s).level = s.level
           /\ After(c, s).on /\ ~s.on => c.want = "on"
  BY DEF CallType, Status, After

LEMMA CallsTyped ==
    ASSUME TypeOK
    PROVE  Calls \subseteq CallType
<1>1. \A o \in Outputs : OffCall(o) \in CallType
  BY DEF TypeOK, Status, OffCall, CallType
<1>2. stage = "restore" /\ at <= Len(saved) => RestoreCall(Target(saved[at])) \in CallType
  <2> SUFFICES ASSUME at <= Len(saved) PROVE RestoreCall(Target(saved[at])) \in CallType
    OBVIOUS
  <2>1. saved[at] \in SavedType
    BY DEF TypeOK
  <2>2. Target(saved[at]) \in SavedType
    BY <2>1 DEF Target, SavedType
  <2> QED
    BY <2>2, RunAssumption DEF RestoreCall, SavedType, CallType
<1>3. Step.call \in CallType \union {NoCall}
  BY PlanFacts DEF StepType
<1> QED
  BY <1>1, <1>2, <1>3 DEF Calls, TypeOK

LEMMA WriteTyped ==
    ASSUME TypeOK, NEW c \in CallType
    PROVE  /\ [device EXCEPT ![c.out] = After(c, @)] \in [Outputs -> Status]
           /\ [left EXCEPT ![c.out] = device[c.out]] \in Expectations
           /\ [expected EXCEPT ![c.out] = device[c.out]] \in Expectations
<1>1. c.out \in Outputs /\ device[c.out] \in Status
  BY DEF TypeOK, CallType
<1>2. After(c, device[c.out]) \in Status
  BY <1>1, StatusFacts
<1> QED
  BY <1>1, <1>2 DEF TypeOK, Expectations

\* Where the end of a step, of a state or of a target leads.
EndTyped == /\ path' \in {"setup", "normal", "error", "interrupt"} /\ stage' \in Stages
            /\ gated' \in BOOLEAN /\ failed' \in BOOLEAN /\ stopped' \in BOOLEAN
            /\ pending' \in SUBSET Outputs /\ at' \in Nat \ {0} /\ leg' \in 1..3
            /\ unrestored' \in BOOLEAN

LEMMA EndsTyped ==
    ASSUME TypeOK, NEW o, Ends(o), UNCHANGED restoreVars PROVE EndTyped
<1> Gate \in SUBSET Outputs /\ Step.stop \in BOOLEAN /\ Step.gate \in BOOLEAN
    /\ plan.gate \in BOOLEAN
  BY PlanFacts DEF StepType, PlanType
<1> QED
  BY DEF Ends, TypeOK, EndTyped, Stages, GateEnabled, restoreVars

LEMMA NextStateTyped ==
    ASSUME TypeOK, NEW k \in Nat \ {0}, NextState(k), UNCHANGED <<path, gated, failed, stopped>>,
           unrestored' \in BOOLEAN
    PROVE EndTyped
<1> Gate \in SUBSET Outputs
  BY PlanFacts
<1> QED
  BY DEF NextState, TypeOK, EndTyped, Stages

LEMMA GateTyped ==
    ASSUME TypeOK, NEW o, GateGoesOn(o),
           UNCHANGED <<path, gated, failed, stopped, at, leg, unrestored>>
    PROVE EndTyped
  BY DEF GateGoesOn, TypeOK, EndTyped, Stages

LEMMA TypeStep == TypeOK /\ HeldInv /\ SnapshotInv /\ [Next]_vars => TypeOK'
<1> SUFFICES ASSUME TypeOK, HeldInv, SnapshotInv, [Next]_vars
             PROVE  TypeOK'
  OBVIOUS
<1> plan.uses \in SUBSET Sessions /\ MaxMoves \in Nat /\ MaxInterrupts \in Nat
    /\ Panel \subseteq Outputs
  BY PlanFacts, RunAssumption
<1>1. ASSUME NEW ok \in BOOLEAN, AcquireLeases(ok) PROVE TypeOK'
  <2>1. held' \in SUBSET Sessions /\ stage' \in Stages /\ raised' \in BOOLEAN
    BY <1>1 DEF AcquireLeases, TypeOK, Stages
  <2> QED
    BY <1>1, <2>1 DEF AcquireLeases, TypeOK, outputVars, stepVars, restoreVars, bounds
<1>2. ASSUME NEW ok \in BOOLEAN, Open(ok) PROVE TypeOK'
  <2>1. \A i \in DOMAIN Instruments : Instruments[i] \in Sessions
    BY DEF Instruments, Sessions
  <2> QED
    BY <1>2, <2>1 DEF Open, outputVars, stepVars, restoreVars, bounds, TypeOK, Stages
<1>3. ASSUME NEW ok \in BOOLEAN, Guards(ok) PROVE TypeOK'
  <2>1. /\ path' \in {"setup", "normal", "error", "interrupt"} /\ stage' \in Stages
        /\ raised' \in BOOLEAN
    BY <1>3 DEF Guards, TypeOK, Stages
  <2> QED
    BY <1>3, <2>1 DEF Guards, sessionVars, outputVars, stepVars, restoreVars, bounds, TypeOK
<1>4. ASSUME NEW ok \in BOOLEAN, Record(ok) PROVE TypeOK'
  <2>1. /\ path' \in {"setup", "normal", "error", "interrupt"} /\ stage' \in Stages
        /\ index' \in 1..Len(plan.steps)
    BY <1>4 DEF Record, TypeOK, Stages
  <2> QED
    BY <1>4, <2>1 DEF Record, sessionVars, outputVars, restoreVars, reportVars, bounds, TypeOK
<1>5. ASSUME NEW ok \in BOOLEAN, WriteFiles(ok) PROVE TypeOK'
  <2>1. /\ files' \in {"none", "torn", "ok", "failed"} /\ stage' \in Stages
        /\ raised' \in BOOLEAN
    BY <1>5 DEF WriteFiles, Written, RunStatus, TypeOK, Stages
  <2> QED
    BY <1>5, <2>1 DEF WriteFiles, sessionVars, outputVars, stepVars, restoreVars, bounds, TypeOK
<1>6. ASSUME NEW ok \in BOOLEAN, Release(ok) PROVE TypeOK'
  BY <1>6 DEF Release, outputVars, stepVars, restoreVars, bounds, TypeOK, Stages
<1>7. ASSUME NEW ok \in BOOLEAN, Report(ok) PROVE TypeOK'
  <2>1. /\ files' \in {"none", "torn", "ok", "failed"} /\ stage' \in Stages
        /\ raised' \in BOOLEAN
    BY <1>7 DEF Report, Written, TypeOK, Stages
  <2> QED
    BY <1>7, <2>1 DEF Report, sessionVars, outputVars, stepVars, restoreVars, bounds, TypeOK
<1>8. ASSUME NEW how \in {"ok", "error", "interrupt"}, Close(how) PROVE TypeOK'
  BY <1>8 DEF Close, outputVars, stepVars, restoreVars, TypeOK, Stages
<1>9. CASE Snapshot
  <2> DEFINE o == plan.restore[Len(saved) + 1]
  <2>1. o \in SourceOutputs /\ o \in Outputs /\ device[o] \in Status
    BY <1>9, PlanFacts, RunAssumption DEF Snapshot, SnapshotInv, TypeOK
  <2>2. /\ [out |-> o, on |-> device[o].on, level |-> device[o].level] \in SavedType
        /\ Observed(expected, o, device[o]) \in Expectations
        /\ [left EXCEPT ![o] = device[o]] \in Expectations
    BY <2>1 DEF SavedType, Status, Observed, Expectations, TypeOK
  <2>3. saved' \in Seq(SavedType) /\ expected' \in Expectations /\ left' \in Expectations
        /\ stage' \in Stages
    BY <1>9, <2>2 DEF Snapshot, TypeOK, Stages
  <2> QED
    BY <1>9, <2>3 DEF Snapshot, TypeOK, sessionVars, stepVars, reportVars, bounds
<1>10. ASSUME NEW kind \in {"transport", "error"}, SnapshotFails(kind) PROVE TypeOK'
  BY <1>10
   DEF SnapshotFails, outputVars, stepVars, reportVars, bounds, TypeOK, Stages, Sessions
<1>11. ASSUME NEW outcome \in {"ok", "warning", "failed", "transport", "error", "crash"},
       Capture(outcome)
       PROVE  TypeOK'
  <2>1. EndTyped
    BY <1>11, EndsTyped DEF Capture
  <2> QED
    BY <1>11, <2>1 DEF Capture, EndTyped, TypeOK, Sessions, outputVars, restoreVars,
       reportVars, bounds
<1>12. ASSUME NEW c \in Calls, Check(c) PROVE TypeOK'
  <2>1. c \in CallType
    BY <1>12, CallsTyped
  <2>2. expected' \in Expectations
    BY <1>12, <2>1, WriteTyped DEF Check, BeforeWrite, TypeOK
  <2>3. left' \in Expectations
    BY <1>12, <2>1, WriteTyped DEF Check, TypeOK
  <2> QED
    BY <1>12, <2>1, <2>2, <2>3 DEF Check, TypeOK, sessionVars, stepVars, restoreVars,
       reportVars, bounds
<1>13. CASE Send
  <2>1. call \in CallType /\ device' \in [Outputs -> Status]
    BY <1>13, WriteTyped DEF Send, TypeOK
  <2>2. expected' \in Expectations /\ left' \in Expectations /\ offed' \in SUBSET Outputs
    BY <1>13, <2>1 DEF Send, AfterWrite, TypeOK, Expectations, CallType
  <2>3. EndTyped
    <3>1. CASE stage = "step" /\ Ends("ok") /\ UNCHANGED <<at, leg>>
      BY <1>13, <3>1, EndsTyped DEF Send, restoreVars
    <3>2. CASE GateGoesOn(call.out) /\ UNCHANGED <<path, gated, failed, stopped, at, leg>>
      BY <1>13, <3>2, GateTyped DEF Send
    <3>3. CASE /\ leg < 3 /\ leg' = leg + 1
             /\ UNCHANGED <<stage, pending, at, path, gated, failed, stopped>>
      BY <1>13, <3>3 DEF Send, EndTyped, TypeOK
    <3>4. CASE NextState(at + 1) /\ UNCHANGED <<path, gated, failed, stopped>>
      <4>1. at + 1 \in Nat \ {0} /\ unrestored' \in BOOLEAN
        BY <1>13 DEF Send, TypeOK
      <4> QED
        BY <3>4, <4>1, NextStateTyped
    <3> QED
      BY <1>13, <3>1, <3>2, <3>3, <3>4 DEF Send
  <2> QED
    BY <1>13, <2>1, <2>2, <2>3 DEF Send, EndTyped, TypeOK, sessionVars, reportVars, bounds
<1>14. ASSUME NEW c \in Calls \union {call}, NEW kind \in {"transport", "error", "crash"},
       Fail(c, kind)
       PROVE  TypeOK'
  <2>1. c \in CallType
    BY <1>14, CallsTyped DEF Fail, TypeOK
  <2>2. device' \in [Outputs -> Status] /\ call' = NoCall
    BY <1>14, <2>1, WriteTyped DEF Fail, TypeOK
  <2>4. broken' \in SUBSET Sessions
    BY <1>14 DEF Fail, TypeOK, Sessions, Instrument
  <2>3. EndTyped
    <3>1. CASE stage = "step" /\ Ends(kind) /\ UNCHANGED <<at, leg, unrestored>>
      BY <1>14, <3>1, EndsTyped DEF Fail, restoreVars
    <3>2. CASE GateGoesOn(c.out) /\ UNCHANGED <<path, gated, failed, stopped, at, leg, unrestored>>
      BY <1>14, <3>2, GateTyped DEF Fail
    <3>3. CASE RestoreFails(kind) /\ UNCHANGED <<path, gated, failed, stopped>>
      <4> DEFINE k == IF kind = "transport" THEN Len(saved) + 1 ELSE at + 1
      <4>1. k \in Nat \ {0} /\ unrestored' \in BOOLEAN /\ NextState(k)
        BY <1>14, <3>3 DEF RestoreFails, TypeOK
      <4> HIDE DEF k
      <4> QED
        BY <3>3, <4>1, NextStateTyped
    <3> QED
      BY <1>14, <3>1, <3>2, <3>3 DEF Fail
  <2> QED
    BY <1>14, <2>2, <2>3, <2>4 DEF Fail, EndTyped, TypeOK, reportVars, bounds
<1>15. CASE RestoreNothing
  <2>1. EndTyped
    BY <1>15, NextStateTyped DEF RestoreNothing, TypeOK, stepVars
  <2> QED
    BY <1>15, <2>1 DEF RestoreNothing, EndTyped, TypeOK, sessionVars, outputVars,
       stepVars, reportVars, bounds
<1>16. ASSUME NEW how \in {"return", "interrupt", "crash"}, NEW found \in BOOLEAN,
       Analyse(how, found)
       PROVE  TypeOK'
  <2>1. files' \in {"none", "torn", "ok", "failed"}
    BY <1>16 DEF Analyse, Written, TypeOK
  <2> QED
    BY <1>16, <2>1 DEF Analyse, sessionVars, outputVars, restoreVars, TypeOK, Stages
<1>17. CASE Interrupt
  <2>1. device' \in [Outputs -> Status] /\ call' = NoCall
    BY <1>17, WriteTyped DEF Interrupt, TypeOK
  <2>2. saved' \in Seq(SavedType)
    BY <1>17 DEF Interrupt, TypeOK
  <2>3. /\ path' \in {"setup", "normal", "error", "interrupt"} /\ stage' \in Stages
        /\ raised' \in BOOLEAN
    BY <1>17 DEF Interrupt, TypeOK, Stages
  <2>4. interrupts' \in 0..MaxInterrupts /\ files' \in {"none", "torn", "ok", "failed"}
    BY <1>17 DEF Interrupt, Written, RunStatus, TypeOK
  <2> QED
    BY <1>17, <2>1, <2>2, <2>3, <2>4 DEF Interrupt, TypeOK, sessionVars, stepVars
<1>18. CASE UsePanel
  BY <1>18 DEF UsePanel, sessionVars, stepVars, restoreVars, reportVars, TypeOK, Stages
<1>19. CASE UNCHANGED vars
  BY <1>19
   DEF vars, sessionVars, outputVars, stepVars, restoreVars, reportVars, bounds, TypeOK, Stages
<1> QED
  BY <1>1, <1>2, <1>3, <1>4, <1>5, <1>6, <1>7, <1>8, <1>9, <1>10, <1>11, <1>12, <1>13, <1>14,
     <1>15, <1>16, <1>17, <1>18, <1>19 DEF Next, RunStep

\* The inductive invariant.
LEMMA HeldStep == TypeOK /\ HeldInv /\ [Next]_vars => HeldInv'
<1> SUFFICES ASSUME TypeOK, HeldInv, [Next]_vars
             PROVE  HeldInv'
  OBVIOUS
<1> stage \in Stages /\ opened \in SUBSET Sessions
  BY DEF TypeOK
<1>1. ASSUME NEW ok \in BOOLEAN, AcquireLeases(ok) PROVE HeldInv'
  BY <1>1 DEF AcquireLeases, outputVars, stepVars, restoreVars, bounds, HeldInv, Stages
<1>2. ASSUME NEW ok \in BOOLEAN, Open(ok) PROVE HeldInv'
  BY <1>2 DEF Open, outputVars, stepVars, restoreVars, bounds, HeldInv, Stages
<1>3. ASSUME NEW ok \in BOOLEAN, Guards(ok) PROVE HeldInv'
  BY <1>3 DEF Guards, sessionVars, outputVars, stepVars, restoreVars, bounds, HeldInv, Stages
<1>4. ASSUME NEW ok \in BOOLEAN, Record(ok) PROVE HeldInv'
  BY <1>4 DEF Record, sessionVars, outputVars, restoreVars, reportVars, bounds, HeldInv, Stages
<1>5. ASSUME NEW ok \in BOOLEAN, WriteFiles(ok) PROVE HeldInv'
  BY <1>5
   DEF WriteFiles, sessionVars, outputVars, stepVars, restoreVars, bounds, HeldInv, Stages
<1>6. ASSUME NEW ok \in BOOLEAN, Release(ok) PROVE HeldInv'
  BY <1>6 DEF Release, outputVars, stepVars, restoreVars, bounds, HeldInv, Stages
<1>7. ASSUME NEW ok \in BOOLEAN, Report(ok) PROVE HeldInv'
  BY <1>7 DEF Report, sessionVars, outputVars, stepVars, restoreVars, bounds, HeldInv, Stages
<1>8. ASSUME NEW how \in {"ok", "error", "interrupt"}, Close(how) PROVE HeldInv'
  <2>1. opened' \subseteq opened /\ UNCHANGED <<plan, stage, held>>
    BY <1>8 DEF Close
  <2> QED
    BY <1>8, <2>1 DEF Close, HeldInv
<1>9. CASE Snapshot
  BY <1>9 DEF Snapshot, sessionVars, stepVars, reportVars, bounds, HeldInv, Stages
<1>10. ASSUME NEW kind \in {"transport", "error"}, SnapshotFails(kind) PROVE HeldInv'
  BY <1>10 DEF SnapshotFails, outputVars, stepVars, reportVars, bounds, HeldInv, Stages
<1>11. ASSUME NEW outcome \in {"ok", "warning", "failed", "transport", "error", "crash"},
       Capture(outcome)
       PROVE  HeldInv'
  BY <1>11 DEF Capture, Ends, outputVars, restoreVars, reportVars, bounds, HeldInv, Stages
<1>12. ASSUME NEW c \in Calls, Check(c) PROVE HeldInv'
  BY <1>12 DEF Check, sessionVars, stepVars, restoreVars, reportVars, bounds, HeldInv, Stages
<1>13. CASE Send
  BY <1>13
   DEF Send, Ends, GateGoesOn, NextState, sessionVars, reportVars, bounds, HeldInv, Stages
<1>14. ASSUME NEW c \in Calls \union {call}, NEW kind \in {"transport", "error", "crash"},
       Fail(c, kind)
       PROVE  HeldInv'
  BY <1>14
   DEF Fail, Ends, GateGoesOn, RestoreFails, NextState, reportVars, bounds, HeldInv, Stages
<1>15. CASE RestoreNothing
  BY <1>15
   DEF RestoreNothing, NextState, sessionVars, outputVars, stepVars, reportVars, bounds,
       HeldInv, Stages
<1>16. ASSUME NEW how \in {"return", "interrupt", "crash"}, NEW found \in BOOLEAN,
       Analyse(how, found)
       PROVE  HeldInv'
  BY <1>16 DEF Analyse, sessionVars, outputVars, restoreVars, HeldInv, Stages
<1>17. CASE Interrupt
  BY <1>17 DEF Interrupt, sessionVars, stepVars, HeldInv, Stages
<1>18. CASE UsePanel
  BY <1>18 DEF UsePanel, sessionVars, stepVars, restoreVars, reportVars, HeldInv, Stages
<1>19. CASE UNCHANGED vars
  BY <1>19
   DEF vars, sessionVars, outputVars, stepVars, restoreVars, reportVars, bounds, HeldInv, Stages
<1> QED
  BY <1>1, <1>2, <1>3, <1>4, <1>5, <1>6, <1>7, <1>8, <1>9, <1>10, <1>11, <1>12, <1>13, <1>14,
     <1>15, <1>16, <1>17, <1>18, <1>19 DEF Next, RunStep

LEMMA SnapshotStep == TypeOK /\ HeldInv /\ SnapshotInv /\ [Next]_vars => SnapshotInv'
<1> SUFFICES ASSUME TypeOK, HeldInv, SnapshotInv, [Next]_vars
             PROVE  SnapshotInv'
  OBVIOUS
<1> /\ stage \in Stages /\ saved \in Seq(SavedType) /\ expected \in Expectations
    /\ Len(plan.restore) \in Nat /\ plan.restore \in Seq(SourceOutputs)
  BY PlanFacts DEF TypeOK, PlanType
<1>1. ASSUME NEW ok \in BOOLEAN, AcquireLeases(ok) PROVE SnapshotInv'
  BY <1>1
   DEF AcquireLeases, outputVars, stepVars, restoreVars, bounds, SnapshotInv, Stages, Early
<1>2. ASSUME NEW ok \in BOOLEAN, Open(ok) PROVE SnapshotInv'
  BY <1>2 DEF Open, outputVars, stepVars, restoreVars, bounds, SnapshotInv, Stages, Early
<1>3. ASSUME NEW ok \in BOOLEAN, Guards(ok) PROVE SnapshotInv'
  <2>1. stage' = "snapshot" => Len(plan.restore) > 0
    BY <1>3 DEF Guards
  <2>2. \A k \in DOMAIN plan.restore : expected[plan.restore[k]] = Unseen
    BY <1>3, RunAssumption DEF Guards, SnapshotInv, Early
  <2> QED
    BY <1>3, <2>1, <2>2 DEF Guards, SnapshotInv, Early, sessionVars, outputVars, stepVars,
       restoreVars, bounds
<1>4. ASSUME NEW ok \in BOOLEAN, Record(ok) PROVE SnapshotInv'
  BY <1>4
   DEF Record, sessionVars, outputVars, restoreVars, reportVars, bounds, SnapshotInv, Stages,
       Early
<1>5. ASSUME NEW ok \in BOOLEAN, WriteFiles(ok) PROVE SnapshotInv'
  BY <1>5
   DEF WriteFiles, sessionVars, outputVars, stepVars, restoreVars, bounds, SnapshotInv, Stages,
       Early
<1>6. ASSUME NEW ok \in BOOLEAN, Release(ok) PROVE SnapshotInv'
  BY <1>6 DEF Release, outputVars, stepVars, restoreVars, bounds, SnapshotInv, Stages, Early
<1>7. ASSUME NEW ok \in BOOLEAN, Report(ok) PROVE SnapshotInv'
  BY <1>7
   DEF Report, sessionVars, outputVars, stepVars, restoreVars, bounds, SnapshotInv, Stages,
       Early
<1>8. ASSUME NEW how \in {"ok", "error", "interrupt"}, Close(how) PROVE SnapshotInv'
  BY <1>8 DEF Close, outputVars, stepVars, restoreVars, SnapshotInv, Stages, Early
<1>9. CASE Snapshot
  <2> DEFINE o == plan.restore[Len(saved) + 1]
             s == [out |-> o, on |-> device[o].on, level |-> device[o].level]
  <2>1. /\ Len(saved) < Len(plan.restore) /\ path = "normal" /\ at = 1 /\ leg = 1 /\ call = NoCall
        /\ o \in SourceOutputs
        /\ \A k \in DOMAIN plan.restore : k > Len(saved) => expected[plan.restore[k]] = Unseen
    BY <1>9 DEF Snapshot, SnapshotInv
  <2>2. saved' = Append(saved, s) /\ expected' = Observed(expected, o, device[o])
    BY <1>9 DEF Snapshot
  <2>3. /\ Len(saved') = Len(saved) + 1
        /\ \A k \in DOMAIN saved' : saved'[k].out = plan.restore[k]
    BY <2>1, <2>2 DEF SnapshotInv
  <2>4. \A k \in DOMAIN plan.restore : k > Len(saved) + 1 => expected'[plan.restore[k]] = Unseen
    BY <2>1, <2>2, PlanFacts DEF Observed, Expectations
  <2>5. /\ stage' = (IF Len(saved') = Len(plan.restore) THEN "step" ELSE "snapshot")
        /\ UNCHANGED <<plan, path, at, leg, call>>
    BY <1>9 DEF Snapshot
  <2> HIDE DEF o, s
  <2> QED
    BY <2>1, <2>3, <2>4, <2>5 DEF SnapshotInv, Early
<1>10. ASSUME NEW kind \in {"transport", "error"}, SnapshotFails(kind) PROVE SnapshotInv'
  BY <1>10
   DEF SnapshotFails, outputVars, stepVars, reportVars, bounds, SnapshotInv, Stages, Early
<1>11. ASSUME NEW outcome \in {"ok", "warning", "failed", "transport", "error", "crash"},
       Capture(outcome)
       PROVE  SnapshotInv'
  BY <1>11
   DEF Capture, Ends, outputVars, restoreVars, reportVars, bounds, SnapshotInv, Stages, Early
<1>12. ASSUME NEW c \in Calls, Check(c) PROVE SnapshotInv'
  <2>1. stage \notin Early \union {"snapshot"}
    BY <1>12 DEF Calls, Check, Early
  <2> QED
    BY <1>12, <2>1 DEF Check, SnapshotInv, Early, sessionVars, stepVars, restoreVars, reportVars,
       bounds
<1>13. CASE Send
  BY <1>13
   DEF Send, Ends, GateGoesOn, NextState, sessionVars, reportVars, bounds, SnapshotInv, Stages,
       Early
<1>14. ASSUME NEW c \in Calls \union {call}, NEW kind \in {"transport", "error", "crash"},
       Fail(c, kind)
       PROVE  SnapshotInv'
  BY <1>14
   DEF Fail, Ends, GateGoesOn, RestoreFails, NextState, reportVars, bounds, SnapshotInv, Stages,
       Early
<1>15. CASE RestoreNothing
  BY <1>15
   DEF RestoreNothing, NextState, sessionVars, outputVars, stepVars, reportVars, bounds,
       SnapshotInv, Stages, Early
<1>16. ASSUME NEW how \in {"return", "interrupt", "crash"}, NEW found \in BOOLEAN,
       Analyse(how, found)
       PROVE  SnapshotInv'
  BY <1>16 DEF Analyse, sessionVars, outputVars, restoreVars, SnapshotInv, Stages, Early
<1>17. CASE Interrupt
  BY <1>17 DEF Interrupt, sessionVars, stepVars, SnapshotInv, Stages, Early
<1>18. CASE UsePanel
  BY <1>18
   DEF UsePanel, sessionVars, stepVars, restoreVars, reportVars, SnapshotInv, Stages, Early
<1>19. CASE UNCHANGED vars
  BY <1>19
   DEF vars, sessionVars, outputVars, stepVars, restoreVars, reportVars, bounds, SnapshotInv,
       Stages, Early
<1> QED
  BY <1>1, <1>2, <1>3, <1>4, <1>5, <1>6, <1>7, <1>8, <1>9, <1>10, <1>11, <1>12, <1>13, <1>14,
     <1>15, <1>16, <1>17, <1>18, <1>19 DEF Next, RunStep

LEMMA GuardStep == TypeOK /\ HeldInv /\ SnapshotInv /\ GuardInv /\ [Next]_vars => GuardInv'
<1> SUFFICES ASSUME TypeOK, HeldInv, SnapshotInv, GuardInv, [Next]_vars
             PROVE  GuardInv'
  OBVIOUS
<1> left \in Expectations /\ expected \in Expectations
  BY DEF TypeOK
<1>1. ASSUME NEW ok \in BOOLEAN, AcquireLeases(ok) PROVE GuardInv'
  BY <1>1 DEF AcquireLeases, outputVars, stepVars, restoreVars, bounds, GuardInv
<1>2. ASSUME NEW ok \in BOOLEAN, Open(ok) PROVE GuardInv'
  BY <1>2 DEF Open, outputVars, stepVars, restoreVars, bounds, GuardInv
<1>3. ASSUME NEW ok \in BOOLEAN, Guards(ok) PROVE GuardInv'
  BY <1>3 DEF Guards, sessionVars, outputVars, stepVars, restoreVars, bounds, GuardInv
<1>4. ASSUME NEW ok \in BOOLEAN, Record(ok) PROVE GuardInv'
  BY <1>4 DEF Record, sessionVars, outputVars, restoreVars, reportVars, bounds, GuardInv
<1>5. ASSUME NEW ok \in BOOLEAN, WriteFiles(ok) PROVE GuardInv'
  BY <1>5 DEF WriteFiles, sessionVars, outputVars, stepVars, restoreVars, bounds, GuardInv
<1>6. ASSUME NEW ok \in BOOLEAN, Release(ok) PROVE GuardInv'
  BY <1>6 DEF Release, outputVars, stepVars, restoreVars, bounds, GuardInv
<1>7. ASSUME NEW ok \in BOOLEAN, Report(ok) PROVE GuardInv'
  BY <1>7 DEF Report, sessionVars, outputVars, stepVars, restoreVars, bounds, GuardInv
<1>8. ASSUME NEW how \in {"ok", "error", "interrupt"}, Close(how) PROVE GuardInv'
  BY <1>8 DEF Close, outputVars, stepVars, restoreVars, GuardInv
<1>9. CASE Snapshot
  <2> DEFINE o == plan.restore[Len(saved) + 1]
  <2>1. expected[o] = Unseen
    BY <1>9 DEF Snapshot, SnapshotInv
  <2> QED
    BY <1>9, <2>1 DEF Snapshot, Observed, GuardInv
<1>10. ASSUME NEW kind \in {"transport", "error"}, SnapshotFails(kind) PROVE GuardInv'
  BY <1>10 DEF SnapshotFails, outputVars, stepVars, reportVars, bounds, GuardInv
<1>11. ASSUME NEW outcome \in {"ok", "warning", "failed", "transport", "error", "crash"},
       Capture(outcome)
       PROVE  GuardInv'
  BY <1>11 DEF Capture, Ends, outputVars, restoreVars, reportVars, bounds, GuardInv
<1>12. ASSUME NEW c \in Calls, Check(c) PROVE GuardInv'
  BY <1>12
   DEF Check, sessionVars, stepVars, restoreVars, reportVars, bounds, GuardInv, BeforeWrite
<1>13. CASE Send
  BY <1>13
   DEF Send, Ends, GateGoesOn, NextState, sessionVars, reportVars, bounds, GuardInv, AfterWrite
<1>14. ASSUME NEW c \in Calls \union {call}, NEW kind \in {"transport", "error", "crash"},
       Fail(c, kind)
       PROVE  GuardInv'
  BY <1>14 DEF Fail, Ends, GateGoesOn, RestoreFails, NextState, reportVars, bounds, GuardInv
<1>15. CASE RestoreNothing
  BY <1>15
   DEF RestoreNothing, NextState, sessionVars, outputVars, stepVars, reportVars, bounds,
       GuardInv
<1>16. ASSUME NEW how \in {"return", "interrupt", "crash"}, NEW found \in BOOLEAN,
       Analyse(how, found)
       PROVE  GuardInv'
  BY <1>16 DEF Analyse, sessionVars, outputVars, restoreVars, GuardInv
<1>17. CASE Interrupt
  BY <1>17 DEF Interrupt, sessionVars, stepVars, GuardInv
<1>18. CASE UsePanel
  BY <1>18 DEF UsePanel, sessionVars, stepVars, restoreVars, reportVars, GuardInv
<1>19. CASE UNCHANGED vars
  BY <1>19
   DEF vars, sessionVars, outputVars, stepVars, restoreVars, reportVars, bounds, GuardInv
<1> QED
  BY <1>1, <1>2, <1>3, <1>4, <1>5, <1>6, <1>7, <1>8, <1>9, <1>10, <1>11, <1>12, <1>13, <1>14,
     <1>15, <1>16, <1>17, <1>18, <1>19 DEF Next, RunStep

LEMMA CallStep == TypeOK /\ SnapshotInv /\ OffInv /\ CallInv /\ [Next]_vars => CallInv'
<1> SUFFICES ASSUME TypeOK, SnapshotInv, OffInv, CallInv, [Next]_vars
             PROVE  CallInv'
  OBVIOUS
<1> stage \in Stages /\ at \in Nat \ {0} /\ saved \in Seq(SavedType)
  BY DEF TypeOK
<1>1. ASSUME NEW ok \in BOOLEAN, AcquireLeases(ok) PROVE CallInv'
  BY <1>1
   DEF AcquireLeases, outputVars, stepVars, restoreVars, bounds, CallInv, Step, Gate,
       RestoreCall, Target
<1>2. ASSUME NEW ok \in BOOLEAN, Open(ok) PROVE CallInv'
  BY <1>2
   DEF Open, outputVars, stepVars, restoreVars, bounds, CallInv, Step, Gate, RestoreCall, Target
<1>3. ASSUME NEW ok \in BOOLEAN, Guards(ok) PROVE CallInv'
  BY <1>3
   DEF Guards, sessionVars, outputVars, stepVars, restoreVars, bounds, CallInv, Step, Gate,
       RestoreCall, Target, SnapshotInv, Early
<1>4. ASSUME NEW ok \in BOOLEAN, Record(ok) PROVE CallInv'
  BY <1>4
   DEF Record, sessionVars, outputVars, restoreVars, reportVars, bounds, CallInv, Step, Gate,
       RestoreCall, Target
<1>5. ASSUME NEW ok \in BOOLEAN, WriteFiles(ok) PROVE CallInv'
  BY <1>5
   DEF WriteFiles, sessionVars, outputVars, stepVars, restoreVars, bounds, CallInv, Step, Gate,
       RestoreCall, Target
<1>6. ASSUME NEW ok \in BOOLEAN, Release(ok) PROVE CallInv'
  BY <1>6
   DEF Release, outputVars, stepVars, restoreVars, bounds, CallInv, Step, Gate, RestoreCall,
       Target
<1>7. ASSUME NEW ok \in BOOLEAN, Report(ok) PROVE CallInv'
  BY <1>7
   DEF Report, sessionVars, outputVars, stepVars, restoreVars, bounds, CallInv, Step, Gate,
       RestoreCall, Target
<1>8. ASSUME NEW how \in {"ok", "error", "interrupt"}, Close(how) PROVE CallInv'
  BY <1>8
   DEF Close, outputVars, stepVars, restoreVars, CallInv, Step, Gate, RestoreCall, Target
<1>9. CASE Snapshot
  BY <1>9
   DEF Snapshot, sessionVars, stepVars, reportVars, bounds, CallInv, Step, Gate, RestoreCall,
       Target, SnapshotInv, Early
<1>10. ASSUME NEW kind \in {"transport", "error"}, SnapshotFails(kind) PROVE CallInv'
  BY <1>10
   DEF SnapshotFails, outputVars, stepVars, reportVars, bounds, CallInv, Step, Gate,
       RestoreCall, Target, SnapshotInv, Early
<1>11. ASSUME NEW outcome \in {"ok", "warning", "failed", "transport", "error", "crash"},
       Capture(outcome)
       PROVE  CallInv'
  BY <1>11
   DEF Capture, Ends, outputVars, restoreVars, reportVars, bounds, CallInv, Step, Gate,
       RestoreCall, Target
<1>12. ASSUME NEW c \in Calls, Check(c) PROVE CallInv'
  BY <1>12
   DEF Check, sessionVars, stepVars, restoreVars, reportVars, bounds, CallInv, Step, Gate,
       RestoreCall, Target, Calls, OffInv, OffCall
<1>13. CASE Send
  BY <1>13
   DEF Send, Ends, GateGoesOn, NextState, sessionVars, reportVars, bounds, CallInv, Step, Gate,
       RestoreCall, Target
<1>14. ASSUME NEW c \in Calls \union {call}, NEW kind \in {"transport", "error", "crash"},
       Fail(c, kind)
       PROVE  CallInv'
  BY <1>14
   DEF Fail, Ends, GateGoesOn, RestoreFails, NextState, reportVars, bounds, CallInv, Step, Gate,
       RestoreCall, Target
<1>15. CASE RestoreNothing
  BY <1>15
   DEF RestoreNothing, NextState, sessionVars, outputVars, stepVars, reportVars, bounds,
       CallInv, Step, Gate, RestoreCall, Target
<1>16. ASSUME NEW how \in {"return", "interrupt", "crash"}, NEW found \in BOOLEAN,
       Analyse(how, found)
       PROVE  CallInv'
  BY <1>16
   DEF Analyse, sessionVars, outputVars, restoreVars, CallInv, Step, Gate, RestoreCall, Target
<1>17. CASE Interrupt
  BY <1>17 DEF Interrupt, sessionVars, stepVars, CallInv, Step, Gate, RestoreCall, Target
<1>18. CASE UsePanel
  BY <1>18
   DEF UsePanel, sessionVars, stepVars, restoreVars, reportVars, CallInv, Step, Gate,
       RestoreCall, Target
<1>19. CASE UNCHANGED vars
  BY <1>19
   DEF vars, sessionVars, outputVars, stepVars, restoreVars, reportVars, bounds, CallInv, Step,
       Gate, RestoreCall, Target
<1> QED
  BY <1>1, <1>2, <1>3, <1>4, <1>5, <1>6, <1>7, <1>8, <1>9, <1>10, <1>11, <1>12, <1>13, <1>14,
     <1>15, <1>16, <1>17, <1>18, <1>19 DEF Next, RunStep

LEMMA OffStep == TypeOK /\ SnapshotInv /\ OffInv /\ CallInv /\ [Next]_vars => OffInv'
<1> SUFFICES ASSUME TypeOK, SnapshotInv, OffInv, CallInv, [Next]_vars
             PROVE  OffInv'
  OBVIOUS
<1> stage \in Stages /\ at \in Nat \ {0} /\ saved \in Seq(SavedType)
  BY DEF TypeOK
<1>1. ASSUME NEW ok \in BOOLEAN, AcquireLeases(ok) PROVE OffInv'
  BY <1>1
   DEF AcquireLeases, outputVars, stepVars, restoreVars, bounds, OffInv, Early, Gate, Step
<1>2. ASSUME NEW ok \in BOOLEAN, Open(ok) PROVE OffInv'
  BY <1>2 DEF Open, outputVars, stepVars, restoreVars, bounds, OffInv, Early, Gate, Step
<1>3. ASSUME NEW ok \in BOOLEAN, Guards(ok) PROVE OffInv'
  BY <1>3
   DEF Guards, sessionVars, outputVars, stepVars, restoreVars, bounds, OffInv, Early, Gate, Step
<1>4. ASSUME NEW ok \in BOOLEAN, Record(ok) PROVE OffInv'
  BY <1>4
   DEF Record, sessionVars, outputVars, restoreVars, reportVars, bounds, OffInv, Early, Gate,
       Step
<1>5. ASSUME NEW ok \in BOOLEAN, WriteFiles(ok) PROVE OffInv'
  BY <1>5
   DEF WriteFiles, sessionVars, outputVars, stepVars, restoreVars, bounds, OffInv, Early, Gate,
       Step
<1>6. ASSUME NEW ok \in BOOLEAN, Release(ok) PROVE OffInv'
  BY <1>6 DEF Release, outputVars, stepVars, restoreVars, bounds, OffInv, Early, Gate, Step
<1>7. ASSUME NEW ok \in BOOLEAN, Report(ok) PROVE OffInv'
  BY <1>7
   DEF Report, sessionVars, outputVars, stepVars, restoreVars, bounds, OffInv, Early, Gate, Step
<1>8. ASSUME NEW how \in {"ok", "error", "interrupt"}, Close(how) PROVE OffInv'
  BY <1>8 DEF Close, outputVars, stepVars, restoreVars, OffInv, Early, Gate, Step
<1>9. CASE Snapshot
  BY <1>9 DEF Snapshot, sessionVars, stepVars, reportVars, bounds, OffInv, Early, Gate, Step
<1>10. ASSUME NEW kind \in {"transport", "error"}, SnapshotFails(kind) PROVE OffInv'
  BY <1>10
   DEF SnapshotFails, outputVars, stepVars, reportVars, bounds, OffInv, Early, Gate, Step
<1>11. ASSUME NEW outcome \in {"ok", "warning", "failed", "transport", "error", "crash"},
       Capture(outcome)
       PROVE  OffInv'
  BY <1>11
   DEF Capture, Ends, outputVars, restoreVars, reportVars, bounds, OffInv, Early, Gate, Step
<1>12. ASSUME NEW c \in Calls, Check(c) PROVE OffInv'
  BY <1>12
   DEF Check, sessionVars, stepVars, restoreVars, reportVars, bounds, OffInv, Early, Gate, Step
<1>13. CASE Send
  <2>1. UNCHANGED <<plan, index>> /\ call' = NoCall
    BY <1>13 DEF Send
  <2>2. Gate' = Gate
    BY <2>1 DEF Gate, Step
  <2>3. offed' \subseteq offed \union (IF stage = "gate" THEN Gate ELSE {})
    BY <1>13 DEF Send, CallInv, OffInv
  <2>4. CASE stage = "step" /\ Ends("ok")
    BY <1>13, <2>2, <2>3, <2>4 DEF Send, Ends, OffInv, Early
  <2>5. CASE /\ stage \in {"gate", "post_gate"} /\ GateGoesOn(call.out)
             /\ UNCHANGED <<path, gated, failed, stopped, at, leg>>
    BY <1>13, <2>2, <2>3, <2>5 DEF GateGoesOn, OffInv, Early
  <2>6. CASE /\ stage = "restore" /\ UNCHANGED <<path, gated, failed, stopped>>
             /\ (UNCHANGED <<stage, pending>> \/ NextState(at + 1))
    BY <1>13, <2>2, <2>3, <2>6 DEF NextState, OffInv, Early
  <2> QED
    BY <1>13, <2>4, <2>5, <2>6 DEF Send
<1>14. ASSUME NEW c \in Calls \union {call}, NEW kind \in {"transport", "error", "crash"},
       Fail(c, kind)
       PROVE  OffInv'
  <2>1. UNCHANGED <<plan, index, offed>>
    BY <1>14 DEF Fail
  <2>2. Gate' = Gate
    BY <2>1 DEF Gate, Step
  <2>4. CASE stage = "step" /\ Ends(kind)
    BY <2>1, <2>2, <2>4 DEF Ends, OffInv, Early
  <2>5. CASE /\ stage \in {"gate", "post_gate"} /\ GateGoesOn(c.out)
             /\ UNCHANGED <<path, gated, failed, stopped, at, leg, unrestored>>
    BY <2>1, <2>2, <2>5 DEF GateGoesOn, OffInv, Early
  <2>6. CASE /\ stage = "restore" /\ RestoreFails(kind)
             /\ UNCHANGED <<path, gated, failed, stopped>>
    BY <2>1, <2>2, <2>6 DEF RestoreFails, NextState, OffInv, Early
  <2> QED
    BY <1>14, <2>4, <2>5, <2>6 DEF Fail
<1>15. CASE RestoreNothing
  BY <1>15
   DEF RestoreNothing, NextState, sessionVars, outputVars, stepVars, reportVars, bounds, OffInv,
       Early, Gate, Step
<1>16. ASSUME NEW how \in {"return", "interrupt", "crash"}, NEW found \in BOOLEAN,
       Analyse(how, found)
       PROVE  OffInv'
  BY <1>16 DEF Analyse, sessionVars, outputVars, restoreVars, OffInv, Early, Gate, Step
<1>17. CASE Interrupt
  BY <1>17 DEF Interrupt, sessionVars, stepVars, OffInv, Early, Gate, Step
<1>18. CASE UsePanel
  BY <1>18
   DEF UsePanel, sessionVars, stepVars, restoreVars, reportVars, OffInv, Early, Gate, Step
<1>19. CASE UNCHANGED vars
  BY <1>19
   DEF vars, sessionVars, outputVars, stepVars, restoreVars, reportVars, bounds, OffInv, Early,
       Gate, Step
<1> QED
  BY <1>1, <1>2, <1>3, <1>4, <1>5, <1>6, <1>7, <1>8, <1>9, <1>10, <1>11, <1>12, <1>13, <1>14,
     <1>15, <1>16, <1>17, <1>18, <1>19 DEF Next, RunStep

LEMMA PlaceStep ==
    TypeOK /\ HeldInv /\ SnapshotInv /\ CallInv /\ OffInv /\ PlaceInv /\ [Next]_vars
    => PlaceInv'
<1> SUFFICES ASSUME TypeOK, HeldInv, SnapshotInv, CallInv, OffInv, PlaceInv, [Next]_vars
             PROVE  PlaceInv'
  OBVIOUS
<1> /\ stage \in Stages /\ at \in Nat \ {0} /\ saved \in Seq(SavedType) /\ leg \in 1..3
    /\ plan.restore \in Seq(SourceOutputs)
    /\ path \in {"setup", "normal", "error", "interrupt"} /\ unrestored \in BOOLEAN
  BY PlanFacts DEF TypeOK, PlanType
<1>1. ASSUME NEW ok \in BOOLEAN, AcquireLeases(ok) PROVE PlaceInv'
  BY <1>1 DEF AcquireLeases, outputVars, stepVars, restoreVars, bounds, PlaceInv, Early
<1>2. ASSUME NEW ok \in BOOLEAN, Open(ok) PROVE PlaceInv'
  BY <1>2 DEF Open, outputVars, stepVars, restoreVars, bounds, PlaceInv, Early
<1>3. ASSUME NEW ok \in BOOLEAN, Guards(ok) PROVE PlaceInv'
  <2>1. saved = <<>> /\ path = "setup" /\ at = 1 /\ leg = 1 /\ stage = "guards"
    BY <1>3 DEF Guards, SnapshotInv, Early
  <2>2. UNCHANGED <<plan, saved, at, leg, unrestored, gated>>
    BY <1>3 DEF Guards, restoreVars, stepVars
  <2>3. CASE stage' = "close" /\ UNCHANGED path
    BY <2>1, <2>2, <2>3 DEF PlaceInv, Early
  <2>4. CASE stage' = "snapshot"
    BY <2>1, <2>2, <2>4, <1>3 DEF PlaceInv, Guards, Early
  <2>5. CASE stage' = "step" /\ plan.restore = <<>>
    BY <2>1, <2>2, <2>5, <1>3 DEF PlaceInv, Guards, Early
  <2> QED
    BY <1>3, <2>3, <2>4, <2>5 DEF Guards
<1>4. ASSUME NEW ok \in BOOLEAN, Record(ok) PROVE PlaceInv'
  BY <1>4 DEF Record, sessionVars, outputVars, restoreVars, reportVars, bounds, PlaceInv, Early
<1>5. ASSUME NEW ok \in BOOLEAN, WriteFiles(ok) PROVE PlaceInv'
  BY <1>5
   DEF WriteFiles, sessionVars, outputVars, stepVars, restoreVars, bounds, PlaceInv, Early
<1>6. ASSUME NEW ok \in BOOLEAN, Release(ok) PROVE PlaceInv'
  BY <1>6 DEF Release, outputVars, stepVars, restoreVars, bounds, PlaceInv, Early
<1>7. ASSUME NEW ok \in BOOLEAN, Report(ok) PROVE PlaceInv'
  BY <1>7 DEF Report, sessionVars, outputVars, stepVars, restoreVars, bounds, PlaceInv, Early
<1>8. ASSUME NEW how \in {"ok", "error", "interrupt"}, Close(how) PROVE PlaceInv'
  BY <1>8 DEF Close, outputVars, stepVars, restoreVars, PlaceInv, Early
<1>9. CASE Snapshot
  BY <1>9 DEF Snapshot, sessionVars, stepVars, reportVars, bounds, PlaceInv, Early, SnapshotInv
<1>10. ASSUME NEW kind \in {"transport", "error"}, SnapshotFails(kind) PROVE PlaceInv'
  BY <1>10 DEF SnapshotFails, outputVars, stepVars, reportVars, bounds, PlaceInv, Early
<1>11. ASSUME NEW outcome \in {"ok", "warning", "failed", "transport", "error", "crash"},
       Capture(outcome)
       PROVE  PlaceInv'
  BY <1>11 DEF Capture, Ends, outputVars, restoreVars, reportVars, bounds, PlaceInv, Early
<1>12. ASSUME NEW c \in Calls, Check(c) PROVE PlaceInv'
  BY <1>12 DEF Check, sessionVars, stepVars, restoreVars, reportVars, bounds, PlaceInv, Early
<1>13. CASE Send
  BY <1>13
   DEF Send, Ends, GateGoesOn, NextState, sessionVars, reportVars, bounds, PlaceInv, Early
<1>14. ASSUME NEW c \in Calls \union {call}, NEW kind \in {"transport", "error", "crash"},
       Fail(c, kind)
       PROVE  PlaceInv'
  BY <1>14
   DEF Fail, Ends, GateGoesOn, RestoreFails, NextState, reportVars, bounds, PlaceInv, Early
<1>15. CASE RestoreNothing
  BY <1>15
   DEF RestoreNothing, NextState, sessionVars, outputVars, stepVars, reportVars, bounds,
       PlaceInv, Early
<1>16. ASSUME NEW how \in {"return", "interrupt", "crash"}, NEW found \in BOOLEAN,
       Analyse(how, found)
       PROVE  PlaceInv'
  BY <1>16 DEF Analyse, sessionVars, outputVars, restoreVars, PlaceInv, Early
<1>17. CASE Interrupt
  BY <1>17 DEF Interrupt, sessionVars, stepVars, PlaceInv, Early
<1>18. CASE UsePanel
  BY <1>18 DEF UsePanel, sessionVars, stepVars, restoreVars, reportVars, PlaceInv, Early
<1>19. CASE UNCHANGED vars
  BY <1>19
   DEF vars, sessionVars, outputVars, stepVars, restoreVars, reportVars, bounds, PlaceInv, Early
<1> QED
  BY <1>1, <1>2, <1>3, <1>4, <1>5, <1>6, <1>7, <1>8, <1>9, <1>10, <1>11, <1>12, <1>13, <1>14,
     <1>15, <1>16, <1>17, <1>18, <1>19 DEF Next, RunStep

LEMMA FilesStep ==
    TypeOK /\ HeldInv /\ SnapshotInv /\ CallInv /\ OffInv /\ PlaceInv /\ FilesInv /\ [Next]_vars
    => FilesInv'
<1> SUFFICES ASSUME TypeOK, HeldInv, SnapshotInv, CallInv, OffInv, PlaceInv, FilesInv, [Next]_vars
             PROVE  FilesInv'
  OBVIOUS
<1> stage \in Stages /\ at \in Nat \ {0} /\ saved \in Seq(SavedType) /\ leg \in 1..3
    /\ path \in {"setup", "normal", "error", "interrupt"} /\ files \in {"none", "torn", "ok", "failed"}
    /\ unrestored \in BOOLEAN /\ failed \in BOOLEAN /\ unclosed \in BOOLEAN /\ raised \in BOOLEAN
  BY DEF TypeOK
<1>1. ASSUME NEW ok \in BOOLEAN, AcquireLeases(ok) PROVE FilesInv'
  BY <1>1
   DEF AcquireLeases, outputVars, stepVars, restoreVars, bounds, FilesInv, Early, Closing
<1>2. ASSUME NEW ok \in BOOLEAN, Open(ok) PROVE FilesInv'
  BY <1>2 DEF Open, outputVars, stepVars, restoreVars, bounds, FilesInv, Early, Closing
<1>3. ASSUME NEW ok \in BOOLEAN, Guards(ok) PROVE FilesInv'
  BY <1>3
   DEF Guards, sessionVars, outputVars, stepVars, restoreVars, bounds, FilesInv, Early, Closing
<1>4. ASSUME NEW ok \in BOOLEAN, Record(ok) PROVE FilesInv'
  BY <1>4
   DEF Record, sessionVars, outputVars, restoreVars, reportVars, bounds, FilesInv, Early,
       Closing
<1>5. ASSUME NEW ok \in BOOLEAN, WriteFiles(ok) PROVE FilesInv'
  BY <1>5
   DEF WriteFiles, Written, RunStatus, sessionVars, outputVars, stepVars, restoreVars, bounds,
       PlaceInv, FilesInv, Early,
       Closing, PlaceInv
<1>6. ASSUME NEW ok \in BOOLEAN, Release(ok) PROVE FilesInv'
  BY <1>6 DEF Release, outputVars, stepVars, restoreVars, bounds, FilesInv, Early, Closing
<1>7. ASSUME NEW ok \in BOOLEAN, Report(ok) PROVE FilesInv'
  BY <1>7
   DEF Report, Written, sessionVars, outputVars, stepVars, restoreVars, bounds, FilesInv, Early,
       Closing
<1>8. ASSUME NEW how \in {"ok", "error", "interrupt"}, Close(how) PROVE FilesInv'
  BY <1>8 DEF Close, outputVars, stepVars, restoreVars, FilesInv, Early, Closing
<1>9. CASE Snapshot
  BY <1>9 DEF Snapshot, sessionVars, stepVars, reportVars, bounds, FilesInv, Early, Closing
<1>10. ASSUME NEW kind \in {"transport", "error"}, SnapshotFails(kind) PROVE FilesInv'
  BY <1>10
   DEF SnapshotFails, outputVars, stepVars, reportVars, bounds, FilesInv, Early, Closing
<1>11. ASSUME NEW outcome \in {"ok", "warning", "failed", "transport", "error", "crash"},
       Capture(outcome)
       PROVE  FilesInv'
  BY <1>11
   DEF Capture, Ends, outputVars, restoreVars, reportVars, bounds, FilesInv, Early, Closing
<1>12. ASSUME NEW c \in Calls, Check(c) PROVE FilesInv'
  BY <1>12
   DEF Check, sessionVars, stepVars, restoreVars, reportVars, bounds, FilesInv, Early, Closing
<1>13. CASE Send
  BY <1>13
   DEF Send, Ends, GateGoesOn, NextState, sessionVars, reportVars, bounds, FilesInv, Early,
       Closing
<1>14. ASSUME NEW c \in Calls \union {call}, NEW kind \in {"transport", "error", "crash"},
       Fail(c, kind)
       PROVE  FilesInv'
  BY <1>14
   DEF Fail, Ends, GateGoesOn, RestoreFails, NextState, reportVars, bounds, FilesInv, Early,
       Closing
<1>15. CASE RestoreNothing
  BY <1>15
   DEF RestoreNothing, NextState, sessionVars, outputVars, stepVars, reportVars, bounds,
       FilesInv, Early, Closing
<1>16. ASSUME NEW how \in {"return", "interrupt", "crash"}, NEW found \in BOOLEAN,
       Analyse(how, found)
       PROVE  FilesInv'
  BY <1>16 DEF Analyse, Written, sessionVars, outputVars, restoreVars, FilesInv, Early, Closing
<1>17. CASE Interrupt
  BY <1>17
   DEF Interrupt, Written, RunStatus, sessionVars, stepVars, PlaceInv, FilesInv, Early, Closing
<1>18. CASE UsePanel
  BY <1>18
   DEF UsePanel, sessionVars, stepVars, restoreVars, reportVars, FilesInv, Early, Closing
<1>19. CASE UNCHANGED vars
  BY <1>19
   DEF vars, sessionVars, outputVars, stepVars, restoreVars, reportVars, bounds, FilesInv,
       Early, Closing
<1> QED
  BY <1>1, <1>2, <1>3, <1>4, <1>5, <1>6, <1>7, <1>8, <1>9, <1>10, <1>11, <1>12, <1>13, <1>14,
     <1>15, <1>16, <1>17, <1>18, <1>19 DEF Next, RunStep

\* What Restored(k) is about.
restoredVars == <<plan, path, index, gated, saved, touched>>

LEMMA TargetFacts ==
    ASSUME NEW s \in SavedType
    PROVE  /\ Target(s) \in SavedType /\ Target(s).out = s.out /\ Target(s).level = s.level
           /\ path = "normal" /\ gated /\ s.out \in Gate => ~Target(s).on
  BY DEF Target, SavedType

LEMMA SavedFacts ==
    ASSUME TypeOK, SnapshotInv
    PROVE  /\ \A k \in DOMAIN saved : /\ saved[k] \in SavedType /\ saved[k].out \in Outputs
                                      /\ device[saved[k].out] \in Status
           /\ \A k, l \in DOMAIN saved : k # l => saved[k].out # saved[l].out
<1>1. \A k \in DOMAIN saved : saved[k] \in SavedType
  BY DEF TypeOK
<1>2. \A k \in DOMAIN saved : saved[k].out \in Outputs
  BY <1>1, RunAssumption DEF SavedType
<1>3. \A k \in DOMAIN saved : k \in DOMAIN plan.restore
  BY PlanFacts DEF SnapshotInv, TypeOK, PlanType
<1> QED
  BY <1>1, <1>2, <1>3, PlanFacts DEF SnapshotInv, TypeOK

LEMMA TargetKept ==
    ASSUME UNCHANGED restoredVars, NEW k
    PROVE  Target(saved[k])' = Target(saved[k]) /\ (saved[k].out)' = saved[k].out
  BY DEF restoredVars, Target, Gate, Step

LEMMA SameOutput ==
    ASSUME UNCHANGED restoredVars, NEW k, Restored(k),
           device'[saved[k].out] = device[saved[k].out]
    PROVE  Restored(k)'
  BY TargetKept DEF Restored, AsSaved, restoredVars, Target, Gate, Step

\* A new restoration has nothing to show.
LEMMA Fresh == ASSUME TypeOK', at' = 1, leg' = 1 PROVE RestoredInv'
  BY DEF TypeOK, RestoredInv, Halfway

\* A write for one state leaves those before it alone.
LEMMA OthersKept ==
    ASSUME RunInv, UNCHANGED restoredVars, call # NoCall, stage = "restore", ~unrestored,
           device' = [device EXCEPT ![call.out] = After(call, @)],
           NEW k \in DOMAIN saved, k < at
    PROVE  Restored(k)'
<1>1. /\ at \in DOMAIN saved /\ call = RestoreCall(Target(saved[at])) /\ Restored(k)
  BY DEF RunInv, CallInv, TypeOK, RestoredInv
<1>2. call.out = saved[at].out /\ saved[k].out # saved[at].out
  <2>1. saved[at] \in SavedType /\ saved[k].out # saved[at].out
    BY <1>1, SavedFacts DEF RunInv, TypeOK
  <2>2. call.out = Target(saved[at]).out
    BY <1>1 DEF RestoreCall
  <2> QED
    BY <2>1, <2>2, TargetFacts
<1> QED
  BY <1>1, <1>2, SavedFacts, SameOutput DEF RunInv, TypeOK

\* The gate after the restoration wants OFF what the restoration left OFF.
LEMMA GateKeeps ==
    ASSUME RunInv, UNCHANGED restoredVars, call # NoCall, stage = "post_gate", ~unrestored,
           device' = [device EXCEPT ![call.out] = After(call, @)],
           NEW k \in DOMAIN saved, k < at
    PROVE  Restored(k)'
<1>1. /\ call \in CallType /\ call.want = "off" /\ call.out \in Gate
      /\ path = "normal" /\ gated /\ Restored(k)
  BY DEF RunInv, CallInv, OffInv, PlaceInv, TypeOK, RestoredInv
<1>2. saved[k] \in SavedType /\ saved[k].out \in Outputs /\ device[saved[k].out] \in Status
  BY SavedFacts DEF RunInv
<1>3. CASE call.out # saved[k].out
  BY <1>1, <1>2, <1>3, SameOutput DEF RunInv, TypeOK
<1>4. CASE call.out = saved[k].out
  <2> DEFINE o == saved[k].out
  <2>1. device'[o] = After(call, device[o])
    BY <1>2, <1>4 DEF RunInv, TypeOK
  <2>2. device'[o] \in Status /\ ~device'[o].on /\ device'[o].level = device[o].level
    BY <1>1, <1>2, <2>1, StatusFacts
  <2>3. Target(saved[k]).on = FALSE
    BY <1>1, <1>2, <1>4, TargetFacts DEF SavedType
  <2>4. CASE o \in touched
    BY <2>4 DEF Restored, restoredVars
  <2>5. CASE AsSaved(Target(saved[k]))
    <3>1. device[o].level = saved[k].level
      BY <1>2, <2>5, TargetFacts DEF AsSaved, Status
    <3>2. device'[o] = [on |-> FALSE, level |-> saved[k].level]
      BY <2>2, <3>1 DEF Status
    <3> QED
      BY <1>2, <2>3, <3>2, TargetKept, TargetFacts DEF Restored, AsSaved
  <2> QED
    BY <1>1, <2>4, <2>5 DEF Restored
<1> QED
  BY <1>3, <1>4

\* A step that leaves all this alone.
LEMMA Quiet ==
    ASSUME RunInv, UNCHANGED <<restoredVars, device, at, leg, unrestored>>,
           stage' = "restore" => stage = "restore"
    PROVE  RestoredInv'
<1> SUFFICES ASSUME ~unrestored
             PROVE  /\ \A k \in DOMAIN saved' : k < at' => Restored(k)'
                    /\ stage' = "restore" /\ at' <= Len(saved') => Halfway'
  BY DEF RestoredInv
<1>1. UNCHANGED restoredVars /\ saved' = saved /\ at' = at /\ device' = device /\ touched' = touched
  BY DEF restoredVars
<1>2. ASSUME NEW k \in DOMAIN saved, k < at PROVE Restored(k)'
  BY <1>1, <1>2, SameOutput DEF RunInv, RestoredInv
<1>3. stage = "restore" /\ at <= Len(saved) => Halfway'
  BY <1>1 DEF RunInv, RestoredInv, Halfway
<1> QED
  BY <1>1, <1>2, <1>3

LEMMA RestoredStep == RunInv /\ TypeOK' /\ [Next]_vars => RestoredInv'
<1> SUFFICES ASSUME RunInv, TypeOK', [Next]_vars
             PROVE  RestoredInv'
  OBVIOUS
<1>1. ASSUME NEW ok \in BOOLEAN, AcquireLeases(ok) PROVE RestoredInv'
  BY <1>1, Quiet DEF AcquireLeases, restoredVars, stepVars, outputVars, restoreVars
<1>2. ASSUME NEW ok \in BOOLEAN, Open(ok) PROVE RestoredInv'
  BY <1>2, Quiet DEF Open, restoredVars, stepVars, outputVars, restoreVars
<1>3. ASSUME NEW ok \in BOOLEAN, Guards(ok) PROVE RestoredInv'
  BY <1>3, Fresh DEF Guards, RunInv, PlaceInv, Early, restoreVars
<1>4. ASSUME NEW ok \in BOOLEAN, Record(ok) PROVE RestoredInv'
  BY <1>4, Fresh DEF Record, RunInv, PlaceInv, Early, restoreVars
<1>5. ASSUME NEW ok \in BOOLEAN, WriteFiles(ok) PROVE RestoredInv'
  BY <1>5, Quiet DEF WriteFiles, restoredVars, stepVars, outputVars, restoreVars
<1>6. ASSUME NEW ok \in BOOLEAN, Release(ok) PROVE RestoredInv'
  BY <1>6, Quiet DEF Release, restoredVars, stepVars, outputVars, restoreVars
<1>7. ASSUME NEW ok \in BOOLEAN, Report(ok) PROVE RestoredInv'
  BY <1>7, Quiet DEF Report, restoredVars, stepVars, outputVars, restoreVars
<1>8. ASSUME NEW how \in {"ok", "error", "interrupt"}, Close(how) PROVE RestoredInv'
  BY <1>8, Quiet DEF Close, restoredVars, stepVars, outputVars, restoreVars
<1>9. CASE Snapshot
  BY <1>9, Fresh DEF Snapshot, RunInv, PlaceInv, Early
<1>10. ASSUME NEW kind \in {"transport", "error"}, SnapshotFails(kind) PROVE RestoredInv'
  BY <1>10, Fresh DEF SnapshotFails, RunInv, PlaceInv, Early
<1>11. ASSUME NEW outcome \in {"ok", "warning", "failed", "transport", "error", "crash"},
       Capture(outcome)
       PROVE  RestoredInv'
  BY <1>11, Fresh DEF Capture, RunInv, PlaceInv, Early, restoreVars
<1>12. ASSUME NEW c \in Calls, Check(c) PROVE RestoredInv'
  BY <1>12, Quiet DEF Check, restoredVars, stepVars, restoreVars
<1>13. CASE Send
  <2>1. /\ UNCHANGED <<plan, index, saved, touched, unrestored>> /\ call # NoCall
        /\ device' = [device EXCEPT ![call.out] = After(call, @)]
    BY <1>13 DEF Send
  <2>2. CASE stage = "step" /\ UNCHANGED <<at, leg>>
    BY <2>2, Fresh DEF RunInv, PlaceInv
  <2>3. CASE /\ stage \in {"gate", "post_gate"} /\ GateGoesOn(call.out)
             /\ UNCHANGED <<path, gated, failed, stopped, at, leg>>
    <3>1. CASE stage = "gate"
      BY <2>3, <3>1, Fresh DEF RunInv, PlaceInv
    <3>2. CASE stage = "post_gate"
      <4>1. UNCHANGED restoredVars /\ stage' # "restore"
        BY <2>1, <2>3, <3>2 DEF restoredVars, GateGoesOn
      <4>2. ASSUME ~unrestored, NEW k \in DOMAIN saved, k < at PROVE Restored(k)'
        BY <2>1, <3>2, <4>1, <4>2, GateKeeps
      <4> QED
        BY <2>1, <2>3, <4>1, <4>2 DEF RestoredInv, restoredVars
    <3> QED
      BY <2>3, <3>1, <3>2
  <2>4. CASE /\ stage = "restore" /\ UNCHANGED <<path, gated, failed, stopped>>
             /\ \/ leg < 3 /\ leg' = leg + 1 /\ UNCHANGED <<stage, pending, at>>
                \/ leg = 3 /\ NextState(at + 1)
    <3> SUFFICES ASSUME ~unrestored PROVE RestoredInv'
      BY <2>1 DEF RestoredInv
    <3> DEFINE s == saved[at]
               d == device[s.out]
    <3>1. UNCHANGED restoredVars
      BY <2>1, <2>4 DEF restoredVars
    <3>2. /\ at \in DOMAIN saved /\ at <= Len(saved) /\ call = RestoreCall(Target(s))
          /\ call \in CallType /\ leg \in 1..3
      BY <2>1, <2>4 DEF RunInv, CallInv, TypeOK
    <3>3. /\ s \in SavedType /\ s.out \in Outputs /\ d \in Status
          /\ Target(s) \in SavedType /\ Target(s).out = s.out /\ Target(s).level = s.level
      BY <3>2, SavedFacts, TargetFacts DEF RunInv
    <3>4. /\ call.out = s.out /\ call.level = s.level
          /\ call.want = IF leg = 1 THEN "off" ELSE IF leg = 2 THEN "level"
                         ELSE IF Target(s).on THEN "on" ELSE "off"
      BY <3>2, <3>3 DEF RestoreCall
    <3>5. device'[s.out] = After(call, d) /\ device'[s.out] \in Status
      BY <2>1, <3>2, <3>3, <3>4, StatusFacts DEF RunInv, TypeOK
    <3>6. ASSUME NEW k \in DOMAIN saved, k < at PROVE Restored(k)'
      BY <2>1, <2>4, <3>1, <3>6, OthersKept
    <3>7. s.out \in touched \/ ((leg >= 2 => ~d.on) /\ (leg = 3 => d.level = s.level))
      BY <2>4, <3>2 DEF RunInv, RestoredInv, Halfway
    <3>8. CASE leg < 3 /\ leg' = leg + 1 /\ UNCHANGED <<stage, pending, at>>
      <4>1. Halfway'
        BY <2>1, <3>2, <3>3, <3>4, <3>5, <3>7, <3>8, StatusFacts DEF Halfway
      <4> QED
        BY <2>1, <3>6, <3>8, <4>1 DEF RestoredInv
    <3>9. CASE leg = 3 /\ NextState(at + 1)
      <4>1. ASSUME NEW k \in DOMAIN saved, k = at PROVE Restored(k)'
        <5>1. CASE s.out \in touched
          BY <2>1, <4>1, <5>1 DEF Restored
        <5>2. CASE s.out \notin touched
          <6>1. device'[s.out].on = Target(s).on /\ device'[s.out].level = s.level
            <7>1. ~d.on /\ d.level = s.level
              BY <3>7, <3>9, <5>2
            <7>2. call.want = IF Target(s).on THEN "on" ELSE "off"
              BY <3>4, <3>9
            <7>3. Target(s).on \in BOOLEAN /\ device'[s.out].on \in BOOLEAN
              BY <3>3, <3>5 DEF SavedType, Status
            <7> HIDE DEF s, d
            <7> QED
              BY <3>2, <3>3, <3>5, <7>1, <7>2, <7>3, StatusFacts
          <6>2. device'[s.out] = [on |-> Target(s).on, level |-> s.level]
            BY <3>5, <6>1 DEF Status
          <6>3. (Target(saved[k]))' = Target(s)
            BY <3>1, <4>1, TargetKept
          <6> QED
            BY <3>3, <6>2, <6>3 DEF Restored, AsSaved
        <5> QED
          BY <5>1, <5>2
      <4>2. at' = at + 1 /\ leg' = 1 /\ at \in Nat
        BY <3>2, <3>9 DEF NextState
      <4>3. \A k \in DOMAIN saved' : k < at' => Restored(k)'
        <5> SUFFICES ASSUME NEW k \in DOMAIN saved, k < at + 1 PROVE Restored(k)'
          BY <2>1, <4>2
        <5>1. k < at \/ k = at
          BY <4>2 DEF RunInv, TypeOK
        <5> QED
          BY <3>6, <4>1, <5>1
      <4> QED
        BY <4>2, <4>3 DEF RestoredInv, Halfway
    <3> QED
      BY <2>4, <3>8, <3>9
  <2> QED
    <3>1. leg \in 1..3
      BY DEF RunInv, TypeOK
    <3> QED
      BY <1>13, <2>2, <2>3, <2>4, <3>1 DEF Send
<1>14. ASSUME NEW c \in Calls \union {call}, NEW kind \in {"transport", "error", "crash"},
       Fail(c, kind)
       PROVE  RestoredInv'
  <2>1. UNCHANGED <<plan, index, saved, touched>>
    BY <1>14 DEF Fail
  <2>2. CASE stage \in {"step", "gate"} /\ UNCHANGED <<at, leg, unrestored>>
    BY <2>2, Fresh DEF RunInv, PlaceInv
  <2>3. CASE stage = "restore" /\ RestoreFails(kind)
    BY <2>3 DEF RestoreFails, RestoredInv
  <2>4. CASE /\ stage = "post_gate" /\ GateGoesOn(c.out)
             /\ UNCHANGED <<path, gated, failed, stopped, at, leg, unrestored>>
    <3>1. UNCHANGED restoredVars /\ stage' # "restore"
      BY <2>1, <2>4 DEF restoredVars, GateGoesOn
    <3>2. CASE device' = device
      BY <2>4, <3>1, <3>2, Quiet
    <3>3. CASE call # NoCall /\ device' = [device EXCEPT ![call.out] = After(call, @)]
      <4>1. ASSUME ~unrestored, NEW k \in DOMAIN saved, k < at PROVE Restored(k)'
        BY <2>4, <3>1, <3>3, <4>1, GateKeeps
      <4> QED
        BY <2>4, <3>1, <4>1 DEF RestoredInv, restoredVars
    <3> QED
      BY <1>14, <3>2, <3>3 DEF Fail
  <2> QED
    BY <1>14, <2>2, <2>3, <2>4 DEF Fail
<1>15. CASE RestoreNothing
  <2>1. saved' = <<>> /\ ~(1 <= Len(saved')) /\ DOMAIN saved' = {}
    BY <1>15 DEF RestoreNothing
  <2>2. at' \in Nat \ {0}
    BY DEF TypeOK
  <2> QED
    BY <2>1, <2>2 DEF RestoredInv
<1>16. ASSUME NEW how \in {"return", "interrupt", "crash"}, NEW found \in BOOLEAN,
       Analyse(how, found)
       PROVE  RestoredInv'
  BY <1>16, Quiet DEF Analyse, restoredVars, outputVars, restoreVars
<1>17. CASE Interrupt
  <2>1. UNCHANGED <<plan, index, gated, touched, at, leg, unrestored>>
    BY <1>17 DEF Interrupt, stepVars
  <2>2. CASE stage \in Early \union {"snapshot", "step", "gate", "record"}
    BY <2>1, <2>2, Fresh DEF RunInv, PlaceInv
  <2>3. CASE stage \in {"restore", "post_gate", "files"}
    <3>1. UNCHANGED restoredVars /\ stage' = "close"
      BY <1>17, <2>1, <2>3 DEF Interrupt, restoredVars
    <3>2. CASE device' = device
      BY <2>1, <3>1, <3>2, Quiet
    <3>3. CASE call # NoCall /\ device' = [device EXCEPT ![call.out] = After(call, @)]
      <4>1. stage \in {"restore", "post_gate"}
        BY <2>3, <3>3 DEF RunInv, CallInv
      <4>2. ASSUME ~unrestored, NEW k \in DOMAIN saved, k < at PROVE Restored(k)'
        BY <3>1, <3>3, <4>1, <4>2, OthersKept, GateKeeps
      <4> QED
        BY <2>1, <3>1, <4>2 DEF RestoredInv, restoredVars
    <3> QED
      BY <1>17, <3>2, <3>3 DEF Interrupt
  <2> QED
    BY <1>17, <2>2, <2>3 DEF Interrupt, Early
<1>18. CASE UsePanel
  <2>1. UNCHANGED <<plan, path, index, gated, saved, at, leg, unrestored, stage>>
        /\ touched \subseteq touched'
    BY <1>18 DEF UsePanel, stepVars, restoreVars
  <2>2. ASSUME NEW o \in Outputs PROVE o \in touched' \/ device'[o] = device[o]
    BY <1>18, RunAssumption DEF UsePanel, RunInv, TypeOK
  <2>3. ASSUME NEW k \in DOMAIN saved, Restored(k) PROVE Restored(k)'
    <3>1. saved[k].out \in Outputs
      BY SavedFacts DEF RunInv
    <3>2. CASE saved[k].out \in touched'
      BY <2>1, <3>2 DEF Restored
    <3>3. CASE saved[k].out \notin touched' /\ device'[saved[k].out] = device[saved[k].out]
      <4>1. AsSaved(Target(saved[k]))
        BY <2>1, <2>3, <3>3 DEF Restored
      <4> QED
        BY <2>1, <3>3, <4>1 DEF Restored, AsSaved, Target, Gate, Step
    <3> QED
      BY <2>2, <3>1, <3>2, <3>3
  <2>4. ASSUME at <= Len(saved), Halfway PROVE Halfway'
    <3>1. at \in DOMAIN saved /\ saved[at].out \in Outputs
      BY <2>4, SavedFacts DEF RunInv, TypeOK
    <3> QED
      BY <2>1, <2>2, <2>4, <3>1 DEF Halfway
  <2> QED
    BY <2>1, <2>3, <2>4 DEF RunInv, RestoredInv
<1>19. CASE UNCHANGED vars
  BY <1>19, Quiet DEF vars, restoredVars, outputVars, stepVars, restoreVars
<1> QED
  BY <1>1, <1>2, <1>3, <1>4, <1>5, <1>6, <1>7, <1>8, <1>9, <1>10, <1>11, <1>12, <1>13, <1>14,
     <1>15, <1>16, <1>17, <1>18, <1>19 DEF Next, RunStep

LEMMA RunInit == Init => RunInv
<1> SUFFICES ASSUME Init PROVE RunInv
  OBVIOUS
<1>1. plan \in PlanType /\ plan.steps # <<>>
  BY RunAssumption DEF Init
<1>2. Len(plan.steps) \in Nat /\ Len(plan.steps) >= 1 /\ Len(plan.restore) \in Nat
  BY <1>1 DEF PlanType
<1>3. TypeOK
  <2>1. device \in [Outputs -> Status] /\ plan \in Plans /\ index \in 1..Len(plan.steps)
        /\ MaxMoves \in Nat /\ MaxInterrupts \in Nat
    BY <1>2, RunAssumption DEF Init
  <2>2. expected \in Expectations /\ left \in Expectations /\ saved \in Seq(SavedType)
    BY DEF Init, Expectations
  <2>3. /\ moves \in 0..MaxMoves /\ interrupts \in 0..MaxInterrupts
        /\ at \in Nat \ {0} /\ leg \in 1..3
    BY <2>1 DEF Init
  <2>4. /\ held \in SUBSET Sessions /\ opened \in SUBSET Sessions /\ broken \in SUBSET Sessions
        /\ pending \in SUBSET Outputs /\ offed \in SUBSET Outputs /\ touched \in SUBSET Outputs
        /\ call = NoCall
    BY DEF Init
  <2>5. /\ stage \in Stages /\ path \in {"setup", "normal", "error", "interrupt"}
        /\ gated \in BOOLEAN /\ unrestored \in BOOLEAN /\ failed \in BOOLEAN /\ stopped \in BOOLEAN
        /\ files \in {"none", "torn", "ok", "failed"} /\ unclosed \in BOOLEAN /\ raised \in BOOLEAN
    BY DEF Init, Stages
  <2> QED
    BY <2>1, <2>2, <2>3, <2>4, <2>5 DEF TypeOK
<1>4. HeldInv /\ GuardInv /\ CallInv /\ OffInv /\ FilesInv
  BY DEF Init, HeldInv, GuardInv, CallInv, OffInv, FilesInv, Early, Closing
<1>5. SnapshotInv /\ PlaceInv /\ RestoredInv
  BY <1>2 DEF Init, SnapshotInv, PlaceInv, RestoredInv, Early
<1> QED
  BY <1>3, <1>4, <1>5 DEF RunInv

LEMMA RunInvStep == RunInv /\ [Next]_vars => RunInv'
<1> SUFFICES ASSUME RunInv, [Next]_vars PROVE RunInv'
  OBVIOUS
<1>1. TypeOK'
  BY TypeStep DEF RunInv
<1>2. HeldInv' /\ SnapshotInv' /\ GuardInv'
  BY HeldStep, SnapshotStep, GuardStep DEF RunInv
<1>3. CallInv' /\ OffInv'
  BY CallStep, OffStep DEF RunInv
<1>4. PlaceInv' /\ FilesInv'
  BY PlaceStep, FilesStep DEF RunInv
<1>5. RestoredInv'
  BY <1>1, RestoredStep
<1> QED
  BY <1>1, <1>2, <1>3, <1>4, <1>5 DEF RunInv

\* What is proved inductive: types, leases, guards, the pending call, the gate, the
\* restoration and the files.
THEOREM RunInvariant == Spec => []RunInv
  BY RunInit, RunInvStep, PTL DEF Spec

\* Every variable of a run keeps its type.
THEOREM RunTypeCorrect == Spec => []TypeOK
<1>1. RunInv => TypeOK
  BY DEF RunInv
<1> QED
  BY <1>1, RunInvariant, PTL

\* However a run is left, its sessions are closed and its leases given back
\* (_run_plan's finally blocks), and no session outlives its lease.
THEOREM RunLeavesNothingOpen == Spec => []NothingIsLeftOpen
<1>1. RunInv => NothingIsLeftOpen
  BY DEF RunInv, HeldInv, NothingIsLeftOpen
<1> QED
  BY <1>1, RunInvariant, PTL

\* A run that returns has its files say truly whether a step, an analysis or a closing
\* failed; "ok" is never left, even by a run that raises, over outputs that were not
\* restored; and a restoration that was not reported as failed left every output as it
\* was found or as the gate wants it (_run_plan, report_close_errors, write_run_files).
THEOREM RunFilesTellTheTruth == Spec => []FilesTellTheTruth
<1>1. RunInv => FilesTellTheTruth
  <2> SUFFICES ASSUME RunInv, stage = "end"
               PROVE  /\ ~raised => files = IF failed \/ unclosed THEN "failed" ELSE "ok"
                      /\ files = "ok" \/ ~raised =>
                           path = "normal" /\ ~unrestored /\ at > Len(saved)
                      /\ ~unrestored /\ at > Len(saved) =>
                           /\ files # "none" /\ path = "normal" => Len(saved) = Len(plan.restore)
                           /\ \A k \in DOMAIN saved : Restored(k)
    BY DEF FilesTellTheTruth, Restored
  <2>1. path = "normal" => Len(saved) = Len(plan.restore)
    BY DEF RunInv, PlaceInv
  <2>2. ~unrestored /\ at > Len(saved) => \A k \in DOMAIN saved : Restored(k)
    BY DEF RunInv, RestoredInv, TypeOK
  <2>3. /\ ~raised => files = IF failed \/ unclosed THEN "failed" ELSE "ok"
        /\ files = "ok" \/ ~raised => path = "normal" /\ ~unrestored /\ at > Len(saved)
    BY DEF RunInv, FilesInv, Closing
  <2> QED
    BY <2>1, <2>2, <2>3
<1> QED
  BY <1>1, RunInvariant, PTL

\* Only the write of the pending call and the front panel move an output.
LEMMA DeviceMoves ==
    ASSUME [Next]_vars, moves' = moves, moves \in Nat
    PROVE  \/ device' = device
           \/ call # NoCall /\ device' = [device EXCEPT ![call.out] = After(call, @)]
<1>1. ASSUME NEW ok \in BOOLEAN, AcquireLeases(ok)
      PROVE  device' = device
  BY <1>1 DEF AcquireLeases, outputVars
<1>2. ASSUME NEW ok \in BOOLEAN, Open(ok)
      PROVE  device' = device
  BY <1>2 DEF Open, outputVars
<1>3. ASSUME NEW ok \in BOOLEAN, Guards(ok)
      PROVE  device' = device
  BY <1>3 DEF Guards, outputVars
<1>4. ASSUME NEW ok \in BOOLEAN, Record(ok)
      PROVE  device' = device
  BY <1>4 DEF Record, outputVars
<1>5. ASSUME NEW ok \in BOOLEAN, WriteFiles(ok)
      PROVE  device' = device
  BY <1>5 DEF WriteFiles, outputVars
<1>6. ASSUME NEW ok \in BOOLEAN, Release(ok)
      PROVE  device' = device
  BY <1>6 DEF Release, outputVars
<1>7. ASSUME NEW ok \in BOOLEAN, Report(ok)
      PROVE  device' = device
  BY <1>7 DEF Report, outputVars
<1>8. ASSUME NEW how \in {"ok", "error", "interrupt"}, Close(how)
      PROVE  device' = device
  BY <1>8 DEF Close, outputVars
<1>9. ASSUME Snapshot PROVE device' = device
  BY <1>9 DEF Snapshot
<1>10. ASSUME NEW kind \in {"transport", "error"}, SnapshotFails(kind)
      PROVE  device' = device
  BY <1>10 DEF SnapshotFails, outputVars
<1>11. ASSUME NEW outcome \in {"ok", "warning", "failed", "transport", "error", "crash"},
             Capture(outcome)
      PROVE  device' = device
  BY <1>11 DEF Capture, outputVars
<1>12. ASSUME NEW c \in Calls, Check(c)
      PROVE  device' = device
  BY <1>12 DEF Check
<1>13. CASE Send
  BY <1>13 DEF Send
<1>14. ASSUME NEW c \in Calls \union {call}, NEW kind \in {"transport", "error", "crash"},
             Fail(c, kind)
      PROVE  \/ device' = device
             \/ call # NoCall /\ device' = [device EXCEPT ![call.out] = After(call, @)]
  BY <1>14 DEF Fail
<1>15. ASSUME RestoreNothing PROVE device' = device
  BY <1>15 DEF RestoreNothing, outputVars
<1>16. ASSUME NEW how \in {"return", "interrupt", "crash"}, NEW found \in BOOLEAN,
             Analyse(how, found)
      PROVE  device' = device
  BY <1>16 DEF Analyse, outputVars
<1>17. CASE Interrupt
  BY <1>17 DEF Interrupt
<1>18. CASE UsePanel
  BY <1>18 DEF UsePanel
<1>19. CASE UNCHANGED vars
  BY <1>19 DEF vars, outputVars
<1> QED
  BY <1>1, <1>2, <1>3, <1>4, <1>5, <1>6, <1>7, <1>8, <1>9, <1>10, <1>11, <1>12, <1>13, <1>14,
     <1>15, <1>16, <1>17, <1>18, <1>19 DEF Next, RunStep

\* While a run goes on to its end it switches ON nothing the gate switched OFF:
\* the restoration has force_off_channels, and the steps are over.
THEOREM RunGatedStaysOff == Spec => GatedStaysOff
<1>1. RunInv /\ [Next]_vars =>
        (moves' = moves /\ path = "normal" => \A o \in offed : ~SwitchedOn(o))
  <2> SUFFICES ASSUME RunInv, [Next]_vars, moves' = moves, path = "normal",
                      NEW o \in offed, SwitchedOn(o)
               PROVE  FALSE
    OBVIOUS
  <2>1. o \in Outputs /\ device[o] \in Status /\ moves \in Nat
    BY RunAssumption DEF RunInv, TypeOK
  <2>2. call # NoCall /\ device' = [device EXCEPT ![call.out] = After(call, @)]
    BY <2>1, DeviceMoves DEF SwitchedOn
  <2>3. call \in CallType
    BY <2>2 DEF RunInv, TypeOK
  <2>4. call.out = o /\ call.want = "on"
    <3>1. call.out = o
      BY <2>1, <2>2 DEF SwitchedOn, RunInv, TypeOK
    <3>2. device'[o] = After(call, device[o])
      BY <2>1, <2>2, <3>1 DEF RunInv, TypeOK
    <3> QED
      BY <2>1, <2>3, <3>1, <3>2, StatusFacts DEF SwitchedOn
  <2>5. gated /\ o \in Gate /\ stage # "step"
    BY DEF RunInv, OffInv
  <2>6. stage = "restore" /\ at \in DOMAIN saved /\ call = RestoreCall(Target(saved[at]))
    BY <2>2, <2>4, <2>5 DEF RunInv, CallInv, TypeOK
  <2>7. saved[at] \in SavedType
    BY <2>6, SavedFacts DEF RunInv
  <2>8. saved[at].out = o /\ Target(saved[at]).on
    BY <2>4, <2>6, <2>7, TargetFacts DEF RestoreCall
  <2> QED
    BY <2>5, <2>7, <2>8, TargetFacts DEF SavedType
<1> QED
  BY <1>1, RunInvariant, PTL DEF Spec, GatedStaysOff

\* A call that its check refuses: all that can happen is that it fails, that the run
\* is interrupted, or that the front panel moves again.
LEMMA RefusedCall ==
    ASSUME RunInv, [Next]_vars, NEW c \in Calls, call = NoCall, c.want # "off",
           left[c.out] \notin {Unseen, device[c.out]}
    PROVE  \/ UsePanel \/ Interrupt \/ UNCHANGED vars
           \/ \E kind \in {"transport", "error", "crash"} : Fail(c, kind)
<1>1. stage \in {"step", "restore"} /\ Calls = {c} /\ (stage = "restore" => at <= Len(saved))
  BY DEF Calls, OffCall
<1>2. \A d \in Calls : ~Check(d)
  <2>1. left = expected
    BY DEF RunInv, GuardInv
  <2> QED
    BY <1>1, <2>1 DEF Check, Accepted, MayWrite, Drifted
<1>3. /\ ~Send /\ ~Snapshot
      /\ \A ok : /\ ~AcquireLeases(ok) /\ ~Open(ok) /\ ~Guards(ok) /\ ~Record(ok)
                 /\ ~WriteFiles(ok) /\ ~Release(ok) /\ ~Report(ok)
  BY <1>1 DEF Send, Snapshot, AcquireLeases, Open, Guards, Record, WriteFiles, Release, Report
<1>4. /\ \A how : ~Close(how) /\ \A kind : ~SnapshotFails(kind)
      /\ \A how, found : ~Analyse(how, found)
  BY <1>1 DEF Close, SnapshotFails, Analyse
<1>5. \A outcome : ~Capture(outcome)
  BY <1>1 DEF Capture, Calls
<1>6. ~RestoreNothing
  BY <1>1 DEF RestoreNothing, RunInv, TypeOK
<1>7. ASSUME NEW d, NEW kind, Fail(d, kind) PROVE d = c
  BY <1>1, <1>7 DEF Fail
<1> QED
  BY <1>2, <1>3, <1>4, <1>5, <1>6, <1>7 DEF Next, RunStep

\* The state guards start no call over a change they see, and the run does not go on
\* as if it had been made (state_guard.py's before_write, _run_plan's handlers).
THEOREM RunDriftStopsTheCall == Spec => DriftStopsTheCall
<1> DEFINE Stopped ==
      /\ call' = NoCall
      /\ \/ UNCHANGED <<stage, index, at, leg>>
         \/ IF stage = "restore" THEN unrestored' \/ raised' ELSE failed' \/ path' # "normal"
<1>1. ASSUME RunInv, [Next]_vars, NEW c \in Calls, call = NoCall, c.want # "off",
             left[c.out] \notin {Unseen, device[c.out]}
      PROVE  Stopped
  <2>1. stage \in {"step", "restore"}
    BY <1>1 DEF Calls, OffCall
  <2>2. CASE UsePanel
    BY <1>1, <2>2 DEF UsePanel, stepVars, restoreVars
  <2>3. CASE Interrupt
    BY <1>1, <2>1, <2>3 DEF Interrupt
  <2>4. ASSUME NEW kind \in {"transport", "error", "crash"}, Fail(c, kind) PROVE Stopped
    <3>1. call' = NoCall
      BY <2>4 DEF Fail
    <3>2. CASE stage = "step"
      BY <2>4, <3>1, <3>2 DEF Fail, Ends
    <3>3. CASE stage = "restore"
      BY <2>4, <3>1, <3>3 DEF Fail, RestoreFails
    <3> QED
      BY <2>1, <3>2, <3>3
  <2>5. CASE UNCHANGED vars
    BY <1>1, <2>5 DEF vars, restoreVars, stepVars
  <2> QED
    BY <1>1, <2>2, <2>3, <2>4, <2>5, RefusedCall
<1>2. RunInv /\ [Next]_vars =>
        (\A c \in Calls :
           call = NoCall /\ c.want # "off" /\ left[c.out] \notin {Unseen, device[c.out]} =>
             /\ call' = NoCall
             /\ \/ UNCHANGED <<stage, index, at, leg>>
                \/ IF stage = "restore" THEN unrestored' \/ raised'
                   ELSE failed' \/ path' # "normal")
  BY <1>1
<1> QED
  BY <1>2, RunInvariant, PTL DEF Spec, DriftStopsTheCall

-----------------------------------------------------------------------------
(* Progress.                                                                 *)

Advances ==
    \/ Place(stage) < Place(stage')
    \/ stage = "record" /\ stage' = "step" /\ index' = index + 1
    \/ stage' = stage /\ index' = index /\ Proceeds

\* The end of a step leads on to the gate, the record or the restoration.
LEMMA EndsAdvance == ASSUME NEW o, Ends(o), stage = "step" PROVE Advances
  BY DEF Ends, Advances, Place

\* The gate gets on with each of its outputs.
LEMMA GateAdvances ==
    ASSUME stage \in {"gate", "post_gate"}, NEW o \in pending, GateGoesOn(o), index' = index
    PROVE  Advances
<1>1. pending' \subseteq pending /\ pending' # pending
  BY DEF GateGoesOn
<1>2. stage' \in {stage, IF stage = "gate" THEN "record" ELSE "files"}
  BY DEF GateGoesOn
<1> QED
  BY <1>1, <1>2 DEF Advances, Proceeds, Place

\* The restoration gets on with each of its states.
LEMMA RestoreAdvances ==
    ASSUME stage = "restore", at \in Nat, NEW k \in Nat, NextState(k), index' = index,
           k > at \/ k > Len(saved)
    PROVE  Advances
<1>1. CASE k <= Len(saved)
  BY <1>1 DEF NextState, Advances, Proceeds
<1>2. CASE ~(k <= Len(saved))
  BY <1>2 DEF NextState, Advances, Place
<1> QED
  BY <1>1, <1>2

LEMMA StepAdvances == RunInv /\ [Next]_vars => (~UsePanel => Advances \/ UNCHANGED vars)
<1> SUFFICES ASSUME RunInv, [Next]_vars PROVE ~UsePanel => Advances \/ UNCHANGED vars
  OBVIOUS
<1> /\ TypeOK /\ at \in Nat /\ leg \in 1..3 /\ saved \in Seq(SavedType)
    /\ Len(saved) \in Nat /\ index \in Nat
  BY DEF RunInv, TypeOK
<1>1. ASSUME NEW ok \in BOOLEAN, AcquireLeases(ok) PROVE Advances
  BY <1>1 DEF AcquireLeases, Advances, Place
<1>2. ASSUME NEW ok \in BOOLEAN, Open(ok) PROVE Advances
  <2>1. CASE ~ok
    BY <1>2, <2>1 DEF Open, Advances, Place
  <2>2. CASE ok
    <3>1. opened \subseteq opened' /\ opened' # opened
      BY <1>2, <2>2 DEF Open
    <3>2. stage = "open" /\ stage' \in {"open", "guards"} /\ index' = index
      BY <1>2, <2>2 DEF Open, stepVars
    <3> QED
      BY <3>1, <3>2 DEF Advances, Proceeds, Place
  <2> QED
    BY <2>1, <2>2
<1>3. ASSUME NEW ok \in BOOLEAN, Guards(ok) PROVE Advances
  BY <1>3 DEF Guards, Advances, Place
<1>4. ASSUME NEW ok \in BOOLEAN, Record(ok) PROVE Advances
  BY <1>4 DEF Record, Advances, Place
<1>5. ASSUME NEW ok \in BOOLEAN, WriteFiles(ok) PROVE Advances
  BY <1>5 DEF WriteFiles, Advances, Place
<1>6. ASSUME NEW ok \in BOOLEAN, Release(ok) PROVE Advances
  BY <1>6 DEF Release, Advances, Place
<1>7. ASSUME NEW ok \in BOOLEAN, Report(ok) PROVE Advances
  BY <1>7 DEF Report, Advances, Place
<1>8. ASSUME NEW how \in {"ok", "error", "interrupt"}, Close(how) PROVE Advances
  <2>1. stage = "close" /\ stage' = stage /\ index' = index
    BY <1>8 DEF Close, stepVars
  <2>2. opened' \subseteq opened /\ opened' # opened
    BY <1>8 DEF Close
  <2> QED
    BY <2>1, <2>2 DEF Advances, Proceeds
<1>9. ASSUME Snapshot PROVE Advances
  <2>1. stage = "snapshot" /\ stage' \in {"snapshot", "step"} /\ index' = index
    BY <1>9 DEF Snapshot, stepVars
  <2>2. Len(saved') = Len(saved) + 1
    BY <1>9 DEF Snapshot
  <2> QED
    BY <2>1, <2>2 DEF Advances, Proceeds, Place
<1>10. ASSUME NEW kind \in {"transport", "error"}, SnapshotFails(kind) PROVE Advances
  BY <1>10 DEF SnapshotFails, Advances, Place
<1>11. ASSUME NEW outcome \in {"ok", "warning", "failed", "transport", "error", "crash"},
              Capture(outcome)
       PROVE  Advances
  BY <1>11, EndsAdvance DEF Capture
<1>12. ASSUME NEW c \in Calls, Check(c) PROVE Advances
  <2>1. call = NoCall /\ call' # NoCall
    BY <1>12, CallsTyped, RunAssumption DEF Check
  <2>2. UNCHANGED <<stage, index, opened, saved, pending, at, leg>>
    BY <1>12 DEF Check, sessionVars, stepVars, restoreVars
  <2> QED
    BY <2>1, <2>2 DEF Advances, Proceeds
<1>13. ASSUME Send PROVE Advances
  <2>1. call # NoCall /\ index' = index
    BY <1>13 DEF Send
  <2>2. CASE stage = "step" /\ Ends("ok")
    BY <2>2, EndsAdvance
  <2>3. CASE stage \in {"gate", "post_gate"} /\ GateGoesOn(call.out)
    BY <2>1, <2>3, GateAdvances DEF RunInv, CallInv
  <2>4. CASE stage = "restore" /\ leg' = leg + 1 /\ UNCHANGED <<stage, pending, at>>
    BY <2>1, <2>4 DEF Advances, Proceeds
  <2>5. CASE stage = "restore" /\ NextState(at + 1)
    BY <2>1, <2>5, RestoreAdvances
  <2> QED
    BY <1>13, <2>2, <2>3, <2>4, <2>5 DEF Send
<1>14. ASSUME NEW c \in Calls \union {call}, NEW kind \in {"transport", "error", "crash"},
              Fail(c, kind)
       PROVE  Advances
  <2>1. index' = index /\ c \in (IF call = NoCall THEN Calls ELSE {call})
    BY <1>14 DEF Fail
  <2>2. CASE stage = "step" /\ Ends(kind)
    BY <2>2, EndsAdvance
  <2>3. CASE stage \in {"gate", "post_gate"} /\ GateGoesOn(c.out)
    <3>1. CASE call = NoCall
      BY <2>1, <2>3, <3>1, GateAdvances DEF Calls, OffCall
    <3>2. CASE call # NoCall
      BY <2>1, <2>3, <3>2, GateAdvances DEF RunInv, CallInv
    <3> QED
      BY <3>1, <3>2
  <2>4. CASE stage = "restore" /\ RestoreFails(kind)
    <3>1. NextState(IF kind = "transport" THEN Len(saved) + 1 ELSE at + 1)
      BY <2>4 DEF RestoreFails
    <3> QED
      BY <2>1, <2>4, <3>1, RestoreAdvances
  <2> QED
    BY <1>14, <2>2, <2>3, <2>4 DEF Fail
<1>15. ASSUME RestoreNothing PROVE Advances
  <2>1. stage = "restore" /\ saved = <<>> /\ NextState(at) /\ index' = index /\ at > 0
    BY <1>15 DEF RestoreNothing, stepVars, TypeOK
  <2> QED
    BY <2>1, RestoreAdvances
<1>16. ASSUME NEW how \in {"return", "interrupt", "crash"}, NEW found \in BOOLEAN,
             Analyse(how, found)
       PROVE  Advances
  BY <1>16 DEF Analyse, Advances, Place
<1>17. ASSUME Interrupt PROVE Advances
  BY <1>17 DEF Interrupt, Advances, Place
<1> QED
  BY <1>1, <1>2, <1>3, <1>4, <1>5, <1>6, <1>7, <1>8, <1>9, <1>10, <1>11, <1>12, <1>13, <1>14,
     <1>15, <1>16, <1>17 DEF Next, RunStep

\* A run takes no more steps than its plan, its sessions, its outputs and the states
\* to restore allow, whatever fails.
THEOREM RunStepsAdvance == Spec => EveryStepAdvances
<1>1. RunInv /\ [Next]_vars => (~UsePanel => Advances \/ UNCHANGED vars)
  BY StepAdvances
<1> QED
  BY <1>1, RunInvariant, PTL DEF Spec, EveryStepAdvances, Advances
=============================================================================
