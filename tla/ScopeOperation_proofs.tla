------------------------ MODULE ScopeOperation_proofs ------------------------
(***************************************************************************)
(* Proofs about ScopeOperation, for any settings, requests and number of    *)
(* front-panel actions.                                                     *)
(***************************************************************************)
EXTENDS ScopeOperation, TLAPS

-----------------------------------------------------------------------------
(* The lemmas.                                                               *)

\* What the contracts say, whatever the kind of operation.
LEMMA ContractFacts ==
    ASSUME NEW k \in Kinds
    PROVE  /\ Contract[k].baseline \in {"always", "on_change", "stop", "never"}
           /\ Contract[k].lends \in BOOLEAN /\ Contract[k].early \in BOOLEAN
           /\ Contract[k].halts => Contract[k].baseline = "always"
           /\ Contract[k].lends => Contract[k].baseline = "always"
<1>1. k \in {"screenshot", "screenshot_plain", "fetch_trace", "waveform", "average_capture",
              "channel_display", "focus", "acquisition_start", "acquisition_single",
              "acquisition_stop", "screenshot_profile", "run_state", "trace_metadata"}
  BY DEF Kinds, Contract
<1>2. Contract[k] \in {Transfer, Bounded, Control, Setup, Stop, Read}
  BY <1>1 DEF Contract
<1>3. CASE Contract[k] = Transfer
  BY <1>3 DEF Transfer
<1>4. CASE Contract[k] = Bounded
  BY <1>4 DEF Bounded, Transfer
<1>5. CASE Contract[k] = Control
  BY <1>5 DEF Control, Transfer
<1>6. CASE Contract[k] = Setup
  BY <1>6 DEF Setup
<1>7. CASE Contract[k] = Stop
  BY <1>7 DEF Stop, Setup
<1>8. CASE Contract[k] = Read
  BY <1>8 DEF Read, Setup
<1> QED
  BY <1>2, <1>3, <1>4, <1>5, <1>6, <1>7, <1>8

\* A request in progress is of a known kind, asks for a setting and comes with
\* the times the error queue is drained.
LEMMA RequestFacts ==
    ASSUME op \in Requests
    PROVE  /\ op.kind \in Kinds /\ op.asked \in Settings
           /\ op.checks \subseteq {"before", "after"}
           /\ Contract[op.kind].baseline \in {"always", "on_change", "stop", "never"}
           /\ Contract[op.kind].lends \in BOOLEAN /\ Contract[op.kind].early \in BOOLEAN
           /\ Contract[op.kind].halts => Contract[op.kind].baseline = "always"
           /\ Contract[op.kind].lends => Contract[op.kind].baseline = "always"
<1>1. op \in RequestType
  BY ScopeAssumption
<1>2. op.kind \in Kinds /\ op.asked \in Settings /\ op.checks \in SUBSET {"before", "after"}
  BY <1>1 DEF RequestType
<1> QED
  BY <1>2, ContractFacts

\* A phase makes no health that is not one.
LEMMA OutcomeTyped ==
    ASSUME health \in Health, NEW p \in Phases, NEW h \in AfterPhase(p)
    PROVE  h \in Health
BY DEF AfterPhase, Health, Conservative, Healthy, Uncertain, Poisoned

LEMMA FinalTyped ==
    ASSUME health \in Health
    PROVE  FinalHealth(required, baseline, verified, health) \in Health
BY DEF FinalHealth, Health, Poisoned

\* Begin keeps the invariant.
LEMMA InvBegin ==
    ASSUME ScopeInv, NEW r \in Requests, Begin(r)
    PROVE  ScopeInv'
<1>3. TypeOK'
  BY ScopeAssumption, OutcomeTyped, FinalTyped
     DEF ScopeInv, TypeOK, Begin, opVars, RestorePhases, Phases, Steps, Baseline,
         Clock, Health, Healthy, Uncertain, Poisoned
<1>4. BaselineInv'
  BY ScopeAssumption
     DEF ScopeInv, TypeOK, BaselineInv, PhaseInv, Begin, opVars
<1>5. PhaseInv'
  BY ScopeAssumption
     DEF ScopeInv, TypeOK, BaselineInv, PhaseInv, Writes, Cleanup, Begin, opVars,
         RestorePhases, Phases, Steps, Baseline, Clock
<1>6. DeviceInv'
  BY ScopeAssumption
     DEF ScopeInv, TypeOK, BaselineInv, PhaseInv, DeviceInv, Writes, Settled, Wanted,
         FinalHealth, Health, Healthy, Uncertain, Poisoned, Begin, opVars
<1>7. ResultInv'
  BY ScopeAssumption
     DEF ScopeInv, TypeOK, PhaseInv, ResultInv, FinalHealth, Health, Healthy,
         Uncertain, Poisoned, Begin, opVars
<1> QED
  BY <1>3, <1>4, <1>5, <1>6, <1>7 DEF ScopeInv

\* PassPreflight keeps the invariant.
LEMMA InvPassPreflight ==
    ASSUME ScopeInv, PassPreflight
    PROVE  ScopeInv'
<1>1. op \in Requests /\ op # NoRequest
  BY DEF ScopeInv, TypeOK, PassPreflight
<1>3. TypeOK'
  BY <1>1, RequestFacts, ScopeAssumption, OutcomeTyped, FinalTyped
     DEF ScopeInv, TypeOK, PassPreflight, opVars, RestorePhases, Phases, Steps,
         Baseline, Clock, Health, Healthy, Uncertain, Poisoned, Creates, MayStart,
         MayEnter, InOrder, InTime
<1>4. BaselineInv'
  BY <1>1, RequestFacts, ScopeAssumption
     DEF ScopeInv, TypeOK, BaselineInv, PhaseInv, PassPreflight, opVars, Creates,
         MayStart, MayEnter, InOrder, InTime
<1>5. PhaseInv'
  BY <1>1, RequestFacts, ScopeAssumption
     DEF ScopeInv, TypeOK, BaselineInv, PhaseInv, Writes, Cleanup, PassPreflight,
         opVars, RestorePhases, Phases, Steps, Baseline, Clock, Creates, MayStart,
         MayEnter, InOrder, InTime
<1>6. DeviceInv'
  BY <1>1, RequestFacts, ScopeAssumption
     DEF ScopeInv, TypeOK, BaselineInv, PhaseInv, DeviceInv, Writes, Settled, Wanted,
         FinalHealth, Health, Healthy, Uncertain, Poisoned, PassPreflight, opVars,
         Creates, MayStart, MayEnter, InOrder, InTime
<1>7. ResultInv'
  BY <1>1, RequestFacts, ScopeAssumption
     DEF ScopeInv, TypeOK, PhaseInv, ResultInv, FinalHealth, Health, Healthy,
         Uncertain, Poisoned, PassPreflight, opVars, Creates, MayStart, MayEnter,
         InOrder, InTime
<1> QED
  BY <1>3, <1>4, <1>5, <1>6, <1>7 DEF ScopeInv

\* FailPreflight keeps the invariant.
LEMMA InvFailPreflight ==
    ASSUME ScopeInv, FailPreflight
    PROVE  ScopeInv'
<1>1. op \in Requests /\ op # NoRequest
  BY DEF ScopeInv, TypeOK, FailPreflight
<1>3. TypeOK'
  BY <1>1, RequestFacts, ScopeAssumption, OutcomeTyped, FinalTyped
     DEF ScopeInv, TypeOK, FailPreflight, opVars, RestorePhases, Phases, Steps,
         Baseline, Clock, Health, Healthy, Uncertain, Poisoned, Attempted, MayStart,
         MayEnter, InOrder, InTime
<1>4. BaselineInv'
  BY <1>1, RequestFacts, ScopeAssumption
     DEF ScopeInv, TypeOK, BaselineInv, PhaseInv, FailPreflight, opVars, Attempted,
         MayStart, MayEnter, InOrder, InTime
<1>5. PhaseInv'
  BY <1>1, RequestFacts, ScopeAssumption
     DEF ScopeInv, TypeOK, BaselineInv, PhaseInv, Writes, Cleanup, FailPreflight,
         opVars, RestorePhases, Phases, Steps, Baseline, Clock, Attempted, MayStart,
         MayEnter, InOrder, InTime
<1>6. DeviceInv'
  BY <1>1, RequestFacts, ScopeAssumption
     DEF ScopeInv, TypeOK, BaselineInv, PhaseInv, DeviceInv, Writes, Settled, Wanted,
         FinalHealth, Health, Healthy, Uncertain, Poisoned, FailPreflight, opVars,
         Attempted, MayStart, MayEnter, InOrder, InTime
<1>7. ResultInv'
  BY <1>1, RequestFacts, ScopeAssumption
     DEF ScopeInv, TypeOK, PhaseInv, ResultInv, FinalHealth, Health, Healthy,
         Uncertain, Poisoned, FailPreflight, opVars, Attempted, MayStart, MayEnter,
         InOrder, InTime
<1> QED
  BY <1>3, <1>4, <1>5, <1>6, <1>7 DEF ScopeInv

\* PassCheck keeps the invariant.
LEMMA InvPassCheck ==
    ASSUME ScopeInv, PassCheck
    PROVE  ScopeInv'
<1>1. op \in Requests /\ op # NoRequest
  BY DEF ScopeInv, TypeOK, PassCheck
<1>3. TypeOK'
  BY <1>1, RequestFacts, ScopeAssumption, OutcomeTyped, FinalTyped
     DEF ScopeInv, TypeOK, PassCheck, opVars, RestorePhases, Phases, Steps, Baseline,
         Clock, Health, Healthy, Uncertain, Poisoned, CheckPhase, MayStart, MayEnter,
         InOrder, InTime
<1>4. BaselineInv'
  BY <1>1, RequestFacts, ScopeAssumption
     DEF ScopeInv, TypeOK, BaselineInv, PhaseInv, PassCheck, opVars, CheckPhase,
         MayStart, MayEnter, InOrder, InTime
<1>5. PhaseInv'
  BY <1>1, RequestFacts, ScopeAssumption
     DEF ScopeInv, TypeOK, BaselineInv, PhaseInv, Writes, Cleanup, PassCheck, opVars,
         RestorePhases, Phases, Steps, Baseline, Clock, CheckPhase, MayStart, MayEnter,
         InOrder, InTime
<1>6. DeviceInv'
  BY <1>1, RequestFacts, ScopeAssumption
     DEF ScopeInv, TypeOK, BaselineInv, PhaseInv, DeviceInv, Writes, Settled, Wanted,
         FinalHealth, Health, Healthy, Uncertain, Poisoned, PassCheck, opVars,
         CheckPhase, MayStart, MayEnter, InOrder, InTime
<1>7. ResultInv'
  BY <1>1, RequestFacts, ScopeAssumption
     DEF ScopeInv, TypeOK, PhaseInv, ResultInv, FinalHealth, Health, Healthy,
         Uncertain, Poisoned, PassCheck, opVars, CheckPhase, MayStart, MayEnter,
         InOrder, InTime
<1> QED
  BY <1>3, <1>4, <1>5, <1>6, <1>7 DEF ScopeInv

\* FailCheck keeps the invariant.
LEMMA InvFailCheck ==
    ASSUME ScopeInv, FailCheck
    PROVE  ScopeInv'
<1>1. op \in Requests /\ op # NoRequest
  BY DEF ScopeInv, TypeOK, FailCheck
<1>3. TypeOK'
  BY <1>1, RequestFacts, ScopeAssumption, OutcomeTyped, FinalTyped
     DEF ScopeInv, TypeOK, FailCheck, opVars, RestorePhases, Phases, Steps, Baseline,
         Clock, Health, Healthy, Uncertain, Poisoned, CheckPhase, Attempted, MayStart,
         MayEnter, InOrder, InTime
<1>4. BaselineInv'
  BY <1>1, RequestFacts, ScopeAssumption
     DEF ScopeInv, TypeOK, BaselineInv, PhaseInv, FailCheck, opVars, CheckPhase,
         Attempted, MayStart, MayEnter, InOrder, InTime
<1>5. PhaseInv'
  BY <1>1, RequestFacts, ScopeAssumption
     DEF ScopeInv, TypeOK, BaselineInv, PhaseInv, Writes, Cleanup, FailCheck, opVars,
         RestorePhases, Phases, Steps, Baseline, Clock, CheckPhase, Attempted,
         MayStart, MayEnter, InOrder, InTime
<1>6. DeviceInv'
  BY <1>1, RequestFacts, ScopeAssumption
     DEF ScopeInv, TypeOK, BaselineInv, PhaseInv, DeviceInv, Writes, Settled, Wanted,
         FinalHealth, Health, Healthy, Uncertain, Poisoned, FailCheck, opVars,
         CheckPhase, Attempted, MayStart, MayEnter, InOrder, InTime
<1>7. ResultInv'
  BY <1>1, RequestFacts, ScopeAssumption
     DEF ScopeInv, TypeOK, PhaseInv, ResultInv, FinalHealth, Health, Healthy,
         Uncertain, Poisoned, FailCheck, opVars, CheckPhase, Attempted, MayStart,
         MayEnter, InOrder, InTime
<1> QED
  BY <1>3, <1>4, <1>5, <1>6, <1>7 DEF ScopeInv

\* Main keeps the invariant.
LEMMA InvMain ==
    ASSUME ScopeInv, Main
    PROVE  ScopeInv'
<1>1. op \in Requests /\ op # NoRequest
  BY DEF ScopeInv, TypeOK, Main
<1>2. pc' \in Steps /\ used' \in SUBSET Phases
  BY DEF ScopeInv, TypeOK, Main, AfterMain, Steps, Phases
<1>8. device' \in Settings /\ touched' \in BOOLEAN
  BY <1>1, RequestFacts DEF ScopeInv, TypeOK, Main
<1>10. health' \in Health
  BY OutcomeTyped DEF ScopeInv, TypeOK, Main, Phases
<1>9. (pc' = "idle") = (op' = NoRequest)
  BY <1>1 DEF Main, AfterMain
<1>3. TypeOK'
  BY <1>2, <1>8, <1>9, <1>10 DEF ScopeInv, TypeOK, Main
<1>4. BaselineInv'
  BY <1>1, RequestFacts, ScopeAssumption
     DEF ScopeInv, TypeOK, BaselineInv, PhaseInv, Main, opVars, AfterMain, MayStart,
         MayEnter, InOrder, InTime
<1>5. PhaseInv'
  BY <1>1, RequestFacts, ScopeAssumption
     DEF ScopeInv, TypeOK, BaselineInv, PhaseInv, Writes, Cleanup, Main, opVars,
         RestorePhases, Phases, Steps, Baseline, Clock, AfterMain, MayStart, MayEnter,
         InOrder, InTime
<1>11. pc' \in {"after", "settle"}
  BY DEF Main, AfterMain
<1>12. UNCHANGED <<op, snap, baseline, failed>>
  BY DEF Main
<1>6. DeviceInv'
  <2> SUFFICES ASSUME ~touched' PROVE DeviceInv'
    BY DEF DeviceInv
  <2>1. ~Writes => device' = snap'
    BY <1>12 DEF ScopeInv, DeviceInv, Main
  <2>2. ~failed /\ ~Contract[op.kind].lends => Settled'
    <3> SUFFICES ASSUME ~failed, ~Contract[op.kind].lends PROVE Settled'
      OBVIOUS
    <3>1. CASE Writes
      <4>1. device' = op.asked
        BY <3>1 DEF Main
      <4>2. Contract[op.kind].baseline # "never"
        BY <3>1 DEF ScopeInv, BaselineInv, Writes
      <4> QED
        BY <1>12, <4>1, <4>2 DEF Settled
    <3>2. CASE ~Writes
      <4>1. device' = snap /\ baseline = "none" /\ Contract[op.kind].baseline # "stop"
        BY <1>12, <2>1, <3>2 DEF Writes
      <4>2. Contract[op.kind].baseline \in {"on_change", "never"}
        BY <1>1, <4>1, RequestFacts DEF ScopeInv, BaselineInv, Main
      <4>3. CASE Contract[op.kind].baseline = "on_change"
        BY <1>12, <4>1, <4>3 DEF ScopeInv, BaselineInv, Main, Settled
      <4>4. CASE Contract[op.kind].baseline = "never"
        BY <1>1, <1>12, <4>1, <4>4, RequestFacts DEF Settled, Wanted
      <4> QED
        BY <4>2, <4>3, <4>4
    <3> QED
      BY <3>1, <3>2
  <2> QED
    BY <1>11, <1>12, <2>1, <2>2 DEF DeviceInv, Writes
<1>7. ResultInv'
  BY <1>1, RequestFacts, ScopeAssumption
     DEF ScopeInv, TypeOK, PhaseInv, ResultInv, FinalHealth, Health, Healthy,
         Uncertain, Poisoned, Main, opVars, AfterMain, MayStart, MayEnter, InOrder,
         InTime
<1> QED
  BY <1>3, <1>4, <1>5, <1>6, <1>7 DEF ScopeInv

\* FailMain keeps the invariant.
LEMMA InvFailMain ==
    ASSUME ScopeInv, FailMain
    PROVE  ScopeInv'
<1>1. op \in Requests /\ op # NoRequest
  BY DEF ScopeInv, TypeOK, FailMain
<1>3. TypeOK'
  BY <1>1, RequestFacts, ScopeAssumption, OutcomeTyped, FinalTyped
     DEF ScopeInv, TypeOK, FailMain, opVars, RestorePhases, Phases, Steps, Baseline,
         Clock, Health, Healthy, Uncertain, Poisoned, MayStart, MayEnter, InOrder,
         InTime
<1>4. BaselineInv'
  BY <1>1, RequestFacts, ScopeAssumption
     DEF ScopeInv, TypeOK, BaselineInv, PhaseInv, FailMain, opVars, MayStart, MayEnter,
         InOrder, InTime
<1>5. PhaseInv'
  BY <1>1, RequestFacts, ScopeAssumption
     DEF ScopeInv, TypeOK, BaselineInv, PhaseInv, Writes, Cleanup, FailMain, opVars,
         RestorePhases, Phases, Steps, Baseline, Clock, MayStart, MayEnter, InOrder,
         InTime
<1>6. DeviceInv'
  BY <1>1, RequestFacts, ScopeAssumption
     DEF ScopeInv, TypeOK, BaselineInv, PhaseInv, DeviceInv, Writes, Settled, Wanted,
         FinalHealth, Health, Healthy, Uncertain, Poisoned, FailMain, opVars, MayStart,
         MayEnter, InOrder, InTime
<1>7. ResultInv'
  BY <1>1, RequestFacts, ScopeAssumption
     DEF ScopeInv, TypeOK, PhaseInv, ResultInv, FinalHealth, Health, Healthy,
         Uncertain, Poisoned, FailMain, opVars, MayStart, MayEnter, InOrder, InTime
<1> QED
  BY <1>3, <1>4, <1>5, <1>6, <1>7 DEF ScopeInv

\* RefuseMain keeps the invariant.
LEMMA InvRefuseMain ==
    ASSUME ScopeInv, RefuseMain
    PROVE  ScopeInv'
<1>1. op \in Requests /\ op # NoRequest
  BY DEF ScopeInv, TypeOK, RefuseMain
<1>3. TypeOK'
  BY <1>1, RequestFacts, ScopeAssumption, OutcomeTyped, FinalTyped
     DEF ScopeInv, TypeOK, RefuseMain, opVars, RestorePhases, Phases, Steps, Baseline,
         Clock, Health, Healthy, Uncertain, Poisoned
<1>4. BaselineInv'
  BY <1>1, RequestFacts, ScopeAssumption
     DEF ScopeInv, TypeOK, BaselineInv, PhaseInv, RefuseMain, opVars
<1>5. PhaseInv'
  BY <1>1, RequestFacts, ScopeAssumption
     DEF ScopeInv, TypeOK, BaselineInv, PhaseInv, Writes, Cleanup, RefuseMain, opVars,
         RestorePhases, Phases, Steps, Baseline, Clock
<1>6. DeviceInv'
  BY <1>1, RequestFacts, ScopeAssumption
     DEF ScopeInv, TypeOK, BaselineInv, PhaseInv, DeviceInv, Writes, Settled, Wanted,
         FinalHealth, Health, Healthy, Uncertain, Poisoned, RefuseMain, opVars
<1>7. ResultInv'
  BY <1>1, RequestFacts, ScopeAssumption
     DEF ScopeInv, TypeOK, PhaseInv, ResultInv, FinalHealth, Health, Healthy,
         Uncertain, Poisoned, RefuseMain, opVars
<1> QED
  BY <1>3, <1>4, <1>5, <1>6, <1>7 DEF ScopeInv

\* Settle keeps the invariant.
LEMMA InvSettle ==
    ASSUME ScopeInv, Settle
    PROVE  ScopeInv'
<1>1. op \in Requests /\ op # NoRequest
  BY DEF ScopeInv, TypeOK, Settle
<1>2. /\ health' \in Health /\ pc' \in Steps /\ baseline' \in Baseline /\ required' \in BOOLEAN
      /\ pc' # "idle"
  <2>1. CASE Cleans
    BY <2>1 DEF ScopeInv, TypeOK, Settle, Conservative, Health, Healthy, Uncertain,
       Poisoned, Steps
  <2>2. CASE ~Cleans
    BY <2>2 DEF ScopeInv, TypeOK, Settle, Steps, Baseline
  <2> QED
    BY <2>1, <2>2
<1>3. TypeOK'
  BY <1>1, <1>2 DEF ScopeInv, TypeOK, Settle
<1>4. BaselineInv'
  BY <1>1, RequestFacts, ScopeAssumption
     DEF ScopeInv, TypeOK, BaselineInv, PhaseInv, Settle, opVars, Cleans, Conservative
<1>5. PhaseInv'
  BY <1>1, RequestFacts, ScopeAssumption
     DEF ScopeInv, TypeOK, BaselineInv, PhaseInv, Writes, Cleanup, Settle, opVars,
         RestorePhases, Phases, Steps, Baseline, Clock, Cleans, Conservative
<1>6. DeviceInv'
  BY <1>1, RequestFacts, ScopeAssumption
     DEF ScopeInv, TypeOK, BaselineInv, PhaseInv, DeviceInv, Writes, Settled, Wanted,
         FinalHealth, Health, Healthy, Uncertain, Poisoned, Settle, opVars, Cleans,
         Conservative
<1>8. UNCHANGED <<op, used, failed, verified>> /\ pc = "settle" /\ pc' \in {"restore", "complete"}
  BY DEF Settle
<1>9. ASSUME ~failed, Contract[op.kind].lends, pc' = "complete"
      PROVE  ~required' /\ health' = Poisoned
  <2>1. "main" \in used /\ Writes
    BY <1>1, <1>8, <1>9, RequestFacts DEF ScopeInv, ResultInv, BaselineInv, Writes
  <2> QED
    BY <1>8, <1>9, <2>1 DEF Settle, Cleans, ScopeInv, PhaseInv
<1>7. ResultInv'
  BY <1>8, <1>9 DEF ScopeInv, ResultInv, FinalHealth, Poisoned, Uncertain
<1> QED
  BY <1>3, <1>4, <1>5, <1>6, <1>7 DEF ScopeInv

\* Restore keeps the invariant.
LEMMA InvRestore ==
    ASSUME ScopeInv, NEW ok \in BOOLEAN, Restore(ok)
    PROVE  ScopeInv'
<1>1. op \in Requests /\ op # NoRequest
  BY DEF ScopeInv, TypeOK, Restore
<1>2. RestorePhase \in Phases
  BY DEF RestorePhase, RestorePhases, Phases
<1>8. pc' \in Steps /\ used' \in SUBSET Phases
  BY <1>2 DEF ScopeInv, TypeOK, Restore, Steps
<1>9. health' \in Health /\ failed' \in BOOLEAN
  BY <1>2, OutcomeTyped DEF ScopeInv, TypeOK, Restore
<1>10. baseline' \in Baseline /\ (pc' = "idle") = (op' = NoRequest)
  BY <1>1 DEF Restore, Baseline
<1>3. TypeOK'
  BY <1>8, <1>9, <1>10 DEF ScopeInv, TypeOK, Restore
<1>4. BaselineInv'
  BY <1>1, RequestFacts, ScopeAssumption
     DEF ScopeInv, TypeOK, BaselineInv, PhaseInv, Restore, opVars, RestorePhase,
         MayStart, MayEnter, InOrder, InTime
<1>5. PhaseInv'
  BY <1>1, RequestFacts, ScopeAssumption
     DEF ScopeInv, TypeOK, BaselineInv, PhaseInv, Writes, Cleanup, Restore, opVars,
         RestorePhases, Phases, Steps, Baseline, Clock, RestorePhase, MayStart,
         MayEnter, InOrder, InTime
<1>11. required /\ ~verified /\ (failed \/ Contract[op.kind].lends) /\ "main" \in used
  BY DEF ScopeInv, PhaseInv, Restore
<1>12. required' = required /\ verified' = verified /\ op' = op
  BY DEF Restore
<1>13. FinalHealth(required, baseline, verified, health)' = Poisoned
  BY <1>11, <1>12 DEF FinalHealth
<1>14. pc' \in {"complete", "verify"}
  BY DEF Restore
<1>6. DeviceInv'
  BY <1>11, <1>12, <1>13, <1>14 DEF DeviceInv, Restore
<1>15. ~failed' => ~failed
  BY DEF ScopeInv, TypeOK, Restore
<1>16. pc = "restore" /\ used \subseteq used'
  BY DEF Restore
<1>7. ResultInv'
  BY <1>11, <1>12, <1>13, <1>14, <1>15, <1>16
     DEF ScopeInv, ResultInv, Poisoned, Uncertain
<1> QED
  BY <1>3, <1>4, <1>5, <1>6, <1>7 DEF ScopeInv

\* RefuseRestore keeps the invariant.
LEMMA InvRefuseRestore ==
    ASSUME ScopeInv, RefuseRestore
    PROVE  ScopeInv'
<1>1. op \in Requests /\ op # NoRequest
  BY DEF ScopeInv, TypeOK, RefuseRestore
<1>3. TypeOK'
  BY <1>1, RequestFacts, ScopeAssumption, OutcomeTyped, FinalTyped
     DEF ScopeInv, TypeOK, RefuseRestore, opVars, RestorePhases, Phases, Steps,
         Baseline, Clock, Health, Healthy, Uncertain, Poisoned, RestorePhase, MayStart,
         MayEnter, InOrder, InTime
<1>4. BaselineInv'
  BY <1>1, RequestFacts, ScopeAssumption
     DEF ScopeInv, TypeOK, BaselineInv, PhaseInv, RefuseRestore, opVars, RestorePhase,
         MayStart, MayEnter, InOrder, InTime
<1>5. PhaseInv'
  BY <1>1, RequestFacts, ScopeAssumption
     DEF ScopeInv, TypeOK, BaselineInv, PhaseInv, Writes, Cleanup, RefuseRestore,
         opVars, RestorePhases, Phases, Steps, Baseline, Clock, RestorePhase, MayStart,
         MayEnter, InOrder, InTime
<1>6. DeviceInv'
  BY <1>1, RequestFacts, ScopeAssumption
     DEF ScopeInv, TypeOK, BaselineInv, PhaseInv, DeviceInv, Writes, Settled, Wanted,
         FinalHealth, Health, Healthy, Uncertain, Poisoned, RefuseRestore, opVars,
         RestorePhase, MayStart, MayEnter, InOrder, InTime
<1>7. ResultInv'
  BY <1>1, RequestFacts, ScopeAssumption
     DEF ScopeInv, TypeOK, PhaseInv, ResultInv, FinalHealth, Health, Healthy,
         Uncertain, Poisoned, RefuseRestore, opVars, RestorePhase, MayStart, MayEnter,
         InOrder, InTime
<1> QED
  BY <1>3, <1>4, <1>5, <1>6, <1>7 DEF ScopeInv

\* Verify keeps the invariant.
LEMMA InvVerify ==
    ASSUME ScopeInv, Verify
    PROVE  ScopeInv'
<1>1. op \in Requests /\ op # NoRequest
  BY DEF ScopeInv, TypeOK, Verify, MayVerify
<1>3. TypeOK'
  BY <1>1, RequestFacts, ScopeAssumption, OutcomeTyped, FinalTyped
     DEF ScopeInv, TypeOK, Verify, opVars, RestorePhases, Phases, Steps, Baseline,
         Clock, Health, Healthy, Uncertain, Poisoned, MayVerify, Wanted, MayStart,
         MayEnter, InOrder, InTime
<1>4. BaselineInv'
  BY <1>1, RequestFacts, ScopeAssumption
     DEF ScopeInv, TypeOK, BaselineInv, PhaseInv, Verify, opVars, MayVerify, Wanted,
         MayStart, MayEnter, InOrder, InTime
<1>5. PhaseInv'
  BY <1>1, RequestFacts, ScopeAssumption
     DEF ScopeInv, TypeOK, BaselineInv, PhaseInv, Writes, Cleanup, Verify, opVars,
         RestorePhases, Phases, Steps, Baseline, Clock, MayVerify, Wanted, MayStart,
         MayEnter, InOrder, InTime
<1>6. DeviceInv'
  BY <1>1, RequestFacts, ScopeAssumption
     DEF ScopeInv, TypeOK, BaselineInv, PhaseInv, DeviceInv, Writes, Settled, Wanted,
         FinalHealth, Health, Healthy, Uncertain, Poisoned, Verify, opVars, MayVerify,
         MayStart, MayEnter, InOrder, InTime
<1>7. ResultInv'
  BY <1>1, RequestFacts, ScopeAssumption
     DEF ScopeInv, TypeOK, PhaseInv, ResultInv, FinalHealth, Health, Healthy,
         Uncertain, Poisoned, Verify, opVars, MayVerify, Wanted, MayStart, MayEnter,
         InOrder, InTime
<1> QED
  BY <1>3, <1>4, <1>5, <1>6, <1>7 DEF ScopeInv

\* FailVerify keeps the invariant.
LEMMA InvFailVerify ==
    ASSUME ScopeInv, FailVerify
    PROVE  ScopeInv'
<1>1. op \in Requests /\ op # NoRequest
  BY DEF ScopeInv, TypeOK, FailVerify
<1>3. TypeOK'
  BY <1>1, RequestFacts, ScopeAssumption, OutcomeTyped, FinalTyped
     DEF ScopeInv, TypeOK, FailVerify, opVars, RestorePhases, Phases, Steps, Baseline,
         Clock, Health, Healthy, Uncertain, Poisoned, MayVerify, Attempted, MayStart,
         MayEnter, InOrder, InTime
<1>4. BaselineInv'
  BY <1>1, RequestFacts, ScopeAssumption
     DEF ScopeInv, TypeOK, BaselineInv, PhaseInv, FailVerify, opVars, MayVerify,
         Attempted, MayStart, MayEnter, InOrder, InTime
<1>5. PhaseInv'
  BY <1>1, RequestFacts, ScopeAssumption
     DEF ScopeInv, TypeOK, BaselineInv, PhaseInv, Writes, Cleanup, FailVerify, opVars,
         RestorePhases, Phases, Steps, Baseline, Clock, MayVerify, Attempted, MayStart,
         MayEnter, InOrder, InTime
<1>6. DeviceInv'
  BY <1>1, RequestFacts, ScopeAssumption
     DEF ScopeInv, TypeOK, BaselineInv, PhaseInv, DeviceInv, Writes, Settled, Wanted,
         FinalHealth, Health, Healthy, Uncertain, Poisoned, FailVerify, opVars,
         MayVerify, Attempted, MayStart, MayEnter, InOrder, InTime
<1>7. ResultInv'
  BY <1>1, RequestFacts, ScopeAssumption
     DEF ScopeInv, TypeOK, PhaseInv, ResultInv, FinalHealth, Health, Healthy,
         Uncertain, Poisoned, FailVerify, opVars, MayVerify, Attempted, MayStart,
         MayEnter, InOrder, InTime
<1> QED
  BY <1>3, <1>4, <1>5, <1>6, <1>7 DEF ScopeInv

\* Complete keeps the invariant.
LEMMA InvComplete ==
    ASSUME ScopeInv, Complete
    PROVE  ScopeInv'
<1>1. op \in Requests /\ op # NoRequest
  BY DEF ScopeInv, TypeOK, Complete
<1>0. op' \in Requests \union {NoRequest}
  BY <1>1 DEF Complete, opVars
<1>2. health' \in Health
  BY FinalTyped DEF ScopeInv, TypeOK, Complete
<1>8. moves' \in 0..MaxMoves
  BY ScopeAssumption DEF Complete
<1>9. used' \in SUBSET Phases /\ clock' \in Clock /\ baseline' \in Baseline /\ pc' \in Steps
  BY DEF Complete, Clock, Baseline, Steps
<1>3. TypeOK'
  BY <1>0, <1>2, <1>8, <1>9 DEF ScopeInv, TypeOK, Complete
<1>4. BaselineInv'
  BY <1>1, RequestFacts, ScopeAssumption
     DEF ScopeInv, TypeOK, BaselineInv, PhaseInv, Complete, opVars
<1>5. PhaseInv'
  BY <1>1, RequestFacts, ScopeAssumption
     DEF ScopeInv, TypeOK, BaselineInv, PhaseInv, Writes, Cleanup, Complete, opVars,
         RestorePhases, Phases, Steps, Baseline, Clock
<1>6. DeviceInv'
  BY <1>1, RequestFacts, ScopeAssumption
     DEF ScopeInv, TypeOK, BaselineInv, PhaseInv, DeviceInv, Writes, Settled, Wanted,
         FinalHealth, Health, Healthy, Uncertain, Poisoned, Complete, opVars
<1>7. ResultInv'
  BY <1>1, RequestFacts, ScopeAssumption
     DEF ScopeInv, TypeOK, PhaseInv, ResultInv, FinalHealth, Health, Healthy,
         Uncertain, Poisoned, Complete, opVars
<1> QED
  BY <1>3, <1>4, <1>5, <1>6, <1>7 DEF ScopeInv

\* Tick keeps the invariant.
LEMMA InvTick ==
    ASSUME ScopeInv, Tick
    PROVE  ScopeInv'
<1>1. op \in Requests /\ op # NoRequest
  BY DEF ScopeInv, TypeOK, Tick
<1>3. TypeOK'
  BY <1>1, RequestFacts, ScopeAssumption, OutcomeTyped, FinalTyped
     DEF ScopeInv, TypeOK, Tick, opVars, RestorePhases, Phases, Steps, Baseline, Clock,
         Health, Healthy, Uncertain, Poisoned
<1>4. BaselineInv'
  BY <1>1, RequestFacts, ScopeAssumption
     DEF ScopeInv, TypeOK, BaselineInv, PhaseInv, Tick, opVars
<1>5. PhaseInv'
  BY <1>1, RequestFacts, ScopeAssumption
     DEF ScopeInv, TypeOK, BaselineInv, PhaseInv, Writes, Cleanup, Tick, opVars,
         RestorePhases, Phases, Steps, Baseline, Clock
<1>6. DeviceInv'
  BY <1>1, RequestFacts, ScopeAssumption
     DEF ScopeInv, TypeOK, BaselineInv, PhaseInv, DeviceInv, Writes, Settled, Wanted,
         FinalHealth, Health, Healthy, Uncertain, Poisoned, Tick, opVars
<1>7. ResultInv'
  BY <1>1, RequestFacts, ScopeAssumption
     DEF ScopeInv, TypeOK, PhaseInv, ResultInv, FinalHealth, Health, Healthy,
         Uncertain, Poisoned, Tick, opVars
<1> QED
  BY <1>3, <1>4, <1>5, <1>6, <1>7 DEF ScopeInv

\* UsePanel keeps the invariant.
LEMMA InvUsePanel ==
    ASSUME ScopeInv, UsePanel
    PROVE  ScopeInv'
<1>1. op \in Requests /\ op # NoRequest
  BY DEF ScopeInv, TypeOK, UsePanel
<1>3. TypeOK'
  BY <1>1, RequestFacts, ScopeAssumption, OutcomeTyped, FinalTyped
     DEF ScopeInv, TypeOK, UsePanel, opVars, RestorePhases, Phases, Steps, Baseline,
         Clock, Health, Healthy, Uncertain, Poisoned
<1>4. BaselineInv'
  BY <1>1, RequestFacts, ScopeAssumption
     DEF ScopeInv, TypeOK, BaselineInv, PhaseInv, UsePanel, opVars
<1>5. PhaseInv'
  BY <1>1, RequestFacts, ScopeAssumption
     DEF ScopeInv, TypeOK, BaselineInv, PhaseInv, Writes, Cleanup, UsePanel, opVars,
         RestorePhases, Phases, Steps, Baseline, Clock
<1>6. DeviceInv'
  BY <1>1, RequestFacts, ScopeAssumption
     DEF ScopeInv, TypeOK, BaselineInv, PhaseInv, DeviceInv, Writes, Settled, Wanted,
         FinalHealth, Health, Healthy, Uncertain, Poisoned, UsePanel, opVars
<1>7. ResultInv'
  BY <1>1, RequestFacts, ScopeAssumption
     DEF ScopeInv, TypeOK, PhaseInv, ResultInv, FinalHealth, Health, Healthy,
         Uncertain, Poisoned, UsePanel, opVars
<1> QED
  BY <1>3, <1>4, <1>5, <1>6, <1>7 DEF ScopeInv

\* Reopen keeps the invariant.
LEMMA InvReopen ==
    ASSUME ScopeInv, Reopen
    PROVE  ScopeInv'
<1>3. TypeOK'
  BY ScopeAssumption, OutcomeTyped, FinalTyped
     DEF ScopeInv, TypeOK, Reopen, opVars, RestorePhases, Phases, Steps, Baseline,
         Clock, Health, Healthy, Uncertain, Poisoned
<1>4. BaselineInv'
  BY ScopeAssumption
     DEF ScopeInv, TypeOK, BaselineInv, PhaseInv, Reopen, opVars
<1>5. PhaseInv'
  BY ScopeAssumption
     DEF ScopeInv, TypeOK, BaselineInv, PhaseInv, Writes, Cleanup, Reopen, opVars,
         RestorePhases, Phases, Steps, Baseline, Clock
<1>6. DeviceInv'
  BY ScopeAssumption
     DEF ScopeInv, TypeOK, BaselineInv, PhaseInv, DeviceInv, Writes, Settled, Wanted,
         FinalHealth, Health, Healthy, Uncertain, Poisoned, Reopen, opVars
<1>7. ResultInv'
  BY ScopeAssumption
     DEF ScopeInv, TypeOK, PhaseInv, ResultInv, FinalHealth, Health, Healthy,
         Uncertain, Poisoned, Reopen, opVars
<1> QED
  BY <1>3, <1>4, <1>5, <1>6, <1>7 DEF ScopeInv

-----------------------------------------------------------------------------
(* The theorems.                                                             *)

LEMMA InvInit == Init => ScopeInv
<1> SUFFICES ASSUME Init PROVE ScopeInv
  OBVIOUS
<1>2. moves \in 0..MaxMoves
  BY ScopeAssumption DEF Init
<1>3. used \in SUBSET Phases /\ clock \in Clock /\ baseline \in Baseline /\ pc \in Steps
  BY DEF Init, Clock, Baseline, Steps
<1>1. TypeOK
  BY <1>2, <1>3 DEF Init, TypeOK, Health
<1> QED
  BY <1>1, ScopeAssumption
     DEF Init, ScopeInv, BaselineInv, PhaseInv, DeviceInv, ResultInv

LEMMA InvNext == ScopeInv /\ [Next]_vars => ScopeInv'
<1> SUFFICES ASSUME ScopeInv, [Next]_vars PROVE ScopeInv'
  OBVIOUS
<1>1. CASE \E r \in Requests : Begin(r)
  BY <1>1, InvBegin
<1>2. CASE \E ok \in BOOLEAN : Restore(ok)
  BY <1>2, InvRestore
<1>3. CASE PassPreflight
  BY <1>3, InvPassPreflight
<1>4. CASE FailPreflight
  BY <1>4, InvFailPreflight
<1>5. CASE PassCheck
  BY <1>5, InvPassCheck
<1>6. CASE FailCheck
  BY <1>6, InvFailCheck
<1>7. CASE Main
  BY <1>7, InvMain
<1>8. CASE FailMain
  BY <1>8, InvFailMain
<1>9. CASE RefuseMain
  BY <1>9, InvRefuseMain
<1>10. CASE Settle
  BY <1>10, InvSettle
<1>11. CASE RefuseRestore
  BY <1>11, InvRefuseRestore
<1>12. CASE Verify
  BY <1>12, InvVerify
<1>13. CASE FailVerify
  BY <1>13, InvFailVerify
<1>14. CASE Complete
  BY <1>14, InvComplete
<1>15. CASE Tick
  BY <1>15, InvTick
<1>16. CASE UsePanel
  BY <1>16, InvUsePanel
<1>17. CASE Reopen
  BY <1>17, InvReopen
<1>18. CASE UNCHANGED vars
  BY <1>18 DEF vars, opVars, ScopeInv, TypeOK, BaselineInv, PhaseInv, DeviceInv, ResultInv,
         Writes, Settled, Wanted
<1> QED
  BY <1>1, <1>2, <1>3, <1>4, <1>5, <1>6, <1>7, <1>8, <1>9, <1>10, <1>11, <1>12, <1>13,
     <1>14, <1>15, <1>16, <1>17, <1>18 DEF Next, ServiceStep


\* The inductive invariant of a scope session.
THEOREM ScopeInvariant == Spec => []ScopeInv
<1> QED
  BY InvInit, InvNext, PTL DEF Spec

\* Every variable keeps its type.
THEOREM ScopeTypeCorrect == Spec => []TypeOK
<1>1. ScopeInv => TypeOK
  BY DEF ScopeInv
<1> QED
  BY <1>1, ScopeInvariant, PTL

\* The rules for phases and deadlines never refuse a cleanup of a session that is
\* not poisoned before the last deadline.
THEOREM ScopeCleanupIsForeseen == Spec => []CleanupIsForeseen
<1>1. ASSUME ScopeInv PROVE CleanupIsForeseen
  <2>1. clock # "over" => \A p \in Cleanup : clock \in InTime(p)
    BY <1>1 DEF ScopeInv, TypeOK, Clock, InTime, Cleanup
  <2>2. ASSUME clock # "over", health # Poisoned, pc = "restore" PROVE MayStart(RestorePhase)
    BY <1>1, <2>1, <2>2
       DEF ScopeInv, PhaseInv, Cleanup, MayStart, MayEnter, RestorePhase, InOrder, RestorePhases
  <2>3. ASSUME clock # "over", health # Poisoned, pc = "verify",
               used \intersect RestorePhases # {}
        PROVE  MayVerify
    BY <1>1, <2>1, <2>3
       DEF ScopeInv, PhaseInv, Cleanup, MayVerify, MayStart, MayEnter, InOrder, RestorePhases
  <2> QED
    BY <2>2, <2>3 DEF CleanupIsForeseen
<1> QED
  BY <1>1, ScopeInvariant, PTL

\* Only Complete finishes an operation.
LEMMA FinishedIsComplete ==
    ASSUME ScopeInv, [Next]_vars, Finished
    PROVE  Complete
BY DEF ScopeInv, TypeOK, Finished, Next, ServiceStep, vars, opVars, Begin, PassPreflight,
       FailPreflight, PassCheck, FailCheck, Main, FailMain, RefuseMain, Settle, Restore,
       RefuseRestore, Verify, FailVerify, Tick, UsePanel, Reopen

\* An operation whose main phase was entered ends with the settings where they
\* belong or with the session poisoned.
THEOREM ScopeSettledOrPoisoned == Spec => SettledOrPoisoned
<1> DEFINE Ends == Finished /\ "main" \in used /\ ~touched /\ health' # Poisoned => Settled
<1>1. ScopeInv /\ [Next]_vars => [Ends]_vars
  <2> SUFFICES ASSUME ScopeInv, [Next]_vars, Finished, "main" \in used, ~touched,
                      health' # Poisoned
               PROVE  Settled
    OBVIOUS
  <2>1. Complete
    BY FinishedIsComplete
  <2> QED
    BY <2>1 DEF ScopeInv, DeviceInv, Complete
<1> QED
  BY <1>1, ScopeInvariant, PTL DEF Spec, SettledOrPoisoned

\* An operation that returns a result has done its work, has drained the error
\* queue whenever it was asked to, and leaves the settings as asked; what it had
\* borrowed is back or the session is poisoned, never uncertain.
THEOREM ScopeResultIsTrue == Spec => ResultIsTrue
<1> DEFINE True ==
        /\ "main" \in used
        /\ "before" \in op.checks => "error_before" \in used
        /\ "after" \in op.checks => "error_after" \in used
        /\ touched \/ Settled \/ (Contract[op.kind].lends /\ health' = Poisoned)
        /\ Contract[op.kind].lends => health' # Uncertain
<1>1. ScopeInv /\ [Next]_vars => [Finished /\ ~failed => True]_vars
  <2> SUFFICES ASSUME ScopeInv, [Next]_vars, Finished, ~failed
               PROVE  True
    OBVIOUS
  <2>1. Complete
    BY FinishedIsComplete
  <2>2. /\ "main" \in used
        /\ "before" \in op.checks => "error_before" \in used
        /\ "after" \in op.checks => "error_after" \in used
        /\ Contract[op.kind].lends => health' # Uncertain
    BY <2>1 DEF ScopeInv, ResultInv, Complete, Finished
  <2>3. touched \/ Settled \/ (Contract[op.kind].lends /\ health' = Poisoned)
    BY <2>1, <2>2 DEF ScopeInv, DeviceInv, Complete
  <2> QED
    BY <2>2, <2>3
<1> QED
  BY <1>1, ScopeInvariant, PTL DEF Spec, ResultIsTrue
=============================================================================
