---------------------- MODULE InstrumentSession_proofs ----------------------
(***************************************************************************)
(* Proofs about InstrumentSession, for every set of threads, fields and     *)
(* authorizations and every limit of the binary ledger.                     *)
(***************************************************************************)
EXTENDS InstrumentSession, TLAPS

\* An invalidated ledger is a ledger with the same bytes.
LEMMA InvalidatedLedger ==
    ASSUME NEW l \in Ledger
    PROVE  Invalidated(l) \in Ledger /\ Invalidated(l).remaining = l.remaining
BY LedgerAssumption DEF Invalidated, Ledger

\* A failed exchange leaves a ledger, with no more bytes than before.
LEMMA FailedLedger ==
    ASSUME NEW l \in Ledger, NEW consumed \in Nat, NEW discarded \in Nat,
           NEW proven \in BOOLEAN
    PROVE  /\ Failed(l, consumed, discarded, proven) \in Ledger
           /\ Failed(l, consumed, discarded, proven).remaining <= l.remaining
<1> DEFINE left == IF l.remaining >= consumed THEN l.remaining - consumed ELSE 0
           total == l.discarded + discarded
           d == Debited(l, consumed, discarded)
<1>1. d \in Ledger /\ d.remaining <= l.remaining
  <2>1. left \in 0..OperationMax /\ left <= l.remaining /\ total \in Nat
    BY LedgerAssumption DEF Ledger
  <2>2. d = [l EXCEPT !.remaining = left, !.discarded = total]
    BY DEF Debited
  <2> HIDE DEF left, total, d
  <2> QED
    BY <2>1, <2>2 DEF Ledger
<1> HIDE DEF d
<1>2. [d EXCEPT !.active = FALSE] \in Ledger
      /\ [d EXCEPT !.active = FALSE].remaining = d.remaining
  BY <1>1 DEF Ledger
<1>3. Failed(l, consumed, discarded, proven) \in {d, [d EXCEPT !.active = FALSE]}
  BY DEF Failed, d
<1> QED
  BY <1>1, <1>2, <1>3

USE LedgerAssumption, SessionAssumption, NullAssumption
USE DEF Healthy, Uncertain, Poisoned, Closed, Health, Purposes, Ledger,
        stateVars, guardVars, ghostVars

\* The initial states satisfy the invariant.
LEMMA InitInv == Init => IInv
<1> SUFFICES ASSUME Init PROVE IInv
  OBVIOUS
<1> USE DEF Init
<1>1. TypeOK
  <2>1. health \in Health /\ verified \in SUBSET Fields /\ ledger \in Ledger
    BY DEF FreshLedger
  <2>2. pc \in [Threads -> {"idle", "closing", "releasing"}]
    OBVIOUS
  <2>3. calls \in 0..MaxCalls /\ delivered \in Nat
    OBVIOUS
  <2>4. audit \in [attempts : Nat, completed : Nat, unknown : Nat]
    OBVIOUS
  <2> QED
    BY <2>1, <2>2, <2>3, <2>4 DEF TypeOK
<1>2. LockHeld /\ ChannelConsistent
  BY DEF LockHeld, ChannelConsistent
<1>3. UnprovenBoundaryIsLatched /\ UncertainIoIsAuthorized /\ EvidenceOnlyWhenHealthy
  BY DEF UnprovenBoundaryIsLatched, UncertainIoIsAuthorized, EvidenceOnlyWhenHealthy
<1>5. AuditBalances
  BY DEF AuditBalances
<1>4. BudgetIsRespected
  BY DEF BudgetIsRespected, FreshLedger
<1> QED
  BY <1>1, <1>2, <1>3, <1>4, <1>5 DEF IInv

\* Every step preserves it: one case per action.
LEMMA NextInv == IInv /\ [Next]_vars => IInv'
<1> SUFFICES ASSUME IInv, [Next]_vars PROVE IInv'
  OBVIOUS
<1> USE DEF IInv, TypeOK, LockHeld, ChannelConsistent, UnprovenBoundaryIsLatched,
            UncertainIoIsAuthorized, EvidenceOnlyWhenHealthy, BudgetIsRespected,
            AuditBalances, AuthType, ExchangeType, GrantType, WriteIo
<1>1. ASSUME NEW t \in Threads, NEW kind \in Kinds, Begin(t, kind) PROVE IInv'
  BY <1>1 DEF Begin, CanLock, Counted, Gate,
         StepSpent, PurposeInForce, Authorized, WriteIo, Attempted
<1>2. ASSUME NEW t \in Threads, NEW requested \in Requests, BeginBinary(t, requested) PROVE IInv'
  BY <1>2 DEF BeginBinary, CanLock, Counted, Gate, StepSpent, PurposeInForce,
         Authorized, CanReserve, Effective, AtMost, Reserved, HasBudget, AuthorizedIo
<1>3. ASSUME NEW t \in Threads, NEW kind \in Kinds, RefusedAfterGate(t, kind) PROVE IInv'
  BY <1>3 DEF RefusedAfterGate, CanLock, Counted, Gate, StepSpent, Authorized
<1>4. ASSUME NEW t \in Threads, Succeed(t) PROVE IInv'
  BY <1>4 DEF Succeed, InFlight, Recorded, Unlock, Done
<1>5. ASSUME NEW t \in Threads, NEW cause \in Causes, Fail(t, cause) PROVE IInv'
  BY <1>5 DEF Fail, InFlight, Degraded, Target, Causes, FailureOnWire, Unlock, Unresolved
<1>6. ASSUME NEW t \in Threads, NEW length \in 0..PerResponseMax, SucceedBinary(t, length) PROVE IInv'
  BY <1>6 DEF SucceedBinary, InFlight, Recorded,
         Unlock, CommitAccepts, Committed, AuthorizedIo
<1>7. ASSUME NEW t \in Threads, ViolateContract(t) PROVE IInv'
  BY <1>7 DEF ViolateContract, InFlight, Degraded, Target,
         FailureOnWire, Unlock, ClosePoisonedBackend, Invalidated
<1>8. ASSUME NEW t \in Threads, NEW cause \in Causes,
             NEW consumed \in 0..PerResponseMax, NEW discarded \in 0..ResyncMax + 1,
             FailBinary(t, cause, consumed, discarded)
      PROVE  IInv'
  <2>1. /\ ledger' \in Ledger
        /\ ledger'.remaining <= ledger.remaining
    <3> HIDE DEF Ledger
    <3>1. ledger' = IF cause = "unstructured" THEN Invalidated(ledger)
                    ELSE Failed(ledger, consumed, discarded, cause # "unproven")
      BY <1>8 DEF FailBinary
    <3>2. /\ Invalidated(ledger) \in Ledger
          /\ Invalidated(ledger).remaining = ledger.remaining
      BY InvalidatedLedger
    <3>5. ledger.remaining <= ledger.remaining
      BY LedgerAssumption DEF Ledger
    <3>3. consumed \in Nat /\ discarded \in Nat
      BY LedgerAssumption
    <3>4. /\ Failed(ledger, consumed, discarded, cause # "unproven") \in Ledger
          /\ Failed(ledger, consumed, discarded, cause # "unproven").remaining
                <= ledger.remaining
      BY <3>3, FailedLedger
    <3> QED
      BY <3>1, <3>2, <3>4, <3>5
  <2>2. /\ health' \in {health, Uncertain, Poisoned}
        /\ cause \in {"unproven", "unstructured"} => health' = Poisoned
        /\ verified' = IF health' = Healthy THEN verified ELSE {}
    BY <1>8 DEF FailBinary, InFlight, Target, Causes, Rank, Degraded
  <2>3. /\ exchange # NoExchange /\ exchange' = NoExchange
        /\ auth' = auth
        /\ owner' = IF auth = NoAuth THEN NoThread ELSE owner
        /\ <<audit, pc, calls, delivered, retired>>' = <<audit, pc, calls, delivered, retired>>
        /\ boundary' = IF cause \in {"unproven", "unstructured"} THEN "unproven" ELSE boundary
    BY <1>8 DEF FailBinary, InFlight, Unlock, FailureOnWire
  <2>4. \/ /\ closed' /\ backend' = "closed" /\ health' = Poisoned
           /\ lease' \in {"released", lease}
           /\ latched' = latched
        \/ <<closed, latched, backend, lease>>' = <<closed, latched, backend, lease>>
    BY <1>8 DEF FailBinary, ClosePoisonedBackend, Degraded
  <2>5. TypeOK'
    BY <2>1, <2>2, <2>3, <2>4
  <2>6. LockHeld' /\ UncertainIoIsAuthorized' /\ EvidenceOnlyWhenHealthy'
    BY <2>2, <2>3
  <2>7. ChannelConsistent'
    BY <2>2, <2>3, <2>4
  <2>8. ~Interrupts => UnprovenBoundaryIsLatched' /\ AuditBalances'
    BY <1>8, <2>2, <2>3 DEF FailBinary, InFlight
  <2>9. BudgetIsRespected'
    BY <2>1, <2>3
  <2> QED
    BY <2>5, <2>6, <2>7, <2>8, <2>9
<1>9. ASSUME NEW t \in Threads, Interrupt(t) PROVE IInv'
  BY <1>9 DEF Interrupt, InFlight, Unlock
<1>10. ASSUME NEW t \in Threads, NEW g \in Grants, Authorize(t, g) PROVE IInv'
  BY <1>10 DEF Authorize, CanLock, Counted
<1>11. CASE Expire
  BY <1>11, ZenonT(60) DEF Expire
<1>12. ASSUME NEW t \in Threads, EndAuthorization(t) PROVE IInv'
  BY <1>12 DEF EndAuthorization
<1>13. ASSUME NEW t \in Threads, NEW kind \in Kinds, NEW fields \in SUBSET Fields, RecordEvidence(t, kind, fields) PROVE IInv'
  BY <1>13 DEF RecordEvidence, Holds
<1>14. ASSUME NEW t \in Threads, CompleteVerification(t) PROVE IInv'
  BY <1>14, ZenonT(60) DEF CompleteVerification, CanComplete, Holds
<1>15. ASSUME NEW t \in Threads, NEW fields \in SUBSET Fields, InvalidateVerified(t, fields) PROVE IInv'
  BY <1>15 DEF InvalidateVerified, CanLock
<1>16. ASSUME NEW t \in Threads, NEW h \in Health, DegradeByService(t, h) PROVE IInv'
  BY <1>16 DEF DegradeByService, CanLock, Degraded, Rank
<1>17. ASSUME NEW t \in Threads, InvalidateLedger(t) PROVE IInv'
  BY <1>17 DEF InvalidateLedger, CanLock, Invalidated
<1>18. ASSUME NEW t \in Threads, ReleaseLatch(t) PROVE IInv'
  BY <1>18 DEF ReleaseLatch, CanLock
<1>19. ASSUME NEW t \in Threads, RequestClose(t) PROVE IInv'
  BY <1>19 DEF RequestClose, Counted
<1>20. ASSUME NEW t \in Threads, CloseAgain(t) PROVE IInv'
  BY <1>20 DEF CloseAgain, CanLock
<1>21. ASSUME NEW t \in Threads, CloseSession(t) PROVE IInv'
  BY <1>21 DEF CloseSession, CanLock, Degraded
<1>22. ASSUME NEW t \in Threads, ReleaseLease(t) PROVE IInv'
  BY <1>22 DEF ReleaseLease
<1>23. CASE UNCHANGED vars
  BY <1>23 DEF vars
<1> QED
  BY <1>1, <1>2, <1>3, <1>4, <1>5, <1>6, <1>7, <1>8, <1>9, <1>10, <1>11, <1>12, <1>13, <1>14, <1>15, <1>16, <1>17, <1>18, <1>19, <1>20, <1>21, <1>22, <1>23, SMTT(30)
     DEF Next, Call, Answer, Coordinate, Close

\* The inductive invariant holds in every reachable state.
THEOREM InvariantHolds == Spec => []IInv
<1> QED
  BY InitInv, NextInv, PTL DEF Spec

\* Every variable keeps its type, whatever the threads, grants and limits.
THEOREM TypeCorrect == Spec => []TypeOK
<1>1. IInv => TypeOK
  BY DEF IInv
<1> QED
  BY <1>1, InvariantHolds, PTL

\* Without a KeyboardInterrupt inside an exchange, an epoch whose response
\* boundary is not proven is poisoned or closed (_transition_after_failure).
THEOREM BoundaryLatched == ASSUME ~Interrupts PROVE Spec => []UnprovenBoundaryIsLatched
<1>1. IInv => UnprovenBoundaryIsLatched
  BY DEF IInv
<1> QED
  BY <1>1, InvariantHolds, PTL

\* Nothing goes out on an uncertain session without an authorization (_gate).
THEOREM UncertainAuthorized == Spec => []UncertainIoIsAuthorized
<1>1. IInv => UncertainIoIsAuthorized
  BY DEF IInv
<1> QED
  BY <1>1, InvariantHolds, PTL

\* The lease is never let go while the backend may still be talking (close,
\* _close_poisoned_backend).
THEOREM LeaseHeldToTheEnd == Spec => []LeaseOutlivesBackend
<1>1. IInv => LeaseOutlivesBackend
  BY DEF IInv, ChannelConsistent, LeaseOutlivesBackend
<1> QED
  BY <1>1, InvariantHolds, PTL

\* Verified fields belong to healthy sessions only (degrade).
THEOREM EvidenceNeedsHealth == Spec => []EvidenceOnlyWhenHealthy
<1>1. IInv => EvidenceOnlyWhenHealthy
  BY DEF IInv
<1> QED
  BY <1>1, InvariantHolds, PTL

\* The operation's byte limit holds across every success and failure
\* (BinaryQueryLedger).
THEOREM BudgetHolds == Spec => []BudgetIsRespected
<1>1. IInv => BudgetIsRespected
  BY DEF IInv
<1> QED
  BY <1>1, InvariantHolds, PTL

\* Without an interrupt inside an exchange, the write counters balance.
THEOREM AuditHolds == ASSUME ~Interrupts PROVE Spec => []AuditBalances
<1>1. IInv => AuditBalances
  BY DEF IInv
<1> QED
  BY <1>1, InvariantHolds, PTL

-----------------------------------------------------------------------------
(* Health improves only by verification.                                     *)

\* In every step but the completion of a verification, health keeps its rank or
\* moves up.
LEMMA OnlyVerificationImproves ==
    ASSUME IInv, [Next]_vars, Rank(health') < Rank(health)
    PROVE  \E t \in Threads : CompleteVerification(t)
<1> USE DEF Rank
<1>1. health \in Health /\ health' \in Health
  BY NextInv DEF IInv, TypeOK
<1>2. ASSUME health' = health PROVE FALSE
  BY <1>1, <1>2
<1>3. ASSUME NEW t \in Threads, Call(t) PROVE FALSE
  BY <1>2, <1>3 DEF Call, Begin, BeginBinary, RefusedAfterGate
<1>4. ASSUME NEW t \in Threads, Answer(t) PROVE FALSE
  <2>0. InFlight(t)
    <3>1. ASSUME NEW cause, NEW consumed, NEW discarded,
                 FailBinary(t, cause, consumed, discarded)
          PROVE  InFlight(t)
      BY <3>1 DEF FailBinary
    <3>2. ASSUME NEW cause, Fail(t, cause) PROVE InFlight(t)
      BY <3>2 DEF Fail
    <3>3. ASSUME NEW length, SucceedBinary(t, length) PROVE InFlight(t)
      BY <3>3 DEF SucceedBinary
    <3>4. Succeed(t) \/ ViolateContract(t) \/ Interrupt(t) => InFlight(t)
      BY DEF Succeed, ViolateContract, Interrupt
    <3> QED
      BY <1>4, <3>1, <3>2, <3>3, <3>4 DEF Answer
  <2>1. exchange # NoExchange /\ health \in {Healthy, Uncertain}
    BY <2>0 DEF InFlight, IInv, ChannelConsistent
  <2>2. CASE Succeed(t) \/ Interrupt(t) \/ \E length \in 0..PerResponseMax : SucceedBinary(t, length)
    BY <1>2, <2>2 DEF Succeed, Interrupt, SucceedBinary
  <2>3. ASSUME NEW cause \in Causes, Fail(t, cause) PROVE FALSE
    BY <1>1, <2>1, <2>3 DEF Fail, Degraded, Target, Causes
  <2>4. CASE ViolateContract(t)
    BY <1>1, <2>1, <2>4 DEF ViolateContract, Degraded, Target
  <2>5. ASSUME NEW cause \in Causes, NEW consumed \in 0..PerResponseMax,
               NEW discarded \in 0..ResyncMax + 1, FailBinary(t, cause, consumed, discarded)
        PROVE  FALSE
    BY <1>1, <2>1, <2>5 DEF FailBinary, Degraded, Target, Causes
  <2> QED
    BY <1>4, <2>2, <2>3, <2>4, <2>5 DEF Answer
<1>5. ASSUME NEW t \in Threads, Coordinate(t), ~CompleteVerification(t) PROVE FALSE
  <2>1. ASSUME NEW h \in Health, DegradeByService(t, h) PROVE FALSE
    BY <1>1, <2>1 DEF DegradeByService, Degraded
  <2> QED
    BY <1>2, <1>5, <2>1 DEF Coordinate, Authorize, RecordEvidence, InvalidateVerified,
       InvalidateLedger, ReleaseLatch
<1>6. ASSUME NEW t \in Threads, EndAuthorization(t) \/ RequestClose(t) \/ Close(t) PROVE FALSE
  <2>1. ASSUME CloseSession(t) PROVE FALSE
    BY <1>1, <2>1 DEF CloseSession, Degraded
  <2> QED
    BY <1>2, <1>6, <2>1 DEF EndAuthorization, RequestClose, Close, CloseAgain, ReleaseLease
<1>7. CASE Expire \/ UNCHANGED vars
  BY <1>2, <1>7 DEF Expire, vars
<1> QED
  BY <1>3, <1>4, <1>5, <1>6, <1>7 DEF Next, Coordinate

\* A session becomes healthy again only from uncertain, by completing a live
\* verification whose fields all have evidence, and exactly those fields are
\* verified then (complete_verification, degrade).
THEOREM HealthImproves == Spec => HealthImprovesOnlyByVerification
<1> DEFINE P == /\ health = Uncertain /\ health' = Healthy
                /\ auth # NoAuth /\ auth.grant.purpose = "verification"
                /\ ~auth.expired /\ ~auth.completed
                /\ auth.grant.fields \subseteq auth.seen
                /\ verified' = auth.grant.fields
<1>1. ASSUME IInv, [Next]_vars, Rank(health') < Rank(health) PROVE P
  <2>1. PICK t \in Threads : CompleteVerification(t)
    BY <1>1, OnlyVerificationImproves
  <2>2. health = Uncertain /\ health' = Healthy
    <3>1. health \in Health
      BY <1>1 DEF IInv, TypeOK
    <3>2. CASE health \in {Healthy, Uncertain}
      BY <1>1, <2>1, <3>2 DEF CompleteVerification, Rank
    <3>3. CASE health \notin {Healthy, Uncertain}
      BY <1>1, <2>1, <3>1, <3>3 DEF CompleteVerification, Rank
    <3> QED
      BY <3>2, <3>3
  <2>3. verified = {}
    BY <1>1, <2>2 DEF IInv, EvidenceOnlyWhenHealthy
  <2> QED
    BY <2>1, <2>2, <2>3 DEF CompleteVerification, CanComplete, Holds
<1>2. IInv /\ [Next]_vars => [Rank(health') < Rank(health) => P]_vars
  BY <1>1
<1> QED
  BY <1>2, InvariantHolds, PTL DEF Spec, HealthImprovesOnlyByVerification

-----------------------------------------------------------------------------
(* The session implements the connection epoch its services rely on.         *)

\* A fresh session is a fresh epoch.
LEMMA InitRefines == Init => Promise!Init
BY DEF Init, Promise!Init

\* A failed exchange is the epoch's Break.
LEMMA FailureRefines ==
    ASSUME IInv, NEW cause \in Causes, boundary = "proven",
           exchange # NoExchange, exchange' = NoExchange,
           health' \in {health, Uncertain, Poisoned},
           cause \in {"unproven", "unstructured"} => health' = Poisoned,
           verified' = IF health' = Healthy THEN verified ELSE {},
           FailureOnWire(cause),
           \/ ClosePoisonedBackend /\ health' = Poisoned
           \/ UNCHANGED guardVars
    PROVE  Promise!Next
<1> DEFINE h == health'
<1>1. health \in {Healthy, Uncertain} /\ ~closed
  BY DEF IInv, ChannelConsistent
<1>2. h \in {"healthy", "uncertain", "poisoned"}
  BY <1>1
<1>3. Promise!TrustBecomes(h)
  BY <1>1, <1>2 DEF Promise!TrustBecomes, Promise!Falls
<1>4. /\ boundary' \in {boundary, "unproven"}
      /\ boundary' = "unproven" => h = "poisoned"
  BY DEF FailureOnWire
<1>5. \/ closed' = closed /\ lease' = lease
      \/ closed' = TRUE /\ h = "poisoned" /\ lease' \in {lease, "released"}
  BY DEF ClosePoisonedBackend
<1>6. /\ ((~closed)' => ~closed) /\ (~closed /\ ~(~closed)' => h = "poisoned")
      /\ ((lease = "held")' => lease = "held") /\ (lease = "held" /\ ~(lease = "held")' => ~(~closed)')
  BY <1>1, <1>5 DEF IInv, TypeOK
<1>7. Promise!Break(h)
  BY <1>3, <1>4, <1>6 DEF Promise!Break
<1> QED
  BY <1>2, <1>7 DEF Promise!Next

\* Every step of the session is a step of the epoch or leaves it unchanged.
LEMMA StepRefines ==
    ASSUME ~Interrupts, IInv, [Next]_vars
    PROVE  [Promise!Next]_(Promise!vars)
<1> USE DEF Promise!vars
<1>1. exchange # NoExchange => boundary = "proven" /\ ~closed
  BY DEF IInv, TypeOK, UnprovenBoundaryIsLatched, ChannelConsistent
<1>2. ASSUME NEW t \in Threads, NEW kind \in Kinds, Begin(t, kind)
      PROVE  Promise!Send
  <2>1. exchange = NoExchange /\ exchange' # NoExchange
    BY <1>2 DEF Begin, CanLock, ExchangeType, PurposeInForce, IInv, TypeOK, AuthType, GrantType
  <2>2. ~closed /\ health \in {Healthy, Uncertain} /\ boundary = "proven"
    BY <1>2 DEF Begin, Gate, IInv, TypeOK, UnprovenBoundaryIsLatched
  <2> QED
    BY <1>2, <2>1, <2>2 DEF Begin, Promise!Send, Promise!Usable
<1>3. ASSUME NEW t \in Threads, NEW requested \in Requests, BeginBinary(t, requested)
      PROVE  Promise!Send
  <2>1. exchange = NoExchange
    BY <1>3 DEF BeginBinary, CanLock
  <2>2. exchange' # NoExchange
    BY <1>3, NextInv DEF BeginBinary, ExchangeType, PurposeInForce, Effective, AtMost, IInv, TypeOK,
       AuthType, GrantType, AuthorizedIo, HasBudget
  <2>3. ~closed /\ health \in {Healthy, Uncertain} /\ boundary = "proven"
    BY <1>3 DEF BeginBinary, Gate, IInv, TypeOK, UnprovenBoundaryIsLatched
  <2> QED
    BY <1>3, <2>1, <2>2, <2>3 DEF BeginBinary, Promise!Send, Promise!Usable
<1>4. ASSUME NEW t \in Threads, Succeed(t) \/ \E length \in 0..PerResponseMax : SucceedBinary(t, length)
      PROVE  Promise!Reply
  <2>1. exchange # NoExchange /\ exchange' = NoExchange
    BY <1>4 DEF Succeed, SucceedBinary, InFlight
  <2>2. UNCHANGED <<stateVars, guardVars, boundary>>
    BY <1>4 DEF Succeed, SucceedBinary
  <2> QED
    BY <2>1, <2>2 DEF Promise!Reply
<1>5. ASSUME NEW t \in Threads, NEW cause \in Causes, Fail(t, cause)
      PROVE  Promise!Next
  <2>1. exchange # NoExchange /\ exchange' = NoExchange /\ FailureOnWire(cause)
        /\ UNCHANGED guardVars
    BY <1>5 DEF Fail, InFlight
  <2>2. /\ health' \in {health, Uncertain, Poisoned}
        /\ cause \in {"unproven", "unstructured"} => health' = Poisoned
        /\ verified' = IF health' = Healthy THEN verified ELSE {}
    BY <1>5 DEF Fail, Degraded, Target, Causes
  <2> QED
    BY <1>1, <2>1, <2>2, FailureRefines
<1>6. ASSUME NEW t \in Threads, ViolateContract(t)
      PROVE  Promise!Next
  <2>1. exchange # NoExchange /\ exchange' = NoExchange /\ FailureOnWire("unproven")
        /\ ClosePoisonedBackend
    BY <1>6 DEF ViolateContract, InFlight
  <2>2. /\ health' = Poisoned
        /\ verified' = IF health' = Healthy THEN verified ELSE {}
    BY <1>6 DEF ViolateContract, Degraded, Target
  <2>3. "unproven" \in Causes
    BY DEF Causes
  <2> QED
    BY <1>1, <2>1, <2>2, <2>3, FailureRefines
<1>7. ASSUME NEW t \in Threads, NEW cause \in Causes, NEW consumed \in 0..PerResponseMax,
             NEW discarded \in 0..ResyncMax + 1, FailBinary(t, cause, consumed, discarded)
      PROVE  Promise!Next
  <2>1. exchange # NoExchange /\ exchange' = NoExchange /\ FailureOnWire(cause)
    BY <1>7 DEF FailBinary, InFlight
  <2>2. /\ health' \in {health, Uncertain, Poisoned}
        /\ cause \in {"unproven", "unstructured"} => health' = Poisoned
        /\ verified' = IF health' = Healthy THEN verified ELSE {}
    BY <1>7 DEF FailBinary, InFlight, Target, Causes, Rank, Degraded,
                IInv, TypeOK, ChannelConsistent
  <2>3. \/ ClosePoisonedBackend /\ health' = Poisoned
        \/ UNCHANGED guardVars
    BY <1>7 DEF FailBinary, Degraded
  <2> QED
    BY <1>1, <2>1, <2>2, <2>3, FailureRefines
<1>8. ASSUME NEW t \in Threads, CompleteVerification(t)
      PROVE  [Promise!Next]_(Promise!vars)
  <2>1. CASE health \in {Healthy, Uncertain}
    <3>1. auth.grant.fields \in SUBSET Fields
      BY <1>8 DEF CompleteVerification, Holds, IInv, TypeOK, AuthType, GrantType
    <3>2. Promise!Confirm(auth.grant.fields)
      BY <1>8, <2>1 DEF CompleteVerification, Holds, Promise!Confirm, Promise!Usable
    <3> QED
      BY <3>1, <3>2 DEF Promise!Next
  <2>2. CASE health \notin {Healthy, Uncertain}
    BY <1>8, <2>2 DEF CompleteVerification
  <2> QED
    BY <2>1, <2>2
<1>9. ASSUME NEW t \in Threads, NEW fields \in SUBSET Fields, InvalidateVerified(t, fields)
      PROVE  Promise!Next
  <2>1. Promise!Forget(fields)
    BY <1>9 DEF InvalidateVerified, CanLock, Promise!Forget
  <2> QED
    BY <2>1 DEF Promise!Next
<1>10. ASSUME NEW t \in Threads, NEW h \in Health, DegradeByService(t, h)
       PROVE  Promise!Next
  <2>1. h \in {"uncertain", "poisoned"}
    BY <1>10 DEF DegradeByService
  <2>2. Promise!TrustBecomes(h)
    BY <1>10 DEF DegradeByService, Degraded, Rank, IInv, TypeOK,
                 Promise!TrustBecomes, Promise!Falls
  <2>3. Promise!Doubt(h)
    BY <1>10, <2>2 DEF DegradeByService, CanLock, Promise!Doubt
  <2> QED
    BY <2>1, <2>3 DEF Promise!Next
<1>11. ASSUME NEW t \in Threads, CloseSession(t)
       PROVE  Promise!Next
  <2>1. Promise!TrustBecomes("closed")
    BY <1>11 DEF CloseSession, Degraded, IInv, TypeOK, Promise!TrustBecomes, Promise!Falls
  <2>2. Promise!End
    BY <1>11, <2>1 DEF CloseSession, CanLock, Promise!End
  <2> QED
    BY <2>2 DEF Promise!Next
<1>12. ASSUME NEW t \in Threads, ReleaseLease(t)
       PROVE  [Promise!Next]_(Promise!vars)
  <2>1. closed
    BY <1>12 DEF ReleaseLease, IInv, ChannelConsistent
  <2>2. exchange = NoExchange
    BY <1>1, <2>1
  <2> QED
    BY <1>12, <2>1, <2>2 DEF ReleaseLease, Promise!Next, Promise!LetGo
<1>13. ASSUME NEW t \in Threads,
              \/ \E kind \in Kinds : RefusedAfterGate(t, kind)
              \/ \E g \in Grants : Authorize(t, g)
              \/ \E kind \in Kinds, fields \in SUBSET Fields : RecordEvidence(t, kind, fields)
              \/ InvalidateLedger(t) \/ ReleaseLatch(t) \/ EndAuthorization(t)
              \/ RequestClose(t) \/ CloseAgain(t)
       PROVE  UNCHANGED Promise!vars
  BY <1>13 DEF RefusedAfterGate, Authorize, RecordEvidence, InvalidateLedger, ReleaseLatch,
               EndAuthorization, RequestClose, CloseAgain
<1>14. ASSUME Expire \/ UNCHANGED vars
       PROVE  UNCHANGED Promise!vars
  BY <1>14 DEF Expire, vars
<1>15. ASSUME NEW t \in Threads, Interrupt(t) PROVE FALSE
  BY <1>15 DEF Interrupt
<1>16. Promise!Send \/ Promise!Reply => Promise!Next
  BY DEF Promise!Next
<1>17. ASSUME NEW t \in Threads, Answer(t) PROVE Promise!Next
  BY <1>4, <1>5, <1>6, <1>7, <1>15, <1>16, <1>17 DEF Answer
<1>18. ASSUME NEW t \in Threads, Call(t) PROVE [Promise!Next]_(Promise!vars)
  BY <1>2, <1>3, <1>13, <1>16, <1>18 DEF Call
<1>19. ASSUME NEW t \in Threads, Coordinate(t) PROVE [Promise!Next]_(Promise!vars)
  BY <1>8, <1>9, <1>10, <1>13, <1>19 DEF Coordinate
<1>20. ASSUME NEW t \in Threads, EndAuthorization(t) \/ RequestClose(t) \/ Close(t)
       PROVE  [Promise!Next]_(Promise!vars)
  BY <1>11, <1>12, <1>13, <1>20 DEF Close
<1> HIDE DEF Promise!vars
<1> QED
  BY <1>14, <1>17, <1>18, <1>19, <1>20 DEF Next

\* Without a KeyboardInterrupt inside an exchange, the threads, the lock, the
\* authorizations and the budgets together behave as one connection epoch.
THEOREM ImplementsEpoch == ASSUME ~Interrupts PROVE Spec => PromiseKept
<1>1. IInv /\ [Next]_vars => [Promise!Next]_(Promise!vars)
  BY StepRefines
<1> QED
  BY InitRefines, InvariantHolds, <1>1, PTL DEF Spec, PromiseKept, Promise!Spec

-----------------------------------------------------------------------------
(* Where the documented rule about binary exchanges fails, and only there.   *)

\* The transport of a poisoned binary exchange stays open in one case only: the
\* exchange discarded more than the resynchronization budget while its boundary
\* was proven, with and without interrupts.
THEOREM ResyncLeavesOpen == Spec => OnlyResyncLeavesOpen
<1>1. ASSUME IInv, [Next]_vars, exchange # NoExchange, exchange.kind = "query_binary",
             health' = Poisoned, ~closed'
      PROVE  boundary' = boundary /\ ledger'.discarded > ResyncMax /\ ~ledger'.active
  <2>1. health \in {Healthy, Uncertain} /\ ~closed /\ health' # health
    BY <1>1 DEF IInv, ChannelConsistent
  <2>2. PICK t \in Threads : Answer(t)
    <3>1. ASSUME NEW t \in Threads, Call(t) PROVE FALSE
      BY <1>1, <3>1 DEF Call, Begin, BeginBinary, RefusedAfterGate, CanLock
    <3>2. ASSUME NEW t \in Threads, Coordinate(t) PROVE FALSE
      BY <1>1, <2>1, <3>2 DEF Coordinate, Authorize, RecordEvidence, CompleteVerification,
           InvalidateVerified, DegradeByService, InvalidateLedger, ReleaseLatch, CanLock, Holds
    <3>3. ASSUME NEW t \in Threads, EndAuthorization(t) \/ RequestClose(t) \/ Close(t)
          PROVE  FALSE
      BY <1>1, <2>1, <3>3 DEF EndAuthorization, RequestClose, Close, CloseAgain, CloseSession,
           ReleaseLease, CanLock
    <3>4. ASSUME Expire \/ UNCHANGED vars PROVE FALSE
      BY <2>1, <3>4 DEF Expire, vars, stateVars
    <3> QED
      BY <1>1, <3>1, <3>2, <3>3, <3>4 DEF Next
  <2>3. PICK cause \in Causes, consumed \in 0..PerResponseMax, discarded \in 0..ResyncMax + 1 :
           FailBinary(t, cause, consumed, discarded)
    BY <1>1, <2>1, <2>2 DEF Answer, Succeed, Fail, SucceedBinary, ViolateContract,
         ClosePoisonedBackend, Interrupt, stateVars
  <2>4. /\ cause = "proven" /\ ResyncExceeded(ledger, discarded)
        /\ ledger' = Failed(ledger, consumed, discarded, TRUE)
        /\ boundary' = boundary
    <3> DEFINE overrun == cause # "unstructured" /\ ResyncExceeded(ledger, discarded)
               before  == IF overrun THEN Poisoned ELSE health
               target  == IF cause = "not_sent" THEN before ELSE Target(cause, exchange.purpose)
               refused == Rank(target) < Rank(before)
               after   == IF refused THEN before ELSE target
    <3>1. /\ after = Poisoned
          /\ ~(after = Poisoned /\ ~refused)
          /\ ledger' = IF cause = "unstructured" THEN Invalidated(ledger)
                       ELSE Failed(ledger, consumed, discarded, cause # "unproven")
          /\ FailureOnWire(cause)
      BY <1>1, <2>1, <2>3 DEF FailBinary, Degraded, ClosePoisonedBackend
    <3> HIDE DEF after
    <3>2. refused
      BY <3>1
    <3>3. overrun
      <4>1. ~overrun => before \in {Healthy, Uncertain}
        BY <2>1 DEF Target, Causes
      <4>2. before = Poisoned
        BY <3>1, <3>2 DEF after
      <4> QED
        BY <4>1, <4>2
    <3>4. before = Poisoned /\ target # Poisoned
      BY <3>2, <3>3 DEF Rank
    <3>5. cause = "proven"
      BY <3>3, <3>4 DEF Target, Causes
    <3> QED
      BY <3>1, <3>3, <3>5 DEF FailureOnWire
  <2>5. ledger \in Ledger
    BY <1>1 DEF IInv, TypeOK
  <2>6. ledger'.discarded = ledger.discarded + discarded /\ ~ledger'.active
    BY <2>4, <2>5 DEF Failed, Debited, Ledger
  <2> QED
    BY <2>4, <2>6 DEF ResyncExceeded
<1>2. IInv /\ [Next]_vars =>
        (exchange # NoExchange /\ exchange.kind = "query_binary" /\ health' = Poisoned /\ ~closed'
           => boundary' = boundary /\ ledger'.discarded > ResyncMax /\ ~ledger'.active)
  BY <1>1
<1> QED
  BY <1>2, InvariantHolds, PTL DEF Spec, OnlyResyncLeavesOpen

-----------------------------------------------------------------------------
(* Where an exchange escapes the guard, and only there.                      *)

\* An answer that is no interrupt is booked, and poisons the epoch if the boundary
\* is lost with it.
LEMMA AnswersAreBooked ==
    ASSUME IInv, NEW t \in Threads, Answer(t), ~Interrupt(t)
    PROVE  /\ exchange # NoExchange /\ exchange' = NoExchange
           /\ audit' \in IF exchange.kind \in WriteIo
                         THEN {[audit EXCEPT !.completed = @ + 1], [audit EXCEPT !.unknown = @ + 1]}
                         ELSE {audit}
           /\ boundary' = boundary \/ health' = Poisoned
<1>1. CASE Succeed(t)
  BY <1>1 DEF Succeed, InFlight, Done, ghostVars
<1>2. ASSUME NEW cause \in Causes, Fail(t, cause)
      PROVE  /\ exchange # NoExchange /\ exchange' = NoExchange
             /\ audit' = Unresolved(exchange.kind)
             /\ boundary' = boundary \/ health' = Poisoned
  BY <1>2 DEF Fail, InFlight, Degraded, Target, Causes, FailureOnWire
<1>3. ASSUME NEW length \in 0..PerResponseMax, SucceedBinary(t, length)
      PROVE  /\ exchange # NoExchange /\ exchange' = NoExchange /\ exchange.kind = "query_binary"
             /\ audit' = audit /\ boundary' = boundary
  BY <1>3 DEF SucceedBinary, InFlight
<1>4. ASSUME ViolateContract(t)
      PROVE  /\ exchange # NoExchange /\ exchange' = NoExchange /\ exchange.kind = "query_binary"
             /\ audit' = audit /\ health' = Poisoned
  BY <1>4 DEF ViolateContract, InFlight, Degraded, Target
<1>5. ASSUME NEW cause \in Causes, NEW consumed \in 0..PerResponseMax,
             NEW discarded \in 0..ResyncMax + 1, FailBinary(t, cause, consumed, discarded)
      PROVE  /\ exchange # NoExchange /\ exchange' = NoExchange /\ exchange.kind = "query_binary"
             /\ audit' = audit /\ (boundary' = boundary \/ health' = Poisoned)
  <2>1. exchange # NoExchange /\ health \in {Healthy, Uncertain}
    BY <1>5 DEF FailBinary, InFlight, IInv, ChannelConsistent
  <2>2. cause \in {"unproven", "unstructured"} => health' = Poisoned
    BY <1>5, <2>1 DEF FailBinary, Target, Causes, Rank, Degraded
  <2> QED
    BY <1>5, <2>2 DEF FailBinary, InFlight, FailureOnWire
<1> QED
  BY <1>1, <1>2, <1>3, <1>4, <1>5 DEF Answer, Unresolved, WriteIo

\* With and without interrupts: whatever else happens, a lost boundary is latched and
\* every write is accounted for.
THEOREM OnlyInterrupts == Spec => OnlyInterruptsEscape
<1>1. ASSUME IInv, [Next]_vars, UnprovenBoundaryIsLatched, AuditBalances,
             ~(\E t \in Threads : Interrupt(t))
      PROVE  (UnprovenBoundaryIsLatched /\ AuditBalances)'
  <2>1. /\ audit \in [attempts : Nat, completed : Nat, unknown : Nat]
        /\ health \in Health /\ health' \in Health
        /\ exchange \in ExchangeType \union {NoExchange}
        /\ NoExchange \notin ExchangeType
    BY <1>1, NextInv, NullAssumption DEF IInv, TypeOK
  <2>2. boundary' = boundary => UnprovenBoundaryIsLatched'
    <3> SUFFICES ASSUME boundary' = boundary, boundary = "unproven"
                 PROVE  health' \in {Poisoned, Closed}
      BY DEF UnprovenBoundaryIsLatched
    <3>1. health \in {Poisoned, Closed}
      BY <1>1 DEF UnprovenBoundaryIsLatched
    <3>2. ~(Rank(health') < Rank(health))
      <4>1. ASSUME NEW t \in Threads, CompleteVerification(t) PROVE health' = health
        <5>1. health \notin {Healthy, Uncertain}
          BY <3>1 DEF Poisoned, Closed, Healthy, Uncertain
        <5> QED
          BY <4>1, <5>1 DEF CompleteVerification, stateVars
      <4>2. health' = health => ~(Rank(health') < Rank(health))
        BY <2>1 DEF Rank, Health
      <4> QED
        BY <1>1, <4>1, <4>2, OnlyVerificationImproves
    <3> QED
      BY <2>1, <3>1, <3>2 DEF Rank
  <2>3. ASSUME NEW t \in Threads, NEW kind \in Kinds, Begin(t, kind)
        PROVE  boundary' = boundary /\ AuditBalances'
    <3>1. /\ exchange = NoExchange /\ boundary' = boundary
          /\ exchange' = [kind |-> kind, purpose |-> PurposeInForce, granted |-> 0]
          /\ audit' = Attempted(kind)
      BY <2>3 DEF Begin, CanLock, ghostVars
    <3>2. exchange' # NoExchange /\ exchange'.kind = kind
      BY <1>1, <2>3, <3>1, NextInv, SessionAssumption, NullAssumption
         DEF IInv, TypeOK, ExchangeType, PurposeInForce, AuthType, GrantType
    <3> QED
      BY <1>1, <2>1, <3>1, <3>2 DEF AuditBalances, Attempted
  <2>4. ASSUME NEW t \in Threads, NEW requested \in Requests, BeginBinary(t, requested)
        PROVE  boundary' = boundary /\ AuditBalances'
    <3>1. exchange = NoExchange /\ exchange'.kind = "query_binary" /\ UNCHANGED <<audit, boundary>>
      BY <2>4 DEF BeginBinary, CanLock, ghostVars
    <3> QED
      BY <1>1, <2>1, <3>1 DEF AuditBalances, WriteIo
  <2>5. ASSUME NEW t \in Threads, Answer(t) PROVE (UnprovenBoundaryIsLatched /\ AuditBalances)'
    <3>1. AuditBalances'
      BY <1>1, <2>1, <2>5, AnswersAreBooked DEF AuditBalances
    <3> QED
      BY <1>1, <2>2, <2>5, <3>1, AnswersAreBooked DEF UnprovenBoundaryIsLatched
  <2>6. ASSUME UNCHANGED <<audit, exchange, boundary>> PROVE boundary' = boundary /\ AuditBalances'
    BY <1>1, <2>6 DEF AuditBalances
  <2>7. ASSUME NEW t \in Threads, NEW kind \in Kinds, RefusedAfterGate(t, kind)
        PROVE  UNCHANGED <<audit, exchange, boundary>>
    BY <2>7 DEF RefusedAfterGate, ghostVars
  <2>8. ASSUME NEW t \in Threads, Coordinate(t) PROVE UNCHANGED <<audit, exchange, boundary>>
    BY <2>8 DEF Coordinate, Authorize, RecordEvidence, CompleteVerification, InvalidateVerified,
         DegradeByService, InvalidateLedger, ReleaseLatch, ghostVars
  <2>9. ASSUME NEW t \in Threads, EndAuthorization(t) \/ RequestClose(t) \/ Close(t)
        PROVE  UNCHANGED <<audit, exchange, boundary>>
    BY <2>9 DEF EndAuthorization, RequestClose, Close, CloseAgain, CloseSession, ReleaseLease,
         ghostVars
  <2>10. CASE Expire \/ UNCHANGED vars
    BY <2>6, <2>2, <2>10 DEF Expire, vars, ghostVars
  <2> QED
    BY <1>1, <2>2, <2>3, <2>4, <2>5, <2>6, <2>7, <2>8, <2>9, <2>10 DEF Next, Call
<1>2. IInv /\ [Next]_vars =>
        (UnprovenBoundaryIsLatched /\ AuditBalances
           /\ ~(UnprovenBoundaryIsLatched /\ AuditBalances)'
           => \E t \in Threads : Interrupt(t))
  BY <1>1
<1> QED
  BY <1>2, InvariantHolds, PTL DEF Spec, OnlyInterruptsEscape
=============================================================================
