-------------------------- MODULE InstrumentSession --------------------------
(***************************************************************************)
(* One connection epoch of one instrument: the session state and its        *)
(* transaction lock, the authorizations the coordinator issues, and the     *)
(* guarded transport through which every exchange passes                    *)
(* (transport/session.py, transport/guarded.py, transport/binary.py).       *)
(*                                                                          *)
(* Threads share the epoch.  Each call takes the re-entrant transaction     *)
(* lock; an authorization keeps it for its whole `with` block.  What runs   *)
(* under the lock between two points where another thread or the            *)
(* instrument can act is one action: a call up to the backend, the          *)
(* backend's answer, a close up to the lock's release, and the lease        *)
(* release after it.  A call that is refused without spending an            *)
(* authorization step changes nothing but a counter and is left out.        *)
(***************************************************************************)
EXTENDS BinaryQueryLedger, FiniteSets

CONSTANTS
    Threads,              \* threads that share the epoch
    NoThread,             \* nobody holds the transaction lock
    Fields,               \* configuration field names
    Access,               \* the configured access mode of this transport
    Kinds,                \* the transport operations the callers use
    Grants,               \* the authorizations the callers ask for
    Requests,             \* max_bytes arguments of query_binary
    ReleaseLeaseOnClose,  \* this transport owns its resource lease
    Interrupts,           \* a KeyboardInterrupt can end an exchange
    MaxCalls,             \* bound: exchanges, authorizations and closes
    NoAuth, NoExchange

Healthy == "healthy"
Uncertain == "uncertain"
Poisoned == "poisoned"
Closed == "closed"
Health == {Healthy, Uncertain, Poisoned, Closed}

\* _HEALTH_RANK: degrade moves up this order or not at all.
Rank(h) == CASE h = Healthy   -> 0
             [] h = Uncertain -> 1
             [] h = Poisoned  -> 2
             [] h = Closed    -> 3

Purposes == {"normal", "recovery", "verification"}

ReadIo == {"query", "query_float_list", "query_bin_block", "query_opc"}
WriteIo == {"write", "write_bytes"}
AuthorizedIo == ReadIo \union WriteIo \union {"query_binary"}

\* The arguments of one authorize call.  `evidence` holds the read kinds whose
\* answers may count as evidence for the authorized fields.
GrantType == [purpose  : Purposes,
              io       : SUBSET AuthorizedIo,
              fields   : SUBSET Fields,
              evidence : SUBSET AuthorizedIo,
              steps    : Nat \ {0},
              budget   : BOOLEAN]

\* The argument checks of SessionTransactionCoordinator._authorize.
ValidGrant(g) ==
    /\ g.io # {} /\ g.fields # {}
    /\ g.evidence \subseteq g.io
    /\ g.purpose = "verification" => g.evidence \subseteq ReadIo
    /\ g.budget => g.purpose = "normal"

ASSUME SessionAssumption ==
    /\ NoThread \notin Threads
    /\ Access \in {"read_write", "read_only", "disabled"}
    /\ Kinds \subseteq AuthorizedIo
    /\ \A g \in Grants : g \in GrantType /\ ValidGrant(g)
    /\ \A n \in Requests : n \in Nat \ {0}
    /\ ReleaseLeaseOnClose \in BOOLEAN
    /\ Interrupts \in BOOLEAN
    /\ MaxCalls \in Nat

AuthType == [grant     : Grants,
             left      : Nat,
             ok        : SUBSET AuthorizedIo,
             seen      : SUBSET Fields,
             completed : BOOLEAN,
             expired   : BOOLEAN]

ExchangeType == [kind    : AuthorizedIo,
                 purpose : Purposes \union {"none"},
                 granted : Nat]

ASSUME NullAssumption == NoAuth \notin AuthType /\ NoExchange \notin ExchangeType

VARIABLES
    health,     \* InstrumentSessionState._health
    verified,   \* InstrumentSessionState._verified_fields
    owner,      \* who holds transaction_lock
    auth,       \* the installed SessionAuthorization, the lock owner's
    ledger,     \* the BinaryQueryLedger behind every grant with a budget
    exchange,   \* the exchange the backend is working on
    closed,     \* GuardedAuditedTransport._closed
    latched,    \* GuardedAuditedTransport.construction_latched
    backend,    \* the concrete transport: "open" or "closed"
    lease,      \* the resource lease: "held" or "released"
    audit,      \* the write counters of AuditCounters
    pc,         \* where each thread is in a close call
    calls,      \* counts up to MaxCalls
    \* What the code has no variable for:
    boundary,   \* is the response boundary on the wire proven or not
    delivered,  \* binary payload bytes handed to the driver
    retired     \* some close call has returned

stateVars == <<health, verified>>
guardVars == <<closed, latched, backend, lease>>
ghostVars == <<boundary, delivered, retired>>
vars == <<stateVars, owner, auth, ledger, exchange, guardVars, audit, pc,
          calls, ghostVars>>

TypeOK ==
    /\ health \in Health
    /\ verified \in SUBSET Fields
    /\ owner \in Threads \union {NoThread}
    /\ auth \in AuthType \union {NoAuth}
    /\ ledger \in Ledger
    /\ exchange \in ExchangeType \union {NoExchange}
    /\ closed \in BOOLEAN
    /\ latched \in BOOLEAN
    /\ backend \in {"open", "closed"}
    /\ lease \in {"held", "released"}
    /\ audit \in [attempts : Nat, completed : Nat, unknown : Nat]
    /\ pc \in [Threads -> {"idle", "closing", "releasing"}]
    /\ calls \in 0..MaxCalls
    /\ boundary \in {"proven", "unproven"}
    /\ delivered \in Nat
    /\ retired \in BOOLEAN

Init ==
    /\ health = Healthy
    /\ verified = {}
    /\ owner = NoThread
    /\ auth = NoAuth
    /\ ledger = FreshLedger
    /\ exchange = NoExchange
    /\ closed = FALSE
    /\ latched \in BOOLEAN
    /\ backend = "open"
    /\ lease = "held"
    /\ audit = [attempts |-> 0, completed |-> 0, unknown |-> 0]
    /\ pc = [t \in Threads |-> "idle"]
    /\ calls = 0
    /\ boundary = "proven"
    /\ delivered = 0
    /\ retired = FALSE

-----------------------------------------------------------------------------
(* The transaction lock.  It is free for its owner too; an owner whose       *)
(* exchange is with the backend is inside that call and can start nothing.   *)

CanLock(t) == owner \in {NoThread, t} /\ exchange = NoExchange

\* Mutant: a call that returns keeps the lock.
LockLeaks == owner' = owner

\* The lock stays with an authorization and is free otherwise.
Unlock == owner' = IF auth = NoAuth THEN NoThread ELSE owner

Counted == calls < MaxCalls /\ calls' = calls + 1

-----------------------------------------------------------------------------
(* Health transitions.                                                       *)

\* InstrumentSessionState.degrade, where it does not raise.
Degraded(h) ==
    /\ health' = h
    /\ verified' = IF h = Healthy THEN verified ELSE {}

Causes == {"not_sent", "proven", "unproven", "unstructured"}

\* Mutant: a failure without transport facts only makes the session uncertain.
TargetTrusting(cause, purpose) ==
    CASE cause = "not_sent"                             -> health
      [] cause # "not_sent" /\ purpose = "recovery"     -> Poisoned
      [] cause \in {"proven", "unstructured"} /\ purpose # "recovery" -> Uncertain
      [] cause = "unproven" /\ purpose # "recovery"     -> Poisoned

\* The state _transition_after_failure aims at: a failure before sending leaves
\* the health alone, a failed recovery poisons whatever the cause.
Target(cause, purpose) ==
    CASE cause = "not_sent"                             -> health
      [] cause # "not_sent" /\ purpose = "recovery"     -> Poisoned
      [] cause = "proven" /\ purpose # "recovery"       -> Uncertain
      [] cause \in {"unproven", "unstructured"} /\ purpose # "recovery" -> Poisoned

\* What a failed exchange leaves on the wire.
FailureOnWire(cause) ==
    boundary' = IF cause \in {"unproven", "unstructured"} THEN "unproven" ELSE boundary

-----------------------------------------------------------------------------
(* AuditCounters: a write is attempted, then completed or unknown.           *)

Attempted(kind) ==
    IF kind \in WriteIo THEN [audit EXCEPT !.attempts = @ + 1] ELSE audit

Done(kind) ==
    IF kind \in WriteIo THEN [audit EXCEPT !.completed = @ + 1] ELSE audit

\* Mutant: a failed write is counted nowhere.
FailureUncounted(kind) == audit

Unresolved(kind) ==
    IF kind \in WriteIo THEN [audit EXCEPT !.unknown = @ + 1] ELSE audit

-----------------------------------------------------------------------------
(* The gate every exchange passes under the lock.                            *)

HasBudget == auth # NoAuth /\ auth.grant.budget

PurposeInForce == IF auth = NoAuth THEN "none" ELSE auth.grant.purpose

\* InstrumentSessionState._consume_authorization accepts the kind.
Authorized(kind) ==
    /\ ~auth.completed
    /\ ~auth.expired
    /\ kind \in auth.grant.io
    /\ auth.left >= 1

\* _check_access: a write needs read_write, a read anything but disabled.
AccessAllows(kind) == Access = "read_write" \/ (kind \notin WriteIo /\ Access = "read_only")

\* Mutant: an uncertain session lets unauthorized calls through.
GateWhenUncertain(kind) ==
    /\ AccessAllows(kind)
    /\ ~latched /\ ~closed
    /\ health \notin {Poisoned, Closed}
    /\ auth # NoAuth => Authorized(kind)

\* Mutant: a poisoned session lets calls through.
GateWhenPoisoned(kind) ==
    /\ AccessAllows(kind)
    /\ ~latched /\ ~closed
    /\ auth # NoAuth => Authorized(kind)
    /\ health = Uncertain => auth # NoAuth

Gate(kind) ==
    /\ AccessAllows(kind)
    /\ ~latched
    /\ ~closed
    /\ health \notin {Poisoned, Closed}
    /\ auth # NoAuth => Authorized(kind)
    /\ health = Uncertain => auth # NoAuth

\* The step an authorized call spends at the gate.
StepSpent == IF auth = NoAuth THEN NoAuth ELSE [auth EXCEPT !.left = @ - 1]

\* write, write_bytes, query, query_float_list, query_bin_block, query_opc up
\* to the backend.  A block query is refused while a binary budget is active.
Begin(t, kind) ==
    /\ pc[t] = "idle" /\ CanLock(t) /\ Counted
    /\ kind # "query_binary"
    /\ kind = "query_bin_block" => ~HasBudget
    /\ Gate(kind)
    /\ owner' = t
    /\ auth' = StepSpent
    /\ exchange' = [kind |-> kind, purpose |-> PurposeInForce, granted |-> 0]
    /\ audit' = Attempted(kind)
    /\ UNCHANGED <<stateVars, ledger, guardVars, pc, ghostVars>>

\* query_binary up to the backend: the step and the reservation are both spent.
BeginBinary(t, requested) ==
    /\ pc[t] = "idle" /\ CanLock(t) /\ Counted
    /\ "query_binary" \in Kinds
    /\ HasBudget
    /\ Gate("query_binary")
    /\ CanReserve(ledger, requested)
    /\ owner' = t
    /\ auth' = StepSpent
    /\ ledger' = Reserved(ledger)
    /\ exchange' = [kind    |-> "query_binary",
                    purpose |-> PurposeInForce,
                    granted |-> Effective(ledger, requested)]
    /\ UNCHANGED <<stateVars, guardVars, audit, pc, ghostVars>>

\* A call refused after the gate has spent its step: less than a millisecond of
\* the deadline is left, or the ledger refuses the reservation.
RefusedAfterGate(t, kind) ==
    /\ pc[t] = "idle" /\ CanLock(t) /\ Counted
    /\ auth # NoAuth
    /\ \/ kind = "query_float_list"
       \/ kind = "query_binary" /\ HasBudget
    /\ Gate(kind)
    /\ auth' = StepSpent
    /\ UNCHANGED <<stateVars, owner, ledger, exchange, guardVars, audit, pc, ghostVars>>

-----------------------------------------------------------------------------
(* What the backend answers.                                                 *)

InFlight(t) == exchange # NoExchange /\ owner = t

\* _record_success
Recorded(kind) == IF auth = NoAuth THEN NoAuth ELSE [auth EXCEPT !.ok = @ \union {kind}]

Succeed(t) ==
    /\ InFlight(t) /\ exchange.kind # "query_binary"
    /\ auth' = Recorded(exchange.kind)
    /\ audit' = Done(exchange.kind)
    /\ exchange' = NoExchange
    /\ Unlock
    /\ UNCHANGED <<stateVars, ledger, guardVars, pc, calls, ghostVars>>

Fail(t, cause) ==
    /\ InFlight(t) /\ exchange.kind # "query_binary"
    /\ Degraded(Target(cause, exchange.purpose))
    /\ FailureOnWire(cause)
    /\ audit' = Unresolved(exchange.kind)
    /\ exchange' = NoExchange
    /\ Unlock
    /\ UNCHANGED <<auth, ledger, guardVars, pc, calls, delivered, retired>>

\* Mutant: the backend and its lease go, the transport still counts as open.
PoisonedBackendHalfClosed ==
    /\ backend' = "closed"
    /\ lease' = IF ReleaseLeaseOnClose THEN "released" ELSE lease
    /\ UNCHANGED <<closed, latched>>

\* _close_poisoned_backend: the transport is closed, its lease released, and the
\* health stays what it is.
ClosePoisonedBackend ==
    /\ closed' = TRUE
    /\ backend' = "closed"
    /\ lease' = IF ReleaseLeaseOnClose THEN "released" ELSE lease
    /\ UNCHANGED latched

SucceedBinary(t, length) ==
    /\ InFlight(t) /\ exchange.kind = "query_binary"
    /\ CommitAccepts(ledger, exchange.granted, length, TRUE)
    /\ ledger' = Committed(ledger, length)
    /\ delivered' = delivered + length
    /\ auth' = Recorded("query_binary")
    /\ exchange' = NoExchange
    /\ Unlock
    /\ UNCHANGED <<stateVars, guardVars, audit, pc, calls, boundary, retired>>

\* The backend returns the wrong type or framing, more than was reserved, or the
\* wrong tail: the boundary counts as lost and the backend is closed at once.
ViolateContract(t) ==
    /\ InFlight(t) /\ exchange.kind = "query_binary"
    /\ ledger' = Invalidated(ledger)
    /\ Degraded(Target("unproven", exchange.purpose))
    /\ FailureOnWire("unproven")
    /\ ClosePoisonedBackend
    /\ exchange' = NoExchange
    /\ Unlock
    /\ UNCHANGED <<auth, audit, pc, calls, delivered, retired>>

\* The backend raises.  A discarded count beyond the resynchronization budget
\* makes ledger.fail raise, which poisons the session first; aiming at
\* "uncertain" after that is refused by degrade, and the refusal replaces the
\* failure before the backend is closed.
FailBinary(t, cause, consumed, discarded) ==
    LET overrun == cause # "unstructured" /\ ResyncExceeded(ledger, discarded)
        before  == IF overrun THEN Poisoned ELSE health
        target  == IF cause = "not_sent" THEN before ELSE Target(cause, exchange.purpose)
        refused == Rank(target) < Rank(before)
        after   == IF refused THEN before ELSE target
    IN  /\ InFlight(t) /\ exchange.kind = "query_binary"
        /\ cause = "not_sent" => consumed = 0 /\ discarded = 0
        /\ consumed <= exchange.granted
        /\ ledger' = IF cause = "unstructured" THEN Invalidated(ledger)
                     ELSE Failed(ledger, consumed, discarded, cause # "unproven")
        /\ Degraded(after)
        /\ FailureOnWire(cause)
        /\ IF after = Poisoned /\ ~refused
           THEN ClosePoisonedBackend
           ELSE UNCHANGED guardVars
        /\ exchange' = NoExchange
        /\ Unlock
        /\ UNCHANGED <<auth, audit, pc, calls, delivered, retired>>

\* A KeyboardInterrupt inside the backend call is no Exception: no handler of
\* the guard runs, and only the `with` block releases the lock.
Interrupt(t) ==
    /\ Interrupts
    /\ InFlight(t)
    /\ exchange' = NoExchange
    /\ boundary' = "unproven"
    /\ Unlock
    /\ UNCHANGED <<stateVars, auth, ledger, guardVars, audit, pc, calls, delivered, retired>>

-----------------------------------------------------------------------------
(* SessionTransactionCoordinator.                                            *)

\* An authorization is never nested and never given on a lost epoch; normal
\* work needs a healthy one.
Authorize(t, g) ==
    /\ pc[t] = "idle" /\ CanLock(t) /\ Counted
    /\ auth = NoAuth
    /\ health \notin {Poisoned, Closed}
    /\ g.purpose = "normal" => health = Healthy
    /\ owner' = t
    /\ auth' = [grant |-> g, left |-> g.steps, ok |-> {}, seen |-> {},
                completed |-> FALSE, expired |-> FALSE]
    /\ UNCHANGED <<stateVars, ledger, exchange, guardVars, audit, pc, ghostVars>>

\* The authorization's deadline passes.
Expire ==
    /\ auth # NoAuth /\ ~auth.expired
    /\ auth' = [auth EXCEPT !.expired = TRUE]
    /\ UNCHANGED <<stateVars, owner, ledger, exchange, guardVars, audit, pc, calls, ghostVars>>

\* The `with` block ends, normally or by an exception.
EndAuthorization(t) ==
    /\ auth # NoAuth /\ owner = t /\ exchange = NoExchange /\ pc[t] = "idle"
    /\ auth' = NoAuth
    /\ owner' = NoThread
    /\ UNCHANGED <<stateVars, ledger, exchange, guardVars, audit, pc, calls, ghostVars>>

Holds(t) == auth # NoAuth /\ owner = t /\ exchange = NoExchange /\ pc[t] = "idle"

\* record_evidence: a verifier has checked the value a read returned.
RecordEvidence(t, kind, fields) ==
    /\ Holds(t)
    /\ auth.grant.purpose = "verification"
    /\ ~auth.completed
    /\ kind \in ReadIo /\ kind \in auth.ok
    /\ kind \in auth.grant.evidence
    /\ fields # {} /\ fields \subseteq auth.grant.fields
    /\ auth' = [auth EXCEPT !.seen = @ \union fields]
    /\ UNCHANGED <<stateVars, owner, ledger, exchange, guardVars, audit, pc, calls,
                   ghostVars>>

\* Mutant: a verification may complete before its fields have evidence.
CompleteEarly == ~auth.completed /\ ~auth.expired

\* _complete_verification demands a live authorization and evidence for each of
\* its fields.
CanComplete ==
    /\ ~auth.completed /\ ~auth.expired
    /\ auth.grant.fields \subseteq auth.seen

\* complete_verification.  The authorization is marked complete before the
\* session refuses a poisoned or closed epoch.
CompleteVerification(t) ==
    /\ Holds(t)
    /\ auth.grant.purpose = "verification"
    /\ CanComplete
    /\ auth' = [auth EXCEPT !.completed = TRUE]
    /\ IF health \in {Healthy, Uncertain}
       THEN /\ health' = Healthy
            /\ verified' = verified \union auth.grant.fields
       ELSE UNCHANGED stateVars
    /\ UNCHANGED <<owner, ledger, exchange, guardVars, audit, pc, calls, ghostVars>>

\* invalidate_verified_fields: a normal operation may have changed these.
InvalidateVerified(t, fields) ==
    /\ pc[t] = "idle" /\ CanLock(t)
    /\ verified \intersect fields # {}
    /\ verified' = verified \ fields
    /\ UNCHANGED <<health, owner, auth, ledger, exchange, guardVars, audit, pc,
                   calls, ghostVars>>

\* A service degrades the session itself, after its phases, when an operation
\* needs cleanup or a cleanup is incomplete.
DegradeByService(t, h) ==
    /\ pc[t] = "idle" /\ CanLock(t) /\ auth = NoAuth
    /\ h \in {Uncertain, Poisoned}
    /\ Rank(h) > Rank(health)
    /\ Degraded(h)
    /\ UNCHANGED <<owner, auth, ledger, exchange, guardVars, audit, pc, calls, ghostVars>>

\* The operation that owns the ledger requires cleanup or terminates.
InvalidateLedger(t) ==
    /\ pc[t] = "idle" /\ CanLock(t) /\ auth = NoAuth
    /\ ledger.active
    /\ ledger' = Invalidated(ledger)
    /\ UNCHANGED <<stateVars, owner, auth, exchange, guardVars, audit, pc, calls, ghostVars>>

\* The factory lets I/O through once the driver it built has passed validation.
ReleaseLatch(t) ==
    /\ pc[t] = "idle" /\ CanLock(t)
    /\ latched /\ ~closed /\ health = Healthy
    /\ latched' = FALSE
    /\ UNCHANGED <<stateVars, owner, auth, ledger, exchange, closed, backend, lease,
                   audit, pc, calls, ghostVars>>

-----------------------------------------------------------------------------
(* GuardedAuditedTransport.close: wait for the lock, end the epoch and the   *)
(* backend under it, and release the lease after it.                         *)

RequestClose(t) ==
    /\ pc[t] = "idle" /\ Counted
    /\ exchange # NoExchange => owner # t
    /\ pc' = [pc EXCEPT ![t] = "closing"]
    /\ UNCHANGED <<stateVars, owner, auth, ledger, exchange, guardVars, audit, ghostVars>>

CloseAgain(t) ==
    /\ pc[t] = "closing" /\ CanLock(t)
    /\ closed
    /\ pc' = [pc EXCEPT ![t] = "idle"]
    /\ retired' = TRUE
    /\ UNCHANGED <<stateVars, owner, auth, ledger, exchange, guardVars, audit, calls,
                   boundary, delivered>>

CloseSession(t) ==
    /\ pc[t] = "closing" /\ CanLock(t)
    /\ ~closed
    /\ closed' = TRUE
    /\ Degraded(Closed)
    /\ backend' = "closed"
    /\ pc' = [pc EXCEPT ![t] = "releasing"]
    /\ UNCHANGED <<owner, auth, ledger, exchange, latched, lease, audit, calls, ghostVars>>

\* Mutant: the lease is released before the lock is taken.
ReleaseLeaseFirst(t) ==
    /\ pc[t] \in {"closing", "releasing"}
    /\ lease' = IF ReleaseLeaseOnClose THEN "released" ELSE lease
    /\ pc' = [pc EXCEPT ![t] = IF @ = "closing" THEN "closing" ELSE "idle"]
    /\ retired' = (retired \/ pc[t] = "releasing")
    /\ UNCHANGED <<stateVars, owner, auth, ledger, exchange, closed, latched, backend,
                   audit, calls, boundary, delivered>>

\* After the lock: a lease this transport owns goes with it.
ReleaseLease(t) ==
    /\ pc[t] = "releasing"
    /\ lease' = IF ReleaseLeaseOnClose THEN "released" ELSE lease
    /\ pc' = [pc EXCEPT ![t] = "idle"]
    /\ retired' = TRUE
    /\ UNCHANGED <<stateVars, owner, auth, ledger, exchange, closed, latched, backend,
                   audit, calls, boundary, delivered>>

-----------------------------------------------------------------------------

Call(t) ==
    \/ \E kind \in Kinds : Begin(t, kind) \/ RefusedAfterGate(t, kind)
    \/ \E requested \in Requests : BeginBinary(t, requested)

Answer(t) ==
    \/ Succeed(t)
    \/ \E cause \in Causes : Fail(t, cause)
    \/ \E length \in 0..PerResponseMax : SucceedBinary(t, length)
    \/ ViolateContract(t)
    \/ \E cause \in Causes, consumed \in 0..PerResponseMax,
          discarded \in 0..ResyncMax + 1 : FailBinary(t, cause, consumed, discarded)
    \/ Interrupt(t)

Coordinate(t) ==
    \/ \E g \in Grants : Authorize(t, g)
    \/ \E kind \in Kinds, fields \in SUBSET Fields : RecordEvidence(t, kind, fields)
    \/ CompleteVerification(t)
    \/ \E fields \in SUBSET Fields : InvalidateVerified(t, fields)
    \/ \E h \in Health : DegradeByService(t, h)
    \/ InvalidateLedger(t)
    \/ ReleaseLatch(t)

Close(t) == CloseAgain(t) \/ CloseSession(t) \/ ReleaseLease(t)

Next ==
    \/ \E t \in Threads :
          Call(t) \/ Answer(t) \/ Coordinate(t) \/ EndAuthorization(t)
                  \/ RequestClose(t) \/ Close(t)
    \/ Expire

Spec == Init /\ [][Next]_vars

\* Every backend call is bounded by a timeout, `with` blocks end, and a thread
\* that has called close runs on when the lock is free.
Fairness ==
    \A t \in Threads :
        /\ WF_vars(Answer(t))
        /\ WF_vars(EndAuthorization(t))
        /\ WF_vars(Close(t))

FairSpec == Spec /\ Fairness

-----------------------------------------------------------------------------
(* Correctness.                                                              *)

\* Once the response boundary on the wire cannot be proven, the epoch never
\* again looks usable, whichever call, authorization or budget was in force
\* (_transition_after_failure; invariants 4 and 7 of the session health RFC).
UnprovenBoundaryIsLatched == boundary = "unproven" => health \in {Poisoned, Closed}

\* On an uncertain session nothing goes to the instrument outside an
\* authorization, not even a call that another thread queued while the session
\* was still healthy (_gate).
UncertainIoIsAuthorized ==
    exchange # NoExchange /\ health = Uncertain => exchange.purpose # "none"

\* The lease is let go only after the backend is closed and its last exchange
\* is over, although close releases it outside the transaction lock.
LeaseOutlivesBackend ==
    lease = "released" => closed /\ backend = "closed" /\ exchange = NoExchange

\* A field counts as verified only while the session is healthy.
EvidenceOnlyWhenHealthy == verified # {} => health = Healthy

\* Every write attempt ends as completed or as unknown, once, and only the write
\* in flight is neither (audit_snapshot).
AuditBalances ==
    audit.attempts = audit.completed + audit.unknown
        + IF exchange # NoExchange /\ exchange.kind \in WriteIo THEN 1 ELSE 0

\* Whatever fails in between, the bytes handed to the driver and the bytes still
\* allowed never exceed the operation's limit, and no exchange in flight may
\* return more than what is still allowed (BinaryQueryLedger).
BudgetIsRespected ==
    /\ delivered + ledger.remaining <= OperationMax
    /\ exchange # NoExchange => exchange.granted <= ledger.remaining

\* Health improves in one way: from uncertain to healthy, by completing a live
\* verification whose every authorized field has evidence, and then exactly
\* those fields become verified.
HealthImprovesOnlyByVerification ==
    [][Rank(health') < Rank(health) =>
          /\ health = Uncertain /\ health' = Healthy
          /\ auth # NoAuth /\ auth.grant.purpose = "verification"
          /\ ~auth.expired /\ ~auth.completed
          /\ auth.grant.fields \subseteq auth.seen
          /\ verified' = auth.grant.fields]_vars

\* A thread that calls close gets through, and then the epoch is over and its
\* lease is released: nobody can keep the lock for ever.
CloseCompletes ==
    \A t \in Threads :
        pc[t] = "closing" ~> (closed /\ (ReleaseLeaseOnClose => lease = "released"))

\* The epoch as its services see it.
Promise == INSTANCE ConnectionEpoch WITH
    trust <- health, wire <- boundary, busy <- (exchange # NoExchange),
    live <- ~closed, held <- (lease = "held")

PromiseKept == Promise!Spec

-----------------------------------------------------------------------------
(* The inductive invariant.                                                  *)

\* Whoever has an exchange or an authorization holds the transaction lock.
LockHeld ==
    /\ exchange # NoExchange => owner # NoThread
    /\ auth # NoAuth => owner # NoThread

\* An exchange runs only on a usable epoch, and an ended transport is unusable.
ChannelConsistent ==
    /\ exchange # NoExchange =>
          health \in {Healthy, Uncertain} /\ ~closed
    /\ closed => backend = "closed" /\ health \in {Poisoned, Closed}
    /\ health = Closed => closed
    /\ lease = "released" => closed
    /\ \A t \in Threads : pc[t] = "releasing" => closed

IInv ==
    /\ TypeOK
    /\ LockHeld
    /\ ChannelConsistent
    /\ ~Interrupts => UnprovenBoundaryIsLatched /\ AuditBalances
    /\ UncertainIoIsAuthorized
    /\ EvidenceOnlyWhenHealthy
    /\ BudgetIsRespected

-----------------------------------------------------------------------------
(* What the documents say and the code does not keep.                        *)

\* "Out of sync, or over the resynchronization ceiling: close the transport and
\* mark the session poisoned" (scope extension RFC, acceptance policy of R1.3).
PoisonedBinaryIsClosed ==
    [][exchange # NoExchange /\ exchange.kind = "query_binary"
          => (health' = Poisoned => closed')]_vars

\* What is left of it: a binary exchange that poisons the session and leaves its
\* transport open has discarded too much, but its response boundary is as it was,
\* and its operation gets no further reservation (_fail_binary_query).
OnlyResyncLeavesOpen ==
    [][exchange # NoExchange /\ exchange.kind = "query_binary"
          /\ health' = Poisoned /\ ~closed'
          => /\ boundary' = boundary
             /\ ledger'.discarded > ResyncMax /\ ~ledger'.active]_vars

\* "After an answer that may be outstanding no ordinary operation is let through"
\* holds of every failure the guard sees: an epoch with a lost boundary stays usable,
\* or a write is counted nowhere, only where an interrupt ends the exchange.
OnlyInterruptsEscape ==
    [][UnprovenBoundaryIsLatched /\ AuditBalances
          /\ ~(UnprovenBoundaryIsLatched /\ AuditBalances)'
          => \E t \in Threads : Interrupt(t)]_vars
=============================================================================
