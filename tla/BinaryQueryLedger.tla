-------------------------- MODULE BinaryQueryLedger --------------------------
(***************************************************************************)
(* The byte, query-count and resynchronization ledger of one bounded        *)
(* binary operation (transport/binary.py, class BinaryQueryLedger).         *)
(*                                                                          *)
(* Every method runs under the ledger's own lock and touches nothing else,  *)
(* so each is an operator from a ledger to a ledger.  The module has no     *)
(* variables: InstrumentSession keeps one ledger and applies them.          *)
(*                                                                          *)
(* The ledger's deadline is the deadline of the whole operation, never      *)
(* earlier than that of the authorization the guard checks first            *)
(* (scope_phase_coordinator.py:294-330), so it is not modelled apart.       *)
(***************************************************************************)
EXTENDS Integers

CONSTANTS
    PerResponseMax,   \* per_response_max_bytes
    OperationMax,     \* operation_max_bytes
    QueryMaxCount,    \* query_max_count
    ResyncMax         \* resynchronization_max_bytes

\* What __init__ demands of the four limits.
ASSUME LedgerAssumption ==
    /\ PerResponseMax \in Nat \ {0}
    /\ OperationMax \in Nat \ {0}
    /\ PerResponseMax <= OperationMax
    /\ QueryMaxCount \in Nat \ {0}
    /\ ResyncMax \in Nat

Ledger == [active    : BOOLEAN,
           remaining : 0..OperationMax,     \* _remaining_operation_bytes
           count     : 0..QueryMaxCount,    \* _remaining_query_count
           discarded : Nat]                 \* _discarded_bytes

FreshLedger == [active    |-> TRUE,
                remaining |-> OperationMax,
                count     |-> QueryMaxCount,
                discarded |-> 0]

AtMost(m, n) == IF m <= n THEN m ELSE n

\* The bytes a reservation may return: never more than what is left of any limit.
Effective(l, requested) == AtMost(requested, l.remaining)

CanReserve(l, requested) ==
    /\ l.active
    /\ l.count >= 1
    /\ requested <= PerResponseMax
    /\ Effective(l, requested) >= 1

\* reserve: a query is charged before it is sent and never refunded.
Reserved(l) == [l EXCEPT !.count = @ - 1]

\* commit accepts a result only inside its reservation and with the framing tail.
CommitAccepts(l, granted, length, tailMatches) ==
    l.active /\ length <= granted /\ tailMatches

\* Mutant: a delivered payload is not charged.
CommittedFree(l, length) == l

Committed(l, length) == [l EXCEPT !.remaining = @ - length]

\* fail: the bytes of a failed exchange are debited and its discarded bytes added up.
Debited(l, consumed, discarded) ==
    [l EXCEPT !.remaining = IF @ >= consumed THEN @ - consumed ELSE 0,
              !.discarded = @ + discarded]

ResyncExceeded(l, discarded) == l.discarded + discarded > ResyncMax

Failed(l, consumed, discarded, proven) ==
    LET d == Debited(l, consumed, discarded)
    IN  IF proven /\ ~ResyncExceeded(l, discarded)
        THEN d
        ELSE [d EXCEPT !.active = FALSE]

Invalidated(l) == [l EXCEPT !.active = FALSE]

=============================================================================
