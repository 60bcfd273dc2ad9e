---------------------------- MODULE SourceContext ----------------------------
(***************************************************************************)
(* The operation context of one source mutation                             *)
(* (services/source_operation_context.py): which phase may follow which,    *)
(* which deadline bounds it, and the health the session is left with.       *)
(*                                                                          *)
(* The source services declare nothing restorable, so the baseline handle   *)
(* and the failure_restore phase are left out.  Nor do they complete the    *)
(* verification of a cleanup: what remains of it is the proof that the      *)
(* emergency outputs are OFF.                                               *)
(***************************************************************************)

Healthy == "healthy"
Uncertain == "uncertain"
Poisoned == "poisoned"
Health == {Healthy, Uncertain, Poisoned}

Phases == {"preflight", "main", "postcondition", "failure_safe_state",
           "cleanup_verification"}

\* main_deadline lies a reserve before deadline: time is left for main work,
\* only for the cleanup, or for nothing.
Clock == {"main", "reserve", "over"}

\* Mutant: every phase shares the deadline of the main phase.
NoReserve(p) == {"main"}

\* make_phase_spec: only the failure phases may use the reserve.
InTime(p) ==
    IF p \in {"failure_safe_state", "cleanup_verification"}
    THEN {"main", "reserve"} ELSE {"main"}

ContextType == [used    : SUBSET Phases,
                main    : BOOLEAN,   \* _main_entered
                failing : BOOLEAN,   \* _failure_required
                proven  : BOOLEAN,   \* _postcondition_verified
                safe    : BOOLEAN]   \* _safe_state_verified

FreshContext == [used |-> {}, main |-> FALSE, failing |-> FALSE,
                 proven |-> FALSE, safe |-> FALSE]

\* _validate_phase_order.
InOrder(x, p, emergency) ==
    /\ p \notin x.used
    /\ p = "preflight" => x.used = {}
    /\ p # "preflight" => "preflight" \in x.used
    /\ p = "main" => ~x.failing /\ "postcondition" \notin x.used
    /\ p = "postcondition" => x.main /\ ~x.failing
    /\ p = "failure_safe_state" => x.main /\ x.failing
    /\ p = "cleanup_verification" =>
         (emergency = {} \/ "failure_safe_state" \in x.used)

\* _validate_phase_spec: the safe-state phase needs an output to switch off.
MayEnter(x, p, emergency, clock) ==
    /\ clock \in InTime(p)
    /\ InOrder(x, p, emergency)
    /\ p = "failure_safe_state" => emergency # {}

Entered(x, p) == [x EXCEPT !.used = @ \union {p}, !.main = @ \/ p = "main"]

\* mark_failure_required.
FailureRequired(x) == [x EXCEPT !.failing = TRUE]

Conservative(h) == IF h = Healthy THEN Uncertain ELSE h

\* Mutant: a main phase nothing was read back after counts as done.
TrustsWrites(x, h) == IF x.failing /\ ~x.safe THEN Poisoned ELSE h

\* complete: a cleanup that proved nothing, or a main phase that was neither
\* verified nor cleaned up, poisons the session.
FinalHealth(x, h) ==
    IF (x.failing /\ ~x.safe) \/ (~x.failing /\ x.main /\ ~x.proven)
    THEN Poisoned ELSE h
=============================================================================
