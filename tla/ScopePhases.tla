---------------------------- MODULE ScopePhases -----------------------------
(***************************************************************************)
(* The operation context of one scope operation                             *)
(* (services/scope_phase_coordinator.py): which phase may follow which,     *)
(* which deadline bounds it, and when a cleanup leaves the session poisoned.*)
(***************************************************************************)

Healthy == "healthy"
Uncertain == "uncertain"
Poisoned == "poisoned"
Health == {Healthy, Uncertain, Poisoned}

RestorePhases == {"success_restore", "failure_cleanup"}

Phases == {"preflight", "error_before", "main", "error_after", "cleanup_verification"}
          \union RestorePhases

\* main_deadline lies a reserve before deadline: time is left for all phases,
\* only for the cleanup, or for none.
Clock == {"main", "reserve", "over"}

\* Mutant: every phase shares the deadline of the main phase.
NoReserve(p) == {"main"}

\* make_phase_spec, _validate_phase_spec: only the cleanup may use the reserve.
InTime(p) ==
    IF p \in RestorePhases \union {"cleanup_verification"}
    THEN {"main", "reserve"} ELSE {"main"}

\* _validate_phase_order.
InOrder(used, p) ==
    /\ p \notin used
    /\ p = "preflight" => used = {}
    /\ p # "preflight" => "preflight" \in used
    /\ p = "error_before" => "main" \notin used
    /\ p = "main" => used \intersect (RestorePhases \union {"error_after"}) = {}
    /\ p \in RestorePhases \union {"error_after"} =>
         "main" \in used /\ used \intersect RestorePhases = {}
    /\ p = "cleanup_verification" => used \intersect RestorePhases # {}

\* authorize_phase, for the session's health as well: a main phase needs a
\* healthy session, every other one a session that is not poisoned.
MayEnter(used, p, clock, health) ==
    /\ clock \in InTime(p)
    /\ InOrder(used, p)
    /\ health # Poisoned
    /\ p = "main" => health = Healthy

\* BaselineUseState; "none" when no handle was created.  A handle that was
\* given to the main phase is "passed".
Baseline == {"none", "passed", "restore_attempted", "verify_attempted", "consumed"}

\* mark_cleanup_required.
Conservative(h) == IF h = Healthy THEN Uncertain ELSE h

\* Mutant: a baseline that was used up counts as restored.
TrustsConsumption(required, baseline, verified, h) ==
    IF required /\ baseline \notin {"none", "consumed"} THEN Poisoned ELSE h

\* complete: a cleanup that is unfinished or was not verified poisons the session.
FinalHealth(required, baseline, verified, h) ==
    IF required /\ (baseline \notin {"none", "consumed"} \/ ~verified) THEN Poisoned ELSE h
=============================================================================
