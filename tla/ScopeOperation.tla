--------------------------- MODULE ScopeOperation ---------------------------
(***************************************************************************)
(* One persistent session of a scope and the phased operations run on it     *)
(* one after the other: services/scope_extension_service.py and the two      *)
(* executors scope_waveform_executor.py, scope_average_capture_executor.py.  *)
(*                                                                           *)
(* An operation reads the settings it is going to change (preflight), drains *)
(* the error queue if asked to, does its work (main), drains the queue       *)
(* again, and writes the settings back if they were only lent or if it       *)
(* failed (restore), which a last reading must confirm (verify).  Each phase *)
(* is one action: what the device answers or ignores in it, and how the      *)
(* transport or the driver fails, is chosen freely.                          *)
(***************************************************************************)
EXTENDS ScopePhases, Naturals

CONSTANTS
    Settings,    \* values of the settings an operation changes or borrows
    Stopped,     \* what each of them becomes when only the acquisition is stopped
    NoSetting,   \* nothing read yet
    Requests,    \* what the callers ask for
    NoRequest,
    MaxMoves     \* bound: front-panel actions in one operation

\* `baseline`: when a handle for the settings is created.  `lends`: the
\* settings are borrowed and always written back.  `early`: a session poisoned
\* by the main phase is not cleaned up at all.  `halts`: what is written back
\* after a failure is a stopped scope, whatever its run state was.
Transfer == [baseline |-> "always", lends |-> TRUE, early |-> FALSE, halts |-> FALSE]
Bounded  == [Transfer EXCEPT !.early = TRUE]
Control  == [Transfer EXCEPT !.lends = FALSE, !.halts = TRUE]
Setup    == [baseline |-> "on_change", lends |-> FALSE, early |-> FALSE, halts |-> FALSE]
Stop     == [Setup EXCEPT !.baseline = "stop"]
Read     == [Setup EXCEPT !.baseline = "never"]

Contract ==
    [screenshot          |-> Transfer,
     screenshot_plain    |-> Read,      \* a variant that changes no field
     fetch_trace         |-> Transfer,
     waveform            |-> Bounded,
     average_capture     |-> Bounded,
     channel_display     |-> Setup,
     focus               |-> Setup,
     acquisition_start   |-> Control,
     acquisition_single  |-> Control,
     acquisition_stop    |-> Stop,
     screenshot_profile  |-> Read,
     run_state           |-> Read,
     trace_metadata      |-> Read]

Kinds == DOMAIN Contract

\* `asked` is the setting wanted, `checks` when the error queue is drained.
RequestType == [kind : Kinds, asked : Settings, checks : SUBSET {"before", "after"}]

ASSUME ScopeAssumption ==
    /\ NoSetting \notin Settings
    /\ Stopped \in [Settings -> Settings]
    /\ Requests \subseteq RequestType
    /\ NoRequest \notin RequestType
    /\ MaxMoves \in Nat

VARIABLES
    health,    \* the session's health
    device,    \* the settings the scope really has
    op,        \* the request in progress
    pc,        \* the phase that comes next
    used,      \* _used_phases
    clock,     \* how much of the operation's deadline is left
    snap,      \* the settings preflight read
    baseline,  \* BaselineUseState of the handle
    restored,  \* restore_succeeded
    required,  \* _cleanup_required
    verified,  \* verification_succeeded, _cleanup_verified_without_baseline
    failed,    \* the call will raise
    moves,     \* front-panel actions in this operation
    touched    \* ghost: the last of them came after the last reading that passed

opVars == <<op, pc, used, clock, snap, baseline, restored, required, verified, failed>>
vars == <<health, device, opVars, moves, touched>>

Steps == {"idle", "preflight", "before", "main", "after", "settle", "restore",
          "verify", "complete"}

TypeOK ==
    /\ health \in Health
    /\ device \in Settings
    /\ op \in Requests \union {NoRequest}
    /\ pc \in Steps
    /\ (pc = "idle") = (op = NoRequest)
    /\ used \in SUBSET Phases
    /\ clock \in Clock
    /\ snap \in Settings \union {NoSetting}
    /\ baseline \in Baseline
    /\ restored \in BOOLEAN /\ required \in BOOLEAN
    /\ verified \in BOOLEAN /\ failed \in BOOLEAN
    /\ moves \in 0..MaxMoves
    /\ touched \in BOOLEAN

Init ==
    /\ health = Healthy
    /\ device \in Settings
    /\ op = NoRequest /\ pc = "idle"
    /\ used = {} /\ clock = "main" /\ snap = NoSetting
    /\ baseline = "none" /\ restored = FALSE /\ required = FALSE
    /\ verified = FALSE /\ failed = FALSE
    /\ moves = 0 /\ touched = FALSE

-----------------------------------------------------------------------------
MayStart(p) == MayEnter(used, p, clock, health)

Creates(r, d) ==
    \/ Contract[r.kind].baseline = "always"
    \/ Contract[r.kind].baseline = "on_change" /\ d # r.asked

\* The main phase sends the scope something that may change its settings.
Writes == baseline # "none" \/ Contract[op.kind].baseline = "stop"

\* What a phase makes of the session: nothing, if it was refused, an interrupt
\* ended it or every exchange in it succeeded, and less health after one that failed.  Whether the
\* driver lets that failure through is its own affair: nobody looks at the health
\* before the next phase begins.
AfterPhase(p) ==
    {health} \union
    (IF ~MayStart(p) THEN {}
     ELSE IF p \in RestorePhases THEN {Poisoned} ELSE {Conservative(health), Poisoned})

Attempted(p) == IF MayStart(p) THEN used \union {p} ELSE used

\* The context is built for a healthy session.
Begin(r) ==
    /\ op = NoRequest /\ health = Healthy
    /\ op' = r /\ pc' = "preflight"
    /\ UNCHANGED <<health, device, used, clock, snap, baseline, restored, required,
                   verified, failed, moves, touched>>

AfterMain == IF "after" \in op.checks THEN "after" ELSE "settle"

PassPreflight ==
    /\ pc = "preflight" /\ MayStart("preflight")
    /\ used' = {"preflight"}
    /\ snap' = device
    /\ baseline' = IF Creates(op, device) THEN "passed" ELSE "none"
    /\ touched' = FALSE
    /\ pc' = IF "before" \in op.checks THEN "before" ELSE "main"
    /\ UNCHANGED <<health, device, op, clock, restored, required, verified, failed, moves>>

\* The identity or the settings cannot be read, or do not allow the operation.
FailPreflight ==
    /\ pc = "preflight"
    /\ health' \in AfterPhase("preflight")
    /\ used' = Attempted("preflight")
    /\ failed' = TRUE /\ pc' = "complete"
    /\ UNCHANGED <<device, op, clock, snap, baseline, restored, required, verified,
                   moves, touched>>

CheckPhase == IF pc = "before" THEN "error_before" ELSE "error_after"

\* The error queue is drained, or holds nothing that must stop the operation.
PassCheck ==
    /\ pc \in {"before", "after"} /\ MayStart(CheckPhase)
    /\ used' = used \union {CheckPhase}
    /\ health' \in AfterPhase(CheckPhase)
    /\ pc' = IF pc = "before" THEN "main" ELSE "settle"
    /\ UNCHANGED <<device, op, clock, snap, baseline, restored, required, verified,
                   failed, moves, touched>>

FailCheck ==
    /\ pc \in {"before", "after"}
    /\ health' \in AfterPhase(CheckPhase)
    /\ used' = Attempted(CheckPhase)
    /\ failed' = TRUE
    /\ pc' = IF pc = "before" THEN "complete" ELSE "settle"
    /\ UNCHANGED <<device, op, clock, snap, baseline, restored, required, verified, moves,
                   touched>>

\* The driver's result is accepted: the settings were read to be as asked,
\* unless they were only lent.  A driver that catches a failed exchange and tries
\* again gives a good result on a session that is healthy no more.
Main ==
    /\ pc = "main" /\ MayStart("main")
    /\ used' = used \union {"main"}
    /\ CASE ~Writes -> UNCHANGED <<device, touched>>
         [] Writes /\ Contract[op.kind].lends -> device' \in Settings /\ UNCHANGED touched
         [] Writes /\ ~Contract[op.kind].lends -> device' = op.asked /\ touched' = FALSE
    /\ health' \in AfterPhase("main")
    /\ pc' = AfterMain
    /\ UNCHANGED <<op, clock, snap, baseline, restored, required, verified, failed, moves>>

\* The driver raises or its result is refused, whatever was written before.
FailMain ==
    /\ pc = "main" /\ MayStart("main")
    /\ used' = used \union {"main"}
    /\ IF Writes THEN device' \in Settings ELSE UNCHANGED device
    /\ health' \in AfterPhase("main")
    /\ failed' = TRUE /\ pc' = "settle"
    /\ UNCHANGED <<op, clock, snap, baseline, restored, required, verified, moves, touched>>

\* Mutant: a main phase that is refused goes unnoticed.
ForgetsRefusal ==
    /\ pc = "main" /\ ~MayStart("main")
    /\ pc' = "settle"
    /\ UNCHANGED <<health, device, op, used, clock, snap, baseline, restored, required,
                   verified, failed, moves, touched>>

\* The time of the main phase is over before it begins, or the first draining
\* has cost the session its health.
RefuseMain ==
    /\ pc = "main" /\ ~MayStart("main")
    /\ failed' = TRUE /\ pc' = "settle"
    /\ UNCHANGED <<health, device, op, used, clock, snap, baseline, restored, required,
                   verified, moves, touched>>

\* Mutant: only a failed operation is cleaned up.
KeepsWhatWasLent == "main" \in used /\ Writes /\ failed

\* Whether the settings are written back; the executors leave a session that
\* the main phase has poisoned alone.
Cleans ==
    /\ "main" \in used /\ Writes
    /\ failed \/ Contract[op.kind].lends
    /\ ~(Contract[op.kind].early /\ health = Poisoned)

\* mark_cleanup_required, or consume_baseline_after_success.
Settle ==
    /\ pc = "settle"
    /\ IF Cleans
       THEN /\ required' = TRUE /\ health' = Conservative(health) /\ pc' = "restore"
            /\ UNCHANGED baseline
       ELSE /\ baseline' = IF ~failed /\ baseline = "passed" THEN "consumed" ELSE baseline
            /\ pc' = "complete"
            /\ UNCHANGED <<required, health>>
    /\ UNCHANGED <<device, op, used, clock, snap, restored, verified, failed, moves, touched>>

RestorePhase == IF failed THEN "failure_cleanup" ELSE "success_restore"

\* What is written back, and must be read back: for the control of acquisitions
\* the settings preflight read with the scope stopped, never the run state it read.
Wanted ==
    CASE Contract[op.kind].baseline = "stop" -> op.asked
      [] Contract[op.kind].halts -> Stopped[snap]
      [] OTHER -> snap

\* One attempt; `ok` when the driver reports it completed.  Without a handle a
\* failure ends the cleanup, with one the verification is attempted anyway,
\* unless the session is poisoned: a driver that says "completed" after a failed
\* exchange leaves it that way and the call returns.
Restore(ok) ==
    /\ pc = "restore" /\ MayStart(RestorePhase)
    /\ used' = used \union {RestorePhase}
    /\ device' \in Settings
    /\ baseline' = IF baseline = "none" THEN "none" ELSE "restore_attempted"
    /\ restored' = ok
    /\ health' \in AfterPhase(RestorePhase)
    /\ failed' = (failed \/ ~ok)
    /\ pc' = IF health' = Poisoned \/ (~ok /\ baseline = "none") THEN "complete" ELSE "verify"
    /\ UNCHANGED <<op, clock, snap, required, verified, moves, touched>>

RefuseRestore ==
    /\ pc = "restore" /\ ~MayStart(RestorePhase)
    /\ failed' = TRUE
    /\ pc' = IF health = Poisoned \/ baseline = "none" THEN "complete" ELSE "verify"
    /\ UNCHANGED <<health, device, op, used, clock, snap, baseline, restored, required,
                   verified, moves, touched>>

MayVerify ==
    /\ pc = "verify" /\ MayStart("cleanup_verification")
    /\ baseline \in {"none", "restore_attempted"}

\* finish_verification and complete_phase_verification make the session healthy.
Verify ==
    /\ MayVerify
    /\ restored /\ device = Wanted
    /\ used' = used \union {"cleanup_verification"}
    /\ baseline' = IF baseline = "none" THEN "none" ELSE "consumed"
    /\ verified' = TRUE /\ health' = Healthy /\ touched' = FALSE
    /\ pc' = "complete"
    /\ UNCHANGED <<device, op, clock, snap, restored, required, failed, moves>>

\* The phase is refused, the reading fails, or it shows something else; only
\* then is the baseline used up.
FailVerify ==
    /\ pc = "verify"
    /\ used' = Attempted("cleanup_verification")
    /\ IF MayVerify /\ baseline = "restore_attempted"
       THEN \/ baseline' = "verify_attempted" /\ health' \in AfterPhase("cleanup_verification")
            \/ baseline' = "consumed" /\ UNCHANGED health
       ELSE health' \in AfterPhase("cleanup_verification") /\ UNCHANGED baseline
    /\ failed' = TRUE /\ pc' = "complete"
    /\ UNCHANGED <<device, op, clock, snap, restored, required, verified, moves, touched>>

Complete ==
    /\ pc = "complete"
    /\ health' = FinalHealth(required, baseline, verified, health)
    /\ op' = NoRequest /\ pc' = "idle"
    /\ used' = {} /\ clock' = "main" /\ snap' = NoSetting
    /\ baseline' = "none" /\ restored' = FALSE /\ required' = FALSE
    /\ verified' = FALSE /\ failed' = FALSE
    /\ moves' = 0 /\ touched' = FALSE
    /\ UNCHANGED device

-----------------------------------------------------------------------------
(* What is not the service.                                                  *)

\* Time passes until the main deadline and then until the last one.
Tick ==
    /\ op # NoRequest /\ clock # "over"
    /\ clock' = IF clock = "main" THEN "reserve" ELSE "over"
    /\ UNCHANGED <<health, device, op, pc, used, snap, baseline, restored, required,
                   verified, failed, moves, touched>>

\* Somebody uses the front panel while an operation is running.
UsePanel ==
    /\ op # NoRequest /\ moves < MaxMoves
    /\ moves' = moves + 1
    /\ device' \in Settings
    /\ touched' = TRUE
    /\ UNCHANGED <<health, opVars>>

\* The user closes a session that is of no more use and opens another.
Reopen ==
    /\ op = NoRequest /\ health # Healthy
    /\ health' = Healthy
    /\ UNCHANGED <<device, opVars, moves, touched>>

ServiceStep ==
    \/ PassPreflight \/ FailPreflight
    \/ PassCheck \/ FailCheck
    \/ Main \/ FailMain \/ RefuseMain
    \/ Settle
    \/ \E ok \in BOOLEAN : Restore(ok)
    \/ RefuseRestore
    \/ Verify \/ FailVerify
    \/ Complete

Next ==
    \/ \E r \in Requests : Begin(r)
    \/ ServiceStep
    \/ Tick
    \/ UsePanel
    \/ Reopen

Spec == Init /\ [][Next]_vars

-----------------------------------------------------------------------------
(* Properties.                                                               *)

Finished == op # NoRequest /\ op' = NoRequest

\* The settings an operation leaves behind: what was asked for if it returned,
\* and what is written back if it failed or had only borrowed them.
Settled ==
    device = IF Contract[op.kind].baseline # "never" /\ ~(failed \/ Contract[op.kind].lends)
             THEN op.asked ELSE Wanted

\* An operation whose main phase was entered ends with the settings where they
\* belong or with the session poisoned, whatever failed, was refused or ran out of
\* time on the way; the front panel after the last reading apart.
SettledOrPoisoned ==
    [][Finished /\ "main" \in used /\ ~touched /\ health' # Poisoned => Settled]_vars

\* An operation that returns a result has done its work, has drained the error
\* queue whenever it was asked to, and leaves the settings as asked, even if the
\* driver has hidden a failed exchange and the session is of no more use.  What it
\* had borrowed is back, or the session is poisoned: it is never left in between,
\* uncertain.
ResultIsTrue ==
    [][Finished /\ ~failed =>
         /\ "main" \in used
         /\ "before" \in op.checks => "error_before" \in used
         /\ "after" \in op.checks => "error_after" \in used
         /\ touched \/ Settled \/ (Contract[op.kind].lends /\ health' = Poisoned)
         /\ Contract[op.kind].lends => health' # Uncertain]_vars

\* The rules for phases and deadlines never stand in the way of a cleanup: until
\* the last deadline a session that is not poisoned may be written back to, and
\* what was written back may be read.
CleanupIsForeseen ==
    clock # "over" /\ health # Poisoned =>
        /\ pc = "restore" => MayStart(RestorePhase)
        /\ pc = "verify" /\ used \intersect RestorePhases # {} => MayVerify

-----------------------------------------------------------------------------
(* The inductive invariant.                                                  *)

Cleanup == RestorePhases \union {"cleanup_verification"}

\* Whether a handle exists is a matter of the operation and of what preflight
\* read.
BaselineInv ==
    /\ "preflight" \in used /\ pc # "complete" => snap \in Settings
    /\ baseline # "none" => Contract[op.kind].baseline \in {"always", "on_change"}
    /\ "main" \in used /\ Contract[op.kind].baseline = "always" => baseline # "none"
    /\ pc \in {"before", "main"} =>
         /\ snap \in Settings
         /\ Contract[op.kind].baseline = "always" => baseline # "none"
         /\ Contract[op.kind].baseline = "on_change" /\ baseline = "none" => snap = op.asked

\* What the phases already behind an operation have done to its record.
PhaseInv ==
    /\ pc = "idle" =>
         /\ used = {} /\ baseline = "none" /\ moves = 0
         /\ ~restored /\ ~required /\ ~verified /\ ~failed
    /\ pc \in {"preflight", "before"} => health = Healthy
    /\ pc \in {"preflight", "before", "main", "after"} => ~failed
    /\ pc \in {"preflight", "before", "main", "after", "settle"} => ~required
    /\ pc \notin {"idle", "complete"} => ~verified
    /\ pc = "preflight" => used = {} /\ baseline = "none"
    /\ pc = "before" => used = {"preflight"}
    /\ pc = "main" => "preflight" \in used /\ used \subseteq {"preflight", "error_before"}
    /\ pc = "after" =>
         /\ {"preflight", "main"} \subseteq used
         /\ used \subseteq {"preflight", "error_before", "main"}
    /\ pc \in {"settle", "restore"} => "preflight" \in used /\ used \intersect Cleanup = {}
    /\ pc \in {"preflight", "before", "main", "after", "settle", "restore"} =>
         baseline \in {"none", "passed"}
    /\ pc = "verify" =>
         /\ {"preflight", "main"} \subseteq used /\ "cleanup_verification" \notin used
         /\ used \intersect RestorePhases # {} => baseline \in {"none", "restore_attempted"}
    /\ pc \in {"restore", "verify"} =>
         /\ "main" \in used /\ required /\ Writes
         /\ failed \/ Contract[op.kind].lends

\* The settings, as long as the front panel is left alone.
DeviceInv ==
    ~touched =>
        /\ pc \in {"before", "main"} => device = snap
        /\ pc \in {"after", "settle"} /\ "main" \in used /\ ~Writes => device = snap
        /\ pc \in {"after", "settle"} /\ "main" \in used /\ ~failed /\ ~Contract[op.kind].lends =>
             Settled
        /\ /\ pc = "complete" /\ "main" \in used
           /\ \/ FinalHealth(required, baseline, verified, health) # Poisoned
              \/ ~failed /\ ~Contract[op.kind].lends
           => Settled

\* What is known of an operation that has not failed.
ResultInv ==
    op # NoRequest /\ ~failed =>
        /\ pc \in {"main", "after", "settle", "restore", "verify", "complete"} =>
             ("before" \in op.checks => "error_before" \in used)
        /\ pc \in {"after", "settle", "restore", "verify", "complete"} => "main" \in used
        /\ pc \in {"settle", "restore", "verify", "complete"} =>
             ("after" \in op.checks => "error_after" \in used)
        /\ pc = "complete" /\ Contract[op.kind].lends =>
             FinalHealth(required, baseline, verified, health) # Uncertain

ScopeInv ==
    /\ TypeOK
    /\ BaselineInv
    /\ PhaseInv
    /\ DeviceInv
    /\ ResultInv
=============================================================================
