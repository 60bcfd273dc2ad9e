------------------------------ MODULE RfOutput ------------------------------
(***************************************************************************)
(* One port of an RF source and the write operations run on it through one   *)
(* session, one after the other (services/rf_source_service.py).             *)
(*                                                                           *)
(* An operation reads the port and refuses what does not suit it, writes     *)
(* once, and reads again.  What it cannot confirm leaves the session         *)
(* uncertain; a failed ON is followed by one OFF, a failed OFF poisons the   *)
(* session.  The port may obey, ignore a command, or change something else   *)
(* with it; the transport, the driver or an interrupt may end any step.      *)
(***************************************************************************)
EXTENDS Naturals, Sequences

CONSTANTS
    Levels,        \* pairs of RF frequency and power
    Safe,          \* those within the descriptor's and the configured limits
    SafeModulated, \* and within the limits of the modulated output as well
    Profiles,      \* profiles of a pulse or of a sweep
    Declared,      \* the pulse profile the descriptor declares for the pulse output
    Modulations,   \* modulation modes, each with the values asked for
    NoValue,       \* an operation that takes no value
    Requests,      \* what the callers ask for
    NoRequest,
    MaxMoves       \* bound: front-panel actions between two calls

\* The values an operation may be asked for.
ValuesOf ==
    [cw                 |-> Levels,
     pulse              |-> Profiles,
     sweep              |-> Profiles,
     modulation         |-> Modulations,
     modulation_disable |-> Modulations,
     pulse_output_on    |-> {NoValue},
     pulse_output_off   |-> {NoValue},
     output_on          |-> {NoValue},
     output_off         |-> {NoValue},
     modulated_output   |-> Modulations]

Kinds == DOMAIN ValuesOf
Ons == {"output_on", "modulated_output"}
Offs == {"output_off", "pulse_output_off"}

RequestType == UNION {[kind : {k}, value : ValuesOf[k]] : k \in Kinds}

\* `modes`: the modulation modes in force.  `busy`: Pulse or Sweep is running.
\* `aux`: the physical pulse output.  `alarm`: the active protection condition.
PortType ==
    [out : BOOLEAN, level : Levels, modes : SUBSET Modulations, pulse : Profiles,
     sweep : Profiles, busy : BOOLEAN, aux : BOOLEAN, alarm : {"none", "notice", "blocking"}]

Healthy == "healthy"
Uncertain == "uncertain"
Poisoned == "poisoned"
Health == {Healthy, Uncertain, Poisoned}

ASSUME RfAssumption ==
    /\ SafeModulated \subseteq Safe /\ Safe \subseteq Levels
    /\ Declared \in Profiles
    /\ Requests \subseteq RequestType
    /\ NoRequest \notin RequestType
    /\ MaxMoves \in Nat

VARIABLES
    health,    \* the session's health
    port,      \* the port as it really is
    op,        \* the request in progress, or the last one when pc = "idle"
    pc,        \* what the service does next
    sent,      \* the commands of the operation handed to the driver, in order
    recovery,  \* the status _recover_rf_output_off reports
    failed,    \* the call raises
    moves,     \* front-panel actions since the call began
    touched    \* ghost: the last of them came after the last reading that passed

vars == <<health, port, op, pc, sent, recovery, failed, moves, touched>>

Steps == {"idle", "preflight", "main", "verify", "switch_off", "verify_off"}
Statuses == {"none", "not_attempted", "off_failed", "off_sent_unverified", "off_verified"}

TypeOK ==
    /\ health \in Health
    /\ port \in PortType
    /\ op \in Requests \union {NoRequest}
    /\ pc \in Steps
    /\ sent \in {<<>>, <<"on">>, <<"off">>, <<"set">>, <<"on", "off">>}
    /\ recovery \in Statuses
    /\ failed \in BOOLEAN
    /\ moves \in 0..MaxMoves
    /\ touched \in BOOLEAN

Init ==
    /\ health = Healthy
    /\ port \in PortType
    /\ op = NoRequest /\ pc = "idle"
    /\ sent = <<>> /\ recovery = "none" /\ failed = FALSE
    /\ moves = 0 /\ touched = FALSE

-----------------------------------------------------------------------------
(* What the service reads and requires.                                      *)

\* _validate_cw_preflight and its like; no protection condition may be active.
Quiet(d) == ~d.out /\ ~d.busy /\ d.alarm = "none"

\* _validate_output_enable_snapshot, _validate_modulated_output_enable_snapshot.
Emittable(d, r) ==
    /\ ~d.busy /\ d.alarm # "blocking"
    /\ d.level \in IF r.kind = "output_on" THEN Safe ELSE SafeModulated

\* A port with these modes in force suits the operation, before or after it.
Suits(d, r, modes) ==
    \/ r.kind \in Offs
    \/ r.kind \in Ons /\ Emittable(d, r) /\ d.modes = modes
    \/ /\ r.kind \notin Ons \union Offs
       /\ Quiet(d) /\ d.modes = modes
       /\ r.kind = "pulse_output_on" => d.pulse = Declared

\* The port as the command should leave it.
Asked(d, r) ==
    CASE r.kind = "cw" -> [d EXCEPT !.level = r.value]
      [] r.kind = "pulse" -> [d EXCEPT !.pulse = r.value]
      [] r.kind = "sweep" -> [d EXCEPT !.sweep = r.value]
      [] r.kind = "modulation" -> [d EXCEPT !.modes = {r.value}]
      [] r.kind = "modulation_disable" -> [d EXCEPT !.modes = {}]
      [] r.kind = "pulse_output_on" -> [d EXCEPT !.aux = TRUE]
      [] r.kind = "pulse_output_off" -> [d EXCEPT !.aux = FALSE]
      [] r.kind \in Ons -> [d EXCEPT !.out = TRUE]
      [] r.kind = "output_off" -> [d EXCEPT !.out = FALSE]

ModesBefore(r) == IF r.kind \in {"modulation_disable", "modulated_output"} THEN {r.value} ELSE {}
ModesAfter(r) == IF r.kind \in {"modulation", "modulated_output"} THEN {r.value} ELSE {}

\* Mutant: an output is switched on over whatever settings it has.
EnablesBlindly(d, r) ==
    /\ r.kind \notin Ons => Suits(d, r, ModesBefore(r))
    /\ r.kind = "modulated_output" => ~d.out

\* The preflight reading lets the operation write.
Ready(d, r) ==
    /\ Suits(d, r, ModesBefore(r))
    /\ r.kind = "modulated_output" => ~d.out

\* The postcondition reading confirms it.
Confirmed(d, r) == Suits(d, r, ModesAfter(r)) /\ Asked(d, r) = d

\* Only these return without a write when there is nothing to do.
Skippable == {"modulation_disable", "pulse_output_on", "pulse_output_off", "output_on", "output_off"}
Skips(d, r) == r.kind \in Skippable /\ Confirmed(d, r)

Command(r) == IF r.kind \in Ons THEN "on" ELSE IF r.kind = "output_off" THEN "off" ELSE "set"

\* What a step that ends early makes of the session: nothing if nothing was
\* sent, or if the driver, a validator or an interrupt raised.
AfterFailure(h) == {h, IF h = Healthy THEN Uncertain ELSE h, Poisoned}

\* Mutant: a failed configuration or OFF that the transport saw nothing wrong
\* with leaves the session as it is.
DegradesOnsOnly(h, r) == IF r.kind \in Ons /\ h = Healthy THEN Uncertain ELSE h

\* The handlers behind main_entered.
Degraded(h, r) ==
    IF r.kind = "output_off" THEN Poisoned ELSE IF h = Healthy THEN Uncertain ELSE h

\* One aspect of the port changed.
Nudged(d) ==
    {[d EXCEPT !.out = ~@], [d EXCEPT !.busy = ~@], [d EXCEPT !.aux = ~@]}
    \union {[d EXCEPT !.level = l] : l \in Levels}
    \union {[d EXCEPT !.modes = m] : m \in SUBSET Modulations}
    \union {[d EXCEPT !.pulse = p] : p \in Profiles}
    \union {[d EXCEPT !.sweep = p] : p \in Profiles}
    \union {[d EXCEPT !.alarm = a] : a \in {"none", "notice", "blocking"}}

\* The port ignores a command, obeys it, or does one thing more or less.
Outcomes(d, r) == {d} \union Nudged(Asked(d, r))

-----------------------------------------------------------------------------
Begin(r) ==
    /\ pc = "idle" /\ health = Healthy
    /\ op' = r /\ pc' = "preflight"
    /\ sent' = <<>> /\ recovery' = "none" /\ failed' = FALSE
    /\ moves' = 0
    /\ UNCHANGED <<health, port, touched>>

\* An output whose state cannot be read is switched off all the same.
PassPreflight ==
    /\ pc = "preflight"
    /\ Ready(port, op)
    /\ Skips(port, op) => op.kind = "output_off"
    /\ touched' = FALSE
    /\ pc' = "main"
    /\ UNCHANGED <<health, port, op, sent, recovery, failed, moves>>

NothingToDo ==
    /\ pc = "preflight"
    /\ Skips(port, op)
    /\ touched' = FALSE
    /\ pc' = "idle"
    /\ UNCHANGED <<health, port, op, sent, recovery, failed, moves>>

\* The port cannot be read, or does not suit the operation.
FailPreflight ==
    /\ pc = "preflight"
    /\ health' \in AfterFailure(health)
    /\ failed' = TRUE /\ pc' = "idle"
    /\ UNCHANGED <<port, op, sent, recovery, moves, touched>>

Send ==
    /\ pc = "main"
    /\ sent' = Append(sent, Command(op))
    /\ port' \in Outcomes(port, op)
    /\ pc' = "verify"
    /\ UNCHANGED <<health, op, recovery, failed, moves, touched>>

\* Mutant: a session the failure has left uncertain is not recovered.
RecoversHealthyOnly(h) ==
    /\ health' = Degraded(h, op)
    /\ failed' = TRUE
    /\ IF op.kind \in Ons /\ h = Healthy
       THEN pc' = "switch_off" /\ UNCHANGED recovery
       ELSE pc' = "idle" /\ recovery' = IF op.kind \in Ons THEN "not_attempted" ELSE recovery

\* The operation raises after its write was begun and the failure has left the
\* session in health h: a failed ON is followed by _recover_rf_output_off.
Fail(h) ==
    /\ health' = Degraded(h, op)
    /\ failed' = TRUE
    /\ IF op.kind \in Ons /\ health' # Poisoned
       THEN pc' = "switch_off" /\ UNCHANGED recovery
       ELSE pc' = "idle" /\ recovery' = IF op.kind \in Ons THEN "not_attempted" ELSE recovery

\* The command may or may not have reached the port.
FailSend ==
    /\ pc = "main"
    /\ sent' = Append(sent, Command(op))
    /\ port' \in Outcomes(port, op)
    /\ \E h \in AfterFailure(health) : Fail(h)
    /\ UNCHANGED <<op, moves, touched>>

Confirm ==
    /\ pc = "verify"
    /\ Confirmed(port, op)
    /\ touched' = FALSE
    /\ pc' = "idle"
    /\ UNCHANGED <<health, port, op, sent, recovery, failed, moves>>

\* The port cannot be read again, or shows something else.
FailConfirm ==
    /\ pc = "verify"
    /\ \E h \in AfterFailure(health) : Fail(h)
    /\ UNCHANGED <<port, op, sent, moves, touched>>

\* The one OFF, authorized for an uncertain session.
SwitchOff ==
    /\ pc = "switch_off"
    /\ sent' = Append(sent, "off")
    /\ port' \in Outcomes(port, [kind |-> "output_off", value |-> NoValue])
    /\ pc' = "verify_off"
    /\ UNCHANGED <<health, op, recovery, failed, moves, touched>>

\* A transport that fails under a recovery authorization poisons the session.
FailSwitchOff ==
    /\ pc = "switch_off"
    /\ sent' = Append(sent, "off")
    /\ port' \in Outcomes(port, [kind |-> "output_off", value |-> NoValue])
    /\ health' \in {health, Poisoned}
    /\ recovery' = "off_failed" /\ pc' = "idle"
    /\ UNCHANGED <<op, failed, moves, touched>>

VerifyOff ==
    /\ pc = "verify_off"
    /\ ~port.out
    /\ recovery' = "off_verified" /\ touched' = FALSE
    /\ pc' = "idle"
    /\ UNCHANGED <<health, port, op, sent, failed, moves>>

FailVerifyOff ==
    /\ pc = "verify_off"
    /\ health' \in {health, Poisoned}
    /\ recovery' = "off_sent_unverified" /\ pc' = "idle"
    /\ UNCHANGED <<port, op, sent, failed, moves, touched>>

-----------------------------------------------------------------------------
(* What is not the service.                                                  *)

\* Somebody uses the front panel, or a protection condition comes or goes.
UsePanel ==
    /\ moves < MaxMoves
    /\ moves' = moves + 1
    /\ port' \in Nudged(port)
    /\ touched' = TRUE
    /\ UNCHANGED <<health, op, pc, sent, recovery, failed>>

\* The user opens another session, which knows nothing of the port.
Reopen ==
    /\ pc = "idle" /\ health # Healthy
    /\ health' = Healthy
    /\ op' = NoRequest
    /\ sent' = <<>> /\ recovery' = "none" /\ failed' = FALSE
    /\ UNCHANGED <<port, pc, moves, touched>>

ServiceStep ==
    \/ PassPreflight \/ NothingToDo \/ FailPreflight
    \/ Send \/ FailSend
    \/ Confirm \/ FailConfirm
    \/ SwitchOff \/ FailSwitchOff
    \/ VerifyOff \/ FailVerifyOff

Next ==
    \/ \E r \in Requests : Begin(r)
    \/ ServiceStep
    \/ UsePanel
    \/ Reopen

Spec == Init /\ [][Next]_vars

-----------------------------------------------------------------------------
(* Properties.                                                               *)

\* An ON that was sent and not confirmed is followed by exactly one OFF, unless
\* the session was poisoned; no ordinary operation may use the session again,
\* and a recovery reported as verified has left the output off.
FailedOnIsSwitchedOff ==
    pc = "idle" /\ failed /\ sent # <<>> /\ op.kind \in Ons =>
        /\ health # Healthy
        /\ sent = <<"on", "off">> \/ (sent = <<"on">> /\ health = Poisoned)
        /\ recovery = "off_verified" /\ ~touched => ~port.out

\* A call that returns has left the port, or found it, as it was asked for; one
\* that wrote something and raised has taken the session out of use, and a
\* failed OFF for good.
HealthTellsTheTruth ==
    pc = "idle" /\ op # NoRequest =>
        /\ ~failed => health = Healthy /\ (touched \/ Asked(port, op) = port)
        /\ failed /\ sent # <<>> =>
             health # Healthy /\ (op.kind = "output_off" => health = Poisoned)

\* A port that may emit as the request has it: within the limits of its kind, with
\* the modulation asked for and no other, neither sweeping nor blocked.
Fits(d, r) ==
    /\ ~d.busy /\ d.alarm # "blocking"
    /\ \/ r.kind = "output_on" /\ d.level \in Safe /\ d.modes = {}
       \/ r.kind = "modulated_output" /\ d.level \in SafeModulated /\ d.modes = {r.value}

\* No ON is handed to the driver over settings outside the limits that earlier
\* calls, failed ones included, or a front panel left on the port; the panel after
\* the preflight reading apart.  And a call that returns with the output on leaves
\* it within them, whatever the port made of the command.
EmitsWithinLimits ==
    [][pc # "idle" /\ op.kind \in Ons =>
         /\ sent = <<>> /\ sent' = <<"on">> => touched \/ Fits(port, op)
         /\ pc' = "idle" /\ ~failed' => port'.out /\ Fits(port', op)]_vars

-----------------------------------------------------------------------------
(* The inductive invariant.                                                  *)

\* Nothing has gone wrong with an operation that has not sent its command.
PendingInv ==
    /\ pc # "idle" => op # NoRequest
    /\ pc \in {"preflight", "main"} => health = Healthy /\ sent = <<>> /\ ~failed
    /\ pc = "verify" => health = Healthy /\ sent = <<Command(op)>> /\ ~failed

\* What the preflight read holds until the write, up to the front panel.
ReadyInv == pc = "main" => touched \/ Ready(port, op)

\* A recovery runs for a failed ON, in a session that is uncertain.
RecoveryInv ==
    /\ pc \in {"switch_off", "verify_off"} =>
         op.kind \in Ons /\ failed /\ health = Uncertain
    /\ pc = "switch_off" => sent = <<"on">>
    /\ pc = "verify_off" => sent = <<"on", "off">>

RfInv ==
    /\ TypeOK
    /\ PendingInv
    /\ ReadyInv
    /\ RecoveryInv
    /\ FailedOnIsSwitchedOff
    /\ HealthTellsTheTruth
=============================================================================
