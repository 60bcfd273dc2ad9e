-------------------------- MODULE SourceTransaction --------------------------
(***************************************************************************)
(* One persistent session of a signal source and the Source V2 operations    *)
(* a service runs on it, one after the other (services/source_service.py).   *)
(*                                                                           *)
(* An operation reads the device (preflight), sends one write (main), reads  *)
(* the device again (postcondition), and if that fails switches its          *)
(* emergency outputs OFF and reads them back.  Each phase is one action: the *)
(* session's transaction lock is held inside a phase and free between two,   *)
(* and what the device answers in between is seen by the next phase only.    *)
(* The device may ignore a write, do more than it was asked, or be operated  *)
(* from its front panel between two phases.                                  *)
(***************************************************************************)
EXTENDS SourceContext, SourceContracts, FiniteSets, Naturals

CONSTANTS
    Channels,      \* channel numbers of the source
    Edges,         \* pairs of channels a relation may couple
    Settings,      \* the features of a channel that this instance tells apart
    Setups,        \* values of a feature; NoSetup when it is inactive
    NoSetup,
    Starts,        \* what earlier users left on the device
    Panel,         \* <<channel, feature>> pairs the front panel is used on
    Requests,      \* the operations the callers ask for
    NoRequest,
    CanSwitchOff,  \* the driver declares and has set_source_output_v2
    Interlocks,    \* implicit_disable_features: what a sweep must find, and leave, inactive
    MaxOps,        \* bound: operations
    MaxMoves       \* bound: front-panel actions

Levels == {"low", "high", "keep"}

\* `level` and `setup` are the requested values, `expect` the stored digest a
\* storage write replaces, `want` the requested state of a relation.
RequestType ==
    [kind   : Kinds,
     chans  : SUBSET Channels,
     level  : Levels,
     setup  : Setups,
     expect : Setups,
     want   : BOOLEAN]

DeviceType ==
    [on    : SUBSET Channels,                      \* outputs that are ON
     high  : SUBSET Channels,                      \* levels beyond the limits
     setup : [Channels -> [Settings -> Setups]],
     links : SUBSET Edges,                         \* relations that are active
     graph : SUBSET Edges]                         \* relations that exist

ASSUME SourceAssumption ==
    /\ Channels \subseteq Nat
    /\ IsFiniteSet(Channels)
    /\ Edges \subseteq SUBSET Channels
    /\ Settings \subseteq Features
    /\ Interlocks \subseteq {"burst", "modulation"}
    /\ NoSetup \in Setups
    /\ Starts \subseteq DeviceType
    /\ Panel \subseteq Channels \X Settings
    /\ Requests \subseteq RequestType
    /\ \A r \in Requests :
          /\ Contract[r.kind].reach = "channel" => \E c \in Channels : r.chans = {c}
          /\ r.kind = "cross_channel" => r.chans \in Edges
          /\ Contract[r.kind].writes # "level" => r.level = "keep"
          /\ Contract[r.kind].writes \in Settings \union {"level", "output", "relation"}
    /\ NoRequest \notin RequestType
    /\ CanSwitchOff \in BOOLEAN
    /\ MaxOps \in Nat /\ MaxMoves \in Nat

VARIABLES
    health,     \* the session's health
    device,     \* the instrument as it really is
    op,         \* the request in progress
    pc,         \* the phase that comes next
    ctx,        \* SourceOperationContextCoordinator
    clock,      \* how much of the operation's deadline is left
    closure,    \* the channels the operation answers for, frozen at its start
    before,     \* outputs the preflight snapshot showed as ON
    sent,       \* outputs an emergency OFF was sent to
    missed,     \* one of them was not confirmed by the driver
    receipts,   \* _v2_fire_receipts: <<feature, channel, setup>>
    ops, moves, \* counts up to MaxOps, MaxMoves
    \* What the code has no variable for:
    wrote,      \* the main write of this operation changed the device
    moved       \* the front panel was used, and since when

opVars == <<op, pc, ctx, closure, before, sent, missed>>
ghostVars == <<wrote, moved>>
vars == <<health, device, opVars, clock, receipts, ops, moves, ghostVars>>

Steps == {"idle", "preflight", "main", "postcondition", "failed", "safe_state",
          "verify", "complete"}

ReceiptType == {"sweep", "burst"} \X Channels \X Setups

TypeOK ==
    /\ health \in Health
    /\ device \in DeviceType
    /\ op \in Requests \union {NoRequest}
    /\ pc \in Steps
    /\ (pc = "idle") = (op = NoRequest)
    /\ ctx \in ContextType
    /\ clock \in Clock
    /\ closure \in SUBSET Channels
    /\ before \in SUBSET Channels
    /\ sent \in SUBSET Channels
    /\ missed \in BOOLEAN
    /\ receipts \in SUBSET ReceiptType
    /\ ops \in 0..MaxOps
    /\ moves \in 0..MaxMoves
    /\ wrote \in BOOLEAN
    /\ moved \in {"no", "since_preflight", "since_snapshot"}

Init ==
    /\ health = Healthy
    /\ device \in Starts
    /\ op = NoRequest /\ pc = "idle"
    /\ ctx = FreshContext
    /\ clock = "main"
    /\ closure = {} /\ before = {} /\ sent = {} /\ missed = FALSE
    /\ receipts = {}
    /\ ops = 0 /\ moves = 0
    /\ wrote = FALSE /\ moved = "no"

-----------------------------------------------------------------------------
(* Relations between channels.                                               *)

ClosedUnder(g, cs) == \A e \in g : e \intersect cs # {} => e \subseteq cs

\* The least set that holds cs and every edge it touches.
AffectedChannels(g, cs) ==
    {c \in Channels :
        \A s \in SUBSET Channels : cs \subseteq s /\ ClosedUnder(g, s) => c \in s}

Reach(r, d) ==
    CASE Contract[r.kind].reach = "channel"    -> r.chans
      [] Contract[r.kind].reach = "instrument" -> Channels
      [] Contract[r.kind].reach = "closure"    -> AffectedChannels(d.graph, r.chans)

Partners(d, cs) == UNION {e \in d.links : e \intersect cs # {}}

-----------------------------------------------------------------------------
(* What a snapshot must show: the preflight and postcondition validators.    *)

OutputsAsNeeded(r, d, cs) ==
    /\ Contract[r.kind].needs = "off" => cs \intersect d.on = {}
    /\ Contract[r.kind].needs = "on" => cs \subseteq d.on

WithinLimits(r, d) ==
    /\ r.level # "high"
    /\ r.level = "keep" => r.chans \intersect d.high = {}

Unrelated(r, d) == \A e \in d.links : e \intersect r.chans = {}

\* Mutant: the level an earlier user left is not checked.
EnableAnyLevel(r, d) == r.chans \subseteq d.on \/ Unrelated(r, d)

\* An output that is already ON is left alone, related or not.
EnableReady(r, d) ==
    /\ WithinLimits(r, d)
    /\ r.chans \subseteq d.on \/ Unrelated(r, d)

Inactive(r, d, fs) == \A c \in r.chans, f \in fs \intersect Settings : d.setup[c][f] = NoSetup

LiveReady(r, d) == WithinLimits(r, d) /\ Inactive(r, d, {"sweep"})

SweepReady(r, d) == Inactive(r, d, Interlocks)

\* The feature is still what this session configured last.
FireReady(r, d, f) ==
    /\ WithinLimits(r, d)
    /\ \A c \in r.chans : <<f, c, d.setup[c][f]>> \in receipts

StorageReady(r, d) == \A c \in r.chans : d.setup[c]["storage"] = r.expect

\* The relation exists and reaches what it reached when the operation began.
RelationReady(r, d) ==
    r.chans \in d.graph /\ AffectedChannels(d.graph, r.chans) = closure

Ready(r, d) ==
    /\ OutputsAsNeeded(r, d, closure)
    /\ r.kind = "basic_configure" => WithinLimits(r, d)
    /\ r.kind = "basic_live_configure" => LiveReady(r, d)
    /\ r.kind = "output_enable" => EnableReady(r, d)
    /\ r.kind = "sweep_configure" => SweepReady(r, d)
    /\ r.kind \in Fires => FireReady(r, d, Contract[r.kind].writes)
    /\ r.kind = "arbitrary_storage" => StorageReady(r, d)
    /\ r.kind = "cross_channel" => RelationReady(r, d)

\* The setting is what the request asks for.
AsRequested(r, d) ==
    CASE r.kind = "output_enable"  -> r.chans \subseteq d.on
      [] r.kind = "output_disable" -> r.chans \intersect d.on = {}
      [] r.kind = "cross_channel"  -> (r.chans \in d.links) = r.want
      [] Contract[r.kind].writes = "level" ->
            /\ r.level = "low" => r.chans \intersect d.high = {}
            /\ r.level = "high" => r.chans \subseteq d.high
      [] OTHER -> \A c \in (IF Contract[r.kind].reach = "instrument" THEN Channels ELSE r.chans) :
                     d.setup[c][Contract[r.kind].writes] = r.setup

\* Mutant: the setting is read back, the outputs are not.
ConfirmSettingOnly(r, d) ==
    r.kind \notin Fires /\ Contract[r.kind].reads => AsRequested(r, d)

\* The postcondition validators.
Confirmed(r, d) ==
    /\ OutputsAsNeeded(r, d, closure)
    /\ r.kind \notin Fires /\ Contract[r.kind].reads => AsRequested(r, d)
    /\ r.kind = "output_enable" => WithinLimits(r, d) /\ Unrelated(r, d)
    /\ r.kind = "sweep_configure" => SweepReady(r, d)
    /\ r.kind \in Fires => FireReady(r, d, Contract[r.kind].writes)
    /\ r.kind = "arbitrary_storage" => (r.chans \subseteq d.on) = (r.chans \subseteq before)
    /\ r.kind = "cross_channel" =>
         /\ r.chans \in d.graph
         /\ AffectedChannels(d.graph, r.chans) \subseteq closure

-----------------------------------------------------------------------------
(* The device.                                                               *)

Written(r) == IF Contract[r.kind].reach = "instrument" THEN Channels ELSE r.chans

\* The device after a write it carries out as asked.
Applied(r, d) ==
    CASE r.kind \in Fires          -> d
      [] r.kind = "output_enable"  -> [d EXCEPT !.on = @ \union r.chans]
      [] r.kind = "output_disable" -> [d EXCEPT !.on = @ \ r.chans]
      [] r.kind = "cross_channel"  ->
            [d EXCEPT !.links = IF r.want THEN @ \union {r.chans} ELSE @ \ {r.chans}]
      [] Contract[r.kind].writes = "level" ->
            [d EXCEPT !.high = CASE r.level = "low"  -> @ \ r.chans
                                 [] r.level = "high" -> @ \union r.chans
                                 [] r.level = "keep" -> @]
      [] OTHER ->
            [d EXCEPT !.setup = [c \in Channels |->
                IF c \in Written(r) THEN [@[c] EXCEPT ![Contract[r.kind].writes] = r.setup]
                ELSE @[c]]]

\* It may also ignore the write; switch an output ON that it configures or
\* stores for, or the partners of one it enables; or extend a relation.
Outcomes(r, d) ==
    LET a == Applied(r, d) IN
    {d, a}
    \union (IF Contract[r.kind].needs = "off" \/ r.kind = "arbitrary_storage"
            THEN {[a EXCEPT !.on = @ \union r.chans]} ELSE {})
    \union (IF r.kind = "output_enable"
            THEN {[a EXCEPT !.on = @ \union Partners(d, r.chans)]} ELSE {})
    \union (IF r.kind = "cross_channel"
            THEN {[a EXCEPT !.graph = @ \union {e}] : e \in Edges} ELSE {})

\* What a failed exchange makes of the session: nothing, if nothing was sent,
\* the driver rejects an answer, or an interrupt ends the call.
AfterFailure(p) ==
    IF p = "failure_safe_state" THEN {health, Poisoned}
    ELSE {health, Conservative(health), Poisoned}

-----------------------------------------------------------------------------
(* The operations of the service.                                            *)

Emergency(r) == IF Contract[r.kind].off THEN closure ELSE {}

MayStart(p) == MayEnter(ctx, p, Emergency(op), clock)

Receipts(r) == {t \in receipts : t[1] = Contract[r.kind].writes /\ t[2] \in r.chans}

\* The context is built for a healthy session.  A relation's reach is read from
\* a snapshot that shows it OFF; configuring a sweep or a burst withdraws its
\* receipt, and firing asks for one.
Begin(r) ==
    /\ op = NoRequest /\ health = Healthy
    /\ ops < MaxOps
    /\ r.kind \in Fires => Receipts(r) # {}
    /\ r.kind = "cross_channel" =>
         r.chans \in device.graph /\ AffectedChannels(device.graph, r.chans) \intersect device.on = {}
    /\ op' = r /\ pc' = "preflight" /\ ctx' = FreshContext
    /\ clock' = "main"
    /\ closure' = Reach(r, device)
    /\ before' = {} /\ sent' = {} /\ missed' = FALSE
    /\ receipts' = IF r.kind \in Receipted THEN receipts \ Receipts(r) ELSE receipts
    /\ ops' = ops + 1
    /\ wrote' = FALSE /\ moved' = "no"
    /\ UNCHANGED <<health, device, moves>>

\* The snapshot that discovers a relation's reach is read before any context.
FailDiscovery ==
    /\ op = NoRequest /\ health = Healthy
    /\ \E r \in Requests : r.kind = "cross_channel"
    /\ health' \in AfterFailure("preflight")
    /\ UNCHANGED <<device, opVars, clock, receipts, ops, moves, ghostVars>>

\* Nothing is written if the device already is as requested.
PassPreflight ==
    /\ pc = "preflight" /\ MayStart("preflight")
    /\ Ready(op, device)
    /\ ctx' = Entered(ctx, "preflight")
    /\ before' = device.on
    /\ moved' = "no"
    /\ pc' = IF Contract[op.kind].skips /\ AsRequested(op, device) THEN "complete" ELSE "main"
    /\ UNCHANGED <<health, device, op, closure, sent, missed, clock, receipts, ops, moves, wrote>>

\* The snapshot fails, is not consistent, or shows what the request forbids.
FailPreflight ==
    /\ pc = "preflight"
    /\ health' \in AfterFailure("preflight")
    /\ pc' = "complete"
    /\ UNCHANGED <<device, op, ctx, closure, before, sent, missed, clock, receipts, ops,
                   moves, ghostVars>>

\* The one write of the operation; `ok` when the driver's result is accepted.
Main(ok) ==
    /\ pc = "main" /\ MayStart("main") /\ health = Healthy
    /\ ctx' = Entered(ctx, "main")
    /\ \E d \in Outcomes(op, device) : device' = d /\ wrote' = (d # device)
    /\ IF ok THEN pc' = "postcondition" /\ UNCHANGED health
             ELSE pc' = "failed" /\ health' \in AfterFailure("main")
    /\ UNCHANGED <<op, closure, before, sent, missed, clock, receipts, ops, moves, moved>>

\* Mutant: the call returns and the context stays open.
ReturnOpen ==
    /\ pc = "main" /\ ~MayStart("main")
    /\ pc' = "idle"
    /\ UNCHANGED <<health, device, op, ctx, closure, before, sent, missed, clock, receipts,
                   ops, moves, ghostVars>>

\* The main phase is refused, its time being over.
RefuseMain ==
    /\ pc = "main" /\ ~MayStart("main")
    /\ pc' = "complete"
    /\ UNCHANGED <<health, device, op, ctx, closure, before, sent, missed, clock, receipts,
                   ops, moves, ghostVars>>

SinceSnapshot == IF moved = "no" THEN "no" ELSE "since_preflight"

Confirm ==
    /\ pc = "postcondition" /\ MayStart("postcondition")
    /\ Confirmed(op, device)
    /\ ctx' = [Entered(ctx, "postcondition") EXCEPT !.proven = TRUE]
    /\ pc' = "complete"
    /\ moved' = SinceSnapshot
    /\ UNCHANGED <<health, device, op, closure, before, sent, missed, clock, receipts, ops,
                   moves, wrote>>

\* The postcondition is refused, fails, or shows something else.
FailPostcondition ==
    /\ pc = "postcondition"
    /\ health' \in AfterFailure("postcondition")
    /\ ctx' = IF MayStart("postcondition") THEN Entered(ctx, "postcondition") ELSE ctx
    /\ pc' = "failed"
    /\ UNCHANGED <<device, op, closure, before, sent, missed, clock, receipts, ops, moves,
                   ghostVars>>

\* mark_failure_required, and whether there is anything to switch off.
MarkFailure ==
    /\ pc = "failed"
    /\ IF Contract[op.kind].recovers = "none"
       THEN pc' = "complete" /\ UNCHANGED <<ctx, health>>
       ELSE /\ ctx' = FailureRequired(ctx)
            /\ health' = Conservative(health)
            /\ pc' = IF /\ Contract[op.kind].recovers = "switch_off"
                        /\ health # Poisoned /\ CanSwitchOff
                     THEN "safe_state" ELSE "complete"
    /\ receipts' = IF op.kind \in Fires THEN receipts \ Receipts(op) ELSE receipts
    /\ UNCHANGED <<device, op, closure, before, sent, missed, clock, ops, moves, ghostVars>>

\* The phase is entered once; its authorization ends with the deadline.
MaySwitchOff ==
    \/ MayStart("failure_safe_state")
    \/ "failure_safe_state" \in ctx.used /\ clock # "over"

\* One OFF per output in ascending order, past failures but not in a poisoned
\* session; `ok` when the driver confirms it.
SwitchOff(c, ok) ==
    /\ pc = "safe_state" /\ MaySwitchOff
    /\ c \in Emergency(op) \ sent
    /\ \A e \in Emergency(op) \ sent : c <= e
    /\ ctx' = Entered(ctx, "failure_safe_state")
    /\ device' \in {device, [device EXCEPT !.on = @ \ {c}]}
    /\ sent' = sent \union {c}
    /\ missed' = (missed \/ ~ok)
    /\ IF ok THEN UNCHANGED health ELSE health' \in AfterFailure("failure_safe_state")
    /\ pc' = IF health' # Poisoned /\ Emergency(op) # sent' THEN "safe_state"
             ELSE IF missed' THEN "complete" ELSE "verify"
    /\ UNCHANGED <<op, closure, before, clock, receipts, ops, moves, ghostVars>>

\* Mutant: an authorization that expires between two outputs goes unnoticed.
FailUnentered ==
    /\ pc = "safe_state" /\ ~MaySwitchOff /\ "failure_safe_state" \notin ctx.used
    /\ missed' = TRUE
    /\ pc' = "complete"
    /\ UNCHANGED <<health, device, op, ctx, closure, before, sent, clock, receipts, ops,
                   moves, ghostVars>>

\* The phase is refused, or its authorization has expired.
FailSafeState ==
    /\ pc = "safe_state" /\ ~MaySwitchOff
    /\ missed' = TRUE
    /\ pc' = "complete"
    /\ UNCHANGED <<health, device, op, ctx, closure, before, sent, clock, receipts, ops,
                   moves, ghostVars>>

\* mark_safe_state_verified: every emergency output is read back as OFF.
VerifyOff ==
    /\ pc = "verify" /\ MayStart("cleanup_verification")
    /\ Emergency(op) \intersect device.on = {}
    /\ ctx' = [Entered(ctx, "cleanup_verification") EXCEPT !.safe = TRUE]
    /\ pc' = "complete"
    /\ moved' = SinceSnapshot
    /\ UNCHANGED <<health, device, op, closure, before, sent, missed, clock, receipts, ops,
                   moves, wrote>>

FailVerify ==
    /\ pc = "verify"
    /\ health' \in AfterFailure("cleanup_verification")
    /\ pc' = "complete"
    /\ UNCHANGED <<device, op, ctx, closure, before, sent, missed, clock, receipts, ops,
                   moves, ghostVars>>

\* The context is closed.  A confirmed sweep or burst may be fired from now on.
Complete ==
    /\ pc = "complete"
    /\ health' = FinalHealth(ctx, health)
    /\ receipts' = IF op.kind \in Receipted /\ ctx.proven
                   THEN receipts \union ({Contract[op.kind].writes} \X op.chans \X {op.setup})
                   ELSE receipts
    /\ op' = NoRequest /\ pc' = "idle" /\ ctx' = FreshContext
    /\ clock' = "main"
    /\ closure' = {} /\ before' = {} /\ sent' = {} /\ missed' = FALSE
    /\ wrote' = FALSE /\ moved' = "no"
    /\ UNCHANGED <<device, ops, moves>>

-----------------------------------------------------------------------------
(* What is not the service.                                                  *)

\* Time passes until the main deadline and then until the last one; only the
\* phases that may be refused for it can tell.
Tick ==
    /\ pc \in {"main", "postcondition", "safe_state", "verify"} /\ clock # "over"
    /\ clock' = IF clock = "main" THEN "reserve" ELSE "over"
    /\ UNCHANGED <<health, device, opVars, receipts, ops, moves, ghostVars>>

Toggled(x, s) == IF x \in s THEN s \ {x} ELSE s \union {x}

Touched(d, c, f) ==
    {[d EXCEPT !.on = Toggled(c, @)], [d EXCEPT !.high = Toggled(c, @)]}
    \union {[d EXCEPT !.setup[c][f] = s] : s \in Setups}

Relinked(d, e) == [d EXCEPT !.links = Toggled(e, @)]

ChannelMoves(d) == UNION {Touched(d, p[1], p[2]) : p \in Panel}
RelationMoves(d) == {Relinked(d, e) : e \in d.graph}

\* Somebody uses the front panel.
UsePanel ==
    /\ moves < MaxMoves
    /\ moves' = moves + 1
    /\ device' \in ChannelMoves(device) \union RelationMoves(device)
    /\ moved' = IF op = NoRequest THEN "no" ELSE "since_snapshot"
    /\ UNCHANGED <<health, opVars, clock, receipts, ops, wrote>>

-----------------------------------------------------------------------------
ServiceStep ==
    \/ PassPreflight \/ FailPreflight
    \/ \E ok \in BOOLEAN : Main(ok)
    \/ RefuseMain
    \/ Confirm \/ FailPostcondition
    \/ MarkFailure
    \/ \E c \in Channels, ok \in BOOLEAN : SwitchOff(c, ok)
    \/ FailSafeState
    \/ VerifyOff \/ FailVerify
    \/ Complete

Next ==
    \/ \E r \in Requests : Begin(r)
    \/ FailDiscovery
    \/ ServiceStep
    \/ Tick
    \/ UsePanel

Spec == Init /\ [][Next]_vars

\* Every exchange ends, by its timeout if not by an answer, and the service
\* runs on to the end of the call.
FairSpec == Spec /\ WF_vars(ServiceStep)

-----------------------------------------------------------------------------
(* Properties.                                                               *)

Finished == op # NoRequest /\ op' = NoRequest

\* What is true of the device, up to what the front panel changed after the
\* last snapshot that passed.
Holds ==
    {x \in {"requested", "off"} :
        /\ op # NoRequest
        /\ x = "requested" =>
             \/ moved = "since_snapshot"
             \/ /\ OutputsAsNeeded(op, device, closure)
                /\ op.kind \notin Fires /\ Contract[op.kind].reads => AsRequested(op, device)
        /\ x = "off" =>
             /\ Contract[op.kind].off
             /\ moved = "since_snapshot" \/ closure \intersect device.on = {}}

Stage == IF op = NoRequest THEN "idle" ELSE IF ctx.main THEN "dirty" ELSE "open"

Promise == INSTANCE SourceMutation WITH stage <- Stage, holds <- Holds

\* Whatever fails or is operated in between, the health an operation leaves
\* behind tells the truth about the device: healthy after a write means that it
\* is as requested, uncertain that every output answered for is OFF.
KeepsPromise == Promise!Spec

\* An operation that ends with the session healthy has switched on no output
\* but the one it was asked to enable, however the channels are coupled.
NothingElseEnergised ==
    [][Finished /\ ctx.proven /\ moved = "no" =>
         device.on \subseteq before \union (IF op.kind = "output_enable" THEN op.chans ELSE {})]_vars

\* An output goes ON and a trigger is sent only within the limits, a live change
\* leaves them nowhere it did not find them left, and a trigger is sent only for
\* a configuration read back from this session; up to the front panel after the
\* preflight.
EmitsWithinLimits ==
    [][pc = "main" /\ ctx'.main /\ moved = "no" =>
         /\ op.kind \in Fires \union {"output_enable"} /\ op.chans \subseteq device'.on =>
              op.chans \intersect device'.high = {}
         /\ op.kind = "basic_live_configure" =>
              op.chans \intersect device'.high \subseteq device.high
         /\ op.kind \in Fires => \A c \in op.chans :
              <<Contract[op.kind].writes, c, device.setup[c][Contract[op.kind].writes]>>
                \in receipts]_vars

\* However long the main work took, until the last deadline every output
\* answered for is sent its OFF once the write has failed.
OffIsReserved ==
    [][Finished /\ ctx.main /\ ~ctx.proven /\ CanSwitchOff /\ clock # "over" =>
         health = Poisoned \/ sent = Emergency(op)]_vars

\* When a relation has been changed, no relation of the device leads from a channel
\* the operation answered for to one it did not, whatever the write has set up
\* besides (_validate_source_cross_channel_postcondition).
RelationsStayInside ==
    [][Finished /\ ctx.proven /\ op.kind = "cross_channel" =>
         ClosedUnder(device.graph, closure)]_vars

\* Every operation ends.
TransactionsEnd == op # NoRequest ~> op = NoRequest

\* The way of an operation through its phases.
Place(p) ==
    CASE p = "preflight" -> 1 [] p = "main" -> 2 [] p = "postcondition" -> 3
      [] p = "failed" -> 4 [] p = "safe_state" -> 5 [] p = "verify" -> 6
      [] p = "complete" -> 7 [] p = "idle" -> 8

\* And why it ends: whatever happens, an operation never goes back to an earlier
\* phase, and stays in one only to send an OFF to another of the finitely many
\* channels it answers for.
EveryStepAdvances ==
    [][op # NoRequest =>
         \/ Place(pc) < Place(pc')
         \/ /\ pc' = pc /\ closure' = closure
            /\ sent \subseteq sent' /\ sent' \subseteq closure
            /\ ServiceStep => sent' # sent]_vars

-----------------------------------------------------------------------------
(* The inductive invariant.                                                  *)

\* No mark of a failure or of a proof before the phase that sets it.
Unmarked == ~ctx.failing /\ ~ctx.proven /\ ~ctx.safe /\ sent = {}

PhaseInv ==
    /\ pc = "idle" => ~ctx.main /\ Unmarked
    /\ pc \in {"preflight", "main"} => ~ctx.main /\ Unmarked /\ health = Healthy
    /\ pc = "main" => "preflight" \in ctx.used
    /\ pc = "postcondition" => ctx.main /\ Unmarked /\ health = Healthy
    /\ pc = "failed" => ctx.main /\ Unmarked
    /\ pc \in {"postcondition", "failed"} => "preflight" \in ctx.used
    /\ pc \in {"safe_state", "verify"} =>
         /\ ctx.main /\ ctx.failing /\ ~ctx.proven /\ ~ctx.safe
         /\ Contract[op.kind].off
         /\ "preflight" \in ctx.used
    /\ pc = "safe_state" => health # Poisoned
    /\ pc = "verify" => sent = Emergency(op)

MarkInv ==
    /\ ctx.failing => ctx.main /\ health # Healthy
    /\ ctx.proven => pc = "complete" /\ ctx.main /\ ~ctx.failing /\ health = Healthy
    /\ ctx.safe => pc = "complete" /\ ctx.failing
    /\ pc # "idle" => sent \subseteq Emergency(op)

ProofInv ==
    /\ ctx.proven => "requested" \in Holds
    /\ ctx.safe => "off" \in Holds

OffInv ==
    pc = "complete" /\ ctx.main /\ ~ctx.proven /\ CanSwitchOff /\ clock # "over" =>
        health = Poisoned \/ sent = Emergency(op)

ReadyInv == pc = "main" /\ moved = "no" => Ready(op, device)

CoreInv == TypeOK /\ PhaseInv /\ MarkInv /\ ProofInv /\ OffInv /\ ReadyInv

Enabled(r) == IF r.kind = "output_enable" THEN r.chans ELSE {}

\* Outputs a write may switch on beside the one it is asked to enable.
Touchable(r) ==
    IF Contract[r.kind].needs = "off" \/ r.kind = "arbitrary_storage" THEN r.chans ELSE {}

\* Which outputs may have gone on since the last snapshot before the write.
OnInv ==
    /\ moved = "no" /\ pc = "main" =>
          before = device.on /\ ~(Contract[op.kind].skips /\ AsRequested(op, device))
    /\ moved = "no" /\ pc = "postcondition" =>
          device.on \subseteq before \union Enabled(op) \union Touchable(op)
    /\ moved = "no" /\ ctx.proven => device.on \subseteq before \union Enabled(op)
    /\ op # NoRequest => op.chans \subseteq closure

\* Relations are only added while an operation runs, so it never answers for more
\* than they reach; and for no less once they are read back.
GraphInv ==
    op # NoRequest /\ op.kind = "cross_channel" =>
        /\ closure \subseteq AffectedChannels(device.graph, op.chans)
        /\ ctx.proven => AffectedChannels(device.graph, op.chans) \subseteq closure

SourceInv == CoreInv /\ OnInv /\ GraphInv
=============================================================================
