---------------------------- MODULE RunLifecycle ----------------------------
(***************************************************************************)
(* One run of a plan (services/run_service.py, run_restore.py,              *)
(* state_guard.py): the leases and sessions it holds, the steps, the safety *)
(* gate that switches outputs OFF after a failed step, the restoration of   *)
(* the source, the files that report the run, and the ways out of it: its   *)
(* end, an exception, or the user's interrupt.                              *)
(*                                                                          *)
(* A call on an output reads its status, compares it with what the guard    *)
(* expects, and then writes: two actions, between which the front panel can *)
(* be used.  Calls go the V1 way; what the V2 transactions do is            *)
(* SourceTransaction.                                                       *)
(***************************************************************************)
EXTENDS StateGuard, Naturals, Sequences, FiniteSets

CONSTANTS
    SourceOutputs,   \* the outputs of the source; the others are the supply's
    Allowed,         \* levels within the safety limits
    Plans,           \* plans the checks let through
    Starts,          \* what the outputs may be when a run begins
    Panel,           \* the outputs the front panel is used on
    NoCall,
    MaxMoves,        \* bound: front-panel actions
    MaxInterrupts    \* bound: interrupts

Instruments == <<"scope", "source", "power">>
Sessions == {"scope", "source", "power"}

CallType == [out : Outputs, want : {"on", "off", "level"}, level : Levels]

\* `off` are the targets of its own gate, `stop` its on_failure policy.
StepType == [call : CallType \union {NoCall}, gate : BOOLEAN, off : SUBSET Outputs, stop : BOOLEAN]

PlanType ==
    [steps    : Seq(StepType),
     restore  : Seq(SourceOutputs),   \* empty: no restoration is asked for
     uses     : SUBSET Sessions,
     gate     : BOOLEAN,              \* [safety] of the plan
     off      : SUBSET Outputs,
     analysis : BOOLEAN]

Instrument(o) == IF o \in SourceOutputs THEN "source" ELSE "power"

ASSUME RunAssumption ==
    /\ SourceOutputs \subseteq Outputs
    /\ Allowed \subseteq Levels
    /\ Plans \subseteq PlanType
    /\ Starts \subseteq [Outputs -> Status]
    /\ Panel \subseteq Outputs
    /\ Unseen \notin Status /\ NoCall \notin CallType
    /\ \A p \in Plans :
          /\ p.steps # <<>>
          /\ p.restore # <<>> => "source" \in p.uses
          /\ \A i, j \in DOMAIN p.restore : p.restore[i] = p.restore[j] => i = j
          /\ \A i \in DOMAIN p.steps :
                LET st == p.steps[i] IN
                /\ st.call = NoCall => "scope" \in p.uses
                /\ st.call # NoCall => Instrument(st.call.out) \in p.uses
          /\ \A o \in p.off \union UNION {p.steps[i].off : i \in DOMAIN p.steps} :
                Instrument(o) \in p.uses
    /\ MaxMoves \in Nat /\ MaxInterrupts \in Nat

VARIABLES
    plan,
    stage,       \* what the run does next
    path,        \* "setup" until there are files to write, then how the steps
                 \* were left: "normal", "error" or "interrupt"
    held,        \* leases
    opened,      \* sessions
    broken,      \* sessions whose health is not healthy
    device,      \* the outputs as they are
    expected,    \* the state guards
    call,        \* the call whose check has passed, or NoCall
    index,       \* the current step
    gated,       \* the gate was triggered
    pending,     \* outputs the gate has still to switch OFF
    saved,       \* restorable states, in order; <<>> until all are read
    at, leg,     \* the state being restored, and the call within it
    unrestored,  \* restore_error
    failed,      \* some record is "failed"
    stopped,     \* run_failure
    files,       \* the status in run.json; "none" before it is written, "torn" when
                 \* its writing was cut short
    unclosed,    \* close_errors
    raised,      \* the run ends by an exception
    moves, interrupts,  \* counts up to MaxMoves, MaxInterrupts
    \* What the code has no variable for:
    left,        \* what the last call on each output left there
    offed,       \* outputs the gate has switched OFF
    touched      \* outputs the front panel has changed

sessionVars == <<held, opened, broken>>
outputVars == <<device, expected, left, offed, touched>>
stepVars == <<index, gated, failed, stopped>>
restoreVars == <<saved, at, leg, unrestored>>
reportVars == <<files, unclosed, raised>>
bounds == <<moves, interrupts>>
vars == <<plan, stage, path, sessionVars, outputVars, call, pending, stepVars, restoreVars,
          reportVars, bounds>>

Stages == {"acquire", "open", "guards", "snapshot", "step", "gate", "record", "restore",
           "post_gate", "files", "close", "report", "analysis", "end"}

SavedType == [out : SourceOutputs, on : BOOLEAN, level : Levels]

TypeOK ==
    /\ plan \in Plans
    /\ stage \in Stages
    /\ path \in {"setup", "normal", "error", "interrupt"}
    /\ held \in SUBSET Sessions /\ opened \in SUBSET Sessions /\ broken \in SUBSET Sessions
    /\ device \in [Outputs -> Status]
    /\ expected \in Expectations
    /\ call \in CallType \union {NoCall}
    /\ index \in 1..Len(plan.steps)
    /\ gated \in BOOLEAN
    /\ pending \in SUBSET Outputs
    /\ saved \in Seq(SavedType)
    /\ at \in Nat \ {0} /\ leg \in 1..3
    /\ unrestored \in BOOLEAN /\ failed \in BOOLEAN /\ stopped \in BOOLEAN
    /\ files \in {"none", "torn", "ok", "failed"}
    /\ unclosed \in BOOLEAN /\ raised \in BOOLEAN
    /\ moves \in 0..MaxMoves /\ interrupts \in 0..MaxInterrupts
    /\ left \in Expectations
    /\ offed \in SUBSET Outputs /\ touched \in SUBSET Outputs

Init ==
    /\ plan \in Plans
    /\ stage = "acquire" /\ path = "setup"
    /\ held = {} /\ opened = {} /\ broken = {}
    /\ device \in Starts
    /\ expected = [o \in Outputs |-> Unseen]
    /\ call = NoCall
    /\ index = 1 /\ gated = FALSE /\ pending = {}
    /\ saved = <<>> /\ at = 1 /\ leg = 1 /\ unrestored = FALSE
    /\ failed = FALSE /\ stopped = FALSE
    /\ files = "none" /\ unclosed = FALSE /\ raised = FALSE
    /\ moves = 0 /\ interrupts = 0
    /\ left = [o \in Outputs |-> Unseen] /\ offed = {} /\ touched = {}

-----------------------------------------------------------------------------
(* Leases and sessions.                                                      *)

AcquireLeases(ok) ==
    /\ stage = "acquire"
    /\ IF ok THEN held' = plan.uses /\ stage' = "open" /\ UNCHANGED raised
             ELSE stage' = "end" /\ raised' = TRUE /\ UNCHANGED held
    /\ UNCHANGED <<plan, path, opened, broken, outputVars, call, pending, stepVars, restoreVars,
                   files, unclosed, bounds>>

\* One session after the other, in the order of Instruments.
Open(ok) ==
    /\ stage = "open"
    /\ \E i \in DOMAIN Instruments :
          /\ Instruments[i] \in plan.uses \ opened
          /\ \A j \in 1..(i - 1) : Instruments[j] \notin plan.uses \ opened
          /\ opened' = IF ok THEN opened \union {Instruments[i]} ELSE opened
    /\ stage' = IF ~ok THEN "close" ELSE IF opened' = plan.uses THEN "guards" ELSE "open"
    /\ raised' = ~ok
    /\ UNCHANGED <<plan, path, held, broken, outputVars, call, pending, stepVars, restoreVars,
                   files, unclosed, bounds>>

\* The scope's safety guards, and the run's directory.
Guards(ok) ==
    /\ stage = "guards"
    /\ IF ok
       THEN path' = "normal" /\ UNCHANGED raised
            /\ stage' = IF plan.restore = <<>> THEN "step" ELSE "snapshot"
       ELSE stage' = "close" /\ raised' = TRUE /\ UNCHANGED path
    /\ UNCHANGED <<plan, sessionVars, outputVars, call, pending, stepVars, restoreVars, files,
                   unclosed, bounds>>

\* Mutant: the first session that does not close ends the closing.
ClosesUntilFailure(how) ==
    /\ stage = "close" /\ opened # {}
    /\ opened' = IF how = "ok" THEN opened \ {CHOOSE s \in opened : TRUE} ELSE opened
    /\ unclosed' = (unclosed \/ how = "error")
    /\ raised' = (raised \/ how = "interrupt")
    /\ held' = IF opened' = {} \/ how # "ok" THEN {} ELSE held
    /\ stage' = IF opened' = {} \/ how # "ok" THEN "report" ELSE "close"
    /\ UNCHANGED <<plan, path, broken, outputVars, call, pending, stepVars, restoreVars, files,
                   moves, interrupts>>

\* The last opened session first; an error is recorded, an interrupt raised, and
\* the others are closed all the same.  Their leases are released after them.
Close(how) ==
    /\ stage = "close" /\ opened # {}
    /\ how = "interrupt" => interrupts < MaxInterrupts
    /\ \E i \in DOMAIN Instruments :
          /\ Instruments[i] \in opened
          /\ \A j \in (i + 1)..3 : Instruments[j] \notin opened
          /\ opened' = opened \ {Instruments[i]}
    /\ unclosed' = (unclosed \/ how = "error")
    /\ raised' = (raised \/ how = "interrupt")
    /\ interrupts' = IF how = "interrupt" THEN interrupts + 1 ELSE interrupts
    /\ UNCHANGED <<plan, stage, path, held, broken, outputVars, call, pending, stepVars,
                   restoreVars, files, moves>>

Release(ok) ==
    /\ stage = "close" /\ opened = {}
    /\ held' = {}
    /\ unclosed' = (unclosed \/ ~ok)
    /\ stage' = "report"
    /\ UNCHANGED <<plan, path, opened, broken, outputVars, call, pending, stepVars, restoreVars,
                   files, raised, bounds>>

\* write_run_files writes run.json in place and then summary.csv: one that fails may
\* have left run.json as it was, half written, or written.
Written(status, ok) == IF ok THEN {status} ELSE {files, "torn", status}

\* Errors of the closing turn the run's files into those of a failed run.
Report(ok) ==
    /\ stage = "report"
    /\ IF unclosed /\ path # "setup"
       THEN files' \in Written("failed", ok) /\ raised' = (raised \/ ~ok)
       ELSE ok /\ UNCHANGED <<files, raised>>
    /\ stage' = IF raised' \/ ~plan.analysis \/ stopped \/ unclosed THEN "end" ELSE "analysis"
    /\ UNCHANGED <<plan, path, sessionVars, outputVars, call, pending, stepVars, restoreVars,
                   unclosed, bounds>>

-----------------------------------------------------------------------------
(* Calls on an output.                                                       *)

After(c, s) ==
    CASE c.want = "on"    -> [s EXCEPT !.on = TRUE]
      [] c.want = "off"   -> [s EXCEPT !.on = FALSE]
      [] c.want = "level" -> [s EXCEPT !.level = c.level]

OffCall(o) == [out |-> o, want |-> "off", level |-> device[o].level]

\* The outputs the gate switches OFF when no list says which.
Inferred(p) ==
    {p.steps[i].call.out : i \in {j \in DOMAIN p.steps : p.steps[j].call # NoCall}}
    \union {p.restore[i] : i \in DOMAIN p.restore}

\* _safety_gate_for_step: the step's own list, or the plan's, of each instrument.
Targets(p, st) ==
    LET Named(S) == IF st.off \intersect S # {} THEN st.off \intersect S ELSE p.off \intersect S
        named == Named(SourceOutputs) \union Named(Outputs \ SourceOutputs)
    IN  IF named = {} /\ st.gate /\ ~p.gate THEN Inferred(p) ELSE named

Step == plan.steps[index]
Gate == Targets(plan, Step)

\* Mutant: the gate's outputs are restored as the snapshot shows them.
RestoresAsSaved(s) == s

\* force_off_channels: only on the way that follows the last step.
Target(s) == IF path = "normal" /\ gated /\ s.out \in Gate THEN [s EXCEPT !.on = FALSE] ELSE s

RestoreCall(s) ==
    [out |-> s.out,
     want |-> IF leg = 1 THEN "off" ELSE IF leg = 2 THEN "level" ELSE IF s.on THEN "on" ELSE "off",
     level |-> s.level]

\* The call the current stage is about.
Calls ==
    CASE stage = "step" -> {Step.call} \ {NoCall}
      [] stage \in {"gate", "post_gate"} -> {OffCall(o) : o \in pending}
      [] stage = "restore" /\ at <= Len(saved) -> {RestoreCall(Target(saved[at]))}
      [] OTHER -> {}

\* The checks of set_output and of the setters, on the status that is read.
Accepted(c) ==
    /\ c.want = "level" => c.level \in Allowed
    /\ c.want = "on" => device[c.out].level \in Allowed
    /\ MayWrite(expected, c.out, device[c.out], c.want = "off")

Check(c) ==
    /\ c \in Calls /\ call = NoCall
    /\ Instrument(c.out) \notin broken
    /\ Accepted(c)
    /\ call' = c
    /\ expected' = BeforeWrite(expected, c.out, device[c.out])
    /\ left' = [left EXCEPT ![c.out] = device[c.out]]
    /\ UNCHANGED <<plan, stage, path, sessionVars, device, offed, touched, pending, stepVars,
                   restoreVars, reportVars, bounds>>

-----------------------------------------------------------------------------
(* The steps.                                                                *)

\* A restorable state is read for every channel before the first step.
Snapshot ==
    /\ stage = "snapshot"
    /\ LET o == plan.restore[Len(saved) + 1] IN
       /\ Instrument(o) \notin broken
       /\ saved' = Append(saved, [out |-> o, on |-> device[o].on, level |-> device[o].level])
       /\ expected' = Observed(expected, o, device[o])
       /\ left' = [left EXCEPT ![o] = device[o]]
       /\ stage' = IF Len(saved') = Len(plan.restore) THEN "step" ELSE "snapshot"
    /\ UNCHANGED <<plan, path, sessionVars, device, offed, touched, call, pending, stepVars, at,
                   leg, unrestored, reportVars, bounds>>

\* Without all the states there is nothing to restore.
SnapshotFails(kind) ==
    /\ stage = "snapshot"
    /\ saved' = <<>>
    /\ broken' = IF kind = "transport" THEN broken \union {"source"} ELSE broken
    /\ path' = "error" /\ stage' = "restore"
    /\ UNCHANGED <<plan, held, opened, outputVars, call, pending, stepVars, at, leg, unrestored,
                   reportVars, bounds>>

GateEnabled == plan.gate \/ Step.gate

\* The record of a step, and whether the gate follows it.  A transport failure is
\* recorded; another error is only if the gate is there to handle it.
Ends(outcome) ==
    IF outcome = "crash" \/ (outcome = "error" /\ ~GateEnabled)
    THEN /\ path' = "error" /\ stage' = "restore"
         /\ UNCHANGED <<gated, failed, stopped, pending>>
    ELSE LET status == IF outcome \in {"ok", "warning"} THEN outcome ELSE "failed"
             trigger == GateEnabled /\ status # "ok"
         IN  /\ gated' = trigger
             /\ failed' = (failed \/ trigger \/ status = "failed")
             /\ stopped' = (trigger \/ (status = "failed" /\ Step.stop))
             /\ pending' = IF trigger THEN Gate ELSE {}
             /\ stage' = IF pending' # {} THEN "gate" ELSE "record"
             /\ UNCHANGED path

\* A capture, or any other step that leaves the outputs alone.
Capture(outcome) ==
    /\ stage = "step" /\ Step.call = NoCall
    /\ "scope" \in broken => outcome = "transport"
    /\ broken' = IF outcome = "transport" THEN broken \union {"scope"} ELSE broken
    /\ Ends(outcome)
    /\ UNCHANGED <<plan, held, opened, outputVars, call, index, restoreVars, reportVars, bounds>>

\* The next state to restore, or what follows the last one.
NextState(k) ==
    /\ at' = k /\ leg' = 1
    /\ IF k <= Len(saved) THEN UNCHANGED <<stage, pending>>
       ELSE IF path = "normal" /\ gated /\ Gate # {} /\ saved # <<>>
       THEN stage' = "post_gate" /\ pending' = Gate
       ELSE stage' = "files" /\ UNCHANGED pending

RestoreNothing ==
    /\ stage = "restore" /\ saved = <<>>
    /\ NextState(at)
    /\ UNCHANGED <<plan, path, sessionVars, outputVars, call, stepVars, saved, unrestored,
                   reportVars, bounds>>

\* The gate goes on with its other outputs, whatever became of this one.
GateGoesOn(o) ==
    /\ pending' = pending \ {o}
    /\ stage' = IF pending' # {} THEN stage ELSE IF stage = "gate" THEN "record" ELSE "files"

\* The write of a checked call.
Send ==
    /\ call # NoCall
    /\ device' = [device EXCEPT ![call.out] = After(call, @)]
    /\ expected' = AfterWrite(expected, call.out, device'[call.out])
    /\ left' = [left EXCEPT ![call.out] = device'[call.out]]
    /\ offed' = IF stage = "gate" THEN offed \union {call.out} ELSE offed
    /\ call' = NoCall
    /\ \/ stage = "step" /\ Ends("ok") /\ UNCHANGED <<at, leg>>
       \/ /\ stage \in {"gate", "post_gate"} /\ GateGoesOn(call.out)
          /\ UNCHANGED <<path, gated, failed, stopped, at, leg>>
       \/ /\ stage = "restore"
          /\ IF leg < 3 THEN leg' = leg + 1 /\ UNCHANGED <<stage, pending, at>> ELSE NextState(at + 1)
          /\ UNCHANGED <<path, gated, failed, stopped>>
    /\ UNCHANGED <<plan, sessionVars, touched, index, saved, unrestored, reportVars, bounds>>

\* Mutant: a restoration that failed is not reported.
ForgetsFailure(kind) ==
    /\ NextState(IF kind = "transport" THEN Len(saved) + 1 ELSE at + 1)
    /\ UNCHANGED unrestored

\* Mutant: a channel that fails is tried again.
TriesAgain(kind) ==
    /\ unrestored' = TRUE
    /\ NextState(IF kind = "transport" THEN Len(saved) + 1 ELSE at)

\* A transport failure ends the restoration, another error only that of the channel.
RestoreFails(kind) ==
    /\ unrestored' = TRUE
    /\ NextState(IF kind = "transport" THEN Len(saved) + 1 ELSE at + 1)

\* A call that fails: refused by its checks, by the session's health, or after an
\* exchange that may have reached the device.
Fail(c, kind) ==
    /\ c \in (IF call = NoCall THEN Calls ELSE {call})
    /\ Instrument(c.out) \in broken => kind = "transport"
    /\ device' \in IF call = NoCall THEN {device}
                   ELSE {device, [device EXCEPT ![c.out] = After(c, @)]}
    /\ broken' = IF kind = "transport" THEN broken \union {Instrument(c.out)} ELSE broken
    /\ call' = NoCall
    /\ \/ stage = "step" /\ Ends(kind) /\ UNCHANGED <<at, leg, unrestored>>
       \/ /\ stage \in {"gate", "post_gate"} /\ GateGoesOn(c.out)
          /\ UNCHANGED <<path, gated, failed, stopped, at, leg, unrestored>>
       \/ /\ stage = "restore" /\ RestoreFails(kind)
          /\ UNCHANGED <<path, gated, failed, stopped>>
    /\ UNCHANGED <<plan, held, opened, expected, left, offed, touched, index, saved, reportVars,
                   bounds>>

\* Mutant: the next step is looked for without looking whether there is one.
RecordsPastTheEnd(ok) ==
    /\ stage = "record"
    /\ IF ~ok THEN path' = "error" /\ stage' = "restore" /\ UNCHANGED index
       ELSE /\ stage' = IF stopped THEN "restore" ELSE "step"
            /\ index' = IF stopped THEN index ELSE index + 1
            /\ UNCHANGED path
    /\ UNCHANGED <<plan, sessionVars, outputVars, call, pending, gated, failed, stopped,
                   restoreVars, reportVars, bounds>>

\* The record of the step is written; if it cannot be, the run fails as by any
\* other exception.
Record(ok) ==
    /\ stage = "record"
    /\ IF ~ok THEN path' = "error" /\ stage' = "restore" /\ UNCHANGED index
       ELSE /\ IF stopped \/ index = Len(plan.steps)
               THEN stage' = "restore" /\ UNCHANGED index
               ELSE stage' = "step" /\ index' = index + 1
            /\ UNCHANGED path
    /\ UNCHANGED <<plan, sessionVars, outputVars, call, pending, gated, failed, stopped,
                   restoreVars, reportVars, bounds>>

RunStatus == IF path = "normal" /\ ~unrestored /\ ~failed THEN "ok" ELSE "failed"

\* run.json and summary.csv; then the exception, if there is one, goes on.
WriteFiles(ok) ==
    /\ stage = "files"
    /\ files' \in Written(RunStatus, ok)
    /\ raised' = (~ok \/ path # "normal" \/ unrestored)
    /\ stage' = "close"
    /\ UNCHANGED <<plan, path, sessionVars, outputVars, call, pending, stepVars, restoreVars,
                   unclosed, bounds>>

\* The offline steps.  Whether one is found failed is the status of the run from now
\* on, but the files say so only once all steps are recorded: an exception on the way
\* leaves them or cuts them short, an interrupt in the steps writes "failed" first.
Analyse(how, found) ==
    /\ stage = "analysis"
    /\ failed' = (failed \/ found)
    /\ LET status == IF failed' THEN "failed" ELSE "ok" IN
       files' \in Written(status, how = "return")
                 \union IF how = "interrupt" THEN Written("failed", FALSE) ELSE {}
    /\ raised' = (how # "return")
    /\ interrupts' = IF how = "interrupt" THEN interrupts + 1 ELSE interrupts
    /\ interrupts' <= MaxInterrupts
    /\ stage' = "end"
    /\ UNCHANGED <<plan, path, sessionVars, outputVars, call, pending, index, gated, stopped,
                   restoreVars, unclosed, moves>>

\* The user interrupts the run.  Up to the last record the outputs are restored
\* and the files written; later the run goes straight to its closing.
Interrupt ==
    /\ stage \in {"open", "guards", "snapshot", "step", "gate", "record", "restore",
                  "post_gate", "files"}
    /\ interrupts < MaxInterrupts /\ interrupts' = interrupts + 1
    /\ device' \in IF call = NoCall THEN {device}
                   ELSE {device, [device EXCEPT ![call.out] = After(call, @)]}
    /\ call' = NoCall
    /\ IF stage \in {"snapshot", "step", "gate", "record"}
       THEN path' = "interrupt" /\ stage' = "restore" /\ UNCHANGED raised
       ELSE stage' = "close" /\ raised' = TRUE /\ UNCHANGED path
    /\ saved' = IF stage = "snapshot" THEN <<>> ELSE saved
    /\ files' \in IF stage = "files" THEN Written(RunStatus, FALSE) ELSE {files}
    /\ UNCHANGED <<plan, sessionVars, expected, left, offed, touched, pending, stepVars, at, leg,
                   unrestored, unclosed, moves>>

\* Somebody uses the front panel of an instrument the run has a session with.
UsePanel ==
    /\ stage \in {"snapshot", "step", "gate", "restore", "post_gate"}
    /\ moves < MaxMoves /\ moves' = moves + 1
    /\ \E o \in Panel, s \in Status :
          /\ s # device[o]
          /\ device' = [device EXCEPT ![o] = s]
          /\ touched' = touched \union {o}
          /\ offed' = offed \ {o}
    /\ UNCHANGED <<plan, stage, path, sessionVars, expected, left, call, pending, stepVars,
                   restoreVars, reportVars, interrupts>>

-----------------------------------------------------------------------------
RunStep ==
    \/ \E ok \in BOOLEAN :
          AcquireLeases(ok) \/ Open(ok) \/ Guards(ok) \/ Record(ok) \/ WriteFiles(ok)
          \/ Release(ok) \/ Report(ok)
    \/ \E how \in {"ok", "error", "interrupt"} : Close(how)
    \/ Snapshot
    \/ \E kind \in {"transport", "error"} : SnapshotFails(kind)
    \/ \E outcome \in {"ok", "warning", "failed", "transport", "error", "crash"} : Capture(outcome)
    \/ \E c \in Calls : Check(c)
    \/ Send
    \/ \E c \in Calls \union {call}, kind \in {"transport", "error", "crash"} : Fail(c, kind)
    \/ RestoreNothing
    \/ \E how \in {"return", "interrupt", "crash"}, found \in BOOLEAN : Analyse(how, found)

Next == RunStep \/ Interrupt \/ UsePanel

Spec == Init /\ [][Next]_vars

\* Every exchange and every file operation ends, and the run goes on.
FairSpec == Spec /\ WF_vars(RunStep)

-----------------------------------------------------------------------------
(* Properties.                                                               *)

\* No session outlives its lease, and at the end neither is left.
NothingIsLeftOpen ==
    /\ opened # {} => held = plan.uses
    /\ stage = "end" => opened = {} /\ held = {}

AsSaved(s) == device[s.out] = [on |-> s.on, level |-> s.level]

\* What run.json says of a finished run is so.  A run that returns says "ok" when no
\* step and no analysis failed and every session closed, and "failed" otherwise; one
\* that raises may leave the "ok" of before, or half a file.  But "ok" is never said
\* of outputs that were not restored; and unless a restoration failed or was itself
\* interrupted, every output is as the snapshot found it or as the gate wants it, up
\* to the front panel.
FilesTellTheTruth ==
    stage = "end" =>
        /\ ~raised => files = IF failed \/ unclosed THEN "failed" ELSE "ok"
        /\ files = "ok" \/ ~raised => path = "normal" /\ ~unrestored /\ at > Len(saved)
        /\ files # "none" /\ ~unrestored /\ at > Len(saved) =>
             /\ path = "normal" => Len(saved) = Len(plan.restore)
             /\ \A k \in DOMAIN saved : saved[k].out \in touched \/ AsSaved(Target(saved[k]))

SwitchedOn(o) == ~device[o].on /\ device'[o].on

\* An output the safety gate has switched OFF is not switched ON again by the run
\* that goes on to its end.
GatedStaysOff ==
    [][moves' = moves /\ path = "normal" => \A o \in offed : ~SwitchedOn(o)]_vars

\* The same on every way out of the run.
GatedStaysOffAlways == [][moves' = moves => \A o \in offed : ~SwitchedOn(o)]_vars

\* No call but an OFF is started on an output somebody else has changed since the run
\* last saw or set it, and the run does not go on as if it had been made: the step
\* fails or the run is left, the restoration is reported as failed.  (A change made
\* between the check of a call and its write is not seen.)
DriftStopsTheCall ==
    [][\A c \in Calls :
         call = NoCall /\ c.want # "off" /\ left[c.out] \notin {Unseen, device[c.out]} =>
           /\ call' = NoCall
           /\ \/ UNCHANGED <<stage, index, at, leg>>
              \/ IF stage = "restore" THEN unrestored' \/ raised'
                 ELSE failed' \/ path' # "normal"]_vars

\* Every run ends.
RunEnds == <>(stage = "end")

\* The way of a run through its stages; only the next step leads back.
Place(s) ==
    CASE s = "acquire" -> 1 [] s = "open" -> 2 [] s = "guards" -> 3 [] s = "snapshot" -> 4
      [] s = "step" -> 5 [] s = "gate" -> 6 [] s = "record" -> 7 [] s = "restore" -> 8
      [] s = "post_gate" -> 9 [] s = "files" -> 10 [] s = "close" -> 11
      [] s = "report" -> 12 [] s = "analysis" -> 13 [] s = "end" -> 14

\* What a run that stays where it is has got on with.
Proceeds ==
    \/ call = NoCall /\ call' # NoCall /\ UNCHANGED <<opened, saved, pending, at, leg>>
    \/ opened' # opened
       /\ IF stage = "open" THEN opened \subseteq opened' ELSE opened' \subseteq opened
    \/ stage = "snapshot" /\ Len(saved') = Len(saved) + 1
    \/ stage \in {"gate", "post_gate"} /\ pending' \subseteq pending /\ pending' # pending
    \/ stage = "restore" /\ (at' > at \/ (at' = at /\ leg' > leg))

\* And why it ends: whatever fails or interrupts it, a run goes on to a later stage,
\* to the next step of its plan, or to the next session, state, output or call of
\* the stage it is in.
EveryStepAdvances ==
    [][~UsePanel =>
         \/ Place(stage) < Place(stage')
         \/ stage = "record" /\ stage' = "step" /\ index' = index + 1
         \/ stage' = stage /\ index' = index /\ Proceeds]_vars

-----------------------------------------------------------------------------
(* The inductive invariant.                                                  *)

\* Until the leases are taken and once they are released nothing is open; in
\* between they are those of the plan.
HeldInv ==
    IF stage \in {"acquire", "report", "analysis", "end"} THEN opened = {} /\ held = {}
    ELSE opened \subseteq plan.uses /\ held = plan.uses

Early == {"acquire", "open", "guards"}

\* The states are read in the order of the plan, before anything is written.
SnapshotInv ==
    /\ stage \in Early => saved = <<>> /\ path = "setup" /\ \A o \in Outputs : expected[o] = Unseen
    /\ stage \in Early \union {"snapshot"} => at = 1 /\ leg = 1 /\ call = NoCall
    /\ stage = "snapshot" =>
          /\ Len(saved) < Len(plan.restore) /\ path = "normal"
          /\ \A k \in DOMAIN plan.restore :
                k > Len(saved) => expected[plan.restore[k]] = Unseen
    /\ Len(saved) <= Len(plan.restore)
    /\ \A k \in DOMAIN saved : saved[k].out = plan.restore[k]

\* The guards expect what the run last saw or left.
GuardInv == left = expected

\* The gate has switched something OFF only when no other step can follow.
OffInv ==
    /\ gated => stopped
    /\ offed # {} => gated /\ offed \subseteq Gate
                     /\ stage \notin Early \union {"snapshot", "step"}
    /\ pending \subseteq Gate
    /\ stage \in Early \union {"snapshot", "step", "record"} => pending = {}
    /\ stage = "gate" => gated

\* A call that waits for its write is the one the stage is about.
CallInv ==
    call # NoCall =>
        /\ stage \in {"step", "gate", "restore", "post_gate"}
        /\ stage = "step" => call = Step.call
        /\ stage = "restore" => at <= Len(saved) /\ call = RestoreCall(Target(saved[at]))
        /\ stage \in {"gate", "post_gate"} => call.want = "off" /\ call.out \in pending

Restored(k) == saved[k].out \in touched \/ AsSaved(Target(saved[k]))

\* What is done of the state that is being restored.
Halfway ==
    LET s == saved[at] IN
    \/ s.out \in touched
    \/ /\ leg >= 2 => ~device[s.out].on
       /\ leg = 3 => device[s.out].level = s.level

\* Where the restoration is.
PlaceInv ==
    /\ stage \in Early \union {"snapshot", "step", "gate", "record"} =>
          at = 1 /\ leg = 1 /\ ~unrestored
    /\ path = "normal" /\ stage # "snapshot" => Len(saved) = Len(plan.restore)
    /\ stage = "restore" /\ saved # <<>> => at <= Len(saved)
    /\ stage \in {"post_gate", "files"} => at > Len(saved)
    /\ stage = "post_gate" => path = "normal" /\ gated

\* The states before the current one are restored, and stay so: another output is
\* restored next, and the gate after it wants OFF what the restoration left OFF.
RestoredInv ==
    ~unrestored =>
        /\ \A k \in DOMAIN saved : k < at => Restored(k)
        /\ stage = "restore" /\ at <= Len(saved) => Halfway

Closing == {"close", "report", "analysis", "end"}

\* Until it closes, a run has written nothing; and a run that closes without an
\* exception is one that was restored.
FilesInv ==
    /\ stage \notin Closing => files = "none" /\ ~raised /\ ~unclosed
    /\ stage \notin Early \union Closing => path # "setup"
    /\ files # "none" => path # "setup"
    /\ files = "ok" => path = "normal" /\ ~unrestored /\ at > Len(saved)
    /\ stage \in Closing /\ ~raised =>
          /\ files = IF failed \/ (unclosed /\ stage = "end") THEN "failed" ELSE "ok"
          /\ path = "normal" /\ ~unrestored /\ at > Len(saved)
    /\ stage = "analysis" => ~raised /\ ~unclosed

RunInv == /\ TypeOK /\ HeldInv /\ SnapshotInv /\ GuardInv /\ CallInv /\ OffInv
          /\ PlaceInv /\ RestoredInv /\ FilesInv
=============================================================================
