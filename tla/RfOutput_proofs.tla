--------------------------- MODULE RfOutput_proofs ---------------------------
(***************************************************************************)
(* Proofs about RfOutput, for any levels, limits, profiles, modulations,     *)
(* requests and number of front-panel actions.                              *)
(***************************************************************************)
EXTENDS RfOutput, TLAPS, SequenceTheorems

-----------------------------------------------------------------------------
(* The lemmas.                                                               *)

LEMMA RequestFacts ==
    ASSUME op \in Requests \union {NoRequest}, op # NoRequest
    PROVE  /\ op \in RequestType
           /\ op.kind \in Kinds /\ op.value \in ValuesOf[op.kind]
<1>1. op \in RequestType
  BY RfAssumption
<1>2. PICK k \in Kinds : op \in [kind : {k}, value : ValuesOf[k]]
  BY <1>1 DEF RequestType
<1> QED
  BY <1>1, <1>2

\* What a command asks of a port is a state a port may have.
LEMMA AskedTyped ==
    ASSUME NEW d \in PortType, NEW r \in RequestType
    PROVE  Asked(d, r) \in PortType
<1>1. PICK k \in Kinds : r \in [kind : {k}, value : ValuesOf[k]]
  BY DEF RequestType
<1>2. r.kind = k /\ r.value \in ValuesOf[k]
  BY <1>1
<1>3. CASE k = "cw"
  <2>1. r.value \in Levels
    BY <1>2, <1>3 DEF ValuesOf
  <2> QED
    BY <1>2, <1>3, <2>1 DEF Asked, PortType
<1>4. CASE k \in {"pulse", "sweep"}
  <2>1. r.value \in Profiles
    BY <1>2, <1>4 DEF ValuesOf
  <2> QED
    BY <1>2, <1>4, <2>1 DEF Asked, PortType
<1>5. CASE k = "modulation"
  <2>1. r.value \in Modulations
    BY <1>2, <1>5 DEF ValuesOf
  <2> QED
    BY <1>2, <1>5, <2>1 DEF Asked, PortType
<1>6. CASE k \in {"modulation_disable", "pulse_output_on", "pulse_output_off",
                  "output_on", "output_off", "modulated_output"}
  BY <1>2, <1>6 DEF Asked, PortType, Ons
<1> QED
  BY <1>3, <1>4, <1>5, <1>6 DEF Kinds, ValuesOf

LEMMA NudgedTyped ==
    ASSUME NEW d \in PortType, NEW e \in Nudged(d)
    PROVE  e \in PortType
<1>1. CASE e \in {[d EXCEPT !.out = ~@], [d EXCEPT !.busy = ~@], [d EXCEPT !.aux = ~@]}
  BY <1>1 DEF PortType
<1>2. CASE e \in {[d EXCEPT !.level = l] : l \in Levels}
  BY <1>2 DEF PortType
<1>3. CASE e \in {[d EXCEPT !.modes = m] : m \in SUBSET Modulations}
  BY <1>3 DEF PortType
<1>4. CASE e \in {[d EXCEPT !.pulse = p] : p \in Profiles}
  BY <1>4 DEF PortType
<1>5. CASE e \in {[d EXCEPT !.sweep = p] : p \in Profiles}
  BY <1>5 DEF PortType
<1>6. CASE e \in {[d EXCEPT !.alarm = a] : a \in {"none", "notice", "blocking"}}
  BY <1>6 DEF PortType
<1> QED
  BY <1>1, <1>2, <1>3, <1>4, <1>5, <1>6 DEF Nudged

LEMMA OutcomesTyped ==
    ASSUME NEW d \in PortType, NEW r \in RequestType, NEW e \in Outcomes(d, r)
    PROVE  e \in PortType
BY AskedTyped, NudgedTyped DEF Outcomes

\* The OFF of a recovery is a request like any other.
LEMMA RecoveryIsRequest == [kind |-> "output_off", value |-> NoValue] \in RequestType
<1>1. "output_off" \in Kinds /\ ValuesOf["output_off"] = {NoValue}
  BY DEF Kinds, ValuesOf
<1>2. [kind |-> "output_off", value |-> NoValue]
        \in [kind : {"output_off"}, value : ValuesOf["output_off"]]
  BY <1>1
<1> QED
  BY <1>1, <1>2 DEF RequestType

LEMMA CommandFacts ==
    /\ Command(op) \in {"on", "off", "set"}
    /\ op.kind \in Ons => Command(op) = "on"
BY DEF Command

LEMMA FailureTyped ==
    ASSUME NEW h \in Health, NEW g \in AfterFailure(h)
    PROVE  g \in Health
BY DEF AfterFailure, Health, Healthy, Uncertain, Poisoned

LEMMA HealthDistinct == Healthy # Uncertain /\ Healthy # Poisoned /\ Uncertain # Poisoned
BY DEF Healthy, Uncertain, Poisoned

-----------------------------------------------------------------------------
(* The steps.                                                                *)

LEMMA InvInit == Init => RfInv
<1> SUFFICES ASSUME Init
             PROVE  RfInv
  OBVIOUS
<1>1. sent \in {<<>>, <<"on">>, <<"off">>, <<"set">>, <<"on", "off">>}
  BY DEF Init
<1>2. moves \in 0..MaxMoves
  BY RfAssumption DEF Init
<1>3. health \in Health /\ pc \in Steps /\ recovery \in Statuses
  BY DEF Init, Health, Steps, Statuses
<1>4. TypeOK
  BY <1>1, <1>2, <1>3 DEF Init, TypeOK
<1> QED
  BY <1>4 DEF Init, RfInv, PendingInv, RecoveryInv, FailedOnIsSwitchedOff,
     HealthTellsTheTruth, ReadyInv

LEMMA InvBegin ==
    ASSUME RfInv, NEW r \in Requests, Begin(r)
    PROVE  RfInv'
<1>1. r # NoRequest
  BY RfAssumption
<1>3. sent' \in {<<>>, <<"on">>, <<"off">>, <<"set">>, <<"on", "off">>}
  BY DEF Begin
<1>4. moves' \in 0..MaxMoves
  BY RfAssumption DEF Begin
<1>5. pc' \in Steps /\ recovery' \in Statuses /\ failed' \in BOOLEAN
  BY DEF Begin, Steps, Statuses
<1>2. TypeOK'
  BY <1>3, <1>4, <1>5 DEF RfInv, TypeOK, Begin
<1> QED
  BY <1>1, <1>2 DEF RfInv, Begin, PendingInv, RecoveryInv, FailedOnIsSwitchedOff,
     HealthTellsTheTruth, ReadyInv

LEMMA InvPassPreflight == RfInv /\ PassPreflight => RfInv'
<1> SUFFICES ASSUME RfInv, PassPreflight
             PROVE  RfInv'
  OBVIOUS
<1>1. TypeOK'
  BY DEF RfInv, TypeOK, Steps, PassPreflight
<1>2. PendingInv'
  BY DEF RfInv, PendingInv, PassPreflight
<1> QED
  BY <1>1, <1>2 DEF RfInv, PassPreflight, RecoveryInv, FailedOnIsSwitchedOff,
     HealthTellsTheTruth, ReadyInv

LEMMA InvNothingToDo == RfInv /\ NothingToDo => RfInv'
<1> SUFFICES ASSUME RfInv, NothingToDo
             PROVE  RfInv'
  OBVIOUS
<1>1. Confirmed(port, op)
  BY DEF NothingToDo, Skips
<1>2. Asked(port', op') = port'
  BY <1>1 DEF NothingToDo, Confirmed
<1>4. TypeOK'
  BY DEF RfInv, TypeOK, Steps, NothingToDo
<1> QED
  BY <1>2, <1>4 DEF RfInv, NothingToDo, PendingInv, ReadyInv, RecoveryInv,
     FailedOnIsSwitchedOff, HealthTellsTheTruth

LEMMA InvFailPreflight == RfInv /\ FailPreflight => RfInv'
<1> SUFFICES ASSUME RfInv, FailPreflight
             PROVE  RfInv'
  OBVIOUS
<1>1. health' \in Health
  BY FailureTyped DEF RfInv, TypeOK, FailPreflight
<1>2. TypeOK'
  BY <1>1 DEF RfInv, TypeOK, Steps, FailPreflight
<1> QED
  BY <1>2 DEF RfInv, FailPreflight, PendingInv, RecoveryInv, FailedOnIsSwitchedOff,
     HealthTellsTheTruth, ReadyInv

LEMMA InvSend == RfInv /\ Send => RfInv'
<1> SUFFICES ASSUME RfInv, Send
             PROVE  RfInv'
  OBVIOUS
<1>1. sent = <<>> /\ op # NoRequest /\ health = Healthy /\ ~failed
  BY DEF RfInv, Send, PendingInv
<1>2. sent' = <<Command(op)>>
  BY <1>1 DEF Send
<1>3. port' \in PortType
  BY <1>1, RequestFacts, OutcomesTyped DEF RfInv, TypeOK, Send
<1>4. sent' \in {<<"on">>, <<"off">>, <<"set">>}
  BY <1>2, CommandFacts
<1>5. TypeOK'
  BY <1>3, <1>4 DEF RfInv, TypeOK, Steps, Send
<1>6. Command(op') = Command(op)
  BY DEF Send, Command
<1>7. PendingInv'
  BY <1>1, <1>2, <1>6 DEF Send, PendingInv
<1> QED
  BY <1>5, <1>7 DEF RfInv, Send, RecoveryInv, FailedOnIsSwitchedOff, HealthTellsTheTruth,
     ReadyInv

\* An operation that raises after its command was sent.
LEMMA FailFacts ==
    ASSUME RfInv, op # NoRequest, NEW h \in Health, Fail(h), UNCHANGED <<op, moves, touched>>,
           port' \in PortType, sent' = <<Command(op)>>
    PROVE  RfInv'
<1>1. health' \in Health /\ health' # Healthy
  BY HealthDistinct DEF Fail, Degraded, Health
<1>2. op.kind = "output_off" => health' = Poisoned /\ pc' = "idle"
  BY DEF Fail, Degraded, Ons
<1>3. sent' \in {<<"on">>, <<"off">>, <<"set">>}
  BY CommandFacts
<1>4. recovery' \in Statuses /\ pc' \in {"idle", "switch_off"}
  BY DEF Fail, Statuses, RfInv, TypeOK
<1>5. TypeOK'
  BY <1>1, <1>3, <1>4 DEF RfInv, TypeOK, Steps, Fail
<1>6. CASE op.kind \in Ons /\ health' # Poisoned
  <2>1. pc' = "switch_off" /\ failed' /\ health' = Uncertain /\ sent' = <<"on">>
    BY <1>1, <1>6, CommandFacts DEF Fail, Health
  <2> QED
    BY <1>5, <1>6, <2>1 DEF RfInv, PendingInv, RecoveryInv, FailedOnIsSwitchedOff,
       HealthTellsTheTruth, ReadyInv
<1>7. CASE ~(op.kind \in Ons /\ health' # Poisoned)
  <2>1. pc' = "idle" /\ failed'
    BY <1>7 DEF Fail
  <2>2. op.kind \in Ons => health' = Poisoned /\ sent' = <<"on">>
                           /\ recovery' = "not_attempted"
    BY <1>7, CommandFacts DEF Fail
  <2>3. FailedOnIsSwitchedOff'
    BY <1>1, <2>1, <2>2 DEF FailedOnIsSwitchedOff
  <2>4. HealthTellsTheTruth'
    BY <1>1, <1>2, <2>1 DEF HealthTellsTheTruth
  <2> QED
    BY <1>5, <2>1, <2>3, <2>4 DEF RfInv, PendingInv, ReadyInv, RecoveryInv
<1> QED
  BY <1>6, <1>7

LEMMA InvFailSend == RfInv /\ FailSend => RfInv'
<1> SUFFICES ASSUME RfInv, FailSend
             PROVE  RfInv'
  OBVIOUS
<1>1. sent = <<>> /\ op # NoRequest
  BY DEF RfInv, FailSend, PendingInv
<1>2. sent' = <<Command(op)>>
  BY <1>1 DEF FailSend
<1>3. port' \in PortType
  BY <1>1, RequestFacts, OutcomesTyped DEF RfInv, TypeOK, FailSend
<1>4. PICK h \in AfterFailure(health) : Fail(h)
  BY DEF FailSend
<1>5. h \in Health
  BY <1>4, FailureTyped DEF RfInv, TypeOK
<1> QED
  BY <1>1, <1>2, <1>3, <1>4, <1>5, FailFacts DEF FailSend

LEMMA InvConfirm == RfInv /\ Confirm => RfInv'
<1> SUFFICES ASSUME RfInv, Confirm
             PROVE  RfInv'
  OBVIOUS
<1>1. Confirmed(port, op) /\ ~failed /\ health = Healthy
  BY DEF RfInv, Confirm, PendingInv
<1>2. Asked(port', op') = port'
  BY <1>1 DEF Confirm, Confirmed
<1>4. TypeOK'
  BY DEF RfInv, TypeOK, Steps, Confirm
<1> QED
  BY <1>1, <1>2, <1>4 DEF RfInv, Confirm, PendingInv, ReadyInv, RecoveryInv,
     FailedOnIsSwitchedOff, HealthTellsTheTruth

LEMMA InvFailConfirm == RfInv /\ FailConfirm => RfInv'
<1> SUFFICES ASSUME RfInv, FailConfirm
             PROVE  RfInv'
  OBVIOUS
<1>1. op # NoRequest
  BY DEF RfInv, FailConfirm, PendingInv
<1>2. sent' = <<Command(op)>>
  BY DEF RfInv, PendingInv, FailConfirm
<1>3. PICK h \in AfterFailure(health) : Fail(h)
  BY DEF FailConfirm
<1>4. h \in Health
  BY <1>3, FailureTyped DEF RfInv, TypeOK
<1>5. port' \in PortType
  BY DEF RfInv, TypeOK, FailConfirm
<1> QED
  BY <1>1, <1>2, <1>3, <1>4, <1>5, FailFacts DEF FailConfirm

LEMMA OnThenOff == Append(<<"on">>, "off") = <<"on", "off">>
<1> DEFINE Switching == {"on", "off"}
<1>1. <<"on">> \in Seq(Switching) /\ Len(<<"on">>) = 1
  OBVIOUS
<1>2. /\ Len(Append(<<"on">>, "off")) = 2
      /\ Append(<<"on">>, "off")[1] = "on" /\ Append(<<"on">>, "off")[2] = "off"
  BY <1>1
<1>3. Append(<<"on">>, "off") \in Seq(Switching)
  BY <1>1
<1>4. <<"on", "off">> \in Seq(Switching) /\ Len(<<"on", "off">>) = 2
  OBVIOUS
<1>5. \A i \in 1..2 : Append(<<"on">>, "off")[i] = <<"on", "off">>[i]
  BY <1>2
<1> HIDE DEF Switching
<1> QED
  BY <1>2, <1>3, <1>4, <1>5, SeqEqual

\* The two ways a recovery sends its OFF.
LEMMA OffFacts ==
    ASSUME RfInv, pc = "switch_off", sent' = Append(sent, "off"),
           port' \in Outcomes(port, [kind |-> "output_off", value |-> NoValue])
    PROVE  /\ sent' = <<"on", "off">> /\ port' \in PortType
           /\ op.kind \in Ons /\ failed /\ health = Uncertain
<1>1. sent = <<"on">> /\ op.kind \in Ons /\ failed /\ health = Uncertain
  BY DEF RfInv, RecoveryInv
<1>2. port' \in PortType
  BY RecoveryIsRequest, OutcomesTyped DEF RfInv, TypeOK
<1>3. sent' = <<"on", "off">>
  BY <1>1, OnThenOff
<1> QED
  BY <1>1, <1>2, <1>3

LEMMA InvSwitchOff == RfInv /\ SwitchOff => RfInv'
<1> SUFFICES ASSUME RfInv, SwitchOff
             PROVE  RfInv'
  OBVIOUS
<1>1. /\ sent' = <<"on", "off">> /\ port' \in PortType
      /\ op.kind \in Ons /\ failed /\ health = Uncertain
  BY OffFacts DEF SwitchOff
<1>2. TypeOK'
  BY <1>1 DEF RfInv, TypeOK, Steps, SwitchOff
<1> QED
  BY <1>1, <1>2 DEF RfInv, SwitchOff, PendingInv, RecoveryInv, FailedOnIsSwitchedOff,
     HealthTellsTheTruth, ReadyInv

\* A recovery that ends leaves a session that is not healthy.
LEMMA RecoveryEnds ==
    ASSUME RfInv, op.kind \in Ons, op # NoRequest, failed, UNCHANGED <<op, failed, moves>>,
           pc' = "idle", sent' = <<"on", "off">>, port' \in PortType,
           health' \in {Uncertain, Poisoned}, touched' \in BOOLEAN, recovery' \in Statuses,
           recovery' = "off_verified" /\ ~touched' => ~port'.out
    PROVE  RfInv'
<1>1. health' # Healthy /\ health' \in Health
  BY HealthDistinct DEF Health
<1>2. TypeOK'
  BY <1>1 DEF RfInv, TypeOK, Steps
<1>3. op.kind # "output_off"
  BY DEF Ons
<1> QED
  BY <1>1, <1>2, <1>3 DEF RfInv, PendingInv, RecoveryInv, FailedOnIsSwitchedOff,
     HealthTellsTheTruth, ReadyInv

LEMMA InvFailSwitchOff == RfInv /\ FailSwitchOff => RfInv'
<1> SUFFICES ASSUME RfInv, FailSwitchOff
             PROVE  RfInv'
  OBVIOUS
<1>1. /\ sent' = <<"on", "off">> /\ port' \in PortType
      /\ op.kind \in Ons /\ failed /\ health = Uncertain
  BY OffFacts DEF FailSwitchOff
<1>2. op # NoRequest /\ touched \in BOOLEAN
  BY DEF RfInv, TypeOK, PendingInv, FailSwitchOff
<1>3. recovery' = "off_failed" /\ recovery' \in Statuses
  BY DEF FailSwitchOff, Statuses
<1> QED
  BY <1>1, <1>2, <1>3, RecoveryEnds DEF FailSwitchOff

LEMMA InvVerifyOff == RfInv /\ VerifyOff => RfInv'
<1> SUFFICES ASSUME RfInv, VerifyOff
             PROVE  RfInv'
  OBVIOUS
<1>1. /\ sent = <<"on", "off">> /\ op # NoRequest /\ port \in PortType
      /\ op.kind \in Ons /\ failed /\ health = Uncertain
  BY DEF RfInv, TypeOK, PendingInv, RecoveryInv, VerifyOff
<1>2. recovery' \in Statuses /\ touched' \in BOOLEAN /\ ~port'.out
  BY DEF VerifyOff, Statuses
<1> QED
  BY <1>1, <1>2, RecoveryEnds DEF VerifyOff

LEMMA InvFailVerifyOff == RfInv /\ FailVerifyOff => RfInv'
<1> SUFFICES ASSUME RfInv, FailVerifyOff
             PROVE  RfInv'
  OBVIOUS
<1>1. /\ sent = <<"on", "off">> /\ op # NoRequest /\ port \in PortType
      /\ op.kind \in Ons /\ failed /\ health = Uncertain /\ touched \in BOOLEAN
  BY DEF RfInv, TypeOK, PendingInv, RecoveryInv, FailVerifyOff
<1>2. recovery' = "off_sent_unverified" /\ recovery' \in Statuses
  BY DEF FailVerifyOff, Statuses
<1> QED
  BY <1>1, <1>2, RecoveryEnds DEF FailVerifyOff

LEMMA InvUsePanel == RfInv /\ UsePanel => RfInv'
<1> SUFFICES ASSUME RfInv, UsePanel
             PROVE  RfInv'
  OBVIOUS
<1>1. port' \in PortType
  BY NudgedTyped DEF RfInv, TypeOK, UsePanel
<1>2. moves' \in 0..MaxMoves
  BY RfAssumption DEF RfInv, TypeOK, UsePanel
<1>3. TypeOK'
  BY <1>1, <1>2 DEF RfInv, TypeOK, UsePanel
<1>4. touched' /\ UNCHANGED <<health, op, pc, sent, recovery, failed>>
  BY DEF UsePanel
<1>5. Command(op') = Command(op)
  BY <1>4 DEF Command
<1> QED
  BY <1>3, <1>4, <1>5 DEF RfInv, PendingInv, RecoveryInv, FailedOnIsSwitchedOff,
     HealthTellsTheTruth, ReadyInv

LEMMA InvReopen == RfInv /\ Reopen => RfInv'
BY DEF RfInv, TypeOK, Health, Statuses, Reopen, PendingInv, RecoveryInv,
       FailedOnIsSwitchedOff, HealthTellsTheTruth, ReadyInv

LEMMA InvStutter == RfInv /\ UNCHANGED vars => RfInv'
<1> SUFFICES ASSUME RfInv, UNCHANGED vars
             PROVE  RfInv'
  OBVIOUS
<1> USE DEF vars
<1>1. TypeOK' /\ RecoveryInv' /\ FailedOnIsSwitchedOff'
  BY DEF RfInv, TypeOK, RecoveryInv, FailedOnIsSwitchedOff
<1>2. PendingInv'
  BY DEF RfInv, PendingInv, Command
<1>3. HealthTellsTheTruth' /\ ReadyInv'
  BY DEF RfInv, HealthTellsTheTruth, ReadyInv, Asked
<1> QED
  BY <1>1, <1>2, <1>3 DEF RfInv

-----------------------------------------------------------------------------
(* The theorems.                                                             *)

\* The inductive invariant: what an operation has sent, and what that has made
\* of the session, at each of its steps.
THEOREM RfInvariant == Spec => []RfInv
<1>1. Init => RfInv
  BY InvInit
<1>2. RfInv /\ [Next]_vars => RfInv'
  BY InvBegin, InvPassPreflight, InvNothingToDo, InvFailPreflight, InvSend, InvFailSend,
     InvConfirm, InvFailConfirm, InvSwitchOff, InvFailSwitchOff, InvVerifyOff,
     InvFailVerifyOff, InvUsePanel, InvReopen, InvStutter DEF Next, ServiceStep
<1> QED
  BY <1>1, <1>2, PTL DEF Spec

\* Every variable stays within its type.
THEOREM RfTypeCorrect == Spec => []TypeOK
<1>1. RfInv => TypeOK
  BY DEF RfInv
<1> QED
  BY <1>1, RfInvariant, PTL

\* An ON that failed after it was sent is answered with one OFF, or the session
\* is poisoned; a recovery that reports success has switched the output off.
THEOREM RfFailedOnIsSwitchedOff == Spec => []FailedOnIsSwitchedOff
<1>1. RfInv => FailedOnIsSwitchedOff
  BY DEF RfInv
<1> QED
  BY <1>1, RfInvariant, PTL

\* A call that returns has left the port as asked; one that wrote and raised has
\* taken the session out of use.
THEOREM RfHealthTellsTheTruth == Spec => []HealthTellsTheTruth
<1>1. RfInv => HealthTellsTheTruth
  BY DEF RfInv
<1> QED
  BY <1>1, RfInvariant, PTL

\* Settings the preflight accepts for an ON, or the last reading confirms, are
\* within the limits.
LEMMA SuitsFits ==
    ASSUME NEW d, NEW r, NEW modes, r.kind \in Ons, Suits(d, r, modes),
           modes = IF r.kind = "modulated_output" THEN {r.value} ELSE {}
    PROVE  Fits(d, r)
BY DEF Suits, Emittable, Fits, Ons, Offs

LEMMA ReadyFits ==
    ASSUME NEW d, NEW r, r.kind \in Ons
    PROVE  /\ Ready(d, r) => Fits(d, r)
           /\ Confirmed(d, r) => Fits(d, r)
<1>1. /\ ModesBefore(r) = IF r.kind = "modulated_output" THEN {r.value} ELSE {}
      /\ ModesAfter(r) = IF r.kind = "modulated_output" THEN {r.value} ELSE {}
  BY DEF ModesBefore, ModesAfter, Ons
<1> QED
  BY <1>1, SuitsFits DEF Ready, Confirmed

\* No ON is handed over for settings outside the limits, and a call that returns with
\* the output on leaves it emitting within them.
THEOREM RfEmitsWithinLimits == Spec => EmitsWithinLimits
<1> DEFINE Within ==
        /\ sent = <<>> /\ sent' = <<"on">> => touched \/ Fits(port, op)
        /\ pc' = "idle" /\ ~failed' => port'.out /\ Fits(port', op)
<1>1. RfInv /\ [Next]_vars => [pc # "idle" /\ op.kind \in Ons => Within]_vars
  <2> SUFFICES ASSUME RfInv, Next, pc # "idle", op.kind \in Ons
               PROVE  Within
    BY DEF vars
  <2>1. ASSUME sent = <<>>, sent' = <<"on">>, ~touched
        PROVE  Fits(port, op)
    <3>1. <<>> # <<"on">>
      OBVIOUS
    <3>2. pc # "switch_off" /\ sent' # sent /\ sent' # <<>>
      BY <2>1, <3>1 DEF RfInv, RecoveryInv
    <3>3. pc = "main"
      BY <3>2 DEF Next, ServiceStep, Begin, PassPreflight, NothingToDo, FailPreflight, Send,
         FailSend, Confirm, FailConfirm, SwitchOff, FailSwitchOff, VerifyOff, FailVerifyOff,
         UsePanel, Reopen
    <3> QED
      BY <2>1, <3>3, ReadyFits DEF RfInv, ReadyInv
  <2>2. ASSUME pc' = "idle", ~failed'
        PROVE  port'.out /\ Fits(port', op)
    <3>1. NothingToDo \/ Confirm
      BY <2>2 DEF RfInv, PendingInv, RecoveryInv, Next, ServiceStep, Begin, PassPreflight,
         FailPreflight, Send, FailSend, Fail, FailConfirm, SwitchOff, FailSwitchOff,
         VerifyOff, FailVerifyOff, UsePanel, Reopen
    <3>2. Confirmed(port, op) /\ port' = port
      BY <3>1 DEF NothingToDo, Skips, Confirm
    <3>3. port.out
      <4>1. Asked(port, op) = [port EXCEPT !.out = TRUE]
        BY DEF Asked, Ons
      <4>2. port \in PortType
        BY DEF RfInv, TypeOK
      <4>3. [port EXCEPT !.out = TRUE].out
        BY <4>2 DEF PortType
      <4> QED
        BY <3>2, <4>1, <4>3 DEF Confirmed
    <3> QED
      BY <3>2, <3>3, ReadyFits
  <2> QED
    BY <2>1, <2>2
<1> QED
  BY <1>1, RfInvariant, PTL DEF Spec, EmitsWithinLimits
=============================================================================
