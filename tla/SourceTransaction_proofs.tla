----------------------- MODULE SourceTransaction_proofs -----------------------
(***************************************************************************)
(* Proofs about SourceTransaction, for every set of channels, relations and  *)
(* requests.                                                                 *)
(***************************************************************************)
EXTENDS SourceTransaction, TLAPS

-----------------------------------------------------------------------------
(* The contracts.                                                            *)

LEMMA KindNames ==
    Kinds = {"basic_configure", "basic_live_configure", "output_enable", "output_disable",
             "harmonics_configure", "harmonics_disable", "modulation_configure",
             "pm_configure", "fm_configure", "pwm_configure", "sweep_configure",
             "burst_configure", "sweep_fire", "burst_fire", "pulse_configure",
             "arbitrary_storage", "arbitrary_select", "arbitrary_volatile",
             "workspace_volatile", "counter", "cross_channel"}
  BY DEF Kinds, Contract

\* What the proofs need of the table: only operations that declare emergency
\* outputs switch them OFF, and only the receipted ones record receipts.
LEMMA ContractFacts ==
    ASSUME NEW k \in Kinds
    PROVE  /\ Contract[k].off \in BOOLEAN
           /\ (Contract[k].recovers = "switch_off") = Contract[k].off
           /\ Contract[k].recovers \in {"switch_off", "mark", "none"}
           /\ k \in Fires \union Receipted => Contract[k].writes \in {"sweep", "burst"}
           /\ Contract[k].reach \in {"channel", "instrument", "closure"}
           /\ (Contract[k].reach = "closure") = (k = "cross_channel")
           /\ k \in Fires \union {"output_enable", "output_disable", "cross_channel"} =>
                Contract[k].writes # "level"
           /\ k = "output_enable" => Contract[k].skips
           /\ k = "arbitrary_storage" => Contract[k].reach = "channel"
<1>1. CASE k = "basic_configure"
  BY <1>1 DEF Contract, BasicConfigure, OffOnly, Fires, Receipted
<1>2. CASE k = "basic_live_configure"
  BY <1>2 DEF Contract, BasicLiveConfigure, OffOnly, Fires, Receipted
<1>3. CASE k = "output_enable"
  BY <1>3 DEF Contract, OutputEnable, OffOnly, Fires, Receipted
<1>4. CASE k = "output_disable"
  BY <1>4 DEF Contract, OutputDisable, OffOnly, Fires, Receipted
<1>5. CASE k = "harmonics_configure"
  BY <1>5 DEF Contract, HarmonicsConfigure, OffOnly, Fires, Receipted
<1>6. CASE k = "harmonics_disable"
  BY <1>6 DEF Contract, HarmonicsDisable, OffOnly, Fires, Receipted
<1>7. CASE k = "modulation_configure"
  BY <1>7 DEF Contract, ModulationConfigure, OffOnly, Fires, Receipted
<1>8. CASE k = "pm_configure"
  BY <1>8 DEF Contract, PmConfigure, OffOnly, Fires, Receipted
<1>9. CASE k = "fm_configure"
  BY <1>9 DEF Contract, FmConfigure, OffOnly, Fires, Receipted
<1>10. CASE k = "pwm_configure"
  BY <1>10 DEF Contract, PwmConfigure, OffOnly, Fires, Receipted
<1>11. CASE k = "sweep_configure"
  BY <1>11 DEF Contract, SweepConfigure, OffOnly, Fires, Receipted
<1>12. CASE k = "burst_configure"
  BY <1>12 DEF Contract, BurstConfigure, OffOnly, Fires, Receipted
<1>13. CASE k = "sweep_fire"
  BY <1>13 DEF Contract, Fire, OffOnly, Fires, Receipted
<1>14. CASE k = "burst_fire"
  BY <1>14 DEF Contract, Fire, OffOnly, Fires, Receipted
<1>15. CASE k = "pulse_configure"
  BY <1>15 DEF Contract, PulseConfigure, OffOnly, Fires, Receipted
<1>16. CASE k = "arbitrary_storage"
  BY <1>16 DEF Contract, ArbitraryStorage, OffOnly, Fires, Receipted
<1>17. CASE k = "arbitrary_select"
  BY <1>17 DEF Contract, ArbitrarySelect, OffOnly, Fires, Receipted
<1>18. CASE k = "arbitrary_volatile"
  BY <1>18 DEF Contract, ArbitraryVolatile, OffOnly, Fires, Receipted
<1>19. CASE k = "workspace_volatile"
  BY <1>19 DEF Contract, WorkspaceVolatile, OffOnly, Fires, Receipted
<1>20. CASE k = "counter"
  BY <1>20 DEF Contract, CounterMutation, OffOnly, Fires, Receipted
<1>21. CASE k = "cross_channel"
  BY <1>21 DEF Contract, CrossChannel, OffOnly, Fires, Receipted
<1> QED
  BY <1>1, <1>2, <1>3, <1>4, <1>5, <1>6, <1>7, <1>8, <1>9, <1>10, <1>11, <1>12, <1>13, <1>14, <1>15, <1>16, <1>17, <1>18, <1>19, <1>20, <1>21, KindNames

-----------------------------------------------------------------------------
(* Types.                                                                    *)

LEMMA RequestFacts ==
    ASSUME NEW r \in Requests
    PROVE  /\ r.kind \in Kinds
           /\ r.chans \in SUBSET Channels
           /\ r.level \in Levels
           /\ r.setup \in Setups
           /\ r # NoRequest
  BY SourceAssumption DEF RequestType

LEMMA HealthTyped ==
    ASSUME NEW h \in Health
    PROVE  /\ Conservative(h) \in Health
           /\ \A x : FinalHealth(x, h) \in Health
  BY DEF Health, Conservative, FinalHealth, Healthy, Uncertain, Poisoned

LEMMA FailureTyped ==
    ASSUME health \in Health
    PROVE  \A p : AfterFailure(p) \subseteq Health
  BY DEF AfterFailure, Health, Conservative, Healthy, Uncertain, Poisoned

LEMMA ContextTyped ==
    ASSUME NEW x \in ContextType, NEW p \in Phases
    PROVE  /\ Entered(x, p) \in ContextType
           /\ FailureRequired(x) \in ContextType
           /\ [Entered(x, p) EXCEPT !.proven = TRUE] \in ContextType
           /\ [Entered(x, p) EXCEPT !.safe = TRUE] \in ContextType
           /\ FreshContext \in ContextType
  BY DEF ContextType, Entered, FailureRequired, FreshContext

LEMMA DeviceFacts ==
    ASSUME NEW d \in DeviceType
    PROVE  /\ \A x \in SUBSET Channels : [d EXCEPT !.on = x] \in DeviceType
           /\ \A x \in SUBSET Channels : [d EXCEPT !.high = x] \in DeviceType
           /\ \A x \in SUBSET Edges : [d EXCEPT !.links = x] \in DeviceType
           /\ \A x \in SUBSET Edges : [d EXCEPT !.graph = x] \in DeviceType
           /\ \A x \in [Channels -> [Settings -> Setups]] : [d EXCEPT !.setup = x] \in DeviceType
           /\ d.on \in SUBSET Channels /\ d.high \in SUBSET Channels
           /\ d.links \in SUBSET Edges /\ d.graph \in SUBSET Edges
           /\ d.setup \in [Channels -> [Settings -> Setups]]
  BY DEF DeviceType

LEMMA AppliedTyped ==
    ASSUME NEW r \in Requests, NEW d \in DeviceType
    PROVE  Applied(r, d) \in DeviceType
<1>1. CASE r.kind \in Fires
  <2>1. Applied(r, d) = d
    BY <1>1, RequestFacts, ContractFacts DEF Applied, Fires
  <2> QED
    BY <2>1
<1>2. CASE r.kind = "output_enable"
  <2>1. Applied(r, d) = [d EXCEPT !.on = d.on \union r.chans]
    BY <1>2, RequestFacts, ContractFacts DEF Applied, Fires
  <2>2. d.on \union r.chans \in SUBSET Channels
    BY RequestFacts, DeviceFacts
  <2>3. [d EXCEPT !.on = d.on \union r.chans] \in DeviceType
    BY <2>2, DeviceFacts
  <2> QED
    BY <2>1, <2>3
<1>3. CASE r.kind = "output_disable"
  <2>1. Applied(r, d) = [d EXCEPT !.on = d.on \ r.chans]
    BY <1>3, RequestFacts, ContractFacts DEF Applied, Fires
  <2>2. d.on \ r.chans \in SUBSET Channels
    BY DeviceFacts
  <2>3. [d EXCEPT !.on = d.on \ r.chans] \in DeviceType
    BY <2>2, DeviceFacts
  <2> QED
    BY <2>1, <2>3
<1>4. CASE r.kind = "cross_channel"
  <2> DEFINE links == IF r.want THEN d.links \union {r.chans} ELSE d.links \ {r.chans}
  <2>1. Applied(r, d) = [d EXCEPT !.links = links]
    BY <1>4, RequestFacts, ContractFacts DEF Applied, Fires
  <2>2. links \in SUBSET Edges
    BY <1>4, SourceAssumption, DeviceFacts
  <2> HIDE DEF links
  <2>3. [d EXCEPT !.links = links] \in DeviceType
    BY <2>2, DeviceFacts
  <2> QED
    BY <2>1, <2>3
<1>5. CASE /\ Contract[r.kind].writes = "level"
           /\ r.kind \notin Fires \union {"output_enable", "output_disable", "cross_channel"}
  <2> DEFINE high == CASE r.level = "low"  -> d.high \ r.chans
                       [] r.level = "high" -> d.high \union r.chans
                       [] r.level = "keep" -> d.high
  <2>1. high \in SUBSET Channels
    BY RequestFacts, DeviceFacts DEF Levels
  <2>2. Applied(r, d) = [d EXCEPT !.high = high]
    BY <1>5 DEF Applied
  <2> HIDE DEF high
  <2>3. [d EXCEPT !.high = high] \in DeviceType
    BY <2>1, DeviceFacts
  <2> QED
    BY <2>2, <2>3
<1>6. CASE /\ Contract[r.kind].writes # "level"
           /\ r.kind \notin Fires \union {"output_enable", "output_disable", "cross_channel"}
  <2> DEFINE setup == [c \in Channels |->
                IF c \in Written(r) THEN [d.setup[c] EXCEPT ![Contract[r.kind].writes] = r.setup]
                ELSE d.setup[c]]
  <2>1. setup \in [Channels -> [Settings -> Setups]]
    BY RequestFacts, DeviceFacts
  <2>2. Applied(r, d) = [d EXCEPT !.setup = setup]
    BY <1>6 DEF Applied
  <2> HIDE DEF setup
  <2>3. [d EXCEPT !.setup = setup] \in DeviceType
    BY <2>1, DeviceFacts
  <2> QED
    BY <2>2, <2>3
<1> QED
  BY <1>1, <1>2, <1>3, <1>4, <1>5, <1>6

LEMMA OutcomesTyped ==
    ASSUME NEW r \in Requests, NEW d \in DeviceType
    PROVE  Outcomes(r, d) \subseteq DeviceType
<1> DEFINE a == Applied(r, d)
<1>1. a \in DeviceType
  BY AppliedTyped
<1>2. [a EXCEPT !.on = @ \union r.chans] \in DeviceType
  BY <1>1, DeviceFacts, RequestFacts
<1>3. [a EXCEPT !.on = @ \union Partners(d, r.chans)] \in DeviceType
  <2>1. Partners(d, r.chans) \subseteq Channels
    BY DeviceFacts, SourceAssumption DEF Partners
  <2> QED
    BY <1>1, <2>1, DeviceFacts
<1>4. ASSUME NEW e \in Edges PROVE [a EXCEPT !.graph = @ \union {e}] \in DeviceType
  <2>1. a.graph \union {e} \in SUBSET Edges
    BY <1>1, DeviceFacts
  <2> QED
    BY <1>1, <2>1, DeviceFacts
<1> QED
  BY <1>1, <1>2, <1>3, <1>4 DEF Outcomes

LEMMA PanelTyped ==
    ASSUME NEW d \in DeviceType
    PROVE  ChannelMoves(d) \union RelationMoves(d) \subseteq DeviceType
<1>1. ASSUME NEW p \in Panel PROVE Touched(d, p[1], p[2]) \subseteq DeviceType
  <2>1. p[1] \in Channels /\ p[2] \in Settings
    BY SourceAssumption
  <2>2. Toggled(p[1], d.on) \in SUBSET Channels /\ Toggled(p[1], d.high) \in SUBSET Channels
    BY <2>1, DeviceFacts DEF Toggled
  <2>3. [d EXCEPT !.on = Toggled(p[1], d.on)] \in DeviceType
    BY <2>2, DeviceFacts
  <2>4. [d EXCEPT !.high = Toggled(p[1], d.high)] \in DeviceType
    BY <2>2, DeviceFacts
  <2>5. ASSUME NEW s \in Setups PROVE [d EXCEPT !.setup[p[1]][p[2]] = s] \in DeviceType
    <3>1. [d.setup EXCEPT ![p[1]][p[2]] = s] \in [Channels -> [Settings -> Setups]]
      BY <2>1, DeviceFacts
    <3>2. [d EXCEPT !.setup = [d.setup EXCEPT ![p[1]][p[2]] = s]] \in DeviceType
      BY <3>1, DeviceFacts
    <3> QED
      BY <3>2
  <2> QED
    BY <2>3, <2>4, <2>5 DEF Touched
<1>2. ASSUME NEW e \in d.graph PROVE Relinked(d, e) \in DeviceType
  <2>1. Toggled(e, d.links) \in SUBSET Edges
    BY DeviceFacts DEF Toggled
  <2>2. [d EXCEPT !.links = Toggled(e, d.links)] \in DeviceType
    BY <2>1, DeviceFacts
  <2> QED
    BY <2>2 DEF Relinked
<1>3. ChannelMoves(d) \subseteq DeviceType
  <2> SUFFICES ASSUME NEW x \in ChannelMoves(d) PROVE x \in DeviceType
    OBVIOUS
  <2>1. PICK p \in Panel : x \in Touched(d, p[1], p[2])
    BY DEF ChannelMoves
  <2> QED
    BY <1>1, <2>1
<1>4. RelationMoves(d) \subseteq DeviceType
  BY <1>2 DEF RelationMoves
<1> QED
  BY <1>3, <1>4

LEMMA ReceiptsTyped ==
    ASSUME NEW r \in Requests, r.kind \in Receipted
    PROVE  {Contract[r.kind].writes} \X r.chans \X {r.setup} \subseteq ReceiptType
  BY RequestFacts, ContractFacts DEF ReceiptType

LEMMA ReachTyped ==
    ASSUME NEW r \in Requests, NEW d
    PROVE  Reach(r, d) \in SUBSET Channels
  BY RequestFacts, ContractFacts DEF Reach, AffectedChannels

-----------------------------------------------------------------------------
(* Type correctness.                                                         *)

LEMMA InitTyped == Init => TypeOK
<1> SUFFICES ASSUME Init PROVE TypeOK
  OBVIOUS
<1>1. device \in DeviceType
  BY SourceAssumption DEF Init
<1>2. ctx \in ContextType
  BY DEF Init, FreshContext, ContextType
<1>3. ops \in 0..MaxOps /\ moves \in 0..MaxMoves
  BY SourceAssumption DEF Init
<1>4. health \in Health
  BY DEF Init, Health
<1> QED
  BY <1>1, <1>2, <1>3, <1>4 DEF Init, TypeOK, Steps, Clock

LEMMA NextTyped == TypeOK /\ [Next]_vars => TypeOK'
<1> SUFFICES ASSUME TypeOK, [Next]_vars PROVE TypeOK'
  OBVIOUS
<1> USE DEF TypeOK
<1> op # NoRequest => op \in Requests /\ op \in RequestType /\ op.chans \in SUBSET Channels
  BY SourceAssumption DEF RequestType
<1> /\ \A r \in Requests : r # NoRequest
    /\ \A p : AfterFailure(p) \subseteq Health
    /\ \A r \in Requests, d \in DeviceType : Outcomes(r, d) \subseteq DeviceType
  BY RequestFacts, FailureTyped, OutcomesTyped
<1>1. ASSUME NEW r \in Requests, Begin(r) PROVE TypeOK'
  <2>1. Reach(r, device) \in SUBSET Channels
    BY ReachTyped
  <2>2. FreshContext \in ContextType
    BY DEF FreshContext, ContextType
  <2>3. ops' \in 0..MaxOps
    BY <1>1, SourceAssumption DEF Begin
  <2> QED
    BY <1>1, <2>1, <2>2, <2>3 DEF Begin, Steps, Clock
<1>2. CASE FailDiscovery
  BY <1>2 DEF FailDiscovery, opVars, ghostVars
<1>3. CASE PassPreflight
  <2>1. Entered(ctx, "preflight") \in ContextType
    BY ContextTyped DEF Phases
  <2>2. device.on \in SUBSET Channels
    BY DeviceFacts
  <2> QED
    BY <1>3, <2>1, <2>2 DEF PassPreflight, Steps
<1>4. CASE FailPreflight
  BY <1>4 DEF FailPreflight, ghostVars, Steps
<1>5. ASSUME NEW ok \in BOOLEAN, Main(ok) PROVE TypeOK'
  <2>1. Entered(ctx, "main") \in ContextType
    BY ContextTyped DEF Phases
  <2>2. op \in Requests
    BY <1>5 DEF Main
  <2>3. device' \in DeviceType /\ wrote' \in BOOLEAN
    BY <1>5, <2>2 DEF Main
  <2>4. health' \in Health /\ pc' \in {"postcondition", "failed"}
    BY <1>5 DEF Main
  <2> QED
    BY <1>5, <2>1, <2>2, <2>3, <2>4 DEF Main, Steps
<1>6. CASE RefuseMain
  BY <1>6 DEF RefuseMain, ghostVars, Steps
<1>7. CASE Confirm
  <2>1. [Entered(ctx, "postcondition") EXCEPT !.proven = TRUE] \in ContextType
    BY ContextTyped DEF Phases
  <2> QED
    BY <1>7, <2>1 DEF Confirm, SinceSnapshot, Steps
<1>8. CASE FailPostcondition
  <2>1. Entered(ctx, "postcondition") \in ContextType
    BY ContextTyped DEF Phases
  <2> QED
    BY <1>8, <2>1 DEF FailPostcondition, ghostVars, Steps
<1>9. CASE MarkFailure
  <2>1. FailureRequired(ctx) \in ContextType
    BY DEF FailureRequired, ContextType
  <2>2. Conservative(health) \in Health
    BY HealthTyped
  <2>3. receipts' \in SUBSET ReceiptType
    BY <1>9 DEF MarkFailure
  <2>4. /\ ctx' \in ContextType
        /\ health' \in Health
        /\ pc' \in {"complete", "safe_state"}
    BY <1>9, <2>1, <2>2 DEF MarkFailure
  <2> QED
    BY <1>9, <2>3, <2>4 DEF MarkFailure, ghostVars, Steps
<1>10. ASSUME NEW c \in Channels, NEW ok \in BOOLEAN, SwitchOff(c, ok) PROVE TypeOK'
  <2>1. Entered(ctx, "failure_safe_state") \in ContextType
    BY ContextTyped DEF Phases
  <2>2. [device EXCEPT !.on = device.on \ {c}] \in DeviceType
    <3>1. device.on \ {c} \in SUBSET Channels
      BY DeviceFacts
    <3> QED
      BY <3>1, DeviceFacts
  <2>3. device' \in DeviceType
    BY <1>10, <2>2 DEF SwitchOff
  <2>4. health' \in Health /\ missed' \in BOOLEAN
    BY <1>10 DEF SwitchOff
  <2>5. pc' \in {"safe_state", "complete", "verify"}
    BY <1>10 DEF SwitchOff
  <2> QED
    BY <1>10, <2>1, <2>3, <2>4, <2>5 DEF SwitchOff, ghostVars, Steps
<1>11. CASE FailSafeState
  BY <1>11 DEF FailSafeState, ghostVars, Steps
<1>12. CASE VerifyOff
  <2>1. [Entered(ctx, "cleanup_verification") EXCEPT !.safe = TRUE] \in ContextType
    BY ContextTyped DEF Phases
  <2> QED
    BY <1>12, <2>1 DEF VerifyOff, SinceSnapshot, Steps
<1>13. CASE FailVerify
  BY <1>13 DEF FailVerify, ghostVars, Steps
<1>14. CASE Complete
  <2>1. FinalHealth(ctx, health) \in Health
    BY HealthTyped
  <2>2. FreshContext \in ContextType
    BY DEF FreshContext, ContextType
  <2>3. receipts' \in SUBSET ReceiptType
    <3>1. op \in Requests
      BY <1>14 DEF Complete
    <3> QED
      BY <1>14, <3>1, ReceiptsTyped DEF Complete
  <2> QED
    BY <1>14, <2>1, <2>2, <2>3 DEF Complete, Steps, Clock
<1>15. CASE Tick
  BY <1>15 DEF Tick, opVars, ghostVars, Clock
<1>16. CASE UsePanel
  <2>1. device' \in DeviceType
    BY <1>16, PanelTyped DEF UsePanel
  <2>2. moves' \in 0..MaxMoves
    BY <1>16, SourceAssumption DEF UsePanel
  <2> QED
    BY <1>16, <2>1, <2>2 DEF UsePanel, opVars
<1>17. CASE UNCHANGED vars
  BY <1>17 DEF vars, opVars, ghostVars
<1> QED
  BY <1>1, <1>2, <1>3, <1>4, <1>5, <1>6, <1>7, <1>8, <1>9, <1>10, <1>11, <1>12, <1>13,
     <1>14, <1>15, <1>16, <1>17
     DEF Next, ServiceStep

\* The types hold in every reachable state.
THEOREM SourceTypeCorrect == Spec => []TypeOK
<1>1. Init => TypeOK
  BY InitTyped
<1>2. TypeOK /\ [Next]_vars => TypeOK'
  BY NextTyped
<1> QED
  BY <1>1, <1>2, PTL DEF Spec

-----------------------------------------------------------------------------
(* The inductive invariant, conjunct by conjunct.                            *)

\* What entering a phase makes of the context.
Entering ==
    \A p \in Phases :
        /\ Entered(ctx, p) \in ContextType
        /\ Entered(ctx, p).used = ctx.used \union {p}
        /\ Entered(ctx, p).main = (ctx.main \/ p = "main")
        /\ Entered(ctx, p).failing = ctx.failing
        /\ Entered(ctx, p).proven = ctx.proven
        /\ Entered(ctx, p).safe = ctx.safe

LEMMA EnteredFacts == ctx \in ContextType => Entering
<1> SUFFICES ASSUME ctx \in ContextType, NEW p \in Phases
             PROVE  /\ Entered(ctx, p) \in ContextType
                    /\ Entered(ctx, p).used = ctx.used \union {p}
                    /\ Entered(ctx, p).main = (ctx.main \/ p = "main")
                    /\ Entered(ctx, p).failing = ctx.failing
                    /\ Entered(ctx, p).proven = ctx.proven
                    /\ Entered(ctx, p).safe = ctx.safe
  BY DEF Entering
<1>1. Entered(ctx, p) \in ContextType
  BY ContextTyped
<1> QED
  BY <1>1 DEF ContextType, Entered

LEMMA ContextFacts ==
    ASSUME NEW x \in ContextType
    PROVE  /\ FreshContext = [used |-> {}, main |-> FALSE, failing |-> FALSE,
                             proven |-> FALSE, safe |-> FALSE]
           /\ FailureRequired(x).used = x.used /\ FailureRequired(x).main = x.main
           /\ FailureRequired(x).failing
           /\ FailureRequired(x).proven = x.proven /\ FailureRequired(x).safe = x.safe
           /\ \A b \in BOOLEAN :
                 LET y == [x EXCEPT !.proven = b]
                     z == [x EXCEPT !.safe = b]
                 IN  /\ y.used = x.used /\ y.main = x.main /\ y.failing = x.failing
                     /\ y.proven = b /\ y.safe = x.safe
                     /\ z.used = x.used /\ z.main = x.main /\ z.failing = x.failing
                     /\ z.proven = x.proven /\ z.safe = b
  BY DEF ContextType, FreshContext, FailureRequired

LEMMA PhaseInvNext == CoreInv /\ [Next]_vars => PhaseInv'
<1> SUFFICES ASSUME CoreInv, [Next]_vars PROVE PhaseInv'
  OBVIOUS
<1> ctx \in ContextType /\ health \in Health /\ pc \in Steps
  BY DEF CoreInv, TypeOK
<1> USE DEF CoreInv
<1> Entering
  BY EnteredFacts DEF TypeOK
<1> USE DEF Entering
<1> /\ ctx.main \in BOOLEAN /\ ctx.failing \in BOOLEAN
    /\ ctx.proven \in BOOLEAN /\ ctx.safe \in BOOLEAN
  BY DEF ContextType
<1> USE DEF Phases
<1>1. ASSUME NEW r \in Requests, Begin(r) PROVE PhaseInv'
  BY <1>1, ContextFacts DEF Begin, PhaseInv, MarkInv, Unmarked, Emergency
<1>2. CASE FailDiscovery
  BY <1>2 DEF FailDiscovery, TypeOK, PhaseInv, MarkInv, Unmarked, Emergency, opVars, ghostVars
<1>3. CASE PassPreflight
  <2>1. /\ ctx'.main = ctx.main /\ ctx'.failing = ctx.failing /\ ctx'.proven = ctx.proven
        /\ ctx'.safe = ctx.safe /\ "preflight" \in ctx'.used
    BY <1>3 DEF PassPreflight
  <2>2. pc' \in {"complete", "main"} /\ pc = "preflight" /\ sent' = sent /\ health' = health
    BY <1>3 DEF PassPreflight
  <2> QED
    BY <2>1, <2>2 DEF PhaseInv, MarkInv, Unmarked
<1>4. CASE FailPreflight
  BY <1>4, ContextFacts DEF FailPreflight, PhaseInv, MarkInv, Unmarked, Emergency, ghostVars
<1>5. ASSUME NEW ok \in BOOLEAN, Main(ok) PROVE PhaseInv'
  <2>1. /\ ctx'.main /\ ctx'.failing = ctx.failing /\ ctx'.proven = ctx.proven
        /\ ctx'.safe = ctx.safe /\ ctx'.used = ctx.used \union {"main"}
    BY <1>5 DEF Main
  <2>2. /\ pc = "main" /\ sent' = sent /\ health = Healthy
        /\ pc' = "failed" \/ (pc' = "postcondition" /\ health' = health)
    BY <1>5 DEF Main
  <2> QED
    BY <2>1, <2>2 DEF PhaseInv, MarkInv, Unmarked
<1>6. CASE RefuseMain
  BY <1>6, ContextFacts DEF RefuseMain, PhaseInv, MarkInv, Unmarked, Emergency, ghostVars
<1>7. CASE Confirm
  BY <1>7, ContextFacts DEF Confirm, PhaseInv, MarkInv, Unmarked, Emergency
<1>8. CASE FailPostcondition
  <2>1. /\ ctx'.main = ctx.main /\ ctx'.failing = ctx.failing /\ ctx'.proven = ctx.proven
        /\ ctx'.safe = ctx.safe /\ ctx.used \subseteq ctx'.used
    BY <1>8 DEF FailPostcondition
  <2>2. pc = "postcondition" /\ pc' = "failed" /\ sent' = sent
    BY <1>8 DEF FailPostcondition, ghostVars
  <2> QED
    BY <2>1, <2>2 DEF PhaseInv, MarkInv, Unmarked
<1>9. CASE MarkFailure
  <2>1. op \in Requests /\ Contract[op.kind].off \in BOOLEAN
        /\ (Contract[op.kind].recovers = "switch_off") = Contract[op.kind].off
    BY <1>9, RequestFacts, ContractFacts DEF MarkFailure, TypeOK
  <2>2. CASE Contract[op.kind].recovers = "none"
    BY <1>9, <2>1, <2>2, ContextFacts DEF MarkFailure, PhaseInv, MarkInv, Unmarked, TypeOK, Emergency, ghostVars
  <2>3. CASE Contract[op.kind].recovers # "none"
    <3>1. /\ ctx'.main = ctx.main /\ ctx'.failing /\ ctx'.proven = ctx.proven
          /\ ctx'.safe = ctx.safe /\ ctx'.used = ctx.used
      BY <1>9, <2>3, ContextFacts DEF MarkFailure
    <3>2. /\ health' # Healthy
          /\ health # Poisoned => health' # Poisoned
      BY <1>9, <2>3 DEF MarkFailure, Conservative, Healthy, Uncertain, Poisoned
    <3>3. /\ pc = "failed" /\ pc' \in {"safe_state", "complete"}
          /\ pc' = "safe_state" => Contract[op.kind].recovers = "switch_off" /\ health # Poisoned
          /\ op' = op /\ closure' = closure /\ sent' = sent
      BY <1>9, <2>3 DEF MarkFailure
    <3> QED
      BY <2>1, <3>1, <3>2, <3>3 DEF PhaseInv, MarkInv, Unmarked, TypeOK, Emergency, ghostVars
  <2> QED
    BY <2>2, <2>3
<1>10. ASSUME NEW c \in Channels, NEW ok \in BOOLEAN, SwitchOff(c, ok) PROVE PhaseInv'
  <2>1. /\ ctx'.main = ctx.main /\ ctx'.failing = ctx.failing /\ ctx'.proven = ctx.proven
        /\ ctx'.safe = ctx.safe /\ ctx.used \subseteq ctx'.used
    BY <1>10 DEF SwitchOff
  <2>2. /\ pc = "safe_state" /\ pc' \in {"safe_state", "complete", "verify"}
        /\ op' = op /\ Emergency(op)' = Emergency(op)
        /\ c \in Emergency(op) /\ sent' = sent \union {c}
    BY <1>10 DEF SwitchOff, Emergency
  <2>3. pc' # "complete" => health' # Poisoned
    BY <1>10 DEF SwitchOff, PhaseInv, TypeOK
  <2>4. pc' = "verify" => health' # Poisoned /\ sent' = Emergency(op)
    <3>1. CASE health' # Poisoned /\ Emergency(op) # sent'
      BY <1>10, <3>1 DEF SwitchOff
    <3>2. CASE health' = Poisoned
      BY <1>10, <3>2 DEF SwitchOff, PhaseInv, TypeOK
    <3>3. CASE health' # Poisoned /\ Emergency(op) = sent'
      BY <3>3
    <3> QED
      BY <3>1, <3>2, <3>3
  <2> QED
    BY <2>1, <2>2, <2>3, <2>4 DEF PhaseInv, MarkInv, Unmarked
<1>11. CASE FailSafeState
  BY <1>11, ContextFacts DEF FailSafeState, PhaseInv, MarkInv, Unmarked, Emergency, ghostVars
<1>12. CASE VerifyOff
  BY <1>12, ContextFacts DEF VerifyOff, PhaseInv, MarkInv, Unmarked, Emergency
<1>13. CASE FailVerify
  BY <1>13, ContextFacts DEF FailVerify, PhaseInv, MarkInv, Unmarked, Emergency, ghostVars
<1>14. CASE Complete
  BY <1>14, ContextFacts DEF Complete, PhaseInv, MarkInv, Unmarked, Emergency
<1>15. CASE Tick
  BY <1>15, ContextFacts DEF Tick, PhaseInv, MarkInv, Unmarked, Emergency, opVars, ghostVars
<1>16. CASE UsePanel
  BY <1>16, ContextFacts DEF UsePanel, PhaseInv, MarkInv, Unmarked, Emergency, opVars, ghostVars
<1>17. CASE UNCHANGED vars
  BY <1>17, ContextFacts DEF vars, PhaseInv, MarkInv, Unmarked, Emergency, opVars, ghostVars
<1> QED
  BY <1>1, <1>2, <1>3, <1>4, <1>5, <1>6, <1>7, <1>8, <1>9, <1>10, <1>11, <1>12, <1>13, <1>14, <1>15, <1>16, <1>17
     DEF Next, ServiceStep

LEMMA MarkInvNext == CoreInv /\ [Next]_vars => MarkInv'
<1> SUFFICES ASSUME CoreInv, [Next]_vars PROVE MarkInv'
  OBVIOUS
<1> ctx \in ContextType /\ health \in Health /\ pc \in Steps
  BY DEF CoreInv, TypeOK
<1> USE DEF CoreInv
<1> Entering
  BY EnteredFacts DEF TypeOK
<1> USE DEF Entering
<1> /\ ctx.main \in BOOLEAN /\ ctx.failing \in BOOLEAN
    /\ ctx.proven \in BOOLEAN /\ ctx.safe \in BOOLEAN
  BY DEF ContextType
<1> USE DEF Phases
<1>1. ASSUME NEW r \in Requests, Begin(r) PROVE MarkInv'
  BY <1>1, ContextFacts DEF Begin, MarkInv, PhaseInv, Unmarked, Emergency, TypeOK, AfterFailure, Conservative, Healthy, Uncertain, Poisoned
<1>2. CASE FailDiscovery
  BY <1>2, ContextFacts DEF FailDiscovery, MarkInv, PhaseInv, Unmarked, Emergency, TypeOK, AfterFailure, Conservative, Healthy, Uncertain, Poisoned, opVars, ghostVars
<1>3. CASE PassPreflight
  <2>1. /\ ctx'.main = ctx.main /\ ctx'.failing = ctx.failing /\ ctx'.proven = ctx.proven
        /\ ctx'.safe = ctx.safe /\ "preflight" \in ctx'.used
    BY <1>3 DEF PassPreflight
  <2>2. pc' \in {"complete", "main"} /\ pc = "preflight" /\ sent' = sent /\ health' = health
    BY <1>3 DEF PassPreflight
  <2>3. op' = op /\ closure' = closure
    BY <1>3 DEF PassPreflight
  <2> QED
    BY <2>3, <2>1, <2>2 DEF MarkInv, PhaseInv, Unmarked, TypeOK, Emergency
<1>4. CASE FailPreflight
  BY <1>4, ContextFacts DEF FailPreflight, MarkInv, PhaseInv, Unmarked, Emergency, TypeOK, AfterFailure, Conservative, Healthy, Uncertain, Poisoned, ghostVars
<1>5. ASSUME NEW ok \in BOOLEAN, Main(ok) PROVE MarkInv'
  <2>1. /\ ctx'.main /\ ctx'.failing = ctx.failing /\ ctx'.proven = ctx.proven
        /\ ctx'.safe = ctx.safe /\ ctx'.used = ctx.used \union {"main"}
    BY <1>5 DEF Main
  <2>2. /\ pc = "main" /\ sent' = sent /\ health = Healthy
        /\ pc' = "failed" \/ (pc' = "postcondition" /\ health' = health)
    BY <1>5 DEF Main
  <2>3. op' = op /\ closure' = closure
    BY <1>5 DEF Main
  <2> QED
    BY <2>3, <2>1, <2>2 DEF MarkInv, PhaseInv, Unmarked, TypeOK, Emergency
<1>6. CASE RefuseMain
  BY <1>6, ContextFacts DEF RefuseMain, MarkInv, PhaseInv, Unmarked, Emergency, TypeOK, AfterFailure, Conservative, Healthy, Uncertain, Poisoned, ghostVars
<1>7. CASE Confirm
  BY <1>7, ContextFacts DEF Confirm, MarkInv, PhaseInv, Unmarked, Emergency, TypeOK, AfterFailure, Conservative, Healthy, Uncertain, Poisoned
<1>8. CASE FailPostcondition
  <2>1. /\ ctx'.main = ctx.main /\ ctx'.failing = ctx.failing /\ ctx'.proven = ctx.proven
        /\ ctx'.safe = ctx.safe /\ ctx.used \subseteq ctx'.used
    BY <1>8 DEF FailPostcondition
  <2>2. pc = "postcondition" /\ pc' = "failed" /\ sent' = sent
    BY <1>8 DEF FailPostcondition, ghostVars
  <2>3. op' = op /\ closure' = closure
    BY <1>8 DEF FailPostcondition, ghostVars
  <2> QED
    BY <2>3, <2>1, <2>2 DEF MarkInv, PhaseInv, Unmarked, TypeOK, Emergency
<1>9. CASE MarkFailure
  <2>1. op \in Requests /\ Contract[op.kind].off \in BOOLEAN
        /\ (Contract[op.kind].recovers = "switch_off") = Contract[op.kind].off
    BY <1>9, RequestFacts, ContractFacts DEF MarkFailure, TypeOK
  <2>2. CASE Contract[op.kind].recovers = "none"
    BY <1>9, <2>1, <2>2, ContextFacts DEF MarkFailure, MarkInv, PhaseInv, Unmarked, TypeOK, Emergency, ghostVars
  <2>3. CASE Contract[op.kind].recovers # "none"
    <3>1. /\ ctx'.main = ctx.main /\ ctx'.failing /\ ctx'.proven = ctx.proven
          /\ ctx'.safe = ctx.safe /\ ctx'.used = ctx.used
      BY <1>9, <2>3, ContextFacts DEF MarkFailure
    <3>2. /\ health' # Healthy
          /\ health # Poisoned => health' # Poisoned
      BY <1>9, <2>3 DEF MarkFailure, Conservative, Healthy, Uncertain, Poisoned
    <3>3. /\ pc = "failed" /\ pc' \in {"safe_state", "complete"}
          /\ pc' = "safe_state" => Contract[op.kind].recovers = "switch_off" /\ health # Poisoned
          /\ op' = op /\ closure' = closure /\ sent' = sent
      BY <1>9, <2>3 DEF MarkFailure
    <3> QED
      BY <2>1, <3>1, <3>2, <3>3 DEF MarkInv, PhaseInv, Unmarked, TypeOK, Emergency, ghostVars
  <2> QED
    BY <2>2, <2>3
<1>10. ASSUME NEW c \in Channels, NEW ok \in BOOLEAN, SwitchOff(c, ok) PROVE MarkInv'
  <2>1. /\ ctx'.main = ctx.main /\ ctx'.failing = ctx.failing /\ ctx'.proven = ctx.proven
        /\ ctx'.safe = ctx.safe
    BY <1>10 DEF SwitchOff
  <2>2. /\ pc = "safe_state" /\ op' = op /\ Emergency(op)' = Emergency(op)
        /\ c \in Emergency(op) /\ sent' = sent \union {c}
    BY <1>10 DEF SwitchOff, Emergency
  <2>3. health # Healthy => health' # Healthy
    BY <1>10 DEF SwitchOff, AfterFailure, Conservative, Healthy, Poisoned
  <2> QED
    BY <2>1, <2>2, <2>3 DEF MarkInv, PhaseInv
<1>11. CASE FailSafeState
  BY <1>11, ContextFacts DEF FailSafeState, MarkInv, PhaseInv, Unmarked, Emergency, TypeOK, AfterFailure, Conservative, Healthy, Uncertain, Poisoned, ghostVars
<1>12. CASE VerifyOff
  BY <1>12, ContextFacts DEF VerifyOff, MarkInv, PhaseInv, Unmarked, Emergency, TypeOK, AfterFailure, Conservative, Healthy, Uncertain, Poisoned
<1>13. CASE FailVerify
  BY <1>13, ContextFacts DEF FailVerify, MarkInv, PhaseInv, Unmarked, Emergency, TypeOK, AfterFailure, Conservative, Healthy, Uncertain, Poisoned, ghostVars
<1>14. CASE Complete
  BY <1>14, ContextFacts DEF Complete, MarkInv, PhaseInv, Unmarked, Emergency, TypeOK, AfterFailure, Conservative, Healthy, Uncertain, Poisoned
<1>15. CASE Tick
  BY <1>15, ContextFacts DEF Tick, MarkInv, PhaseInv, Unmarked, Emergency, TypeOK, AfterFailure, Conservative, Healthy, Uncertain, Poisoned, opVars, ghostVars
<1>16. CASE UsePanel
  BY <1>16, ContextFacts DEF UsePanel, MarkInv, PhaseInv, Unmarked, Emergency, TypeOK, AfterFailure, Conservative, Healthy, Uncertain, Poisoned, opVars, ghostVars
<1>17. CASE UNCHANGED vars
  BY <1>17, ContextFacts DEF vars, MarkInv, PhaseInv, Unmarked, Emergency, TypeOK, AfterFailure, Conservative, Healthy, Uncertain, Poisoned, opVars, ghostVars
<1> QED
  BY <1>1, <1>2, <1>3, <1>4, <1>5, <1>6, <1>7, <1>8, <1>9, <1>10, <1>11, <1>12, <1>13, <1>14, <1>15, <1>16, <1>17
     DEF Next, ServiceStep

LEMMA ProofInvNext == CoreInv /\ [Next]_vars => ProofInv'
<1> SUFFICES ASSUME CoreInv, [Next]_vars PROVE ProofInv'
  OBVIOUS
<1> ctx \in ContextType /\ health \in Health /\ pc \in Steps
  BY DEF CoreInv, TypeOK
<1> USE DEF CoreInv
<1> Entering
  BY EnteredFacts DEF TypeOK
<1> USE DEF Entering
<1> /\ ctx.main \in BOOLEAN /\ ctx.failing \in BOOLEAN
    /\ ctx.proven \in BOOLEAN /\ ctx.safe \in BOOLEAN
  BY DEF ContextType
<1> USE DEF Phases
<1>1. ASSUME NEW r \in Requests, Begin(r) PROVE ProofInv'
  BY <1>1, ContextFacts DEF Begin, ProofInv, MarkInv, PhaseInv, Unmarked, TypeOK
<1>2. CASE FailDiscovery
  BY <1>2 DEF FailDiscovery, opVars, ghostVars, PhaseInv, Unmarked, TypeOK, ProofInv
<1>3. CASE PassPreflight
  BY <1>3, ContextFacts DEF PassPreflight, ProofInv, MarkInv, PhaseInv, Unmarked, TypeOK
<1>4. CASE FailPreflight
  BY <1>4, ContextFacts DEF FailPreflight, ProofInv, MarkInv, PhaseInv, Unmarked, TypeOK, ghostVars
<1>5. ASSUME NEW ok \in BOOLEAN, Main(ok) PROVE ProofInv'
  BY <1>5, ContextFacts DEF Main, ProofInv, MarkInv, PhaseInv, Unmarked, TypeOK
<1>6. CASE RefuseMain
  BY <1>6, ContextFacts DEF RefuseMain, ProofInv, MarkInv, PhaseInv, Unmarked, TypeOK, ghostVars
<1>7. CASE Confirm
  <2>1. ctx'.proven /\ ctx'.safe = ctx.safe /\ pc = "postcondition"
    BY <1>7, ContextFacts DEF Confirm
  <2>2. "requested" \in Holds'
    <3>1. /\ op' = op /\ op # NoRequest /\ device' = device /\ closure' = closure
          /\ Confirmed(op, device)
      BY <1>7 DEF Confirm, TypeOK
    <3> QED
      BY <3>1, Zenon DEF Holds, Confirmed, OutputsAsNeeded, AsRequested
  <2> QED
    BY <2>1, <2>2 DEF ProofInv, MarkInv, PhaseInv, Unmarked, TypeOK
<1>8. CASE FailPostcondition
  BY <1>8, ContextFacts DEF FailPostcondition, ProofInv, MarkInv, PhaseInv, Unmarked, TypeOK, ghostVars
<1>9. CASE MarkFailure
  <2>1. op \in Requests /\ Contract[op.kind].off \in BOOLEAN
        /\ (Contract[op.kind].recovers = "switch_off") = Contract[op.kind].off
    BY <1>9, RequestFacts, ContractFacts DEF MarkFailure, TypeOK
  <2>2. CASE Contract[op.kind].recovers = "none"
    BY <1>9, <2>1, <2>2, ContextFacts DEF MarkFailure, ProofInv, MarkInv, PhaseInv, Unmarked, TypeOK, Emergency, ghostVars
  <2>3. CASE Contract[op.kind].recovers # "none"
    <3>1. /\ ctx'.main = ctx.main /\ ctx'.failing /\ ctx'.proven = ctx.proven
          /\ ctx'.safe = ctx.safe /\ ctx'.used = ctx.used
      BY <1>9, <2>3, ContextFacts DEF MarkFailure
    <3>2. /\ health' # Healthy
          /\ health # Poisoned => health' # Poisoned
      BY <1>9, <2>3 DEF MarkFailure, Conservative, Healthy, Uncertain, Poisoned
    <3>3. /\ pc = "failed" /\ pc' \in {"safe_state", "complete"}
          /\ pc' = "safe_state" => Contract[op.kind].recovers = "switch_off" /\ health # Poisoned
          /\ op' = op /\ closure' = closure /\ sent' = sent
      BY <1>9, <2>3 DEF MarkFailure
    <3> QED
      BY <2>1, <3>1, <3>2, <3>3 DEF ProofInv, MarkInv, PhaseInv, Unmarked, TypeOK, Emergency, ghostVars
  <2> QED
    BY <2>2, <2>3
<1>10. ASSUME NEW c \in Channels, NEW ok \in BOOLEAN, SwitchOff(c, ok) PROVE ProofInv'
  BY <1>10, ContextFacts DEF SwitchOff, ProofInv, MarkInv, PhaseInv, Unmarked, TypeOK, ghostVars
<1>11. CASE FailSafeState
  BY <1>11, ContextFacts DEF FailSafeState, ProofInv, MarkInv, PhaseInv, Unmarked, TypeOK, ghostVars
<1>12. CASE VerifyOff
  <2>1. ctx'.safe /\ ctx'.proven = ctx.proven /\ pc = "verify"
    BY <1>12, ContextFacts DEF VerifyOff
  <2>2. "off" \in Holds'
    <3>1. /\ op' = op /\ op # NoRequest /\ device' = device /\ closure' = closure
          /\ Emergency(op) \intersect device.on = {} /\ Contract[op.kind].off
      BY <1>12 DEF VerifyOff, TypeOK, PhaseInv
    <3> QED
      BY <3>1 DEF Holds, Emergency
  <2> QED
    BY <2>1, <2>2 DEF ProofInv, MarkInv, PhaseInv, Unmarked, TypeOK
<1>13. CASE FailVerify
  BY <1>13, ContextFacts DEF FailVerify, ProofInv, MarkInv, PhaseInv, Unmarked, TypeOK, ghostVars
<1>14. CASE Complete
  BY <1>14, ContextFacts DEF Complete, ProofInv, MarkInv, PhaseInv, Unmarked, TypeOK
<1>15. CASE Tick
  BY <1>15, ContextFacts DEF Tick, ProofInv, MarkInv, PhaseInv, Unmarked, TypeOK, opVars, ghostVars
<1>16. CASE UsePanel
  <2>1. ctx' = ctx /\ op' = op
    BY <1>16 DEF UsePanel, opVars
  <2>2. CASE op = NoRequest
    BY <2>1, <2>2 DEF ProofInv, MarkInv, PhaseInv, Unmarked, TypeOK
  <2>3. CASE op # NoRequest
    <3>1. moved' = "since_snapshot"
      BY <1>16, <2>3 DEF UsePanel
    <3> QED
      BY <2>1, <2>3, <3>1 DEF ProofInv, Holds
  <2> QED
    BY <2>2, <2>3
<1>17. CASE UNCHANGED vars
  <2>1. ctx' = ctx /\ Holds' = Holds
    BY <1>17, Zenon DEF vars, opVars, ghostVars, Holds, OutputsAsNeeded, AsRequested
  <2> QED
    BY <2>1 DEF ProofInv
<1> QED
  BY <1>1, <1>2, <1>3, <1>4, <1>5, <1>6, <1>7, <1>8, <1>9, <1>10, <1>11, <1>12, <1>13, <1>14, <1>15, <1>16, <1>17
     DEF Next, ServiceStep

LEMMA OffInvNext == CoreInv /\ [Next]_vars => OffInv'
<1> SUFFICES ASSUME CoreInv, [Next]_vars PROVE OffInv'
  OBVIOUS
<1> ctx \in ContextType /\ health \in Health /\ pc \in Steps
  BY DEF CoreInv, TypeOK
<1> USE DEF CoreInv
<1> Entering
  BY EnteredFacts DEF TypeOK
<1> USE DEF Entering
<1> /\ ctx.main \in BOOLEAN /\ ctx.failing \in BOOLEAN
    /\ ctx.proven \in BOOLEAN /\ ctx.safe \in BOOLEAN
  BY DEF ContextType
<1> USE DEF Phases
<1>1. ASSUME NEW r \in Requests, Begin(r) PROVE OffInv'
  BY <1>1, ContextFacts DEF Begin, OffInv, PhaseInv, MarkInv, TypeOK, Emergency
<1>2. CASE FailDiscovery
  BY <1>2, ContextFacts DEF FailDiscovery, OffInv, PhaseInv, MarkInv, TypeOK, Emergency, opVars, ghostVars
<1>3. CASE PassPreflight
  <2>1. ctx'.main = ctx.main /\ pc = "preflight"
    BY <1>3 DEF PassPreflight
  <2> QED
    BY <2>1 DEF PhaseInv, OffInv
<1>4. CASE FailPreflight
  BY <1>4, ContextFacts DEF FailPreflight, OffInv, PhaseInv, MarkInv, TypeOK, Emergency, ghostVars
<1>5. ASSUME NEW ok \in BOOLEAN, Main(ok) PROVE OffInv'
  BY <1>5, ContextFacts DEF Main, OffInv, PhaseInv, MarkInv, TypeOK, Emergency
<1>6. CASE RefuseMain
  BY <1>6, ContextFacts DEF RefuseMain, OffInv, PhaseInv, MarkInv, TypeOK, Emergency, ghostVars
<1>7. CASE Confirm
  BY <1>7, ContextFacts DEF Confirm, OffInv, PhaseInv, MarkInv, TypeOK, Emergency
<1>8. CASE FailPostcondition
  BY <1>8, ContextFacts DEF FailPostcondition, OffInv, PhaseInv, MarkInv, TypeOK, Emergency, ghostVars
<1>9. CASE MarkFailure
  <2>1. op \in Requests /\ Contract[op.kind].off \in BOOLEAN
        /\ (Contract[op.kind].recovers = "switch_off") = Contract[op.kind].off
    BY <1>9, RequestFacts, ContractFacts DEF MarkFailure, TypeOK
  <2>2. sent' = {} /\ op' = op /\ closure' = closure
    BY <1>9 DEF MarkFailure, PhaseInv, Unmarked
  <2>3. CASE Contract[op.kind].recovers # "switch_off"
    BY <2>1, <2>2, <2>3 DEF OffInv, Emergency
  <2>4. CASE Contract[op.kind].recovers = "switch_off" /\ CanSwitchOff
    BY <1>9, <2>4 DEF MarkFailure, OffInv, Conservative, Healthy, Poisoned
  <2>5. CASE ~CanSwitchOff
    BY <2>5 DEF OffInv
  <2> QED
    BY <2>3, <2>4, <2>5 DEF TypeOK
<1>10. ASSUME NEW c \in Channels, NEW ok \in BOOLEAN, SwitchOff(c, ok) PROVE OffInv'
  <2>1. Emergency(op)' = Emergency(op)
    BY <1>10 DEF SwitchOff, Emergency
  <2>2. pc' = "complete" => health' = Poisoned \/ sent' = Emergency(op)
    <3>1. CASE health' # Poisoned /\ Emergency(op) # sent'
      BY <1>10, <3>1 DEF SwitchOff
    <3> QED
      BY <3>1
  <2> QED
    BY <2>1, <2>2 DEF OffInv
<1>11. CASE FailSafeState
  <2>1. /\ op' = op /\ sent' = sent /\ clock' = clock /\ Emergency(op)' = Emergency(op)
        /\ pc = "safe_state" /\ ~MaySwitchOff
    BY <1>11 DEF FailSafeState, Emergency
  <2>2. ctx.main /\ ctx.failing /\ "preflight" \in ctx.used /\ sent \subseteq Emergency(op)
    BY <2>1 DEF PhaseInv, MarkInv
  <2>3. clock # "over" => Emergency(op) = {}
    BY <2>1, <2>2
       DEF MaySwitchOff, MayStart, MayEnter, InOrder, InTime, TypeOK, Clock
  <2> QED
    BY <2>1, <2>2, <2>3 DEF OffInv
<1>12. CASE VerifyOff
  BY <1>12, ContextFacts DEF VerifyOff, OffInv, PhaseInv, MarkInv, TypeOK, Emergency
<1>13. CASE FailVerify
  BY <1>13 DEF FailVerify, OffInv, PhaseInv, Emergency, ghostVars
<1>14. CASE Complete
  BY <1>14, ContextFacts DEF Complete, OffInv, PhaseInv, MarkInv, TypeOK, Emergency
<1>15. CASE Tick
  BY <1>15, ContextFacts DEF Tick, OffInv, PhaseInv, MarkInv, TypeOK, Emergency, opVars, ghostVars
<1>16. CASE UsePanel
  BY <1>16, ContextFacts DEF UsePanel, OffInv, PhaseInv, MarkInv, TypeOK, Emergency, opVars, ghostVars
<1>17. CASE UNCHANGED vars
  BY <1>17, ContextFacts DEF vars, OffInv, PhaseInv, MarkInv, TypeOK, Emergency, opVars, ghostVars
<1> QED
  BY <1>1, <1>2, <1>3, <1>4, <1>5, <1>6, <1>7, <1>8, <1>9, <1>10, <1>11, <1>12, <1>13, <1>14, <1>15, <1>16, <1>17
     DEF Next, ServiceStep

\* What a preflight demands depends on these variables only.
LEMMA ReadyKept ==
    ASSUME op' = op, device' = device, closure' = closure, receipts' = receipts
    PROVE  Ready(op, device)' <=> Ready(op, device)
<1>1. /\ OutputsAsNeeded(op, device, closure)' <=> OutputsAsNeeded(op, device, closure)
      /\ WithinLimits(op, device)' <=> WithinLimits(op, device)
      /\ EnableReady(op, device)' <=> EnableReady(op, device)
  BY DEF OutputsAsNeeded, WithinLimits, EnableReady, Unrelated
<1>2. /\ LiveReady(op, device)' <=> LiveReady(op, device)
      /\ SweepReady(op, device)' <=> SweepReady(op, device)
  BY DEF LiveReady, SweepReady, WithinLimits, Inactive
<1>3. /\ FireReady(op, device, Contract[op.kind].writes)'
           <=> FireReady(op, device, Contract[op.kind].writes)
      /\ StorageReady(op, device)' <=> StorageReady(op, device)
      /\ RelationReady(op, device)' <=> RelationReady(op, device)
  BY DEF FireReady, StorageReady, RelationReady, WithinLimits
<1> QED
  BY <1>1, <1>2, <1>3 DEF Ready

LEMMA ReadyInvNext == CoreInv /\ [Next]_vars => ReadyInv'
<1> SUFFICES ASSUME CoreInv, [Next]_vars PROVE ReadyInv'
  OBVIOUS
<1> ctx \in ContextType /\ health \in Health /\ pc \in Steps
  BY DEF CoreInv, TypeOK
<1> USE DEF CoreInv
<1> Entering
  BY EnteredFacts DEF TypeOK
<1> USE DEF Entering
<1> /\ ctx.main \in BOOLEAN /\ ctx.failing \in BOOLEAN
    /\ ctx.proven \in BOOLEAN /\ ctx.safe \in BOOLEAN
  BY DEF ContextType
<1> USE DEF Phases
<1>1. ASSUME NEW r \in Requests, Begin(r) PROVE ReadyInv'
  BY <1>1 DEF Begin, ReadyInv
<1>2. CASE FailDiscovery
  BY <1>2 DEF FailDiscovery, opVars, ReadyInv, TypeOK
<1>3. CASE PassPreflight
  <2>1. Ready(op, device) /\ op' = op /\ device' = device /\ closure' = closure
        /\ receipts' = receipts
    BY <1>3 DEF PassPreflight
  <2>2. Ready(op, device)'
    BY <2>1, ReadyKept
  <2> QED
    BY <2>2 DEF ReadyInv
<1>4. CASE FailPreflight
  BY <1>4 DEF FailPreflight, ReadyInv, ghostVars
<1>5. ASSUME NEW ok \in BOOLEAN, Main(ok) PROVE ReadyInv'
  BY <1>5 DEF Main, ReadyInv
<1>6. CASE RefuseMain
  BY <1>6 DEF RefuseMain, ReadyInv, ghostVars
<1>7. CASE Confirm
  BY <1>7 DEF Confirm, ReadyInv
<1>8. CASE FailPostcondition
  BY <1>8 DEF FailPostcondition, ReadyInv, ghostVars
<1>9. CASE MarkFailure
  BY <1>9 DEF MarkFailure, ReadyInv, ghostVars
<1>10. ASSUME NEW c \in Channels, NEW ok \in BOOLEAN, SwitchOff(c, ok) PROVE ReadyInv'
  BY <1>10 DEF SwitchOff, ReadyInv
<1>11. CASE FailSafeState
  BY <1>11 DEF FailSafeState, ReadyInv, ghostVars
<1>12. CASE VerifyOff
  BY <1>12 DEF VerifyOff, ReadyInv
<1>13. CASE FailVerify
  BY <1>13 DEF FailVerify, ReadyInv, ghostVars
<1>14. CASE Complete
  BY <1>14 DEF Complete, ReadyInv
<1>15. CASE Tick
  <2>1. /\ pc' = pc /\ moved' = moved /\ op' = op /\ device' = device
        /\ closure' = closure /\ receipts' = receipts
    BY <1>15 DEF Tick, opVars, ghostVars
  <2>2. Ready(op, device) => Ready(op, device)'
    BY <2>1, ReadyKept
  <2> QED
    BY <2>1, <2>2 DEF ReadyInv
<1>16. CASE UsePanel
  BY <1>16 DEF UsePanel, opVars, ReadyInv, TypeOK
<1>17. CASE UNCHANGED vars
  <2>1. /\ pc' = pc /\ moved' = moved /\ op' = op /\ device' = device
        /\ closure' = closure /\ receipts' = receipts
    BY <1>17 DEF vars, opVars, ghostVars
  <2>2. Ready(op, device) => Ready(op, device)'
    BY <2>1, ReadyKept
  <2> QED
    BY <2>1, <2>2 DEF ReadyInv
<1> QED
  BY <1>1, <1>2, <1>3, <1>4, <1>5, <1>6, <1>7, <1>8, <1>9, <1>10, <1>11, <1>12, <1>13, <1>14, <1>15, <1>16, <1>17
     DEF Next, ServiceStep

\* The invariant but for the outputs that go on.
LEMMA CoreHolds == Spec => []CoreInv
<1>1. Init => CoreInv
  <2> SUFFICES ASSUME Init PROVE CoreInv
    OBVIOUS
  <2> Init /\ TypeOK
    BY InitTyped
  <2>1. ~ctx.main /\ Unmarked
    BY ContextFacts DEF Init, Unmarked, TypeOK
  <2> QED
    BY <2>1 DEF Init, CoreInv, PhaseInv, MarkInv, ProofInv, OffInv, ReadyInv, Unmarked
<1>2. CoreInv /\ [Next]_vars => CoreInv'
  BY NextTyped, PhaseInvNext, MarkInvNext, ProofInvNext, OffInvNext, ReadyInvNext DEF CoreInv
<1> QED
  BY <1>1, <1>2, PTL DEF Spec

\* However long the main work took, every output is sent its OFF in time.
THEOREM SourceOffIsReserved == Spec => OffIsReserved
<1>1. CoreInv /\ [Next]_vars =>
        (Finished /\ ctx.main /\ ~ctx.proven /\ CanSwitchOff /\ clock # "over" =>
           health = Poisoned \/ sent = Emergency(op))
  <2> SUFFICES ASSUME CoreInv, [Next]_vars, Finished, ctx.main, ~ctx.proven, CanSwitchOff,
                      clock # "over"
               PROVE  health = Poisoned \/ sent = Emergency(op)
    OBVIOUS
  <2>1. pc = "complete"
    BY DEF Next, ServiceStep, Finished, CoreInv, TypeOK, FailDiscovery, PassPreflight,
           FailPreflight, Main, RefuseMain, Confirm, FailPostcondition, MarkFailure, SwitchOff,
           FailSafeState, VerifyOff, FailVerify, Complete, Tick, UsePanel, vars, opVars, Begin
  <2> QED
    BY <2>1 DEF CoreInv, OffInv
<1> QED
  BY <1>1, CoreHolds, PTL DEF Spec, OffIsReserved
LEMMA HealthNeverImproves == CoreInv /\ [Next]_vars => Promise!NeverImproves
<1> SUFFICES ASSUME CoreInv, [Next]_vars PROVE Promise!NeverImproves
  OBVIOUS
<1> health \in Health
  BY DEF CoreInv, TypeOK
<1>1. ASSUME NEW r \in Requests, Begin(r) PROVE Promise!NeverImproves
  BY <1>1 DEF Begin, AfterFailure, Conservative, FinalHealth, Healthy, Uncertain, Poisoned, Health, Promise!NeverImproves
<1>2. CASE FailDiscovery
  BY <1>2 DEF FailDiscovery, AfterFailure, Conservative, FinalHealth, Healthy, Uncertain, Poisoned, Health, Promise!NeverImproves, opVars, ghostVars
<1>3. CASE PassPreflight
  BY <1>3 DEF PassPreflight, AfterFailure, Conservative, FinalHealth, Healthy, Uncertain, Poisoned, Health, Promise!NeverImproves
<1>4. CASE FailPreflight
  BY <1>4 DEF FailPreflight, AfterFailure, Conservative, FinalHealth, Healthy, Uncertain, Poisoned, Health, Promise!NeverImproves, ghostVars
<1>5. ASSUME NEW ok \in BOOLEAN, Main(ok) PROVE Promise!NeverImproves
  BY <1>5 DEF Main, AfterFailure, Conservative, FinalHealth, Healthy, Uncertain, Poisoned, Health, Promise!NeverImproves
<1>6. CASE RefuseMain
  BY <1>6 DEF RefuseMain, AfterFailure, Conservative, FinalHealth, Healthy, Uncertain, Poisoned, Health, Promise!NeverImproves, ghostVars
<1>7. CASE Confirm
  BY <1>7 DEF Confirm, AfterFailure, Conservative, FinalHealth, Healthy, Uncertain, Poisoned, Health, Promise!NeverImproves
<1>8. CASE FailPostcondition
  BY <1>8 DEF FailPostcondition, AfterFailure, Conservative, FinalHealth, Healthy, Uncertain, Poisoned, Health, Promise!NeverImproves, ghostVars
<1>9. CASE MarkFailure
  BY <1>9 DEF MarkFailure, AfterFailure, Conservative, FinalHealth, Healthy, Uncertain, Poisoned, Health, Promise!NeverImproves, ghostVars
<1>10. ASSUME NEW c \in Channels, NEW ok \in BOOLEAN, SwitchOff(c, ok) PROVE Promise!NeverImproves
  BY <1>10 DEF SwitchOff, AfterFailure, Conservative, FinalHealth, Healthy, Uncertain, Poisoned, Health, Promise!NeverImproves, ghostVars
<1>11. CASE FailSafeState
  BY <1>11 DEF FailSafeState, AfterFailure, Conservative, FinalHealth, Healthy, Uncertain, Poisoned, Health, Promise!NeverImproves, ghostVars
<1>12. CASE VerifyOff
  BY <1>12 DEF VerifyOff, AfterFailure, Conservative, FinalHealth, Healthy, Uncertain, Poisoned, Health, Promise!NeverImproves
<1>13. CASE FailVerify
  BY <1>13 DEF FailVerify, AfterFailure, Conservative, FinalHealth, Healthy, Uncertain, Poisoned, Health, Promise!NeverImproves, ghostVars
<1>14. CASE Complete
  BY <1>14 DEF Complete, AfterFailure, Conservative, FinalHealth, Healthy, Uncertain, Poisoned, Health, Promise!NeverImproves
<1>15. CASE Tick
  BY <1>15 DEF Tick, AfterFailure, Conservative, FinalHealth, Healthy, Uncertain, Poisoned, Health, Promise!NeverImproves, opVars, ghostVars
<1>16. CASE UsePanel
  BY <1>16 DEF UsePanel, AfterFailure, Conservative, FinalHealth, Healthy, Uncertain, Poisoned, Health, Promise!NeverImproves, opVars, ghostVars
<1>17. CASE UNCHANGED vars
  BY <1>17 DEF vars, AfterFailure, Conservative, FinalHealth, Healthy, Uncertain, Poisoned, Health, Promise!NeverImproves, opVars, ghostVars
<1> QED
  BY <1>1, <1>2, <1>3, <1>4, <1>5, <1>6, <1>7, <1>8, <1>9, <1>10, <1>11, <1>12, <1>13, <1>14, <1>15, <1>16, <1>17
     DEF Next, ServiceStep

Kept ==
    \/ Promise!Open \/ Promise!Write \/ Promise!Work \/ Promise!Abandon \/ Promise!Settle
    \/ UNCHANGED <<health, Stage, Holds>>

LEMMA StepKeepsPromise == CoreInv /\ [Next]_vars => Kept
<1> SUFFICES ASSUME CoreInv, [Next]_vars PROVE Kept
  OBVIOUS
<1> ctx \in ContextType /\ health \in Health /\ pc \in Steps
  BY DEF CoreInv, TypeOK
<1> USE DEF CoreInv
<1> Entering
  BY EnteredFacts DEF TypeOK
<1> USE DEF Entering
<1> /\ ctx.main \in BOOLEAN /\ ctx.failing \in BOOLEAN
    /\ ctx.proven \in BOOLEAN /\ ctx.safe \in BOOLEAN
  BY DEF ContextType
<1> USE DEF Phases
<1> Promise!NeverImproves
  BY HealthNeverImproves
<1> (op = NoRequest) = (pc = "idle") /\ NoRequest \notin Requests
  BY SourceAssumption DEF TypeOK
<1>1. ASSUME NEW r \in Requests, Begin(r) PROVE Kept
  <2>1. op = NoRequest /\ op' = r /\ r # NoRequest /\ ctx' = FreshContext /\ health = Healthy
        /\ health' = health
    BY <1>1 DEF Begin
  <2>2. ~FreshContext.main
    BY ContextFacts
  <2> QED
    BY <2>1, <2>2 DEF Promise!Open, Stage, Kept
<1>2. CASE FailDiscovery
  BY <1>2 DEF FailDiscovery, Promise!Work, Stage, Kept, opVars, ghostVars
<1>3. CASE PassPreflight
  <2>1. ctx'.main = ctx.main /\ op' = op
    BY <1>3 DEF PassPreflight
  <2> QED
    BY <2>1 DEF Promise!Work, Stage, Kept
<1>4. CASE FailPreflight
  BY <1>4 DEF FailPreflight, Promise!Work, Stage, Kept, ghostVars
<1>5. ASSUME NEW ok \in BOOLEAN, Main(ok) PROVE Kept
  <2>1. ctx'.main /\ ~ctx.main /\ op' = op /\ op # NoRequest
    BY <1>5 DEF Main, PhaseInv
  <2> QED
    BY <2>1 DEF Promise!Write, Stage, Kept
<1>6. CASE RefuseMain
  BY <1>6 DEF RefuseMain, Promise!Work, Stage, Kept, ghostVars
<1>7. CASE Confirm
  <2>1. ctx'.main = ctx.main /\ op' = op
    BY <1>7, ContextFacts DEF Confirm
  <2> QED
    BY <2>1 DEF Promise!Work, Stage, Kept
<1>8. CASE FailPostcondition
  <2>1. ctx'.main = ctx.main /\ op' = op
    BY <1>8 DEF FailPostcondition, ghostVars
  <2> QED
    BY <2>1 DEF Promise!Work, Stage, Kept
<1>9. CASE MarkFailure
  <2>1. ctx'.main = ctx.main /\ op' = op
    BY <1>9, ContextFacts DEF MarkFailure, ghostVars
  <2> QED
    BY <2>1 DEF Promise!Work, Stage, Kept
<1>10. ASSUME NEW c \in Channels, NEW ok \in BOOLEAN, SwitchOff(c, ok) PROVE Kept
  <2>1. ctx'.main = ctx.main /\ op' = op
    BY <1>10 DEF SwitchOff, ghostVars
  <2> QED
    BY <2>1 DEF Promise!Work, Stage, Kept
<1>11. CASE FailSafeState
  BY <1>11 DEF FailSafeState, Promise!Work, Stage, Kept, ghostVars
<1>12. CASE VerifyOff
  <2>1. ctx'.main = ctx.main /\ op' = op
    BY <1>12, ContextFacts DEF VerifyOff
  <2> QED
    BY <2>1 DEF Promise!Work, Stage, Kept
<1>13. CASE FailVerify
  BY <1>13 DEF FailVerify, Promise!Work, Stage, Kept, ghostVars
<1>14. CASE Complete
  <2>1. op # NoRequest /\ op' = NoRequest /\ health' = FinalHealth(ctx, health)
    BY <1>14 DEF Complete
  <2>2. CASE ~ctx.main
    BY <2>1, <2>2 DEF Promise!Abandon, Stage, Kept
  <2>3. CASE ctx.main /\ ctx.proven
    <3>1. health' = Healthy /\ "requested" \in Holds
      BY <2>1, <2>3 DEF FinalHealth, MarkInv, ProofInv
    <3> QED
      BY <2>1, <2>3, <3>1 DEF Promise!Settle, Stage, Kept
  <2>4. CASE ctx.main /\ ~ctx.proven /\ ctx.failing /\ ctx.safe
    <3>1. health' \in {Uncertain, Poisoned} /\ "off" \in Holds
      BY <2>1, <2>4 DEF FinalHealth, MarkInv, ProofInv, Health
    <3> QED
      BY <2>1, <2>4, <3>1 DEF Promise!Settle, Stage, Kept
  <2>5. CASE ctx.main /\ ~ctx.proven /\ ~(ctx.failing /\ ctx.safe)
    <3>1. health' = Poisoned
      BY <2>1, <2>5 DEF FinalHealth
    <3> QED
      BY <2>1, <2>5, <3>1 DEF Promise!Settle, Stage, Kept
  <2> QED
    BY <2>2, <2>3, <2>4, <2>5
<1>15. CASE Tick
  BY <1>15 DEF Tick, Promise!Work, Stage, Kept, opVars, ghostVars
<1>16. CASE UsePanel
  BY <1>16 DEF UsePanel, Promise!Work, Stage, Kept, opVars, ghostVars
<1>17. CASE UNCHANGED vars
  BY <1>17, Zenon DEF vars, opVars, ghostVars, Stage, Holds, OutputsAsNeeded, AsRequested, Kept
<1> QED
  BY <1>1, <1>2, <1>3, <1>4, <1>5, <1>6, <1>7, <1>8, <1>9, <1>10, <1>11, <1>12, <1>13, <1>14, <1>15, <1>16, <1>17
     DEF Next, ServiceStep

\* The transactions implement what a session promises about a mutation.
THEOREM SourceKeepsPromise == Spec => KeepsPromise
<1>1. Init => Promise!Init
  BY DEF Init, Promise!Init, Stage
<1>2. CoreInv /\ [Next]_vars => [Promise!Next]_<<health, Stage, Holds>>
  BY StepKeepsPromise, HealthNeverImproves DEF Kept, Promise!Next
<1> QED
  BY <1>1, <1>2, CoreHolds, PTL DEF Spec, KeepsPromise, Promise!Spec
-----------------------------------------------------------------------------
(* What a write does to outputs and levels.                                  *)

LEMMA AppliedFacts ==
    ASSUME NEW r \in Requests, NEW d \in DeviceType
    PROVE  /\ Applied(r, d) \in DeviceType
           /\ Applied(r, d).on \subseteq d.on \union Enabled(r)
           /\ r.level # "high" => Applied(r, d).high \subseteq d.high
           /\ Applied(r, d).graph = d.graph
<1>1. Applied(r, d) \in DeviceType
  BY AppliedTyped
<1>2. /\ Applied(r, d).on \subseteq d.on \union Enabled(r)
      /\ r.level # "high" => Applied(r, d).high \subseteq d.high
      /\ Applied(r, d).graph = d.graph
  <2> d \in DeviceType
    OBVIOUS
  <2>1. CASE r.kind \in Fires
    BY <2>1, RequestFacts, ContractFacts DEF Applied, Fires
  <2>2. CASE r.kind = "output_enable"
    BY <2>2, RequestFacts, ContractFacts DEF Applied, Fires, DeviceType, Enabled
  <2>3. CASE r.kind = "output_disable"
    BY <2>3, RequestFacts, ContractFacts DEF Applied, Fires, DeviceType
  <2>4. CASE r.kind = "cross_channel"
    BY <2>4, RequestFacts, ContractFacts DEF Applied, Fires, DeviceType
  <2>5. CASE /\ Contract[r.kind].writes = "level"
             /\ r.kind \notin Fires \union {"output_enable", "output_disable", "cross_channel"}
    <3> DEFINE high == CASE r.level = "low"  -> d.high \ r.chans
                         [] r.level = "high" -> d.high \union r.chans
                         [] r.level = "keep" -> d.high
    <3>1. r.level # "high" => high \subseteq d.high
      BY RequestFacts DEF Levels
    <3>2. Applied(r, d) = [d EXCEPT !.high = high]
      BY <2>5 DEF Applied
    <3>3. Applied(r, d).on = d.on /\ Applied(r, d).high = high /\ Applied(r, d).graph = d.graph
      BY <3>2 DEF DeviceType
    <3> QED
      BY <3>1, <3>3
  <2>6. CASE /\ Contract[r.kind].writes # "level"
             /\ r.kind \notin Fires \union {"output_enable", "output_disable", "cross_channel"}
    <3> DEFINE setup == [c \in Channels |->
                IF c \in Written(r) THEN [d.setup[c] EXCEPT ![Contract[r.kind].writes] = r.setup]
                ELSE d.setup[c]]
    <3>1. Applied(r, d) = [d EXCEPT !.setup = setup]
      BY <2>6 DEF Applied
    <3> HIDE DEF setup
    <3>2. Applied(r, d).on = d.on /\ Applied(r, d).high = d.high /\ Applied(r, d).graph = d.graph
      BY <3>1 DEF DeviceType
    <3> QED
      BY <3>2
  <2> QED
    BY <2>1, <2>2, <2>3, <2>4, <2>5, <2>6
<1> QED
  BY <1>1, <1>2

LEMMA OutcomeFacts ==
    ASSUME NEW r \in Requests, NEW d \in DeviceType, NEW e \in Outcomes(r, d)
    PROVE  /\ e.on \subseteq d.on \union Enabled(r) \union Touchable(r)
                    \union (IF r.kind = "output_enable" THEN Partners(d, r.chans) ELSE {})
           /\ r.level # "high" => e.high \subseteq d.high
           /\ d.graph \subseteq e.graph
<1> DEFINE a == Applied(r, d)
<1>1. /\ a \in DeviceType /\ a.on \subseteq d.on \union Enabled(r)
      /\ r.level # "high" => a.high \subseteq d.high
      /\ a.graph = d.graph
  BY AppliedFacts
<1> HIDE DEF a
<1>2. CASE e \in {d, a}
  BY <1>1, <1>2
<1>3. CASE e = [a EXCEPT !.on = @ \union r.chans] /\ Touchable(r) = r.chans
  BY <1>1, <1>3 DEF DeviceType
<1>4. CASE e = [a EXCEPT !.on = @ \union Partners(d, r.chans)] /\ r.kind = "output_enable"
  BY <1>1, <1>4 DEF DeviceType
<1>5. CASE \E x \in Edges : e = [a EXCEPT !.graph = @ \union {x}]
  BY <1>1, <1>5 DEF DeviceType
<1> QED
  BY <1>2, <1>3, <1>4, <1>5 DEF Outcomes, Touchable, a

\* Nothing goes on, and no trigger is sent, beyond the limits.
THEOREM SourceEmitsWithinLimits == Spec => EmitsWithinLimits
<1> DEFINE sends == pc = "main" /\ ctx'.main /\ moved = "no"
           emits == op.kind \in Fires \union {"output_enable"} /\ op.chans \subseteq device'.on =>
                       op.chans \intersect device'.high = {}
           live == op.kind = "basic_live_configure" =>
                      op.chans \intersect device'.high \subseteq device.high
           fires == op.kind \in Fires => \A c \in op.chans :
              <<Contract[op.kind].writes, c, device.setup[c][Contract[op.kind].writes]>>
                \in receipts
<1>1. CoreInv /\ [Next]_vars => (sends => emits /\ live /\ fires)
  <2> SUFFICES ASSUME CoreInv, [Next]_vars, pc = "main", ctx'.main, moved = "no"
               PROVE  emits /\ live /\ fires
    OBVIOUS
  <2>1. ~ctx.main /\ Ready(op, device)
    BY DEF CoreInv, PhaseInv, ReadyInv
  <2>2. PICK ok \in BOOLEAN : Main(ok)
    BY <2>1 DEF Next, ServiceStep, CoreInv, TypeOK, FailDiscovery, PassPreflight,
           FailPreflight, RefuseMain, Confirm, FailPostcondition, MarkFailure, SwitchOff,
           FailSafeState, VerifyOff, FailVerify, Complete, Tick, UsePanel, vars, opVars, Begin
  <2>3. op \in Requests /\ device' \in Outcomes(op, device) /\ device \in DeviceType
    BY <2>2 DEF Main, CoreInv, TypeOK
  <2>4. /\ op.level # "high" => device'.high \subseteq device.high
        /\ op.level \in Levels
        /\ op.kind \in Fires \union {"output_enable"} => op.level = "keep"
    BY <2>3, OutcomeFacts, RequestFacts, ContractFacts, SourceAssumption
  <2>5. op.kind \in Fires \union {"output_enable", "basic_live_configure"} =>
           WithinLimits(op, device)
    BY <2>1 DEF Ready, EnableReady, FireReady, LiveReady
  <2>6. fires
    BY <2>1 DEF Ready, FireReady
  <2> QED
    BY <2>4, <2>5, <2>6 DEF WithinLimits, Levels
<1> QED
  BY <1>1, CoreHolds, PTL DEF Spec, EmitsWithinLimits

-----------------------------------------------------------------------------
(* No output but the requested one goes on.                                  *)

LEMMA ReachFacts ==
    ASSUME NEW r \in Requests, NEW d
    PROVE  r.chans \subseteq Reach(r, d)
  BY RequestFacts, ContractFacts DEF Reach, AffectedChannels

\* Confirming leaves the request's own output as the only one that went on.
LEMMA ConfirmedFacts ==
    ASSUME NEW r \in Requests, NEW d \in DeviceType, Confirmed(r, d), r.chans \subseteq closure,
           d.on \subseteq before \union Enabled(r) \union Touchable(r)
    PROVE  d.on \subseteq before \union Enabled(r)
<1>1. CASE Contract[r.kind].needs = "off"
  <2>1. r.chans \intersect d.on = {}
    BY <1>1 DEF Confirmed, OutputsAsNeeded
  <2> QED
    BY <2>1 DEF Touchable
<1>2. CASE r.kind = "arbitrary_storage"
  <2>1. PICK c \in Channels : r.chans = {c}
    BY <1>2, RequestFacts, ContractFacts, SourceAssumption
  <2>2. (c \in d.on) = (c \in before)
    BY <1>2, <2>1 DEF Confirmed
  <2> QED
    BY <2>1, <2>2 DEF Touchable
<1> QED
  BY <1>1, <1>2 DEF Touchable

LEMMA OnInvNext == CoreInv /\ OnInv /\ [Next]_vars => OnInv'
<1> SUFFICES ASSUME CoreInv, OnInv, [Next]_vars PROVE OnInv'
  OBVIOUS
<1> ctx \in ContextType /\ health \in Health /\ pc \in Steps
  BY DEF CoreInv, TypeOK
<1> USE DEF CoreInv
<1> Entering
  BY EnteredFacts DEF TypeOK
<1> USE DEF Entering
<1> /\ ctx.main \in BOOLEAN /\ ctx.failing \in BOOLEAN
    /\ ctx.proven \in BOOLEAN /\ ctx.safe \in BOOLEAN
  BY DEF ContextType
<1> (op = NoRequest) = (pc = "idle") /\ NoRequest \notin Requests
  BY SourceAssumption DEF TypeOK
<1> USE DEF Phases
<1>1. ASSUME NEW r \in Requests, Begin(r) PROVE OnInv'
  <2>1. op' = r /\ r.chans \subseteq closure' /\ pc' = "preflight" /\ ctx' = FreshContext
    BY <1>1, ReachFacts DEF Begin
  <2> QED
    BY <2>1, ContextFacts DEF OnInv
<1>2. CASE FailDiscovery
  BY <1>2 DEF FailDiscovery, opVars, OnInv, PhaseInv, Unmarked
<1>3. CASE PassPreflight
  <2>1. /\ ctx'.proven = ctx.proven /\ pc' \in {"complete", "main"} /\ op' = op /\ device' = device
        /\ before' = device.on /\ closure' = closure /\ pc = "preflight"
    BY <1>3 DEF PassPreflight
  <2>2. pc' = "main" => ~(Contract[op.kind].skips /\ AsRequested(op, device))
    BY <1>3 DEF PassPreflight
  <2>3. AsRequested(op, device)' => AsRequested(op, device)
    BY <2>1, Zenon DEF AsRequested
  <2>4. ~ctx.proven
    BY <2>1 DEF PhaseInv, Unmarked
  <2> QED
    BY <2>1, <2>2, <2>3, <2>4 DEF OnInv
<1>4. CASE FailPreflight
  BY <1>4 DEF FailPreflight, OnInv, PhaseInv, Unmarked, Enabled, Touchable, ghostVars
<1>5. ASSUME NEW ok \in BOOLEAN, Main(ok) PROVE OnInv'
  <2>1. /\ op' = op /\ before' = before /\ closure' = closure /\ moved' = moved /\ pc = "main"
        /\ pc' \in {"postcondition", "failed"} /\ ctx'.proven = ctx.proven
        /\ device' \in Outcomes(op, device) /\ op \in Requests /\ device \in DeviceType
    BY <1>5 DEF Main, TypeOK
  <2>2. ~ctx.proven
    BY <2>1 DEF PhaseInv, Unmarked
  <2>3. moved = "no" /\ op.kind = "output_enable" => Partners(device, op.chans) = {}
    <3> SUFFICES ASSUME moved = "no", op.kind = "output_enable" PROVE Partners(device, op.chans) = {}
      OBVIOUS
    <3>1. EnableReady(op, device)
      BY <2>1 DEF ReadyInv, Ready
    <3>2. ~(op.chans \subseteq device.on)
      <4>1. Contract[op.kind].skips
        BY <2>1, RequestFacts, ContractFacts
      <4>2. ~AsRequested(op, device)
        BY <2>1, <4>1 DEF OnInv
      <4> QED
        BY <2>1, <4>2, RequestFacts, ContractFacts DEF AsRequested
    <3> QED
      BY <3>1, <3>2 DEF EnableReady, Unrelated, Partners
  <2>4. moved = "no" => device'.on \subseteq before \union Enabled(op) \union Touchable(op)
    BY <2>1, <2>3, OutcomeFacts DEF OnInv
  <2>5. Enabled(op)' = Enabled(op) /\ Touchable(op)' = Touchable(op)
    BY <2>1 DEF Enabled, Touchable
  <2> QED
    BY <2>1, <2>2, <2>4, <2>5 DEF OnInv
<1>6. CASE RefuseMain
  BY <1>6 DEF RefuseMain, OnInv, PhaseInv, Unmarked, Enabled, Touchable, ghostVars
<1>7. CASE Confirm
  <2>1. /\ op' = op /\ before' = before /\ closure' = closure /\ device' = device
        /\ pc = "postcondition" /\ pc' = "complete" /\ op \in Requests /\ device \in DeviceType
        /\ Confirmed(op, device)
        /\ moved' = "no" => moved = "no"
    BY <1>7 DEF Confirm, SinceSnapshot, TypeOK
  <2>2. moved = "no" => device.on \subseteq before \union Enabled(op)
    BY <2>1, ConfirmedFacts DEF OnInv
  <2>3. Enabled(op)' = Enabled(op)
    BY <2>1 DEF Enabled
  <2> QED
    BY <2>1, <2>2, <2>3 DEF OnInv
<1>8. CASE FailPostcondition
  BY <1>8 DEF FailPostcondition, OnInv, PhaseInv, Unmarked, Enabled, Touchable, ghostVars
<1>9. CASE MarkFailure
  <2>1. op \in Requests /\ Contract[op.kind].off \in BOOLEAN
        /\ (Contract[op.kind].recovers = "switch_off") = Contract[op.kind].off
    BY <1>9, RequestFacts, ContractFacts DEF MarkFailure, TypeOK
  <2>2. CASE Contract[op.kind].recovers = "none"
    BY <1>9, <2>1, <2>2, ContextFacts DEF MarkFailure, OnInv, PhaseInv, Unmarked, ghostVars
  <2>3. CASE Contract[op.kind].recovers # "none"
    <3>1. /\ ctx'.main = ctx.main /\ ctx'.failing /\ ctx'.proven = ctx.proven
          /\ ctx'.safe = ctx.safe /\ ctx'.used = ctx.used
      BY <1>9, <2>3, ContextFacts DEF MarkFailure
    <3>2. /\ health' # Healthy
          /\ health # Poisoned => health' # Poisoned
      BY <1>9, <2>3 DEF MarkFailure, Conservative, Healthy, Uncertain, Poisoned
    <3>3. /\ pc = "failed" /\ pc' \in {"safe_state", "complete"}
          /\ pc' = "safe_state" => Contract[op.kind].recovers = "switch_off" /\ health # Poisoned
          /\ op' = op /\ closure' = closure /\ sent' = sent
      BY <1>9, <2>3 DEF MarkFailure
    <3> QED
      BY <2>1, <3>1, <3>2, <3>3 DEF OnInv, PhaseInv, Unmarked, ghostVars
  <2> QED
    BY <2>2, <2>3
<1>10. ASSUME NEW c \in Channels, NEW ok \in BOOLEAN, SwitchOff(c, ok) PROVE OnInv'
  BY <1>10 DEF SwitchOff, OnInv, PhaseInv, Unmarked, Enabled, Touchable, ghostVars
<1>11. CASE FailSafeState
  BY <1>11 DEF FailSafeState, OnInv, PhaseInv, Unmarked, Enabled, Touchable, ghostVars
<1>12. CASE VerifyOff
  <2>1. /\ pc = "verify" /\ pc' = "complete" /\ ctx'.proven = ctx.proven /\ op' = op /\ closure' = closure
    BY <1>12, ContextFacts DEF VerifyOff
  <2> QED
    BY <2>1 DEF OnInv, PhaseInv
<1>13. CASE FailVerify
  BY <1>13 DEF FailVerify, OnInv, PhaseInv, Unmarked, Enabled, Touchable, ghostVars
<1>14. CASE Complete
  BY <1>14, ContextFacts DEF Complete, OnInv
<1>15. CASE Tick
  <2>1. AsRequested(op, device)' => AsRequested(op, device)
    BY <1>15, Zenon DEF Tick, opVars, AsRequested
  <2> QED
    BY <1>15, <2>1 DEF Tick, opVars, ghostVars, OnInv, Enabled, Touchable
<1>16. CASE UsePanel
  BY <1>16 DEF UsePanel, opVars, OnInv, PhaseInv, Unmarked
<1>17. CASE UNCHANGED vars
  <2>1. AsRequested(op, device)' => AsRequested(op, device)
    BY <1>17, Zenon DEF vars, opVars, AsRequested
  <2> QED
    BY <1>17, <2>1 DEF vars, opVars, ghostVars, OnInv, Enabled, Touchable
<1> QED
  BY <1>1, <1>2, <1>3, <1>4, <1>5, <1>6, <1>7, <1>8, <1>9, <1>10, <1>11, <1>12, <1>13, <1>14, <1>15, <1>16, <1>17
     DEF Next, ServiceStep

-----------------------------------------------------------------------------
(* The relations.                                                            *)

\* The affected channels are the least set that holds the given ones and is
\* closed under the relations, and they grow with the relations.
LEMMA AffectedFacts ==
    ASSUME NEW g \in SUBSET Edges, NEW cs \in SUBSET Channels
    PROVE  /\ cs \subseteq AffectedChannels(g, cs)
           /\ ClosedUnder(g, AffectedChannels(g, cs))
           /\ \A s \in SUBSET Channels :
                 cs \subseteq s /\ ClosedUnder(g, s) => AffectedChannels(g, cs) \subseteq s
           /\ \A h \in SUBSET g : AffectedChannels(h, cs) \subseteq AffectedChannels(g, cs)
<1>1. cs \subseteq AffectedChannels(g, cs)
  BY DEF AffectedChannels
<1>2. ClosedUnder(g, AffectedChannels(g, cs))
  <2> SUFFICES ASSUME NEW e \in g, NEW x \in e, x \in AffectedChannels(g, cs), NEW y \in e
               PROVE  y \in AffectedChannels(g, cs)
    BY DEF ClosedUnder
  <2>1. y \in Channels
    BY SourceAssumption
  <2>2. ASSUME NEW s \in SUBSET Channels, cs \subseteq s, ClosedUnder(g, s) PROVE y \in s
    BY <2>2 DEF AffectedChannels, ClosedUnder
  <2> QED
    BY <2>1, <2>2 DEF AffectedChannels
<1>3. \A s \in SUBSET Channels :
         cs \subseteq s /\ ClosedUnder(g, s) => AffectedChannels(g, cs) \subseteq s
  BY DEF AffectedChannels
<1>4. \A h \in SUBSET g : AffectedChannels(h, cs) \subseteq AffectedChannels(g, cs)
  BY DEF AffectedChannels, ClosedUnder
<1> QED
  BY <1>1, <1>2, <1>3, <1>4

\* Only the main write adds relations, and nothing takes one away.
LEMMA GraphGrows ==
    ASSUME TypeOK, [Next]_vars
    PROVE  /\ device.graph \subseteq device'.graph
           /\ device'.graph = device.graph \/ pc = "main"
<1>1. device \in DeviceType
  BY DEF TypeOK
<1>2. CASE \E ok \in BOOLEAN : Main(ok)
  <2>1. pc = "main" /\ op \in Requests /\ device' \in Outcomes(op, device)
    BY <1>2 DEF Main, TypeOK
  <2> QED
    BY <1>1, <2>1, OutcomeFacts
<1>3. ASSUME NEW c \in Channels, NEW ok \in BOOLEAN, SwitchOff(c, ok)
      PROVE  device'.graph = device.graph
  BY <1>1, <1>3 DEF SwitchOff, DeviceType
<1>4. CASE UsePanel
  <2>1. CASE device' \in ChannelMoves(device)
    <3>1. PICK m \in Panel : device' \in Touched(device, m[1], m[2])
      BY <2>1 DEF ChannelMoves
    <3> QED
      BY <1>1, <3>1 DEF Touched, DeviceType
  <2>2. CASE device' \in RelationMoves(device)
    BY <1>1, <2>2 DEF RelationMoves, Relinked, DeviceType
  <2> QED
    BY <1>4, <2>1, <2>2 DEF UsePanel
<1>5. CASE device' = device
  BY <1>5
<1> QED
  BY <1>2, <1>3, <1>4, <1>5
     DEF Next, ServiceStep, Begin, FailDiscovery, PassPreflight, FailPreflight, RefuseMain,
         Confirm, FailPostcondition, MarkFailure, FailSafeState, VerifyOff, FailVerify,
         Complete, Tick, vars, opVars

\* What a step makes of the request, the closure and the proof.
LEMMA ClosureFrozen ==
    ASSUME CoreInv, [Next]_vars, op' # NoRequest
    PROVE  \/ op = NoRequest /\ ~ctx'.proven /\ device' = device /\ closure' = Reach(op', device)
                /\ op' \in Requests
           \/ op' = op /\ closure' = closure /\ (ctx'.proven => ctx.proven)
           \/ op' = op /\ closure' = closure /\ device' = device /\ Confirmed(op, device)
<1>1. ASSUME NEW r \in Requests, Begin(r)
      PROVE  op = NoRequest /\ ~ctx'.proven /\ device' = device /\ closure' = Reach(op', device)
             /\ op' \in Requests
  BY <1>1 DEF Begin, FreshContext
<1>2. CASE Confirm
  BY <1>2 DEF Confirm
<1>3. ASSUME \/ PassPreflight \/ \E ok \in BOOLEAN : Main(ok)
             \/ FailPostcondition \/ MarkFailure
             \/ \E c \in Channels, ok \in BOOLEAN : SwitchOff(c, ok)
             \/ VerifyOff
      PROVE  op' = op /\ closure' = closure /\ (ctx'.proven => ctx.proven)
  <2> ctx \in ContextType
    BY DEF CoreInv, TypeOK
  <2> Entering
    BY EnteredFacts
  <2> USE DEF Entering, Phases
  <2>1. CASE PassPreflight
    BY <2>1, ContextFacts DEF PassPreflight
  <2>2. CASE \E ok \in BOOLEAN : Main(ok)
    BY <2>2, ContextFacts DEF Main
  <2>3. CASE FailPostcondition
    BY <2>3, ContextFacts DEF FailPostcondition
  <2>4. CASE MarkFailure
    BY <2>4, ContextFacts DEF MarkFailure
  <2>5. CASE \E c \in Channels, ok \in BOOLEAN : SwitchOff(c, ok)
    BY <2>5, ContextFacts DEF SwitchOff
  <2>6. CASE VerifyOff
    BY <2>6, ContextFacts DEF VerifyOff
  <2> QED
    BY <1>3, <2>1, <2>2, <2>3, <2>4, <2>5, <2>6
<1>4. CASE Complete
  BY <1>4 DEF Complete
<1>5. ASSUME \/ FailDiscovery \/ FailPreflight \/ RefuseMain \/ FailSafeState \/ FailVerify
             \/ Tick \/ UsePanel \/ UNCHANGED vars
      PROVE  op' = op /\ closure' = closure /\ (ctx'.proven => ctx.proven)
  BY <1>5 DEF FailDiscovery, FailPreflight, RefuseMain, FailSafeState, FailVerify, Tick, UsePanel,
         vars, opVars
<1> QED
  BY <1>1, <1>2, <1>3, <1>4, <1>5 DEF Next, ServiceStep

LEMMA GraphInvNext == CoreInv /\ GraphInv /\ [Next]_vars => GraphInv'
<1> SUFFICES ASSUME CoreInv, GraphInv, [Next]_vars, op' # NoRequest, op'.kind = "cross_channel"
             PROVE  /\ closure' \subseteq AffectedChannels(device'.graph, op'.chans)
                    /\ ctx'.proven =>
                         AffectedChannels(device'.graph, op'.chans) \subseteq closure'
  BY DEF GraphInv
<1>1. TypeOK /\ TypeOK'
  BY NextTyped DEF CoreInv
<1>2. /\ device.graph \in SUBSET Edges /\ device'.graph \in SUBSET Edges
      /\ op' \in Requests /\ op'.chans \in SUBSET Channels
  BY <1>1, RequestFacts DEF TypeOK, DeviceType
<1>3. AffectedChannels(device.graph, op'.chans) \subseteq AffectedChannels(device'.graph, op'.chans)
  BY <1>1, <1>2, GraphGrows, AffectedFacts
<1>4. CASE op = NoRequest /\ ~ctx'.proven /\ device' = device /\ closure' = Reach(op', device)
  BY <1>2, <1>4, RequestFacts, ContractFacts DEF Reach
<1>5. CASE op' = op /\ closure' = closure /\ (ctx'.proven => ctx.proven)
  <2>1. closure' \subseteq AffectedChannels(device'.graph, op'.chans)
    BY <1>3, <1>5 DEF GraphInv
  <2>2. ASSUME ctx'.proven PROVE AffectedChannels(device'.graph, op'.chans) \subseteq closure'
    <3>1. pc = "complete" /\ AffectedChannels(device.graph, op.chans) \subseteq closure
      BY <1>5, <2>2 DEF CoreInv, MarkInv, GraphInv
    <3> QED
      BY <1>1, <1>5, <3>1, GraphGrows
  <2> QED
    BY <2>1, <2>2
<1>6. CASE op' = op /\ closure' = closure /\ device' = device /\ Confirmed(op, device)
  BY <1>6 DEF GraphInv, Confirmed
<1> QED
  BY <1>4, <1>5, <1>6, ClosureFrozen

\* The invariant is inductive.
THEOREM SourceInvariant == Spec => []SourceInv
<1>1. Init => OnInv /\ GraphInv
  BY DEF Init, OnInv, GraphInv, FreshContext
<1>2. CoreInv /\ OnInv /\ [Next]_vars => OnInv'
  BY OnInvNext
<1>3. CoreInv /\ GraphInv /\ [Next]_vars => GraphInv'
  BY GraphInvNext
<1> QED
  BY <1>1, <1>2, <1>3, CoreHolds, PTL DEF Spec, SourceInv

\* A relation that was changed leads nowhere outside what the operation answered
\* for: what it reaches is closed, and is exactly what was frozen at the start.
THEOREM SourceRelationsStayInside == Spec => RelationsStayInside
<1>1. SourceInv => (Finished /\ ctx.proven /\ op.kind = "cross_channel" =>
                       ClosedUnder(device.graph, closure))
  <2> SUFFICES ASSUME SourceInv, op # NoRequest, ctx.proven, op.kind = "cross_channel"
               PROVE  ClosedUnder(device.graph, closure)
    BY DEF Finished
  <2>1. closure = AffectedChannels(device.graph, op.chans)
    BY DEF SourceInv, GraphInv
  <2>2. device.graph \in SUBSET Edges /\ op.chans \in SUBSET Channels
    BY RequestFacts DEF SourceInv, CoreInv, TypeOK, DeviceType
  <2> QED
    BY <2>1, <2>2, AffectedFacts
<1> QED
  BY <1>1, SourceInvariant, PTL DEF RelationsStayInside

\* An operation that succeeds has switched on nothing but what it was asked to.
THEOREM SourceNothingElseEnergised == Spec => NothingElseEnergised
<1>1. SourceInv => (Finished /\ ctx.proven /\ moved = "no" =>
         device.on \subseteq before \union (IF op.kind = "output_enable" THEN op.chans ELSE {}))
  BY DEF SourceInv, OnInv, Enabled
<1> QED
  BY <1>1, SourceInvariant, PTL DEF NothingElseEnergised

-----------------------------------------------------------------------------
(* Progress.                                                                 *)

\* No step of an operation leads back.
LEMMA StepAdvances ==
    ASSUME CoreInv, CoreInv', [Next]_vars, op # NoRequest
    PROVE  \/ Place(pc) < Place(pc')
           \/ /\ pc' = pc /\ closure' = closure
              /\ sent \subseteq sent' /\ sent' \subseteq closure
              /\ ServiceStep => sent' # sent
<1> DEFINE later == Place(pc) < Place(pc')
           more == /\ pc' = pc /\ closure' = closure
                   /\ sent \subseteq sent' /\ sent' \subseteq closure
                   /\ sent' # sent
<1>1. pc \in Steps \ {"idle"} /\ sent \subseteq closure
  BY DEF CoreInv, TypeOK, MarkInv, Emergency
<1>2. CASE PassPreflight \/ FailPreflight
  BY <1>2 DEF PassPreflight, FailPreflight, Place
<1>3. CASE \E ok \in BOOLEAN : Main(ok)
  BY <1>3 DEF Main, Place
<1>4. CASE RefuseMain \/ Confirm \/ FailPostcondition
  BY <1>4 DEF RefuseMain, Confirm, FailPostcondition, Place
<1>5. CASE MarkFailure
  BY <1>5 DEF MarkFailure, Place
<1>6. ASSUME NEW c \in Channels, NEW ok \in BOOLEAN, SwitchOff(c, ok) PROVE later \/ more
  <2>1. /\ pc = "safe_state" /\ pc' \in {"safe_state", "verify", "complete"}
        /\ c \in Emergency(op) \ sent /\ sent' = sent \union {c} /\ closure' = closure
    BY <1>6 DEF SwitchOff
  <2>2. sent' # sent /\ sent' \subseteq closure
    BY <1>1, <2>1 DEF Emergency
  <2> QED
    BY <2>1, <2>2 DEF Place
<1>7. CASE FailSafeState \/ VerifyOff \/ FailVerify \/ Complete
  BY <1>7 DEF FailSafeState, VerifyOff, FailVerify, Complete, Place
<1>8. ServiceStep => later \/ more
  BY <1>2, <1>3, <1>4, <1>5, <1>6, <1>7 DEF ServiceStep
<1>9. ASSUME ~ServiceStep PROVE pc' = pc /\ closure' = closure /\ sent' = sent
  BY <1>9 DEF Next, Begin, FailDiscovery, Tick, UsePanel, vars, opVars
<1> QED
  BY <1>1, <1>8, <1>9

\* An operation takes no more service steps than there are phases and channels it
\* answers for.
THEOREM SourceStepsAdvance == Spec => EveryStepAdvances
<1> DEFINE advances ==
      op # NoRequest =>
         \/ Place(pc) < Place(pc')
         \/ /\ pc' = pc /\ closure' = closure
            /\ sent \subseteq sent' /\ sent' \subseteq closure
            /\ ServiceStep => sent' # sent
<1>1. CoreInv /\ CoreInv' /\ [Next]_vars => advances
  BY StepAdvances
<1> QED
  BY <1>1, CoreHolds, PTL DEF Spec, EveryStepAdvances
=============================================================================
