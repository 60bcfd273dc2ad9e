--------------------------- MODULE SourceContracts ---------------------------
(***************************************************************************)
(* What each Source V2 operation asks of the outputs before and after it     *)
(* writes, and what it does when the write fails.  Every operation runs the  *)
(* transaction of SourceTransaction; this is where they differ               *)
(* (services/source_service.py).                                             *)
(*                                                                           *)
(*   needs    the state its outputs must have, before and after              *)
(*   writes   the setting it changes                                         *)
(*   reach    the channels it answers for: the one it names, every channel   *)
(*            of the instrument, or the closure of a relation                *)
(*   off      it declares those outputs as emergency OFF outputs             *)
(*   recovers what a failed write is followed by: one OFF per output, the    *)
(*            mark that a cleanup is due and nothing else, or not even that  *)
(*   skips    nothing is sent if the setting is already as requested         *)
(*   reads    the setting is read back after the write                       *)
(***************************************************************************)

\* The shape most configurations share.
OffOnly(setting) ==
    [needs |-> "off", writes |-> setting, reach |-> "channel", off |-> TRUE,
     recovers |-> "switch_off", skips |-> FALSE, reads |-> TRUE]

BasicConfigure == OffOnly("level")

\* The one configuration that may run while the output is ON.
BasicLiveConfigure == [OffOnly("level") EXCEPT !.needs = "on"]

OutputEnable == [OffOnly("output") EXCEPT !.needs = "any", !.skips = TRUE]

\* An OFF whose result is unknown is not sent again.
OutputDisable ==
    [OffOnly("output") EXCEPT !.needs = "any", !.off = FALSE,
                              !.recovers = "mark", !.skips = TRUE]

HarmonicsConfigure == OffOnly("harmonics")
HarmonicsDisable == [OffOnly("harmonics") EXCEPT !.skips = TRUE]
ModulationConfigure == OffOnly("modulation")
PmConfigure == OffOnly("modulation")
FmConfigure == OffOnly("modulation")
PwmConfigure == OffOnly("modulation")
SweepConfigure == OffOnly("sweep")
BurstConfigure == OffOnly("burst")
PulseConfigure == OffOnly("pulse")

\* Firing changes no setting.  The trigger is sent once, to an output that is ON.
Fire(feature) == [OffOnly(feature) EXCEPT !.needs = "on"]

\* A stored waveform touches no output, and a failed write marks nothing.
ArbitraryStorage ==
    [OffOnly("storage") EXCEPT !.needs = "any", !.off = FALSE, !.recovers = "none"]

ArbitrarySelect == OffOnly("arbitrary")

\* Volatile memory cannot be read back: only the outputs are.
ArbitraryVolatile == [OffOnly("arbitrary") EXCEPT !.reads = FALSE]
WorkspaceVolatile ==
    [OffOnly("workspace") EXCEPT !.reach = "instrument", !.reads = FALSE]

CounterMutation ==
    [OffOnly("counter") EXCEPT !.needs = "any", !.off = FALSE,
                               !.recovers = "mark", !.skips = TRUE]

\* Combine, coupling, tracking and phase relation: every output of the closure.
CrossChannel == [OffOnly("relation") EXCEPT !.reach = "closure", !.skips = TRUE]

Contract ==
    [basic_configure       |-> BasicConfigure,
     basic_live_configure  |-> BasicLiveConfigure,
     output_enable         |-> OutputEnable,
     output_disable        |-> OutputDisable,
     harmonics_configure   |-> HarmonicsConfigure,
     harmonics_disable     |-> HarmonicsDisable,
     modulation_configure  |-> ModulationConfigure,
     pm_configure          |-> PmConfigure,
     fm_configure          |-> FmConfigure,
     pwm_configure         |-> PwmConfigure,
     sweep_configure       |-> SweepConfigure,
     burst_configure       |-> BurstConfigure,
     sweep_fire            |-> Fire("sweep"),
     burst_fire            |-> Fire("burst"),
     pulse_configure       |-> PulseConfigure,
     arbitrary_storage     |-> ArbitraryStorage,
     arbitrary_select      |-> ArbitrarySelect,
     arbitrary_volatile    |-> ArbitraryVolatile,
     workspace_volatile    |-> WorkspaceVolatile,
     counter               |-> CounterMutation,
     cross_channel         |-> CrossChannel]

Kinds == DOMAIN Contract
Fires == {"sweep_fire", "burst_fire"}
Receipted == {"sweep_configure", "burst_configure"}

\* The settings of a channel, all but its output and its level.
Features == {"harmonics", "modulation", "sweep", "burst", "pulse", "storage",
             "arbitrary", "workspace", "counter"}
=============================================================================
