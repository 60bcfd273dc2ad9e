--------------------------- MODULE SourceMutation ----------------------------
(***************************************************************************)
(* What a source session promises about one mutation, whatever happens in    *)
(* between: when it is over, the health tells what is known of the device.   *)
(* A healthy session after a write means that the device is as requested, an *)
(* uncertain one that every output it answers for is OFF; a poisoned one     *)
(* promises nothing and admits no further operation.                         *)
(***************************************************************************)
CONSTANTS Healthy, Uncertain, Poisoned

VARIABLES
    health,  \* the session's health
    stage,   \* "idle", "open" (nothing written yet) or "dirty"
    holds    \* what is true of the device: a subset of {"requested", "off"}

\* The device changes as it likes; the health never improves.
NeverImproves ==
    /\ health = Uncertain => health' # Healthy
    /\ health = Poisoned => health' = Poisoned

Init == health = Healthy /\ stage = "idle"

Open == stage = "idle" /\ health = Healthy /\ stage' = "open" /\ health' = health

Write == stage = "open" /\ stage' = "dirty"

Work == stage' = stage

Abandon == stage = "open" /\ stage' = "idle"

Settle ==
    /\ stage = "dirty" /\ stage' = "idle"
    /\ \/ health' = Healthy /\ "requested" \in holds
       \/ health' = Uncertain /\ "off" \in holds
       \/ health' = Poisoned

Next == NeverImproves /\ (Open \/ Write \/ Work \/ Abandon \/ Settle)

Spec == Init /\ [][Next]_<<health, stage, holds>>
=============================================================================
