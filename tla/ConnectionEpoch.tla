--------------------------- MODULE ConnectionEpoch ---------------------------
(***************************************************************************)
(* What one connection epoch promises to the services above it, without     *)
(* threads, locks, authorizations or budgets: exchanges are one at a time   *)
(* and only on a wire whose response boundary is proven; trust is lost step *)
(* by step and regained only from "uncertain"; the end is final; and the    *)
(* resource lease outlives the last exchange.                               *)
(*                                                                          *)
(* InstrumentSession implements it (PromiseKept there).                     *)
(***************************************************************************)
EXTENDS Integers

CONSTANT Fields

VARIABLES
    trust,      \* "healthy", "uncertain", "poisoned" or "closed"
    verified,   \* the fields whose value is known
    wire,       \* "proven" or "unproven"
    busy,       \* an exchange is with the instrument
    live,       \* the transport still accepts exchanges
    held        \* the resource lease is held

vars == <<trust, verified, wire, busy, live, held>>

Usable == {"healthy", "uncertain"}

\* Trust falls from the first of these to the second, or stays.
Falls(from, to) ==
    \/ from = to
    \/ from = "healthy"
    \/ from = "uncertain" /\ to \in {"poisoned", "closed"}
    \/ from = "poisoned" /\ to = "closed"

Init ==
    /\ trust = "healthy"
    /\ verified = {}
    /\ wire = "proven"
    /\ busy = FALSE
    /\ live = TRUE
    /\ held = TRUE

\* Losing trust loses every verified field.
TrustBecomes(h) ==
    /\ Falls(trust, h)
    /\ trust' = h
    /\ verified' = IF h = "healthy" THEN verified ELSE {}

Send ==
    /\ live /\ ~busy
    /\ trust \in Usable /\ wire = "proven"
    /\ busy' = TRUE
    /\ UNCHANGED <<trust, verified, wire, live, held>>

Reply ==
    /\ busy
    /\ busy' = FALSE
    /\ UNCHANGED <<trust, verified, wire, live, held>>

\* A failed exchange poisons the epoch if the boundary is not proven, and may
\* end a poisoned one on the spot.
Break(h) ==
    /\ busy
    /\ busy' = FALSE
    /\ TrustBecomes(h)
    /\ wire' \in {wire, "unproven"}
    /\ wire' = "unproven" => h = "poisoned"
    /\ live' \in BOOLEAN
    /\ live' => live
    /\ live /\ ~live' => h = "poisoned"
    /\ held' \in BOOLEAN
    /\ held' => held
    /\ held /\ ~held' => ~live'

\* A service loses trust in the epoch.
Doubt(h) ==
    /\ ~busy
    /\ TrustBecomes(h)
    /\ UNCHANGED <<wire, busy, live, held>>

Confirm(fields) ==
    /\ ~busy
    /\ trust \in Usable
    /\ trust' = "healthy"
    /\ verified' = verified \union fields
    /\ UNCHANGED <<wire, busy, live, held>>

Forget(fields) ==
    /\ ~busy
    /\ verified' = verified \ fields
    /\ UNCHANGED <<trust, wire, busy, live, held>>

End ==
    /\ live /\ ~busy
    /\ live' = FALSE
    /\ TrustBecomes("closed")
    /\ UNCHANGED <<wire, busy, held>>

LetGo ==
    /\ ~live /\ ~busy
    /\ held' = FALSE
    /\ UNCHANGED <<trust, verified, wire, busy, live>>

Next ==
    \/ Send \/ Reply
    \/ \E h \in {"healthy", "uncertain", "poisoned"} : Break(h)
    \/ \E h \in {"uncertain", "poisoned"} : Doubt(h)
    \/ \E fields \in SUBSET Fields : Confirm(fields) \/ Forget(fields)
    \/ End \/ LetGo

Spec == Init /\ [][Next]_vars

=============================================================================
