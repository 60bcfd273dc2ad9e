----------------------------- MODULE LeaseTable ------------------------------
(***************************************************************************)
(* What resource leases promise to the sessions of all processes, with no   *)
(* lock file, no order and no unwinding in sight: a batch is granted whole  *)
(* in one step, when it agrees with every batch that is out, and is given   *)
(* back whole; and whatever is written about a resource, it names the       *)
(* exclusive holder for as long as there is one.                            *)
(***************************************************************************)
CONSTANTS Procs, Resources, NoOne

VARIABLES
    batch,  \* the resources each process works on
    mode,   \* how it asked for them, "shared" or "exclusive"
    named   \* whom the public note of a resource names, or NoOne

vars == <<batch, mode, named>>

Init ==
    /\ batch = [p \in Procs |-> {}]
    /\ mode \in [Procs -> {"shared", "exclusive"}]
    /\ named = [r \in Resources |-> NoOne]

\* Nobody else works on any of the resources, unless all of them share.
Agrees(p, resources) ==
    \A q \in Procs \ {p} :
        batch[q] \intersect resources # {} => mode[p] = "shared" /\ mode[q] = "shared"

Grant(p, resources) ==
    /\ batch[p] = {}
    /\ Agrees(p, resources)
    /\ batch' = [batch EXCEPT ![p] = resources]

Return(p) == batch' = [batch EXCEPT ![p] = {}]

\* The notes are written, cleared and left behind by anyone.
Note == batch' = batch

\* What a note may say is bounded by who holds the resource.
NotesHold ==
    \A p \in Procs : mode[p] = "exclusive" => \A r \in batch[p] : named[r] = p

Next ==
    /\ \/ \E p \in Procs, resources \in SUBSET Resources : Grant(p, resources)
       \/ \E p \in Procs : Return(p)
       \/ Note
    /\ mode' = mode
    /\ NotesHold'

Spec == Init /\ [][Next]_vars
=============================================================================
