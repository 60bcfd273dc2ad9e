----------------------------- MODULE StateGuard -----------------------------
(***************************************************************************)
(* The compare-before-write guard of a run (services/state_guard.py): what  *)
(* WaveBench expects of each output it has seen, and what a write may find. *)
(***************************************************************************)
CONSTANTS
    Outputs,  \* output channels of the source and of the supply
    Levels,   \* the settings of an output
    Unseen    \* no status of this output is known

Status == [on : BOOLEAN, level : Levels]

Expectations == [Outputs -> Status \union {Unseen}]

\* observe: a status that is read counts only where none is known.
Observed(e, o, s) == IF e[o] = Unseen THEN [e EXCEPT ![o] = s] ELSE e

Drifted(e, o, s) == e[o] # Unseen /\ e[o] # s

\* Mutant: what is found becomes what is expected.
AdoptsDrift(e, o, s, off) == TRUE

\* before_write: refuses to build on a change made by somebody else; switching
\* an output OFF is allowed from any state.
MayWrite(e, o, s, off) == off \/ ~Drifted(e, o, s)

BeforeWrite(e, o, s) == [e EXCEPT ![o] = s]

AfterWrite(e, o, s) == [e EXCEPT ![o] = s]
=============================================================================
