--------------------------- MODULE MCRunLifecycle ---------------------------
(***************************************************************************)
(* Small instances of RunLifecycle: a source with two outputs and a supply   *)
(* with one.                                                                 *)
(***************************************************************************)
EXTENDS RunLifecycle, TLC

CONSTANTS a, b, p, low, high

Set(o, w, l) == [out |-> o, want |-> w, level |-> l]
S(c, gate, off, stop) == [call |-> c, gate |-> gate, off |-> off, stop |-> stop]
P(steps, restore, uses, gate, off, analysis) ==
    [steps |-> steps, restore |-> restore, uses |-> uses, gate |-> gate, off |-> off,
     analysis |-> analysis]

\* A gate of the whole plan; a gate of one step that names nothing; no gate.
MCPlans ==
    {P(<<S(Set(a, "level", high), FALSE, {}, TRUE), S(Set(a, "on", low), FALSE, {}, TRUE)>>,
       <<a, b>>, {"source", "power"}, TRUE, {a, p}, FALSE),
     P(<<S(Set(p, "on", low), FALSE, {}, FALSE), S(NoCall, TRUE, {}, FALSE)>>,
       <<a>>, {"scope", "source", "power"}, FALSE, {}, FALSE),
     P(<<S(Set(a, "level", high), FALSE, {}, FALSE), S(NoCall, FALSE, {}, FALSE)>>,
       <<a>>, {"scope", "source"}, FALSE, {}, TRUE)}

Is(on, level) == [on |-> on, level |-> level]

MCStarts == {(a :> Is(TRUE, low) @@ b :> Is(FALSE, low) @@ p :> Is(FALSE, high))}
=============================================================================
