----------------------------- MODULE PluginStore -----------------------------
(***************************************************************************)
(* What managed installation promises: the managed plugins of a virtual     *)
(* environment change one at a time, and each change happens as a whole or  *)
(* not at all.  A change that is begun is in doubt until it is resolved,    *)
(* and nothing else can begin meanwhile.                                    *)
(*                                                                          *)
(* PluginLifecycle implements it (PromiseKept there).                       *)
(***************************************************************************)

CONSTANTS Dists, Versions, Absent, NoDoubt

VARIABLES
    store,   \* the managed version of each distribution, or Absent
    doubt    \* the change that is in doubt

vars == <<store, doubt>>

Targets == Versions \union {Absent}

Init ==
    /\ store = [d \in Dists |-> Absent]
    /\ doubt = NoDoubt

Begin(d, target) ==
    /\ doubt = NoDoubt
    /\ target # store[d]
    /\ doubt' = [dist |-> d, target |-> target]
    /\ UNCHANGED store

Resolve ==
    /\ doubt # NoDoubt
    /\ doubt' = NoDoubt
    /\ store' \in {store, [store EXCEPT ![doubt.dist] = doubt.target]}

Next ==
    \/ \E d \in Dists, target \in Targets : Begin(d, target)
    \/ Resolve

Spec == Init /\ [][Next]_vars

=============================================================================
