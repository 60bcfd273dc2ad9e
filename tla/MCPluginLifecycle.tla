-------------------------- MODULE MCPluginLifecycle --------------------------
(***************************************************************************)
(* Small instances of PluginLifecycle.                                      *)
(***************************************************************************)
EXTENDS PluginLifecycle, TLC

CONSTANTS d1, d2, g1

DistSymmetry == Permutations(Dists)
=============================================================================
