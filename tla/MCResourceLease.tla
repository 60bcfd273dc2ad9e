--------------------------- MODULE MCResourceLease ---------------------------
(***************************************************************************)
(* Small instances of ResourceLease.                                        *)
(***************************************************************************)
EXTENDS ResourceLease, TLC

CONSTANTS p1, p2, p3

ProcSymmetry == Permutations(Procs)
=============================================================================
