----------------------------- MODULE MCRfOutput -----------------------------
(***************************************************************************)
(* A small instance of RfOutput: a level that is safe for any output, one    *)
(* that is safe without modulation only, and one that is never safe.         *)
(***************************************************************************)
EXTENDS RfOutput

CONSTANTS low, high, unsafe, declared, other, am, fm

MCRequests == RequestType
=============================================================================
