--------------------------- MODULE MCScopeOperation --------------------------
(***************************************************************************)
(* Small instances of ScopeOperation.                                       *)
(***************************************************************************)
EXTENDS ScopeOperation

CONSTANTS s1, s2, s3

\* s2 is s3 with an acquisition armed; s1 and s3 are stopped.
MCStopped == [s \in {s1, s2, s3} |-> IF s = s2 THEN s3 ELSE s]

\* Every kind of operation, with the error queue drained before, after, twice or never.
MCRequests ==
    {[kind |-> k, asked |-> s1, checks |-> c] :
        k \in Kinds, c \in SUBSET {"before", "after"}}
=============================================================================
