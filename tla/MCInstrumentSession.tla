------------------------- MODULE MCInstrumentSession -------------------------
(***************************************************************************)
(* Small instances of InstrumentSession.                                    *)
(***************************************************************************)
EXTENDS InstrumentSession

CONSTANTS t1, t2, f1, f2

\* A main phase with a binary budget, a recovery that writes and reads, and a
\* verification of both fields that may use every kind.
MCGrants ==
    {[purpose |-> "normal", io |-> {"query_binary", "write"}, fields |-> {f1},
      evidence |-> {}, steps |-> 2, budget |-> TRUE],
     [purpose |-> "recovery", io |-> {"write"}, fields |-> {f1, f2},
      evidence |-> {}, steps |-> 1, budget |-> FALSE],
     [purpose |-> "verification", io |-> {"query", "write"}, fields |-> {f1, f2},
      evidence |-> {"query"}, steps |-> 2, budget |-> FALSE]}

MCKinds == {"query", "write", "query_binary"}

\* The block reads and raw writes, with a budget that permits a block read only
\* outside it, and a verification by a parsed list of values.
MCBlockGrants ==
    {[purpose |-> "normal", io |-> {"query_binary", "query_bin_block"}, fields |-> {f1},
      evidence |-> {}, steps |-> 2, budget |-> TRUE],
     [purpose |-> "verification", io |-> {"query_float_list"}, fields |-> {f1},
      evidence |-> {"query_float_list"}, steps |-> 2, budget |-> FALSE]}

MCBlockKinds == {"query_float_list", "query_bin_block", "write_bytes", "query_binary"}
=============================================================================
