------------------------- MODULE MCSourceTransaction -------------------------
(***************************************************************************)
(* Small instances of SourceTransaction.                                    *)
(***************************************************************************)
EXTENDS SourceTransaction

CONSTANTS none, s1, s2

Ask(kind, chans) == [kind |-> kind, chans |-> chans, level |-> "keep", setup |-> none,
                     expect |-> none, want |-> FALSE]

\* Channels 1 and 2 are named by requests; channel 3 is reached only through
\* the relation of 2 and 3.
MCEdges == {{1, 2}, {2, 3}}

Device(on, high, graph) ==
    [on |-> on, high |-> high, links |-> {}, graph |-> graph,
     setup |-> [c \in Channels |-> [f \in Settings |-> none]]]

MCStarts == {Device({}, {1}, MCEdges), Device({1}, {}, {{1, 2}})}

MCPanel == {<<1, "burst">>}

MCRequests ==
    {[Ask("basic_configure", {1}) EXCEPT !.level = "low"],
     [Ask("basic_live_configure", {1}) EXCEPT !.level = "high"],
     [Ask("basic_live_configure", {1}) EXCEPT !.level = "low"],
     Ask("output_enable", {1}),
     Ask("output_disable", {1}),
     [Ask("burst_configure", {1}) EXCEPT !.setup = s1],
     Ask("burst_fire", {1}),
     [Ask("sweep_configure", {1}) EXCEPT !.setup = s1],
     [Ask("arbitrary_storage", {1}) EXCEPT !.setup = s1],
     [Ask("workspace_volatile", {}) EXCEPT !.setup = s1],
     [Ask("counter", {1}) EXCEPT !.setup = s1],
     [Ask("cross_channel", {1, 2}) EXCEPT !.want = TRUE]}
=============================================================================
