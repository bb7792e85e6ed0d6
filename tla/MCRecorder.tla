----------------------------- MODULE MCRecorder -----------------------------
(***************************************************************************)
(* Small instances of Recorder for TLC.                                    *)
(***************************************************************************)
EXTENDS Recorder, TLC

Config(representations, unmatched, rows, bytes, latency) ==
    [representations |-> representations, unmatched |-> unmatched,
     max_rows |-> rows, max_bytes |-> bytes, max_latency |-> latency]

\* The latency limit alone, as in the low-latency profiles, and with a row limit.
LatencyConfigs ==
    {Config({"reflected"}, "keep", rows, 0, 2) : rows \in {0, 3}}

DropConfigs ==
    {Config(r, "drop", 2, 0, 0) : r \in {{"lenses"}, {"raw", "lenses"}}}

\* Names are interchangeable; no liveness property is checked under it.
NameSymmetry == Permutations(Names)

LensesOnly == {Config({"lenses"}, "keep", 2, 0, 0)}

Reflectable == {[reflectable |-> TRUE, matched |-> FALSE]}
Matched     == {[reflectable |-> TRUE, matched |-> TRUE]}
\* The kinds a topic can be of: a type no one can reflect reaches no lens.
EveryKind   == Reflectable \union Matched \union {[reflectable |-> FALSE, matched |-> FALSE]}

=============================================================================
