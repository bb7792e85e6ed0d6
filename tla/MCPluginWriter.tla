--------------------------- MODULE MCPluginWriter ---------------------------
(***************************************************************************)
(* Small instances of PluginWriter for TLC.                                *)
(***************************************************************************)
EXTENDS PluginWriter, TLC

Config(representations, rows, bytes, latency) ==
    [representations |-> representations, unmatched |-> "keep",
     max_rows |-> rows, max_bytes |-> bytes, max_latency |-> latency]

\* The default profile's limits scaled down, without a raw copy to fall back on.
LimitConfigs == {Config({"reflected"}, 3, 3, 1)}

Reflectable == {[reflectable |-> TRUE, matched |-> FALSE]}

\* A small message, and a larger one that was received earlier.
TwoMessages == {[size |-> 1, recv |-> 2], [size |-> 2, recv |-> 1]}

NameSymmetry == Permutations(Names)

=============================================================================
