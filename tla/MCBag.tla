------------------------------- MODULE MCBag -------------------------------
(***************************************************************************)
(* Small instances of Bag for TLC.                                         *)
(***************************************************************************)
EXTENDS Bag

Config(representations, rows, latency) ==
    [representations |-> representations, unmatched |-> "keep",
     max_rows |-> rows, max_bytes |-> 0, max_latency |-> latency]

\* Forms that depend on each other: structs that are forwarded besides what the
\* lenses derive, a raw copy of what they consume, and nothing but their output;
\* and a chunk of several rows.
BagConfigs ==
    {Config({"reflected", "lenses"}, 2, 0), Config({"raw", "lenses"}, 2, 1),
     Config({"lenses"}, 2, 0)}

EveryKind ==
    {[reflectable |-> r, matched |-> m] : <<r, m>> \in {<<TRUE, TRUE>>, <<TRUE, FALSE>>,
                                                       <<FALSE, FALSE>>}}

=============================================================================
