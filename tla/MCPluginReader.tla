--------------------------- MODULE MCPluginReader ---------------------------
(***************************************************************************)
(* Small bags for PluginReader: every assignment of topics and receive     *)
(* times to a few messages.                                                *)
(***************************************************************************)
EXTENDS PluginReader

CONSTANTS A, B, Count

SmallBags ==
    {{[topic |-> b.topic[s], recv |-> b.recv[s], sequence |-> s] : s \in 1 .. Count} :
        b \in [topic : [1 .. Count -> {A, B}], recv : [1 .. Count -> Times]]}

TwoTopics   == {A, B}
TwoTimes    == 1 .. 2
SomeFilters == {{}, {A}, {B}}

=============================================================================
