---------------------------- MODULE MCPolicyLoop ----------------------------
(* Instances of PolicyLoop for TLC.                                        *)
EXTENDS PolicyLoop

MCSampleGas   == [mode |-> "sample", min |-> 0, max |-> 12]
MCRate        == [min |-> 1, max |-> 9]
MCQuotes      == {[num |-> n, den |-> 2] : n \in {1, 5, 8, 9, 12}}
MCConfigs     == [Fields -> {1, 4, 6, 8}]
=============================================================================
