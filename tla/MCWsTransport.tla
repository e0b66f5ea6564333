--------------------------- MODULE MCWsTransport ---------------------------
(* Instances of WsTransport for TLC. *)
EXTENDS WsTransport, TLC

CONSTANTS c1, c2, s1, s2

MCCallers == {c1, c2}
OneCaller == {c1}
NoCaller == {}
OneSource == {s1}
TwoSources == {s1, s2}
MCSymmetry == Permutations(MCCallers)
=============================================================================
