------------------------- MODULE MCCloudWebSocket -------------------------
(* Instances of CloudWebSocket for TLC. *)
EXTENDS CloudWebSocket, TLC

CONSTANTS u1, u2

MCUsers == {u1, u2}
=============================================================================
