------------------------- MODULE MCFirmwareRollout -------------------------
(* Instances of FirmwareRollout for TLC. *)
EXTENDS FirmwareRollout

CONSTANTS t1, t2, d1, d2, d3, d4

MCStarters == {t1, t2}
MCDevices == <<d1, d2, d3, d4>>
MCPercentages == {-5, 70, 120}
=============================================================================
