--------------------------- MODULE MCDeviceMessages ---------------------------
(* Two DSTS keys (one published at start, one rotated in), the MQTT router *)
(* and one REST handler validating tokens.                                 *)
EXTENDS DeviceMessages

CONSTANTS k1, k2, router, rest1

MCKids == {k1, k2}
MCValidators == {router, rest1}

=============================================================================
