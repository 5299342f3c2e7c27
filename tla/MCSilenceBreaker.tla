------------------------- MODULE MCSilenceBreaker -------------------------
(* A port with two devices: the smallest one with a neighbour. *)
EXTENDS SilenceBreaker
CONSTANTS d1, d2
MCDevices == {d1, d2}
=============================================================================
