--------------------------- MODULE MCBroadcastBus ---------------------------
(* Model checking of BroadcastBus: two listeners, a burst of three bytes,   *)
(* packets smaller than, as large as and larger than the burst, a channel   *)
(* of two packets.                                                          *)
EXTENDS BroadcastBus
=============================================================================
