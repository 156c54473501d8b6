---------------------------- MODULE MCSourceSlot ----------------------------
(* Model checking of SourceSlot: two live sessions that connect again and   *)
(* again against one AutoDJ or one relay task.                              *)
EXTENDS SourceSlot, TLC

CONSTANTS s1, s2

\* The sessions are interchangeable; used by runs without liveness.
SessionSymmetry == Permutations(Sessions)
=============================================================================
