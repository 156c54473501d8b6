---------------------------- MODULE MCHeaderJoin ----------------------------
(* Model checking of HeaderJoin: a listener that joins again and again.    *)
(* Listeners share nothing but the source, which reads none of their       *)
(* state, so that one stands for all of them.                              *)
EXTENDS HeaderJoin

CONSTANT l1
=============================================================================
