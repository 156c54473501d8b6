-------------------------- MODULE MCDynamicMounts --------------------------
(* Model checking of DynamicMounts: sources on one path that reloads list   *)
(* and unlist.  Paths share nothing but the reload, see the README.         *)
EXTENDS DynamicMounts, TLC

CONSTANTS s1, s2, s3, main

SourceSymmetry == Permutations(Sources)
Lists == SUBSET Paths
=============================================================================
