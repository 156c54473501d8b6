--------------------------- MODULE MCConfigReload ---------------------------
(* Model checking of ConfigReload.                                         *)
EXTENDS ConfigReload, TLC

CONSTANTS m, d, r, v1, v2, sa, sb

\* One path per section, as an operator keeps them.
OnePlaceEach == (m :> {"mounts"}) @@ (d :> {"autodj"}) @@ (r :> {"relay"})

\* Settings and clients are interchangeable.
ReloadSymmetry == Permutations({v1, v2}) \cup Permutations({sa, sb})

AnyConfig == Config
NoConfig == {}
=============================================================================
