---------------------------- MODULE PacketStream ----------------------------
(***************************************************************************)
(* What the bus of a mount promises its listeners (BroadcastBus in         *)
(* rustyice-core/src/traits.rs, the documentation of TokioBroadcastBus):   *)
(* one stream of packets for all; a listener starts a bounded number of    *)
(* bytes back, then receives every packet once and in order, unless it is  *)
(* slower than the channel is deep.                                        *)
(***************************************************************************)
EXTENDS Integers, Sequences

CONSTANTS
  Listeners,
  Sizes,     \* packet sizes, in bytes; no source publishes an empty packet
  Caps,      \* burst-on-connect sizes a mount may have, in bytes
  Ring,      \* packets the channel keeps for a slow listener
  Out        \* the position of who is not listening

VARIABLES
  cap,  \* the burst size of this mount
  ends, \* ends[n]: bytes published up to and including packet n
  at    \* listener -> the last packet delivered or passed over, or Out

svars == <<cap, ends, at>>

Published == Len(ends)
End(n) == IF n = 0 THEN 0 ELSE ends[n]

\* Where a burst starts: as far back as cap bytes reach, one packet at least.
IsBurst(k) ==
  /\ k \in 0..(Published - 1)
  /\ End(Published) - End(k) <= cap \/ k = Published - 1
  /\ k = 0 \/ End(Published) - End(k - 1) > cap

StreamInit == cap \in Caps /\ ends = <<>> /\ at = [l \in Listeners |-> Out]

Publish == \E s \in Sizes : ends' = Append(ends, End(Published) + s) /\ UNCHANGED <<cap, at>>

Move(l, n) == at' = [at EXCEPT ![l] = n] /\ UNCHANGED <<cap, ends>>

JoinBurst(l) == at[l] = Out /\ cap > 0 /\ \E k \in 0..Published : IsBurst(k) /\ Move(l, k)
JoinLive(l)  == at[l] = Out /\ Move(l, Published)

Deliver(l) == at[l] # Out /\ at[l] < Published /\ Move(l, at[l] + 1)

\* A listener more than Ring packets behind loses the overwritten ones.
Lag(l) == at[l] # Out /\ Published - at[l] > Ring /\ Move(l, Published - Ring)

Leave(l) == at[l] # Out /\ Move(l, Out)

StreamNext ==
  \/ Publish
  \/ \E l \in Listeners : JoinBurst(l) \/ JoinLive(l) \/ Deliver(l) \/ Lag(l) \/ Leave(l)

StreamSpec == StreamInit /\ [][StreamNext]_svars
=============================================================================
