---------------------------- MODULE BroadcastBus ----------------------------
(***************************************************************************)
(* TokioBroadcastBus (rustyice-server/src/bus.rs): the bus of one mount.   *)
(* A publisher and the listeners share a broadcast channel, which keeps    *)
(* the last Ring packets, and a history of recent packets replayed to new  *)
(* listeners.  One mutex guards the history and, with it, the moment a     *)
(* packet is sent and the moment a receiver is created; receivers read the *)
(* channel without it.  Packets are numbered in the order they are sent.   *)
(***************************************************************************)
EXTENDS Integers, Sequences

CONSTANTS
  Listeners,
  Sizes,     \* packet sizes, in bytes
  Caps,      \* burst sizes a mount may be configured with
  Ring,      \* ring_capacity
  MaxPackets,\* bound of the model: packets published
  Out

ASSUME BusAssumption ==
  /\ Sizes \subseteq Nat \ {0}
  /\ Caps \subseteq Nat
  /\ Ring \in Nat \ {0}
  /\ Out \notin Nat
  /\ "publisher" \notin Listeners /\ "free" \notin Listeners

VARIABLES
  cap,  \* burst_bytes_cap
  ends, \* packet n ends at byte ends[n] of the mount's stream
  hist, \* HistoryRing.packets
  bytes,\* HistoryRing.bytes
  lock, \* who holds the history mutex
  pub,  \* the next statement of publish
  lpc,  \* the state of every listener's subscription
  acc,  \* acc of the subscribe that holds the lock
  snap, \* listener -> what is left of its snapshot
  next  \* listener -> packets its receiver is past

vars == <<cap, ends, hist, bytes, lock, pub, lpc, acc, snap, next>>

Sent == Len(ends)
End(n) == IF n = 0 THEN 0 ELSE ends[n]
Size(n) == End(n) - End(n - 1)   \* packet_bytes

Init ==
  /\ cap \in Caps
  /\ ends = <<>> /\ hist = <<>> /\ bytes = 0
  /\ lock = "free" /\ pub = "send" /\ acc = 0
  /\ lpc = [l \in Listeners |-> "out"]
  /\ snap = [l \in Listeners |-> <<>>]
  /\ next = [l \in Listeners |-> 0]

-----------------------------------------------------------------------------
(* publish: send, push_back and the evictions, all under the lock.         *)

Send ==
  /\ Sent < MaxPackets
  /\ pub = "send" /\ lock = "free"
  /\ pub' = "push" /\ lock' = "publisher"
  /\ \E s \in Sizes : ends' = Append(ends, End(Sent) + s)
  /\ UNCHANGED <<cap, hist, bytes, lpc, acc, snap, next>>

Push ==
  /\ pub = "push" /\ pub' = "evict"
  /\ hist' = Append(hist, Sent)
  /\ bytes' = bytes + Size(Sent)
  /\ UNCHANGED <<cap, ends, lock, lpc, acc, snap, next>>

OverCap == bytes > cap /\ Len(hist) > 1

Evict ==
  /\ pub = "evict" /\ OverCap
  /\ hist' = Tail(hist)
  /\ bytes' = bytes - Size(Head(hist))
  /\ UNCHANGED <<cap, ends, lock, pub, lpc, acc, snap, next>>

PublishDone ==
  /\ pub = "evict" /\ ~OverCap
  /\ pub' = "send" /\ lock' = "free"
  /\ UNCHANGED <<cap, ends, hist, bytes, lpc, acc, snap, next>>

-----------------------------------------------------------------------------
(* subscribe and subscribe_live.                                           *)

\* Mutant of SubscribeReceiver: it does not wait for the lock.
SubscribeUnlocked(l) ==
  /\ lpc[l] = "out"
  /\ next' = [next EXCEPT ![l] = Sent]
  /\ acc' = 0
  /\ lpc' = [lpc EXCEPT ![l] = "walk"] /\ lock' = l
  /\ UNCHANGED <<cap, ends, hist, bytes, pub, snap>>

\* The lock is taken and the receiver created; with a burst of 0 bytes the
\* stream is the receiver alone.
SubscribeReceiver(l) ==
  /\ lpc[l] = "out" /\ lock = "free"
  /\ next' = [next EXCEPT ![l] = Sent]
  /\ acc' = 0
  /\ IF cap = 0 THEN lpc' = [lpc EXCEPT ![l] = "on"] /\ UNCHANGED lock
                ELSE lpc' = [lpc EXCEPT ![l] = "walk"] /\ lock' = l
  /\ UNCHANGED <<cap, ends, hist, bytes, pub, snap>>

\* One turn of the walk from the back of the history; the packet it looks at.
Candidate(l) == hist[Len(hist) - Len(snap[l])]

\* Mutant of WalkGoesOn: a burst of exactly cap bytes is cut short.
WalkStopsShort(l) ==
  /\ acc < cap
  /\ Len(snap[l]) < Len(hist)
  /\ acc + Size(Candidate(l)) < cap \/ snap[l] = <<>>

WalkGoesOn(l) ==
  /\ acc < cap
  /\ Len(snap[l]) < Len(hist)
  /\ acc + Size(Candidate(l)) <= cap \/ snap[l] = <<>>

WalkTake(l) ==
  /\ lpc[l] = "walk" /\ WalkGoesOn(l)
  /\ acc' = acc + Size(Candidate(l))
  /\ snap' = [snap EXCEPT ![l] = <<Candidate(l)>> \o @]
  /\ UNCHANGED <<cap, ends, hist, bytes, lock, pub, lpc, next>>

\* Mutant of WalkDone: the returned stream keeps the guard alive.
WalkKeepsLock(l) ==
  /\ lpc[l] = "walk" /\ ~WalkGoesOn(l)
  /\ lpc' = [lpc EXCEPT ![l] = "on"]
  /\ UNCHANGED <<cap, ends, hist, bytes, lock, pub, acc, snap, next>>

WalkDone(l) ==
  /\ lpc[l] = "walk" /\ ~WalkGoesOn(l)
  /\ lpc' = [lpc EXCEPT ![l] = "on"] /\ lock' = "free"
  /\ UNCHANGED <<cap, ends, hist, bytes, pub, acc, snap, next>>

SubscribeLive(l) ==
  /\ lpc[l] = "out" /\ lock = "free"
  /\ next' = [next EXCEPT ![l] = Sent]
  /\ lpc' = [lpc EXCEPT ![l] = "on"]
  /\ UNCHANGED <<cap, ends, hist, bytes, lock, pub, acc, snap>>

-----------------------------------------------------------------------------
(* The stream a listener polls: its snapshot, then its receiver.           *)

Replay(l) ==
  /\ lpc[l] = "on" /\ snap[l] # <<>>
  /\ snap' = [snap EXCEPT ![l] = Tail(@)]
  /\ UNCHANGED <<cap, ends, hist, bytes, lock, pub, lpc, acc, next>>

Overwritten(l) == Sent - next[l] > Ring

Receive(l) ==
  /\ lpc[l] = "on" /\ snap[l] = <<>>
  /\ next[l] < Sent /\ ~Overwritten(l)
  /\ next' = [next EXCEPT ![l] = @ + 1]
  /\ UNCHANGED <<cap, ends, hist, bytes, lock, pub, lpc, acc, snap>>

\* RecvError::Lagged: the receiver moves to the oldest packet kept.
Lagged(l) ==
  /\ lpc[l] = "on" /\ snap[l] = <<>> /\ Overwritten(l)
  /\ next' = [next EXCEPT ![l] = Sent - Ring]
  /\ UNCHANGED <<cap, ends, hist, bytes, lock, pub, lpc, acc, snap>>

Unsubscribe(l) ==
  /\ lpc[l] = "on"
  /\ lpc' = [lpc EXCEPT ![l] = "out"]
  /\ snap' = [snap EXCEPT ![l] = <<>>]
  /\ UNCHANGED <<cap, ends, hist, bytes, lock, pub, acc, next>>

ListenerStep(l) ==
  \/ SubscribeReceiver(l) \/ WalkTake(l) \/ WalkDone(l) \/ SubscribeLive(l)
  \/ Replay(l) \/ Receive(l) \/ Lagged(l) \/ Unsubscribe(l)

PublisherStep == Send \/ Push \/ Evict \/ PublishDone

Next == PublisherStep \/ \E l \in Listeners : ListenerStep(l)

\* Whoever holds the mutex runs on; nobody has to subscribe, publish or read.
Fairness ==
  /\ WF_vars(Push \/ Evict \/ PublishDone)
  /\ \A l \in Listeners : WF_vars(WalkTake(l) \/ WalkDone(l))

SafetySpec == Init /\ [][Next]_vars
Spec == SafetySpec /\ Fairness

-----------------------------------------------------------------------------
(* Properties.                                                             *)

\* The type invariant.
TypeOK ==
  /\ cap \in Caps
  /\ ends \in Seq(Nat) /\ hist \in Seq(Nat) /\ bytes \in Nat /\ acc \in Nat
  /\ lock \in {"free", "publisher"} \cup Listeners
  /\ pub \in {"send", "push", "evict"}
  /\ lpc \in [Listeners -> {"out", "walk", "on"}]
  /\ snap \in [Listeners -> Seq(Nat)]
  /\ next \in [Listeners -> Nat]

\* A lock holder is where it says it is.
LockHeld ==
  /\ lock = "publisher" <=> pub # "send"
  /\ \A l \in Listeners : lpc[l] = "walk" <=> lock = l

\* Byte offsets grow.
EndsGrow == \A m, n \in 0..Sent : m < n => End(m) < End(n)

\* The packets the history has to hold, all but the one just sent.
Stored == IF pub = "push" THEN Sent - 1 ELSE Sent
HistFirst == Stored - Len(hist)   \* the history starts after this packet

\* The history is the end of what was published, without gaps, its running
\* total is exact, and it reaches as far back as the cap allows: what
\* subscribe relies on (bus.rs:18-22).
HistoryExact ==
  /\ Len(hist) <= Stored
  /\ \A i \in 1..Len(hist) : hist[i] = HistFirst + i
  /\ bytes = End(Stored) - End(HistFirst)
  /\ Stored > 0 => Len(hist) > 0
  /\ HistFirst > 0 => End(Stored) - End(HistFirst - 1) > cap
  /\ pub # "evict" => bytes <= cap \/ Len(hist) <= 1

\* A snapshot runs up to the packet its receiver starts with: no gap and no
\* duplicate between the two (bus.rs:71-74).
SnapshotContiguous ==
  \A l \in Listeners :
    /\ Len(snap[l]) <= next[l] /\ next[l] <= Sent
    /\ \A i \in 1..Len(snap[l]) : snap[l][i] = next[l] - Len(snap[l]) + i
    /\ lpc[l] = "out" => snap[l] = <<>>

\* The walk under the lock has taken the last packets of the history.
WalkExact ==
  \A l \in Listeners : lpc[l] = "walk" =>
    /\ cap > 0
    /\ next[l] = Sent /\ Len(snap[l]) <= Len(hist)
    /\ acc = End(Sent) - End(Sent - Len(snap[l]))

\* The inductive invariant.
BusInv == TypeOK /\ LockHeld /\ EndsGrow /\ HistoryExact /\ SnapshotContiguous /\ WalkExact

\* The refinement mapping: a listener's place in the stream is where its next
\* packet comes from, the rest of its snapshot or the channel.
At(l) == IF lpc[l] # "on" THEN Out
         ELSE IF snap[l] # <<>> THEN snap[l][1] - 1 ELSE next[l]
at == [l \in Listeners |-> At(l)]

Stream == INSTANCE PacketStream WITH cap <- cap, ends <- ends, at <- at

\* The bus keeps the promise of PacketStream: however publishing, subscribing
\* and reading interleave, a listener gets the longest burst the cap allows
\* and then each packet once, in order, save those it was too slow for.
StreamKept == Stream!StreamSpec

\* publish never waits for a listener: whatever listeners do, even stop
\* reading, the lock is given back.
PublisherNeverBlocked == lock # "free" ~> lock = "free"
=============================================================================
