-------------------------- MODULE HeaderJoinProofs --------------------------
(***************************************************************************)
(* Proofs about HeaderJoin, for any listeners, kinds of sources, bounds    *)
(* and cutting of the streams into packets, and for bursts that hold what  *)
(* the header capture may collect.                                         *)
(***************************************************************************)
EXTENDS HeaderJoin, WellFoundedInduction, TLAPS

\* Chains follow each other, and the parts of a chain, without a gap.
FeedOK ==
  /\ Len(feed) <= MaxPackets
  /\ phase # "fresh" => Len(feed) >= 1
  /\ \A j \in 1..Len(feed) :
       /\ \A i \in 1..(j - 1) : feed[i].chain <= feed[j].chain
       /\ j > 1 /\ feed[j].chain = feed[j - 1].chain =>
            feed[j].first = NextPart(feed[j - 1].last)

\* The capture has all the source emitted, from the first part of its headers
\* on, and no more than its buffer holds; headers are stored behind audio.
CaptureOK ==
  /\ phase = "on" /\ capt # None =>
       /\ End(Latest) - capt.at <= MaxHeaderBuffer
       /\ \E i \in 1..Len(feed) : feed[i].at = capt.at /\ Opens(feed[i], capt.chain)
  /\ header # None =>
       /\ header <= Latest.chain
       /\ header = Latest.chain => Latest.last = Audio

\* Decoders start with nothing; a prefix is written only if there is one.
DecodersOff ==
  \A l \in Listeners :
    /\ pc[l] # "stream" => has[l] = Untuned /\ fault[l] = "no"
    /\ pc[l] = "prefix" => snap[l] # None

\* The headers a listener has, or will be written first.
Tuned(l) == IF pc[l] = "stream" THEN has[l]
            ELSE IF snap[l] # None THEN Full(snap[l]) ELSE Untuned

\* By packet n at the latest l has, or is getting, the headers of chain c.
Opened(l, c, n) == Tuned(l).chain = c \/ \E i \in from[l]..n : Opens(feed[i], c)

\* What l has still to read is not older than the headers it has, goes on
\* behind their last part, and opens every chain it cannot take for noise.
Follows(l) ==
  /\ fault[l] = "no" /\ from[l] <= Len(feed) + 1
  /\ Tuned(l).chain <= Latest.chain
  /\ \A j \in from[l]..Len(feed) :
       /\ feed[j].chain >= Tuned(l).chain
       /\ feed[j].chain >= airs[l] => Opened(l, feed[j].chain, j)
  /\ Latest.chain >= airs[l] => Opened(l, Latest.chain, Len(feed))
  /\ Tuned(l).chain # 0 =>
       IF from[l] <= Len(feed)
       THEN feed[from[l]].chain = Tuned(l).chain => feed[from[l]].first = Tuned(l).upto + 1
       ELSE Latest.chain = Tuned(l).chain => NextPart(Latest.last) = Tuned(l).upto + 1

RightJoins ==
  \A l \in Listeners :
    pc[l] \in {"register", "prefix", "stream"} /\ found[l] = "right" => Follows(l)

JoinInv == TypeOK /\ FeedOK /\ CaptureOK /\ DecodersOff /\ RightJoins

USE JoinAssumption DEF Chains

\* A set of naturals that is not empty has a least element.
LEMMA Least ==
  ASSUME NEW T, T \subseteq Nat, T # {}
  PROVE  \E x \in T : \A y \in T : x <= y
<1>1. PICK x \in T : \A y \in T : ~ (<<y, x>> \in OpToRel(<, Nat))
  <2> DEFINE R == OpToRel(<, Nat)
  <2>1. IsWellFoundedOn(R, Nat)
    BY NatLessThanWellFounded
  <2> HIDE DEF R
  <2> QED
    BY <2>1, WFMin DEF R
<1>2. \A y \in T : ~(y < x)
  BY <1>1 DEF OpToRel
<1> QED
  BY <1>2

\* No part of a chain is followed by the first one.
LEMMA NoOpening ==
  ASSUME NEW n \in Nat, n >= 1
  PROVE  NextPart(n) # 1
<1>1. Audio \in Nat /\ Audio > 1
  BY DEF Audio
<1>2. n + 1 # 1
  OBVIOUS
<1> QED
  BY <1>1, <1>2 DEF NextPart

LEMMA PacketType ==
  ASSUME NEW p \in Packet
  PROVE  /\ p.chain \in Chains /\ p.chain \in Nat /\ p.chain >= 1 /\ p.at \in Nat
         /\ p.first \in Nat /\ p.last \in Nat
         /\ 1 <= p.first /\ p.first <= p.last /\ p.last <= Audio /\ Audio \in Nat
         /\ End(p) \in Nat
BY DEF Packet, Parts, Audio, Bytes, End

LEMMA FeedType ==
  ASSUME TypeOK
  PROVE  /\ feed \in Seq(Packet)
         /\ Len(feed) \in Nat /\ Len(stream) \in Nat /\ Len(stream) <= Len(feed)
         /\ Len(feed) <= Len(stream) + 1
         /\ \A j \in 1..Len(stream) : feed[j] = stream[j]
         /\ \A j \in 1..Len(feed) : feed[j] \in Packet
<1>1. CASE out = None
  BY <1>1 DEF TypeOK, feed
<1>2. CASE out # None
  <2>1. out \in Packet /\ stream \in Seq(Packet) /\ feed = Append(stream, out)
    BY <1>2 DEF TypeOK, feed
  <2> QED
    BY <2>1
<1> QED
  BY <1>1, <1>2

LEMMA LatestType ==
  ASSUME TypeOK
  PROVE  /\ Latest.chain \in 0..MaxChains /\ Latest.last \in Parts /\ Latest.last \in Nat
         /\ End(Latest) \in Int
         /\ Len(feed) >= 1 => Latest = feed[Len(feed)] /\ Latest.chain >= 1
         /\ Len(feed) = 0 => Latest.chain = 0 /\ Latest.last = Audio
<1>1. feed \in Seq(Packet) /\ \A j \in 1..Len(feed) : feed[j] \in Packet
  BY FeedType
<1>2. CASE feed = <<>>
  <2>1. Latest = [chain |-> 0, first |-> Audio, last |-> Audio, at |-> -1] /\ Len(feed) = 0
    BY <1>2 DEF Latest
  <2> QED
    BY <2>1 DEF Parts, Audio, End
<1>3. CASE feed # <<>>
  <2>1. Latest = feed[Len(feed)] /\ Len(feed) \in Nat /\ Len(feed) >= 1
    BY <1>1, <1>3 DEF Latest
  <2>2. Latest \in Packet
    BY <1>1, <2>1
  <2> QED
    BY <2>1, <2>2, PacketType DEF Packet, Parts
<1> QED
  BY <1>2, <1>3

\* Later packets are of later chains, and of the latest at most.
LEMMA FeedOrder ==
  ASSUME TypeOK, FeedOK
  PROVE  /\ \A j \in 1..Len(feed) : feed[j].chain <= Latest.chain
         /\ \A j \in 1..Len(feed) : \A i \in 1..j : feed[i].chain <= feed[j].chain
<1>1. /\ Len(feed) \in Nat /\ \A j \in 1..Len(feed) : feed[j].chain \in Nat
      /\ Len(feed) >= 1 => Latest = feed[Len(feed)]
  BY FeedType, LatestType, PacketType
<1>2. \A j \in 1..Len(feed) : \A i \in 1..j : feed[i].chain <= feed[j].chain
  <2> SUFFICES ASSUME NEW j \in 1..Len(feed), NEW i \in 1..j
               PROVE  feed[i].chain <= feed[j].chain
    OBVIOUS
  <2>1. CASE i = j
    BY <2>1, <1>1
  <2>2. CASE i # j
    <3>1. i \in 1..(j - 1)
      BY <2>2, <1>1
    <3> QED
      BY <3>1 DEF FeedOK
  <2> QED
    BY <2>1, <2>2
<1>3. \A j \in 1..Len(feed) : feed[j].chain <= Latest.chain
  <2> SUFFICES ASSUME NEW j \in 1..Len(feed) PROVE feed[j].chain <= Latest.chain
    OBVIOUS
  <2>1. Len(feed) \in 1..Len(feed) /\ j \in 1..Len(feed)
    BY <1>1
  <2> QED
    BY <2>1, <1>1, <1>2
<1> QED
  BY <1>2, <1>3

LEMMA TunedType ==
  ASSUME TypeOK, NEW l \in Listeners
  PROVE  /\ Tuned(l) \in [chain : 0..MaxChains, upto : 0..HeaderParts]
         /\ Tuned(l).chain \in Nat /\ Tuned(l).upto \in Nat
         /\ airs[l] \in Nat /\ from[l] \in Nat /\ from[l] >= 1
<1>1. /\ has[l] \in [chain : 0..MaxChains, upto : 0..HeaderParts]
      /\ snap[l] \in Chains \cup {None}
      /\ airs[l] \in Nat /\ from[l] \in Nat /\ from[l] >= 1
  BY DEF TypeOK
<1>2. /\ snap[l] \in Chains => Full(snap[l]) \in [chain : 0..MaxChains, upto : 0..HeaderParts]
      /\ Untuned \in [chain : 0..MaxChains, upto : 0..HeaderParts]
  BY DEF Full, Untuned, Heads
<1>3. Tuned(l) \in [chain : 0..MaxChains, upto : 0..HeaderParts]
  BY <1>1, <1>2 DEF Tuned
<1> QED
  BY <1>1, <1>3

LEMMA InitInv == Init => JoinInv
<1> SUFFICES ASSUME Init PROVE JoinInv
  OBVIOUS
<1>1. TypeOK
  BY DEF Init, TypeOK, PCs, Untuned, Heads
<1>2. feed = <<>> /\ Len(feed) = 0
  BY DEF Init, feed
<1>3. FeedOK /\ CaptureOK
  BY <1>2 DEF Init, FeedOK, CaptureOK
<1>4. DecodersOff /\ RightJoins
  BY DEF Init, DecodersOff, RightJoins
<1> QED
  BY <1>1, <1>3, <1>4 DEF JoinInv

\* Steps that emit nothing and leave a listener where it is.
LEMMA FollowsKept ==
  ASSUME NEW l \in Listeners, Follows(l), feed' = feed,
         from'[l] = from[l], airs'[l] = airs[l], fault'[l] = fault[l],
         Tuned(l)' = Tuned(l)
  PROVE  Follows(l)'
<1>1. Latest' = Latest
  BY DEF Latest
<1> QED
  BY <1>1 DEF Follows, Opened, Opens

LEMMA JoinsKept ==
  ASSUME RightJoins, feed' = feed,
         UNCHANGED <<pc, snap, from, airs, found, has, fault>>
  PROVE  RightJoins'
<1> SUFFICES ASSUME NEW l \in Listeners,
                    pc[l] \in {"register", "prefix", "stream"}, found[l] = "right"
             PROVE  Follows(l)'
  BY DEF RightJoins
<1>1. Follows(l)
  BY DEF RightJoins
<1>2. Tuned(l)' = Tuned(l)
  BY DEF Tuned
<1> QED
  BY <1>1, <1>2, FollowsKept

\* Steps of a listener leave the source's part of the invariant alone.
LEMMA SourceKept ==
  ASSUME FeedOK, CaptureOK, UNCHANGED sourceVars
  PROVE  feed' = feed /\ Latest' = Latest /\ FeedOK' /\ CaptureOK'
<1>1. feed' = feed /\ UNCHANGED <<phase, capt, header>>
  BY DEF feed, sourceVars
<1>2. Latest' = Latest
  BY <1>1 DEF Latest
<1> QED
  BY <1>1, <1>2 DEF FeedOK, CaptureOK, Opens

-----------------------------------------------------------------------------
(* The listeners.                                                          *)

LEMMA LoadHeaderKeeps ==
  ASSUME JoinInv, NEW l \in Listeners, LoadHeader(l)
  PROVE  JoinInv'
<1> USE DEF LoadHeader, Go
<1>1. TypeOK'
  BY DEF JoinInv, TypeOK, PCs, sourceVars
<1>2. feed' = feed /\ FeedOK' /\ CaptureOK'
  BY SourceKept DEF JoinInv
<1>4. DecodersOff'
  BY DEF JoinInv, TypeOK, DecodersOff
<1>5. RightJoins'
  <2> SUFFICES ASSUME NEW k \in Listeners,
                      pc'[k] \in {"register", "prefix", "stream"}, found[k] = "right"
               PROVE  Follows(k)'
    BY DEF RightJoins
  <2>1. k # l /\ pc'[k] = pc[k] /\ snap'[k] = snap[k]
    BY DEF JoinInv, TypeOK
  <2>2. Follows(k)
    BY <2>1 DEF JoinInv, RightJoins
  <2>3. Tuned(k)' = Tuned(k)
    BY <2>1 DEF Tuned
  <2> QED
    BY <1>2, <2>2, <2>3, FollowsKept
<1> QED
  BY <1>1, <1>2, <1>4, <1>5 DEF JoinInv

\* What the handler finds on the bus.
LEMMA BurstType ==
  ASSUME TypeOK
  PROVE  /\ BurstStart \in 1..(Len(stream) + 1)
         /\ \A i \in 1..Len(stream) :
              Burst # 0 /\ End(stream[Len(stream)]) - stream[i].at <= Burst => BurstStart <= i
<1> DEFINE fits == {i \in 1..Len(stream) : End(stream[Len(stream)]) - stream[i].at <= Burst}
<1>1. Len(stream) \in Nat
  BY FeedType
<1>2. CASE Burst = 0 \/ stream = <<>>
  <2>1. BurstStart = Len(stream) + 1
    BY <1>2 DEF BurstStart
  <2> QED
    BY <1>1, <1>2, <2>1 DEF TypeOK
<1>3. CASE Burst # 0 /\ stream # <<>> /\ fits = {}
  <2>1. BurstStart = Len(stream) /\ Len(stream) >= 1
    BY <1>3, <1>1 DEF BurstStart, TypeOK
  <2> QED
    BY <1>1, <1>3, <2>1
<1>4. CASE Burst # 0 /\ stream # <<>> /\ fits # {}
  <2>1. BurstStart = CHOOSE i \in fits : \A j \in fits : i <= j
    BY <1>4 DEF BurstStart
  <2>2. fits \subseteq Nat /\ fits \subseteq 1..Len(stream)
    BY <1>1
  <2>3. \E i \in fits : \A j \in fits : i <= j
    <3> HIDE DEF fits
    <3> QED
      BY <1>4, <2>2, Least
  <2>4. BurstStart \in fits /\ \A j \in fits : BurstStart <= j
    <3> HIDE DEF fits
    <3> QED
      BY <2>1, <2>3
  <2> QED
    BY <1>1, <2>2, <2>4
<1> QED
  BY <1>2, <1>3, <1>4

\* The burst holds all a header capture may collect, as it does by default.
BurstHoldsHeaders == MaxHeaderBuffer <= Burst

\* While the headers are collected, a burst has them.
LEMMA CollectedInBurst ==
  ASSUME JoinInv, BurstHoldsHeaders, out = None, Collecting
  PROVE  HeadersInBurst
<1>1. feed = stream /\ Len(stream) \in Nat
  BY FeedType DEF feed, JoinInv
<1>2. /\ End(Latest) - capt.at <= MaxHeaderBuffer
      /\ Latest.chain = capt.chain /\ Len(feed) >= 1
  BY DEF JoinInv, CaptureOK, FeedOK, Collecting
<1>3. PICK i \in 1..Len(feed) : feed[i].at = capt.at /\ Opens(feed[i], capt.chain)
  BY DEF JoinInv, CaptureOK, Collecting
<1>4. Latest = stream[Len(stream)] /\ End(Latest) \in Int
  BY <1>1, <1>2, LatestType DEF JoinInv
<1>5. stream[i].at \in Nat /\ stream[i].at = capt.at
  BY <1>1, <1>3, FeedType, PacketType DEF JoinInv
<1>6. End(stream[Len(stream)]) - stream[i].at <= Burst
  BY <1>2, <1>4, <1>5 DEF BurstHoldsHeaders
<1>7. BurstStart <= i /\ BurstStart \in 1..(Len(stream) + 1)
  BY <1>1, <1>3, <1>6, BurstType DEF BurstHoldsHeaders, JoinInv
<1>8. i \in BurstStart..Len(stream)
  BY <1>1, <1>3, <1>7
<1> QED
  BY <1>1, <1>2, <1>3, <1>8 DEF HeadersInBurst

\* A handler that finds header_bytes right starts where it can decode.
LEMMA StartsRight ==
  ASSUME JoinInv, BurstHoldsHeaders, NEW l \in Listeners, Subscribe(l),
         found'[l] = "right"
  PROVE  Follows(l)'
<1> USE DEF Go, joinVars
<1>1. /\ feed' = feed /\ Latest' = Latest
      /\ snap' = snap /\ pc'[l] = "register"
  BY SourceKept DEF Subscribe, JoinInv, TypeOK
<1>2. snap[l] = header /\ out = None /\ HeaderRight /\ feed = stream
  BY DEF Subscribe, JoinInv, TypeOK, feed
<1>3. fault'[l] = "no"
  BY DEF Subscribe, JoinInv, DecodersOff
<1>4. /\ Latest.chain \in Nat /\ Len(feed) \in Nat
      /\ \A j \in 1..Len(feed) : feed[j].chain \in Nat /\ feed[j].chain <= Latest.chain
  BY FeedType, LatestType, FeedOrder, PacketType DEF JoinInv
<1>5. airs'[l] = IF OnAir THEN Latest.chain ELSE Latest.chain + 1
  BY DEF Subscribe, JoinInv, TypeOK
<1>6. CASE header = Latest.chain
  <2>1. from'[l] = Len(feed) + 1
    BY <1>2, <1>4, <1>6 DEF Subscribe, JoinInv, TypeOK
  <2>2. Tuned(l)' = Full(Latest.chain) /\ Full(Latest.chain).chain = Latest.chain
        /\ Full(Latest.chain).upto = HeaderParts
    BY <1>1, <1>2, <1>4, <1>6 DEF Tuned, Full, Heads
  <2>3. Latest.last = Audio /\ NextPart(Latest.last) = HeaderParts + 1
    BY <1>4, <1>6 DEF JoinInv, CaptureOK, NextPart, Audio
  <2>4. Opened(l, Latest.chain, Len(feed))'
    BY <1>1, <2>2 DEF Opened
  <2>5. ~(from'[l] <= Len(feed)) /\ from'[l] <= Len(feed) + 1
    BY <1>4, <2>1
  <2>6. \A j \in from'[l]..Len(feed) : FALSE
    BY <1>4, <2>1
  <2> QED
    BY <1>1, <1>3, <1>4, <2>2, <2>3, <2>4, <2>5, <2>6 DEF Follows
<1>7. CASE header = None /\ (OnAir => HeadersInBurst)
  <2>1. from'[l] = BurstStart /\ BurstStart \in 1..(Len(feed) + 1)
    BY <1>2, <1>7, BurstType DEF Subscribe, JoinInv, TypeOK
  <2>2. Tuned(l)' = Untuned /\ Untuned.chain = 0
    BY <1>1, <1>2, <1>7 DEF Tuned, Untuned, Heads
  <2>3. CASE ~OnAir
    BY <1>1, <1>3, <1>4, <1>5, <2>1, <2>2, <2>3, SMTT(20) DEF Follows
  <2>4. CASE OnAir
    <3>1. PICK i \in BurstStart..Len(feed) : Opens(feed[i], Latest.chain)
      BY <1>2, <1>7, <2>4 DEF HeadersInBurst
    <3>2. /\ Len(feed) >= 1 /\ \A j \in 1..Len(feed) : feed[j] \in Packet
          /\ \A j \in 1..Len(feed) : \A k \in 1..j : feed[k].chain <= feed[j].chain
          /\ \A j \in 2..Len(feed) : feed[j].chain = feed[j - 1].chain =>
               feed[j].first = NextPart(feed[j - 1].last)
      <4>1. Len(feed) >= 1
        BY <2>1, <3>1, <1>4
      <4>2. \A j \in 2..Len(feed) : j \in 1..Len(feed) /\ j > 1
        BY <1>4
      <4> QED
        BY <4>1, <4>2, FeedType, FeedOrder DEF JoinInv, FeedOK
    <3>3. ASSUME NEW j \in BurstStart..Len(feed), feed[j].chain >= Latest.chain
          PROVE  i <= j
      <4>1. SUFFICES ASSUME j < i PROVE FALSE
        BY <2>1, <1>4
      <4>2. /\ i \in 2..Len(feed) /\ j \in 1..(i - 1) /\ i - 1 \in 1..Len(feed) /\ j \in 1..Len(feed)
        BY <2>1, <1>4, <4>1
      <4>3. feed[i - 1].chain = Latest.chain
        <5>1. feed[j].chain <= feed[i - 1].chain /\ feed[i - 1].chain <= feed[i].chain
          <6>1. j \in 1..(i - 1) /\ i - 1 \in 1..i /\ i \in 1..Len(feed)
            BY <4>2
          <6> QED
            BY <6>1, <3>2, <4>2
        <5>2. /\ feed[i - 1].chain \in Nat /\ feed[i].chain = Latest.chain
              /\ feed[j].chain \in Nat /\ Latest.chain \in Nat
          BY <3>1, <3>2, <4>2, <1>4, PacketType DEF Opens
        <5> QED
          BY <5>1, <5>2, <3>3, SMTT(20)
      <4>4. feed[i].first = NextPart(feed[i - 1].last) /\ feed[i].first = 1
        <5>1. feed[i].chain = feed[i - 1].chain /\ feed[i].first = 1
          BY <3>1, <4>3 DEF Opens
        <5> QED
          BY <3>2, <4>2, <5>1
      <4>5. feed[i - 1].last \in Nat /\ feed[i - 1].last >= 1 /\ Audio \in Nat /\ Audio > 1
        <5>1. feed[i - 1] \in Packet
          BY <3>2, <4>2
        <5>2. Audio \in Nat /\ Audio > 1
          BY DEF Audio
        <5>3. /\ feed[i - 1].last \in Nat /\ feed[i - 1].first \in Nat
              /\ 1 <= feed[i - 1].first /\ feed[i - 1].first <= feed[i - 1].last
          BY <5>1, PacketType, Zenon
        <5> QED
          BY <5>2, <5>3
      <4>6. NextPart(feed[i - 1].last) # 1
        BY <4>5, NoOpening
      <4> QED
        BY <4>4, <4>6
    <3>4. airs'[l] = Latest.chain
      BY <1>5, <2>4
    <3>5. \A j \in from'[l]..Len(feed) : feed[j].chain >= airs'[l] => Opened(l, feed[j].chain, j)'
      <4> SUFFICES ASSUME NEW j \in BurstStart..Len(feed), feed[j].chain >= Latest.chain
                   PROVE  Opened(l, feed[j].chain, j)'
        BY <2>1, <3>4
      <4>1. i <= j /\ feed[j].chain = Latest.chain
        BY <3>3, <1>4, <2>1
      <4>2. i \in BurstStart..j
        BY <4>1, <2>1, <1>4
      <4> QED
        BY <1>1, <2>1, <3>1, <4>1, <4>2 DEF Opened, Opens
    <3>6. Opened(l, Latest.chain, Len(feed))'
      BY <1>1, <2>1, <3>1 DEF Opened, Opens
    <3> QED
      BY <1>1, <1>3, <1>4, <2>1, <2>2, <3>5, <3>6 DEF Follows
  <2> QED
    BY <2>3, <2>4
<1> QED
  BY <1>2, <1>6, <1>7, CollectedInBurst DEF HeaderRight

LEMMA SubscribeKeeps ==
  ASSUME JoinInv, BurstHoldsHeaders, NEW l \in Listeners, Subscribe(l)
  PROVE  JoinInv'
<1> USE DEF Go, joinVars
<1>1. TypeOK'
  <2>1. /\ BurstStart \in 1..(MaxPackets + 1) /\ Len(stream) + 1 \in 1..(MaxPackets + 1)
        /\ Latest.chain + 1 \in 1..(MaxChains + 1)
    <3>1. /\ BurstStart \in 1..(Len(stream) + 1) /\ Len(stream) \in Nat
          /\ Latest.chain \in 0..MaxChains
      BY BurstType, FeedType, LatestType DEF JoinInv
    <3>2. Len(stream) <= MaxPackets
      BY DEF JoinInv, TypeOK
    <3> QED
      BY <3>1, <3>2, SMTT(20)
  <2>2. OnAir => Latest.chain \in 1..(MaxChains + 1)
    <3>1. OnAir => Len(feed) >= 1
      BY DEF JoinInv, FeedOK, OnAir
    <3>2. Latest.chain \in 0..MaxChains /\ (Len(feed) >= 1 => Latest.chain >= 1)
      BY LatestType DEF JoinInv
    <3> QED
      BY <3>1, <3>2
  <2>3. from' \in [Listeners -> 1..(MaxPackets + 1)]
    BY <2>1 DEF JoinInv, TypeOK, Subscribe
  <2>4. airs' \in [Listeners -> 1..(MaxChains + 1)]
    BY <2>1, <2>2 DEF JoinInv, TypeOK, Subscribe
  <2>5. found' \in [Listeners -> {"right", "stale", "raced"}] /\ pc' \in [Listeners -> PCs]
    BY DEF JoinInv, TypeOK, Subscribe, PCs
  <2> QED
    BY <2>3, <2>4, <2>5 DEF JoinInv, TypeOK, Subscribe, sourceVars
<1>2. feed' = feed /\ FeedOK' /\ CaptureOK'
  BY SourceKept DEF JoinInv, Subscribe
<1>4. DecodersOff'
  BY DEF JoinInv, TypeOK, DecodersOff, Subscribe
<1>5. RightJoins'
  <2> SUFFICES ASSUME NEW k \in Listeners,
                      pc'[k] \in {"register", "prefix", "stream"}, found'[k] = "right"
               PROVE  Follows(k)'
    BY DEF RightJoins
  <2>1. CASE k = l
    BY <2>1, StartsRight
  <2>2. CASE k # l
    <3>1. /\ pc'[k] = pc[k] /\ snap'[k] = snap[k] /\ from'[k] = from[k]
          /\ airs'[k] = airs[k] /\ found'[k] = found[k]
          /\ fault'[k] = fault[k] /\ has'[k] = has[k]
      BY <2>2 DEF JoinInv, TypeOK, Subscribe
    <3>2. Follows(k)
      BY <3>1 DEF JoinInv, RightJoins
    <3>3. Tuned(k)' = Tuned(k)
      BY <3>1 DEF Tuned
    <3> QED
      BY <1>2, <3>1, <3>2, <3>3, FollowsKept
  <2> QED
    BY <2>1, <2>2
<1> QED
  BY <1>1, <1>2, <1>4, <1>5 DEF JoinInv

LEMMA RegisterKeeps ==
  ASSUME JoinInv, NEW l \in Listeners, Register(l)
  PROVE  JoinInv'
<1> USE DEF Register, Go, joinVars
<1>1. TypeOK'
  BY DEF JoinInv, TypeOK, PCs, sourceVars
<1>2. feed' = feed /\ FeedOK' /\ CaptureOK'
  BY SourceKept DEF JoinInv
<1>4. DecodersOff'
  BY DEF JoinInv, TypeOK, DecodersOff
<1>5. RightJoins'
  <2> SUFFICES ASSUME NEW k \in Listeners,
                      pc'[k] \in {"register", "prefix", "stream"}, found[k] = "right"
               PROVE  Follows(k)'
    BY DEF RightJoins
  <2>1. Follows(k)
    BY DEF JoinInv, TypeOK, RightJoins
  <2>2. Tuned(k)' = Tuned(k)
    BY DEF JoinInv, TypeOK, Tuned, DecodersOff
  <2> QED
    BY <1>2, <2>1, <2>2, FollowsKept
<1> QED
  BY <1>1, <1>2, <1>4, <1>5 DEF JoinInv

LEMMA WritePrefixKeeps ==
  ASSUME JoinInv, NEW l \in Listeners, WritePrefix(l)
  PROVE  JoinInv'
<1> USE DEF WritePrefix, Go, joinVars
<1>1. TypeOK'
  <2>1. Full(snap[l]) \in [chain : 0..MaxChains, upto : 0..HeaderParts]
    BY DEF JoinInv, TypeOK, Full, Heads, DecodersOff
  <2> QED
    BY <2>1 DEF JoinInv, TypeOK, PCs, sourceVars
<1>2. feed' = feed /\ FeedOK' /\ CaptureOK'
  BY SourceKept DEF JoinInv
<1>4. DecodersOff'
  BY DEF JoinInv, TypeOK, DecodersOff
<1>5. RightJoins'
  <2> SUFFICES ASSUME NEW k \in Listeners,
                      pc'[k] \in {"register", "prefix", "stream"}, found[k] = "right"
               PROVE  Follows(k)'
    BY DEF RightJoins
  <2>1. Follows(k)
    BY DEF JoinInv, TypeOK, RightJoins
  <2>2. Tuned(k)' = Tuned(k)
    BY DEF JoinInv, TypeOK, Tuned, DecodersOff
  <2> QED
    BY <1>2, <2>1, <2>2, FollowsKept
<1> QED
  BY <1>1, <1>2, <1>4, <1>5 DEF JoinInv

\* What a decoder has of the headers after a packet that goes on behind them.
LEMMA HeadersAfter ==
  ASSUME TypeOK, NEW l \in Listeners, NEW p \in Packet, pc[l] = "stream",
         has[l].chain <= p.chain,
         has[l].chain = p.chain => p.first = has[l].upto + 1
  PROVE  /\ Headers(l, p) \in [chain : 0..MaxChains, upto : 0..HeaderParts]
         /\ \/ Headers(l, p) = has[l] /\ p.first # 1 /\ has[l].chain # p.chain
            \/ Headers(l, p).chain = p.chain /\ NextPart(p.last) = Headers(l, p).upto + 1
         /\ Opens(p, p.chain) => Headers(l, p).chain = p.chain
<1>1. has[l] \in [chain : 0..MaxChains, upto : 0..HeaderParts]
  BY DEF TypeOK
<1>2. /\ p.chain \in 0..MaxChains /\ p.last \in Nat /\ p.first \in Nat /\ p.first >= 1
      /\ p.first <= p.last /\ p.last <= HeaderParts + 1
  BY PacketType DEF Audio
<1> DEFINE n == IF p.last = Audio THEN HeaderParts ELSE p.last
<1>3. n \in 0..HeaderParts /\ NextPart(p.last) = n + 1
  BY <1>2 DEF NextPart, Audio
<1>4. CASE p.first = 1 \/ (p.first < Audio /\ has[l] = Heads(p.chain, p.first - 1))
  <2>1. Headers(l, p) = Heads(p.chain, n)
    BY <1>4 DEF Headers
  <2> HIDE DEF n
  <2> QED
    BY <1>2, <1>3, <2>1 DEF Heads
<1>5. CASE ~(p.first = 1 \/ (p.first < Audio /\ has[l] = Heads(p.chain, p.first - 1)))
  <2>1. Headers(l, p) = has[l]
    BY <1>5 DEF Headers
  <2>2. CASE has[l].chain = p.chain
    <3>1. has[l] = Heads(p.chain, p.first - 1)
      BY <1>1, <1>2, <2>2 DEF Heads
    <3>2. p.first = HeaderParts + 1 /\ p.last = HeaderParts + 1
      BY <1>2, <1>5, <3>1 DEF Audio
    <3>3. has[l].upto = HeaderParts /\ n = HeaderParts
      BY <1>1, <2>2, <3>2 DEF Audio
    <3> QED
      BY <1>1, <1>3, <1>5, <2>1, <2>2, <3>3 DEF Opens
  <2> QED
    BY <1>1, <1>5, <2>1, <2>2 DEF Opens
<1> QED
  BY <1>4, <1>5

\* The packet a listener reads next does not disturb its decoder.
LEMMA ReceiveFollows ==
  ASSUME JoinInv, NEW l \in Listeners, Receive(l), Follows(l)
  PROVE  Follows(l)' /\ stream[from[l]] \in Packet
         /\ Headers(l, stream[from[l]]) \in [chain : 0..MaxChains, upto : 0..HeaderParts]
<1> DEFINE n == from[l]
           p == feed[n]
<1>1. /\ n \in 1..Len(feed) /\ from'[l] = n + 1 /\ p = stream[n] /\ p \in Packet
      /\ Len(feed) \in Nat /\ n \in Nat
  <2>1. /\ Len(feed) \in Nat /\ Len(stream) \in Nat /\ Len(stream) <= Len(feed)
        /\ \A j \in 1..Len(stream) : feed[j] = stream[j]
        /\ \A j \in 1..Len(feed) : feed[j] \in Packet
    BY FeedType, Zenon DEF JoinInv
  <2>2. n \in Nat /\ n >= 1
    BY TunedType DEF JoinInv
  <2>3. n <= Len(stream) /\ from'[l] = n + 1
    BY DEF Receive, JoinInv, TypeOK
  <2> QED
    BY <2>1, <2>2, <2>3
<1>2. /\ feed' = feed /\ Latest' = Latest /\ airs' = airs
      /\ pc' = pc /\ pc[l] = "stream"
  BY SourceKept DEF Receive, JoinInv
<1>3. Tuned(l) = has[l] /\ Tuned(l)' = has'[l] /\ has[l].chain \in Nat /\ airs[l] \in Nat
  BY <1>2, TunedType DEF Tuned, JoinInv
<1>4. /\ \A j \in 1..Len(feed) : feed[j].chain \in Nat /\ feed[j].chain <= Latest.chain
      /\ \A j \in 1..Len(feed) : \A i \in 1..j : feed[i].chain <= feed[j].chain
      /\ Latest.chain \in Nat
  <2>1. TypeOK /\ FeedOK
    BY DEF JoinInv
  <2>2. \A j \in 1..Len(feed) : feed[j].chain \in Nat
    BY <2>1, FeedType, PacketType
  <2>3. Latest.chain \in Nat
    BY <2>1, LatestType
  <2> QED
    BY <2>1, <2>2, <2>3, FeedOrder
<1>5. /\ p.chain \in Nat /\ p.chain >= 1 /\ p.chain <= Latest.chain
      /\ p.first \in Nat /\ p.last \in Nat /\ p.last \in 1..Audio /\ p.first <= p.last
  <2>1. feed[n].chain <= Latest.chain
    BY <1>1, <1>4
  <2> HIDE DEF p
  <2>2. p.chain \in Nat /\ p.chain >= 1 /\ p.first \in Nat /\ p.last \in Nat
        /\ 1 <= p.first /\ p.first <= p.last /\ p.last <= Audio /\ Audio \in Nat
    BY <1>1, PacketType
  <2>3. p.chain <= Latest.chain
    BY <2>1 DEF p
  <2> QED
    BY <2>2, <2>3
<1>6. /\ has[l].chain <= p.chain
      /\ has[l].chain = p.chain => p.first = has[l].upto + 1
      /\ p.chain >= airs[l] => Opened(l, p.chain, n)
  <2>1. n \in n..Len(feed) /\ n <= Len(feed)
    BY <1>1
  <2>2. p.chain >= has[l].chain /\ (p.chain >= airs[l] => Opened(l, p.chain, n))
    BY <2>1, <1>3 DEF Follows
  <2>3. has[l].chain # 0 => (p.chain = has[l].chain => p.first = has[l].upto + 1)
    BY <2>1, <1>3 DEF Follows
  <2> QED
    BY <1>3, <1>5, <2>2, <2>3
<1> DEFINE h == Headers(l, p)
<1>7. /\ h \in [chain : 0..MaxChains, upto : 0..HeaderParts]
      /\ \/ h = has[l] /\ p.first # 1 /\ has[l].chain # p.chain
         \/ h.chain = p.chain /\ NextPart(p.last) = h.upto + 1
      /\ p.first = 1 => h.chain = p.chain
  BY <1>1, <1>2, <1>6, HeadersAfter, SMTT(20) DEF JoinInv, Opens
<1>8. Opened(l, p.chain, n) => h.chain = p.chain
  <2> SUFFICES ASSUME Opened(l, p.chain, n) PROVE h.chain = p.chain
    OBVIOUS
  <2>1. CASE has[l].chain = p.chain
    BY <2>1, <1>7
  <2>2. CASE \E i \in n..n : Opens(feed[i], p.chain)
    <3>1. PICK i \in n..n : Opens(feed[i], p.chain)
      BY <2>2
    <3>2. i = n
      BY <1>1
    <3> QED
      BY <3>1, <3>2, <1>7 DEF Opens
  <2> QED
    BY <1>3, <2>1, <2>2 DEF Opened
<1>9. Fault(l, p) = "no"
  <2>1. ~(p.first < Audio /\ has[l] = Full(p.chain))
    <3> SUFFICES ASSUME has[l] = Full(p.chain) PROVE ~(p.first < Audio)
      OBVIOUS
    <3>1. has[l].chain = p.chain /\ has[l].upto = HeaderParts
      BY DEF Full, Heads
    <3> QED
      BY <3>1, <1>6 DEF Audio
  <2>2. p.last = Audio /\ p.chain >= airs[l] => h = Full(p.chain)
    <3> SUFFICES ASSUME p.last = Audio, p.chain >= airs[l] PROVE h = Full(p.chain)
      OBVIOUS
    <3>1. h.chain = p.chain /\ NextPart(p.last) = h.upto + 1
      BY <1>6, <1>7, <1>8
    <3>2. h.upto = HeaderParts
      BY <1>7, <3>1 DEF NextPart, Audio
    <3> HIDE DEF h
    <3> QED
      BY <1>7, <3>1, <3>2 DEF Full, Heads
  <2> QED
    BY <2>1, <2>2 DEF Fault
<1>10. fault'[l] = "no" /\ has'[l] = h
  BY <1>1, <1>9 DEF Receive, Decode, Follows, JoinInv, TypeOK
<1> HIDE DEF h, p, n
<1>11. h.chain \in Nat /\ h.chain <= p.chain /\ h.chain >= has[l].chain
  BY <1>3, <1>5, <1>6, <1>7
<1>12. \A j \in (n + 1)..Len(feed) :
         j \in 1..Len(feed) /\ j \in n..Len(feed) /\ feed[j].chain >= p.chain
  <2> SUFFICES ASSUME NEW j \in (n + 1)..Len(feed)
               PROVE  j \in 1..Len(feed) /\ j \in n..Len(feed) /\ feed[j].chain >= p.chain
    OBVIOUS
  <2>1. j \in 1..Len(feed) /\ j \in n..Len(feed) /\ n \in 1..j
    BY <1>1
  <2> QED
    BY <2>1, <1>4 DEF p
<1>13. ASSUME NEW c \in Nat, NEW m \in n..Len(feed), c >= p.chain, Opened(l, c, m)
       PROVE  h.chain = c \/ \E i \in (n + 1)..m : Opens(feed[i], c)
  <2>1. CASE has[l].chain = c
    BY <2>1, <1>3, <1>6, <1>7, <1>13, <1>5
  <2>2. CASE \E i \in n..m : Opens(feed[i], c)
    <3>1. PICK i \in n..m : Opens(feed[i], c)
      BY <2>2
    <3>2. CASE i = n
      BY <3>1, <3>2, <1>7 DEF Opens, p
    <3>3. CASE i # n
      <4>1. i \in (n + 1)..m
        BY <3>3, <1>1
      <4> QED
        BY <4>1, <3>1
    <3> QED
      BY <3>2, <3>3
  <2> QED
    BY <1>3, <1>13, <2>1, <2>2 DEF Opened, n
<1>14. \A j \in (n + 1)..Len(feed) : feed[j].chain >= h.chain
  BY <1>4, <1>5, <1>11, <1>12, SMTT(20)
<1>15. \A j \in (n + 1)..Len(feed) : feed[j].chain >= airs[l] =>
         h.chain = feed[j].chain \/ \E i \in (n + 1)..j : Opens(feed[i], feed[j].chain)
  <2> SUFFICES ASSUME NEW j \in (n + 1)..Len(feed), feed[j].chain >= airs[l]
               PROVE  h.chain = feed[j].chain \/ \E i \in (n + 1)..j : Opens(feed[i], feed[j].chain)
    OBVIOUS
  <2>1. feed[j].chain \in Nat /\ j \in n..Len(feed) /\ feed[j].chain >= p.chain
    BY <1>4, <1>12
  <2>2. Opened(l, feed[j].chain, j)
    BY <2>1 DEF Follows, n
  <2> QED
    BY <2>1, <2>2, <1>13
<1>16. Latest.chain >= airs[l] =>
         h.chain = Latest.chain \/ \E i \in (n + 1)..Len(feed) : Opens(feed[i], Latest.chain)
  <2>1. Latest.chain >= airs[l] => Opened(l, Latest.chain, Len(feed))
    BY DEF Follows
  <2>2. Len(feed) \in n..Len(feed)
    BY <1>1
  <2> QED
    BY <2>1, <2>2, <1>4, <1>5, <1>13
<1>17. h.chain # 0 =>
         IF n + 1 <= Len(feed)
         THEN feed[n + 1].chain = h.chain => feed[n + 1].first = h.upto + 1
         ELSE Latest.chain = h.chain => NextPart(Latest.last) = h.upto + 1
  <2>1. CASE n + 1 <= Len(feed)
    <3>1. n + 1 \in 1..Len(feed) /\ n + 1 \in (n + 1)..Len(feed) /\ (n + 1) - 1 = n
      BY <2>1, <1>1
    <3>2. feed[n + 1].chain = p.chain => feed[n + 1].first = NextPart(p.last)
      BY <3>1, <1>1 DEF JoinInv, FeedOK, p
    <3>3. feed[n + 1].chain >= p.chain /\ feed[n + 1].chain \in Nat
      BY <3>1, <1>12, <1>4
    <3> QED
      BY <2>1, <3>2, <3>3, <1>3, <1>5, <1>6, <1>7, SMTT(20)
  <2>2. CASE ~(n + 1 <= Len(feed))
    <3>1. n = Len(feed) /\ Len(feed) >= 1
      BY <2>2, <1>1
    <3>2. Latest = p
      BY <3>1, LatestType DEF JoinInv, p
    <3> QED
      BY <2>2, <3>2, <1>3, <1>5, <1>6, <1>7
  <2> QED
    BY <2>1, <2>2
<1>18. Follows(l)'
  <2>1. n + 1 <= Len(feed) + 1 /\ Tuned(l)' = h /\ from'[l] = n + 1
    BY <1>1, <1>3, <1>10
  <2>2. \A j \in (n + 1)..Len(feed) : feed[j].chain >= airs[l] => Opened(l, feed[j].chain, j)'
    BY <1>15, <2>1, <1>2 DEF Opened, Opens
  <2>3. Latest.chain >= airs[l] => Opened(l, Latest.chain, Len(feed))'
    BY <1>16, <2>1, <1>2 DEF Opened, Opens
  <2> QED
    BY <1>2, <1>4, <1>5, <1>10, <1>11, <1>14, <1>17, <2>1, <2>2, <2>3 DEF Follows, NextPart
<1> QED
  BY <1>1, <1>7, <1>18 DEF p, n, h

LEMMA ReceiveKeeps ==
  ASSUME JoinInv, NEW l \in Listeners, Receive(l)
  PROVE  JoinInv'
<1> DEFINE p == stream[from[l]]
<1>1. p \in Packet /\ from'[l] \in 1..(MaxPackets + 1) /\ from' = [from EXCEPT ![l] = @ + 1]
  <2>1. from' = [from EXCEPT ![l] = @ + 1] /\ from[l] <= Len(stream)
    BY DEF Receive
  <2>2. /\ from \in [Listeners -> 1..(MaxPackets + 1)]
        /\ stream \in Seq(Packet) /\ Len(stream) <= MaxPackets
    BY DEF JoinInv, TypeOK
  <2>3. from[l] \in Nat /\ from[l] >= 1 /\ Len(stream) \in Nat
    BY <2>2
  <2>4. from'[l] = from[l] + 1 /\ from[l] \in 1..Len(stream)
    BY <2>1, <2>2, <2>3
  <2>5. p \in Packet
    BY <2>2, <2>4
  <2> QED
    BY <2>1, <2>2, <2>3, <2>4, <2>5
<1>2. has' = has \/ has' = [has EXCEPT ![l] = Headers(l, p)]
  BY DEF Receive, Decode
<1>3. fault' = fault \/ fault' = [fault EXCEPT ![l] = Fault(l, p)]
  BY DEF Receive, Decode
<1>4. Headers(l, p) \in [chain : 0..MaxChains, upto : 0..HeaderParts]
  <2>1. has[l] \in [chain : 0..MaxChains, upto : 0..HeaderParts]
    BY DEF JoinInv, TypeOK
  <2>2. /\ p.chain \in 0..MaxChains
        /\ (IF p.last = Audio THEN HeaderParts ELSE p.last) \in 0..HeaderParts
    BY <1>1, PacketType DEF Audio
  <2> QED
    BY <2>1, <2>2 DEF Headers, Heads
<1> HIDE DEF p
<1>5. TypeOK'
  <2>1. has' \in [Listeners -> [chain : 0..MaxChains, upto : 0..HeaderParts]]
    BY <1>2, <1>4 DEF JoinInv, TypeOK
  <2>2. fault' \in [Listeners -> {"no", "blip", "mute"}]
    BY <1>3 DEF JoinInv, TypeOK, Fault
  <2>3. from' \in [Listeners -> 1..(MaxPackets + 1)]
    BY <1>1 DEF JoinInv, TypeOK
  <2> QED
    BY <2>1, <2>2, <2>3 DEF JoinInv, TypeOK, Receive, sourceVars
<1>6. feed' = feed /\ FeedOK' /\ CaptureOK'
  BY SourceKept DEF JoinInv, Receive
<1>7. \A k \in Listeners : k # l =>
        from'[k] = from[k] /\ has'[k] = has[k] /\ fault'[k] = fault[k]
  BY <1>1, <1>2, <1>3 DEF JoinInv, TypeOK
<1>8. DecodersOff'
  BY <1>7 DEF JoinInv, DecodersOff, Receive
<1>9. RightJoins'
  <2> SUFFICES ASSUME NEW k \in Listeners,
                      pc[k] \in {"register", "prefix", "stream"}, found[k] = "right"
               PROVE  Follows(k)'
    BY DEF RightJoins, Receive
  <2>1. Follows(k)
    BY DEF JoinInv, RightJoins
  <2>2. CASE k = l
    BY <2>1, <2>2, ReceiveFollows
  <2>3. CASE k # l
    <3>1. Tuned(k)' = Tuned(k)
      BY <1>7, <2>3 DEF Tuned, Receive
    <3>2. airs'[k] = airs[k]
      BY DEF Receive
    <3> QED
      BY <1>6, <1>7, <2>1, <2>3, <3>1, <3>2, FollowsKept
  <2> QED
    BY <2>2, <2>3
<1> QED
  BY <1>5, <1>6, <1>8, <1>9 DEF JoinInv

LEMMA LeavesKeeps ==
  ASSUME JoinInv, NEW l \in Listeners, Leaves(l)
  PROVE  JoinInv'
<1> USE DEF Leaves, Go
<1>1. TypeOK'
  <2>1. 1 \in 1..(MaxPackets + 1) /\ 1 \in 1..(MaxChains + 1)
    OBVIOUS
  <2>2. Untuned \in [chain : 0..MaxChains, upto : 0..HeaderParts]
    BY DEF Untuned, Heads
  <2> QED
    BY <2>1, <2>2 DEF JoinInv, TypeOK, PCs, sourceVars
<1>2. feed' = feed /\ FeedOK' /\ CaptureOK'
  BY SourceKept DEF JoinInv
<1>4. DecodersOff'
  BY DEF JoinInv, TypeOK, DecodersOff
<1>5. RightJoins'
  <2> SUFFICES ASSUME NEW k \in Listeners,
                      pc'[k] \in {"register", "prefix", "stream"}, found'[k] = "right"
               PROVE  Follows(k)'
    BY DEF RightJoins
  <2>1. k # l
    BY DEF JoinInv, TypeOK
  <2>2. /\ pc'[k] = pc[k] /\ snap'[k] = snap[k] /\ from'[k] = from[k]
        /\ airs'[k] = airs[k] /\ found'[k] = found[k]
        /\ fault'[k] = fault[k] /\ has'[k] = has[k]
    BY <2>1 DEF JoinInv, TypeOK
  <2>3. Follows(k)
    BY <2>2 DEF JoinInv, RightJoins
  <2>4. Tuned(k)' = Tuned(k)
    BY <2>2 DEF Tuned
  <2> QED
    BY <1>2, <2>2, <2>3, <2>4, FollowsKept
<1> QED
  BY <1>1, <1>2, <1>4, <1>5 DEF JoinInv

LEMMA DeregisterKeeps ==
  ASSUME JoinInv, NEW l \in Listeners, Deregister(l)
  PROVE  JoinInv'
<1> USE DEF Deregister, Go, joinVars
<1>1. TypeOK'
  BY DEF JoinInv, TypeOK, PCs, sourceVars
<1>2. feed' = feed /\ FeedOK' /\ CaptureOK'
  BY SourceKept DEF JoinInv
<1>4. DecodersOff'
  BY DEF JoinInv, TypeOK, DecodersOff
<1>5. RightJoins'
  <2> SUFFICES ASSUME NEW k \in Listeners,
                      pc'[k] \in {"register", "prefix", "stream"}, found[k] = "right"
               PROVE  Follows(k)'
    BY DEF RightJoins
  <2>1. pc'[k] = pc[k]
    BY DEF JoinInv, TypeOK
  <2>2. Follows(k)
    BY <2>1 DEF JoinInv, RightJoins
  <2>3. Tuned(k)' = Tuned(k)
    BY <2>1 DEF Tuned
  <2> QED
    BY <1>2, <2>2, <2>3, FollowsKept
<1> QED
  BY <1>1, <1>2, <1>4, <1>5 DEF JoinInv

-----------------------------------------------------------------------------
(* The source.                                                             *)

\* Steps of the source that emit nothing.
LEMMA QuietKeeps ==
  ASSUME JoinInv,
         \/ \E k \in Kinds : SourceConnects(k)
         \/ OwnerReleases \/ GuardKicks \/ GuardClears
  PROVE  JoinInv'
<1> USE DEF SourceConnects, OwnerReleases, GuardKicks, GuardClears, joinVars
<1>1. TypeOK'
  <2>1. /\ source' \in Kinds \cup {None} /\ header' \in Chains \cup {None}
        /\ phase' \in {"fresh", "on", "flushed"} /\ guards' \in 0..MaxGuards
        /\ listed' \cup kicked' \subseteq Listeners
    BY DEF JoinInv, TypeOK
  <2> QED
    BY <2>1 DEF JoinInv, TypeOK
<1>2. feed' = feed /\ (phase' = phase \/ phase' = "fresh") /\ (header' = header \/ header' = None)
  BY DEF feed
<1>3. Latest' = Latest
  BY <1>2 DEF Latest
<1>4. FeedOK'
  BY <1>2 DEF JoinInv, FeedOK
<1>5. CaptureOK'
  <2>1. capt' = capt
    OBVIOUS
  <2> QED
    BY <1>2, <1>3, <2>1 DEF JoinInv, CaptureOK, Opens
<1>6. DecodersOff' /\ RightJoins'
  BY <1>2, JoinsKept DEF JoinInv, DecodersOff
<1> QED
  BY <1>1, <1>4, <1>5, <1>6 DEF JoinInv

LEMMA PublishPacketKeeps ==
  ASSUME JoinInv, PublishPacket
  PROVE  JoinInv'
<1> USE DEF PublishPacket, joinVars
<1>1. feed' = feed /\ feed' = stream'
  BY DEF feed
<1>2. Latest' = Latest
  BY <1>1 DEF Latest
<1>3. TypeOK'
  <2>1. out \in Packet /\ stream' \in Seq(Packet)
    BY DEF JoinInv, TypeOK
  <2>2. Len(stream') <= MaxPackets
    BY <1>1 DEF JoinInv, FeedOK
  <2> QED
    BY <2>1, <2>2 DEF JoinInv, TypeOK
<1>4. FeedOK' /\ CaptureOK'
  BY <1>1, <1>2 DEF JoinInv, FeedOK, CaptureOK, Opens
<1>5. DecodersOff' /\ RightJoins'
  BY <1>1, JoinsKept DEF JoinInv, DecodersOff
<1> QED
  BY <1>3, <1>4, <1>5 DEF JoinInv

\* The feed a new packet makes.
LEMMA EmitFeed ==
  ASSUME JoinInv, NEW p \in Packet, Emit(p)
  PROVE  /\ feed' = Append(feed, p) /\ Len(feed') = Len(feed) + 1
         /\ Len(feed) \in Nat /\ Len(feed') <= MaxPackets
         /\ \A j \in 1..Len(feed) : feed'[j] = feed[j]
         /\ feed'[Len(feed) + 1] = p /\ Latest' = p
         /\ \A j \in 1..Len(feed) : feed[j] \in Packet /\ feed[j].chain \in Nat
         /\ Latest.chain \in Nat /\ p.chain \in Nat /\ p.chain >= Latest.chain
         /\ \/ p.chain = Latest.chain /\ phase = "on" /\ p.first = NextPart(Latest.last)
            \/ p.chain = Latest.chain + 1 /\ p.first = 1
         /\ p.at = End(Latest)
<1>1. feed = stream /\ feed' = Append(feed, p) /\ feed \in Seq(Packet)
  BY DEF Emit, feed, JoinInv, TypeOK
<1>2. Len(feed) < MaxPackets
  BY <1>1 DEF Emit
<1> HIDE DEF feed
<1>3. /\ Len(feed') = Len(feed) + 1 /\ Len(feed) \in Nat
      /\ \A j \in 1..Len(feed) : feed'[j] = feed[j]
      /\ feed'[Len(feed) + 1] = p
      /\ \A j \in 1..Len(feed) : feed[j] \in Packet
  BY <1>1
<1>4. Latest' = p
  BY <1>1, <1>3 DEF Latest
<1>5. Latest.chain \in Nat /\ p.chain \in Nat
  BY LatestType, PacketType DEF JoinInv
<1>6. /\ \/ p.chain = Latest.chain /\ phase = "on" /\ p.first = NextPart(Latest.last)
         \/ p.chain = Latest.chain + 1 /\ p.first = 1
      /\ p.at = End(Latest)
  BY DEF Emit, Emits, Opens
<1>7. \A j \in 1..Len(feed) : feed[j].chain \in Nat
  BY <1>3, PacketType
<1> QED
  BY <1>1, <1>2, <1>3, <1>4, <1>5, <1>6, <1>7

\* Whatever the source emits, a listener that follows goes on following.
LEMMA EmitFollows ==
  ASSUME JoinInv, NEW p \in Packet, Emit(p),
         NEW l \in Listeners, Follows(l)
  PROVE  Follows(l)'
<1> USE DEF joinVars
<1>1. /\ from' = from /\ airs' = airs /\ fault' = fault
      /\ snap' = snap /\ has' = has /\ pc' = pc
  BY DEF Emit
<1>2. Tuned(l)' = Tuned(l)
  BY <1>1 DEF Tuned
<1>3. /\ Len(feed') = Len(feed) + 1 /\ Len(feed) \in Nat
      /\ \A j \in 1..Len(feed) : feed'[j] = feed[j]
      /\ feed'[Len(feed) + 1] = p /\ Latest' = p
      /\ Latest.chain \in Nat /\ p.chain \in Nat /\ p.chain >= Latest.chain
      /\ \/ p.chain = Latest.chain /\ phase = "on" /\ p.first = NextPart(Latest.last)
         \/ p.chain = Latest.chain + 1 /\ p.first = 1
  BY EmitFeed, Zenon
<1>4. from[l] \in Nat /\ from[l] >= 1 /\ from[l] <= Len(feed) + 1 /\ airs[l] \in Nat
  BY TunedType DEF JoinInv, Follows
<1>5. Tuned(l).chain \in Nat /\ Tuned(l).upto \in Nat /\ Tuned(l).chain <= Latest.chain
  BY TunedType DEF JoinInv, Follows
<1>6. \A j \in from[l]..Len(feed') : j \in from[l]..Len(feed) \/ j = Len(feed) + 1
  BY <1>3, <1>4
<1>7. \A j \in from[l]..Len(feed) : feed'[j] = feed[j]
  BY <1>3, <1>4
<1> DEFINE O(c, n) == Tuned(l).chain = c
                      \/ \E i \in from[l]..n : feed'[i].chain = c /\ feed'[i].first = 1
<1>8. ASSUME NEW c, NEW n \in 0..Len(feed), Opened(l, c, n)
      PROVE  O(c, n) /\ O(c, n + 1)
  <2>1. CASE Tuned(l).chain = c
    BY <2>1
  <2>2. CASE \E i \in from[l]..n : Opens(feed[i], c)
    <3>1. PICK i \in from[l]..n : Opens(feed[i], c)
      BY <2>2
    <3>2. i \in from[l]..(n + 1) /\ i \in 1..Len(feed)
      BY <1>3, <1>4
    <3>3. feed'[i] = feed[i]
      BY <1>3, <3>2
    <3> QED
      BY <3>1, <3>2, <3>3 DEF Opens
  <2> QED
    BY <1>8, <2>1, <2>2 DEF Opened
<1>9. p.chain >= airs[l] => O(p.chain, Len(feed) + 1)
  <2> SUFFICES ASSUME p.chain >= airs[l] PROVE O(p.chain, Len(feed) + 1)
    OBVIOUS
  <2>1. CASE p.chain = Latest.chain
    <3>1. Opened(l, p.chain, Len(feed))
      BY <2>1 DEF Follows
    <3>2. Len(feed) \in 0..Len(feed)
      BY <1>3
    <3> HIDE DEF O
    <3> QED
      BY <3>1, <3>2, <1>8
  <2>2. CASE p.chain = Latest.chain + 1 /\ p.first = 1
    <3>1. Len(feed) + 1 \in from[l]..(Len(feed) + 1)
      BY <1>3, <1>4
    <3> QED
      BY <1>3, <2>2, <3>1
  <2> QED
    BY <1>3, <2>1, <2>2
<1>10. \A j \in from[l]..Len(feed') :
         /\ feed'[j].chain >= Tuned(l).chain
         /\ feed'[j].chain >= airs[l] => O(feed'[j].chain, j)
  <2> SUFFICES ASSUME NEW j \in from[l]..Len(feed')
               PROVE  /\ feed'[j].chain >= Tuned(l).chain
                      /\ feed'[j].chain >= airs[l] => O(feed'[j].chain, j)
    OBVIOUS
  <2> HIDE DEF O
  <2>1. CASE j \in from[l]..Len(feed)
    <3>1. feed'[j] = feed[j] /\ feed[j].chain >= Tuned(l).chain
      BY <1>7, <2>1 DEF Follows
    <3>2. feed[j].chain >= airs[l] => Opened(l, feed[j].chain, j)
      BY <2>1 DEF Follows
    <3>3. j \in 0..Len(feed)
      BY <2>1, <1>3, <1>4
    <3> QED
      BY <3>1, <3>2, <3>3, <1>8
  <2>2. CASE j = Len(feed) + 1
    <3>1. feed'[j] = p /\ p.chain >= Tuned(l).chain
      BY <1>3, <1>5, <2>2
    <3> QED
      BY <1>9, <2>2, <3>1
  <2> QED
    BY <1>6, <2>1, <2>2
<1>11. Tuned(l).chain # 0 =>
         IF from[l] <= Len(feed')
         THEN feed'[from[l]].chain = Tuned(l).chain => feed'[from[l]].first = Tuned(l).upto + 1
         ELSE p.chain = Tuned(l).chain => NextPart(p.last) = Tuned(l).upto + 1
  <2>1. CASE from[l] <= Len(feed)
    <3>1. from[l] \in from[l]..Len(feed) /\ from[l] <= Len(feed')
      BY <1>3, <1>4, <2>1
    <3> QED
      BY <1>7, <2>1, <3>1 DEF Follows
  <2>2. CASE from[l] = Len(feed) + 1
    <3>1. from[l] <= Len(feed') /\ ~(from[l] <= Len(feed)) /\ feed'[from[l]] = p
      BY <1>3, <1>4, <2>2
    <3>2. Tuned(l).chain # 0 => (Latest.chain = Tuned(l).chain => NextPart(Latest.last) = Tuned(l).upto + 1)
      BY <3>1 DEF Follows
    <3> QED
      BY <1>3, <1>5, <3>1, <3>2
  <2> QED
    BY <1>3, <1>4, <2>1, <2>2
<1> QED
  <2>1. fault[l] = "no" /\ Tuned(l).chain <= p.chain /\ from[l] <= Len(feed') + 1
    BY <1>3, <1>4, <1>5 DEF Follows
  <2>2. \A j \in from[l]..Len(feed') : O(feed'[j].chain, j) <=> Opened(l, feed[j].chain, j)'
    BY <1>1, <1>2 DEF Opened, Opens
  <2>3. p.chain >= airs[l] => Opened(l, Latest.chain, Len(feed))'
    BY <1>1, <1>2, <1>3, <1>9 DEF Opened, Opens
  <2> HIDE DEF O
  <2> QED
    BY <2>1, <2>2, <2>3, <1>1, <1>2, <1>3, <1>10, <1>11 DEF Follows, NextPart

\* What the capture has when it meets a packet, and what it then is.
Collected(p) == IF phase = "fresh" THEN [chain |-> p.chain, at |-> p.at] ELSE capt

LEMMA CollectedType ==
  ASSUME JoinInv, NEW p \in Packet, Emit(p), phase \in {"fresh", "on"}, Collected(p) # None
  PROVE  /\ Collected(p) \in Capture /\ Collected(p).chain \in Chains
         /\ Collected(p).chain <= p.chain /\ Collected(p).at \in Nat
         /\ \E i \in 1..Len(feed') : feed'[i].at = Collected(p).at /\ Opens(feed'[i], Collected(p).chain)
<1>1. /\ Len(feed') = Len(feed) + 1 /\ Len(feed) \in Nat
      /\ \A j \in 1..Len(feed) : feed'[j] = feed[j]
      /\ feed'[Len(feed) + 1] = p
      /\ p.chain \in Nat /\ Latest.chain \in Nat /\ p.chain >= Latest.chain
  BY EmitFeed, Zenon
<1>2. CASE phase = "fresh"
  <2>1. Collected(p) = [chain |-> p.chain, at |-> p.at] /\ Opens(p, p.chain)
    BY <1>2 DEF Collected, Emit, Emits, Opens
  <2>2. p.chain \in Chains /\ p.at \in Bytes /\ p.at \in Nat
    BY PacketType DEF Packet
  <2>3. Len(feed) + 1 \in 1..Len(feed')
    BY <1>1
  <2>4. Collected(p).chain = p.chain /\ Collected(p).at = p.at /\ Collected(p) \in Capture
    BY <2>1, <2>2 DEF Capture
  <2>5. \E i \in 1..Len(feed') : feed'[i].at = Collected(p).at /\ Opens(feed'[i], Collected(p).chain)
    BY <1>1, <2>1, <2>3, <2>4
  <2> QED
    BY <1>1, <2>2, <2>4, <2>5
<1>3. CASE phase = "on"
  <2>1. Collected(p) = capt /\ capt \in Capture
    BY <1>3 DEF Collected, JoinInv, TypeOK
  <2>2. capt.chain \in Chains /\ capt.at \in Nat
    BY <2>1 DEF Capture, Bytes
  <2>3. PICK i \in 1..Len(feed) : feed[i].at = capt.at /\ Opens(feed[i], capt.chain)
    BY <1>3, <2>1 DEF JoinInv, CaptureOK
  <2>4. feed[i].chain <= Latest.chain /\ feed[i].chain = capt.chain
    BY <2>3, FeedOrder DEF JoinInv, Opens
  <2>5. i \in 1..Len(feed') /\ feed'[i] = feed[i]
    BY <1>1
  <2>6. Collected(p).chain <= p.chain
    BY <1>1, <2>1, <2>2, <2>4
  <2>7. feed'[i].at = Collected(p).at /\ Opens(feed'[i], Collected(p).chain)
    BY <2>1, <2>3, <2>5
  <2> QED
    BY <2>1, <2>2, <2>5, <2>6, <2>7
<1> QED
  <2>1. phase = "fresh" \/ phase = "on"
    OBVIOUS
  <2> QED
    BY <1>2, <1>3, <2>1

\* Encode and Flush.
LEMMA EmitKeeps ==
  ASSUME JoinInv, NEW p \in Packet, Encode(p) \/ Flush(p)
  PROVE  JoinInv'
<1> USE DEF joinVars
<1>1. Emit(p) /\ phase' \in {"on", "flushed"}
  BY DEF Encode, Flush
<1>2. /\ Len(feed') = Len(feed) + 1 /\ Len(feed) \in Nat /\ Len(feed') <= MaxPackets
      /\ \A j \in 1..Len(feed) : feed'[j] = feed[j]
      /\ feed'[Len(feed) + 1] = p /\ Latest' = p
      /\ \A j \in 1..Len(feed) : feed[j] \in Packet /\ feed[j].chain \in Nat
      /\ Latest.chain \in Nat /\ p.chain \in Nat /\ p.chain >= Latest.chain
      /\ \/ p.chain = Latest.chain /\ phase = "on" /\ p.first = NextPart(Latest.last)
         \/ p.chain = Latest.chain + 1 /\ p.first = 1
  BY <1>1, EmitFeed, Zenon
<1>3. /\ capt' # None /\ phase' = "on" =>
           /\ phase \in {"fresh", "on"} /\ Collected(p) # None /\ capt' = Collected(p)
           /\ End(p) - Collected(p).at <= MaxHeaderBuffer
      /\ \/ header' = header
         \/ /\ phase \in {"fresh", "on"} /\ Collected(p) # None /\ header' = Collected(p).chain
            /\ p.last = Audio \/ p.chain # Collected(p).chain
      /\ capt' \in {None, capt, Collected(p)}
      /\ capt' = Collected(p) => capt' \in Capture \cup {None}
  <2>1. CASE Encode(p)
    <3>1. phase \in {"fresh", "on"}
      BY <2>1 DEF Encode, Emit, Emits
    <3>2. Collected(p) # None => Collected(p) \in Capture
      BY <1>1, <3>1, CollectedType
    <3>3. /\ \/ Collected(p) = None /\ capt' = capt /\ header' = header
             \/ /\ Collected(p) # None /\ End(p) - Collected(p).at <= MaxHeaderBuffer
                /\ capt' = Collected(p) /\ header' = header
             \/ /\ Collected(p) # None
                /\ p.last = Audio \/ p.chain # Collected(p).chain
                /\ capt' = None /\ header' = Collected(p).chain
             \/ Collected(p) # None /\ capt' = None /\ header' = header
      BY <2>1 DEF Encode, Captures, Collected
    <3>4. Collected(p) = None => capt = None
      <4>1. [chain |-> p.chain, at |-> p.at] \in Capture
        BY PacketType DEF Packet, Capture
      <4> QED
        BY <4>1 DEF Collected
    <3>5. capt' = Collected(p) => capt' \in Capture \cup {None}
      BY <3>2
    <3>6. capt' \in {None, capt, Collected(p)}
      BY <3>3
    <3> HIDE DEF Capture
    <3> QED
      BY <3>1, <3>3, <3>4, <3>5, <3>6
  <2>2. CASE Flush(p)
    <3>1. capt' = capt /\ header' = header /\ phase' # "on"
      BY <2>2 DEF Flush
    <3> QED
      BY <3>1 DEF JoinInv, TypeOK
  <2> QED
    BY <2>1, <2>2
<1>4. phase \in {"fresh", "on"} /\ Collected(p) # None =>
         /\ Collected(p).chain \in Chains /\ Collected(p).chain <= p.chain
         /\ \E i \in 1..Len(feed') : feed'[i].at = Collected(p).at /\ Opens(feed'[i], Collected(p).chain)
  BY <1>1, CollectedType
<1>5. TypeOK'
  <2>1. capt' \in Capture \cup {None} /\ header' \in Chains \cup {None}
    BY <1>3, <1>4 DEF JoinInv, TypeOK
  <2>2. out' \in Packet \cup {None} /\ UNCHANGED <<source, stream, guards, pc, has, fault, listed, kicked, joinVars>>
    BY <1>1 DEF Emit
  <2> QED
    BY <1>1, <2>1, <2>2 DEF JoinInv, TypeOK
<1>6. FeedOK'
  <2>1. ASSUME NEW j \in 1..Len(feed')
        PROVE  /\ \A i \in 1..(j - 1) : feed'[i].chain <= feed'[j].chain
               /\ j > 1 /\ feed'[j].chain = feed'[j - 1].chain =>
                    feed'[j].first = NextPart(feed'[j - 1].last)
    <3>1. CASE j \in 1..Len(feed)
      <4>1. \A i \in 1..(j - 1) : i \in 1..Len(feed)
        BY <1>2, <3>1
      <4>2. j > 1 => (j - 1) \in 1..Len(feed)
        BY <1>2, <3>1
      <4> QED
        BY <1>2, <3>1, <4>1, <4>2 DEF JoinInv, FeedOK
    <3>2. CASE j = Len(feed) + 1
      <4>1. \A i \in 1..(j - 1) : feed'[i].chain <= feed'[j].chain
        <5> SUFFICES ASSUME NEW i \in 1..(j - 1) PROVE feed'[i].chain <= feed'[j].chain
          OBVIOUS
        <5>1. i \in 1..Len(feed) /\ feed'[i] = feed[i] /\ feed'[j] = p
          BY <1>2, <3>2
        <5>2. feed[i].chain <= Latest.chain /\ feed[i].chain \in Nat
          BY <1>2, <5>1, FeedOrder DEF JoinInv
        <5> QED
          BY <1>2, <5>1, <5>2, SMTT(20)
      <4>2. ASSUME j > 1, feed'[j].chain = feed'[j - 1].chain
            PROVE  feed'[j].first = NextPart(feed'[j - 1].last)
        <5>1. /\ j - 1 = Len(feed) /\ Len(feed) >= 1 /\ feed'[j] = p
              /\ Len(feed) \in 1..Len(feed)
          BY <1>2, <3>2, <4>2
        <5>2. Latest = feed[Len(feed)] /\ feed'[j - 1] = Latest
          BY <1>2, <5>1, LatestType DEF JoinInv
        <5>3. p.chain = Latest.chain
          BY <4>2, <5>1, <5>2
        <5>4. p.first = NextPart(Latest.last)
          BY <1>2, <5>3
        <5> QED
          BY <5>1, <5>2, <5>4
      <4> QED
        BY <4>1, <4>2
    <3> QED
      BY <1>2, <2>1, <3>1, <3>2
  <2>2. Len(feed') <= MaxPackets /\ Len(feed') >= 1
    BY <1>2
  <2> QED
    BY <2>1, <2>2 DEF FeedOK, NextPart
<1>7. CaptureOK'
  <2>1. phase' = "on" /\ capt' # None =>
          /\ End(p) - capt'.at <= MaxHeaderBuffer
          /\ \E i \in 1..Len(feed') : feed'[i].at = capt'.at /\ Opens(feed'[i], capt'.chain)
    BY <1>3, <1>4
  <2>2. header' # None => header' <= p.chain /\ (header' = p.chain => p.last = Audio)
    <3>1. CASE header' = header
      <4> SUFFICES ASSUME header # None
                   PROVE  header <= p.chain /\ (header = p.chain => p.last = Audio)
        BY <3>1
      <4>1. /\ header \in Nat /\ header <= Latest.chain
            /\ header = Latest.chain => Latest.last = Audio
        BY DEF JoinInv, TypeOK, CaptureOK
      <4>2. header <= p.chain
        BY <4>1, <1>2
      <4>3. ASSUME header = p.chain PROVE p.last = Audio
        <5>1. p.chain = Latest.chain /\ Latest.last = Audio
          BY <4>1, <4>3, <1>2
        <5>2. p.first = NextPart(Audio)
          BY <5>1, <1>2
        <5>3. p.first = Audio
          BY <5>2 DEF NextPart
        <5> QED
          BY <5>3, PacketType
      <4> QED
        BY <4>2, <4>3
    <3>2. CASE header' # header
      BY <1>3, <1>4, <3>2
    <3> QED
      BY <3>1, <3>2
  <2>3. \A i \in 1..Len(feed') : (Opens(feed'[i], capt'.chain) <=> Opens(feed[i], capt.chain)')
    BY DEF Opens
  <2> QED
    BY <1>2, <2>1, <2>2, <2>3 DEF CaptureOK, End
<1>8. DecodersOff'
  BY <1>1 DEF Emit, JoinInv, DecodersOff
<1>9. RightJoins'
  <2> SUFFICES ASSUME NEW l \in Listeners,
                      pc[l] \in {"register", "prefix", "stream"}, found[l] = "right"
               PROVE  Follows(l)'
    BY <1>1 DEF RightJoins, Emit
  <2>1. Follows(l)
    BY DEF JoinInv, RightJoins
  <2> QED
    BY <1>1, <2>1, EmitFollows
<1> QED
  BY <1>5, <1>6, <1>7, <1>8, <1>9 DEF JoinInv

LEMMA ListenerKeeps ==
  ASSUME JoinInv, BurstHoldsHeaders, NEW l \in Listeners, ListenerStep(l)
  PROVE  JoinInv'
BY LoadHeaderKeeps, SubscribeKeeps, RegisterKeeps, WritePrefixKeeps, ReceiveKeeps,
   LeavesKeeps, DeregisterKeeps DEF ListenerStep

LEMMA SourceKeeps ==
  ASSUME JoinInv, SourceStep
  PROVE  JoinInv'
<1>1. ASSUME NEW k \in Kinds, SourceConnects(k) PROVE JoinInv'
  BY <1>1, QuietKeeps
<1>2. ASSUME NEW p \in Packet, Encode(p) \/ Flush(p) PROVE JoinInv'
  BY <1>2, EmitKeeps
<1>3. CASE OwnerReleases \/ GuardKicks \/ GuardClears
  BY <1>3, QuietKeeps
<1>4. CASE PublishPacket
  BY <1>4, PublishPacketKeeps
<1> QED
  BY <1>1, <1>2, <1>3, <1>4 DEF SourceStep

-----------------------------------------------------------------------------
(* The theorems.                                                           *)

\* Of listener_handler, the header capture and the bus, for every cutting of
\* the streams into packets: the invariant the run checks, which says where in
\* the stream a listener that found header_bytes right stands.
THEOREM JoinInvariant == BurstHoldsHeaders => (Spec => []JoinInv)
<1> SUFFICES ASSUME BurstHoldsHeaders PROVE Spec => []JoinInv
  OBVIOUS
<1>1. Init => JoinInv
  BY InitInv
<1>2. JoinInv /\ [Next]_vars => JoinInv'
  <2> SUFFICES ASSUME JoinInv, [Next]_vars PROVE JoinInv'
    OBVIOUS
  <2>1. CASE SourceStep
    BY <2>1, SourceKeeps
  <2>2. ASSUME NEW l \in Listeners, ListenerStep(l) PROVE JoinInv'
    BY <2>2, ListenerKeeps
  <2>3. CASE UNCHANGED vars
    <3>1. UNCHANGED sourceVars /\ UNCHANGED <<pc, snap, from, airs, found, has, fault, listed, kicked>>
      BY <2>3 DEF vars, sourceVars
    <3>2. feed' = feed /\ FeedOK' /\ CaptureOK'
      BY <3>1, SourceKept DEF JoinInv
    <3>3. RightJoins' /\ DecodersOff'
      BY <3>1, <3>2, JoinsKept DEF JoinInv, DecodersOff
    <3>4. TypeOK'
      BY <3>1 DEF JoinInv, TypeOK, sourceVars
    <3> QED
      BY <3>2, <3>3, <3>4 DEF JoinInv
  <2> QED
    BY <2>1, <2>2, <2>3 DEF Next
<1> QED
  BY <1>1, <1>2, PTL DEF Spec

\* Of listener_handler: with a burst that holds what the capture may collect,
\* a listener that finds header_bytes right, or rightly absent, is sent the
\* header pages of all it must decode, once and before the audio.
THEOREM RightJoinsDecode == BurstHoldsHeaders => (Spec => []JoinDecodes)
<1> SUFFICES ASSUME BurstHoldsHeaders PROVE Spec => []JoinDecodes
  OBVIOUS
<1>1. JoinInv => JoinDecodes
  BY DEF JoinInv, RightJoins, Follows, JoinDecodes
<1> QED
  BY <1>1, JoinInvariant, PTL
=============================================================================
