------------------------- MODULE BroadcastBusProofs -------------------------
(***************************************************************************)
(* Proofs about BroadcastBus, for any listeners, packet sizes, burst and   *)
(* channel capacities: the inductive invariant, and that the bus           *)
(* implements PacketStream.                                                *)
(***************************************************************************)
EXTENDS BroadcastBus, TLAPS

-----------------------------------------------------------------------------
(* Byte offsets.                                                           *)

\* Offsets are numbers.
LEMMA EndNat == ASSUME TypeOK PROVE /\ Sent \in Nat
                                    /\ \A n \in 0..Sent : End(n) \in Nat
BY DEF TypeOK, Sent, End

\* A step that keeps the stream keeps its offsets.
LEMMA EndStable == ASSUME ends' = ends PROVE Sent' = Sent /\ \A n : End(n)' = End(n)
BY DEF Sent, End

\* Sending a packet extends the stream and moves no offset.
LEMMA EndExtended ==
  ASSUME TypeOK, EndsGrow, NEW s \in Sizes, ends' = Append(ends, End(Sent) + s)
  PROVE  /\ ends' \in Seq(Nat) /\ Sent' = Sent + 1
         /\ \A n \in 0..Sent : End(n)' = End(n)
         /\ End(Sent)' = End(Sent) + s
         /\ EndsGrow'
<1>1. s \in Nat /\ s > 0
  BY BusAssumption
<1>2. End(Sent) \in Nat /\ ends \in Seq(Nat)
  BY EndNat DEF TypeOK
<1>3. ends' \in Seq(Nat) /\ Sent' = Sent + 1
  BY <1>1, <1>2 DEF Sent
<1>4. \A n \in 0..Sent : End(n)' = End(n)
  BY <1>1, <1>2 DEF Sent, End
<1>5. End(Sent)' = End(Sent) + s
  BY <1>1, <1>2 DEF Sent, End
<1>6. ASSUME NEW m \in 0..Sent + 1, NEW n \in 0..Sent + 1, m < n
      PROVE  End(m)' < End(n)'
  <2>1. Sent \in Nat /\ m \in 0..Sent /\ (n \in 0..Sent \/ n = Sent + 1)
    BY <1>6, EndNat
  <2>2. CASE n \in 0..Sent
    BY <1>4, <1>6, <2>1, <2>2 DEF EndsGrow
  <2>3. CASE n = Sent + 1
    <3>1. End(m) <= End(Sent) /\ End(m) \in Nat
      BY <2>1, EndNat DEF EndsGrow
    <3> QED
      BY <1>1, <1>2, <1>3, <1>4, <1>5, <2>1, <2>3, <3>1
  <2> QED
    BY <2>1, <2>2, <2>3
<1>7. EndsGrow'
  BY <1>3, <1>6 DEF EndsGrow
<1> QED
  BY <1>3, <1>4, <1>5, <1>7

-----------------------------------------------------------------------------
(* The publisher.                                                          *)

LEMMA SendInv == ASSUME BusInv, Send PROVE BusInv'
<1> USE DEF BusInv, Send
<1>1. PICK s \in Sizes : ends' = Append(ends, End(Sent) + s)
  OBVIOUS
<1>2. /\ ends' \in Seq(Nat) /\ Sent' = Sent + 1
      /\ \A n \in 0..Sent : End(n)' = End(n)
      /\ EndsGrow'
  BY <1>1, EndExtended
<1>3. TypeOK'
  BY <1>2 DEF TypeOK
<1>4. LockHeld'
  BY BusAssumption DEF LockHeld, TypeOK
<1>5. HistoryExact'
  <2>1. Stored' = Stored /\ Stored = Sent /\ HistFirst' = HistFirst
    BY <1>2, EndNat DEF Stored, HistFirst
  <2>2. HistFirst \in 0..Sent /\ (HistFirst > 0 => HistFirst - 1 \in 0..Sent)
    <3>1. Sent \in Nat /\ Len(hist) \in Nat
      BY EndNat DEF TypeOK
    <3>2. HistFirst = Sent - Len(hist) /\ Len(hist) <= Sent
      BY <2>1 DEF HistFirst, HistoryExact
    <3> QED
      BY <3>1, <3>2
  <2> QED
    BY SMTT(30), <1>2, <2>1, <2>2, EndNat DEF HistoryExact
<1>6. SnapshotContiguous'
  BY <1>2, EndNat DEF SnapshotContiguous, TypeOK
<1>7. WalkExact'
  BY BusAssumption DEF WalkExact, LockHeld
<1> QED
  BY <1>2, <1>3, <1>4, <1>5, <1>6, <1>7

LEMMA PushInv == ASSUME BusInv, Push PROVE BusInv'
<1> USE DEF BusInv, Push
<1>1. Sent' = Sent /\ \A n : End(n)' = End(n)
  BY EndStable
<1>2. Stored = Sent - 1 /\ Stored' = Sent /\ Len(hist') = Len(hist) + 1 /\ HistFirst' = HistFirst
  BY <1>1, EndNat DEF Stored, HistFirst, TypeOK
<1>3. Stored \in Nat /\ HistFirst \in 0..Stored
  BY <1>2, EndNat DEF HistoryExact, HistFirst, TypeOK
<1>4. Size(Sent) = End(Sent) - End(Stored) /\ Size(Sent) \in Nat
  BY <1>2, <1>3, EndNat DEF Size, EndsGrow
<1>5. TypeOK'
  BY <1>4, EndNat DEF TypeOK
<1>6. LockHeld'
  BY DEF LockHeld
<1>7. EndsGrow'
  BY <1>1 DEF EndsGrow
<1>8. HistoryExact'
  <2>1. bytes' = End(Sent) - End(HistFirst)
    <3>1. End(Sent) \in Nat /\ End(Stored) \in Nat /\ End(HistFirst) \in Nat
      BY <1>2, <1>3, EndNat
    <3>2. bytes = End(Stored) - End(HistFirst)
      BY DEF HistoryExact
    <3> QED
      BY <1>4, <3>1, <3>2
  <2>2. \A i \in 1..Len(hist') : hist'[i] = HistFirst + i
    <3>1. \A i \in 1..Len(hist) : hist'[i] = HistFirst + i
      BY DEF HistoryExact, TypeOK
    <3>2. hist'[Len(hist) + 1] = HistFirst + Len(hist) + 1
      BY SMTT(30), <1>2, EndNat DEF HistFirst, TypeOK
    <3>3. Len(hist) \in Nat /\ HistFirst \in Nat
      BY <1>3, EndNat DEF TypeOK
    <3>4. SUFFICES ASSUME NEW i \in 1..Len(hist) + 1 PROVE hist'[i] = HistFirst + i
      BY <1>2
    <3>5. i \in 1..Len(hist) \/ i = Len(hist) + 1
      BY <3>3
    <3> QED
      BY <3>1, <3>2, <3>3, <3>5
  <2>3. HistFirst > 0 => End(Sent) - End(HistFirst - 1) > cap
    <3>1. HistFirst > 0 => End(Stored) - End(HistFirst - 1) > cap
      BY DEF HistoryExact
    <3>2. End(Stored) < End(Sent) /\ End(Stored) \in Nat /\ End(Sent) \in Nat
      BY <1>2, <1>3, EndNat DEF EndsGrow
    <3>3. HistFirst > 0 => End(HistFirst - 1) \in Nat
      BY <1>2, <1>3, EndNat
    <3>4. cap \in Nat
      BY BusAssumption DEF TypeOK
    <3> QED
      BY <3>1, <3>2, <3>3, <3>4
  <2>4. Len(hist') <= Stored' /\ Len(hist') > 0
    <3>1. Len(hist) \in Nat /\ Sent \in Nat /\ HistFirst = Stored - Len(hist)
      BY EndNat DEF HistFirst, TypeOK
    <3> QED
      BY <1>2, <1>3, <3>1
  <2> QED
    BY <1>1, <1>2, <2>1, <2>2, <2>3, <2>4 DEF HistoryExact
<1>9. SnapshotContiguous'
  BY <1>1 DEF SnapshotContiguous
<1>10. WalkExact'
  BY BusAssumption DEF WalkExact, LockHeld
<1> QED
  BY <1>5, <1>6, <1>7, <1>8, <1>9, <1>10

LEMMA EvictInv == ASSUME BusInv, Evict PROVE BusInv'
<1> USE DEF BusInv, Evict
<1>1. Sent' = Sent /\ \A n : End(n)' = End(n)
  BY EndStable
<1>2. Stored = Sent /\ Stored' = Sent
  BY <1>1 DEF Stored
<1>3. hist \in Seq(Nat) /\ Len(hist) > 1 /\ bytes > cap /\ cap \in Nat
  BY BusAssumption DEF TypeOK, OverCap
<1>4. /\ hist' \in Seq(Nat) /\ Len(hist') = Len(hist) - 1
      /\ \A i \in 1..Len(hist') : hist'[i] = hist[i + 1]
  BY <1>3
<1>5. HistFirst \in 0..(Sent - 2) /\ HistFirst' = HistFirst + 1
  <2>1. Sent \in Nat /\ Len(hist) \in Nat /\ Len(hist) <= Sent
    BY <1>2, <1>3, EndNat DEF HistoryExact
  <2>2. HistFirst = Sent - Len(hist) /\ HistFirst' = Sent - Len(hist')
    BY <1>2 DEF HistFirst
  <2> QED
    BY <1>3, <1>4, <2>1, <2>2
<1>6. Head(hist) = HistFirst + 1
  BY <1>3 DEF HistoryExact
<1>7. Size(Head(hist)) = End(HistFirst + 1) - End(HistFirst)
  BY <1>5, <1>6, EndNat DEF Size
<1>8. bytes' = End(Sent) - End(HistFirst + 1) /\ bytes' \in Nat
  <2>1. End(Sent) \in Nat /\ End(HistFirst) \in Nat /\ End(HistFirst + 1) \in Nat
    BY <1>5, EndNat
  <2>2. bytes = End(Sent) - End(HistFirst)
    BY <1>2 DEF HistoryExact
  <2>3. End(HistFirst + 1) < End(Sent)
    BY <1>5, EndNat DEF EndsGrow
  <2> QED
    BY <1>7, <2>1, <2>2, <2>3
<1>9. TypeOK'
  BY <1>4, <1>8 DEF TypeOK
<1>10. LockHeld'
  BY DEF LockHeld
<1>11. EndsGrow'
  BY <1>1 DEF EndsGrow
<1>12. HistoryExact'
  <2>1. \A i \in 1..Len(hist') : hist'[i] = HistFirst + 1 + i
    BY <1>3, <1>4, <1>5, EndNat DEF HistoryExact
  <2>2. HistFirst + 1 > 0 => End(Sent) - End(HistFirst) > cap
    BY <1>2, <1>3 DEF HistoryExact
  <2>3. HistFirst + 1 - 1 = HistFirst
    BY <1>5
  <2>4. Len(hist') <= Sent /\ Len(hist') > 0
    BY <1>2, <1>3, <1>4, EndNat DEF HistoryExact
  <2> QED
    BY <1>1, <1>2, <1>5, <1>8, <2>1, <2>2, <2>3, <2>4 DEF HistoryExact
<1>13. SnapshotContiguous'
  BY <1>1 DEF SnapshotContiguous
<1>14. WalkExact'
  BY BusAssumption DEF WalkExact, LockHeld
<1> QED
  BY <1>9, <1>10, <1>11, <1>12, <1>13, <1>14

LEMMA PublishDoneInv == ASSUME BusInv, PublishDone PROVE BusInv'
<1> USE DEF BusInv, PublishDone
<1>1. Sent' = Sent /\ (\A n : End(n)' = End(n)) /\ Stored' = Stored /\ HistFirst' = HistFirst
  BY EndStable DEF Stored, HistFirst
<1>2. TypeOK'
  BY DEF TypeOK
<1>3. LockHeld'
  BY BusAssumption DEF LockHeld
<1>4. EndsGrow'
  BY <1>1 DEF EndsGrow
<1>5. HistoryExact'
  <2>1. bytes <= cap \/ Len(hist) <= 1
    BY BusAssumption DEF OverCap, TypeOK
  <2> QED
    BY <1>1, <2>1 DEF HistoryExact
<1>6. SnapshotContiguous'
  BY <1>1 DEF SnapshotContiguous
<1>7. WalkExact'
  BY BusAssumption DEF WalkExact, LockHeld
<1> QED
  BY <1>2, <1>3, <1>4, <1>5, <1>6, <1>7

-----------------------------------------------------------------------------
(* The listeners.                                                          *)

\* A step that leaves the stream and the history alone keeps what is said of
\* them.
LEMMA HistoryStable ==
  ASSUME BusInv, UNCHANGED <<cap, ends, hist, bytes, pub>>
  PROVE  /\ Sent' = Sent /\ \A n : End(n)' = End(n)
         /\ EndsGrow' /\ HistoryExact'
<1>1. Sent' = Sent /\ \A n : End(n)' = End(n)
  BY EndStable
<1>2. Stored' = Stored /\ HistFirst' = HistFirst
  BY <1>1 DEF Stored, HistFirst
<1> QED
  BY <1>1, <1>2 DEF BusInv, EndsGrow, HistoryExact

LEMMA SubscribeReceiverInv ==
  ASSUME BusInv, NEW l \in Listeners, SubscribeReceiver(l)
  PROVE  BusInv'
<1> USE DEF BusInv, SubscribeReceiver
<1>1. /\ Sent' = Sent /\ \A n : End(n)' = End(n)
      /\ EndsGrow' /\ HistoryExact'
  BY HistoryStable
<1>2. Sent \in Nat /\ snap[l] = <<>> /\ Len(snap[l]) = 0
  BY EndNat DEF SnapshotContiguous
<1>3. TypeOK'
  BY <1>2 DEF TypeOK
<1>4. LockHeld'
  BY BusAssumption DEF LockHeld, TypeOK
<1>5. SnapshotContiguous'
  BY <1>1, <1>2 DEF SnapshotContiguous, TypeOK
<1>6. WalkExact'
  <2>1. \A m \in Listeners \ {l} : lpc'[m] # "walk"
    BY BusAssumption DEF LockHeld, TypeOK
  <2>2. lpc'[l] = "walk" => cap' > 0
    BY BusAssumption DEF TypeOK
  <2>3. next'[l] = Sent /\ snap'[l] = snap[l] /\ Len(snap'[l]) <= Len(hist)
    BY <1>2 DEF TypeOK
  <2>4. acc' = 0 /\ End(Sent) - End(Sent - 0) = 0
    BY <1>2, EndNat
  <2> QED
    BY <1>1, <1>2, <2>1, <2>2, <2>3, <2>4 DEF WalkExact
<1> QED
  BY <1>1, <1>3, <1>4, <1>5, <1>6

\* While a listener walks, the history ends with the last packet sent.
LEMMA WalkFacts ==
  ASSUME BusInv, NEW l \in Listeners, lpc[l] = "walk"
  PROVE  /\ lock = l /\ pub = "send" /\ Stored = Sent
         /\ cap \in Nat /\ cap > 0 /\ next[l] = Sent /\ Sent \in Nat
         /\ Len(snap[l]) \in Nat /\ Len(hist) \in Nat
         /\ Len(snap[l]) <= Len(hist) /\ Len(hist) <= Sent
         /\ acc = End(Sent) - End(Sent - Len(snap[l]))
         /\ bytes = End(Sent) - End(Sent - Len(hist))
<1> USE DEF BusInv
<1>1. lock = l /\ pub = "send"
  BY BusAssumption DEF LockHeld
<1>2. Stored = Sent /\ HistFirst = Sent - Len(hist)
  BY <1>1 DEF Stored, HistFirst
<1>3. cap \in Nat /\ cap > 0 /\ next[l] = Sent /\ Sent \in Nat
  BY BusAssumption, EndNat DEF WalkExact, TypeOK
<1>4. Len(snap[l]) \in Nat /\ Len(hist) \in Nat
  BY DEF TypeOK
<1> QED
  BY <1>1, <1>2, <1>3, <1>4 DEF WalkExact, HistoryExact

LEMMA WalkTakeInv ==
  ASSUME BusInv, NEW l \in Listeners, WalkTake(l)
  PROVE  BusInv'
<1>0. PICK c : c = Sent - Len(snap[l])
  OBVIOUS
<1> USE DEF BusInv, WalkTake
<1>1. /\ Sent' = Sent /\ \A n : End(n)' = End(n)
      /\ EndsGrow' /\ HistoryExact'
  BY HistoryStable
<1>2. /\ lock = l /\ pub = "send" /\ Stored = Sent
      /\ cap \in Nat /\ cap > 0 /\ next[l] = Sent /\ Sent \in Nat
      /\ Len(snap[l]) \in Nat /\ Len(hist) \in Nat
      /\ Len(snap[l]) < Len(hist) /\ Len(hist) <= Sent
      /\ acc = End(Sent) - End(c)
  BY <1>0, WalkFacts DEF WalkGoesOn
<1>3. c \in 1..Sent /\ Candidate(l) = c
  <2>1. Len(hist) - Len(snap[l]) \in 1..Len(hist)
    BY <1>2
  <2>2. hist[Len(hist) - Len(snap[l])] = HistFirst + (Len(hist) - Len(snap[l]))
    BY <2>1 DEF HistoryExact
  <2>3. HistFirst + (Len(hist) - Len(snap[l])) = c /\ c \in 1..Sent
    BY <1>0, <1>2 DEF HistFirst
  <2> QED
    BY <2>2, <2>3 DEF Candidate
<1>4. End(c) \in Nat /\ End(c - 1) \in Nat /\ End(Sent) \in Nat /\ End(c - 1) < End(c)
      /\ End(c) <= End(Sent)
  <2>1. c \in 0..Sent /\ c - 1 \in 0..Sent /\ Sent \in 0..Sent /\ c - 1 < c
    BY <1>2, <1>3
  <2>2. End(c) \in Nat /\ End(c - 1) \in Nat /\ End(Sent) \in Nat /\ End(c - 1) < End(c)
    BY <2>1, EndNat DEF EndsGrow
  <2>3. c = Sent \/ c < Sent
    BY <1>2, <1>3
  <2>4. End(c) <= End(Sent)
    BY <2>1, <2>2, <2>3 DEF EndsGrow
  <2> QED
    BY <2>2, <2>4
<1>5. acc' = End(Sent) - End(c - 1) /\ acc' \in Nat
  <2>1. acc' = acc + Size(c) /\ Size(c) = End(c) - End(c - 1)
    BY <1>3 DEF Size
  <2> QED
    BY <1>2, <1>4, <2>1
<1>6. /\ snap[l] \in Seq(Nat) /\ <<c>> \in Seq(Nat) /\ snap \in [Listeners -> Seq(Nat)]
      /\ snap' = [snap EXCEPT ![l] = <<c>> \o snap[l]]
  BY <1>3 DEF TypeOK
<1>7. /\ snap'[l] = <<c>> \o snap[l] /\ snap'[l] \in Seq(Nat)
      /\ Len(snap'[l]) = Len(snap[l]) + 1
      /\ snap'[l][1] = c
      /\ \A i \in 2..(Len(snap[l]) + 1) : snap'[l][i] = snap[l][i - 1]
  BY <1>6
<1>12. /\ Len(snap'[l]) \in Nat /\ Len(snap'[l]) <= Sent /\ Len(snap'[l]) <= Len(hist)
       /\ Sent - Len(snap'[l]) = c - 1
  <2> HIDE DEF BusInv, WalkTake
  <2>1. Len(snap'[l]) = Len(snap[l]) + 1
    BY <1>7
  <2> QED
    BY <1>0, <1>2, <2>1
<1>8. TypeOK'
  BY <1>5, <1>6, <1>7 DEF TypeOK
<1>9. LockHeld'
  BY DEF LockHeld
<1>10. SnapshotContiguous'
  <2>1. /\ Len(snap'[l]) <= next'[l] /\ next'[l] <= Sent
        /\ \A i \in 1..Len(snap'[l]) : snap'[l][i] = next'[l] - Len(snap'[l]) + i
    <3>1. \A i \in 1..Len(snap[l]) : snap[l][i] = c + i
      BY <1>0, <1>2 DEF SnapshotContiguous
    <3>2. ASSUME NEW i \in 1..(Len(snap[l]) + 1) PROVE snap'[l][i] = c - 1 + i
      <4>1. CASE i = 1
        BY <1>3, <1>7, <4>1
      <4>2. CASE i # 1
        <5>1. i - 1 \in 1..Len(snap[l]) /\ i \in 2..(Len(snap[l]) + 1)
          BY <1>2, <4>2
        <5>2. snap'[l][i] = c + (i - 1)
          BY <1>7, <3>1, <5>1
        <5> QED
          BY <1>2, <1>3, <5>2
      <4> QED
        BY <4>1, <4>2
    <3>3. /\ next'[l] = Sent /\ Len(snap'[l]) <= Sent
          /\ next'[l] - Len(snap'[l]) = c - 1
      BY <1>2, <1>12
    <3> HIDE DEF BusInv, WalkTake
    <3>4. Len(snap'[l]) = Len(snap[l]) + 1
      BY <1>7
    <3>5. ASSUME NEW i \in 1..Len(snap'[l])
          PROVE  snap'[l][i] = next'[l] - Len(snap'[l]) + i
      BY <3>2, <3>3, <3>4
    <3>6. Len(snap'[l]) <= next'[l] /\ next'[l] <= Sent
      BY <1>2, <3>3
    <3> QED
      BY <3>5, <3>6
  <2>2. \A m \in Listeners \ {l} : snap'[m] = snap[m]
    BY <1>6
  <2> QED
    BY <1>1, <2>1, <2>2 DEF SnapshotContiguous
<1>11. WalkExact'
  <2>1. \A m \in Listeners \ {l} : lpc[m] # "walk"
    BY <1>2 DEF LockHeld
  <2> QED
    BY <1>1, <1>2, <1>5, <1>12, <2>1 DEF WalkExact
<1> QED
  BY <1>1, <1>8, <1>9, <1>10, <1>11

LEMMA WalkDoneInv ==
  ASSUME BusInv, NEW l \in Listeners, WalkDone(l)
  PROVE  BusInv'
<1> USE DEF BusInv, WalkDone
<1>1. /\ Sent' = Sent /\ \A n : End(n)' = End(n)
      /\ EndsGrow' /\ HistoryExact'
  BY HistoryStable
<1>2. TypeOK'
  BY DEF TypeOK
<1>3. LockHeld'
  BY BusAssumption DEF LockHeld, TypeOK
<1>4. SnapshotContiguous'
  BY <1>1 DEF SnapshotContiguous, TypeOK
<1>5. WalkExact'
  BY <1>1 DEF WalkExact, TypeOK
<1> QED
  BY <1>1, <1>2, <1>3, <1>4, <1>5

\* Joining live, reading on and leaving: nobody else's subscription moves.
LEMMA ReadInv ==
  ASSUME BusInv, NEW l \in Listeners,
         SubscribeLive(l) \/ Replay(l) \/ Receive(l) \/ Lagged(l) \/ Unsubscribe(l)
  PROVE  BusInv'
<1> USE DEF BusInv
<1>1. /\ Sent' = Sent /\ \A n : End(n)' = End(n)
      /\ EndsGrow' /\ HistoryExact'
  BY HistoryStable DEF SubscribeLive, Replay, Receive, Lagged, Unsubscribe
<1>2. Sent \in Nat /\ Ring \in Nat \ {0} /\ snap[l] \in Seq(Nat) /\ next[l] \in Nat
  BY EndNat, BusAssumption DEF TypeOK
<1>3. CASE SubscribeLive(l)
  <2> USE <1>3 DEF SubscribeLive
  <2>1. snap[l] = <<>> /\ Len(snap[l]) = 0
    BY DEF SnapshotContiguous
  <2>2. TypeOK' /\ LockHeld' /\ WalkExact'
    BY <1>1, <1>2 DEF TypeOK, LockHeld, WalkExact
  <2>3. SnapshotContiguous'
    BY <1>1, <1>2, <2>1 DEF SnapshotContiguous, TypeOK
  <2> QED
    BY <1>1, <2>2, <2>3
<1>4. CASE Replay(l)
  <2> USE <1>4 DEF Replay
  <2>1. /\ snap'[l] \in Seq(Nat) /\ Len(snap'[l]) = Len(snap[l]) - 1 /\ Len(snap[l]) > 0
        /\ \A i \in 1..Len(snap'[l]) : snap'[l][i] = snap[l][i + 1]
        /\ \A m \in Listeners \ {l} : snap'[m] = snap[m]
    BY <1>2 DEF TypeOK
  <2>2. TypeOK' /\ LockHeld'
    BY <2>1 DEF TypeOK, LockHeld
  <2>3. WalkExact'
    BY <1>1, <2>1 DEF WalkExact
  <2>4. SnapshotContiguous'
    <3>1. /\ Len(snap'[l]) <= next[l] /\ next[l] <= Sent
          /\ \A i \in 1..Len(snap'[l]) : snap'[l][i] = next[l] - Len(snap'[l]) + i
      <4>1. Len(snap[l]) \in Nat /\ Len(snap'[l]) \in Nat
        BY <1>2, <2>1
      <4>2. ASSUME NEW i \in 1..Len(snap'[l])
            PROVE  snap'[l][i] = next[l] - Len(snap'[l]) + i
        <5>1. i + 1 \in 1..Len(snap[l])
          BY <2>1, <4>1
        <5>2. snap[l][i + 1] = next[l] - Len(snap[l]) + (i + 1)
          BY <5>1 DEF SnapshotContiguous
        <5> QED
          BY <1>2, <2>1, <4>1, <5>2
      <4> QED
        BY <1>2, <2>1, <4>1, <4>2 DEF SnapshotContiguous
    <3> QED
      BY <1>1, <2>1, <3>1 DEF SnapshotContiguous
  <2> QED
    BY <1>1, <2>2, <2>3, <2>4
<1>5. CASE Receive(l) \/ Lagged(l)
  <2> USE <1>5 DEF Receive, Lagged, Overwritten
  <2>1. Len(snap[l]) = 0 /\ next'[l] \in Nat /\ next'[l] <= Sent
    BY <1>2 DEF TypeOK
  <2>2. TypeOK' /\ LockHeld' /\ WalkExact'
    BY <1>1, <1>2, <2>1 DEF TypeOK, LockHeld, WalkExact
  <2>3. SnapshotContiguous'
    <3>1. \A m \in Listeners \ {l} : next'[m] = next[m]
      BY DEF TypeOK
    <3>2. snap'[l] = <<>> /\ snap' = snap /\ lpc' = lpc /\ lpc[l] = "on"
      OBVIOUS
    <3>3. \A m \in Listeners \ {l} :
            /\ Len(snap'[m]) <= next'[m] /\ next'[m] <= Sent
            /\ \A i \in 1..Len(snap'[m]) : snap'[m][i] = next'[m] - Len(snap'[m]) + i
            /\ lpc'[m] = "out" => snap'[m] = <<>>
      BY <3>1, <3>2 DEF SnapshotContiguous
    <3> QED
      BY <1>1, <2>1, <3>2, <3>3 DEF SnapshotContiguous
  <2> QED
    BY <1>1, <2>2, <2>3
<1>6. CASE Unsubscribe(l)
  <2> USE <1>6 DEF Unsubscribe
  <2>1. snap'[l] = <<>> /\ Len(snap'[l]) = 0 /\ \A m \in Listeners \ {l} : snap'[m] = snap[m]
    BY DEF TypeOK
  <2>2. TypeOK' /\ LockHeld' /\ WalkExact'
    BY <1>1, <2>1 DEF TypeOK, LockHeld, WalkExact
  <2>3. SnapshotContiguous'
    BY <1>1, <1>2, <2>1 DEF SnapshotContiguous, TypeOK
  <2> QED
    BY <1>1, <2>2, <2>3
<1> QED
  BY <1>3, <1>4, <1>5, <1>6

-----------------------------------------------------------------------------
(* Theorems.                                                               *)

LEMMA InitInv == Init => BusInv
<1> SUFFICES ASSUME Init PROVE BusInv
  OBVIOUS
<1> USE DEF Init
<1>1. Sent = 0 /\ Stored = 0 /\ HistFirst = 0 /\ Len(hist) = 0
  BY DEF Sent, Stored, HistFirst
<1>2. TypeOK
  BY DEF TypeOK
<1>3. LockHeld
  BY BusAssumption DEF LockHeld
<1>4. EndsGrow
  BY <1>1 DEF EndsGrow
<1>5. HistoryExact
  BY <1>1, BusAssumption DEF HistoryExact, End
<1>6. SnapshotContiguous /\ WalkExact
  BY <1>1 DEF SnapshotContiguous, WalkExact
<1> QED
  BY <1>2, <1>3, <1>4, <1>5, <1>6 DEF BusInv

LEMMA StepInv == BusInv /\ [Next]_vars => BusInv'
<1>1. CASE UNCHANGED vars
  BY <1>1 DEF vars, BusInv, TypeOK, LockHeld, EndsGrow, HistoryExact, SnapshotContiguous,
              WalkExact, Stored, HistFirst, Sent, End
<1> QED
  BY <1>1, SendInv, PushInv, EvictInv, PublishDoneInv, SubscribeReceiverInv, WalkTakeInv,
     WalkDoneInv, ReadInv DEF Next, PublisherStep, ListenerStep

\* The history and every snapshot are exact in every reachable state.
THEOREM Invariance == SafetySpec => []BusInv
BY InitInv, StepInv, PTL DEF SafetySpec

-----------------------------------------------------------------------------
(* The bus implements PacketStream.                                        *)

\* A listener stands as many packets before its receiver as its snapshot has
\* left.
AtExact ==
  \A l \in Listeners :
    /\ lpc[l] # "on" => at[l] = Out
    /\ lpc[l] = "on" => /\ at[l] = next[l] - Len(snap[l])
                        /\ at[l] \in Nat /\ at[l] <= Sent /\ at[l] # Out

LEMMA AtValue == BusInv => AtExact
<1> SUFFICES ASSUME BusInv, NEW l \in Listeners
             PROVE  /\ lpc[l] # "on" => at[l] = Out
                    /\ lpc[l] = "on" => /\ at[l] = next[l] - Len(snap[l])
                                        /\ at[l] \in Nat /\ at[l] <= Sent /\ at[l] # Out
  BY DEF AtExact
<1>1. snap[l] \in Seq(Nat) /\ Len(snap[l]) \in Nat /\ next[l] \in Nat /\ Sent \in Nat
  BY EndNat DEF BusInv, TypeOK
<1>2. Len(snap[l]) <= next[l] /\ next[l] <= Sent
  BY DEF BusInv, SnapshotContiguous
<1>3. ASSUME snap[l] # <<>> PROVE snap[l][1] - 1 = next[l] - Len(snap[l])
  <2>1. 1 \in 1..Len(snap[l])
    BY <1>1, <1>3
  <2>2. snap[l][1] = next[l] - Len(snap[l]) + 1
    BY <2>1 DEF BusInv, SnapshotContiguous
  <2> QED
    BY <1>1, <2>2
<1>4. snap[l] = <<>> => next[l] = next[l] - Len(snap[l])
  BY <1>1
<1>5. lpc[l] = "on" => at[l] = next[l] - Len(snap[l])
  BY <1>3, <1>4 DEF at, At
<1>6. lpc[l] # "on" => at[l] = Out
  BY DEF at, At
<1> QED
  BY <1>1, <1>2, <1>5, <1>6, BusAssumption

LEMMA AtValueNext == BusInv' => AtExact'
BY AtValue, PTL

\* Who does not move stays where it is.
LEMMA AtStable ==
  ASSUME NEW l \in Listeners, lpc'[l] = lpc[l], snap'[l] = snap[l], next'[l] = next[l]
  PROVE  at'[l] = at[l]
BY DEF at, At

\* A step of one listener moves that listener only.
LEMMA OneMoves ==
  ASSUME NEW l \in Listeners,
         \A m \in Listeners \ {l} : lpc'[m] = lpc[m] /\ snap'[m] = snap[m] /\ next'[m] = next[m],
         NEW n, at'[l] = n
  PROVE  at' = [at EXCEPT ![l] = n]
<1>1. \A m \in Listeners \ {l} : at'[m] = at[m]
  BY AtStable
<1>2. at' = [m \in Listeners |-> at'[m]] /\ at = [m \in Listeners |-> at[m]]
  BY DEF at
<1> QED
  BY <1>1, <1>2

\* A publisher's steps are Publish or nothing.
LEMMA PublisherRefines ==
  ASSUME BusInv, PublisherStep
  PROVE  Stream!Publish \/ UNCHANGED <<cap, ends, at>>
<1>1. at' = at
  BY AtStable DEF PublisherStep, Send, Push, Evict, PublishDone, at, At
<1>2. CASE Send
  BY <1>1, <1>2 DEF Send, Stream!Publish, Stream!Published, Stream!End, Sent, End
<1>3. CASE Push \/ Evict \/ PublishDone
  BY <1>1, <1>3 DEF Push, Evict, PublishDone
<1> QED
  BY <1>2, <1>3 DEF PublisherStep

\* A snapshot that is complete is exactly the burst that is promised.
LEMMA WalkDoneRefines ==
  ASSUME BusInv, BusInv', NEW l \in Listeners, WalkDone(l)
  PROVE  Stream!JoinBurst(l) \/ Stream!JoinLive(l)
<1>1. PICK k : k = Sent - Len(snap[l])
  OBVIOUS
<1>2. /\ lock = l /\ pub = "send" /\ Stored = Sent
      /\ cap \in Nat /\ cap > 0 /\ next[l] = Sent /\ Sent \in Nat
      /\ Len(snap[l]) \in Nat /\ Len(hist) \in Nat
      /\ Len(snap[l]) <= Len(hist) /\ Len(hist) <= Sent
      /\ acc = End(Sent) - End(k)
      /\ bytes = End(Sent) - End(Sent - Len(hist))
  BY <1>1, WalkFacts DEF WalkDone
<1>3. k \in 0..Sent /\ End(k) \in Nat /\ End(Sent) \in Nat /\ HistFirst = Sent - Len(hist)
  <2>1. k \in 0..Sent /\ HistFirst = Sent - Len(hist)
    BY <1>1, <1>2 DEF HistFirst
  <2> QED
    BY <1>2, <2>1, EndNat DEF BusInv
<1>4. at[l] = Out /\ at'[l] = k
  <2>1. at[l] = Out
    BY AtValue DEF WalkDone, AtExact
  <2>2. lpc'[l] = "on" /\ next'[l] = Sent /\ snap'[l] = snap[l]
    BY <1>2 DEF WalkDone, BusInv, TypeOK
  <2> QED
    BY <1>1, <2>1, <2>2, AtValueNext DEF AtExact
<1>5. at' = [at EXCEPT ![l] = k] /\ UNCHANGED <<cap, ends>>
  BY <1>4, OneMoves DEF WalkDone, BusInv, TypeOK
<1>6. CASE Len(snap[l]) = 0
  <2>1. k = Len(ends)
    BY <1>1, <1>2, <1>6 DEF Sent
  <2> QED
    BY <1>4, <1>5, <2>1 DEF Stream!JoinLive, Stream!Move, Stream!Published
<1>7. CASE Len(snap[l]) > 0
  <2>1. k \in 0..(Sent - 1)
    BY <1>1, <1>2, <1>7
  <2>2. End(Sent) - End(k) <= cap \/ k = Sent - 1
    <3>1. CASE k = Sent - 1
      BY <3>1
    <3>2. CASE k # Sent - 1
      <4>1. bytes <= cap
        <5>1. Len(hist) > 1
          BY <1>1, <1>2, <2>1, <3>2
        <5> QED
          BY <1>2, <5>1 DEF BusInv, HistoryExact
      <4>2. Sent - Len(hist) \in 0..Sent /\ Sent - Len(hist) <= k
        BY <1>1, <1>2
      <4>3. End(Sent - Len(hist)) <= End(k) /\ End(Sent - Len(hist)) \in Nat
        <5>1. Sent - Len(hist) = k \/ Sent - Len(hist) < k
          BY <1>2, <1>3, <4>2
        <5> QED
          BY <1>3, <4>2, <5>1, EndNat DEF BusInv, EndsGrow
      <4> QED
        BY <1>2, <1>3, <4>1, <4>3
    <3> QED
      BY <3>1, <3>2
  <2>3. ASSUME k # 0 PROVE End(Sent) - End(k - 1) > cap
    <3>1. k - 1 \in 0..Sent /\ End(k - 1) \in Nat /\ End(k - 1) < End(k)
      BY <1>3, <2>1, <2>3, EndNat DEF BusInv, EndsGrow
    <3>2. CASE acc >= cap
      BY <1>2, <1>3, <3>1, <3>2
    <3>3. CASE Len(snap[l]) = Len(hist)
      <4>1. k = HistFirst
        BY <1>1, <1>2, <1>3, <3>3
      <4> QED
        BY <1>2, <1>3, <2>1, <2>3, <4>1 DEF BusInv, HistoryExact
    <3>4. CASE Len(snap[l]) < Len(hist) /\ acc + Size(Candidate(l)) > cap
      <4>1. Len(hist) - Len(snap[l]) \in 1..Len(hist)
        BY <1>2, <3>4
      <4>2. hist[Len(hist) - Len(snap[l])] = HistFirst + (Len(hist) - Len(snap[l]))
        BY <4>1 DEF BusInv, HistoryExact
      <4>3. Candidate(l) = k
        BY <1>1, <1>2, <1>3, <4>2 DEF Candidate
      <4>4. Size(k) = End(k) - End(k - 1)
        BY DEF Size
      <4> QED
        BY <1>2, <1>3, <3>1, <3>4, <4>3, <4>4
    <3> QED
      <4>1. ~(acc < cap) \/ ~(Len(snap[l]) < Len(hist)) \/ ~(acc + Size(Candidate(l)) <= cap)
        BY <1>2, <1>7 DEF WalkDone, WalkGoesOn
      <4>2. acc \in Nat
        BY DEF BusInv, TypeOK
      <4>3. ASSUME Len(snap[l]) < Len(hist) PROVE Size(Candidate(l)) \in Int
        <5>1. Len(hist) - Len(snap[l]) \in 1..Len(hist)
          BY <1>2, <4>3
        <5>2. hist[Len(hist) - Len(snap[l])] = HistFirst + (Len(hist) - Len(snap[l]))
          BY <5>1 DEF BusInv, HistoryExact
        <5>3. Candidate(l) = k
          BY <1>1, <1>2, <1>3, <5>2 DEF Candidate
        <5> QED
          BY <1>3, <3>1, <5>3 DEF Size
      <4> QED
        BY <1>2, <3>2, <3>3, <3>4, <4>1, <4>2, <4>3
  <2>4. Stream!IsBurst(k)
    BY <2>1, <2>2, <2>3 DEF Stream!IsBurst, Stream!Published, Stream!End, Sent, End
  <2>5. k \in 0..Stream!Published
    BY <1>3 DEF Stream!Published, Sent
  <2> QED
    BY <1>2, <1>4, <1>5, <2>4, <2>5 DEF Stream!JoinBurst, Stream!Move
<1> QED
  BY <1>2, <1>6, <1>7

\* Every step of a listener is one of PacketStream, or nothing.
LEMMA ListenerRefines ==
  ASSUME BusInv, BusInv', NEW l \in Listeners, ListenerStep(l)
  PROVE  \/ Stream!JoinBurst(l) \/ Stream!JoinLive(l) \/ Stream!Deliver(l)
         \/ Stream!Lag(l) \/ Stream!Leave(l) \/ UNCHANGED <<cap, ends, at>>
<1> USE DEF Stream!Move, Stream!Published
<1>1. /\ snap[l] \in Seq(Nat) /\ Len(snap[l]) \in Nat /\ next[l] \in Nat
      /\ Sent \in Nat /\ Sent = Len(ends) /\ Ring \in Nat \ {0}
      /\ Len(snap[l]) <= next[l] /\ next[l] <= Sent
      /\ lpc \in [Listeners -> {"out", "walk", "on"}]
      /\ snap \in [Listeners -> Seq(Nat)] /\ next \in [Listeners -> Nat]
  <2>1. Sent \in Nat /\ Sent = Len(ends) /\ Ring \in Nat \ {0}
    BY EndNat, BusAssumption DEF BusInv, Sent
  <2>2. /\ lpc \in [Listeners -> {"out", "walk", "on"}]
        /\ snap \in [Listeners -> Seq(Nat)] /\ next \in [Listeners -> Nat]
    BY DEF BusInv, TypeOK
  <2>3. Len(snap[l]) <= next[l] /\ next[l] <= Sent
    BY DEF BusInv, SnapshotContiguous
  <2> QED
    BY <2>1, <2>2, <2>3
<1>2. /\ lpc[l] # "on" => at[l] = Out
      /\ lpc[l] = "on" => at[l] = next[l] - Len(snap[l]) /\ at[l] # Out
  BY AtValue DEF AtExact
<1>3. /\ lpc'[l] # "on" => at'[l] = Out
      /\ (lpc'[l] = "on" /\ snap'[l] = <<>>) => at'[l] = next'[l]
  BY DEF at, At
<1>4. lpc'[l] = "on" => at'[l] = next'[l] - Len(snap'[l])
  BY AtValueNext DEF AtExact
<1>5. CASE SubscribeReceiver(l)
  <2> USE <1>5 DEF SubscribeReceiver
  <2>1. snap[l] = <<>>
    BY DEF BusInv, SnapshotContiguous
  <2>2. CASE cap = 0
    <3>1. at'[l] = Sent
      BY <1>1, <1>3, <2>1, <2>2
    <3> QED
      BY <1>1, <1>2, <2>2, <3>1, OneMoves DEF Stream!JoinLive
  <2>3. CASE cap # 0
    <3>1. at'[l] = at[l]
      BY <1>1, <1>2, <1>3, <2>3
    <3>2. \A m \in Listeners \ {l} : at'[m] = at[m]
      BY <1>1, <2>3, AtStable
    <3> QED
      BY <3>1, <3>2 DEF at
  <2> QED
    BY <2>2, <2>3
<1>6. CASE WalkTake(l)
  <2>1. at'[l] = at[l]
    BY <1>2, <1>3, <1>6 DEF WalkTake
  <2>2. \A m \in Listeners \ {l} : at'[m] = at[m]
    BY <1>1, <1>6, AtStable DEF WalkTake
  <2> QED
    BY <1>6, <2>1, <2>2 DEF at, WalkTake
<1>7. CASE WalkDone(l)
  BY <1>7, WalkDoneRefines
<1>8. CASE SubscribeLive(l)
  <2>1. snap[l] = <<>>
    BY <1>8 DEF BusInv, SnapshotContiguous, SubscribeLive
  <2>2. at'[l] = Sent
    BY <1>1, <1>3, <1>8, <2>1 DEF SubscribeLive
  <2> QED
    BY <1>1, <1>2, <1>8, <2>2, OneMoves DEF SubscribeLive, Stream!JoinLive
<1>9. CASE Replay(l)
  <2>1. Len(snap[l]) > 0 /\ Len(snap'[l]) = Len(snap[l]) - 1 /\ next'[l] = next[l]
    BY <1>1, <1>9 DEF Replay
  <2>2. at'[l] = at[l] + 1 /\ at[l] < Sent
    BY <1>1, <1>2, <1>4, <1>9, <2>1 DEF Replay
  <2> QED
    BY <1>1, <1>2, <1>9, <2>2, OneMoves DEF Replay, Stream!Deliver
<1>10. CASE Receive(l)
  <2>1. at'[l] = at[l] + 1 /\ at[l] < Sent
    BY <1>1, <1>2, <1>3, <1>10 DEF Receive
  <2> QED
    BY <1>1, <1>2, <1>10, <2>1, OneMoves DEF Receive, Stream!Deliver
<1>11. CASE Lagged(l)
  <2>1. at'[l] = Sent - Ring /\ Sent - at[l] > Ring
    BY <1>1, <1>2, <1>3, <1>11 DEF Lagged, Overwritten
  <2> QED
    BY <1>1, <1>2, <1>11, <2>1, OneMoves DEF Lagged, Stream!Lag
<1>12. CASE Unsubscribe(l)
  <2>1. at'[l] = Out
    BY <1>1, <1>3, <1>12 DEF Unsubscribe
  <2> QED
    BY <1>1, <1>2, <1>12, <2>1, OneMoves DEF Unsubscribe, Stream!Leave
<1> QED
  BY <1>5, <1>6, <1>7, <1>8, <1>9, <1>10, <1>11, <1>12 DEF ListenerStep

\* The bus keeps the promise of PacketStream, for any number of listeners,
\* packet sizes, bursts and channel capacities.
THEOREM Implements == SafetySpec => StreamKept
<1>1. Init => Stream!StreamInit
  BY DEF Init, Stream!StreamInit, at, At
<1>2. BusInv /\ BusInv' /\ [Next]_vars => [Stream!StreamNext]_(Stream!svars)
  <2> SUFFICES ASSUME BusInv, BusInv', [Next]_vars
               PROVE  Stream!StreamNext \/ UNCHANGED <<cap, ends, at>>
    BY DEF Stream!svars
  <2>1. CASE UNCHANGED vars
    BY <2>1 DEF vars, at, At
  <2>2. CASE PublisherStep
    BY <2>2, PublisherRefines DEF Stream!StreamNext
  <2>3. CASE \E l \in Listeners : ListenerStep(l)
    BY <2>3, ListenerRefines DEF Stream!StreamNext
  <2> QED
    BY <2>1, <2>2, <2>3 DEF Next
<1> QED
  BY <1>1, <1>2, Invariance, PTL DEF SafetySpec, StreamKept, Stream!StreamSpec
=============================================================================
