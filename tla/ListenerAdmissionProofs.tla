---------------------- MODULE ListenerAdmissionProofs ----------------------
(***************************************************************************)
(* Proofs about ListenerAdmission, for any finite number of listeners, any *)
(* mounts and any limits.                                                  *)
(***************************************************************************)
EXTENDS ListenerAdmission, FiniteSetTheorems, TLAPS

\* Listeners let in while nobody else was on the way, and those of them that
\* were counted against mount m or are past its check.
Alone == {l \in Listeners : pc[l] # "out" /\ l \notin crowded}
Past(m) == {l \in Alone : pc[l] \in Holding \cup {"subscribe"} /\ tuned[l] = m}

\* Of those on the way only one can have been alone.
OneAlone ==
  \A k, l \in Alone : pc[k] \in Admitting /\ pc[l] \in Admitting => k = l

\* What the checks bound: the listeners that met no race.
AloneBounded ==
  /\ Cardinality(Alone) <= MaxGlobal
  /\ \A m \in Mounts : Cardinality(Past(m)) <= MaxMount

AdmissionInv == TypeOK /\ OneAlone /\ AloneBounded

USE AdmissionAssumption

LEMMA Finite ==
  ASSUME NEW S \in SUBSET Listeners, NEW T \in SUBSET S
  PROVE  /\ IsFiniteSet(S) /\ IsFiniteSet(T)
         /\ Cardinality(S) \in Nat /\ Cardinality(T) \in Nat
         /\ Cardinality(T) <= Cardinality(S)
<1>1. IsFiniteSet(S)
  BY FS_Subset
<1>2. IsFiniteSet(T) /\ Cardinality(T) <= Cardinality(S)
  BY <1>1, FS_Subset
<1> QED
  BY <1>1, <1>2, FS_CardinalityType

LEMMA OneMore ==
  ASSUME NEW S \in SUBSET Listeners, NEW l \in Listeners,
         NEW T \in SUBSET (S \cup {l}), NEW n \in Nat, Cardinality(S) < n
  PROVE  Cardinality(T) <= n
<1>1. IsFiniteSet(S) /\ Cardinality(S) \in Nat
  BY Finite
<1>2. Cardinality(S \cup {l}) <= Cardinality(S) + 1
  <2>1. Cardinality(S \cup {l}) = IF l \in S THEN Cardinality(S) ELSE Cardinality(S) + 1
    BY <1>1, FS_AddElement, Zenon
  <2> QED
    BY <1>1, <2>1
<1>3. Cardinality(T) <= Cardinality(S \cup {l}) /\ Cardinality(T) \in Nat
      /\ Cardinality(S \cup {l}) \in Nat
  BY Finite
<1> QED
  BY <1>1, <1>2, <1>3

\* A set is no larger than its part in T and its part outside of T together.
LEMMA Split ==
  ASSUME NEW S \in SUBSET Listeners, NEW T, NEW n \in Nat, Cardinality(S \ T) <= n
  PROVE  Cardinality(S) <= n + Cardinality(S \cap T)
<1>1. IsFiniteSet(S) /\ Cardinality(S) \in Nat
  BY Finite
<1>2. Cardinality(S \ T) \in Nat /\ Cardinality(S \cap T) \in Nat
  BY Finite
<1>3. Cardinality(S \ T) = Cardinality(S) - Cardinality(S \cap T)
  BY <1>1, FS_Difference, Zenon
<1> QED
  BY <1>1, <1>2, <1>3

LEMMA InitInv == Init => AdmissionInv
<1> SUFFICES ASSUME Init PROVE AdmissionInv
  OBVIOUS
<1>1. TypeOK
  BY DEF Init, TypeOK, PCs
<1>2. Alone = {}
  BY DEF Init, Alone
<1>3. OneAlone
  BY <1>2 DEF OneAlone
<1>4. \A m \in Mounts : Past(m) = {}
  BY <1>2 DEF Past
<1>5. AloneBounded
  BY <1>2, <1>4, FS_EmptySet DEF AloneBounded
<1> QED
  BY <1>1, <1>3, <1>5 DEF AdmissionInv

\* Nobody new is let in or passes the check of a mount: whoever moves on was
\* there before.
LEMMA NobodyNew ==
  ASSUME AdmissionInv, Alone' \subseteq Alone, \A m \in Mounts : Past(m)' \subseteq Past(m),
         \A l \in Alone' : pc'[l] \in Admitting => pc[l] \in Admitting
  PROVE  (OneAlone /\ AloneBounded)'
<1>1. OneAlone'
  BY DEF AdmissionInv, OneAlone
<1>2. Alone \in SUBSET Listeners /\ \A m \in Mounts : Past(m) \in SUBSET Listeners
  BY DEF Alone, Past
<1>3. Cardinality(Alone') <= MaxGlobal
  <2>1. /\ Cardinality(Alone') <= Cardinality(Alone)
        /\ Cardinality(Alone) \in Nat /\ Cardinality(Alone') \in Nat
    BY <1>2, Finite
  <2> QED
    BY <2>1 DEF AdmissionInv, AloneBounded
<1>4. ASSUME NEW m \in Mounts PROVE Cardinality(Past(m)') <= MaxMount
  <2>1. /\ Cardinality(Past(m)') <= Cardinality(Past(m))
        /\ Cardinality(Past(m)) \in Nat /\ Cardinality(Past(m)') \in Nat
    BY <1>2, Finite
  <2> QED
    BY <2>1 DEF AdmissionInv, AloneBounded
<1> QED
  BY <1>1, <1>3, <1>4 DEF AloneBounded

\* The labels only move within a place where the limits count alike.
LEMMA Moves ==
  ASSUME AdmissionInv, NEW l \in Listeners, NEW label \in PCs, Go(l, label),
         tuned' = tuned, crowded' = crowded, pc[l] # "out",
         label \in Admitting => pc[l] \in Admitting,
         label \in Holding \cup {"subscribe"} => pc[l] \in Holding \cup {"subscribe"}
  PROVE  (OneAlone /\ AloneBounded)'
<1>1. pc' = [pc EXCEPT ![l] = label] /\ pc \in [Listeners -> PCs]
  BY DEF Go, AdmissionInv, TypeOK
<1>2. Alone' \subseteq Alone
  BY <1>1 DEF Alone
<1>3. \A m \in Mounts : Past(m)' \subseteq Past(m)
  BY <1>1, <1>2 DEF Past
<1>4. \A k \in Alone' : pc'[k] \in Admitting => pc[k] \in Admitting
  BY <1>1 DEF Alone
<1> QED
  BY <1>2, <1>3, <1>4, NobodyNew

LEMMA CheckGlobalInv ==
  ASSUME AdmissionInv, NEW l \in Listeners, CheckGlobal(l)
  PROVE  AdmissionInv'
<1> USE DEF CheckGlobal, Go
<1>1. pc \in [Listeners -> PCs] /\ tuned \in [Listeners -> Mounts]
      /\ pc' = [pc EXCEPT ![l] = "mount"] /\ pc[l] = "out"
  BY DEF AdmissionInv, TypeOK
<1>2. TypeOK'
  <2>1. tuned' \in [Listeners -> Mounts]
    BY <1>1
  <2>2. listed' = {k \in Listeners : pc'[k] \in {"prefix", "wait", "write", "leave"}}
    BY <1>1 DEF AdmissionInv, TypeOK
  <2>3. pc' \in [Listeners -> PCs]
    BY <1>1 DEF PCs, Admitting
  <2> QED
    BY <2>1, <2>2, <2>3 DEF AdmissionInv, TypeOK
<1>3. \A m \in Mounts : Past(m)' \subseteq Past(m)
  BY <1>1 DEF Past, Alone, Holding
<1>4. CASE l \in crowded'
  <2>1. Alone' \subseteq Alone
    BY <1>1, <1>4 DEF Alone
  <2>2. \A k \in Alone' : pc'[k] \in Admitting => pc[k] \in Admitting
    BY <1>1, <1>4 DEF Alone
  <2> QED
    BY <1>2, <1>3, <2>1, <2>2, NobodyNew DEF AdmissionInv
<1>5. CASE l \notin crowded'
  <2>1. crowded' = crowded /\ \A k \in Listeners : pc[k] \notin Admitting
    BY <1>5
  <2>2. OneAlone'
    BY <1>1, <2>1 DEF OneAlone, Alone
  <2>3. Alone' \subseteq listed \cup {l}
    BY <1>1, <2>1 DEF Alone, AdmissionInv, TypeOK, PCs, Holding, Admitting
  <2>4. listed \in SUBSET Listeners /\ Cardinality(listed) < MaxGlobal
    BY DEF AdmissionInv, TypeOK, TotalCount
  <2>5. Cardinality(Alone') <= MaxGlobal
    BY <2>3, <2>4, OneMore
  <2>6. ASSUME NEW m \in Mounts PROVE Cardinality(Past(m)') <= MaxMount
    <3>1. Past(m) \in SUBSET Listeners
      BY DEF Past, Alone
    <3>2. /\ Cardinality(Past(m)') <= Cardinality(Past(m))
          /\ Cardinality(Past(m)) \in Nat /\ Cardinality(Past(m)') \in Nat
      BY <1>3, <3>1, Finite
    <3> QED
      BY <3>2 DEF AdmissionInv, AloneBounded
  <2> QED
    BY <1>2, <2>2, <2>5, <2>6 DEF AdmissionInv, AloneBounded
<1> QED
  BY <1>4, <1>5

LEMMA CheckMountInv ==
  ASSUME AdmissionInv, NEW l \in Listeners, CheckMount(l)
  PROVE  AdmissionInv'
<1> USE DEF CheckMount, Go
<1>1. /\ pc \in [Listeners -> PCs] /\ tuned \in [Listeners -> Mounts] /\ pc[l] = "mount"
      /\ UNCHANGED <<tuned, client, ready, listed, kicked, on, drop>>
  BY DEF AdmissionInv, TypeOK
<1>2. CASE ListenerCount(tuned[l]) < MaxMount
  <2>1. pc' = [pc EXCEPT ![l] = "subscribe"] /\ crowded' = crowded
    BY <1>2
  <2>2. TypeOK'
    <3>1. listed' = {k \in Listeners : pc'[k] \in {"prefix", "wait", "write", "leave"}}
      BY <1>1, <2>1 DEF AdmissionInv, TypeOK
    <3>2. pc' \in [Listeners -> PCs]
      BY <1>1, <2>1 DEF PCs, Admitting
    <3> QED
      BY <1>1, <2>1, <3>1, <3>2 DEF AdmissionInv, TypeOK
  <2>3. Alone' = Alone /\ OneAlone'
    BY <1>1, <2>1 DEF Alone, OneAlone, AdmissionInv, Admitting
  <2>4. ASSUME NEW m \in Mounts PROVE Cardinality(Past(m)') <= MaxMount
    <3>1. Past(m) \in SUBSET Listeners
      BY DEF Past, Alone
    <3>2. CASE m # tuned[l] \/ l \in crowded
      <4>1. Past(m)' \subseteq Past(m)
        BY <1>1, <2>1, <3>2 DEF Past, Alone
      <4>2. /\ Cardinality(Past(m)') <= Cardinality(Past(m))
            /\ Cardinality(Past(m)) \in Nat /\ Cardinality(Past(m)') \in Nat
        BY <3>1, <4>1, Finite
      <4> QED
        BY <4>2 DEF AdmissionInv, AloneBounded
    <3>3. CASE m = tuned[l] /\ l \notin crowded
      <4> DEFINE H == {k \in Listeners : pc[k] \in Holding /\ tuned[k] = tuned[l]}
      <4>1. Past(m)' \subseteq H \cup {l}
        BY <1>1, <2>1, <3>3 DEF Past, Alone, AdmissionInv, OneAlone, Admitting, Holding
      <4>2. H \in SUBSET Listeners /\ Cardinality(H) < MaxMount
        BY <1>2 DEF ListenerCount
      <4> HIDE DEF H
      <4> QED
        BY <4>1, <4>2, OneMore
    <3> QED
      BY <3>2, <3>3
  <2> QED
    BY <2>2, <2>3, <2>4 DEF AdmissionInv, AloneBounded
<1>3. CASE ~(ListenerCount(tuned[l]) < MaxMount)
  <2>1. pc' = [pc EXCEPT ![l] = "out"] /\ crowded' = crowded \ {l}
    BY <1>3
  <2>2. TypeOK'
    <3>1. listed' = {k \in Listeners : pc'[k] \in {"prefix", "wait", "write", "leave"}}
      BY <1>1, <2>1 DEF AdmissionInv, TypeOK
    <3>2. pc' \in [Listeners -> PCs]
      BY <1>1, <2>1 DEF PCs
    <3> QED
      BY <1>1, <2>1, <3>1, <3>2 DEF AdmissionInv, TypeOK
  <2>3. Alone' \subseteq Alone
    BY <1>1, <2>1 DEF Alone
  <2>4. \A m \in Mounts : Past(m)' \subseteq Past(m)
    BY <1>1, <2>1, <2>3 DEF Past, Alone
  <2>5. \A k \in Alone' : pc'[k] \in Admitting => pc[k] \in Admitting
    BY <1>1, <2>1 DEF Alone
  <2> QED
    BY <2>2, <2>3, <2>4, <2>5, NobodyNew DEF AdmissionInv
<1> QED
  BY <1>2, <1>3

LEMMA SubscribeInv == ASSUME AdmissionInv, NEW l \in Listeners, Subscribe(l) PROVE AdmissionInv'
<1>1. pc' = [pc EXCEPT ![l] = "register"] /\ pc \in [Listeners -> PCs]
  BY DEF Subscribe, Go, AdmissionInv, TypeOK
<1>2. TypeOK'
  BY <1>1 DEF Subscribe, AdmissionInv, TypeOK, PCs, Admitting
<1>3. (OneAlone /\ AloneBounded)'
  BY Moves DEF Subscribe, Admitting, Holding, PCs
<1> QED
  BY <1>2, <1>3 DEF AdmissionInv

LEMMA RegisterInv == ASSUME AdmissionInv, NEW l \in Listeners, Register(l) PROVE AdmissionInv'
<1>1. PICK label \in {"prefix", "wait"} : Go(l, label)
  BY DEF Register
<1>2. pc' = [pc EXCEPT ![l] = label] /\ pc \in [Listeners -> PCs]
  BY <1>1 DEF Go, AdmissionInv, TypeOK
<1>3. TypeOK'
  BY <1>2 DEF Register, AdmissionInv, TypeOK, PCs, Holding
<1>4. (OneAlone /\ AloneBounded)'
  BY <1>1, Moves DEF Register, Admitting, Holding, PCs
<1> QED
  BY <1>3, <1>4 DEF AdmissionInv

LEMMA EndsInv ==
  ASSUME AdmissionInv, NEW l \in Listeners, pc[l] \in {"prefix", "wait", "write"}, Ends(l)
  PROVE  AdmissionInv'
<1>1. pc' = [pc EXCEPT ![l] = "leave"] /\ pc \in [Listeners -> PCs]
  BY DEF Ends, Go, AdmissionInv, TypeOK
<1>2. TypeOK'
  BY <1>1 DEF Ends, AdmissionInv, TypeOK, PCs
<1>3. (OneAlone /\ AloneBounded)'
  BY Moves DEF Ends, Admitting, Holding, PCs
<1> QED
  BY <1>2, <1>3 DEF AdmissionInv

LEMMA WriteInv ==
  ASSUME AdmissionInv, NEW l \in Listeners, WritePrefix(l) \/ WritePacket(l) \/ Receive(l)
  PROVE  AdmissionInv'
<1>1. ASSUME Ends(l), pc[l] \in {"prefix", "write"} PROVE AdmissionInv'
  BY <1>1, EndsInv
<1>2. ASSUME NEW label \in {"wait", "write"}, Go(l, label),
             pc[l] \in {"prefix", "wait", "write"}, ready' \subseteq ready,
             UNCHANGED <<tuned, client, listed, kicked, crowded, on, drop>>
      PROVE  AdmissionInv'
  <2>1. pc' = [pc EXCEPT ![l] = label] /\ pc \in [Listeners -> PCs]
    BY <1>2 DEF Go, AdmissionInv, TypeOK
  <2>2. TypeOK'
    BY <1>2, <2>1 DEF AdmissionInv, TypeOK, PCs, Holding
  <2>3. (OneAlone /\ AloneBounded)'
    BY <1>2, Moves DEF Admitting, Holding, PCs
  <2> QED
    BY <2>2, <2>3 DEF AdmissionInv
<1>3. CASE WritePrefix(l) \/ WritePacket(l)
  BY <1>1, <1>2, <1>3 DEF WritePrefix, WritePacket, WriteThen
<1>4. CASE Receive(l)
  BY <1>2, <1>4 DEF Receive
<1> QED
  BY <1>3, <1>4

LEMMA DeregisterInv == ASSUME AdmissionInv, NEW l \in Listeners, Deregister(l) PROVE AdmissionInv'
<1>1. /\ pc' = [pc EXCEPT ![l] = "out"] /\ pc \in [Listeners -> PCs] /\ pc[l] = "leave"
      /\ crowded' = crowded \ {l} /\ tuned' = tuned
  BY DEF Deregister, Go, AdmissionInv, TypeOK
<1>2. TypeOK'
  <2>1. listed' = {k \in Listeners : pc'[k] \in {"prefix", "wait", "write", "leave"}}
    BY <1>1 DEF Deregister, AdmissionInv, TypeOK
  <2>2. pc' \in [Listeners -> PCs]
    BY <1>1 DEF PCs
  <2>3. drop' \in [Mounts -> SUBSET listed'] /\ kicked' \subseteq listed'
    BY DEF Deregister, AdmissionInv, TypeOK
  <2> QED
    BY <2>1, <2>2, <2>3 DEF Deregister, AdmissionInv, TypeOK
<1>3. Alone' \subseteq Alone
  BY <1>1 DEF Alone
<1>4. \A m \in Mounts : Past(m)' \subseteq Past(m)
  BY <1>1, <1>3 DEF Past, Alone
<1>5. \A k \in Alone' : pc'[k] \in Admitting => pc[k] \in Admitting
  BY <1>1 DEF Alone
<1> QED
  BY <1>2, <1>3, <1>4, <1>5, NobodyNew DEF AdmissionInv

\* Sources, guards, operators and clients let nobody in.
LEMMA AroundInv ==
  ASSUME AdmissionInv, TypeOK', UNCHANGED <<pc, tuned, crowded>>
  PROVE  AdmissionInv'
BY NobodyNew DEF AdmissionInv, Alone, Past

LEMMA NextInv == ASSUME AdmissionInv, [Next]_vars PROVE AdmissionInv'
<1>1. ASSUME NEW l \in Listeners, CheckGlobal(l) \/ HandlerStep(l) PROVE AdmissionInv'
  BY <1>1, CheckGlobalInv, CheckMountInv, SubscribeInv, RegisterInv DEF HandlerStep
<1>2. ASSUME NEW l \in Listeners, TaskStep(l) PROVE AdmissionInv'
  <2>1. ASSUME Cancelled(l) PROVE AdmissionInv'
    BY <2>1, EndsInv DEF Cancelled
  <2> QED
    BY <1>2, <2>1, WriteInv, DeregisterInv DEF TaskStep
<1>3. ASSUME NEW l \in Listeners, KickListener(l) PROVE AdmissionInv'
  BY <1>3, AroundInv DEF KickListener, AdmissionInv, TypeOK
<1>4. ASSUME NEW l \in Listeners, NEW what \in {"reads", "stalls", "gone"}, ClientDoes(l, what)
      PROVE  AdmissionInv'
  BY <1>4, AroundInv DEF ClientDoes, AdmissionInv, TypeOK
<1>5. ASSUME NEW m \in Mounts, SourceConnects(m) \/ Publish(m) PROVE AdmissionInv'
  BY <1>5, AroundInv DEF SourceConnects, Publish, AdmissionInv, TypeOK
<1>6. ASSUME NEW m \in Mounts, SourceGone(m) PROVE AdmissionInv'
  BY <1>6, AroundInv DEF SourceGone, AdmissionInv, TypeOK
<1>7. ASSUME NEW m \in Mounts, GuardKick(m) PROVE AdmissionInv'
  BY <1>7, AroundInv DEF GuardKick, AdmissionInv, TypeOK
<1>8. CASE UNCHANGED vars
  BY <1>8, AroundInv DEF vars, AdmissionInv, TypeOK
<1> QED
  BY <1>1, <1>2, <1>3, <1>4, <1>5, <1>6, <1>7, <1>8 DEF Next

\* The inductive invariant: the listeners that were alone at the checks.
THEOREM AdmissionInvariant == SafetySpec => []AdmissionInv
BY InitInv, NextInv, PTL DEF SafetySpec

\* The limits are passed only by listeners that raced with others
\* (listener_handler checks them before it subscribes and registers).
THEOREM CapsHold == SafetySpec => []CapsHoldUpToRaces
<1>1. AdmissionInv => CapsHoldUpToRaces
  <2> SUFFICES ASSUME AdmissionInv PROVE CapsHoldUpToRaces
    OBVIOUS
  <2>1. TotalCount <= MaxGlobal + Cardinality(listed \cap crowded)
    <3>1. listed \in SUBSET Listeners /\ listed \ crowded \subseteq Alone /\ Alone \in SUBSET Listeners
      BY DEF AdmissionInv, TypeOK, Alone
    <3>2. /\ Cardinality(listed \ crowded) <= Cardinality(Alone)
          /\ Cardinality(listed \ crowded) \in Nat /\ Cardinality(Alone) \in Nat
      BY <3>1, Finite
    <3>3. Cardinality(listed \ crowded) <= MaxGlobal
      BY <3>2 DEF AdmissionInv, AloneBounded
    <3> QED
      BY <3>1, <3>3, Split DEF TotalCount
  <2>2. ASSUME NEW m \in Mounts
        PROVE  ListenerCount(m) <= MaxMount +
                 Cardinality({l \in crowded : pc[l] \in Holding /\ tuned[l] = m})
    <3> DEFINE H == {l \in Listeners : pc[l] \in Holding /\ tuned[l] = m}
    <3>1. /\ H \in SUBSET Listeners /\ H \ crowded \subseteq Past(m) /\ Past(m) \in SUBSET Listeners
          /\ H \cap crowded = {l \in crowded : pc[l] \in Holding /\ tuned[l] = m}
      BY DEF AdmissionInv, TypeOK, Past, Alone, Holding
    <3> HIDE DEF H
    <3>2. /\ Cardinality(H \ crowded) <= Cardinality(Past(m))
          /\ Cardinality(H \ crowded) \in Nat /\ Cardinality(Past(m)) \in Nat
      BY <3>1, Finite
    <3>3. Cardinality(H \ crowded) <= MaxMount
      BY <3>2 DEF AdmissionInv, AloneBounded
    <3>4. Cardinality(H) <= MaxMount + Cardinality(H \cap crowded)
      BY <3>1, <3>3, Split
    <3> QED
      BY <3>1, <3>4 DEF ListenerCount, H
  <2> QED
    BY <2>1, <2>2 DEF CapsHoldUpToRaces
<1> QED
  BY <1>1, AdmissionInvariant, PTL

=============================================================================
