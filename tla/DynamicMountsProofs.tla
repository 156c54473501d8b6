------------------------- MODULE DynamicMountsProofs -------------------------
(***************************************************************************)
(* Proofs about DynamicMounts, for any sources, paths and configurations.  *)
(* The inductive invariant says, beside the types, which of the sessions   *)
(* in flight may still change the entry of a path, and that they keep away *)
(* from settled paths and from the paths of lone sources.                  *)
(***************************************************************************)
EXTENDS DynamicMounts, TLAPS

PCs == {"idle", "verify", "verify_default", "create", "codec", "cas", "stream", "g_free", "g_remove"}

RegistryOK ==
  /\ registry \in [Paths -> Nat] /\ created \in [Paths -> Nat]
  /\ dynamic \in [Paths -> SUBSET Nat] /\ taken \in [Paths -> SUBSET Nat]
  /\ refused \in [Paths -> SUBSET Nat]
  /\ \A p \in Paths : \A n \in dynamic[p] : 1 <= n /\ n <= created[p]

SessionsOK ==
  /\ pc \in [Sources -> PCs] /\ path \in [Sources -> Paths]
  /\ at \in [Sources -> Nat] /\ own \in [Sources -> BOOLEAN]
  /\ \A s \in Sources : pc[s] \in {"verify", "verify_default", "create"} => ~own[s]
  /\ \A s \in Sources : pc[s] = "g_remove" => own[s]

ReloadOK ==
  /\ rpc \in {"idle", "auth", "add", "remove"}
  /\ config \subseteq Paths /\ target \subseteq Paths
  /\ todo \subseteq Paths /\ missing \subseteq Paths /\ \A p, q \in missing : p = q
  /\ settled \subseteq Paths /\ fresh \subseteq Sources /\ crossed \subseteq Sources
  /\ rpc # "idle" => settled = {} /\ fresh = {}
  /\ rpc = "remove" => todo \cap target = {}

\* What the loops of apply_config have seen to, as far as no source undoes it.
LoopsOK ==
  \A p \in target \ touched :
    (rpc = "remove" \/ (rpc = "add" /\ p \notin todo \cup missing)) => registry[p] # None

\* One session holds a mount, and its source_connected says so.
Holder(s) == pc[s] \in {"stream", "g_free"}
HoldersOK ==
  /\ \A s \in Sources : Holder(s) => at[s] \in taken[path[s]]
  /\ \A s, t \in Sources :
       Holder(s) /\ Holder(t) /\ path[s] = path[t] /\ at[s] = at[t] => s = t

SettledOK ==
  /\ \A p \in settled : registry[p] # None /\ \A s \in Sources : ~Missed(s, p)
  /\ \A s \in fresh : InFlight(s) =>
       path[s] \in settled /\ at[s] = registry[path[s]] /\ ~own[s]

LoneOK ==
  \A s \in Sources \ crossed : InFlight(s) =>
    /\ rpc = "idle"
    /\ \A t \in Sources : InFlight(t) /\ path[t] = path[s] => t = s
    /\ pc[s] \notin {"verify_default", "create"} => registry[path[s]] = at[s]

MountsInv ==
  /\ RegistryOK /\ SessionsOK /\ ReloadOK /\ LoopsOK /\ HoldersOK
  /\ SettledOK /\ LoneOK /\ DynamicEntryHasOwner

USE MountsAssumption DEF None

LEMMA InitInv == Init => MountsInv
<1> SUFFICES ASSUME Init PROVE MountsInv
  OBVIOUS
<1> USE DEF Init
<1>0. config \subseteq Paths
  OBVIOUS
<1>1. RegistryOK
  BY DEF RegistryOK
<1>2. SessionsOK
  BY DEF SessionsOK, PCs
<1>3. ReloadOK
  BY <1>0 DEF ReloadOK
<1>4. LoopsOK
  BY DEF LoopsOK
<1>5. HoldersOK
  BY DEF HoldersOK, Holder
<1>6. SettledOK
  BY <1>0 DEF SettledOK, Missed, InFlight
<1>7. LoneOK
  BY DEF LoneOK, InFlight
<1>8. DynamicEntryHasOwner
  BY DEF DynamicEntryHasOwner
<1> QED
  BY <1>1, <1>2, <1>3, <1>4, <1>5, <1>6, <1>7, <1>8 DEF MountsInv

-----------------------------------------------------------------------------
(* One lemma per action: the conjuncts it disturbs, then those it leaves.   *)

USE DEF registered, reloading, session, history, KeepHistory, Go, Reload, KeepSources

LEMMA LookupInv == ASSUME MountsInv, NEW s \in Sources, Lookup(s) PROVE MountsInv'
<1> USE DEF MountsInv, Lookup
<1>1. SessionsOK'
  BY DEF SessionsOK, PCs, RegistryOK, ReloadOK
<1>2. ReloadOK'
  BY DEF ReloadOK, SessionsOK, InFlight, Others
<1>3. HoldersOK'
  BY DEF HoldersOK, Holder, SessionsOK, RegistryOK
<1>4. SettledOK'
  BY DEF SettledOK, Missed, InFlight, SessionsOK, ReloadOK, RegistryOK, PCs, LoopsOK
<1>5. LoneOK'
  BY DEF LoneOK, InFlight, SessionsOK, RegistryOK, ReloadOK, PCs, Others
<1>6. DynamicEntryHasOwner'
  BY DEF DynamicEntryHasOwner, InFlight, SessionsOK, RegistryOK, ReloadOK, PCs
<1>7. RegistryOK' /\ LoopsOK'
  BY DEF RegistryOK, LoopsOK
<1> QED
  BY <1>1, <1>2, <1>3, <1>4, <1>5, <1>6, <1>7

LEMMA VerifyInv == ASSUME MountsInv, NEW s \in Sources, Verify(s) PROVE MountsInv'
<1> USE DEF MountsInv, Verify
<1>1. SessionsOK'
  BY DEF SessionsOK, PCs, RegistryOK, ReloadOK
<1>2. HoldersOK'
  BY DEF HoldersOK, Holder, SessionsOK, RegistryOK
<1>3. SettledOK'
  BY DEF SettledOK, Missed, InFlight, SessionsOK, ReloadOK, RegistryOK, PCs, LoopsOK
<1>4. LoneOK'
  BY DEF LoneOK, InFlight, SessionsOK, RegistryOK, ReloadOK, PCs, Others
<1>5. DynamicEntryHasOwner'
  BY DEF DynamicEntryHasOwner, InFlight, SessionsOK, RegistryOK, ReloadOK, PCs
<1>6. RegistryOK' /\ ReloadOK' /\ LoopsOK'
  BY DEF RegistryOK, ReloadOK, LoopsOK
<1> QED
  BY <1>1, <1>2, <1>3, <1>4, <1>5, <1>6

LEMMA VerifyDefaultInv == ASSUME MountsInv, NEW s \in Sources, VerifyDefault(s) PROVE MountsInv'
<1> USE DEF MountsInv, VerifyDefault
<1>1. SessionsOK'
  BY DEF SessionsOK, PCs, RegistryOK, ReloadOK
<1>2. HoldersOK'
  BY DEF HoldersOK, Holder, SessionsOK, RegistryOK
<1>3. SettledOK'
  BY DEF SettledOK, Missed, InFlight, SessionsOK, ReloadOK, RegistryOK, PCs, LoopsOK
<1>4. LoneOK'
  BY DEF LoneOK, InFlight, SessionsOK, RegistryOK, ReloadOK, PCs, Others
<1>5. DynamicEntryHasOwner'
  BY DEF DynamicEntryHasOwner, InFlight, SessionsOK, RegistryOK, ReloadOK, PCs
<1>6. RegistryOK' /\ ReloadOK' /\ LoopsOK'
  BY DEF RegistryOK, ReloadOK, LoopsOK
<1> QED
  BY <1>1, <1>2, <1>3, <1>4, <1>5, <1>6

LEMMA CreateInv == ASSUME MountsInv, NEW s \in Sources, Create(s) PROVE MountsInv'
<1> USE DEF MountsInv, Create
<1>1. RegistryOK'
  BY DEF RegistryOK, SessionsOK, ReloadOK
<1>2. SessionsOK'
  BY DEF SessionsOK, PCs, RegistryOK, ReloadOK
<1>3. LoopsOK'
  BY DEF LoopsOK, ReloadOK, RegistryOK, SessionsOK
<1>4. HoldersOK'
  BY DEF HoldersOK, Holder, SessionsOK, RegistryOK
<1>5. SettledOK'
  BY DEF SettledOK, Missed, InFlight, SessionsOK, ReloadOK, RegistryOK, PCs, LoopsOK
<1>6. LoneOK'
  BY DEF LoneOK, InFlight, SessionsOK, RegistryOK, ReloadOK, PCs, Others
<1>7. DynamicEntryHasOwner'
  BY DEF DynamicEntryHasOwner, InFlight, SessionsOK, RegistryOK, ReloadOK, PCs
<1>8. ReloadOK'
  BY DEF ReloadOK
<1> QED
  BY <1>1, <1>2, <1>3, <1>4, <1>5, <1>6, <1>7, <1>8

LEMMA CodecAcceptedInv == ASSUME MountsInv, NEW s \in Sources, CodecAccepted(s) PROVE MountsInv'
<1> USE DEF MountsInv, CodecAccepted
<1>1. SessionsOK'
  BY DEF SessionsOK, PCs, RegistryOK, ReloadOK
<1>2. HoldersOK'
  BY DEF HoldersOK, Holder, SessionsOK, RegistryOK
<1>3. SettledOK'
  BY DEF SettledOK, Missed, InFlight, SessionsOK, ReloadOK, RegistryOK, PCs, LoopsOK
<1>4. LoneOK'
  BY DEF LoneOK, InFlight, SessionsOK, RegistryOK, ReloadOK, PCs, Others
<1>5. DynamicEntryHasOwner'
  BY DEF DynamicEntryHasOwner, InFlight, SessionsOK, RegistryOK, ReloadOK, PCs
<1>6. RegistryOK' /\ ReloadOK' /\ LoopsOK'
  BY DEF RegistryOK, ReloadOK, LoopsOK
<1> QED
  BY <1>1, <1>2, <1>3, <1>4, <1>5, <1>6

LEMMA CodecRefusedInv == ASSUME MountsInv, NEW s \in Sources, CodecRefused(s) PROVE MountsInv'
<1> USE DEF MountsInv, CodecRefused, TurnedAway
<1>1. RegistryOK'
  BY DEF RegistryOK, SessionsOK, ReloadOK
<1>2. SessionsOK'
  BY DEF SessionsOK, PCs, RegistryOK, ReloadOK
<1>3. HoldersOK'
  BY DEF HoldersOK, Holder, SessionsOK, RegistryOK
<1>4. SettledOK'
  BY DEF SettledOK, Missed, InFlight, SessionsOK, ReloadOK, RegistryOK, PCs, LoopsOK
<1>5. LoneOK'
  BY DEF LoneOK, InFlight, SessionsOK, RegistryOK, ReloadOK, PCs, Others
<1>6. DynamicEntryHasOwner'
  BY DEF DynamicEntryHasOwner, InFlight, SessionsOK, RegistryOK, ReloadOK, PCs
<1>7. ReloadOK' /\ LoopsOK'
  BY DEF ReloadOK, LoopsOK
<1> QED
  BY <1>1, <1>2, <1>3, <1>4, <1>5, <1>6, <1>7

LEMMA ClaimInv == ASSUME MountsInv, NEW s \in Sources, Claim(s) PROVE MountsInv'
<1> USE DEF MountsInv, Claim
<1>1. RegistryOK'
  BY DEF RegistryOK, SessionsOK, ReloadOK
<1>2. SessionsOK'
  BY DEF SessionsOK, PCs, RegistryOK, ReloadOK
<1>3. HoldersOK'
  BY DEF HoldersOK, Holder, SessionsOK, RegistryOK
<1>4. SettledOK'
  BY DEF SettledOK, Missed, InFlight, SessionsOK, ReloadOK, RegistryOK, PCs, LoopsOK
<1>5. LoneOK'
  BY DEF LoneOK, InFlight, SessionsOK, RegistryOK, ReloadOK, PCs, Others
<1>6. DynamicEntryHasOwner'
  BY DEF DynamicEntryHasOwner, InFlight, SessionsOK, RegistryOK, ReloadOK, PCs
<1>7. ReloadOK' /\ LoopsOK'
  BY DEF ReloadOK, LoopsOK
<1> QED
  BY <1>1, <1>2, <1>3, <1>4, <1>5, <1>6, <1>7

LEMMA BusyInv == ASSUME MountsInv, NEW s \in Sources, Busy(s) PROVE MountsInv'
<1> USE DEF MountsInv, Busy, TurnedAway
<1>1. RegistryOK'
  BY DEF RegistryOK, SessionsOK, ReloadOK
<1>2. SessionsOK'
  BY DEF SessionsOK, PCs, RegistryOK, ReloadOK
<1>3. HoldersOK'
  BY DEF HoldersOK, Holder, SessionsOK, RegistryOK
<1>4. SettledOK'
  BY DEF SettledOK, Missed, InFlight, SessionsOK, ReloadOK, RegistryOK, PCs, LoopsOK
<1>5. LoneOK'
  BY DEF LoneOK, InFlight, SessionsOK, RegistryOK, ReloadOK, PCs, Others
<1>6. DynamicEntryHasOwner'
  BY DEF DynamicEntryHasOwner, InFlight, SessionsOK, RegistryOK, ReloadOK, PCs
<1>7. ReloadOK' /\ LoopsOK'
  BY DEF ReloadOK, LoopsOK
<1> QED
  BY <1>1, <1>2, <1>3, <1>4, <1>5, <1>6, <1>7

LEMMA StreamEndsInv == ASSUME MountsInv, NEW s \in Sources, StreamEnds(s) PROVE MountsInv'
<1> USE DEF MountsInv, StreamEnds
<1>1. SessionsOK'
  BY DEF SessionsOK, PCs, RegistryOK, ReloadOK
<1>2. HoldersOK'
  BY DEF HoldersOK, Holder, SessionsOK, RegistryOK
<1>3. SettledOK'
  BY DEF SettledOK, Missed, InFlight, SessionsOK, ReloadOK, RegistryOK, PCs, LoopsOK
<1>4. LoneOK'
  BY DEF LoneOK, InFlight, SessionsOK, RegistryOK, ReloadOK, PCs, Others
<1>5. DynamicEntryHasOwner'
  BY DEF DynamicEntryHasOwner, InFlight, SessionsOK, RegistryOK, ReloadOK, PCs
<1>6. RegistryOK' /\ ReloadOK' /\ LoopsOK'
  BY DEF RegistryOK, ReloadOK, LoopsOK
<1> QED
  BY <1>1, <1>2, <1>3, <1>4, <1>5, <1>6

LEMMA GuardFreesInv == ASSUME MountsInv, NEW s \in Sources, GuardFrees(s) PROVE MountsInv'
<1> USE DEF MountsInv, GuardFrees
<1>1. RegistryOK'
  BY DEF RegistryOK, SessionsOK, ReloadOK
<1>2. SessionsOK'
  BY DEF SessionsOK, PCs, RegistryOK, ReloadOK
<1>3. HoldersOK'
  BY DEF HoldersOK, Holder, SessionsOK, RegistryOK
<1>4. SettledOK'
  BY DEF SettledOK, Missed, InFlight, SessionsOK, ReloadOK, RegistryOK, PCs, LoopsOK
<1>5. LoneOK'
  BY DEF LoneOK, InFlight, SessionsOK, RegistryOK, ReloadOK, PCs, Others
<1>6. DynamicEntryHasOwner'
  BY DEF DynamicEntryHasOwner, InFlight, SessionsOK, RegistryOK, ReloadOK, PCs
<1>7. ReloadOK' /\ LoopsOK'
  BY DEF ReloadOK, LoopsOK
<1> QED
  BY <1>1, <1>2, <1>3, <1>4, <1>5, <1>6, <1>7

LEMMA GuardRemovesInv == ASSUME MountsInv, NEW s \in Sources, GuardRemoves(s) PROVE MountsInv'
<1> USE DEF MountsInv, GuardRemoves
<1>1. RegistryOK'
  BY DEF RegistryOK, SessionsOK, ReloadOK
<1>2. SessionsOK'
  BY DEF SessionsOK, PCs, RegistryOK, ReloadOK
<1>3. LoopsOK'
  BY DEF LoopsOK, ReloadOK, RegistryOK, SessionsOK
<1>4. HoldersOK'
  BY DEF HoldersOK, Holder, SessionsOK, RegistryOK
<1>5. SettledOK'
  BY DEF SettledOK, Missed, InFlight, SessionsOK, ReloadOK, RegistryOK, PCs, LoopsOK
<1>6. LoneOK'
  BY DEF LoneOK, InFlight, SessionsOK, RegistryOK, ReloadOK, PCs, Others
<1>7. DynamicEntryHasOwner'
  BY DEF DynamicEntryHasOwner, InFlight, SessionsOK, RegistryOK, ReloadOK, PCs
<1>8. ReloadOK'
  BY DEF ReloadOK
<1> QED
  BY <1>1, <1>2, <1>3, <1>4, <1>5, <1>6, <1>7, <1>8

LEMMA BeginReloadInv == ASSUME MountsInv, BeginReload PROVE MountsInv'
<1> USE DEF MountsInv, BeginReload
<1>1. ReloadOK'
  BY DEF ReloadOK, SessionsOK, InFlight, Others
<1>2. LoopsOK'
  BY DEF LoopsOK, ReloadOK, RegistryOK, SessionsOK
<1>3. SettledOK'
  BY DEF SettledOK, Missed, InFlight, SessionsOK, ReloadOK, RegistryOK, PCs, LoopsOK
<1>4. LoneOK'
  BY DEF LoneOK, InFlight, SessionsOK, RegistryOK, ReloadOK, PCs, Others
<1>5. RegistryOK' /\ SessionsOK' /\ HoldersOK' /\ DynamicEntryHasOwner'
  BY DEF RegistryOK, SessionsOK, HoldersOK, Holder, DynamicEntryHasOwner, InFlight
<1> QED
  BY <1>1, <1>2, <1>3, <1>4, <1>5

LEMMA ReloadAuthInv == ASSUME MountsInv, ReloadAuth PROVE MountsInv'
<1> USE DEF MountsInv, ReloadAuth
<1>1. ReloadOK'
  BY DEF ReloadOK, SessionsOK, InFlight, Others
<1>2. LoopsOK'
  BY DEF LoopsOK, ReloadOK, RegistryOK, SessionsOK
<1>3. RegistryOK' /\ SessionsOK' /\ HoldersOK' /\ SettledOK' /\ LoneOK' /\ DynamicEntryHasOwner'
  BY DEF RegistryOK, SessionsOK, HoldersOK, Holder, SettledOK, Missed, InFlight, LoneOK, DynamicEntryHasOwner
<1> QED
  BY <1>1, <1>2, <1>3

LEMMA FindMountInv == ASSUME MountsInv, FindMount PROVE MountsInv'
<1> USE DEF MountsInv, FindMount
<1>1. ReloadOK'
  BY DEF ReloadOK, SessionsOK, InFlight, Others
<1>2. LoopsOK'
  BY DEF LoopsOK, ReloadOK, RegistryOK, SessionsOK
<1>3. RegistryOK' /\ SessionsOK' /\ HoldersOK' /\ SettledOK' /\ LoneOK' /\ DynamicEntryHasOwner'
  BY DEF RegistryOK, SessionsOK, HoldersOK, Holder, SettledOK, Missed, InFlight, LoneOK, DynamicEntryHasOwner
<1> QED
  BY <1>1, <1>2, <1>3

LEMMA AddMountInv == ASSUME MountsInv, AddMount PROVE MountsInv'
<1> USE DEF MountsInv, AddMount
<1>a. PICK p \in missing :
        /\ created' = [created EXCEPT ![p] = @ + 1]
        /\ registry' = [registry EXCEPT ![p] = created[p] + 1]
  OBVIOUS
<1>b. p \in Paths /\ created[p] \in Nat /\ created[p] + 1 # None
  BY DEF RegistryOK, ReloadOK
<1>1. RegistryOK'
  BY <1>a, <1>b DEF RegistryOK, SessionsOK, ReloadOK
<1>2. ReloadOK'
  BY DEF ReloadOK, SessionsOK, InFlight, Others
<1>3. LoopsOK'
  BY <1>a, <1>b DEF LoopsOK, ReloadOK, RegistryOK, SessionsOK
<1>4. SettledOK'
  BY DEF SettledOK, Missed, InFlight, SessionsOK, ReloadOK, RegistryOK, PCs, LoopsOK
<1>5. LoneOK'
  BY DEF LoneOK, InFlight, SessionsOK, RegistryOK, ReloadOK, PCs, Others
<1>6. DynamicEntryHasOwner'
  BY DEF DynamicEntryHasOwner, InFlight, SessionsOK, RegistryOK, ReloadOK, PCs
<1>7. SessionsOK' /\ HoldersOK'
  BY DEF SessionsOK, HoldersOK, Holder
<1> QED
  BY <1>1, <1>2, <1>3, <1>4, <1>5, <1>6, <1>7

LEMMA AddsDoneInv == ASSUME MountsInv, AddsDone PROVE MountsInv'
<1> USE DEF MountsInv, AddsDone
<1>1. ReloadOK'
  BY DEF ReloadOK, SessionsOK, InFlight, Others
<1>2. LoopsOK'
  BY DEF LoopsOK, ReloadOK, RegistryOK, SessionsOK
<1>3. RegistryOK' /\ SessionsOK' /\ HoldersOK' /\ SettledOK' /\ LoneOK' /\ DynamicEntryHasOwner'
  BY DEF RegistryOK, SessionsOK, HoldersOK, Holder, SettledOK, Missed, InFlight, LoneOK, DynamicEntryHasOwner
<1> QED
  BY <1>1, <1>2, <1>3

LEMMA RemoveMountInv == ASSUME MountsInv, RemoveMount PROVE MountsInv'
<1> USE DEF MountsInv, RemoveMount
<1>1. RegistryOK'
  BY DEF RegistryOK, SessionsOK, ReloadOK
<1>2. ReloadOK'
  BY DEF ReloadOK, SessionsOK, InFlight, Others
<1>3. LoopsOK'
  BY DEF LoopsOK, ReloadOK, RegistryOK, SessionsOK
<1>4. SettledOK'
  BY DEF SettledOK, Missed, InFlight, SessionsOK, ReloadOK, RegistryOK, PCs, LoopsOK
<1>5. LoneOK'
  BY DEF LoneOK, InFlight, SessionsOK, RegistryOK, ReloadOK, PCs, Others
<1>6. DynamicEntryHasOwner'
  BY DEF DynamicEntryHasOwner, InFlight, SessionsOK, RegistryOK, ReloadOK, PCs
<1>7. SessionsOK' /\ HoldersOK'
  BY DEF SessionsOK, HoldersOK, Holder
<1> QED
  BY <1>1, <1>2, <1>3, <1>4, <1>5, <1>6, <1>7

LEMMA EndReloadInv == ASSUME MountsInv, EndReload PROVE MountsInv'
<1> USE DEF MountsInv, EndReload
<1>1. ReloadOK'
  BY DEF ReloadOK, SessionsOK, InFlight, Others
<1>2. LoopsOK'
  BY DEF LoopsOK, ReloadOK, RegistryOK, SessionsOK
<1>3. SettledOK'
  BY DEF SettledOK, Missed, InFlight, SessionsOK, ReloadOK, RegistryOK, PCs, LoopsOK
<1>4. LoneOK'
  BY DEF LoneOK, InFlight, SessionsOK, RegistryOK, ReloadOK, PCs, Others
<1>5. RegistryOK' /\ SessionsOK' /\ HoldersOK' /\ DynamicEntryHasOwner'
  BY DEF RegistryOK, SessionsOK, HoldersOK, Holder, DynamicEntryHasOwner, InFlight
<1> QED
  BY <1>1, <1>2, <1>3, <1>4, <1>5

-----------------------------------------------------------------------------

\* MountsInv is inductive.
LEMMA NextInv == MountsInv /\ [Next]_vars => MountsInv'
<1> SUFFICES ASSUME MountsInv, [Next]_vars PROVE MountsInv'
  OBVIOUS
<1>1. ASSUME NEW s \in Sources, SourceStep(s) PROVE MountsInv'
  BY <1>1, LookupInv, VerifyInv, VerifyDefaultInv, CreateInv, CodecAcceptedInv, CodecRefusedInv,
     ClaimInv, BusyInv, StreamEndsInv, GuardFreesInv, GuardRemovesInv DEF SourceStep
<1>2. CASE ReloadStep
  BY <1>2, BeginReloadInv, ReloadAuthInv, FindMountInv, AddMountInv, AddsDoneInv,
     RemoveMountInv, EndReloadInv DEF ReloadStep
<1>3. CASE UNCHANGED vars
  BY <1>3 DEF vars, MountsInv, RegistryOK, SessionsOK, ReloadOK, LoopsOK, HoldersOK, Holder,
              SettledOK, Missed, LoneOK, DynamicEntryHasOwner, InFlight
<1> QED
  BY <1>1, <1>2, <1>3 DEF Next

\* The registry, the sessions and the reload agree with each other in every
\* reachable state (MountRegistry, resolve_or_create_mount, apply_config).
THEOREM MountsInvariant == Spec => []MountsInv
<1>1. Init => MountsInv
  BY InitInv
<1>2. MountsInv /\ [Next]_vars => MountsInv'
  BY NextInv
<1> QED
  BY <1>1, <1>2, PTL DEF Spec

\* No race of sources and reloads leaves a mount behind that a guard was to
\* remove (SourceDisconnectGuard::drop).
THEOREM NothingLeftBehind == Spec => []DynamicEntryHasOwner
BY MountsInvariant, PTL DEF MountsInv

\* The sources that come to a settled path get its mount, one at a time
\* (resolve_or_create_mount and the compare_exchange that follows it).
THEOREM SettledPaths == Spec => []SettledPathServes
<1>1. MountsInv => SettledPathServes
  <2> SUFFICES ASSUME MountsInv, NEW p \in settled
               PROVE  /\ registry[p] # None
                      /\ \A s \in fresh : path[s] = p /\ InFlight(s) => at[s] = registry[p] /\ ~own[s]
                      /\ \A s, t \in fresh :
                           path[s] = p /\ path[t] = p /\ Streams(s) /\ Streams(t) => s = t
    BY DEF SettledPathServes
  <2>1. registry[p] # None
    BY DEF MountsInv, SettledOK
  <2>2. \A s \in fresh : path[s] = p /\ InFlight(s) => at[s] = registry[p] /\ ~own[s]
    BY DEF MountsInv, SettledOK
  <2>3. ASSUME NEW s \in fresh, NEW t \in fresh,
               path[s] = p, path[t] = p, Streams(s), Streams(t)
        PROVE  s = t
    <3>1. s \in Sources /\ t \in Sources
      BY DEF MountsInv, ReloadOK
    <3>2. at[s] = at[t]
      BY <2>2, <2>3 DEF InFlight, Streams
    <3> QED
      BY <2>3, <3>1, <3>2 DEF MountsInv, HoldersOK, Holder, Streams
  <2> QED
    BY <2>1, <2>2, <2>3
<1> QED
  BY <1>1, MountsInvariant, PTL

\* A source that meets no other and no reload is heard
\* (create_dynamic_mount).
THEOREM LoneSources == Spec => []LoneSourceIsFound
<1>1. MountsInv => LoneSourceIsFound
  BY DEF MountsInv, LoneOK, LoneSourceIsFound, Streams, InFlight
<1> QED
  BY <1>1, MountsInvariant, PTL
=============================================================================
