-------------------------- MODULE SourceSlotProofs --------------------------
(***************************************************************************)
(* Proofs about SourceSlot, for any number of sessions, either kind of     *)
(* owner and any environment.                                              *)
(*                                                                         *)
(* Most steps have one of two shapes, Jump or Store.  JumpInv and StoreInv *)
(* reduce the invariant to a condition on the two control states of the    *)
(* step (Smooth, Keeps), which is then decided label by label; the steps   *)
(* that claim, release or cancel are proved one by one.                    *)
(***************************************************************************)
EXTENDS SourceSlot, TLAPS

-----------------------------------------------------------------------------
(* Shapes.                                                                 *)

PCOf(p) == IF p = Owner THEN OwnerPC ELSE LivePC

\* Moving p from a to b neither takes nor gives back the slot, and leaves
\* source_kind exact.
Smooth(p, a, b) ==
  /\ b \in PCOf(p)
  /\ a \in Holding <=> b \in Holding
  /\ p = Owner => (a \in KindScope <=> b \in KindScope)

\* A value p has in a field of scope S stays accounted for.
Keeps(S, a, b) == a \in S => b \in S

\* Moving one process to one of its own control states keeps control typed.
LEMMA GoControl ==
  ASSUME ControlOK, NEW p \in Procs, NEW b \in PCOf(p), pc' = [pc EXCEPT ![p] = b]
  PROVE  ControlOK'
BY SlotAssumption DEF ControlOK, Procs, PCOf

\* Exclusion survives a smooth move.
LEMMA GoExclusion ==
  ASSUME ControlOK, SlotExclusion, NEW p \in Procs, NEW b,
         pc' = [pc EXCEPT ![p] = b], pc[p] \in Holding <=> b \in Holding,
         connected' = connected, orphaned' = orphaned
  PROVE  SlotExclusion'
BY DEF ControlOK, SlotExclusion, Holds

\* source_kind stays exact over a smooth move that does not store it.
LEMMA GoKind ==
  ASSUME ControlOK, KindExact, NEW p \in Procs, NEW b,
         pc' = [pc EXCEPT ![p] = b], p = Owner => (pc[p] \in KindScope <=> b \in KindScope),
         kind' = kind, orphaned' = orphaned, setup' = setup
  PROVE  KindExact'
BY DEF ControlOK, KindExact, Procs, OwnerKind

\* A pure control move preserves the invariant.
LEMMA JumpInv ==
  ASSUME SlotInv, NEW p \in Procs, NEW a, NEW b, Jump(p, a, b), Smooth(p, a, b),
         Keeps(TokenScope, a, b), Keeps(UptimeScope, a, b),
         Keeps(OverlayScope, a, b), Keeps(HeaderScope, a, b)
  PROVE  SlotInv'
<1> USE DEF SlotInv, TypeOK, Jump, Go
<1>1. ControlOK'
  BY GoControl DEF Smooth
<1>2. DataOK'
  BY DEF DataOK, OwnerKind
<1>3. SlotExclusion'
  BY GoExclusion DEF Smooth
<1>4. KindExact'
  BY GoKind DEF Smooth
<1>5. FieldScopes'
  BY DEF FieldScopes, Keeps, ControlOK
<1> QED
  BY <1>1, <1>2, <1>3, <1>4, <1>5

\* A store of p's own value, or of None, into one field preserves it, if the
\* new control state is in the scope of a value just stored.
LEMMA StoreInv ==
  ASSUME SlotInv, NEW p \in Procs, NEW a, NEW b, NEW f \in Fields, NEW v \in {p, None},
         Store(p, a, f, v, b), Smooth(p, a, b),
         f # "source_cancel" => Keeps(TokenScope, a, b),
         f # "connected_at" => Keeps(UptimeScope, a, b),
         f # "source_overlay" => Keeps(OverlayScope, a, b),
         f # "header_bytes" => Keeps(HeaderScope, a, b),
         v = p /\ f = "source_cancel" => b \in TokenScope,
         v = p /\ f = "connected_at" => b \in UptimeScope,
         v = p /\ f = "source_overlay" => b \in OverlayScope,
         v = p /\ f = "header_bytes" => b \in HeaderScope
  PROVE  SlotInv'
<1> USE DEF SlotInv, TypeOK, Store, Go
<1>1. ControlOK'
  BY GoControl DEF Smooth
<1>2. DataOK'
  BY DEF DataOK, OwnerKind
<1>3. SlotExclusion'
  BY GoExclusion DEF Smooth
<1>4. KindExact'
  BY GoKind DEF Smooth
<1>5. FieldScopes'
  <2> SUFFICES ASSUME NEW q \in Procs
               PROVE  /\ slot'["source_cancel"] = q => pc'[q] \in TokenScope
                      /\ slot'["connected_at"] = q => pc'[q] \in UptimeScope \/ orphaned'
                      /\ slot'["source_overlay"] = q => pc'[q] \in OverlayScope
                      /\ slot'["header_bytes"] = q => pc'[q] \in HeaderScope
    BY DEF FieldScopes
  <2>1. q # None
    BY SlotAssumption DEF Procs
  <2>2. CASE f = "source_cancel"
    BY <2>1, <2>2 DEF FieldScopes, Keeps, ControlOK, DataOK, Fields
  <2>3. CASE f = "connected_at"
    BY <2>1, <2>3 DEF FieldScopes, Keeps, ControlOK, DataOK, Fields
  <2>4. CASE f = "source_overlay"
    BY <2>1, <2>4 DEF FieldScopes, Keeps, ControlOK, DataOK, Fields
  <2>5. CASE f = "header_bytes"
    BY <2>1, <2>5 DEF FieldScopes, Keeps, ControlOK, DataOK, Fields
  <2>6. CASE f = "codec"
    BY <2>1, <2>6 DEF FieldScopes, Keeps, ControlOK, DataOK, Fields
  <2> QED
    BY <2>2, <2>3, <2>4, <2>5, <2>6 DEF Fields
<1> QED
  BY <1>1, <1>2, <1>3, <1>4, <1>5

\* The definitions a label is decided by.
LEMMA LiveLabels ==
  ASSUME NEW s \in Sessions
  PROVE  /\ s \in Procs /\ s # Owner /\ s # None /\ PCOf(s) = LivePC
         /\ {"idle", "verify", "check_codec", "cas", "chk_connected", "chk_kind", "set_pending",
             "cancel", "await_release"} \subseteq LivePC \ Holding
         /\ {"st_token", "st_connected_at", "st_codec", "st_overlay", "stream", "g_connected"}
             \subseteq LivePC \cap Holding
         /\ {"g_token", "g_connected_at", "g_overlay", "g_header", "g_notify"}
             \subseteq LivePC \ Holding
BY SlotAssumption DEF Procs, PCOf, LivePC, Preempting, LiveHolds, LiveClaim, GuardTail,
     Holding, OwnerHolds, OwnerClaim, OwnerRun, OwnerRelease

-----------------------------------------------------------------------------
(* Live sessions.                                                          *)

\* The handshake, and the end of a stream: control moves only.
LEMMA SessionJumps ==
  ASSUME SlotInv, NEW s \in Sessions,
         \/ Connect(s) \/ CheckConnected(s) \/ CheckKind(s) \/ Released(s)
         \/ PreemptTimeout(s) \/ Verified(s) \/ Unauthorized(s) \/ CodecAccepted(s)
         \/ UnsupportedCodec(s) \/ SourceEnds(s) \/ SourceCancelled(s)
  PROVE  SlotInv'
<1> USE LiveLabels, JumpInv
        DEF Smooth, Keeps, TokenScope, UptimeScope, OverlayScope, HeaderScope
<1>1. CASE Connect(s)
  BY <1>1 DEF Connect
<1>2. CASE CheckConnected(s)
  BY <1>2 DEF CheckConnected
<1>3. CASE CheckKind(s)
  BY <1>3 DEF CheckKind
<1>4. CASE Released(s)
  BY <1>4 DEF Released
<1>5. CASE PreemptTimeout(s)
  BY <1>5 DEF PreemptTimeout
<1>6. CASE Verified(s)
  BY <1>6 DEF Verified
<1>7. CASE Unauthorized(s)
  BY <1>7 DEF Unauthorized
<1>8. CASE CodecAccepted(s)
  BY <1>8 DEF CodecAccepted
<1>9. CASE UnsupportedCodec(s)
  BY <1>9 DEF UnsupportedCodec
<1>10. CASE SourceEnds(s)
  BY <1>10 DEF SourceEnds
<1>11. CASE SourceCancelled(s)
  BY <1>11 DEF SourceCancelled
<1> QED
  BY <1>1, <1>2, <1>3, <1>4, <1>5, <1>6, <1>7, <1>8, <1>9, <1>10, <1>11

\* The stores after the claim, and those of the disconnect guard.
LEMMA SessionStores ==
  ASSUME SlotInv, NEW s \in Sessions,
         \/ StoreConnectedAt(s) \/ StoreCodec(s) \/ StoreOverlay(s) \/ CaptureHeaders(s)
         \/ GuardClearToken(s) \/ GuardClearConnectedAt(s) \/ GuardClearOverlay(s)
         \/ GuardClearHeaders(s)
  PROVE  SlotInv'
<1> USE LiveLabels, StoreInv
        DEF Smooth, Keeps, TokenScope, UptimeScope, OverlayScope, HeaderScope, Fields
<1>1. CASE StoreConnectedAt(s)
  BY <1>1 DEF StoreConnectedAt
<1>2. CASE StoreCodec(s)
  BY <1>2 DEF StoreCodec
<1>3. CASE StoreOverlay(s)
  BY <1>3 DEF StoreOverlay
<1>4. CASE CaptureHeaders(s)
  BY <1>4 DEF CaptureHeaders
<1>5. CASE GuardClearToken(s)
  BY <1>5 DEF GuardClearToken
<1>6. CASE GuardClearConnectedAt(s)
  BY <1>6 DEF GuardClearConnectedAt
<1>7. CASE GuardClearOverlay(s)
  BY <1>7 DEF GuardClearOverlay
<1>8. CASE GuardClearHeaders(s)
  BY <1>8 DEF GuardClearHeaders
<1> QED
  BY <1>1, <1>2, <1>3, <1>4, <1>5, <1>6, <1>7, <1>8

\* Setting preempt_pending, cancelling the token in the slot: neither touches
\* what the invariant relates.
LEMMA SessionFlags ==
  ASSUME SlotInv, NEW s \in Sessions, SetPending(s) \/ CancelNonLive(s)
  PROVE  SlotInv'
<1> USE LiveLabels DEF SlotInv, TypeOK, Go, SetPending, CancelNonLive
<1>1. ControlOK'
  BY GoControl
<1>2. DataOK'
  BY DEF DataOK, OwnerKind, CancelSlotToken
<1>3. SlotExclusion'
  BY GoExclusion
<1>4. KindExact'
  BY GoKind
<1>5. FieldScopes'
  BY DEF FieldScopes, ControlOK, TokenScope, UptimeScope, OverlayScope, HeaderScope
<1> QED
  BY <1>1, <1>2, <1>3, <1>4, <1>5

\* Taking a free slot: nobody held it, so now exactly one does.
LEMMA ClaimLiveInv ==
  ASSUME SlotInv, NEW s \in Sessions, ClaimLive(s)
  PROVE  SlotInv'
<1> USE LiveLabels DEF SlotInv, TypeOK, ClaimLive, Claim
<1>1. ControlOK'
  BY GoControl
<1>2. DataOK'
  BY DEF DataOK, OwnerKind
<1>3. SlotExclusion'
  BY DEF SlotExclusion, Holds, ControlOK
<1>4. KindExact'
  BY GoKind
<1>5. FieldScopes'
  BY DEF FieldScopes, ControlOK, TokenScope, UptimeScope, OverlayScope, HeaderScope
<1> QED
  BY <1>1, <1>2, <1>3, <1>4, <1>5

\* Installing the token of the claim.
LEMMA StoreTokenInv ==
  ASSUME SlotInv, NEW s \in Sessions, StoreToken(s)
  PROVE  SlotInv'
<1> USE LiveLabels DEF SlotInv, TypeOK, StoreToken, NewToken, Go
<1>1. ControlOK'
  BY GoControl
<1>2. DataOK'
  BY DEF DataOK, OwnerKind
<1>3. SlotExclusion'
  BY GoExclusion
<1>4. KindExact'
  BY GoKind
<1>5. FieldScopes'
  BY DEF FieldScopes, ControlOK, DataOK, OwnerKind, Fields,
         TokenScope, UptimeScope, OverlayScope, HeaderScope
<1> QED
  BY <1>1, <1>2, <1>3, <1>4, <1>5

\* The guard gives the slot back; the session was its only holder.
LEMMA GuardDisconnectInv ==
  ASSUME SlotInv, NEW s \in Sessions, GuardDisconnect(s)
  PROVE  SlotInv'
<1> USE LiveLabels DEF SlotInv, TypeOK, GuardDisconnect, Go
<1>1. ControlOK'
  BY GoControl
<1>2. DataOK'
  BY DEF DataOK, OwnerKind
<1>3. SlotExclusion'
  BY DEF SlotExclusion, Holds, ControlOK
<1>4. KindExact'
  BY GoKind
<1>5. FieldScopes'
  BY DEF FieldScopes, ControlOK, TokenScope, UptimeScope, OverlayScope, HeaderScope
<1> QED
  BY <1>1, <1>2, <1>3, <1>4, <1>5

\* notify_one moves the session and possibly the owner, from one control state
\* outside the slot to another.
LEMMA GuardNotifyInv ==
  ASSUME SlotInv, NEW s \in Sessions, GuardNotify(s)
  PROVE  SlotInv'
<1>1. /\ Owner \in Procs
      /\ {"waiting", "parked", "wait", "top"} \subseteq OwnerPC
      /\ {"waiting", "parked", "wait", "top"} \cap Holding = {}
      /\ {"waiting", "parked", "wait", "top"} \cap KindScope = {}
  BY DEF Procs, OwnerPC, Parking, Holding, LiveHolds, LiveClaim, OwnerHolds, OwnerClaim,
         OwnerRun, OwnerRelease, KindScope
<1> USE LiveLabels, <1>1 DEF SlotInv, TypeOK, GuardNotify
<1>2. ControlOK'
  BY DEF ControlOK
<1>3. DataOK'
  BY DEF DataOK, OwnerKind
<1>4. SlotExclusion'
  BY DEF SlotExclusion, Holds, ControlOK
<1>5. KindExact'
  BY DEF KindExact, OwnerKind, ControlOK
<1>6. FieldScopes'
  BY DEF FieldScopes, ControlOK, TokenScope, UptimeScope, OverlayScope, HeaderScope
<1> QED
  BY <1>2, <1>3, <1>4, <1>5, <1>6

\* Every step of a live session preserves the invariant.
LEMMA SessionInv ==
  ASSUME SlotInv, NEW s \in Sessions, SessionStep(s) \/ ClientStep(s)
  PROVE  SlotInv'
BY SessionJumps, SessionStores, SessionFlags, ClaimLiveInv, StoreTokenInv, GuardDisconnectInv,
   GuardNotifyInv DEF SessionStep, ClientStep

-----------------------------------------------------------------------------
(* The owner task.                                                         *)

LEMMA OwnerLabels ==
  /\ Owner \in Procs /\ Owner # None /\ PCOf(Owner) = OwnerPC
  /\ {"top", "chk_live", "wait", "waiting", "scan", "idle_30s", "claim", "outcome", "backoff",
      "exited", "panicked", "park", "parked"} \subseteq (OwnerPC \ Holding) \ KindScope
  /\ {"c_connected_at", "c_token", "c_read", "connect", "run", "r_token", "r_connected_at",
      "r_overlay", "r_header", "r_kind"} \subseteq OwnerPC \cap Holding \cap KindScope
  /\ {"c_kind", "r_connected"} \subseteq (OwnerPC \cap Holding) \ KindScope
BY SlotAssumption DEF Procs, PCOf, OwnerPC, Parking, LiveHolds, LiveClaim,
     Holding, OwnerHolds, OwnerClaim, OwnerRun, OwnerRelease, KindScope

\* Control moves of the owner.
LEMMA OwnerJumps ==
  ASSUME SlotInv,
         \/ OwnerTop \/ OwnerCheckLive \/ OwnerWaitStopped \/ ScanFound \/ ScanEmpty
         \/ ScanFailed \/ IdleOver \/ AfterCompleted \/ AfterUpstream \/ BackoffOver
         \/ ParkStopped
  PROVE  SlotInv'
<1> USE OwnerLabels, JumpInv
        DEF Smooth, Keeps, TokenScope, UptimeScope, OverlayScope, HeaderScope
<1>1. CASE OwnerTop
  BY <1>1 DEF OwnerTop
<1>2. CASE OwnerCheckLive
  BY <1>2 DEF OwnerCheckLive, Prepare
<1>3. CASE OwnerWaitStopped
  BY <1>3 DEF OwnerWaitStopped
<1>4. CASE ScanFound \/ ScanEmpty \/ ScanFailed
  BY <1>4 DEF ScanFound, ScanEmpty, ScanFailed
<1>5. CASE IdleOver
  BY <1>5 DEF IdleOver
<1>6. CASE AfterCompleted
  BY <1>6 DEF AfterCompleted
<1>7. CASE AfterUpstream
  BY <1>7 DEF AfterUpstream
<1>8. CASE BackoffOver
  BY <1>8 DEF BackoffOver
<1>9. CASE ParkStopped
  BY <1>9 DEF ParkStopped, Parking
<1> QED
  BY <1>1, <1>2, <1>3, <1>4, <1>5, <1>6, <1>7, <1>8, <1>9

\* The stores of claim_slot, of the run and of release_slot.
LEMMA OwnerStores ==
  ASSUME SlotInv,
         \/ ClaimStoreConnectedAt \/ Connected \/ OwnerCaptureHeaders
         \/ ReleaseToken \/ ReleaseConnectedAt \/ ReleaseOverlay \/ ReleaseHeaders
  PROVE  SlotInv'
<1> USE OwnerLabels, StoreInv
        DEF Smooth, Keeps, TokenScope, UptimeScope, OverlayScope, HeaderScope, Fields
<1>1. CASE ClaimStoreConnectedAt
  BY <1>1 DEF ClaimStoreConnectedAt
<1>2. CASE Connected
  BY <1>2 DEF Connected
<1>3. CASE OwnerCaptureHeaders
  BY <1>3 DEF OwnerCaptureHeaders
<1>4. CASE ReleaseToken
  BY <1>4 DEF ReleaseToken
<1>5. CASE ReleaseConnectedAt
  BY <1>5 DEF ReleaseConnectedAt
<1>6. CASE ReleaseOverlay
  BY <1>6 DEF ReleaseOverlay
<1>7. CASE ReleaseHeaders
  BY <1>7 DEF ReleaseHeaders
<1> QED
  BY <1>1, <1>2, <1>3, <1>4, <1>5, <1>6, <1>7

\* A smooth move of the owner that also changes preempt_pending, the permit or
\* the outcome.
LEMMA OwnerFlagsInv ==
  ASSUME SlotInv, NEW a, NEW b, Go(Owner, a, b), Smooth(Owner, a, b),
         Keeps(TokenScope, a, b), Keeps(UptimeScope, a, b),
         Keeps(OverlayScope, a, b), Keeps(HeaderScope, a, b),
         UNCHANGED <<connected, kind, slot, cancelled, stop, orphaned, setup>>,
         pending' \in BOOLEAN, permit' \in BOOLEAN,
         outcome' \in {None, "Cancelled", "Completed", "Ok", "Failed"}
  PROVE  SlotInv'
<1> USE OwnerLabels DEF SlotInv, TypeOK, Go
<1>1. ControlOK'
  BY GoControl DEF Smooth
<1>2. DataOK'
  BY DEF DataOK, OwnerKind
<1>3. SlotExclusion'
  BY GoExclusion DEF Smooth
<1>4. KindExact'
  BY GoKind DEF Smooth
<1>5. FieldScopes'
  BY DEF FieldScopes, Keeps, ControlOK
<1> QED
  BY <1>1, <1>2, <1>3, <1>4, <1>5

\* The end of a run, the wait for a live source, the swap of preempt_pending,
\* the park.
LEMMA OwnerFlags ==
  ASSUME SlotInv,
         \/ OwnerWait \/ AfterCancelled \/ Park
         \/ ConnectCancelled \/ ConnectFailed \/ RunCancelled
         \/ PlaylistCompleted \/ UpstreamEnded
  PROVE  SlotInv'
<1> USE OwnerLabels, OwnerFlagsInv
        DEF Smooth, Keeps, TokenScope, UptimeScope, OverlayScope, HeaderScope
<1>0. DataOK
  BY DEF SlotInv, TypeOK
<1>1. CASE OwnerWait
  <2>1. CASE stop /\ Jump(Owner, "wait", "exited")
    BY <2>1, JumpInv
  <2>2. CASE ~stop /\ ~connected /\ Jump(Owner, "wait", Prepare)
    BY <2>2, JumpInv DEF Prepare
  <2>3. CASE /\ Go(Owner, "wait", IF permit THEN "wait" ELSE "waiting")
             /\ permit' = FALSE
             /\ UNCHANGED <<connected, kind, slot, cancelled, pending, outcome, stop, orphaned, setup>>
    <3>1. CASE permit
      BY <1>0, <2>3, <3>1 DEF DataOK
    <3>2. CASE ~permit
      BY <1>0, <2>3, <3>2 DEF DataOK
    <3> QED
      BY <3>1, <3>2
  <2> QED
    BY <1>1, <2>1, <2>2, <2>3 DEF OwnerWait
<1>2. CASE AfterCancelled
  <2>1. PICK b \in {"exited", "park", "top"} : Go(Owner, "outcome", b)
    BY <1>2 DEF AfterCancelled
  <2> QED
    BY <1>0, <1>2, <2>1 DEF AfterCancelled, DataOK
<1>3. CASE Park
  <2>1. PICK b \in {"top", "parked"} : Go(Owner, "park", b)
    BY <1>3 DEF Park
  <2> QED
    BY <1>0, <1>3, <2>1 DEF Park, DataOK
<1>4. CASE ConnectCancelled \/ ConnectFailed
  BY <1>0, <1>4 DEF ConnectCancelled, ConnectFailed, Finish, DataOK
<1>5. CASE RunCancelled \/ PlaylistCompleted
  BY <1>0, <1>5 DEF RunCancelled, PlaylistCompleted, Finish, DataOK
<1>6. CASE UpstreamEnded
  BY <1>0, <1>6 DEF UpstreamEnded, Finish, DataOK
<1> QED
  BY <1>1, <1>2, <1>3, <1>4, <1>5, <1>6

\* The owner takes a free slot.
LEMMA ClaimOwnerInv ==
  ASSUME SlotInv, ClaimOwner
  PROVE  SlotInv'
<1> USE OwnerLabels DEF SlotInv, TypeOK, ClaimOwner, Claim
<1>1. ControlOK'
  BY GoControl
<1>2. DataOK'
  BY DEF DataOK, OwnerKind
<1>3. SlotExclusion'
  BY DEF SlotExclusion, Holds, ControlOK
<1>4. KindExact'
  BY GoKind
<1>5. FieldScopes'
  BY DEF FieldScopes, ControlOK, TokenScope, UptimeScope, OverlayScope, HeaderScope
<1> QED
  BY <1>1, <1>2, <1>3, <1>4, <1>5

\* The two steps that store source_kind.
LEMMA KindStores ==
  ASSUME SlotInv, ClaimStoreKind \/ ReleaseKind
  PROVE  SlotInv'
<1> USE OwnerLabels DEF SlotInv, TypeOK, ClaimStoreKind, ReleaseKind, Go
<1>1. ControlOK'
  BY GoControl
<1>2. DataOK'
  BY DEF DataOK, OwnerKind
<1>3. SlotExclusion'
  BY GoExclusion
<1>4. KindExact'
  <2>1. ~orphaned
    BY DEF SlotExclusion, Holds
  <2> QED
    BY <2>1 DEF KindExact, OwnerKind, ControlOK
<1>5. FieldScopes'
  BY DEF FieldScopes, ControlOK, TokenScope, UptimeScope, OverlayScope, HeaderScope
<1> QED
  BY <1>1, <1>2, <1>3, <1>4, <1>5

LEMMA ClaimStoreTokenInv ==
  ASSUME SlotInv, ClaimStoreToken
  PROVE  SlotInv'
<1> USE OwnerLabels DEF SlotInv, TypeOK, ClaimStoreToken, NewToken, Go
<1>1. ControlOK'
  BY GoControl
<1>2. DataOK'
  BY DEF DataOK, OwnerKind
<1>3. SlotExclusion'
  BY GoExclusion
<1>4. KindExact'
  BY GoKind
<1>5. FieldScopes'
  BY DEF FieldScopes, ControlOK, DataOK, OwnerKind, Fields,
         TokenScope, UptimeScope, OverlayScope, HeaderScope
<1> QED
  BY <1>1, <1>2, <1>3, <1>4, <1>5

\* Reading the token back, including the relay's panic, which leaves the slot
\* claimed with nobody holding it.
LEMMA ReadBackTokenInv ==
  ASSUME SlotInv, ReadBackToken
  PROVE  SlotInv'
<1> USE OwnerLabels DEF SlotInv, TypeOK
<1>1. CASE Jump(Owner, "c_read", IF OwnerKind = "AutoDj" THEN "run" ELSE "connect")
  BY <1>1, JumpInv DEF Smooth, Keeps, TokenScope, UptimeScope, OverlayScope, HeaderScope
<1>2. CASE Finish("c_read", "Cancelled")
  BY <1>2, OwnerFlagsInv
  DEF Finish, DataOK, Smooth, Keeps, TokenScope, UptimeScope, OverlayScope, HeaderScope
<1>3. CASE /\ slot["source_cancel"] = None
           /\ Go(Owner, "c_read", "panicked")
           /\ orphaned' = TRUE
           /\ UNCHANGED <<connected, kind, slot, cancelled, pending, permit, outcome, stop, setup>>
  <2> USE <1>3 DEF Go
  <2>1. ControlOK'
    BY GoControl
  <2>2. DataOK'
    BY DEF DataOK, OwnerKind
  <2>3. SlotExclusion'
    BY DEF SlotExclusion, Holds, ControlOK
  <2>4. KindExact'
    BY DEF KindExact, OwnerKind
  <2>5. FieldScopes'
    BY DEF FieldScopes, ControlOK, TokenScope, UptimeScope, OverlayScope, HeaderScope
  <2> QED
    BY <2>1, <2>2, <2>3, <2>4, <2>5
<1> QED
  BY <1>1, <1>2, <1>3 DEF ReadBackToken

\* The owner gives the slot back, its kind already cleared.
LEMMA ReleaseConnectedInv ==
  ASSUME SlotInv, ReleaseConnected
  PROVE  SlotInv'
<1> USE OwnerLabels DEF SlotInv, TypeOK, ReleaseConnected, Go
<1>1. ControlOK'
  BY GoControl
<1>2. DataOK'
  BY DEF DataOK, OwnerKind
<1>3. SlotExclusion'
  BY DEF SlotExclusion, Holds, ControlOK
<1>4. KindExact'
  BY GoKind
<1>5. FieldScopes'
  BY DEF FieldScopes, ControlOK, TokenScope, UptimeScope, OverlayScope, HeaderScope
<1> QED
  BY <1>1, <1>2, <1>3, <1>4, <1>5

\* Every step of the owner preserves the invariant.
LEMMA OwnerInv ==
  ASSUME SlotInv, OwnerStep \/ MediaStep
  PROVE  SlotInv'
BY OwnerJumps, OwnerStores, OwnerFlags, ClaimOwnerInv, KindStores, ClaimStoreTokenInv,
   ReadBackTokenInv, ReleaseConnectedInv DEF OwnerStep, MediaStep

-----------------------------------------------------------------------------
(* The admin API and the reloader.                                         *)

LEMMA AdminInv ==
  ASSUME SlotInv, AdminStep
  PROVE  SlotInv'
<1> USE DEF SlotInv, TypeOK
<1>1. CASE KickSource
  BY <1>1 DEF KickSource, CancelSlotToken, ControlOK, DataOK, SlotExclusion, Holds, KindExact, OwnerKind,
              FieldScopes
<1>2. CASE StopTask
  BY <1>2 DEF StopTask, ControlOK, DataOK, SlotExclusion, Holds, KindExact, OwnerKind, FieldScopes
<1>3. CASE Respawn
  <2>1. PICK a \in {"exited", "panicked"} : Go(Owner, a, "top")
    BY <1>3 DEF Respawn
  <2> USE <1>3, <2>1, OwnerLabels DEF Respawn, Go
  <2>2. ControlOK'
    BY GoControl
  <2>3. DataOK'
    BY DEF DataOK, OwnerKind
  <2>4. SlotExclusion'
    BY GoExclusion
  <2>5. KindExact'
    BY GoKind
  <2>6. FieldScopes'
    BY DEF FieldScopes, ControlOK, TokenScope, UptimeScope, OverlayScope, HeaderScope
  <2> QED
    BY <2>2, <2>3, <2>4, <2>5, <2>6
<1> QED
  BY <1>1, <1>2, <1>3 DEF AdminStep

-----------------------------------------------------------------------------
(* Theorems.                                                               *)

LEMMA InitInv == Init => SlotInv
<1> SUFFICES ASSUME Init PROVE SlotInv
  OBVIOUS
<1> USE OwnerLabels, LiveLabels, SlotAssumption DEF Init
<1>1. ControlOK
  BY DEF ControlOK, Procs
<1>2. DataOK
  BY DEF DataOK, OwnerKind, Fields
<1>3. SlotExclusion
  BY DEF SlotExclusion, Holds, Procs
<1>4. KindExact
  BY DEF KindExact, OwnerKind
<1>5. FieldScopes
  BY DEF FieldScopes, Procs, Fields
<1> QED
  BY <1>1, <1>2, <1>3, <1>4, <1>5 DEF SlotInv, TypeOK

LEMMA StepInv == SlotInv /\ [Next]_vars => SlotInv'
<1>1. CASE UNCHANGED vars
  BY <1>1 DEF vars, SlotInv, TypeOK, ControlOK, DataOK, SlotExclusion, Holds, KindExact, OwnerKind, FieldScopes
<1> QED
  BY <1>1, SessionInv, OwnerInv, AdminInv DEF Next

\* The inductive invariant holds in every reachable state.
THEOREM Invariance == SafetySpec => []SlotInv
BY InitInv, StepInv, PTL DEF SafetySpec

\* The state of the mount is well typed in every reachable state.
THEOREM TypeCorrect == SafetySpec => []TypeOK
<1>1. SlotInv => TypeOK
  BY DEF SlotInv
<1> QED
  BY <1>1, Invariance, PTL

\* At most one source holds the mount, and source_connected tells whether one
\* does: for any number of live sessions and either owner.
THEOREM Exclusion == SafetySpec => []SlotExclusion
<1>1. SlotInv => SlotExclusion
  BY DEF SlotInv
<1> QED
  BY <1>1, Invariance, PTL

\* A live source is never taken for a preemptable owner.
THEOREM LiveIsSafe == SafetySpec => []LiveNeverPreemptable
<1>1. SlotInv => LiveNeverPreemptable
  <2> SUFFICES ASSUME SlotInv, NEW s \in Sessions, Holds(s)
               PROVE  kind = None
    BY DEF LiveNeverPreemptable
  <2>1. ~Holds(Owner) /\ ~orphaned
    BY LiveLabels, OwnerLabels DEF SlotInv, SlotExclusion
  <2>2. pc[Owner] \notin KindScope
    BY <2>1 DEF Holds, Holding, KindScope, OwnerHolds, OwnerClaim
  <2> QED
    BY <2>1, <2>2 DEF SlotInv, KindExact
<1> QED
  BY <1>1, Invariance, PTL

\* A token found in the slot belongs to the source that holds it, or to a
\* session on its way out: no kick or preemption reaches a later source.
THEOREM TokensAreCurrent == SafetySpec => []TokenIsCurrent
<1>1. SlotInv => TokenIsCurrent
  BY DEF SlotInv, FieldScopes, TokenIsCurrent, TokenScope, Holds, Holding, LiveHolds, LiveClaim,
         OwnerHolds, OwnerRun, OwnerRelease
<1> QED
  BY <1>1, Invariance, PTL

\* A slot that is free and not being cleaned up is clean.
THEOREM FreeIsClean == SafetySpec => []FreeSlotIsClean
<1>1. SlotInv => FreeSlotIsClean
  <2> SUFFICES ASSUME SlotInv, ~connected, \A s \in Sessions : pc[s] \notin GuardTail,
                      NEW f \in Fields \ {"codec"}
               PROVE  slot[f] = None
    BY DEF FreeSlotIsClean
  <2>1. ~orphaned /\ \A p \in Procs : pc[p] \notin Holding
    BY DEF SlotInv, SlotExclusion, Holds
  <2>2. \A p \in Procs : pc[p] \notin GuardTail
    <3>1. \A a \in OwnerPC : a \notin GuardTail
      BY DEF OwnerPC, GuardTail, Parking, OwnerHolds, OwnerClaim, OwnerRun, OwnerRelease
    <3> QED
      BY <3>1 DEF SlotInv, TypeOK, ControlOK, Procs
  <2>3. TokenScope \cup UptimeScope \cup HeaderScope \cup OverlayScope \subseteq Holding \cup GuardTail
    BY DEF TokenScope, UptimeScope, HeaderScope, OverlayScope, Holding, LiveHolds, LiveClaim,
           OwnerHolds, OwnerClaim, OwnerRun, OwnerRelease, GuardTail
  <2> QED
    BY <2>1, <2>2, <2>3 DEF SlotInv, TypeOK, DataOK, FieldScopes, Fields
<1> QED
  BY <1>1, Invariance, PTL
=============================================================================
