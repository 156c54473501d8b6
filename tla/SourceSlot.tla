----------------------------- MODULE SourceSlot -----------------------------
(***************************************************************************)
(* The source slot of one configured mount, ActiveMount in                 *)
(* rustyice-core/src/mount.rs: at most one source publishes on a mount at  *)
(* a time.  Three kinds of process fight for it:                           *)
(*   - live sessions, one task per PUT/SOURCE connection                   *)
(*     (handle_source_connection in source_protocol.rs);                   *)
(*   - the non-live owner of the mount, one AutoDJ or one Relay task       *)
(*     (AutoDjPlayer::run, RelayTask::run), which steps aside for a live   *)
(*     source and takes the slot back afterwards;                          *)
(*   - the admin API (kick_source) and the configuration reloader, which   *)
(*     cancels the owner's task and spawns a new one.                      *)
(* The slot is a handful of atomics and mutexes that no lock covers as a   *)
(* whole, so every load and every store is a step of its own here, in the  *)
(* order of the code.                                                      *)
(***************************************************************************)
EXTENDS FiniteSets

CONSTANTS
  Sessions,   \* live source connections (a session may connect again later)
  Owner,      \* the AutoDJ or Relay task of the mount
  OwnerKinds, \* what that task may be: "AutoDj", "Relay"
  Envs,       \* what the environment may do: sets of EnvEvents
  None        \* an empty Option, SourceKind::None

\* A wrong password, a codec the transcoder does not take, an admin kick, an
\* owner that needs more than 500 ms to release, a configuration reload.
EnvEvents == {"bad_password", "bad_codec", "kick", "slow_release", "reload"}

ASSUME SlotAssumption ==
  /\ Owner \notin Sessions
  /\ None \notin Sessions \cup {Owner}
  /\ OwnerKinds \subseteq {"AutoDj", "Relay"}
  /\ \A e \in Envs : e \subseteq EnvEvents

Procs == Sessions \cup {Owner}

\* The fields of ActiveMount that belong to the connected source.  The model
\* keeps whose value a field holds, not the value.
Fields == {"source_cancel", "connected_at", "source_overlay", "header_bytes", "codec"}

VARIABLES
  pc,        \* the next statement of every process
  connected, \* source_connected
  kind,      \* source_kind
  slot,      \* field -> the process that stored it, or None
  cancelled, \* process -> the token of its current claim is cancelled
  pending,   \* preempt_pending
  permit,    \* the permit stored in the Notify non_live_resume
  outcome,   \* RunOutcome / PassOutcome of the owner's last run
  stop,      \* the owner task's shutdown token is cancelled
  orphaned,  \* an owner task panicked while it held the slot
  setup      \* the owner's kind and the environment, chosen once

vars == <<pc, connected, kind, slot, cancelled, pending, permit, outcome, stop, orphaned, setup>>

OwnerKind == setup.owner
Env == setup.env

-----------------------------------------------------------------------------
(* Control states.  A process holds the slot from its successful           *)
(* compare_exchange up to the store of FALSE into source_connected.        *)

Preempting == {"chk_connected", "chk_kind", "set_pending", "cancel", "await_release"}
LiveClaim  == {"st_token", "st_connected_at", "st_codec", "st_overlay"}
LiveHolds  == LiveClaim \cup {"stream", "g_connected"}
GuardTail  == {"g_token", "g_connected_at", "g_overlay", "g_header", "g_notify"}
LivePC     == {"idle", "verify", "check_codec", "cas"}
                \cup Preempting \cup LiveHolds \cup GuardTail

OwnerClaim   == {"c_kind", "c_connected_at", "c_token"}
OwnerRun     == {"c_read", "connect", "run"}
OwnerRelease == {"r_token", "r_connected_at", "r_overlay", "r_header",
                 "r_kind", "r_connected"}
OwnerHolds   == OwnerClaim \cup OwnerRun \cup OwnerRelease
Parking      == {"park", "parked"}
OwnerPC      == {"top", "chk_live", "wait", "waiting", "scan", "idle_30s", "claim",
                 "outcome", "backoff", "exited", "panicked"}
                  \cup Parking \cup OwnerHolds

Holding  == LiveHolds \cup OwnerHolds
Holds(p) == pc[p] \in Holding

Init ==
  /\ setup \in [owner : OwnerKinds, env : Envs]
  /\ pc = [p \in Procs |-> IF p = Owner THEN "top" ELSE "idle"]
  /\ connected = FALSE
  /\ kind = None
  /\ slot = [f \in Fields |-> IF f = "codec" /\ OwnerKind = "AutoDj" THEN Owner ELSE None]
  /\ cancelled = [p \in Procs |-> FALSE]
  /\ pending = FALSE
  /\ permit = FALSE
  /\ outcome = None
  /\ stop = FALSE
  /\ orphaned = FALSE

-----------------------------------------------------------------------------
(* Step shapes.                                                            *)

Go(p, from, to) == pc[p] = from /\ pc' = [pc EXCEPT ![p] = to]

\* A step that only moves p's control.
Jump(p, from, to) ==
  /\ Go(p, from, to)
  /\ UNCHANGED <<connected, kind, slot, cancelled, pending, permit, outcome, stop, orphaned, setup>>

\* A step that stores v into one field of the slot.
Store(p, from, f, v, to) ==
  /\ Go(p, from, to)
  /\ slot' = [slot EXCEPT ![f] = v]
  /\ UNCHANGED <<connected, kind, cancelled, pending, permit, outcome, stop, orphaned, setup>>

\* Mutant of Claim: a plain store instead of a compare_exchange.
ClaimByStore(p, from, won, lost) ==
  /\ Go(p, from, won)
  /\ connected' = TRUE
  /\ UNCHANGED <<kind, slot, cancelled, pending, permit, outcome, stop, orphaned, setup>>

\* compare_exchange(false, true) on source_connected.
Claim(p, from, won, lost) ==
  /\ pc[p] = from
  /\ pc' = [pc EXCEPT ![p] = IF connected THEN lost ELSE won]
  /\ connected' = TRUE
  /\ UNCHANGED <<kind, slot, cancelled, pending, permit, outcome, stop, orphaned, setup>>

\* A fresh CancellationToken stored into source_cancel.
NewToken(p, from, to) ==
  /\ Go(p, from, to)
  /\ slot' = [slot EXCEPT !["source_cancel"] = p]
  /\ cancelled' = [cancelled EXCEPT ![p] = FALSE]
  /\ UNCHANGED <<connected, kind, pending, permit, outcome, stop, orphaned, setup>>

\* The effect of clone-and-cancel on whatever token source_cancel holds.
CancelSlotToken ==
  cancelled' = [p \in Procs |-> cancelled[p] \/ p = slot["source_cancel"]]

-----------------------------------------------------------------------------
(* Live sessions: handle_source_connection.                                *)

Connect(s) == Jump(s, "idle", "chk_connected")

\* preempt_non_live_if_present, first condition.
CheckConnected(s) ==
  Jump(s, "chk_connected", IF connected THEN "chk_kind" ELSE "verify")

\* Second condition: the kind is loaded after source_connected.  The kind is
\* None for a live source as well: nothing stores SourceKind::Live.
CheckKind(s) ==
  Jump(s, "chk_kind", IF kind = None THEN "verify" ELSE "set_pending")

SetPending(s) ==
  /\ Go(s, "set_pending", "cancel")
  /\ pending' = TRUE
  /\ UNCHANGED <<connected, kind, slot, cancelled, permit, outcome, stop, orphaned, setup>>

CancelNonLive(s) ==
  /\ Go(s, "cancel", "await_release")
  /\ CancelSlotToken
  /\ UNCHANGED <<connected, kind, slot, pending, permit, outcome, stop, orphaned, setup>>

Released(s) == ~connected /\ Jump(s, "await_release", "verify")

\* Mutant of PreemptTimeout: the wait has no deadline.
NoPreemptTimeout(s) == FALSE /\ Jump(s, "await_release", "idle")

\* 500 ms passed and the slot is still taken: reply 500.  preempt_pending
\* stays set.  A cancelled owner lets go in time unless Env says otherwise.
PreemptTimeout(s) ==
  /\ connected
  /\ cancelled[Owner] /\ Holds(Owner) => "slow_release" \in Env
  /\ Jump(s, "await_release", "idle")

\* verify_source runs after the preemption.
Verified(s) == Jump(s, "verify", "check_codec")
Unauthorized(s) == "bad_password" \in Env /\ Jump(s, "verify", "idle")

CodecAccepted(s) == Jump(s, "check_codec", "cas")
UnsupportedCodec(s) == "bad_codec" \in Env /\ Jump(s, "check_codec", "idle")

ClaimLive(s) == Claim(s, "cas", "st_token", "idle")

StoreToken(s) == NewToken(s, "st_token", "st_connected_at")
StoreConnectedAt(s) == Store(s, "st_connected_at", "connected_at", s, "st_codec")
StoreCodec(s) == Store(s, "st_codec", "codec", s, "st_overlay")
StoreOverlay(s) == Store(s, "st_overlay", "source_overlay", s, "stream")

\* The ingest captured the Ogg header pages of this stream.
CaptureHeaders(s) == Store(s, "stream", "header_bytes", s, "stream")

\* The stream ends: end of body, I/O error, failed upfront response, failed
\* transcoder start; or its token was cancelled.
SourceEnds(s) == Jump(s, "stream", "g_connected")
SourceCancelled(s) == cancelled[s] /\ Jump(s, "stream", "g_connected")

\* SourceDisconnectGuard::drop.
GuardDisconnect(s) ==
  /\ Go(s, "g_connected", "g_token")
  /\ connected' = FALSE
  /\ UNCHANGED <<kind, slot, cancelled, pending, permit, outcome, stop, orphaned, setup>>
\* Mutants: the guard forgets the token, the headers, the wake-up.
GuardKeepsToken(s) == Jump(s, "g_token", "g_connected_at")
GuardKeepsHeaders(s) == Jump(s, "g_header", "g_notify")
GuardForgetsNotify(s) == Jump(s, "g_notify", "idle")

GuardClearToken(s) == Store(s, "g_token", "source_cancel", None, "g_connected_at")
GuardClearConnectedAt(s) == Store(s, "g_connected_at", "connected_at", None, "g_overlay")
GuardClearOverlay(s) == Store(s, "g_overlay", "source_overlay", None, "g_header")
GuardClearHeaders(s) == Store(s, "g_header", "header_bytes", None, "g_notify")

\* Notify::notify_one: wake the registered waiter, or else leave a permit.
GuardNotify(s) ==
  /\ pc[s] = "g_notify"
  /\ \/ /\ pc[Owner] = "waiting"
        /\ pc' = [pc EXCEPT ![s] = "idle", ![Owner] = "wait"]
        /\ UNCHANGED permit
     \/ /\ pc[Owner] = "parked"
        /\ pc' = [pc EXCEPT ![s] = "idle", ![Owner] = "top"]
        /\ UNCHANGED permit
     \/ /\ pc[Owner] \notin {"waiting", "parked"}
        /\ pc' = [pc EXCEPT ![s] = "idle"]
        /\ permit' = TRUE
  /\ UNCHANGED <<connected, kind, slot, cancelled, pending, outcome, stop, orphaned, setup>>

SessionStep(s) ==
  \/ CheckConnected(s) \/ CheckKind(s) \/ SetPending(s) \/ CancelNonLive(s)
  \/ Released(s) \/ PreemptTimeout(s)
  \/ Verified(s) \/ Unauthorized(s) \/ CodecAccepted(s) \/ UnsupportedCodec(s)
  \/ ClaimLive(s) \/ StoreToken(s) \/ StoreConnectedAt(s) \/ StoreCodec(s)
  \/ StoreOverlay(s) \/ SourceCancelled(s)
  \/ GuardDisconnect(s) \/ GuardClearToken(s) \/ GuardClearConnectedAt(s)
  \/ GuardClearOverlay(s) \/ GuardClearHeaders(s) \/ GuardNotify(s)

\* What the far end of the connection decides.
ClientStep(s) == Connect(s) \/ CaptureHeaders(s) \/ SourceEnds(s)

-----------------------------------------------------------------------------
(* The non-live owner: AutoDjPlayer::run and RelayTask::run.               *)

\* The AutoDJ scans its folder before it claims the slot.
Prepare == IF OwnerKind = "AutoDj" THEN "scan" ELSE "claim"

OwnerTop == Jump(Owner, "top", IF stop THEN "exited" ELSE "chk_live")

\* The relay does not wait for a slot whose kind is Relay: one that a task
\* before it left claimed when it panicked.  It then goes round and round, for
\* its claim fails.  Only this task stores the kind, so that both loads are one
\* step.
OwnerCheckLive ==
  LET live == connected /\ ~(OwnerKind = "Relay" /\ kind = "Relay")
  IN Jump(Owner, "chk_live", IF live THEN "wait" ELSE Prepare)

\* wait_for_live_source_to_release: loop head ...
OwnerWait ==
  \/ stop /\ Jump(Owner, "wait", "exited")
  \/ ~stop /\ ~connected /\ Jump(Owner, "wait", Prepare)
  \/ /\ ~stop /\ connected
     /\ Go(Owner, "wait", IF permit THEN "wait" ELSE "waiting")
     /\ permit' = FALSE
     /\ UNCHANGED <<connected, kind, slot, cancelled, pending, outcome, stop, orphaned, setup>>

\* Mutant of OwnerWaitStopped: the wait does not select on the token.
OwnerWaitDeaf == FALSE /\ Jump(Owner, "waiting", "exited")

\* ... and the select with the waiter registered.
OwnerWaitStopped == stop /\ Jump(Owner, "waiting", "exited")

\* AutoDJ only: the folder scan before each pass.
ScanFound == Jump(Owner, "scan", "claim")
ScanEmpty == Jump(Owner, "scan", "idle_30s")
ScanFailed == Jump(Owner, "scan", "exited")
IdleOver == Jump(Owner, "idle_30s", "top")

ClaimOwner == Claim(Owner, "claim", "c_kind", "top")

ClaimStoreKind ==
  /\ Go(Owner, "c_kind", "c_connected_at")
  /\ kind' = OwnerKind
  /\ UNCHANGED <<connected, slot, cancelled, pending, permit, outcome, stop, orphaned, setup>>
ClaimStoreConnectedAt == Store(Owner, "c_connected_at", "connected_at", Owner, "c_token")
ClaimStoreToken == NewToken(Owner, "c_token", "c_read")

Finish(from, result) ==
  /\ Go(Owner, from, "r_token")
  /\ outcome' = result
  /\ UNCHANGED <<connected, kind, slot, cancelled, pending, permit, stop, orphaned, setup>>

\* The token is read back from the slot.  The AutoDJ gives the pass up when
\* it is gone; the relay's expect() panics with the slot still claimed.
ReadBackToken ==
  \/ slot["source_cancel"] # None
     /\ Jump(Owner, "c_read", IF OwnerKind = "AutoDj" THEN "run" ELSE "connect")
  \/ slot["source_cancel"] = None /\ OwnerKind = "AutoDj" /\ Finish("c_read", "Cancelled")
  \/ /\ slot["source_cancel"] = None /\ OwnerKind = "Relay"
     /\ Go(Owner, "c_read", "panicked")
     /\ orphaned' = TRUE
     /\ UNCHANGED <<connected, kind, slot, cancelled, pending, permit, outcome, stop, setup>>

\* Relay: open_upstream raced against both tokens.
ConnectCancelled == (stop \/ cancelled[Owner]) /\ Finish("connect", "Cancelled")
ConnectFailed == Finish("connect", "Failed")
Connected == Store(Owner, "connect", "codec", Owner, "run")

OwnerCaptureHeaders == Store(Owner, "run", "header_bytes", Owner, "run")

\* A pass or a relayed stream is cancelled.  The AutoDJ bridges its shutdown
\* token into the pass; the relay's ingest is given source_cancel only.
RunCancelled ==
  /\ cancelled[Owner] \/ (OwnerKind = "AutoDj" /\ stop)
  /\ Finish("run", "Cancelled")
PlaylistCompleted == OwnerKind = "AutoDj" /\ Finish("run", "Completed")
UpstreamEnded == OwnerKind = "Relay" /\ \E r \in {"Ok", "Failed"} : Finish("run", r)

\* release_slot.
ReleaseToken == Store(Owner, "r_token", "source_cancel", None, "r_connected_at")
ReleaseConnectedAt == Store(Owner, "r_connected_at", "connected_at", None, "r_overlay")
ReleaseOverlay == Store(Owner, "r_overlay", "source_overlay", None, "r_header")
ReleaseHeaders == Store(Owner, "r_header", "header_bytes", None, "r_kind")
\* Mutant of ReleaseKind: the kind outlives the claim.
ReleaseKeepsKind == Jump(Owner, "r_kind", "r_connected")
ReleaseKind ==
  /\ Go(Owner, "r_kind", "r_connected")
  /\ kind' = None
  /\ UNCHANGED <<connected, slot, cancelled, pending, permit, outcome, stop, orphaned, setup>>
ReleaseConnected ==
  /\ Go(Owner, "r_connected", "outcome")
  /\ connected' = FALSE
  /\ UNCHANGED <<kind, slot, cancelled, pending, permit, outcome, stop, orphaned, setup>>

\* After a cancelled run: exit, park when the swap of preempt_pending
\* returned TRUE, or go round.
AfterCancelled ==
  /\ outcome = "Cancelled"
  /\ Go(Owner, "outcome", IF stop THEN "exited" ELSE IF pending THEN "park" ELSE "top")
  /\ pending' = (pending /\ stop)
  /\ UNCHANGED <<connected, kind, slot, cancelled, permit, outcome, stop, orphaned, setup>>
AfterCompleted == outcome = "Completed" /\ \E to \in {"top", "exited"} : Jump(Owner, "outcome", to)
AfterUpstream == outcome \in {"Ok", "Failed"} /\ Jump(Owner, "outcome", "backoff")
BackoffOver == Jump(Owner, "backoff", IF stop THEN "exited" ELSE "top")

\* non_live_resume.notified(): take the permit or register.  Only the relay
\* selects on its shutdown token as well.
Park ==
  /\ ~(OwnerKind = "Relay" /\ stop)
  /\ Go(Owner, "park", IF permit THEN "top" ELSE "parked")
  /\ permit' = FALSE
  /\ UNCHANGED <<connected, kind, slot, cancelled, pending, outcome, stop, orphaned, setup>>
ParkStopped ==
  /\ OwnerKind = "Relay" /\ stop
  /\ \E at \in Parking : Jump(Owner, at, "exited")

\* What the playlist, the folder and the upstream decide.
MediaStep == ScanEmpty \/ ScanFailed \/ ConnectFailed \/ OwnerCaptureHeaders
               \/ PlaylistCompleted \/ UpstreamEnded

OwnerStep ==
  \/ OwnerTop \/ OwnerCheckLive \/ OwnerWait \/ OwnerWaitStopped
  \/ ScanFound \/ IdleOver \/ ClaimOwner
  \/ ClaimStoreKind \/ ClaimStoreConnectedAt \/ ClaimStoreToken \/ ReadBackToken
  \/ ConnectCancelled \/ Connected \/ RunCancelled
  \/ ReleaseToken \/ ReleaseConnectedAt \/ ReleaseOverlay \/ ReleaseHeaders
  \/ ReleaseKind \/ ReleaseConnected
  \/ AfterCancelled \/ AfterCompleted \/ AfterUpstream \/ BackoffOver
  \/ Park \/ ParkStopped

-----------------------------------------------------------------------------
(* The admin API and the reloader.                                         *)

\* kick_source: the load of source_connected, then, with the mutex held, the
\* cancel of the token found in the slot.
KickSource ==
  /\ "kick" \in Env
  /\ connected
  /\ slot["source_cancel"] # None
  /\ CancelSlotToken
  /\ UNCHANGED <<pc, connected, kind, slot, pending, permit, outcome, stop, orphaned, setup>>

\* AutoDjRegistry::cancel / RelayRegistry::cancel: cancel the task's token,
\* then wait for the task ...
StopTask ==
  /\ "reload" \in Env
  /\ stop' = TRUE
  /\ UNCHANGED <<pc, connected, kind, slot, cancelled, pending, permit, outcome, orphaned, setup>>

\* ... and apply_config spawns its replacement on the same mount.
Respawn ==
  /\ stop
  /\ \E from \in {"exited", "panicked"} : Go(Owner, from, "top")
  /\ stop' = FALSE
  /\ UNCHANGED <<connected, kind, slot, cancelled, pending, permit, outcome, orphaned, setup>>

AdminStep == KickSource \/ StopTask \/ Respawn

Next ==
  \/ \E s \in Sessions : SessionStep(s) \/ ClientStep(s)
  \/ OwnerStep \/ MediaStep
  \/ AdminStep

\* Tasks that can run do run; nothing is assumed of clients, of media files
\* and upstreams, or of operators.  The wait of a preemption ends although the
\* slot is freed and taken again under it: its deadline does not move.
Fairness ==
  /\ \A s \in Sessions :
       /\ WF_vars(SessionStep(s))
       /\ SF_vars(Released(s) \/ PreemptTimeout(s))
  /\ WF_vars(OwnerStep)

SafetySpec == Init /\ [][Next]_vars
Spec == SafetySpec /\ Fairness

-----------------------------------------------------------------------------
(* Properties.                                                             *)

ControlOK ==
  /\ pc \in [Procs -> LivePC \cup OwnerPC]
  /\ \A s \in Sessions : pc[s] \in LivePC
  /\ pc[Owner] \in OwnerPC

DataOK ==
  /\ connected \in BOOLEAN
  /\ kind \in {None, OwnerKind}
  /\ slot \in [Fields -> Procs \cup {None}]
  /\ cancelled \in [Procs -> BOOLEAN]
  /\ pending \in BOOLEAN
  /\ permit \in BOOLEAN
  /\ outcome \in {None, "Cancelled", "Completed", "Ok", "Failed"}
  /\ stop \in BOOLEAN
  /\ orphaned \in BOOLEAN
  /\ setup \in [owner : OwnerKinds, env : Envs]

\* The type invariant.
TypeOK == ControlOK /\ DataOK

\* One source at a time: two processes never hold the slot together, and
\* source_connected says exactly whether one does (or a panicked task left it
\* claimed, and then nobody does).  The compare_exchange of
\* the live handler, of both claim_slot functions, and the order in which the
\* guard and release_slot give the slot back are what it rests on.
SlotExclusion ==
  /\ \A p, q \in Procs : Holds(p) /\ Holds(q) => p = q
  /\ orphaned => \A p \in Procs : ~Holds(p)
  /\ connected <=> orphaned \/ \E p \in Procs : Holds(p)

\* While a live source holds the slot its kind is None, so a second live
\* connection that looks then is answered 409 instead of preempting the first
\* (one that looked earlier: PreemptsOwnerOnly).  Live handlers never store a
\* kind, so this needs release_slot to store None before it gives the slot
\* back (relay/mod.rs:139-140, player.rs:313-314).
LiveNeverPreemptable ==
  \A s \in Sessions : Holds(s) => kind = None

\* A slot nobody holds, with no disconnect guard half-way, carries nothing of
\* a past source: no cancel token, no uptime, no identity overlay, no codec
\* headers for the next listener.
FreeSlotIsClean ==
  (~connected /\ \A s \in Sessions : pc[s] \notin GuardTail)
    => \A f \in Fields \ {"codec"} : slot[f] = None

\* The token in the slot is the current holder's, or that of a session whose
\* guard is about to clear it: an admin kick or a preemption can never cancel
\* a source that claims the slot later.
TokenIsCurrent ==
  \A p \in Procs : slot["source_cancel"] = p => Holds(p) \/ pc[p] = "g_token"

\* The inductive strengthening.  KindExact says when source_kind names the
\* owner; the scopes say at which statements a process can still find its own
\* value in a field, which is what makes a stale value impossible.
KindScope   == ({"c_connected_at", "c_token"} \cup OwnerRun \cup OwnerRelease) \ {"r_connected"}
TokenScope  == {"st_connected_at", "st_codec", "st_overlay", "stream", "g_connected", "g_token",
                "c_read", "connect", "run", "r_token"}
UptimeScope == {"st_codec", "st_overlay", "stream", "g_connected", "g_token", "g_connected_at",
                "c_token", "c_read", "connect", "run", "r_token", "r_connected_at"}
OverlayScope == {"stream", "g_connected", "g_token", "g_connected_at", "g_overlay"}
HeaderScope  == OverlayScope \cup {"g_header", "run", "r_token", "r_connected_at", "r_overlay",
                                  "r_header"}

KindExact == kind = IF pc[Owner] \in KindScope \/ orphaned THEN OwnerKind ELSE None

FieldScopes ==
  \A p \in Procs :
    /\ slot["source_cancel"] = p => pc[p] \in TokenScope
    /\ slot["connected_at"] = p => pc[p] \in UptimeScope \/ orphaned
    /\ slot["source_overlay"] = p => pc[p] \in OverlayScope
    /\ slot["header_bytes"] = p => pc[p] \in HeaderScope

\* The inductive invariant of the module; SlotExclusion, LiveNeverPreemptable,
\* FreeSlotIsClean and TokenIsCurrent follow from it.
SlotInv == TypeOK /\ SlotExclusion /\ KindExact /\ FieldScopes

\* Every connection is answered or starts streaming: no order of claims,
\* releases and preemptions leaves a handshake waiting.  Rests on the 500 ms
\* bound of preempt_non_live_if_present.
HandshakeTerminates ==
  \A s \in Sessions : pc[s] \notin {"idle", "stream"} ~> pc[s] \in {"idle", "stream"}

\* A live source that disconnects wakes the owner that parked for it
\* (source_protocol.rs:476-477); a wake-up is not lost however the owner's
\* poll of notified() and the guard's notify_one interleave.
DisconnectWakesOwner ==
  \A s \in Sessions :
    (pc[s] \in GuardTail /\ pc[Owner] \in Parking) ~> pc[Owner] \notin Parking

Quiet == \A s \in Sessions : pc[s] = "idle"

\* README.md:206: once live sources stop coming, the owner does not stay parked or waiting
\* for the slot: it is back on the air, or idle for a reason of its own (empty
\* folder, upstream backoff, end of its task).
OwnerResumes ==
  <>[]Quiet => []<>(pc[Owner] \notin Parking \cup {"wait", "waiting"})

\* It does when sources are valid and let in, nobody kicks and releases are
\* timely.  Each event of EnvEvents taken alone breaks it, and a panic counts
\* as the end of the task.
OwnerNotStranded == Env = {} => OwnerResumes

\* A task that is stopped ends, wherever its token finds it: in the scan, half-
\* way through its claim, waiting for a live source, in its idle sleep or its
\* backoff.  Two places do not look at the token and are excepted: an AutoDJ
\* that has parked (player.rs:242) and a relay whose upstream runs (relay/mod.rs:198).
StopEndsFreeTask ==
  stop ~> \/ pc[Owner] \in {"exited", "panicked"}
          \/ OwnerKind = "AutoDj" /\ pc[Owner] \in Parking
          \/ OwnerKind = "Relay" /\ pc[Owner] = "run"

-----------------------------------------------------------------------------
(* What comments, assertions and the README say of the slot, and the code  *)
(* does not keep: TLC refutes each under the .cfg the README names.        *)

\* relay/mod.rs:75, expect("claim_slot installed a cancel token").
ClaimInstalledToken == pc[Owner] # "panicked"

\* player.rs:179-180: the handle resolves when the player exits, cleanly or on
\* shutdown; shutdown.rs:4: cancelling the token makes all tasks drain.
StopEndsTask == stop ~> pc[Owner] \in {"exited", "panicked"}

\* source_protocol.rs:324-326: a preemption cancels the token of the non-live
\* owner.  The kind is checked before the token is taken from the slot, and
\* in between the owner may have given way to another live source.
PreemptsOwnerOnly ==
  [][\A s, t \in Sessions : CancelNonLive(s) /\ Holds(t) => cancelled'[t] = cancelled[t]]_vars
=============================================================================
