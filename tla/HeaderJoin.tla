----------------------------- MODULE HeaderJoin -----------------------------
(***************************************************************************)
(* What a listener that joins a mount streaming Ogg Vorbis is sent:        *)
(* listener_handler in rustyice-server/src/stream_router.rs, the output    *)
(* task it spawns, and the source and its disconnect guard they race with. *)
(* A Vorbis decoder needs the header pages of a logical stream (a chain)   *)
(* before its audio.  The ingest copies what it publishes into an          *)
(* OggHeaderCapture until the first page of audio is complete, and then    *)
(* keeps the headers of its first chain in header_bytes.  A handler that   *)
(* finds them there writes them first and subscribes to live packets only, *)
(* one that does not relies on the burst of the bus.  The handler never    *)
(* awaits, but other worker threads run between its loads.                 *)
(* A packet is a piece of a chain: what one read of a passthrough client   *)
(* or one call of the encoder brought, cut anywhere between the parts of   *)
(* the headers and of the audio, every part one unit of bytes.  The bus is *)
(* that of BroadcastBus with a channel deep enough that nobody lags; the   *)
(* limits and the clients are in ListenerAdmission.                        *)
(***************************************************************************)
EXTENDS Integers, Sequences

CONSTANTS
  Listeners,
  Burst,           \* burst_size of the mount, in bytes
  MaxHeaderBuffer, \* MAX_HEADER_BUFFER, in bytes
  HeaderParts,     \* parts the header pages of a chain may be cut into
  Kinds,           \* sources of the mount: "Live", "AutoDj"
  Chained,         \* a source may start a new chain while it streams
  MaxChains,       \* bound: chains published
  MaxPackets,      \* bound: packets published
  MaxGuards,       \* bound: disconnect guards between kicks and clears
  None

Chains == 1..MaxChains
Audio == HeaderParts + 1 \* the part of a packet that is no header
Parts == 1..Audio
Bytes == 0..(MaxPackets * Audio)

\* From part first to part last of a chain, at a position of the byte stream.
Packet == {p \in [chain : Chains, first : Parts, last : Parts, at : Bytes] : p.first <= p.last}
End(p) == p.at + (p.last - p.first) + 1
Opens(p, c) == p.chain = c /\ p.first = 1

\* An OggHeaderCapture: the chain it began with, and where.
Capture == [chain : Chains, at : Bytes]

ASSUME JoinAssumption ==
  /\ {Burst, MaxChains, MaxPackets, MaxGuards} \subseteq Nat
  /\ {MaxHeaderBuffer, HeaderParts} \subseteq Nat \ {0}
  /\ Kinds \subseteq {"Live", "AutoDj"}
  /\ Chained \in BOOLEAN
  /\ None \notin Nat \cup Packet \cup Capture \cup Kinds

VARIABLES
  source, \* kind of the connected source, or None
  phase,  \* of its output: "fresh" (none yet), "on", "flushed" (its last)
  capt,   \* header_capture of the ingest, None once settled
  out,    \* a packet between header capture and publish
  stream, \* packets published on the bus
  header, \* header_bytes: the chain whose header pages it holds
  guards, \* disconnect guards between their kicks and their clears
  pc,     \* the next statement of every listener's handler and task
  snap,   \* the header_bytes a handler loaded
  from,   \* the next packet of a subscription
  airs,   \* the chain on air when a listener subscribed, or the next one
  found,  \* how a subscription met the source, see Subscribe
  has,    \* the header parts a listener's decoder got last, without a gap
  fault,  \* "blip": it got them twice; "mute": audio without them
  listed, \* listeners in the ListenerMap
  kicked  \* listeners whose token is cancelled

sourceVars == <<source, phase, capt, out, stream, header, guards>>
joinVars == <<snap, from, airs, found>>
vars == <<source, phase, capt, out, stream, header, guards,
          pc, snap, from, airs, found, has, fault, listed, kicked>>

PCs == {"load", "subscribe", "register", "prefix", "stream", "leave"}

Heads(c, n) == [chain |-> c, upto |-> n]
Untuned == Heads(0, 0)
Full(c) == Heads(c, HeaderParts)

Init ==
  /\ source = None /\ phase = "fresh" /\ capt = None
  /\ out = None /\ stream = <<>> /\ header = None /\ guards = 0
  /\ pc = [l \in Listeners |-> "load"]
  /\ snap = [l \in Listeners |-> None]
  /\ from = [l \in Listeners |-> 1]
  /\ airs = [l \in Listeners |-> 1]
  /\ found = [l \in Listeners |-> "right"]
  /\ has = [l \in Listeners |-> Untuned] /\ fault = [l \in Listeners |-> "no"]
  /\ listed = {} /\ kicked = {}

-----------------------------------------------------------------------------
(* The source.                                                             *)

\* What has been emitted: the packets on the bus and the one on its way.
feed == IF out = None THEN stream ELSE Append(stream, out)
Latest == IF feed = <<>> THEN [chain |-> 0, first |-> Audio, last |-> Audio, at |-> -1]
          ELSE feed[Len(feed)]
OnAir == source # None /\ phase # "fresh"

SourceConnects(k) ==
  /\ source = None
  /\ Latest.chain < MaxChains
  /\ source' = k /\ phase' = "fresh"
  /\ UNCHANGED <<capt, out, stream, header, guards>>
  /\ UNCHANGED <<pc, has, fault, listed, kicked, joinVars>>

\* Audio follows the last part of the headers, and more audio.
NextPart(n) == IF n = Audio THEN Audio ELSE n + 1

\* The encoder, or the client of a passthrough source, goes on with its chain
\* or opens the next one.
Emits(p) ==
  /\ p.at = End(Latest)
  /\ \/ phase = "on" /\ p.chain = Latest.chain /\ p.first = NextPart(Latest.last)
     \/ /\ phase = "fresh" \/ (phase = "on" /\ Chained /\ Latest.last = Audio)
        /\ Opens(p, Latest.chain + 1)

\* OggHeaderCapture::push and what follows it.  The capture goes on while
\* pages are missing; it is settled with the headers at some point of the
\* audio, where the fourth fresh page is complete; and without them when its
\* buffer is full or no page begins where one should.
Captures(p) ==
  LET collected == IF phase = "fresh" THEN [chain |-> p.chain, at |-> p.at] ELSE capt
      fits == End(p) - collected.at <= MaxHeaderBuffer
      audio == p.last = Audio \/ p.chain # collected.chain
  IN \/ collected = None /\ UNCHANGED <<capt, header>>
     \/ collected # None /\ fits /\ capt' = collected /\ UNCHANGED header
     \/ collected # None /\ fits /\ audio /\ capt' = None /\ header' = collected.chain
     \/ collected # None /\ capt' = None /\ UNCHANGED header

Emit(p) ==
  /\ source # None /\ out = None
  /\ Len(stream) < MaxPackets
  /\ Emits(p)
  /\ out' = p
  /\ UNCHANGED <<source, stream, guards, pc, has, fault, listed, kicked, joinVars>>

\* IcecastIngest::run, publish_encoded: the capture before the publication.
Encode(p) == Emit(p) /\ Captures(p) /\ phase' = "on"

\* The end of the source: what the pipeline still held is not captured.
Flush(p) == Emit(p) /\ phase' = "flushed" /\ UNCHANGED <<capt, header>>

PublishPacket ==
  /\ out # None
  /\ stream' = Append(stream, out)
  /\ out' = None
  /\ UNCHANGED <<source, phase, capt, header, guards>>
  /\ UNCHANGED <<pc, has, fault, listed, kicked, joinVars>>

\* release_slot: an AutoDJ (or relay) leaves; its listeners stay.
OwnerReleases ==
  /\ source = "AutoDj" /\ out = None
  /\ source' = None /\ header' = None
  /\ UNCHANGED <<phase, capt, out, stream, guards>>
  /\ UNCHANGED <<pc, has, fault, listed, kicked, joinVars>>

\* SourceDisconnectGuard::drop: every listed listener is kicked and the slot
\* freed; the header pages are cleared a few statements later, when another
\* source may stream already, or be gone again.
GuardKicks ==
  /\ source = "Live" /\ out = None /\ guards < MaxGuards
  /\ kicked' = kicked \cup listed
  /\ source' = None /\ guards' = guards + 1
  /\ UNCHANGED <<phase, capt, out, stream, header>>
  /\ UNCHANGED <<pc, has, fault, listed, joinVars>>

GuardClears ==
  /\ guards > 0
  /\ header' = None /\ guards' = guards - 1
  /\ UNCHANGED <<source, phase, capt, out, stream>>
  /\ UNCHANGED <<pc, has, fault, listed, kicked, joinVars>>

-----------------------------------------------------------------------------
(* listener_handler.                                                       *)

Go(l, label) == pc' = [pc EXCEPT ![l] = label]

LoadHeader(l) ==
  /\ pc[l] = "load"
  /\ snap' = [snap EXCEPT ![l] = header]
  /\ Go(l, "subscribe")
  /\ UNCHANGED <<sourceVars, from, airs, found, has, fault, listed, kicked>>

\* Where the burst of a new subscription starts: the newest packets that
\* burst_size holds, one at least unless it is zero.
BurstStart ==
  LET fits == {i \in 1..Len(stream) : End(stream[Len(stream)]) - stream[i].at <= Burst}
  IN IF Burst = 0 \/ stream = <<>> THEN Len(stream) + 1
     ELSE IF fits = {} THEN Len(stream)
     ELSE CHOOSE i \in fits : \A j \in fits : i <= j

\* The capture of the source on air has not lost the chain on air.
Collecting == phase = "on" /\ capt # None /\ capt.chain = Latest.chain

HeadersInBurst == \E i \in BurstStart..Len(stream) : Opens(stream[i], Latest.chain)

\* What header_bytes should be: the headers of the chain on air, or nothing
\* while they are being collected or the burst still has them.
HeaderRight == \/ header = Latest.chain
               \/ header = None /\ (OnAir => Collecting \/ HeadersInBurst)

\* Mutant of Subscribe: the history is replayed after the header pages, too.
SubscribeReplaying(l) ==
  /\ pc[l] = "subscribe"
  /\ from' = [from EXCEPT ![l] = BurstStart]
  /\ airs' = [airs EXCEPT ![l] = IF OnAir THEN Latest.chain ELSE Latest.chain + 1]
  /\ found' = [found EXCEPT ![l] =
       IF snap[l] # header \/ out # None THEN "raced"
       ELSE IF HeaderRight THEN "right" ELSE "stale"]
  /\ Go(l, "register")
  /\ UNCHANGED <<sourceVars, snap, has, fault, listed, kicked>>

\* subscribe_live when there are header pages to write first, else subscribe.
Subscribe(l) ==
  /\ pc[l] = "subscribe"
  /\ from' = [from EXCEPT ![l] = IF snap[l] # None THEN Len(stream) + 1 ELSE BurstStart]
  /\ airs' = [airs EXCEPT ![l] = IF OnAir THEN Latest.chain ELSE Latest.chain + 1]
  /\ found' = [found EXCEPT ![l] =
       IF snap[l] # header \/ out # None THEN "raced"
       ELSE IF HeaderRight THEN "right" ELSE "stale"]
  /\ Go(l, "register")
  /\ UNCHANGED <<sourceVars, snap, has, fault, listed, kicked>>

\* Into the ListenerMap, with a token of its own; the output task is spawned.
Register(l) ==
  /\ pc[l] = "register"
  /\ listed' = listed \cup {l}
  /\ Go(l, IF snap[l] # None THEN "prefix" ELSE "stream")
  /\ UNCHANGED <<sourceVars, joinVars, has, fault, kicked>>

-----------------------------------------------------------------------------
(* The output task.                                                        *)

\* The header pages go out before the subscription is read.
WritePrefix(l) ==
  /\ pc[l] = "prefix"
  /\ has' = [has EXCEPT ![l] = Full(snap[l])]
  /\ Go(l, "stream")
  /\ UNCHANGED <<sourceVars, joinVars, fault, listed, kicked>>

\* What a decoder has of the headers after packet p, and what it makes of p.
\* Packets of a burst that are older than the chain on air are noise before
\* the first header pages.
Headers(l, p) ==
  LET upto == IF p.last = Audio THEN HeaderParts ELSE p.last
  IN IF p.first = 1 \/ (p.first < Audio /\ has[l] = Heads(p.chain, p.first - 1))
     THEN Heads(p.chain, upto) ELSE has[l]

Fault(l, p) ==
  IF p.first < Audio /\ has[l] = Full(p.chain) THEN "blip"
  ELSE IF p.last = Audio /\ p.chain >= airs[l] /\ Headers(l, p) # Full(p.chain) THEN "mute"
  ELSE "no"

Decode(l, p) ==
  IF fault[l] # "no" THEN UNCHANGED <<has, fault>>
  ELSE /\ fault' = [fault EXCEPT ![l] = Fault(l, p)]
       /\ has' = [has EXCEPT ![l] = Headers(l, p)]

\* HttpPassthroughOutput::run; a cancelled listener takes no further packet.
Receive(l) ==
  /\ pc[l] = "stream" /\ l \notin kicked
  /\ from[l] <= Len(stream)
  /\ Decode(l, stream[from[l]])
  /\ from' = [from EXCEPT ![l] = @ + 1]
  /\ UNCHANGED <<sourceVars, pc, snap, airs, found, listed, kicked>>

\* The task ends, cancelled or because a write failed: its locals are gone.
Leaves(l) ==
  /\ pc[l] \in {"prefix", "stream"}
  /\ Go(l, "leave")
  /\ snap' = [snap EXCEPT ![l] = None] /\ from' = [from EXCEPT ![l] = 1]
  /\ airs' = [airs EXCEPT ![l] = 1] /\ found' = [found EXCEPT ![l] = "right"]
  /\ has' = [has EXCEPT ![l] = Untuned] /\ fault' = [fault EXCEPT ![l] = "no"]
  /\ UNCHANGED <<sourceVars, listed, kicked>>

Deregister(l) ==
  /\ pc[l] = "leave"
  /\ listed' = listed \ {l} /\ kicked' = kicked \ {l}
  /\ Go(l, "load")
  /\ UNCHANGED <<sourceVars, joinVars, has, fault>>

-----------------------------------------------------------------------------
SourceStep ==
  \/ \E k \in Kinds : SourceConnects(k)
  \/ \E p \in Packet : Encode(p) \/ Flush(p)
  \/ PublishPacket \/ OwnerReleases \/ GuardKicks \/ GuardClears

ListenerStep(l) ==
  \/ LoadHeader(l) \/ Subscribe(l) \/ Register(l)
  \/ WritePrefix(l) \/ Receive(l) \/ Leaves(l) \/ Deregister(l)

Next == SourceStep \/ \E l \in Listeners : ListenerStep(l)

Spec == Init /\ [][Next]_vars

-----------------------------------------------------------------------------
(* Properties.                                                             *)

\* Type correctness of the handlers', the tasks' and the source's state.
TypeOK ==
  /\ source \in Kinds \cup {None} /\ phase \in {"fresh", "on", "flushed"}
  /\ capt \in Capture \cup {None} /\ header \in Chains \cup {None}
  /\ out \in Packet \cup {None} /\ stream \in Seq(Packet) /\ Len(stream) <= MaxPackets
  /\ guards \in 0..MaxGuards
  /\ pc \in [Listeners -> PCs] /\ snap \in [Listeners -> Chains \cup {None}]
  /\ from \in [Listeners -> 1..(MaxPackets + 1)] /\ airs \in [Listeners -> 1..(MaxChains + 1)]
  /\ found \in [Listeners -> {"right", "stale", "raced"}]
  /\ has \in [Listeners -> [chain : 0..MaxChains, upto : 0..HeaderParts]]
  /\ fault \in [Listeners -> {"no", "blip", "mute"}]
  /\ listed \cup kicked \subseteq Listeners

\* A listener that finds header_bytes right, and subscribes before anything
\* changes, decodes whatever comes: header pages once, and before the audio.
\* It is so when the burst holds what the capture may collect, which is the
\* default (burst_size and MAX_HEADER_BUFFER are both 64 KB).
JoinDecodes ==
  \A l \in Listeners :
    pc[l] = "stream" /\ found[l] = "right" => fault[l] = "no"

\* "Vorbis listeners joining mid-broadcast need the header pages prepended":
\* a listener that meets no race gets the headers of all audio it is sent.
HeadersBeforeAudio ==
  \A l \in Listeners : pc[l] = "stream" /\ found[l] # "raced" => fault[l] # "mute"
=============================================================================
