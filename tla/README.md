# A TLA+ model of rustyIce

rustyIce is an Icecast-like streaming server in Rust. Sources (live encoders,
AutoDJ players, relays of other servers) publish compressed audio on *mounts*;
listeners stream a mount over HTTP; an admin API and SIGHUP change the
configuration while everything runs. This directory holds TLA+ modules that
model the parts of the server whose correctness depends on how tasks interleave,
TLC configurations that check them on small instances, and TLAPS proofs of the
central safety properties for every value of the constants.

Paths below are relative to `src/crates/` of the repository.

## The system

| Component | State it keeps | Operations | Where |
|---|---|---|---|
| **Source slot** of a mount | `source_connected`, `source_kind`, `source_cancel`, `connected_at`, `source_overlay`, `header_bytes`, codec, `preempt_pending`, the `Notify` `non_live_resume` | live connect with preemption, claim, disconnect guard; AutoDJ and relay claim, run, release, park, wait; kick | `rustyice-core/src/mount.rs`, `rustyice-server/src/source_protocol.rs`, `.../relay/mod.rs`, `rustyice-autodj/src/player.rs` |
| **Broadcast bus** | history ring and byte count behind a mutex, tokio broadcast channel | publish, subscribe (burst), subscribe_live, receive, lag | `rustyice-server/src/bus.rs` |
| **Ingest pipeline** | reader task, unbounded channel, error slot, abort and cancellation tokens, transcoder | read, strip prefix, queue, transcode, publish, pace, flush | `rustyice-ingest/src/icecast.rs`, `rustyice-transcode/src/pipeline.rs` |
| **Listeners** | `ListenerMap`, receivers of the bus, tokens | limits, header snapshot, subscribe, register, write, kick, deregister | `rustyice-server/src/stream_router.rs`, `rustyice-admin/src/state.rs`, `rustyice-output/src/http_passthrough.rs` |
| **Configuration in force** | `ArcSwap<Config>`, `config_write_lock`, mount registry, AutoDJ and relay registries | save of a section, SIGHUP, `apply_config`, task cancel and spawn | `rustyice-server/src/config_reload.rs`, `rustyice-admin/src/api/config.rs` |
| **Configuration saved** | config.toml and its temporary copy, passwords behind their redaction marker, `TomlBcryptAuth`, sessions | GET and PUT of a section, validation, patch of the document, atomic write, parse at the start | `rustyice-admin/src/api/config.rs`, `rustyice-admin/src/config_write.rs`, `rustyice-core/src/config.rs`, `rustyice-auth/src/toml_bcrypt.rs` |
| **Dynamic mounts** | registry entries that exist while their source streams | create on first source, remove by path in the guard, reload of `[[mounts]]` | `rustyice-server/src/source_protocol.rs`, `rustyice-core/src/mount.rs` |
| **Source upload** | request head and leftover, reply before the body, body reader, chunk decoder | peek, read head, reply, read body, kick, reply | `rustyice-server/src/stream_listener.rs`, `rustyice-server/src/source_protocol.rs`, `rustyice-server/src/chunked.rs` |
| **Stream framing** | header capture, ICY counters | pure, per stream | `rustyice-codec/src/vorbis.rs`, `rustyice-output` |
| **Admin API, sessions, auth** | `SessionStore`, users | login, logout, roles, titles | `rustyice-admin`, `rustyice-auth` |

How they interact: the tasks share state and never send each other messages,
apart from the ingest's channel and the wake-up `non_live_resume`. A live
connection preempts the non-live owner of its mount by cancelling the token in
the slot, claims the slot with a `compare_exchange`, runs an ingest that
publishes on the mount's bus and stores header pages in the mount; its guard
frees the slot, kicks the mount's listeners and wakes the owner. Listener
handlers read the mount and the bus without any lock that covers both. The
reloader cancels and respawns owners and adds and removes mounts under tasks
that hold an `Arc` of them. What is hard here is therefore interleaving of
single atomics, early returns that skip a hand-over (wrong password, a timeout,
a dropped future), and tasks that wait for each other. Only config.toml is
persistent, so crash recovery is a subject of its writing alone.

The properties that make each part correct are listed with the modules below;
`PROJECT.json` lists the hazards, each with the line where it bites.

## Modules

### SourceSlot — one mount, its live sessions, its owner

Every load and store of a slot field is a step, in code order; `pc` holds the
next statement of each live session and of the one owner task. `slot` keeps
*whose* value a field holds, which is all the properties need. The owner is an
AutoDJ or a relay (`setup.owner`, chosen in `Init`) and the code paths that
differ are conditions on `OwnerKind`. `setup.env` is the set of unfriendly events
of the behaviour: a wrong password, a codec the transcoder refuses, an admin
kick, an owner that takes more than 500 ms to let go, a reload that stops the
owner's task. Live sessions are `Connect` … `GuardNotify`
(`handle_source_connection`, `preempt_non_live_if_present`,
`SourceDisconnectGuard::drop`), the owner `OwnerTop` … `ParkStopped`
(`AutoDjPlayer::run`, `RelayTask::run`, `claim_slot`, `release_slot`), the rest
`KickSource`, `StopTask`, `Respawn`. `Park` and `GuardNotify` model tokio's
`Notify`: a registered waiter is woken, otherwise one permit is left.

Properties: `SlotExclusion`, `FreeSlotIsClean`, `TokenIsCurrent` (safety; with
`LiveNeverPreemptable` they follow from `SlotInv`, the inductive invariant of the
proofs), `HandshakeTerminates`, `DisconnectWakesOwner`, `OwnerNotStranded`,
`StopEndsFreeTask` (liveness).

Several properties one would expect do *not* hold, and are therefore not
claimed; the section on divergences names the `.cfg` that shows each. The guard
frees the slot (`source_protocol.rs:471`) before it clears the other fields, so a
source that claims in between may lose its token, uptime, overlay or headers: a
relay panics, anything else streams on but can no longer be kicked or preempted.
A relay started after that panic does not wait for the slot, which it takes for its
own (`relay/mod.rs:58-60`), and goes round without pause until it is stopped.
A preempter that found the owner in the slot and takes the token late may cancel
a live source that claimed meanwhile, and an owner may park for a preempter that
was turned away or timed out. A stopped task that has parked, or a stopped relay
whose upstream runs, does not look at its token.

### PacketStream, BroadcastBus — the bus and its promise

`PacketStream` is the abstract specification: packets in one order; a listener
starts at most `cap` bytes back (one packet at least), then gets every packet
once and in order, losing the oldest ones only when it is more than `Ring` behind.
`BroadcastBus` is `TokioBroadcastBus` at the granularity of its mutex: `Send`,
`Push`, `Evict`, `PublishDone` while the publisher holds the lock,
`SubscribeReceiver`, `WalkTake`, `WalkDone` for a subscription, then `Replay`,
`Receive`, `Lagged` without it. The refinement mapping is `at`: the first packet
of the snapshot left to replay, minus one, or the receiver's position. Packets
are numbers, their sizes are the differences of `ends`.

Properties: `StreamKept` (implements PacketStream), `BusInv` (with the exact byte
count, `HistoryExact`), `PublisherNeverBlocked`.

### IngestPipeline — reader and publisher of one source

Bytes are numbered and a chunk is an interval, so what `strip_mp3_prefix` does to
a stream cut into arbitrary chunks can be compared with `AudioStart`, which looks
at the source as a whole. A select polls its branches one after the other; each
poll is a step (`PollCancel`, `PollAbort`, `Take`/`SourceEnded`/`Suspend`), and
the reader's poll of the cancellation token is separate from its read. The
transcoder is a stage that may hold audio back, fail, and flush. `TagHead` and
`Probe` stand for 10 and 2048 bytes.

Properties: `AudioOnly`, `OkIsComplete`, `ErrorBeforeAbort`, `StopsPromptly`,
`IngestEnds`; `IngestInv` is the inductive invariant of the proofs. `OkIsComplete` speaks of runs in which no token was cancelled,
because a token cancelled between the polls, whose reader then closes the
channel in time, does make `run` flush and return `Ok`. A metadata frame that
ends beyond the probe is stripped or kept depending on how the network cuts the
stream; `AudioOnly` allows both.

### HeaderJoin — header pages and a joining listener

For an Ogg Vorbis mount. A packet is a piece of a chain (a logical stream): what
one read of a passthrough client or one call of the encoder brought, cut anywhere
between the parts of the header pages and the audio. The ingest copies it into an
`OggHeaderCapture` before it publishes it; the capture goes on until a page of audio
is complete, and then the headers of its first chain are stored, or it gives up
(buffer full, no page where one should begin) and stores nothing. A listener handler
loads `header_bytes`, subscribes live when it has them and with the burst when not,
registers, and its task writes the prefix and then the packets to a decoder that
notices headers sent twice (`blip`) and audio without them (`mute`). `found` records
what the subscription met: `right` is the headers of the chain on air, or none while
they are still collected or the burst has them; `stale` is an earlier chain's
headers, or none although they are past; `raced` is anything that changed under the
handler, a packet between capture and publication included.

Properties: `JoinDecodes`, for a burst that holds what the capture may collect
(`MaxHeaderBuffer <= Burst`). By default both are 64 KB (`config.rs:77`,
`vorbis.rs:55`). With less, a listener that rightly finds no `header_bytes` gets the
newest packets only and may never see a header: `join_small_burst.cfg`.
`HeadersBeforeAudio` is the code's comment, which fails there and, after a second
chain, with any burst (`join_chained.cfg`).

### ListenerAdmission — limits, kicks, departures

The handlers and output tasks of several listeners over several mounts, clients
that read, stall or vanish, operators and disconnect guards that kick. `crowded`
are listeners that were checked while another was being admitted.

Properties: `CapsHoldUpToRaces`, `KickedLeaves`, `DropEndsListeners`,
`GoneLeaves`.

### ConfigReload — saves, SIGHUP and apply_config

A configuration maps section and path to an entry; of an entry only "enabled"
and a version are kept. `Submit` (through `PutMounts`, `PutAutodjs`,
`PutRelays`) builds a candidate from the running configuration, `Persist` takes
`config_write_lock` and writes the file, and the apply goes entry by entry:
`CancelEntry` waits in `Ended` for the task, `DropMount` and `StartTask` follow,
`Commit` stores. `origin` is what the server knows of config.toml: a save on the
built-in defaults writes its whole candidate over whatever lies there, and names the
file when its apply is through. `ClientGone` is the drop of the handler's future at its only
long await; after it (`torn`) none of the properties holds, and they are stated for
behaviours without it. `stale` says that config.toml was edited by hand and not
loaded yet. `Place` gives the sections a path may be listed under: the passing
run lists each path under one, because a reload that *moves* a path from
`[[autodjs]]` or `[[relays]]` to `[[mounts]]` leaves it unregistered (the mounts
loop keeps the mount it finds, `config_reload.rs:140`; the later diff removes it,
204 and 298). Setting `Place` of a path to all three sections makes TLC show it.

Properties: `TasksMatchConfig`, `OneTaskPerEntry`, `ConfiguredIsRegistered`,
`TasksAreHeard`, `UnchangedUndisturbed`; `SavedIsRunning` is what the comment of
`config_write_lock` promises, which fails (`config_overlap`).

### DynamicMounts — the registry under sources and reloads

The registry is read and written in separate short critical sections: a source
looks its path up, and if nothing is there creates a mount and adds it, which
replaces what came meanwhile; its guard frees the slot and then removes, by path,
what is registered then. `apply_config` looks up and adds the mounts of the new
`[[mounts]]` and removes those of the old. Each access is an action here. The
mounts of a path are numbered as they are made, a number is an
`Arc<ActiveMount>`; `taken` is their `source_connected`. What happens on one mount
is SourceSlot's; credentials change at `ReloadAuth`, before the mounts do.

Properties: `DynamicEntryHasOwner`, `SettledPathServes`, `LoneSourceIsFound`. Each
states exactly how much holds, with history variables that say which races
happened: a mount whose source was turned away with 415 or 409 after making it
stays (`refused`); a configured mount can be lost while a source that found the
path missing is still on its way (`settled` leaves such paths out), and is then
gone until the next reload; a source that shares its path may stream on a mount
nobody finds (`crossed`).

### UploadStream, SourceBody — one upload, byte by byte

`UploadStream` is the promise: the ingest is given a growing prefix of the payload,
and "complete" is said only of all of it, unless the upload broke. `SourceBody` is
the connection as the code has it: `Classify` peeks at the first segment,
`HeadRead` reads blocks until the head ends and keeps what follows as leftover,
`UpfrontReply` chooses 100, 200 or nothing for the three kinds of client, `Body`
reads through `ChainReader` raw, up to a length, or through `ChunkedDecoder`, whose
states and line limits are kept; `Kick`, the deadlines and `Finish` end it. The
client sends its bytes (`Wire`) in any portions, waits for the reply its kind waits
for, may leave, stall, or get its framing wrong. The refinement mapping takes
`given` as it is and calls the end "complete" or "cut" (`Ended`): without chunks or a
length an early end of the connection *is* the end of the stream, and the mapping
counts it as cut, as UploadStream does for a broken upload.

Properties: `UploadIsStream` (implements UploadStream), `OneFinalStatus`,
`UploadCompletes`, `ConnectionEnds`. `UploadCompletes` starts where the head is being
read: a first segment shorter than the verb is classified by what is there
(`stream_listener.rs:110`), and goes to `axum::serve`, which answers a whole head
with 405 (`HyperAnswers`), waits for the rest of one without a deadline, and ends
with its client (`HyperEnds`) or when it likes (`HyperHangsUp`, of no fairness).
`ConnectionEnds` excepts the two places where a client that stalls is waited for
for ever: there and in the body. `Rejects` stands for the 401, 500, 415 and 409
between head and body (`source_protocol.rs:72-108`), `HeadMalformed` for a head
that httparse refuses. `Number` reads a chunk size as `parse_chunk_size` does:
blanks around it and a sign in front are skipped. The 503 for a transcoder that
does not start (`source_protocol.rs:234`) is left out: `TranscodePipeline::new` has
no way to fail (`pipeline.rs:41-55`).

### ConfigDocument, ConfigSave — what a save does to passwords and the file

`ConfigDocument` holds the pure part: the running configuration, the document, the
redacted view, and for each section how a request is resolved, validated, made a
candidate and written. Candidate and document are written by separate code, so
they are separate operators, and a document leaves keys out that parsing fills in.
A password carries its owner. `ConfigSave` adds the steps: login and the end of a
session between the gate and the handler, `Handle`, `Persist` under the lock,
`CreateTmp`, `FillTmp`, `RenameTmp` or `WriteFails`, `ReloadAuth`, `Store` or
`ClientGone`, edits by hand, SIGHUP, `Kill` at any point and `Restart`.

Properties: `PasswordsStayPut`, `EchoIsNoop`, `FileIsRunning`, `RestartLoads`,
`AuthFollowsConfig`, `AdminCanLogIn`. `taint` records what makes file and
configuration differ for good: a hand edit, overlapping saves, a dropped apply.

Three simplifications: `ReloadAuth` stores users, mount passwords and the global
password at once (`toml_bcrypt.rs:85-88` stores them one after the other, and no
property looks in between); a list of a request is a set, so that an entry repeated
word for word counts once where `validate_mounts_patch` refuses it; and a file in
which `[limits]` is written as an inline table, where the patch cannot remove
`source_max_kbps` (`config_write.rs:131`), is not among the files considered.

## Runs

| Run | Instance | Shows |
|---|---|---|
| `slot_safety` | two sessions that reconnect forever, AutoDJ or relay, all events of the environment; sessions symmetric | the safety properties of the slot and `SlotInv` (6.1M states) |
| `slot_liveness` | one session, no events or all | handshakes end, a disconnect wakes the owner, a stopped task ends where it looks, in a calm environment the owner comes back |
| `slot_rejected` | one session, AutoDJ, wrong passwords | violation: a rejected source leaves the AutoDJ parked for good |
| `bus_stream` | two listeners, packets of 1, 2, 4 bytes, burst 0 or 3, ring 2, four packets | the bus implements its promise |
| `ingest_stream` | sources of up to 8 bytes with any tag and metadata frame around the probe, reads of up to 3 | the ingest's properties |
| `join_decodes` | one listener, headers in up to two parts, packets cut anywhere, burst and capture of four parts, two chains, four packets, live and AutoDJ | a listener that met no race decodes |
| `admission` | two listeners, two mounts, limits of one | limits up to races, kicks and departures |
| `config_apply` | one path per section, two versions, two admin clients, three requests, any edit of the file | tasks and mounts follow the configuration (2.2M states) |
| `config_overlap` | two admin clients, two requests | violation: overlapping saves lose one |
| `config_save` | two consoles, a request or more per section and way to be refused, two users, two saves, one fault, three hand-written files; consoles symmetric | passwords, file, credentials and admins through every save (2M states) |
| `source_body` | 33 uploads of the three kinds of client, five faults, any cut | the upload is the stream, nobody waits for nobody, connections end (144k states) |
| `dynamic_mounts` | three sources, one path, any `[[mounts]]`; sources symmetric | the registry under racing sources and reloads (5.8M states) |

The type invariants are conjuncts of the inductive invariants where there is a
proof (`SlotInv`, `BusInv`, `IngestInv` and their likes, `SaveInv`, `MountsInv`,
`ApplyInv`, `AdmissionInv`, `JoinInv`); `SourceBody` states its own as `BodyTypeOK`,
which is proved.

Why the bounds are enough to be worth something. Two sessions and an owner give
every pair, and every triple of one owner and two live handlers, racing in the
slot; a third session adds no new pair of statements, and the proofs cover the
rest. In the bus, packets below, at and above the burst with a ring of two make
bursts cut short, single packets larger than the burst, eviction and lag all
happen; the proofs cover every size. In the ingest, chunks of one to three
bytes against a head of two, a probe of three, tags of two and four and frames
of two to four bytes put each boundary before, on and after a chunk boundary,
and the stream's end in every phase. In HeaderJoin a second chain and a source
that leaves and returns need four packets; captures settle, go on over several
packets, and give up. One listener stands for all: the source reads none of
their state. In ListenerAdmission a limit of one
is passed by two racing handlers, and three would race the same way. In
ConfigReload three requests are a save, an edit and a reload, or three chained
changes of one entry. In ConfigSave two saves (`MaxSaves`) overlap or follow each
other and one fault (`MaxFaults`: a hand edit, SIGHUP, failed write or kill) falls
anywhere in them; requests hold the marker, a blank, nothing and a new password for
old and new entries, two entries of one key, and every refusal. In SourceBody the
sizes are small and their order is the code's (a verb of 2 bytes, blocks of 4,
heads of 3, 6 and 9 against 8, lines of up to 5, reads of 3): heads end before, on
and after a block and just below and above the limit, chunks are shorter and longer
than a read, sizes have letters, zeros, blanks or a sign in front, extensions and trailers
just fit or do not, a head is refused with each of the final statuses, and payloads contain CR, LF and digits. In DynamicMounts paths share nothing but the reload, so one path
stands for all; a third source is needed for one that comes while two race, and
`MaxMounts` = 2 stops lookups and reloads once a path has had two mounts. Two
sources with `MaxMounts` = 3 pass as well. `Max…` constants are bounds of the models, named in the
guards; nothing wraps in the code at these places.

Deadlock is checked everywhere except where the system stops: an ingest that has
returned (`ingest_stream`), a connection that has ended (`source_body`), a server
that is down with a file it cannot load (`config_save`), and `dynamic_mounts`, which
its bound brings to rest. (`ConfigReload` has an explicit `Rest`.)

## Divergences

Two are runs of the project, with `expect: violation`: `slot_rejected` and
`config_overlap`. The following `.cfg` files are checked with
`tlc -config <file> <module>` and end in the violation named; they are kept for who
wants to see the behaviour.

| File, module | Property | What happens |
|---|---|---|
| `slot_relay_expect.cfg`, MCSourceSlot | `ClaimInstalledToken` | a relay claims while a guard is half-way, its token is cleared, and the `expect` of `relay/mod.rs:75` panics; the slot stays claimed |
| `slot_preempt.cfg`, MCSourceSlot | `PreemptsOwnerOnly` | two live sources preempt the AutoDJ; the later one cancels the earlier one's token and takes it off the air (`source_protocol.rs:331-341`) |
| `slot_stop.cfg`, MCSourceSlot | `StopEndsTask` | a parked AutoDJ ignores its shutdown token (`player.rs:242`), so a reload waits, lock held, while the live source streams |
| `join_chained.cfg`, MCHeaderJoin | `HeadersBeforeAudio` | after the encoder was rebuilt, joining listeners are sent the headers of the first chain (`player.rs:100`) |
| `join_small_burst.cfg`, MCHeaderJoin | `HeadersBeforeAudio` | with a `burst_size` below what the header capture collects, a listener that arrives before it settles gets neither prefix nor headers (`stream_router.rs:86-95`, `bus.rs:80-103`, `vorbis.rs:149-160`) |
| `config_operator.cfg`, MCConfigSave | `OperatorsChangeStreamsOnly` | a save of mounts, AutoDJs or relays that was built before a save of users or server settings puts the old ones back (`api/config.rs:915`); `config.rs:121` says operators cannot change those |

Seen while translating, and part of the models unless said otherwise:

- "Removed on disconnect" (`README.md:115` of the repository) fails for a dynamic
  mount whose source got a 415 or a 409 (`source_protocol.rs:88-108`): it stays.
- A reload that configures the path of a dynamic source leaves that source's
  mount, and its guard then removes the configured entry (`config_reload.rs:140`,
  `source_protocol.rs:479`).
- `accept` classifies a connection by one peek, and waits up to its deadline inside
  the accept loop (`stream_listener.rs:107-123`): other connections wait.
- The reply of 503 when the transcoder does not start (`source_protocol.rs:234`)
  cannot happen, because `TranscodePipeline::new` returns no error; if it did, a
  classic client would read it behind its 200. A chunked upload that breaks is
  still answered 200 OK.
- A client that connects to the stream port and sends nothing, or stalls inside its
  head before it is classified, is waited for without a deadline by `axum::serve`.
- `burst_size` and `MAX_HEADER_BUFFER` are tied without the code saying so: on a
  Vorbis mount whose burst is smaller than its headers and the first page of audio
  (`README.md:138` of the repository shows an override of 32768; 0 disables it), a
  listener that arrives while the headers are collected never gets them. When the
  capture gives up, no later listener does.
- A client that stalls in its body holds the mount until it is kicked.
- A head whose last block passes the limit is refused although it ends below it.
- `poll_fill_line` returns errors without entering `Errored` (a later poll would go
  on; the ingest never polls again).
- Overlapping saves can list one path in two sections of config.toml, and the
  server would not start from it; a save on the built-in defaults overwrites a
  config.toml that appeared meanwhile.
- A mount that is renamed with its password left blank gets the global password;
  relay credentials cannot be cleared; `put_users` skips the guard against removing
  oneself when the session ended after the gate.
- Not modelled: a change of `[logging]` gives no restart warning; settings above
  `i64::MAX` are clamped in the file; an ICY title longer than 4080 bytes makes the
  length byte saturate (`http_passthrough.rs:145`); the Ogg capture stops at the
  fourth fresh page (`vorbis.rs:158`), which may be audio; a relay's backoff is not
  reset by a successful connect (`relay/mod.rs:97`).

## Fairness

Weak fairness is assumed for what the tokio runtime schedules by itself: the next
statement of a session, of the owner, of a guard or of a handler that does not
await something of the outside; the reader and the publisher of an ingest; the
holder of the bus mutex; the server's side of a connection. Timeouts (500 ms,
backoff, 30 s idle, pacing, the deadline of a head) are steps of those tasks.

| Module | Beyond that | Why |
|---|---|---|
| SourceSlot | `SF` for the end of a preemption's wait | its deadline does not move although the slot is freed and taken again under it |
| ListenerAdmission | `WF(Publish(m))` for a connected source | a closed connection is noticed at the next write (`GoneLeaves`) |
| SourceBody | `WF(ClientStep)` | a client that has neither left nor stalled reads replies, sends what it may and closes when done; `UploadCompletes` is about such clients |

Nothing else is assumed of clients, networks, upstreams, media files or
operators: they may never act, and in SourceBody nothing makes a client leave or
stall, or an operator kick it. ConfigSave, DynamicMounts, ConfigReload and
HeaderJoin state safety only, and the safety runs of the others use `SafetySpec`.

## Proofs

`SourceSlotProofs` proves, for any set of sessions, either owner and any
environment, under `SlotAssumption` only (the owner is not a session, `None` is
neither): `SafetySpec => []SlotInv` (`Invariance`), and from it `TypeCorrect`,
`Exclusion`, `LiveIsSafe`, `TokensAreCurrent` and `FreeIsClean`. None of the four
properties is inductive. `LiveNeverPreemptable` needs to know at which statements
`source_kind` names the owner (`KindExact`); the two about stale values need, for
each field, the statements at which a process may still find its own value there
(`FieldScopes`), because the guard and `release_slot` clear the fields one by one
and others claim in between. Most steps are a `Jump` or a `Store`; the lemmas
`JumpInv` and `StoreInv` reduce them to a comparison of two control states, and
the claims, releases and cancels are proved one by one.

`BroadcastBusProofs` proves for any listeners, sizes, burst and ring
`SafetySpec => []BusInv` and `SafetySpec => StreamKept`, the implementation of
PacketStream. `BusInv` says the history is a contiguous end of what was sent with
an exact byte count (`HistoryExact`), that every snapshot runs up to its receiver
(`SnapshotContiguous`), that the walk in progress has taken the end of the
history and summed its bytes (`WalkExact`), who holds the lock (`LockHeld`), and
that byte offsets grow (`EndsGrow`); without the first two a join would not be
a step of PacketStream, without the others they would not be preserved.

`UploadProofs` proves for any sources and any sizes of tag header, probe
and read buffer `SafetySpec => []IngestInv` and from it `AudioIsWhole`,
`OkComplete`, `NoPanic` and `PromptStop`. `IngestInv` adds to the four
properties where the reader's buffer starts in each phase of the prefix
(`PrefixExact`), that behind it everything read is queued (`StreamExact`), which
tokens are cancelled and whether the error slot is filled at each statement of
the two tasks (`TokensExact`), and that a publisher one chunk over the mark meets
the cancelled token before its next `recv` (`Leaving`). Steps that leave the
chunks alone are proved together; those that queue one (`Strip`, `Eof`, a read)
go through one lemma, `QueueAudio`, whose hypotheses say where a chunk may start.
A metadata frame needs the comparison of `AudioStartBehindTag`: it is recognised
in the bytes at hand exactly when it ends within them. The assumption on the
sources (an ID3v2 tag is at least its own header) is what
`parse_id3v2_total` returns.

`UploadProofs` also proves, for any requests `RequestOk` allows, any faults, any sizes
of block and read buffer and any cutting of the bytes, `BodySpec => []BodyInv`
(`BodyInvariant`), and from it `BodyTypes`, `OneFinalTheorem` and `StreamTheorem`,
`BodySpec => UploadIsStream`: the connection implements UploadStream. What the decoder
meets is fixed when the connection opens, so the proof has two halves. The first
speaks of no state: by induction over the chunks and trailers `Offsets` finds where
each part of a flattened sequence starts, `LayoutFacts` where each size line, chunk
and trailer stands in the bytes of the connection, and `GatheredEnds`, `DigitsOf` and
`ParsedSize` what the decoder's helpers make of them. `Decodes` then says, of a state,
position, scratch line and rest of a chunk, in which part of the layout the decoder
stands and that what it has given is the payload up to there; `DecodesByte` to
`DecodesEnd` say that each iteration of `poll_read` leads from one such place to the
next, that it fails only where the framing is not `WellFramed`, and is "done" only
behind the last chunk. The second half is the invariant: `Sizes` (the types, and that
nobody is ahead of whom it reads from), `Talk` (the replies at each statement),
`Closing` (who may have closed, and what is then true), `Fresh` (nothing is decoded
before the body) and `Flow` (`Decodes`, or the position of an upload without chunks).
The lemmas `...Fine` prove, action by action, that a step preserves it and is a step
of UploadStream or leaves it alone; the two are proved together because a step's
place in the promise needs the place of the decoder before and after it.
Requests are any that `RequestOk` allows: chunks of any length whose sizes are any
hexadecimal digits of that value, any extensions and trailers of one line each. A
theorem has no width for a size; the code's u64 refuses one of 2^64 or more.
`BodyAssumption` asks beyond the positive sizes only that the empty trailer line fits
its limit (4096 bytes in the code).

`ConfigSaveProofs` proves for any clients, requests and files, and any number of
saves and faults, `Spec => []SaveInv` and from it `PasswordsStayPut`,
`AuthFollowsConfig` and `AdminCanLogIn`. A password travels from the running
configuration through the marker of a request, a candidate, the patched document,
its parse, the temporary file and the file back into the running configuration;
`SaveInv` says of each of these places that its entries hold passwords given to an
entry of that key and that an admin is among its users, of the job what it has
already built (`JobOk`), and of the credentials in memory that they are those of
the configuration except between two statements of `apply_config` and after a
save whose handler was dropped (`AuthOk`). The lemmas follow one section through
candidate, patch and parse. `ConfigAssumption` says that the passwords in requests,
in hand-written files and in the defaults are their entries' own, and that such
files name an admin; without it an operator could type another's password.

On top of `SaveInv` the module proves two more invariants, and from them the other
three properties. `FileInv` (`FileInvariant`) is what makes two pieces of code that
never look at each other's result agree: a handler builds the candidate it will
run, `apply_*_patch` writes the document, and the server runs the one and restarts
from the other. It says that what runs is whole (parsing it again changes
nothing), that the patch of a waiting save turns a file of its candidate, and, if
no other save was applied since it was built, a file of what runs, into a file of
its candidate (`ReqFits`), which file each statement of the save in progress has
made (`JobFits`), and that an untainted file is that of what runs (`DiskRuns`).
`ReqFits` must speak of both files because the lock lets another save through
between the candidate and the write; a save that is then written all the same is
what `taint` calls an overlap. `RestartLoads` and `FileIsRunning` follow. The lemmas
prove the round trip (write, then parse) for each of the six sections, among them
the keys that are left out when they have their default (`AutodjRoundTrip`,
`RelayRoundTrip`). `RangeInv` (`RangeInvariant`) says that every configuration, file
and waiting patch holds values the API accepts; with `FileInv` it gives
`EchoIsNoop`: each of the six validators accepts what GET shows, the marker is
resolved to the password that is there, and the candidate is the configuration.

`DocumentAssumption` says that flags in bodies are booleans or absent (serde refuses
others), that the built-in configuration is complete with valid paths, and that the
absent key is not a value; TLC evaluates it. Three facts about every value cannot
be evaluated and are hypotheses of the theorems instead: no document is `NoFile`
or `Garbage` (`NoDocument`), and no accepted request is `Refused` and no hash or
password `Unset` (`NoValue`); the model values of the configurations satisfy them.
`FilesRanged`, a hypothesis of `RangeInvariant` and `EchoTheorem`, says that the
entries of hand-written files are ones the API accepts, `[server]` and `[limits]`
apart: the loader is laxer than the API, and a file with, say, an odd mount entry would
have its section refused when it is saved as shown. `FileInv` and `RangeInv` were
checked by TLC on the instance of `config_save` before they were proved.

`DynamicMountsProofs` proves for any paths, sources, configurations and
`MaxMounts` `Spec => []MountsInv` and from it `DynamicEntryHasOwner`,
`SettledPathServes` and `LoneSourceIsFound`. `MountsInv` says which mounts may be
registered (`RegistryOK`), what each source holds at each of its statements
(`SessionsOK`), what a reload has decided and not yet done (`ReloadOK`,
`LoopsOK`), which mounts still have a holder (`HoldersOK`), and what the registry
shows of a path no reload is working on (`SettledOK`) and of a source that has
been alone since it arrived (`LoneOK`).

`ConfigReloadProofs` proves for any paths, sections, settings, clients and
requests `Spec => []ApplyInv` and from it `TasksMatchConfig`, `OneTaskPerEntry`
and `UnchangedUndisturbed`. Half-way through an apply the registries are those of
neither configuration; `ApplyInv` says of each entry which one it follows
(`Expected`: the target's once its stage has passed it, none while its task is
awaited, the running one's before), that what a stage has left to do is part of
the difference of the two (`JobShape`), and which tasks there are for a handle
(`TasksExact`). `ConfiguredIsRegistered` and `TasksAreHeard` are proved for
`OnePlace`, every path is ever listed in one section only, because they fail
otherwise (see ConfigReload above); `MountsInv` adds the mounts to `ApplyInv`.

`ListenerAdmissionProofs` proves for finitely many listeners, any mounts and any
limits `SafetySpec => []AdmissionInv` and from it `CapsHoldUpToRaces`. The limits
themselves are not inductive; what is, is that the listeners nobody raced with
(`Alone`) stay within them: of those on the way at most one was alone
(`OneAlone`), and whoever is checked alone is counted against all others
(`AloneBounded`).

`HeaderJoinProofs` proves for any listeners, kinds of sources, chains, packets and
ways to cut the headers `BurstHoldsHeaders => (Spec => []JoinInv)` and from it
`JoinDecodes`. `feed` is the stream with the packet between capture and publication;
`FeedOK` says that its chains follow each other and the parts of a chain too,
`CaptureOK` that what is being collected began with the first part of the headers,
ends with the latest packet and fits the capture's buffer, and `Follows` of a
listener that it goes on where its decoder stopped and that every chain it will hear
audio of is opened by a packet it has still to read. `BurstHoldsHeaders` is
`MaxHeaderBuffer <= Burst`: what is collected is then in the burst
(`CollectedInBurst`), and a burst starts no later.

Only model-checked: the liveness properties (fairness and ENABLED are outside what
the prover handles). Every safety property of a passing run, and both refinements,
are stated by a theorem. No module here declares a RECURSIVE operator. The induction
theorems of the library that take a predicate as a parameter cannot be instantiated;
where a proof needs induction over data (`FlattenSeq` in SourceBody) it goes through
the set of the numbers for which a fact holds and `WFMin`, the minimal element of a
well-founded set, which takes no operator.

## Not modelled

ICY metadata frames and the Ogg pages of the header capture; the expiry of
sessions, titles and status pages; the file system, tags and decoding of the
AutoDJ; the values of a relay's backoff and its HTTP client; rates and
durations; the comments and layout of config.toml; the web UI, the banner and the
load-test tool. The reasons are in the components of `PROJECT.json`. One hazard
has no property: a handler that has subscribed and not yet registered when a guard
copies the listeners' ids outlives the kick; it is a step of ListenerAdmission,
but nothing in the repository says that it may not.

## Plan

1. Pure algorithms as functions over bounded inputs against a reference
   definition: ICY interleaving (length byte at 255), the Ogg header capture over
   pages, the relay's backoff.
2. Composition of slot, headers and admission: what one listener hears across a
   hand-over from owner to live source and back.
3. Expiry of sessions, and logout against requests other than saves.
4. Proofs: the hand-over of 2 for any number of listeners.
