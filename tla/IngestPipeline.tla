--------------------------- MODULE IngestPipeline ---------------------------
(***************************************************************************)
(* One ingest, IcecastIngest::run in rustyice-ingest/src/icecast.rs.  A    *)
(* reader task (drain_reader) takes bytes off the network as fast as they  *)
(* come and queues them in an unbounded channel; the publisher loop takes  *)
(* chunks out, transcodes them when the mount asks for it, publishes them  *)
(* and sleeps to keep the pace.  The two share a cancellation token (kick, *)
(* preemption, shutdown), an abort token and the slot of an I/O error.     *)
(* For MP3 the reader first strips an ID3v2 tag and a Xing/Info/VBRI frame *)
(* (strip_mp3_prefix), whatever chunks the network cuts the stream into.   *)
(* Bytes are numbered; a chunk <<a, b>> is bytes a+1 to b of the source.   *)
(* A select polls its branches one after the other and the tokens may be   *)
(* cancelled in between, so each poll is a step.                           *)
(***************************************************************************)
EXTENDS Integers, Sequences

CONSTANTS
  Sources, \* what a source sends: see SourceSet
  TagHead, \* 10: bytes needed to tell an ID3v2 tag
  Probe,   \* 2048: audio bytes searched for a metadata frame
  Buffer,  \* chunk_size: most bytes one read returns
  None

\* len: bytes before the end of the stream; id3: size of the tag they start
\* with; xing: where in the audio the metadata frame ends (0: there is none).
SourceSet == [mp3 : BOOLEAN, len : Nat, id3 : Nat, xing : Nat, transcode : BOOLEAN]

ASSUME IngestAssumption ==
  /\ Sources \subseteq SourceSet
  /\ {TagHead, Probe, Buffer} \subseteq Nat \ {0}
  /\ \A s \in Sources : s.id3 = 0 \/ s.id3 >= TagHead
  /\ None \notin Nat /\ None \notin {"Ok", "Cancelled", "Io", "panic"}

VARIABLES
  src,       \* the source and whether its mount transcodes
  rpc,       \* the reader: what it reads for, or the next statement
  polled,    \* its select has found the cancellation token not cancelled
  pos,       \* bytes read
  base,      \* bytes of those no longer in its buffer
  chan,      \* chunks in the channel
  slot,      \* error_slot holds an error
  aborted,   \* abort_token is cancelled
  cancelled, \* the cancellation token is cancelled
  ppc,       \* the next statement of the publisher loop
  taken,     \* chunks it took out of the channel
  held,      \* the transcoder holds audio it has not put out
  lost,      \* the transcoder failed and audio was dropped
  mark,      \* chunks taken when a token was first cancelled
  result     \* what run returned

readerVars == <<rpc, polled, pos, base>>
vars == <<src, rpc, polled, pos, base, chan, slot, aborted, cancelled,
          ppc, taken, held, lost, mark, result>>

Reading == {"head", "skip", "probe", "stream"}

Init ==
  /\ src \in Sources
  /\ rpc = IF src.mp3 THEN "head" ELSE "stream"
  /\ polled = FALSE /\ pos = 0 /\ base = 0
  /\ chan = <<>> /\ slot = FALSE /\ aborted = FALSE /\ cancelled = FALSE
  /\ ppc = "poll_cancel" /\ taken = <<>>
  /\ held = FALSE /\ lost = FALSE /\ mark = None /\ result = None

-----------------------------------------------------------------------------
(* The reader task.                                                        *)

\* data_tx.send, of a chunk that is not empty; the receiver may be gone.
Queue(a, b) == chan' = IF a < b /\ result = None THEN Append(chan, <<a, b>>) ELSE chan

\* Enough bytes to look for a metadata frame: the reader does not await.
ProbeFull == rpc = "probe" /\ pos - base >= Probe
AtRead == rpc \in Reading /\ ~ProbeFull

\* The biased select of read_one and drain_reader: cancellation first.
PollReader ==
  /\ AtRead /\ ~polled /\ ~cancelled
  /\ polled' = TRUE
  /\ UNCHANGED <<src, rpc, pos, base, chan, slot, aborted, cancelled>>
  /\ UNCHANGED <<ppc, taken, held, lost, mark, result>>

\* ReadOutcome::Stop, return; or reader_handle.abort() once run is over.  The
\* task's end drops the sending half of the channel.
ReaderStops ==
  /\ AtRead /\ (cancelled \/ result # None)
  /\ rpc' = "done" /\ polled' = FALSE
  /\ UNCHANGED <<src, pos, base, chan, slot, aborted, cancelled>>
  /\ UNCHANGED <<ppc, taken, held, lost, mark, result>>

\* Phases 1 and 2: ten bytes tell whether a tag comes first; the rest of it
\* is skipped, and what was read past it is kept.
Phase(n) == IF n < TagHead THEN "head" ELSE IF n < src.id3 THEN "skip" ELSE "probe"

\* Mutant of KeptFrom: the end of a chunk that holds the end of the tag is
\* thrown away with it.
KeptFromNext(n) == IF Phase(n) = "probe" /\ src.id3 > 0 THEN n ELSE 0

\* Where the bytes the reader keeps begin, once n are read.
KeptFrom(n) == IF Phase(n) = "probe" THEN src.id3 ELSE 0

ReadPrefix(n) ==
  /\ rpc \in {"head", "skip"}
  /\ rpc' = Phase(pos + n) /\ base' = KeptFrom(pos + n)
  /\ UNCHANGED chan

\* Phase 3: more bytes to find a metadata frame in.
ReadProbe ==
  /\ rpc = "probe"
  /\ UNCHANGED <<rpc, base, chan>>

ReadStream(n) ==
  /\ rpc = "stream"
  /\ Queue(pos, pos + n)
  /\ base' = pos + n
  /\ UNCHANGED rpc

\* One read returns up to a buffer of what is left.
ReadBytes(n) ==
  /\ polled /\ pos + n <= src.len
  /\ ReadPrefix(n) \/ ReadProbe \/ ReadStream(n)
  /\ pos' = pos + n /\ polled' = FALSE
  /\ UNCHANGED <<src, slot, aborted, cancelled, ppc, taken, held, lost, mark, result>>

\* detect_xing_frame_end: a frame that does not fit in the bytes at hand is
\* not recognised.
XingIn(n) == IF src.xing <= n THEN src.xing ELSE 0

\* Phase 4.
Strip ==
  /\ ProbeFull
  /\ Queue(base + XingIn(pos - base), pos)
  /\ base' = pos /\ rpc' = "stream"
  /\ UNCHANGED <<src, polled, pos, slot, aborted, cancelled, ppc, taken, held, lost, mark, result>>

\* read returns 0.  In the prefix, what was kept is forwarded and the loop of
\* drain_reader reads 0 once more.
Eof ==
  /\ polled /\ pos = src.len
  /\ \/ rpc = "head" /\ Queue(0, pos)
     \/ rpc = "probe" /\ Queue(base + XingIn(pos - base), pos)
     \/ rpc \in {"skip", "stream"} /\ UNCHANGED chan
  /\ rpc' = IF rpc = "stream" THEN "done" ELSE "stream"
  /\ base' = pos /\ polled' = FALSE
  /\ UNCHANGED <<src, pos, slot, aborted, cancelled, ppc, taken, held, lost, mark, result>>

ReadFails ==
  /\ polled /\ rpc' = "set_slot" /\ polled' = FALSE
  /\ UNCHANGED <<src, pos, base, chan, slot, aborted, cancelled>>
  /\ UNCHANGED <<ppc, taken, held, lost, mark, result>>

\* Mutant of SetSlot: the token is cancelled first, the error stored after.
SetSlotLate ==
  /\ rpc = "set_slot" /\ rpc' = "cancel_abort"
  /\ slot' = FALSE
  /\ UNCHANGED <<src, polled, pos, base, chan, aborted, cancelled>>
  /\ UNCHANGED <<ppc, taken, held, lost, mark, result>>

SetSlot ==
  /\ rpc = "set_slot" /\ rpc' = "cancel_abort"
  /\ slot' = TRUE
  /\ UNCHANGED <<src, polled, pos, base, chan, aborted, cancelled>>
  /\ UNCHANGED <<ppc, taken, held, lost, mark, result>>

Mark == mark' = IF mark = None THEN Len(taken) ELSE mark

CancelAbort ==
  /\ rpc = "cancel_abort" /\ rpc' = "return"
  /\ aborted' = TRUE /\ Mark
  /\ UNCHANGED <<src, polled, pos, base, chan, slot, cancelled>>
  /\ UNCHANGED <<ppc, taken, held, lost, result>>

ReaderReturns ==
  /\ rpc = "return" /\ rpc' = "done"
  /\ UNCHANGED <<src, polled, pos, base, chan, slot, aborted, cancelled>>
  /\ UNCHANGED <<ppc, taken, held, lost, mark, result>>

\* Mutant of Closed: run keeps a sender alive.
NeverClosed == FALSE
Closed == rpc = "done"

-----------------------------------------------------------------------------
(* The publisher loop.                                                     *)

Goto(from, to) ==
  /\ ppc = from /\ ppc' = to
  /\ UNCHANGED <<src, readerVars, chan, slot, aborted, cancelled, taken, held, lost, mark, result>>

Break(from, outcome) ==
  /\ ppc = from /\ ppc' = "over"
  /\ result' = outcome
  /\ UNCHANGED <<src, readerVars, chan, aborted, cancelled, taken, mark>>

\* Mutant of PollCancel: the select is not biased.
PollCancelFair ==
  \/ Goto("poll_cancel", "poll_abort") \/ Goto("pace_cancel", "pace_abort")
  \/ /\ cancelled /\ UNCHANGED <<slot, held, lost>>
     /\ Break("poll_cancel", "Cancelled") \/ Break("pace_cancel", "Cancelled")

\* First branch of both selects, of the loop and of the pacing sleep.
PollCancel ==
  \/ ~cancelled /\ (Goto("poll_cancel", "poll_abort") \/ Goto("pace_cancel", "pace_abort"))
  \/ /\ cancelled /\ UNCHANGED <<slot, held, lost>>
     /\ Break("poll_cancel", "Cancelled") \/ Break("pace_cancel", "Cancelled")

\* Second branch: take the error out of its slot; none there is a panic.
PollAbort ==
  \/ ~aborted /\ (Goto("poll_abort", "poll_recv") \/ Goto("pace_abort", "pace_sleep"))
  \/ /\ aborted /\ slot' = FALSE /\ UNCHANGED <<held, lost>>
     /\ LET outcome == IF slot THEN "Io" ELSE "panic"
        IN Break("poll_abort", outcome) \/ Break("pace_abort", outcome)

\* TranscodePipeline::push may keep audio back, or fail and lose it.
Transcode ==
  \/ ~src.transcode /\ UNCHANGED <<held, lost>>
  \/ src.transcode /\ held' \in BOOLEAN /\ UNCHANGED lost
  \/ src.transcode /\ lost' = TRUE /\ UNCHANGED held

\* TranscodePipeline::flush puts out the rest, or fails.
Flush ==
  \/ held' = FALSE /\ UNCHANGED lost
  \/ src.transcode /\ lost' = TRUE /\ UNCHANGED held

\* A chunk; pacing is skipped while the rate is unknown or the stream is
\* behind.
Take ==
  /\ ppc = "poll_recv" /\ chan # <<>>
  /\ chan' = Tail(chan) /\ taken' = Append(taken, chan[1])
  /\ Transcode
  /\ ppc' \in {"poll_cancel", "pace_cancel"}
  /\ UNCHANGED <<src, readerVars, slot, aborted, cancelled, mark, result>>

\* Mutant of SourceEnded: the transcoder's tail is not flushed.
SourceEndedUnflushed ==
  /\ chan = <<>> /\ Closed
  /\ UNCHANGED <<slot, held, lost>>
  /\ Break("poll_recv", "Ok")

\* The channel is closed and empty: flush the transcoder, return Ok.
SourceEnded ==
  /\ chan = <<>> /\ Closed
  /\ Flush /\ UNCHANGED slot
  /\ Break("poll_recv", "Ok")

Suspend == chan = <<>> /\ ~Closed /\ Goto("poll_recv", "suspended")

Wake == (cancelled \/ aborted \/ chan # <<>> \/ Closed) /\ Goto("suspended", "poll_cancel")

\* The sleep is over, or a token woke the select: polled again either way.
PaceOver == Goto("pace_sleep", "poll_cancel")

-----------------------------------------------------------------------------
\* A kick, a preemption, the shutdown of the server.
Cancel ==
  /\ ~cancelled /\ cancelled' = TRUE
  /\ Mark
  /\ UNCHANGED <<src, readerVars, chan, slot, aborted, ppc, taken, held, lost, result>>

ReaderStep == PollReader \/ ReaderStops \/ Strip \/ SetSlot \/ CancelAbort \/ ReaderReturns
NetworkStep == Eof \/ ReadFails \/ \E n \in 1..Buffer : ReadBytes(n)
PublisherStep == PollCancel \/ PollAbort \/ Take \/ SourceEnded \/ Suspend \/ Wake \/ PaceOver

Next == ReaderStep \/ NetworkStep \/ PublisherStep \/ Cancel

\* Both tasks run when they can; the network owes nothing.
Fairness == WF_vars(ReaderStep) /\ WF_vars(PublisherStep)

SafetySpec == Init /\ [][Next]_vars
Spec == SafetySpec /\ Fairness

-----------------------------------------------------------------------------
(* Properties.                                                             *)

Chunk == {c \in (0..src.len) \X (0..src.len) : c[1] < c[2]}

\* Type correctness; no chunk is empty, which is what the bus relies on.
TypeOK ==
  /\ src \in Sources
  /\ rpc \in Reading \cup {"set_slot", "cancel_abort", "return", "done"}
  /\ pos \in 0..src.len /\ base \in 0..pos
  /\ {polled, slot, aborted, cancelled, held, lost} \subseteq BOOLEAN
  /\ chan \in Seq(Chunk) /\ taken \in Seq(Chunk)
  /\ ppc \in {"poll_cancel", "poll_abort", "poll_recv", "suspended",
              "pace_cancel", "pace_abort", "pace_sleep", "over"}
  /\ mark \in Nat \cup {None}
  /\ result \in {None, "Ok", "Cancelled", "Io", "panic"}

\* Where the audio of a source starts, by its contents alone.
TagEnd == IF src.mp3 /\ src.len >= TagHead THEN src.id3 ELSE 0
FrameEnd == IF src.mp3 /\ src.len >= TagHead /\ src.xing <= src.len - TagEnd THEN src.xing ELSE 0
AudioStart == TagEnd + FrameEnd

Forwarded == taken \o chan

\* However the network cuts the stream, what is queued is the audio of the
\* source, from its first byte, without a gap and without a byte of the tag
\* or the metadata frame (a frame that ends beyond the probe may be kept).
AudioOnly ==
  /\ \A i \in 1..Len(Forwarded) - 1 : Forwarded[i][2] = Forwarded[i + 1][1]
  /\ Forwarded # <<>> =>
       \/ Forwarded[1][1] = AudioStart
       \/ src.xing > Probe /\ Forwarded[1][1] = TagEnd

\* run returns Ok when the whole source was published, the transcoder's tail
\* included; or when a token was cancelled while it polled.
OkIsComplete ==
  result = "Ok" /\ mark = None =>
    /\ pos = src.len /\ chan = <<>>
    /\ pos > AudioStart => taken # <<>> /\ taken[Len(taken)][2] = src.len
    /\ held => lost

\* expect("reader cancels abort_token only after setting error_slot").
ErrorBeforeAbort == result # "panic"

\* A kick or an I/O error ends the stream at once, whatever is queued: one
\* more chunk is published at most (the biased select, icecast.rs:168-183).
StopsPromptly == mark # None => Len(taken) <= mark + 1

\* End of stream, error or cancellation: run returns and leaves no reader.
IngestEnds ==
  cancelled \/ rpc \notin Reading ~> result # None /\ rpc = "done"
-----------------------------------------------------------------------------
(* The inductive strengthening.                                            *)

\* In the prefix nothing is queued yet, and the reader's buffer starts at the
\* first byte or behind the tag.
PrefixExact ==
  rpc \in {"head", "skip", "probe"} =>
    /\ src.mp3 /\ Forwarded = <<>>
    /\ rpc = "head" => pos < TagHead
    /\ rpc # "head" => pos >= TagHead
    /\ rpc = "skip" => pos < src.id3
    /\ rpc = "probe" => base = src.id3

\* Behind it, all that was read is queued, and if nothing is, there was no
\* audio in it.
StreamExact ==
  result = None /\ (rpc = "stream" \/ (rpc = "done" /\ mark = None)) =>
    /\ Forwarded # <<>> => Forwarded[Len(Forwarded)][2] = pos
    /\ Forwarded = <<>> => pos <= AudioStart /\ (pos = AudioStart \/ pos = src.len)
    /\ rpc = "done" => pos = src.len

\* Where the tasks stand when a token is cancelled or run has returned.
TokensExact ==
  /\ polled => AtRead
  /\ mark # None <=> cancelled \/ aborted
  /\ rpc = "return" => aborted
  /\ (aborted \/ rpc = "cancel_abort") /\ result = None => slot
  /\ result # None <=> ppc = "over"
  /\ result = "Ok" => rpc = "done"

\* A publisher that took a chunk too many is on its way out.
Leaving ==
  mark # None /\ Len(taken) > mark =>
    \/ ppc \in {"poll_cancel", "pace_cancel", "over"}
    \/ ppc \in {"poll_abort", "pace_abort"} /\ aborted

\* The inductive invariant.
IngestInv ==
  /\ TypeOK /\ PrefixExact /\ StreamExact /\ TokensExact /\ Leaving
  /\ AudioOnly /\ OkIsComplete /\ ErrorBeforeAbort /\ StopsPromptly

=============================================================================
