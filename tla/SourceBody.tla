----------------------------- MODULE SourceBody -----------------------------
(***************************************************************************)
(* One source upload from its first byte to its last, below HTTP           *)
(* (stream_listener.rs, source_protocol.rs, chunked.rs): the peek that     *)
(* tells a source from a listener, the request head read in blocks with    *)
(* what follows it replayed, the reply a client may be waiting for, and    *)
(* the body as the ingest reads it: up to the end of the connection, a     *)
(* declared length, or the chunks of a chunked encoding.                   *)
(*                                                                         *)
(* TCP may cut what the client sends anywhere, so the client sends any     *)
(* number of bytes at a time.  The bytes of a connection are fixed when it *)
(* opens (Wire); both sides are positions in them.  What a head says is a  *)
(* field of the request, and its bytes stand for it.                       *)
(***************************************************************************)
EXTENDS Integers, Sequences, SequencesExt

CONSTANTS
  Requests,        \* the uploads a client may make, see RequestOk
  Faults,          \* what may go wrong with a connection
  VerbLen,         \* bytes that classify needs: 4 for "PUT ", 7 for "SOURCE "
  BlockSize,       \* the head is read in blocks of this size, 1024 in the code
  MaxHeaderBytes,  \* MAX_HEADER_BYTES
  MaxSizeLine,     \* MAX_SIZE_LINE_BYTES
  MaxTrailer,      \* MAX_TRAILER_BYTES
  ReadSize         \* the buffer the ingest reads into, 4096 in the code

CR == 13
LF == 10
SEMI == 59
PLUS == 43
CRLF == <<CR, LF>>

Bytes == 0..255

Least(S) == CHOOSE x \in S : \A y \in S : x <= y

\* parse_chunk_size: blanks around the size and one sign are skipped (of the
\* blanks of Unicode only those of ASCII are here), and what is left must be
\* hexadecimal digits, one at least.
Blanks == 9..13 \cup {32}
Trim(s) ==
  LET solid == {i \in 1..Len(s) : s[i] \notin Blanks}
  IN IF solid = {} THEN <<>> ELSE SubSeq(s, Least(solid), Max(solid))
Unsigned(s) == IF s # <<>> /\ s[1] = PLUS THEN Tail(s) ELSE s
Number(s) == Unsigned(Trim(s))
HexDigits == 48..57 \cup 65..70 \cup 97..102
DigitValue(b) == IF b <= 57 THEN b - 48 ELSE IF b <= 70 THEN b - 55 ELSE b - 87
IsHex(s) == s # <<>> /\ \A i \in 1..Len(s) : s[i] \in HexDigits
Hex(s) ==
  LET value[i \in 0..Len(s)] == IF i = 0 THEN 0 ELSE 16 * value[i - 1] + DigitValue(s[i])
  IN value[Len(s)]

\* A request: the size of its head, its Expect header, whether it declares a
\* length and whether it is chunked, its chunks (one of them when it is not
\* chunked), their sizes and that of the last chunk written in any way that is
\* read so, the extension behind each, its trailer lines.  "flaw" is what the client gets
\* wrong in its last chunk: it leaves the size out or ends the chunk with LF CR.
\* Sizes have no width here; the code's u64 refuses those of 2^64 and more.
Flaws == {"none", "size", "crlf"}
OneLine(s) == s \in Seq(Bytes) /\ \A i \in 1..Len(s) - 1 : ~(s[i] = CR /\ s[i + 1] = LF)
RequestOk(r) ==
  /\ r.head \in Nat /\ r.head > VerbLen
  /\ r.expect \in BOOLEAN /\ r.length \in BOOLEAN /\ r.chunked \in BOOLEAN
  /\ r.chunks \in Seq(Seq(Bytes))
  /\ ~r.chunked => Len(r.chunks) = 1 /\ r.flaw = "none"
  /\ r.chunked => \A i \in 1..Len(r.chunks) : r.chunks[i] # <<>>
  /\ \A i \in 1..Len(r.chunks) + 1 :
       /\ r.sizes[i] \in Seq(Bytes)
       /\ \A j \in 1..Len(r.sizes[i]) : r.sizes[i][j] \notin {SEMI, CR}
       /\ IsHex(Number(r.sizes[i]))
       /\ Hex(Number(r.sizes[i])) = IF i <= Len(r.chunks) THEN Len(r.chunks[i]) ELSE 0
       /\ OneLine(r.exts[i]) /\ (r.exts[i] # <<>> => r.exts[i][1] = SEMI)
  /\ r.trailers \in Seq(Seq(Bytes))
  /\ \A i \in 1..Len(r.trailers) : OneLine(r.trailers[i]) /\ r.trailers[i] # <<>>
  /\ r.flaw \in Flaws /\ (r.flaw # "none" => r.chunks # <<>>)

\* The empty trailer line fits its limit.
ASSUME BodyAssumption ==
  /\ \A r \in Requests : RequestOk(r)
  /\ Faults \subseteq {"none", "leaves", "stalls", "kick", "malformed", "refused"}
  /\ {VerbLen, BlockSize, MaxHeaderBytes, MaxSizeLine, MaxTrailer, ReadSize} \subseteq Nat \ {0}
  /\ MaxTrailer >= 2

Payload(r) == FlattenSeq(r.chunks)

\* What a client sends after the head.
Size(r, i) == IF r.flaw = "size" /\ i = Len(r.chunks) THEN <<>> ELSE r.sizes[i]
SizeLine(r, i) == Size(r, i) \o r.exts[i] \o CRLF
Frame(r, i) ==
  SizeLine(r, i) \o r.chunks[i] \o (IF r.flaw = "crlf" /\ i = Len(r.chunks) THEN <<LF, CR>> ELSE CRLF)
Chunked(r) ==
  FlattenSeq([i \in 1..Len(r.chunks) |-> Frame(r, i)])
    \o SizeLine(r, Len(r.chunks) + 1)
    \o FlattenSeq([i \in 1..Len(r.trailers) |-> r.trailers[i] \o CRLF]) \o CRLF
Wire(r) == [i \in 1..r.head |-> 0] \o (IF r.chunked THEN Chunked(r) ELSE Payload(r))

VARIABLES
  req,      \* the request of this connection
  fault,    \* what goes wrong with it
  sent,     \* bytes the client has written
  broken,   \* the fault has happened
  closed,   \* the client has closed its side
  pc,       \* handle_source_connection
  replies,  \* status lines written to the client
  fetched,  \* bytes read from the socket
  used,     \* bytes read from the ChainReader, the head included
  dec,      \* the state of the ChunkedDecoder
  left,     \* bytes left of the chunk or of the declared length
  scratch,  \* the line the decoder gathers
  given,    \* the bytes the ingest has been given
  outcome   \* how the body ended

client == <<sent, broken, closed>>
server == <<pc, replies, fetched, used, dec, left, scratch, given, outcome>>
bodyVars == <<req, fault, client, server>>

\* No Expect and no framing: the client waits for a final status before it
\* sends any audio, and ends the stream by closing.
Classic == ~req.expect /\ ~req.length /\ ~req.chunked
Unframed == ~req.length /\ ~req.chunked

\* The statuses of a request that is not let in.
Refusals == {"401", "409", "415", "500"}
Final == {"200", "400", "405"} \cup Refusals

BodyInit ==
  /\ req \in Requests /\ fault \in Faults
  /\ sent = 0 /\ broken = FALSE /\ closed = FALSE
  /\ pc = "accept" /\ replies = <<>>
  /\ fetched = 0 /\ used = 0
  /\ dec = "size" /\ left = 0 /\ scratch = <<>>
  /\ given = <<>> /\ outcome = "none"

-----------------------------------------------------------------------------
(* The client.                                                             *)

Stalled == fault = "stalls" /\ broken
Silent == closed \/ Stalled
Refused == \E i \in 1..Len(replies) : replies[i] \in Final \ {"200"}

\* The head may be sent at any time, the body at once only by a client that
\* does not wait for a reply.
Invited == ~(req.expect \/ Classic) \/ (replies # <<>> /\ replies[1] \in {"100", "200"})
Limit == IF Invited THEN Len(Wire(req)) ELSE req.head

ClientSends ==
  /\ ~Silent /\ ~Refused
  /\ \E n \in (sent + 1)..Limit : sent' = n
  /\ UNCHANGED <<req, fault, broken, closed, server>>

\* Closing ends an unframed stream; any client closes once it is answered.
ClientCloses ==
  /\ ~Silent
  /\ (Unframed /\ sent = Len(Wire(req))) \/ Refused \/ pc = "closed"
  /\ closed' = TRUE
  /\ UNCHANGED <<req, fault, sent, broken, server>>

ClientLeaves ==
  /\ fault = "leaves" /\ ~closed
  /\ broken' = TRUE /\ closed' = TRUE
  /\ UNCHANGED <<req, fault, sent, server>>

ClientStalls ==
  /\ fault = "stalls" /\ ~broken
  /\ broken' = TRUE
  /\ UNCHANGED <<req, fault, sent, closed, server>>

-----------------------------------------------------------------------------
(* The dispatcher and the request head.                                    *)

Arrived == sent - fetched     \* bytes waiting in the socket
SocketEnded == closed /\ Arrived = 0

Reply(status) == replies' = Append(replies, status)
Move(to) == pc' = to /\ UNCHANGED <<req, fault, client>>
KeepBody == UNCHANGED <<fetched, used, dec, left, scratch, given, outcome>>

\* One peek: what has arrived decides, even if it is a part of the verb.
Classify ==
  /\ pc = "accept"
  /\ sent > 0 \/ closed
  /\ Move(IF sent >= VerbLen THEN "head" ELSE "hyper")
  /\ UNCHANGED replies /\ KeepBody

ClassifyTimeout ==
  /\ pc = "accept" /\ sent = 0 /\ Stalled
  /\ Move("hyper") /\ UNCHANGED replies /\ KeepBody

\* The connection is left to axum::serve, which waits for a whole head without
\* a deadline (main.rs:297 sets none); the router of the stream port knows GET
\* only.
HyperAnswers ==
  /\ pc = "hyper" /\ sent >= req.head /\ replies = <<>>
  /\ Move("hyper") /\ Reply(IF fault = "malformed" THEN "400" ELSE "405") /\ KeepBody

\* It ends with the client.
HyperEnds ==
  /\ pc = "hyper" /\ closed
  /\ Move("closed") /\ UNCHANGED replies /\ KeepBody

\* Or, at hyper's choice, behind the answer (a body that nobody reads).
HyperHangsUp ==
  /\ pc = "hyper" /\ replies # <<>>
  /\ Move("closed") /\ UNCHANGED replies /\ KeepBody

\* Where the next block of the head ends.
Block == fetched + (IF Arrived < BlockSize THEN Arrived ELSE BlockSize)

\* Mutant of HeadRead: what a block holds after the head is dropped.
HeadReadDrops ==
  /\ pc = "head" /\ Arrived > 0
  /\ LET n == Block IN
       /\ fault = "malformed" => n < req.head
       /\ fetched' = n
       /\ IF n > MaxHeaderBytes THEN Move("refuse") /\ UNCHANGED <<used, left>>
          ELSE IF n < req.head THEN Move("head") /\ UNCHANGED <<used, left>>
          ELSE /\ Move("upfront")
               /\ used' = n
               /\ left' = IF req.chunked THEN 0 ELSE Len(Payload(req))
  /\ UNCHANGED <<replies, dec, scratch, given, outcome>>

\* read_request_head: the size is checked before the head is parsed, and
\* what a block holds after the head is the start of the body.
HeadRead ==
  /\ pc = "head" /\ Arrived > 0
  /\ LET n == Block IN
       /\ fault = "malformed" => n < req.head
       /\ fetched' = n
       /\ IF n > MaxHeaderBytes THEN Move("refuse") /\ UNCHANGED <<used, left>>
          ELSE IF n < req.head THEN Move("head") /\ UNCHANGED <<used, left>>
          ELSE /\ Move("upfront")
               /\ used' = req.head
               /\ left' = IF req.chunked THEN 0 ELSE Len(Payload(req))
  /\ UNCHANGED <<replies, dec, scratch, given, outcome>>

\* httparse finds a mistake, in the block that completes the head at the latest.
HeadMalformed ==
  /\ pc = "head" /\ Arrived > 0 /\ fault = "malformed"
  /\ fetched' = Block
  /\ Move("refuse") /\ UNCHANGED <<replies, used, dec, left, scratch, given, outcome>>

HeadEnds ==
  /\ pc = "head" /\ SocketEnded
  /\ Move("refuse") /\ UNCHANGED replies /\ KeepBody

\* Mutant of HeadTimeout: the head is awaited without a deadline.
NoHeadTimeout == FALSE /\ Move("refuse") /\ UNCHANGED replies /\ KeepBody

\* HEADER_READ_TIMEOUT passes for a client that has stopped sending.
HeadTimeout ==
  /\ pc = "head" /\ Stalled /\ Arrived = 0
  /\ Move("refuse") /\ UNCHANGED replies /\ KeepBody

Refuse ==
  /\ pc = "refuse"
  /\ Move("closed") /\ Reply("400") /\ KeepBody

-----------------------------------------------------------------------------
(* The reply before the body.                                              *)

\* Mutant of UpfrontReply: only Expect gets one.
ExpectOnly == IF req.expect THEN <<"100">> ELSE <<>>

UpfrontReply == IF req.expect THEN <<"100">> ELSE IF Classic THEN <<"200">> ELSE <<>>

\* The password, the registry, the codec or the slot refuse the source: the
\* handler answers and returns, what the client sent of its body unread.
Rejects ==
  /\ pc = "upfront" /\ fault = "refused"
  /\ \E status \in Refusals : Reply(status)
  /\ Move("closed") /\ KeepBody

Upfront ==
  /\ pc = "upfront" /\ fault # "refused"
  /\ Move("body")
  /\ replies' = replies \o UpfrontReply
  /\ KeepBody

\* Writing it fails when the client is gone.
UpfrontFails ==
  /\ pc = "upfront" /\ fault # "refused"
  /\ UpfrontReply # <<>> /\ closed /\ broken
  /\ Move("closed") /\ UNCHANGED replies /\ KeepBody

-----------------------------------------------------------------------------
(* The body: what one poll_read of the ingest's reader task does.          *)

Body == pc = "body" /\ outcome = "none"
KeepTalk == UNCHANGED <<req, fault, client, pc, replies>>

\* ChainReader: the rest of the head's last block first, then the socket.
Buffered == fetched - used
Ready == IF Buffered > 0 THEN Buffered ELSE Arrived
ReaderEnded == Buffered = 0 /\ SocketEnded

\* n bytes are consumed, from the buffer or the socket.
Consume(n) ==
  /\ used' = used + n
  /\ fetched' = IF Buffered > 0 THEN fetched ELSE fetched + n

NextBytes(n) == SubSeq(Wire(req), used + 1, used + n)

BodyEnds(how) ==
  /\ outcome' = how
  /\ KeepTalk /\ UNCHANGED <<fetched, used, dec, left, scratch, given>>

\* No framing: the end of the connection is the end of the stream.
RawRead ==
  /\ Body /\ Unframed /\ Ready > 0
  /\ LET n == Least({Ready, ReadSize}) IN Consume(n) /\ given' = given \o NextBytes(n)
  /\ KeepTalk /\ UNCHANGED <<dec, left, scratch, outcome>>
RawEnds == Body /\ Unframed /\ ReaderEnded /\ BodyEnds("eof")

\* take(len): the declared length and no more.
LengthRead ==
  /\ Body /\ req.length /\ ~req.chunked /\ left > 0 /\ Ready > 0
  /\ LET n == Least({Ready, ReadSize, left}) IN
       Consume(n) /\ left' = left - n /\ given' = given \o NextBytes(n)
  /\ KeepTalk /\ UNCHANGED <<dec, scratch, outcome>>
LengthEnds == Body /\ req.length /\ ~req.chunked /\ (left = 0 \/ ReaderEnded) /\ BodyEnds("eof")

-----------------------------------------------------------------------------
(* ChunkedDecoder, an iteration of the loop of poll_read at a time.  dec   *)
(* is "size", "payload", "cr", "lf", "trailers", "done" or "errored".      *)

Decoding(states) == Body /\ req.chunked /\ dec \in states
MaxLine == IF dec = "size" THEN MaxSizeLine ELSE MaxTrailer
LineComplete == Len(scratch) >= 2 /\ SubSeq(scratch, Len(scratch) - 1, Len(scratch)) = CRLF
Line == SubSeq(scratch, 1, Len(scratch) - 2)

Decode(state) == dec' = state /\ KeepTalk
Error == Decode("errored") /\ outcome' = "error"

\* poll_fill_line, a byte at a time.
FillByte ==
  /\ Decoding({"size", "trailers"}) /\ ~LineComplete
  /\ Len(scratch) < MaxLine /\ Ready > 0
  /\ Consume(1) /\ scratch' = scratch \o NextBytes(1)
  /\ KeepTalk /\ UNCHANGED <<dec, left, given, outcome>>

LineTooLong ==
  /\ Decoding({"size", "trailers"}) /\ ~LineComplete /\ Len(scratch) >= MaxLine
  /\ Error /\ UNCHANGED <<fetched, used, left, scratch, given>>

\* The end of the connection inside a line: poll_fill_line leaves the state.
LineCut ==
  /\ Decoding({"size", "trailers"}) /\ ~LineComplete /\ Len(scratch) < MaxLine /\ ReaderEnded
  /\ BodyEnds("error")

\* The size is what stands before a semicolon.
BeforeSemi(line) ==
  IF SEMI \in ToSet(line)
  THEN SubSeq(line, 1, Least({i \in 1..Len(line) : line[i] = SEMI}) - 1) ELSE line
Digits(line) == Number(BeforeSemi(line))

SizeParsed ==
  /\ Decoding({"size"}) /\ LineComplete
  /\ scratch' = <<>>
  /\ LET s == Digits(Line) IN
       IF ~IsHex(s) THEN Error /\ UNCHANGED left
       ELSE /\ Decode(IF Hex(s) = 0 THEN "trailers" ELSE "payload")
            /\ left' = Hex(s)
            /\ UNCHANGED outcome
  /\ UNCHANGED <<fetched, used, given>>

PayloadRead ==
  /\ Decoding({"payload"}) /\ left > 0 /\ Ready > 0
  /\ LET n == Least({Ready, ReadSize, left}) IN
       Consume(n) /\ left' = left - n /\ given' = given \o NextBytes(n)
  /\ KeepTalk /\ UNCHANGED <<dec, scratch, outcome>>

PayloadOver ==
  /\ Decoding({"payload"}) /\ left = 0
  /\ Decode("cr") /\ UNCHANGED <<fetched, used, left, scratch, given, outcome>>

\* The CRLF after a payload, a byte at a time.
AfterPayload ==
  /\ Decoding({"cr", "lf"}) /\ Ready > 0
  /\ Consume(1)
  /\ IF NextBytes(1) # (IF dec = "cr" THEN <<CR>> ELSE <<LF>>) THEN Error
     ELSE Decode(IF dec = "cr" THEN "lf" ELSE "size") /\ UNCHANGED outcome
  /\ UNCHANGED <<left, scratch, given>>

PayloadCut ==
  /\ Decoding({"payload", "cr", "lf"}) /\ ReaderEnded /\ (dec = "payload" => left > 0)
  /\ Error /\ UNCHANGED <<fetched, used, left, scratch, given>>

TrailerLine ==
  /\ Decoding({"trailers"}) /\ LineComplete
  /\ scratch' = <<>>
  /\ Decode(IF Line = <<>> THEN "done" ELSE "trailers")
  /\ UNCHANGED <<fetched, used, left, given, outcome>>

DecoderDone == Decoding({"done"}) /\ BodyEnds("eof")

-----------------------------------------------------------------------------
(* The end of the connection.                                              *)

\* source_cancel: a kick by the operator or a shutdown.
Kick ==
  /\ Body /\ (fault = "kick" \/ Stalled)
  /\ outcome' = "cancelled" /\ broken' = TRUE
  /\ UNCHANGED <<req, fault, sent, closed, pc, replies, fetched, used, dec, left, scratch, given>>

\* Mutant of Finish: everyone gets the terminal status.
FinishAlways ==
  /\ pc = "body" /\ outcome # "none"
  /\ Move("closed") /\ Reply("200") /\ KeepBody

\* The terminal 200 is for those who did not get one before the body.
Finish ==
  /\ pc = "body" /\ outcome # "none"
  /\ Move("closed")
  /\ replies' = IF Classic THEN replies ELSE Append(replies, "200")
  /\ KeepBody

Dispatch == Classify \/ ClassifyTimeout \/ HyperAnswers \/ HyperEnds
RequestHead == HeadRead \/ HeadMalformed \/ HeadEnds \/ HeadTimeout \/ Refuse
Start == Rejects \/ Upfront \/ UpfrontFails
Plain == RawRead \/ RawEnds \/ LengthRead \/ LengthEnds
Decoder == \/ FillByte \/ LineTooLong \/ LineCut \/ SizeParsed \/ PayloadRead \/ PayloadOver
           \/ AfterPayload \/ PayloadCut \/ TrailerLine \/ DecoderDone
ServerStep == Dispatch \/ RequestHead \/ Start \/ Plain \/ Decoder \/ Finish

ClientStep == ClientSends \/ ClientCloses

BodyNext == \/ ServerStep \/ ClientStep
            \/ ClientLeaves \/ ClientStalls \/ Kick \/ HyperHangsUp

\* The tasks of the server run, and a client that has not left or stalled
\* goes on.  Nobody is bound to kick a source that has stalled, nor hyper to
\* hang up.
BodySpec ==
  /\ BodyInit /\ [][BodyNext]_bodyVars
  /\ WF_bodyVars(ServerStep) /\ WF_bodyVars(ClientStep)

-----------------------------------------------------------------------------
(* Properties.                                                             *)

\* The lines of the framing that the decoder accepts, their CRLF included.
WellFramed(r) ==
  r.chunked =>
    /\ r.flaw = "none"
    /\ \A i \in 1..Len(r.chunks) + 1 : Len(SizeLine(r, i)) <= MaxSizeLine
    /\ \A i \in 1..Len(r.trailers) : Len(r.trailers[i]) + 2 <= MaxTrailer

\* The types, and the bounds of the buffers: the decoder's scratch buffer stays
\* within the limit of its line (chunked.rs:33-34), the body reader behind
\* the socket, the socket behind the client.
BodyTypeOK ==
  /\ pc \in {"accept", "hyper", "head", "refuse", "upfront", "body", "closed"}
  /\ dec \in {"size", "payload", "cr", "lf", "trailers", "done", "errored"}
  /\ outcome \in {"none", "eof", "error", "cancelled"}
  /\ used <= fetched
  /\ fetched <= sent /\ sent <= Len(Wire(req))
  /\ Len(scratch) <= (IF dec = "size" THEN MaxSizeLine ELSE MaxTrailer) \/ dec = "errored"
  /\ left \in Nat

\* The body's place in the promise of UploadStream.  A stream without chunks
\* that ends early looks complete to the server; here it is cut.
Ended ==
  IF outcome = "none" THEN "no"
  ELSE IF outcome = "eof" /\ (req.chunked \/ given = Payload(req)) THEN "complete" ELSE "cut"

Upload == INSTANCE UploadStream WITH
  Payloads <- {Payload(r) : r \in Requests},
  payload <- Payload(req),
  given <- given,
  ended <- Ended,
  broken <- broken \/ ~WellFramed(req)

\* However the connection is cut into segments, blocks, chunks and reads, the
\* ingest is given the payload from its first byte on, in order and without
\* framing; and ChunkedDecoder reports the end of the stream only after all
\* of it (chunked.rs:17-19).
UploadIsStream == Upload!UploadSpec

\* A client reads one final status, on whatever way its request ends.  "Sending a
\* second status line now would corrupt the connection"
\* (source_protocol.rs:244-247).
OneFinalStatus ==
  \A i, j \in 1..Len(replies) : replies[i] \in Final /\ replies[j] \in Final => i = j

\* Client and server never wait for each other: once a source is recognised,
\* a client of any of the three kinds that keeps its side of the protocol has
\* its whole body read, whatever it waits for before it sends it.
UploadCompletes ==
  (pc = "head" /\ fault = "none" /\ WellFramed(req) /\ req.head + BlockSize <= MaxHeaderBytes)
    ~> (pc = "closed" /\ outcome = "eof" /\ given = Payload(req))

\* Every connection ends and gives its mount back, whatever the client does,
\* save where the code waits for a client without a deadline: it stalls in its
\* body, or it said too little to be taken for a source and stalls then.
ConnectionEnds == <>[](pc = "closed" \/ (fault = "stalls" /\ pc \in {"hyper", "body"}))
=============================================================================
