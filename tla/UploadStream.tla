---------------------------- MODULE UploadStream ----------------------------
(***************************************************************************)
(* What the reader of a source upload promises the ingest: the payload of  *)
(* the request, in order, without a byte of its framing; and "complete"    *)
(* said of the whole payload only, unless the upload broke.                *)
(***************************************************************************)
EXTENDS Integers, Sequences

CONSTANT Payloads \* the payloads a client may set out to send

VARIABLES
  payload,  \* what this client sets out to send
  given,    \* what the ingest has been given
  ended,    \* "no", "complete" or "cut"
  broken    \* the client left, broke its framing, or the server gave up

uvars == <<payload, given, ended, broken>>

UploadInit ==
  /\ payload \in Payloads
  /\ given = <<>>
  /\ ended = "no"
  /\ broken \in BOOLEAN

Give ==
  /\ ended = "no"
  /\ \E n \in (Len(given) + 1)..Len(payload) : given' = SubSeq(payload, 1, n)
  /\ UNCHANGED <<payload, ended, broken>>

Complete ==
  /\ ended = "no" /\ given = payload
  /\ ended' = "complete"
  /\ UNCHANGED <<payload, given, broken>>

\* Only an upload that broke is cut short.
CutShort ==
  /\ ended = "no"
  /\ ended' = "cut" /\ broken' = TRUE
  /\ UNCHANGED <<payload, given>>

Break == broken' = TRUE /\ UNCHANGED <<payload, given, ended>>

UploadNext == Give \/ Complete \/ CutShort \/ Break

UploadSpec == UploadInit /\ [][UploadNext]_uvars
=============================================================================
