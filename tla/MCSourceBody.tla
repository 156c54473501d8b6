---------------------------- MODULE MCSourceBody ----------------------------
(* Model checking of SourceBody: payloads that look like framing (CR, LF,   *)
(* a digit), chunks shorter and longer than a read, extensions and trailers *)
(* that just fit and just do not, heads that just fit and just do not.      *)
EXTENDS SourceBody

\* Sizes of one digit, the last chunk's among them.
Request(head, expect, length, chunked, chunks) ==
  [head |-> head, expect |-> expect, length |-> length, chunked |-> chunked,
   chunks |-> chunks,
   sizes |-> [i \in 1..Len(chunks) + 1 |-> <<48 + (IF i <= Len(chunks) THEN Len(chunks[i]) ELSE 0)>>],
   exts |-> [i \in 1..Len(chunks) + 1 |-> <<>>],
   trailers |-> <<>>, flaw |-> "none"]

OneChunk == << <<1, CR, LF, 50>> >>
TwoChunks == << <<1, CR>>, <<LF, 48, 50>> >>
Long == << [i \in 1..10 |-> i + 3] >>

\* butt (Expect), Mixxx (classic), curl with a length, reqwest (chunked), and
\* a chunked request that declares a length as well.
Plainly == {Request(h, e, l, FALSE, OneChunk) : h \in {3, 6, 9}, e \in BOOLEAN, l \in BOOLEAN}
InChunks == {Request(3, e, l, TRUE, c) : e \in BOOLEAN, l \in BOOLEAN, c \in {<<>>, TwoChunks}}
Decorated == {[Request(3, FALSE, FALSE, TRUE, TwoChunks) EXCEPT !.exts = <<x, <<>>, x>>, !.trailers = t]
                : x \in {<<SEMI>>, <<SEMI, 7>>, <<SEMI, 7, 7>>}, t \in {<<>>, << <<8>>, <<8, CR, 8>> >>, << <<8, 8, 8, 8>> >>}}
\* "a", "0A" and "000", " +a", "0 ": letters of either case, zeros and a sign
\* in front, blanks around.
Lettered == {[Request(3, FALSE, FALSE, TRUE, Long) EXCEPT !.sizes = z]
               : z \in {<< <<97>>, <<48>> >>, << <<48, 65>>, <<48, 48, 48>> >>, << <<32, PLUS, 97>>, <<48, 9>> >>}}
Flawed == {[Request(3, FALSE, FALSE, TRUE, TwoChunks) EXCEPT !.flaw = f] : f \in Flaws \ {"none"}}

Uploads == Plainly \cup InChunks \cup Decorated \cup Lettered \cup Flawed
=============================================================================
