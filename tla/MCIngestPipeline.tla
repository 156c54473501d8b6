-------------------------- MODULE MCIngestPipeline --------------------------
\* IngestPipeline with a head of 2 bytes, a probe of 3 and reads of up to 3.
EXTENDS IngestPipeline

Lengths == 0..8

\* MP3 with and without a tag and a metadata frame: shorter than the probe,
\* just as long, longer, and past the end of the stream; and a source of
\* another codec, transcoded or not.
MCSources ==
  {[mp3 |-> TRUE, len |-> n, id3 |-> t, xing |-> x, transcode |-> FALSE] :
      n \in Lengths, t \in {0, 2, 4}, x \in {0, 2, 3, 4}}
  \cup {[mp3 |-> m, len |-> n, id3 |-> 0, xing |-> 0, transcode |-> TRUE] :
      m \in BOOLEAN, n \in {0, 3, 5}}
=============================================================================
