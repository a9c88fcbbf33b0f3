----------------------------- MODULE MCStreamer -----------------------------
(***************************************************************************)
(* Instances of Streamer for TLC.                                          *)
(***************************************************************************)
EXTENDS Streamer

CONSTANTS g1, g2

Line(columns, uuid, says) == [columns |-> columns, uuid |-> uuid, says |-> says]

MCLines ==
    {<<Line(2, g1, "a"), Line(0, Empty, ""), Line(2, g2, "b")>>,
     <<Line(2, g1, "a"), Line(2, Empty, "b"), Line(2, g2, "c")>>,
     <<Line(2, g1, "a"), Line(3, g2, "b")>>,
     <<>>}

\* A good file with a blank line, one with a line without a UUID, one with a
\* line that is too long, and one with no line: under a header and under one
\* that is too short.
MCFile == [header : {1, 2}, lines : MCLines]
=============================================================================
