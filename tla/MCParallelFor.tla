---------------------------- MODULE MCParallelFor ----------------------------
(***************************************************************************)
(* Small instances of ParallelFor: three blocks over a three-byte buffer,  *)
(* with empty, adjacent, overlapping and out-of-bounds spans.              *)
(***************************************************************************)
EXTENDS ParallelFor

MCSpan(s, e) == [start |-> s, end |-> e]

\* <<0, 0>> and <<0, 1>> share a start; <<1, 3>> overlaps <<1, 2>>; <<2, 4>>
\* leaves the buffer.
MCSpans == {MCSpan(0, 0), MCSpan(0, 1), MCSpan(1, 2), MCSpan(1, 3), MCSpan(2, 4)}

MCPer == {1}
=============================================================================
