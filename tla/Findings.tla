------------------------------- MODULE Findings -------------------------------
(***************************************************************************)
(* The bounded sink of the structural checks and the table being walked:   *)
(*   senbei-engine/src/findings.rs                                         *)
(* A message is the tuple of what it says and the row it says it of.       *)
(***************************************************************************)
EXTENDS Naturals, FiniteSets, Sequences, SequencesExt

CONSTANT MaxPerTable
ASSUME MaxPerTableAssumption == MaxPerTable \in Nat \ {0}

VARIABLES
  image,   \* what is checked
  table,   \* the table being walked
  row,     \* the row of it that is next
  sink,    \* its Findings
  report   \* tables walked before, each with the sink it left

walking == <<image, table, row, sink, report>>

Holding(messages) == [kept |-> messages, dropped |-> 0, unseen |-> FALSE]

Fresh == Holding(<<>>)

Full(s) == Len(s.kept) >= MaxPerTable

Room(s) == IF Full(s) THEN 0 ELSE MaxPerTable - Len(s.kept)

\* These messages, in their order.
Push(s, messages) ==
  LET kept == SubSeq(messages, 1, IF Len(messages) <= Room(s) THEN Len(messages) ELSE Room(s)) IN
  [s EXCEPT !.kept = @ \o kept, !.dropped = @ + Len(messages) - Len(kept)]

\* A mutant of WantsMore: asking a full sink leaves no trace in it.
WantsMoreQuietly(s, rows) == s

\* A walker asks before each of these rows; a full sink remembers that it was asked.
WantsMore(s, rows) == [s EXCEPT !.unseen = @ \/ rows # <<>>]

\* rows[k] are the messages of one row, found only while the sink wants more.
Asking(s, rows) ==
  LET before(k) == Push(s, FlattenSeq(SubSeq(rows, 1, k - 1)))
      examined == Cardinality({k \in DOMAIN rows : ~ Full(before(k))})
  IN WantsMore(before(examined + 1), SubSeq(rows, examined + 1, Len(rows)))

\* The lines one table adds to the report.
Lines(s) ==
  s.kept \o (IF s.dropped # 0 THEN <<<<"suppressed", s.dropped>>>> ELSE <<>>)
         \o (IF s.unseen THEN <<<<"not checked">>>> ELSE <<>>)

Finish(s, next) ==
  /\ report' = Append(report, [table |-> table, sink |-> s])
  /\ table' = next /\ row' = 1 /\ sink' = Fresh
  /\ UNCHANGED image

Continue(s) ==
  /\ sink' = s /\ row' = row + 1
  /\ UNCHANGED <<image, table, report>>
===============================================================================
