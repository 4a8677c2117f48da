----------------------------- MODULE ParallelFor -----------------------------
(***************************************************************************)
(* The block fan-out of the section decrypt and decompress loops,          *)
(* `parallel_for` in senbei-engine/src/windows/parallel.rs: carve the      *)
(* output buffer into one piece per block, hand each piece to exactly one  *)
(* worker through a shared iterator, stop at the first failure, and return *)
(* a panic in preference to an Err.                                        *)
(*                                                                         *)
(* Blocks are numbered from 1 (from 0 in the code) so that 0 can mean      *)
(* "none".  What a block computes is abstracted to which block last wrote  *)
(* each byte; how its closure ends is the input `verdict`.                 *)
(***************************************************************************)
EXTENDS FanOut, Integers

CONSTANTS
  MaxBlocks,    \* bound on the number of blocks
  MaxCap,       \* bound on the thread cap, hence on the workers
  SpanChoices,  \* the spans a block descriptor may declare, corrupt ones too
  PerChoices    \* the values of min_per_thread

ASSUME InputAssumption ==
  /\ BufLen \in Nat /\ MaxBlocks \in Nat /\ MaxCap \in Nat
  /\ SpanChoices \subseteq [start : Nat, end : Nat]
  /\ PerChoices \subseteq Nat

VARIABLES
  cap,           \* thread_cap() at the call
  per,           \* min_per_thread
  mode,          \* where the caller is
  base,          \* end of the last carved piece
  carved,        \* blocks whose piece has been cut out of buf
  next,          \* blocks handed out so far: 1 .. next
  done,          \* ghost: blocks whose closure returned Ok(())
  pc,            \* worker |-> its place in the loop
  cur,           \* worker |-> the block it holds, 0 if none
  stop,          \* the shared stop flag
  firstErr,      \* block whose Err is in first_err, 0 if None
  firstPanic,    \* block whose payload is in first_panic, 0 if None
  blockCapture,  \* worker |-> block recorded by the hook in its block capture
  capture        \* block recorded in the caller's PanicCapture, 0 if none

input  == <<n, spans, verdict, cap, per>>
pool   == <<pc, cur, stop, firstErr, firstPanic, blockCapture>>
carve  == <<base, carved>>
vars   == <<input, mode, carve, next, done, pool, capture, mem, result>>

Workers == 1 .. MaxCap

-----------------------------------------------------------------------------
(* Spans.                                                                  *)

InBounds == \A i \in Blocks : spans[i].start <= spans[i].end /\ spans[i].end <= BufLen

\* The order of the spans sorted as (start, end) tuples.
SortedBefore(i, j) ==
  \/ spans[i].start < spans[j].start
  \/ spans[i].start = spans[j].start /\ spans[i].end < spans[j].end
  \/ spans[i] = spans[j] /\ i < j

\* The order the pieces are carved in: a stable sort by the whole span.
CarveBefore(i, j) == SortedBefore(i, j)

\* A mutant of SpansDisjoint: overlapping spans are waved through.
SpansUnchecked == TRUE

\* No span starts before its predecessor in sorted order ends.
SpansDisjoint ==
  \A i, j \in Blocks :
    /\ SortedBefore(i, j)
    /\ ~ \E k \in Blocks : SortedBefore(i, k) /\ SortedBefore(k, j)
    => spans[i].end <= spans[j].start

WorkerCount ==
  LET least == IF per = 0 THEN 1 ELSE per
      share == n \div least
  IN  IF cap > 1 /\ n >= 2 * least
      THEN IF cap < share THEN cap ELSE share
      ELSE 1

-----------------------------------------------------------------------------
(* The caller.                                                             *)

Init ==
  /\ n \in 0 .. MaxBlocks
  /\ spans \in [Blocks -> SpanChoices]
  /\ verdict \in [Blocks -> Verdicts]
  /\ cap \in 1 .. MaxCap
  /\ per \in PerChoices
  /\ FanOutInit
  /\ mode = "entry"
  /\ base = 0 /\ carved = {}
  /\ next = 0 /\ done = {}
  /\ pc = [w \in Workers |-> "exit"]
  /\ cur = [w \in Workers |-> 0]
  /\ stop = FALSE
  /\ firstErr = 0 /\ firstPanic = 0
  /\ blockCapture = [w \in Workers |-> 0]
  /\ capture = 0

\* Nothing to do, an overlap that degrades to one whole-buffer pass, or a carve.
Enter ==
  /\ mode = "entry"
  /\ \/ /\ n = 0
        /\ mode' = "done" /\ result' = Ok
     \/ /\ n > 0 /\ ~ (InBounds /\ SpansDisjoint)
        /\ mode' = "sequential" /\ UNCHANGED result
     \/ /\ n > 0 /\ InBounds /\ SpansDisjoint
        /\ mode' = "carve" /\ UNCHANGED result
  /\ UNCHANGED <<input, carve, next, done, pool, capture, mem>>

\* Cut the next span, in sorted order, off the rest of the buffer.  A span that
\* started before `base` would underflow `s - base` and panic in the caller.
CarvePiece(i) ==
  /\ mode = "carve"
  /\ i \notin carved
  /\ \A j \in Blocks \ carved : j = i \/ CarveBefore(i, j)
  /\ \/ /\ base <= spans[i].start
        /\ base' = spans[i].end
        /\ carved' = carved \cup {i}
        /\ UNCHANGED <<mode, result>>
     \/ /\ spans[i].start < base
        /\ mode' = "done" /\ result' = Panic(0)
        /\ UNCHANGED carve
  /\ UNCHANGED <<input, next, done, pool, capture, mem>>

\* Every piece is cut: run on this thread, or spawn the workers.
Dispatch ==
  /\ mode = "carve"
  /\ carved = Blocks
  /\ \/ /\ WorkerCount <= 1
        /\ mode' = "sequential" /\ UNCHANGED pc
     \/ /\ WorkerCount > 1
        /\ mode' = "pool"
        /\ pc' = [w \in Workers |-> IF w <= WorkerCount THEN "poll" ELSE "exit"]
  /\ UNCHANGED <<input, carve, next, done, cur, stop, firstErr, firstPanic,
                 blockCapture, capture, mem, result>>

\* One block on the calling thread, over its piece or over the whole buffer:
\* either way it writes the same absolute bytes.  The first failure returns;
\* a panic is recorded in the capture that is active on this thread.
RunHere(i) ==
  /\ mode = "sequential"
  /\ i = next + 1
  /\ next' = i
  /\ \/ /\ verdict[i] = "ok"
        /\ Write(i, Target(i))
        /\ done' = done \cup {i}
        /\ UNCHANGED <<mode, capture, result>>
     \/ /\ verdict[i] # "ok"
        /\ \E W \in SUBSET Target(i) : Write(i, W)
        /\ mode' = "done"
        /\ result' = IF verdict[i] = "err" THEN Err(i) ELSE Panic(i)
        /\ capture' = IF verdict[i] = "panic" THEN i ELSE capture
        /\ UNCHANGED done
  /\ UNCHANGED <<input, carve, pool>>

ReturnOk ==
  /\ mode = "sequential"
  /\ next = n
  /\ mode' = "done" /\ result' = Ok
  /\ UNCHANGED <<input, carve, next, done, pool, capture, mem>>

\* A panic is re-raised before any Err is returned.
Outcome ==
  IF firstPanic # 0 THEN Panic(firstPanic)
  ELSE IF firstErr # 0 THEN Err(firstErr) ELSE Ok

\* The scope ends when every worker has left its loop.
Join ==
  /\ mode = "pool"
  /\ \A w \in Workers : pc[w] = "exit"
  /\ mode' = "done" /\ result' = Outcome
  /\ UNCHANGED <<input, carve, next, done, pool, capture, mem>>

-----------------------------------------------------------------------------
(* One worker.                                                             *)

\* The stop flag is read with Relaxed ordering: a worker that has not yet
\* observed the store may go on and take another block.
Poll(w) ==
  /\ pc[w] = "poll"
  /\ \/ stop /\ pc' = [pc EXCEPT ![w] = "exit"]
     \/ pc' = [pc EXCEPT ![w] = "take"]
  /\ UNCHANGED <<input, mode, carve, next, done, cur, stop, firstErr, firstPanic,
                 blockCapture, capture, mem, result>>

\* A mutant of NextPiece: a worker numbers its block by its own count.
NextPieceStale(w) == IF cur[w] = 0 THEN 1 ELSE cur[w] + 1

\* The piece the shared iterator moves out next.
NextPiece(w) == next + 1

\* The shared iterator is not exhausted.
HasPiece == next < n

\* Under the iterator's lock: move out the next piece, or leave.  The block
\* gets a panic capture of its own.
Take(w) ==
  /\ pc[w] = "take"
  /\ \/ /\ HasPiece
        /\ next' = next + 1
        /\ cur' = [cur EXCEPT ![w] = NextPiece(w)]
        /\ blockCapture' = [blockCapture EXCEPT ![w] = 0]
        /\ pc' = [pc EXCEPT ![w] = "run"]
     \/ /\ ~ HasPiece
        /\ pc' = [pc EXCEPT ![w] = "exit"]
        /\ UNCHANGED <<next, cur, blockCapture>>
  /\ UNCHANGED <<input, mode, carve, done, stop, firstErr, firstPanic, capture,
                 mem, result>>

\* A mutant of Hook: the workers share the caller's capture, first record wins.
HookShared(w) ==
  /\ capture' = IF capture = 0 THEN cur[w] ELSE capture
  /\ blockCapture' = [blockCapture EXCEPT ![w] = cur[w]]

\* The panic hook, on the worker's thread: record into the active capture.
Hook(w) ==
  /\ blockCapture' = [blockCapture EXCEPT ![w] = cur[w]]
  /\ UNCHANGED capture

\* The closure ends.  A failing one may have written any part of its piece.
Finish(w) ==
  /\ pc[w] = "run"
  /\ \/ /\ verdict[cur[w]] = "ok"
        /\ Write(cur[w], Target(cur[w]))
        /\ done' = done \cup {cur[w]}
        /\ pc' = [pc EXCEPT ![w] = "poll"]
        /\ UNCHANGED <<blockCapture, capture>>
     \/ /\ verdict[cur[w]] # "ok"
        /\ \E W \in SUBSET Target(cur[w]) : Write(cur[w], W)
        /\ pc' = [pc EXCEPT ![w] = "record"]
        /\ IF verdict[cur[w]] = "panic" THEN Hook(w) ELSE UNCHANGED <<blockCapture, capture>>
        /\ UNCHANGED done
  /\ UNCHANGED <<input, mode, carve, next, cur, stop, firstErr, firstPanic, result>>

\* Worker w holds the lock of the slot its failure goes to until it has
\* raised the stop flag.
HoldsSlot(w, kind) == pc[w] = "signal" /\ verdict[cur[w]] = kind

\* `merge_from`: the winning block's details, unless the caller's are set.
Merge(w) ==
  IF blockCapture[w] # 0 /\ capture = 0 THEN blockCapture[w] ELSE capture

\* Lock the slot of the failure's kind; fill it if it is empty.
Record(w) ==
  /\ pc[w] = "record"
  /\ \A v \in Workers : ~ HoldsSlot(v, verdict[cur[w]])
  /\ \/ /\ verdict[cur[w]] = "err"
        /\ firstErr' = IF firstErr = 0 THEN cur[w] ELSE firstErr
        /\ UNCHANGED <<firstPanic, capture>>
     \/ /\ verdict[cur[w]] = "panic"
        /\ firstPanic' = IF firstPanic = 0 THEN cur[w] ELSE firstPanic
        /\ capture' = IF firstPanic = 0 THEN Merge(w) ELSE capture
        /\ UNCHANGED firstErr
  /\ pc' = [pc EXCEPT ![w] = "signal"]
  /\ UNCHANGED <<input, mode, carve, next, done, cur, stop, blockCapture, mem, result>>

\* A mutant of Signal: the worker never leaves its loop.
SignalForever(w) ==
  /\ pc[w] = "signal"
  /\ stop' = TRUE
  /\ pc' = [pc EXCEPT ![w] = "signal"]
  /\ UNCHANGED <<input, mode, carve, next, done, cur, firstErr, firstPanic,
                 blockCapture, capture, mem, result>>

\* Raise the stop flag, release the slot and leave the loop.
Signal(w) ==
  /\ pc[w] = "signal"
  /\ stop' = TRUE
  /\ pc' = [pc EXCEPT ![w] = "exit"]
  /\ UNCHANGED <<input, mode, carve, next, done, cur, firstErr, firstPanic,
                 blockCapture, capture, mem, result>>

-----------------------------------------------------------------------------
Caller    == Enter \/ Dispatch \/ ReturnOk \/ Join
             \/ \E i \in Blocks : CarvePiece(i) \/ RunHere(i)
Worker(w) == Poll(w) \/ Take(w) \/ Finish(w) \/ Record(w) \/ Signal(w)

\* The call has returned.
Returned == mode = "done" /\ UNCHANGED vars

Next == Caller \/ (\E w \in Workers : Worker(w)) \/ Returned

\* The scheduler runs every runnable thread; the closures themselves return.
Fairness == WF_vars(Caller) /\ \A w \in Workers : WF_vars(Worker(w))

Spec == Init /\ [][Next]_vars /\ Fairness

-----------------------------------------------------------------------------
(* Properties.                                                             *)

\* Type correctness of the fan-out's state.
TypeOK ==
  /\ n \in 0 .. MaxBlocks
  /\ spans \in [Blocks -> SpanChoices]
  /\ verdict \in [Blocks -> Verdicts]
  /\ cap \in 1 .. MaxCap
  /\ per \in PerChoices
  /\ mode \in {"entry", "carve", "sequential", "pool", "done"}
  /\ base \in Nat
  /\ carved \subseteq Blocks
  /\ next \in 0 .. n
  /\ done \subseteq Blocks
  /\ pc \in [Workers -> {"poll", "take", "run", "record", "signal", "exit"}]
  /\ cur \in [Workers -> 0 .. n]
  /\ stop \in BOOLEAN
  /\ firstErr \in 0 .. n
  /\ firstPanic \in 0 .. n
  /\ blockCapture \in [Workers -> 0 .. n]
  /\ capture \in 0 .. n
  /\ mem \in [Positions -> 0 .. n]
  /\ result \in [kind : Verdicts \cup {"running"}, block : 0 .. n]

\* The carve never reaches a span that starts before the end of the previous
\* one: accepting the spans and cutting them agree on the order, so `s - base`
\* cannot underflow, empty spans that share a start included.
CarveNeverUnderflows == result # Panic(0)

\* Two blocks that run at the same time write disjoint bytes, and no block
\* runs on two workers: every piece is moved out once and pieces never alias.
ExclusiveWriters ==
  \A v, w \in Workers :
    v # w /\ pc[v] = "run" /\ pc[w] = "run"
      => cur[v] # cur[w] /\ Target(cur[v]) \cap Target(cur[w]) = {}

\* A panic that leaves the call was recorded with its own location: the details
\* in the caller's capture are those of the payload that is re-raised.
PanicCarriesItsLocation ==
  \A i \in Blocks : result = Panic(i) => capture = i

\* Whatever the blocks do, the call returns.
Returns == <>(mode = "done")
=============================================================================
