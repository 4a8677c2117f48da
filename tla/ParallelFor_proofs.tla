-------------------------- MODULE ParallelFor_proofs --------------------------
(***************************************************************************)
(* Proofs about ParallelFor, for every number of blocks and workers, every *)
(* buffer length and every choice of spans and verdicts: its type          *)
(* correctness, its safety invariants, and that each of its steps is a     *)
(* step (or a stutter) of FanOut.                                          *)
(***************************************************************************)
EXTENDS ParallelFor, TLAPS

(***************************************************************************)
(* The inductive invariant, one conjunct per concern.                      *)
(***************************************************************************)

Failed  == firstErr # 0 \/ firstPanic # 0
Busy(w) == pc[w] \in {"run", "record", "signal"}

\* Two spans, seen as half-open intervals, do not overlap.
Apart(i, j) == spans[i].end <= spans[j].start \/ spans[j].end <= spans[i].start

\* What the carve has established: the carved pieces lie before `base`, are
\* pairwise apart and are a prefix of the carving order, and base is the end of
\* the last of them.
CarveInv ==
  /\ mode \in {"carve", "pool"} => InBounds /\ SpansDisjoint
  /\ \A i \in carved : spans[i].end <= base
  /\ \A i, j \in carved : i # j => Apart(i, j)
  /\ \A i \in carved : \A j \in Blocks \ carved : CarveBefore(i, j)
  /\ \/ carved = {} /\ base = 0
     \/ \E l \in carved : /\ base = spans[l].end
                          /\ \A j \in carved : j = l \/ CarveBefore(j, l)
  /\ mode = "pool" => carved = Blocks

\* Who holds which block: each block handed out is done, held by one worker, or
\* a failure has been recorded.
HandOutInv ==
  /\ mode \in {"entry", "carve"} => next = 0 /\ done = {}
  /\ mode = "sequential" => done = 1 .. next
  /\ done \subseteq 1 .. next
  /\ \A i \in done : verdict[i] = "ok"
  /\ \A w \in Workers : pc[w] # "exit" => mode = "pool"
  /\ \A w \in Workers : Busy(w) => cur[w] \in 1 .. next /\ cur[w] \notin done
  /\ \A v, w \in Workers : v # w /\ Busy(v) /\ Busy(w) => cur[v] # cur[w]
  /\ mode = "pool" =>
       \A i \in 1 .. next : \/ i \in done \/ Failed
                            \/ \E w \in Workers : Busy(w) /\ cur[w] = i

\* What has been recorded of failures: the slots hold blocks that failed that
\* way, a raised flag means a slot is full, and the caller's capture holds the
\* details of the panic in first_panic.
FailureInv ==
  /\ \A w \in Workers : pc[w] \in {"record", "signal"} => verdict[cur[w]] # "ok"
  /\ \A w \in Workers : pc[w] = "record" /\ verdict[cur[w]] = "panic"
                          => blockCapture[w] = cur[w]
  /\ \A w \in Workers : pc[w] = "signal" => Failed
  /\ stop => Failed
  /\ mode = "pool" /\ pc[1] = "exit" => next = n \/ Failed
  /\ mode = "pool" => 1 \in Workers
  /\ firstErr # 0 => verdict[firstErr] = "err"
  /\ firstPanic # 0 => verdict[firstPanic] = "panic"
  /\ mode # "done" => capture = firstPanic
  /\ mode # "done" => result = Running

\* What is in the buffer: bytes of the blocks that own them, and over the blocks
\* that are done, of the last one that writes there.
MemInv ==
  \A p \in Positions :
    /\ mem[p] # 0 => p \in Target(mem[p])
    /\ \A i \in done : p \in Target(i) => i <= mem[p]

IInv ==
  /\ TypeOK
  /\ CarveInv
  /\ HandOutInv
  /\ FailureInv
  /\ MemInv
  /\ CarveNeverUnderflows
  /\ PanicCarriesItsLocation

-----------------------------------------------------------------------------
(* Type correctness.                                                       *)

\* A written buffer holds numbers of blocks.
LEMMA WriteType ==
  ASSUME TypeOK, NEW i \in Blocks, NEW W, Write(i, W)
  PROVE  mem' \in [Positions -> 0 .. n]
  BY DEF TypeOK, Write, Blocks

\* The state has its types at the start.
LEMMA InitType == Init => TypeOK
  <1> SUFFICES ASSUME Init PROVE TypeOK
    OBVIOUS
  <1>1. n \in Nat /\ 0 \in 0 .. n
    BY InputAssumption DEF Init
  <1>2. mem \in [Positions -> 0 .. n] /\ result \in [kind : Verdicts \cup {"running"}, block : 0 .. n]
    BY <1>1 DEF Init, FanOutInit, Running
  <1> QED
    BY <1>1, <1>2, InputAssumption DEF Init, TypeOK

\* Every step preserves the types.
LEMMA NextType == TypeOK /\ HandOutInv /\ [Next]_vars => TypeOK'
  <1> SUFFICES ASSUME TypeOK, HandOutInv, [Next]_vars PROVE TypeOK'
    OBVIOUS
  <1> USE InputAssumption
  <1>0. n \in Nat /\ 0 \in 0 .. n
    BY DEF TypeOK
  <1>1. CASE Enter
    BY <1>0, <1>1 DEF Enter, TypeOK, Ok, Verdicts, Blocks, input, carve, pool
  <1>2. ASSUME NEW i \in Blocks, CarvePiece(i) PROVE TypeOK'
    <2>1. base' \in Nat /\ carved' \subseteq Blocks
      BY <1>2 DEF CarvePiece, TypeOK, carve
    <2>2. result' \in [kind : Verdicts \cup {"running"}, block : 0 .. n]
      BY <1>0, <1>2 DEF CarvePiece, TypeOK, Panic, Verdicts
    <2> QED
      BY <1>2, <2>1, <2>2 DEF CarvePiece, TypeOK, Blocks, input, pool
  <1>3. CASE Dispatch
    BY <1>3 DEF Dispatch, TypeOK, Blocks, input, carve, pool
  <1>4. ASSUME NEW i \in Blocks, RunHere(i) PROVE TypeOK'
    <2>1. mem' \in [Positions -> 0 .. n]
      BY <1>4, WriteType DEF RunHere
    <2>2. result' \in [kind : Verdicts \cup {"running"}, block : 0 .. n]
      BY <1>0, <1>4 DEF RunHere, TypeOK, Err, Panic, Verdicts, Blocks
    <2>3. i \in 0 .. n
      BY <1>0 DEF Blocks
    <2>5. capture' \in 0 .. n
      BY <1>4, <2>3 DEF RunHere, TypeOK
    <2>6. done' \subseteq Blocks /\ next' \in 0 .. n
      BY <1>4, <2>3 DEF RunHere, TypeOK
    <2>4. mode' \in {mode, "done"}
      BY <1>4 DEF RunHere
    <2> QED
      BY <1>4, <2>1, <2>2, <2>4, <2>5, <2>6 DEF RunHere, TypeOK, Blocks, input, carve, pool
  <1>5. CASE ReturnOk
    BY <1>0, <1>5 DEF ReturnOk, TypeOK, Ok, Verdicts, Blocks, input, carve, pool
  <1>6. CASE Join
    BY <1>0, <1>6 DEF Join, Outcome, TypeOK, Ok, Err, Panic, Verdicts, Blocks, input, carve, pool
  <1>7. ASSUME NEW w \in Workers, Poll(w) PROVE TypeOK'
    BY <1>7 DEF Poll, TypeOK, Blocks, input, carve, pool
  <1>8. ASSUME NEW w \in Workers, Take(w) PROVE TypeOK'
    <2>1. next' \in 0 .. n /\ cur' \in [Workers -> 0 .. n]
      BY <1>0, <1>8 DEF Take, HasPiece, NextPiece, TypeOK
    <2>2. blockCapture' \in [Workers -> 0 .. n]
      BY <1>0, <1>8 DEF Take, TypeOK
    <2> QED
      BY <1>8, <2>1, <2>2 DEF Take, TypeOK, Blocks, input, carve
  <1>9. ASSUME NEW w \in Workers, Finish(w) PROVE TypeOK'
    <2>0. cur[w] \in Blocks
      BY <1>0, <1>9 DEF Finish, HandOutInv, Busy, TypeOK, Blocks
    <2>1. mem' \in [Positions -> 0 .. n]
      BY <1>9, <2>0, WriteType DEF Finish
    <2>2. /\ done' \subseteq Blocks
          /\ pc' \in [Workers -> {"poll", "take", "run", "record", "signal", "exit"}]
          /\ UNCHANGED <<input, mode, carve, next, cur, stop, firstErr, firstPanic, result>>
      BY <1>0, <1>9, <2>0 DEF Finish, TypeOK
    <2>3. blockCapture' \in [Workers -> 0 .. n] /\ UNCHANGED capture
      <3>1. cur[w] \in 0 .. n /\ blockCapture \in [Workers -> 0 .. n]
        BY <1>0, <2>0 DEF Blocks, TypeOK
      <3>2. Hook(w) \/ UNCHANGED <<blockCapture, capture>>
        BY <1>9 DEF Finish
      <3> QED BY <3>1, <3>2 DEF Hook
    <2>4. n' = n /\ Blocks' = Blocks
      BY <2>2 DEF Blocks, input
    <2>5. /\ spans' \in [Blocks -> SpanChoices] /\ verdict' \in [Blocks -> Verdicts]
          /\ n' \in 0 .. MaxBlocks /\ cap' \in 1 .. MaxCap /\ per' \in PerChoices
      BY <2>2 DEF TypeOK, input
    <2>6. /\ mode' \in {"entry", "carve", "sequential", "pool", "done"}
          /\ base' \in Nat /\ carved' \subseteq Blocks /\ next' \in 0 .. n
          /\ cur' \in [Workers -> 0 .. n] /\ stop' \in BOOLEAN
      BY <2>2 DEF TypeOK, carve
    <2>7. /\ firstErr' \in 0 .. n /\ firstPanic' \in 0 .. n /\ capture' \in 0 .. n
          /\ result' \in [kind : Verdicts \cup {"running"}, block : 0 .. n]
      BY <2>2, <2>3 DEF TypeOK
    <2> QED
      BY <2>1, <2>2, <2>3, <2>4, <2>5, <2>6, <2>7 DEF TypeOK
  <1>10. ASSUME NEW w \in Workers, Record(w) PROVE TypeOK'
    <2>1. /\ cur[w] \in 0 .. n /\ blockCapture[w] \in 0 .. n
          /\ firstErr \in 0 .. n /\ firstPanic \in 0 .. n /\ capture \in 0 .. n
      BY DEF TypeOK
    <2>2. firstErr' \in 0 .. n /\ firstPanic' \in 0 .. n /\ capture' \in 0 .. n
      BY <1>10, <2>1 DEF Record, Merge
    <2>3. /\ pc' = [pc EXCEPT ![w] = "signal"]
          /\ UNCHANGED <<input, mode, carve, next, done, cur, stop, blockCapture, mem, result>>
      BY <1>10 DEF Record
    <2> QED
      BY <2>2, <2>3 DEF TypeOK, Blocks, input, carve
  <1>11. ASSUME NEW w \in Workers, Signal(w) PROVE TypeOK'
    BY <1>11 DEF Signal, TypeOK, Blocks, input, carve, pool
  <1>12. CASE UNCHANGED vars
    BY <1>12 DEF vars, TypeOK, Blocks, input, carve, pool
  <1> QED
    BY <1>1, <1>2, <1>3, <1>4, <1>5, <1>6, <1>7, <1>8, <1>9, <1>10, <1>11, <1>12
    DEF Next, Caller, Worker, Returned

-----------------------------------------------------------------------------
(* The carve.                                                              *)

\* The sorted order is a strict total order on the blocks.
LEMMA OrderIsStrict ==
  ASSUME TypeOK
  PROVE  /\ \A i \in Blocks : ~ SortedBefore(i, i)
         /\ \A i, j \in Blocks : SortedBefore(i, j) => ~ SortedBefore(j, i)
         /\ \A i, j \in Blocks : i # j => SortedBefore(i, j) \/ SortedBefore(j, i)
  <1>1. \A i \in Blocks : spans[i] \in [start : Nat, end : Nat] /\ i \in Nat
    BY InputAssumption DEF TypeOK, Blocks
  <1>2. \A i, j \in Blocks :
          spans[i].start = spans[j].start /\ spans[i].end = spans[j].end
            => spans[i] = spans[j]
    BY <1>1
  <1> QED
    BY <1>1, <1>2 DEF SortedBefore

\* The next span in carving order never starts before the last piece ends.
LEMMA CarveAdvances ==
  ASSUME TypeOK, CarveInv, mode = "carve",
         NEW i \in Blocks, i \notin carved,
         \A j \in Blocks \ carved : j = i \/ CarveBefore(i, j)
  PROVE  base <= spans[i].start
  <1>1. spans[i].start \in Nat
    BY InputAssumption DEF TypeOK
  <1>2. CASE carved = {} /\ base = 0
    BY <1>1, <1>2
  <1>3. ASSUME NEW l \in carved, base = spans[l].end,
               \A j \in carved : j = l \/ CarveBefore(j, l)
        PROVE  base <= spans[i].start
    <2>1. l \in Blocks
      BY DEF TypeOK
    <2>2. SortedBefore(l, i)
      BY <1>3 DEF CarveInv, CarveBefore
    <2>3. ASSUME NEW k \in Blocks, SortedBefore(l, k), SortedBefore(k, i) PROVE FALSE
      <3>1. CASE k \in carved
        BY <1>3, <2>1, <2>3, <3>1, OrderIsStrict DEF CarveBefore
      <3>2. CASE k \notin carved
        BY <2>3, <3>2, OrderIsStrict DEF CarveBefore
      <3> QED
        BY <3>1, <3>2
    <2> QED
      BY <1>3, <2>1, <2>2, <2>3 DEF CarveInv, SpansDisjoint
  <1> QED
    BY <1>2, <1>3 DEF CarveInv

\* Cutting one more piece keeps the carve's invariant.
LEMMA CarveKeeps ==
  ASSUME TypeOK, CarveInv, NEW i \in Blocks, CarvePiece(i)
  PROVE  CarveInv'
  <1> USE DEF Blocks
  <1>1. /\ base <= spans[i].start
        /\ base' = spans[i].end /\ carved' = carved \cup {i}
        /\ UNCHANGED <<mode, n, spans>>
    <2>1. base <= spans[i].start
      BY CarveAdvances DEF CarvePiece
    <2>2. base \in Nat /\ spans[i].start \in Nat
      BY InputAssumption DEF TypeOK
    <2> QED
      BY <2>1, <2>2 DEF CarvePiece, input
  <1>2. \A j \in Blocks : spans[j].start \in Nat /\ spans[j].end \in Nat
    BY InputAssumption DEF TypeOK
  <1>3. spans[i].start <= spans[i].end /\ base \in Nat /\ carved \subseteq Blocks
    BY DEF CarveInv, CarvePiece, InBounds, TypeOK
  <1>4. (mode \in {"carve", "pool"} => InBounds /\ SpansDisjoint)'
    BY <1>1 DEF CarveInv, InBounds, SpansDisjoint, SortedBefore
  <1>5. \A j \in carved' : spans[j].end <= base'
    BY <1>1, <1>2, <1>3 DEF CarveInv
  <1>6. \A j, k \in carved' : j # k => Apart(j, k)
    BY <1>1, <1>2, <1>3 DEF CarveInv, Apart
  <1>7. \A j \in carved' : \A k \in Blocks \ carved' : CarveBefore(j, k)
    BY <1>1 DEF CarveInv, CarvePiece
  <1>8. \E l \in carved' : /\ base' = spans[l].end
                           /\ \A j \in carved' : j = l \/ CarveBefore(j, l)
    BY <1>1 DEF CarveInv, CarvePiece
  <1>9. mode' # "pool"
    BY <1>1 DEF CarvePiece
  <1> QED
    BY <1>1, <1>4, <1>5, <1>6, <1>7, <1>8, <1>9
    DEF CarveInv, Apart, CarveBefore, SortedBefore

\* The carve's invariant is preserved by every step.
LEMMA NextCarve == TypeOK /\ CarveInv /\ [Next]_vars => CarveInv'
  <1> SUFFICES ASSUME TypeOK, CarveInv, [Next]_vars PROVE CarveInv'
    OBVIOUS
  <1>1. ASSUME NEW i \in Blocks, CarvePiece(i) PROVE CarveInv'
    BY <1>1, CarveKeeps
  <1>2. ASSUME UNCHANGED <<n, spans, base, carved>>,
               mode' \in {mode, "sequential", "done"}
                 \/ (mode' = "carve" /\ InBounds /\ SpansDisjoint)
                 \/ (mode' = "pool" /\ mode = "carve" /\ carved = Blocks)
        PROVE  CarveInv'
    BY <1>2 DEF CarveInv, InBounds, SpansDisjoint, SortedBefore, CarveBefore, Apart, Blocks
  <1>3. CASE Enter
    BY <1>2, <1>3 DEF Enter, input, carve
  <1>4. CASE Dispatch
    BY <1>2, <1>4 DEF Dispatch, input, carve
  <1>5. ASSUME NEW i \in Blocks, RunHere(i) PROVE CarveInv'
    BY <1>2, <1>5 DEF RunHere, input, carve
  <1>6. CASE ReturnOk \/ Join
    BY <1>2, <1>6 DEF ReturnOk, Join, input, carve
  <1>7. ASSUME NEW w \in Workers, Worker(w) PROVE CarveInv'
    BY <1>2, <1>7 DEF Worker, Poll, Take, Finish, Record, Signal, input, carve
  <1>8. CASE UNCHANGED vars
    BY <1>2, <1>8 DEF vars, input, carve
  <1> QED
    BY <1>1, <1>3, <1>4, <1>5, <1>6, <1>7, <1>8 DEF Next, Caller, Returned

\* A worker that runs a block shares no byte with any other block's piece.
LEMMA PoolPiecesApart ==
  ASSUME TypeOK, CarveInv, mode = "pool",
         NEW i \in Blocks, NEW j \in Blocks, i # j
  PROVE  Target(i) \cap Target(j) = {}
  <1>1. Apart(i, j)
    BY DEF CarveInv
  <1>2. /\ spans[i].start \in Nat /\ spans[i].end \in Nat
        /\ spans[j].start \in Nat /\ spans[j].end \in Nat
    BY InputAssumption DEF TypeOK
  <1>3. \A p \in Positions : p \in Int
    BY InputAssumption DEF Positions
  <1> QED
    BY <1>1, <1>2, <1>3 DEF Apart, Target

-----------------------------------------------------------------------------
(* Handing out blocks.                                                     *)

\* Taking a block keeps the blocks with their one holder: the block taken is
\* next + 1, which nobody has held.
LEMMA TakeKeepsHandOut ==
  ASSUME TypeOK, HandOutInv, NEW w \in Workers, Take(w)
  PROVE  HandOutInv'
  <1>0. next \in Nat /\ n \in Nat /\ mode = "pool" /\ mode' = "pool"
    BY DEF TypeOK, HandOutInv, Take
  <1>1. CASE HasPiece
    <2>1. /\ next' = next + 1 /\ cur' = [cur EXCEPT ![w] = next + 1]
          /\ pc' = [pc EXCEPT ![w] = "run"]
          /\ UNCHANGED <<done, verdict, firstErr, firstPanic>>
      BY <1>1 DEF Take, NextPiece, input
    <2>2. cur'[w] = next + 1 /\ Busy(w)' /\ ~ Busy(w)
      BY <2>1 DEF TypeOK, Busy, Take
    <2>3. \A v \in Workers \ {w} : cur'[v] = cur[v] /\ pc'[v] = pc[v] /\ (Busy(v)' <=> Busy(v))
      BY <2>1 DEF TypeOK, Busy
    <2>4. done' \subseteq 1 .. next'
      BY <1>0, <2>1 DEF HandOutInv
    <2>5. \A v \in Workers : Busy(v)' => cur'[v] \in 1 .. next' /\ cur'[v] \notin done'
      BY <1>0, <2>1, <2>2, <2>3 DEF HandOutInv
    <2>6. \A u, v \in Workers : u # v /\ Busy(u)' /\ Busy(v)' => cur'[u] # cur'[v]
      BY <1>0, <2>2, <2>3 DEF HandOutInv
    <2>7. \A i \in 1 .. next' : i = next + 1 \/ i \in 1 .. next
      BY <1>0, <2>1
    <2>8. \A i \in 1 .. next' : \/ i \in done' \/ Failed'
                                \/ \E v \in Workers : Busy(v)' /\ cur'[v] = i
      BY <1>0, <2>1, <2>2, <2>3, <2>7 DEF HandOutInv, Failed
    <2> QED
      BY <1>0, <2>1, <2>4, <2>5, <2>6, <2>8 DEF HandOutInv
  <1>2. CASE ~ HasPiece
    <2>1. pc' = [pc EXCEPT ![w] = "exit"]
          /\ UNCHANGED <<next, cur, done, verdict, firstErr, firstPanic>>
      BY <1>2 DEF Take, input
    <2>2. \A v \in Workers : Busy(v)' <=> Busy(v)
      BY <2>1 DEF TypeOK, Busy, Take
    <2> QED
      BY <1>0, <2>1, <2>2 DEF HandOutInv, Failed
  <1> QED
    BY <1>1, <1>2

\* Finishing a block moves it from its holder to the blocks that are done, or
\* leaves it with its holder, who goes on to record the failure.
LEMMA FinishKeepsHandOut ==
  ASSUME TypeOK, HandOutInv, NEW w \in Workers, Finish(w)
  PROVE  HandOutInv'
  <1>0. mode = "pool" /\ Busy(w) /\ cur[w] \in 1 .. next
    BY DEF HandOutInv, Finish, Busy
  <1>1. UNCHANGED <<mode, next, cur, verdict, firstErr, firstPanic>>
    BY DEF Finish, input
  <1>2. CASE verdict[cur[w]] = "ok"
    <2>1. done' = done \cup {cur[w]} /\ pc' = [pc EXCEPT ![w] = "poll"]
      BY <1>2 DEF Finish
    <2>2. ~ Busy(w)' /\ \A v \in Workers \ {w} : Busy(v)' <=> Busy(v)
      BY <2>1 DEF TypeOK, Busy
    <2>3. \A v \in Workers : Busy(v)' => Busy(v) /\ v # w
      BY <2>2
    <2>4. \A i \in 1 .. next' : \/ i \in done' \/ Failed'
                                \/ \E v \in Workers : Busy(v)' /\ cur'[v] = i
      BY <1>0, <1>1, <2>1, <2>2 DEF HandOutInv, Failed
    <2>5. \A v \in Workers : Busy(v)' => cur'[v] \in 1 .. next' /\ cur'[v] \notin done'
      BY <1>0, <1>1, <2>1, <2>3 DEF HandOutInv
    <2> QED
      BY <1>0, <1>1, <1>2, <2>1, <2>3, <2>4, <2>5 DEF HandOutInv
  <1>3. CASE verdict[cur[w]] # "ok"
    <2>1. UNCHANGED done /\ pc' = [pc EXCEPT ![w] = "record"]
      BY <1>3 DEF Finish
    <2>2. \A v \in Workers : Busy(v)' <=> Busy(v)
      BY <2>1 DEF TypeOK, Busy, Finish
    <2> QED
      BY <1>0, <1>1, <2>1, <2>2 DEF HandOutInv, Failed
  <1> QED
    BY <1>2, <1>3

\* Every step preserves who holds which block.
LEMMA NextHandOut == TypeOK /\ HandOutInv /\ FailureInv /\ [Next]_vars => HandOutInv'
  <1> SUFFICES ASSUME TypeOK, HandOutInv, FailureInv, [Next]_vars PROVE HandOutInv'
    OBVIOUS
  <1>1. CASE Enter
    BY <1>1 DEF Enter, HandOutInv, Failed, Busy, input, pool
  <1>2. ASSUME NEW i \in Blocks, CarvePiece(i) PROVE HandOutInv'
    BY <1>2 DEF CarvePiece, HandOutInv, Failed, Busy, input, pool
  <1>3. CASE Dispatch
    <2>1. next = 0 /\ done = {} /\ UNCHANGED <<next, done, verdict>>
      BY <1>3 DEF Dispatch, HandOutInv, input
    <2>2. \A w \in Workers : ~ Busy(w)'
      BY <1>3 DEF Dispatch, HandOutInv, Busy, pool
    <2>3. \A w \in Workers : pc'[w] # "exit" => mode' = "pool"
      BY <1>3 DEF Dispatch, HandOutInv, pool
    <2>4. 1 .. next' = {} /\ mode' \in {"sequential", "pool"}
      BY <1>3, <2>1 DEF Dispatch
    <2> QED
      BY <2>1, <2>2, <2>3, <2>4 DEF HandOutInv
  <1>4. ASSUME NEW i \in Blocks, RunHere(i) PROVE HandOutInv'
    <2>1. next \in Nat /\ next' = next + 1 /\ i = next + 1 /\ done = 1 .. next
      BY <1>4 DEF RunHere, TypeOK, HandOutInv
    <2>2. done' = done \/ (done' = done \cup {i} /\ verdict[i] = "ok")
      BY <1>4 DEF RunHere
    <2>3. mode' = "sequential" => done' = done \cup {i}
      BY <1>4 DEF RunHere, TypeOK
    <2>7. (1 .. next) \cup {next + 1} = 1 .. next + 1
      BY <2>1
    <2>4. done' \subseteq 1 .. next' /\ (mode' = "sequential" => done' = 1 .. next')
      BY <2>1, <2>2, <2>3, <2>7
    <2>5. mode' \in {"sequential", "done"} /\ UNCHANGED <<verdict, pc>>
      BY <1>4 DEF RunHere, input, pool
    <2>6. \A w \in Workers : pc'[w] = "exit" /\ ~ Busy(w)'
      BY <1>4, <2>5 DEF RunHere, HandOutInv, Busy
    <2> QED
      BY <2>2, <2>4, <2>5, <2>6 DEF HandOutInv
  <1>5. CASE ReturnOk
    BY <1>5 DEF ReturnOk, HandOutInv, Failed, Busy, input, pool
  <1>6. CASE Join
    <2>1. \A w \in Workers : pc'[w] = "exit" /\ ~ Busy(w)'
      BY <1>6 DEF Join, Busy, pool
    <2> QED
      BY <1>6, <2>1 DEF Join, HandOutInv, input
  <1>7. ASSUME NEW w \in Workers, Poll(w) PROVE HandOutInv'
    <2>1. \A v \in Workers : (Busy(v)' <=> Busy(v)) /\ (pc'[v] # "exit" => pc[v] # "exit")
      BY <1>7 DEF Poll, TypeOK, Busy
    <2> QED
      BY <1>7, <2>1 DEF Poll, HandOutInv, Failed, input
  <1>8. ASSUME NEW w \in Workers, Take(w) PROVE HandOutInv'
    BY <1>8, TakeKeepsHandOut
  <1>9. ASSUME NEW w \in Workers, Finish(w) PROVE HandOutInv'
    BY <1>9, FinishKeepsHandOut
  <1>10. ASSUME NEW w \in Workers, Record(w) PROVE HandOutInv'
    <2>1. \A v \in Workers : (Busy(v)' <=> Busy(v)) /\ (pc'[v] # "exit" => pc[v] # "exit")
      BY <1>10 DEF Record, TypeOK, Busy
    <2>2. Failed'
      BY <1>10 DEF Record, Failed, HandOutInv, Busy
    <2> QED
      BY <1>10, <2>1, <2>2 DEF Record, HandOutInv, input
  <1>11. ASSUME NEW w \in Workers, Signal(w) PROVE HandOutInv'
    <2>1. \A v \in Workers : (Busy(v)' => Busy(v)) /\ (pc'[v] # "exit" => pc[v] # "exit")
      BY <1>11 DEF Signal, TypeOK, Busy
    <2>2. Failed'
      BY <1>11 DEF Signal, Failed, FailureInv
    <2> QED
      BY <1>11, <2>1, <2>2 DEF Signal, HandOutInv, input
  <1>12. CASE UNCHANGED vars
    BY <1>12 DEF vars, HandOutInv, Failed, Busy, input, pool
  <1> QED
    BY <1>1, <1>2, <1>3, <1>4, <1>5, <1>6, <1>7, <1>8, <1>9, <1>10, <1>11, <1>12
    DEF Next, Caller, Worker, Returned

-----------------------------------------------------------------------------
(* Failures.                                                               *)

\* Recording a failure fills the slot of its kind with a block that failed that
\* way, and pairs the winning panic with its own captured details.
LEMMA RecordKeepsFailure ==
  ASSUME TypeOK, HandOutInv, FailureInv, NEW w \in Workers, Record(w)
  PROVE  FailureInv'
  <1>0. mode = "pool" /\ cur[w] \in Blocks /\ cur[w] # 0 /\ verdict[cur[w]] # "ok"
    BY DEF HandOutInv, FailureInv, Record, Busy, TypeOK, Blocks
  <1>1. UNCHANGED <<mode, next, n, cur, verdict, stop, blockCapture, result>>
        /\ pc' = [pc EXCEPT ![w] = "signal"]
    BY DEF Record, input
  <1>2. pc'[w] = "signal" /\ pc[w] = "record" /\ \A v \in Workers \ {w} : pc'[v] = pc[v]
    BY <1>1 DEF TypeOK, Record
  <1>3. Failed'
    BY <1>0 DEF Record, Failed
  <1>4. firstErr' # 0 => verdict'[firstErr'] = "err"
    BY <1>1 DEF Record, FailureInv
  <1>5. firstPanic' # 0 => verdict'[firstPanic'] = "panic"
    BY <1>1 DEF Record, FailureInv
  <1>6. capture' = firstPanic'
    BY <1>0, <1>2 DEF Record, Merge, FailureInv
  <1> QED
    BY <1>0, <1>1, <1>2, <1>3, <1>4, <1>5, <1>6 DEF FailureInv

\* Every step preserves what is recorded of failures.
LEMMA NextFailure == TypeOK /\ HandOutInv /\ FailureInv /\ [Next]_vars => FailureInv'
  <1> SUFFICES ASSUME TypeOK, HandOutInv, FailureInv, [Next]_vars PROVE FailureInv'
    OBVIOUS
  <1>1. CASE Enter
    BY <1>1 DEF Enter, FailureInv, Failed, input, pool
  <1>2. ASSUME NEW i \in Blocks, CarvePiece(i) PROVE FailureInv'
    BY <1>2 DEF CarvePiece, FailureInv, Failed, input, pool
  <1>3. CASE Dispatch
    <2>1. \A w \in Workers : pc[w] = "exit" /\ pc'[w] \in {"poll", "exit"}
      BY <1>3 DEF Dispatch, HandOutInv, pool
    <2>2. mode' = "pool" => 1 \in Workers /\ pc'[1] = "poll"
      <3>1. cap \in Nat /\ n \in Nat /\ per \in Nat
        BY InputAssumption DEF TypeOK
      <3>2. cap \in 1 .. MaxCap => 1 \in Workers
        BY InputAssumption DEF Workers
      <3>3. mode' = "pool" => WorkerCount > 1
                /\ pc' = [w \in Workers |-> IF w <= WorkerCount THEN "poll" ELSE "exit"]
        BY <1>3 DEF Dispatch
      <3>4. WorkerCount > 1 => 1 <= WorkerCount
        <4>1. WorkerCount \in Int
          BY <3>1 DEF WorkerCount
        <4> QED
          BY <4>1
      <3> QED
        BY <3>2, <3>3, <3>4 DEF TypeOK
    <2> QED
      BY <1>3, <2>1, <2>2 DEF Dispatch, FailureInv, Failed, input
  <1>4. ASSUME NEW i \in Blocks, RunHere(i) PROVE FailureInv'
    <2>1. \A w \in Workers : pc'[w] = "exit"
      BY <1>4 DEF RunHere, HandOutInv, pool
    <2> QED
      BY <1>4, <2>1 DEF RunHere, FailureInv, Failed, input, pool
  <1>5. CASE ReturnOk
    BY <1>5 DEF ReturnOk, FailureInv, Failed, input, pool
  <1>6. CASE Join
    BY <1>6 DEF Join, FailureInv, Failed, input, pool
  <1>7. ASSUME NEW w \in Workers, Poll(w) PROVE FailureInv'
    <2>1. pc'[w] \in {"exit", "take"} /\ \A v \in Workers \ {w} : pc'[v] = pc[v]
      BY <1>7 DEF Poll, TypeOK
    <2>2. pc'[w] = "exit" => Failed
      BY <1>7 DEF Poll, TypeOK, FailureInv
    <2> QED
      BY <1>7, <2>1, <2>2 DEF Poll, FailureInv, Failed, input
  <1>8. ASSUME NEW w \in Workers, Take(w) PROVE FailureInv'
    <2>1. pc'[w] \in {"exit", "run"} /\ \A v \in Workers \ {w} : pc'[v] = pc[v]
                                      /\ cur'[v] = cur[v] /\ blockCapture'[v] = blockCapture[v]
      BY <1>8 DEF Take, TypeOK
    <2>2. pc'[w] = "exit" => next' = n'
      BY <1>8 DEF Take, TypeOK, HasPiece, input
    <2>3. mode = "pool" /\ (mode' = "pool" /\ pc'[1] = "exit" => next' = n' \/ Failed')
      <3>1. mode = "pool" /\ mode' = "pool" /\ pc[w] = "take"
        BY <1>8 DEF Take, HandOutInv
      <3>2. CASE w = 1
        BY <3>1, <3>2, <2>2
      <3>3. CASE w # 1 /\ pc[1] = "exit"
        BY <1>8, <3>1, <3>3 DEF Take, FailureInv, Failed, HasPiece, TypeOK, input
      <3> QED
        BY <2>1, <3>1, <3>2, <3>3 DEF FailureInv
    <2> QED
      BY <1>8, <2>1, <2>3 DEF Take, FailureInv, Failed, input
  <1>9. ASSUME NEW w \in Workers, Finish(w) PROVE FailureInv'
    <2>1. /\ pc'[w] \in {"poll", "record"}
          /\ pc'[w] = "record" => verdict[cur[w]] # "ok"
          /\ \A v \in Workers \ {w} : pc'[v] = pc[v] /\ blockCapture'[v] = blockCapture[v]
      BY <1>9 DEF Finish, Hook, TypeOK
    <2>2. pc'[w] = "record" /\ verdict[cur[w]] = "panic" => blockCapture'[w] = cur[w]
      BY <1>9 DEF Finish, Hook, TypeOK
    <2>3. UNCHANGED <<mode, next, n, cur, verdict, stop, firstErr, firstPanic, capture, result>>
      BY <1>9 DEF Finish, Hook, input
    <2> QED
      BY <2>1, <2>2, <2>3 DEF FailureInv, Failed
  <1>10. ASSUME NEW w \in Workers, Record(w) PROVE FailureInv'
    BY <1>10, RecordKeepsFailure
  <1>11. ASSUME NEW w \in Workers, Signal(w) PROVE FailureInv'
    <2>1. pc'[w] = "exit" /\ pc[w] = "signal" /\ \A v \in Workers \ {w} : pc'[v] = pc[v]
      BY <1>11 DEF Signal, TypeOK
    <2> QED
      BY <1>11, <2>1 DEF Signal, FailureInv, Failed, input
  <1>12. CASE UNCHANGED vars
    BY <1>12 DEF vars, FailureInv, Failed, input, pool
  <1> QED
    BY <1>1, <1>2, <1>3, <1>4, <1>5, <1>6, <1>7, <1>8, <1>9, <1>10, <1>11, <1>12
    DEF Next, Caller, Worker, Returned

-----------------------------------------------------------------------------
(* The buffer.                                                             *)

\* Writing bytes of a block that comes last, or whose piece is its own, keeps
\* the invariant of the buffer.
LEMMA WriteKeepsMem ==
  ASSUME TypeOK, MemInv, UNCHANGED <<n, spans>>,
         NEW b \in Blocks, NEW W \in SUBSET Target(b), Write(b, W),
         done' = done \/ (done' = done \cup {b} /\ W = Target(b)),
         \A i \in done : i <= b \/ Target(i) \cap Target(b) = {}
  PROVE  MemInv'
  <1>1. \A p \in Positions : mem'[p] = IF p \in W THEN b ELSE mem[p]
    BY DEF Write
  <1>2. \A i \in Blocks : Target(i)' = Target(i)
    BY DEF Target, Positions
  <1>3. \A p \in Positions : mem[p] \in 0 .. n
    BY DEF TypeOK
  <1>4. b \in 1 .. n /\ b # 0 /\ n \in Nat
    BY DEF Blocks, TypeOK
  <1> SUFFICES ASSUME NEW p \in Positions
               PROVE  /\ (mem[p] # 0 => p \in Target(mem[p]))'
                      /\ \A i \in done' : p \in Target(i)' => i <= mem'[p]
    BY DEF MemInv, Positions
  <1>5. (mem[p] # 0 => p \in Target(mem[p]))'
    BY <1>1, <1>4 DEF MemInv, Target, Positions
  <1>6. ASSUME NEW i \in done', p \in Target(i)' PROVE i <= mem'[p]
    <2>1. i \in Blocks /\ p \in Target(i)
      BY <1>2, <1>6 DEF TypeOK
    <2>2. CASE i = b
      BY <1>1, <1>4, <1>6, <2>1, <2>2 DEF MemInv
    <2>3. CASE i # b
      BY <1>1, <1>4, <1>6, <2>1, <2>3 DEF MemInv
    <2> QED
      BY <2>2, <2>3
  <1> QED
    BY <1>5, <1>6

\* Every step preserves the invariant of the buffer.
LEMMA NextMem == TypeOK /\ CarveInv /\ HandOutInv /\ MemInv /\ [Next]_vars => MemInv'
  <1> SUFFICES ASSUME TypeOK, CarveInv, HandOutInv, MemInv, [Next]_vars PROVE MemInv'
    OBVIOUS
  <1>1. CASE UNCHANGED <<n, spans, mem, done>>
    BY <1>1 DEF MemInv, Target, Positions
  <1>2. ASSUME NEW i \in Blocks, RunHere(i) PROVE MemInv'
    <2>1. \A j \in done : j <= i
      BY <1>2 DEF RunHere, HandOutInv, TypeOK
    <2>2. UNCHANGED <<n, spans>>
      BY <1>2 DEF RunHere, input
    <2>3. CASE verdict[i] = "ok"
      <3>1. Write(i, Target(i)) /\ done' = done \cup {i}
        BY <1>2, <2>3 DEF RunHere
      <3> QED
        BY <2>1, <2>2, <3>1, WriteKeepsMem
    <2>4. CASE verdict[i] # "ok"
      <3>1. PICK W \in SUBSET Target(i) : Write(i, W)
        BY <1>2, <2>4 DEF RunHere
      <3>2. done' = done
        BY <1>2, <2>4 DEF RunHere
      <3> QED
        BY <2>1, <2>2, <3>1, <3>2, WriteKeepsMem
    <2> QED
      BY <2>3, <2>4
  <1>3. ASSUME NEW w \in Workers, Finish(w) PROVE MemInv'
    <2>0. mode = "pool" /\ cur[w] \in Blocks /\ cur[w] \notin done
      BY <1>3 DEF Finish, HandOutInv, Busy, TypeOK, Blocks
    <2>1. \A j \in done : Target(j) \cap Target(cur[w]) = {}
      BY <2>0, PoolPiecesApart DEF TypeOK
    <2>2. UNCHANGED <<n, spans>>
      BY <1>3 DEF Finish, input
    <2>3. CASE verdict[cur[w]] = "ok"
      <3>1. Write(cur[w], Target(cur[w])) /\ done' = done \cup {cur[w]}
        BY <1>3, <2>3 DEF Finish
      <3> QED
        BY <2>0, <2>1, <2>2, <3>1, WriteKeepsMem
    <2>4. CASE verdict[cur[w]] # "ok"
      <3>1. PICK W \in SUBSET Target(cur[w]) : Write(cur[w], W)
        BY <1>3, <2>4 DEF Finish
      <3>2. done' = done
        BY <1>3, <2>4 DEF Finish
      <3> QED
        BY <2>0, <2>1, <2>2, <3>1, <3>2, WriteKeepsMem
    <2> QED
      BY <2>3, <2>4
  <1>4. ASSUME NEW w \in Workers, Worker(w), ~ Finish(w) PROVE MemInv'
    BY <1>1, <1>4 DEF Worker, Poll, Take, Record, Signal, input
  <1>5. ASSUME NEW i \in Blocks, CarvePiece(i) PROVE MemInv'
    BY <1>1, <1>5 DEF CarvePiece, input
  <1>6. CASE Enter \/ Dispatch \/ ReturnOk \/ Join
    BY <1>1, <1>6 DEF Enter, Dispatch, ReturnOk, Join, input
  <1>7. CASE UNCHANGED vars
    BY <1>1, <1>7 DEF vars, input
  <1> QED
    BY <1>2, <1>3, <1>4, <1>5, <1>6, <1>7 DEF Next, Caller, Returned

-----------------------------------------------------------------------------
(* The inductive invariant.                                                *)

\* The initial states satisfy the inductive invariant.
LEMMA InitInv == Init => IInv
  <1> SUFFICES ASSUME Init PROVE IInv
    OBVIOUS
  <1>1. TypeOK
    BY InitType
  <1>2. CarveInv
    BY DEF Init, CarveInv
  <1>7. mode = "entry" /\ next = 0 /\ done = {} /\ \A w \in Workers : pc[w] = "exit"
    BY DEF Init
  <1>3. HandOutInv
    BY <1>7 DEF HandOutInv, Busy
  <1>4. FailureInv
    <2>1. /\ stop = FALSE /\ firstErr = 0 /\ firstPanic = 0 /\ capture = 0
          /\ result = Running
      BY DEF Init, FanOutInit
    <2> QED
      BY <1>7, <2>1 DEF FailureInv
  <1>5. MemInv
    BY DEF Init, FanOutInit, MemInv
  <1>6. CarveNeverUnderflows /\ PanicCarriesItsLocation
    BY DEF Init, FanOutInit, CarveNeverUnderflows, PanicCarriesItsLocation, Panic, Running
  <1> QED
    BY <1>1, <1>2, <1>3, <1>4, <1>5, <1>6 DEF IInv

\* What the call returns: never the carve's own panic, and no block's panic
\* without the details captured for that block.
LEMMA NextResult == IInv /\ [Next]_vars => (CarveNeverUnderflows /\ PanicCarriesItsLocation)'
  <1> SUFFICES ASSUME IInv, [Next]_vars
               PROVE  (CarveNeverUnderflows /\ PanicCarriesItsLocation)'
    OBVIOUS
  <1> USE DEF IInv, CarveNeverUnderflows, PanicCarriesItsLocation
  <1>1. CASE UNCHANGED <<n, result, capture>>
    BY <1>1 DEF Blocks
  <1>2. CASE result' \in {Running, Ok} /\ UNCHANGED n
    BY <1>2 DEF Running, Ok, Panic
  <1>3. ASSUME NEW i \in Blocks, CarvePiece(i) PROVE (CarveNeverUnderflows /\ PanicCarriesItsLocation)'
    <2>1. base <= spans[i].start
      BY <1>3, CarveAdvances DEF CarvePiece
    <2>2. base \in Nat /\ spans[i].start \in Nat
      BY InputAssumption DEF TypeOK
    <2> QED
      BY <1>1, <1>3, <2>1, <2>2 DEF CarvePiece, input
  <1>4. ASSUME NEW i \in Blocks, RunHere(i) PROVE (CarveNeverUnderflows /\ PanicCarriesItsLocation)'
    <2>1. \/ UNCHANGED result /\ result = Running
          \/ verdict[i] = "err" /\ result' = Err(i)
          \/ verdict[i] = "panic" /\ result' = Panic(i) /\ capture' = i
      BY <1>4 DEF RunHere, FailureInv, TypeOK, Verdicts
    <2>2. i # 0 /\ UNCHANGED n
      BY <1>4 DEF RunHere, input, Blocks, TypeOK
    <2> QED
      BY <2>1, <2>2 DEF Running, Err, Panic
  <1>5. CASE Join
    <2>1. capture' = firstPanic /\ UNCHANGED n
      BY <1>5 DEF Join, FailureInv, input
    <2>2. \/ result' = Panic(firstPanic) /\ firstPanic # 0
          \/ result' \in {Ok, Err(firstErr)}
      BY <1>5 DEF Join, Outcome
    <2> QED
      BY <2>1, <2>2 DEF Ok, Err, Panic
  <1>6. CASE Enter \/ ReturnOk
    BY <1>2, <1>6 DEF Enter, ReturnOk, FailureInv, input
  <1>7. CASE Dispatch
    BY <1>1, <1>7 DEF Dispatch, input
  <1>8. ASSUME NEW w \in Workers, Worker(w) PROVE (CarveNeverUnderflows /\ PanicCarriesItsLocation)'
    <2>1. result = Running /\ UNCHANGED <<n, result>>
      BY <1>8 DEF Worker, Poll, Take, Finish, Record, Signal, HandOutInv, FailureInv, input
    <2> QED
      BY <1>2, <2>1
  <1>9. CASE UNCHANGED vars
    BY <1>1, <1>9 DEF vars, input
  <1> QED
    BY <1>3, <1>4, <1>5, <1>6, <1>7, <1>8, <1>9 DEF Next, Caller, Returned

\* The inductive invariant holds of every behaviour.
THEOREM Invariance == Spec => []IInv
  <1>1. IInv /\ [Next]_vars => IInv'
    BY NextType, NextCarve, NextHandOut, NextFailure, NextMem, NextResult DEF IInv
  <1> QED
    BY <1>1, InitInv, PTL DEF Spec

-----------------------------------------------------------------------------
(* What the invariant gives.                                               *)

\* TypeOK, for every instance.
THEOREM TypeCorrect == Spec => []TypeOK
  BY Invariance, PTL DEF IInv

\* Two blocks that run at the same time write disjoint bytes and are distinct:
\* the pieces handed to the workers of `parallel_for` never alias.
THEOREM WritersAreExclusive == Spec => []ExclusiveWriters
  <1>1. IInv => ExclusiveWriters
    <2> SUFFICES ASSUME IInv, NEW v \in Workers, NEW w \in Workers,
                        v # w, pc[v] = "run", pc[w] = "run"
                 PROVE  cur[v] # cur[w] /\ Target(cur[v]) \cap Target(cur[w]) = {}
      BY DEF ExclusiveWriters
    <2>1. mode = "pool" /\ Busy(v) /\ Busy(w)
      BY DEF IInv, HandOutInv, Busy
    <2>2. cur[v] # cur[w] /\ cur[v] \in Blocks /\ cur[w] \in Blocks
      BY <2>1 DEF IInv, HandOutInv, TypeOK, Blocks
    <2> QED
      BY <2>1, <2>2, PoolPiecesApart DEF IInv
  <1> QED
    BY <1>1, Invariance, PTL

\* Spans that pass `spans_disjoint` can always be carved: `s - base` does not
\* underflow, whatever empty or equal spans a corrupt file declares.
THEOREM CarveIsSafe == Spec => []CarveNeverUnderflows
  BY Invariance, PTL DEF IInv

\* The location reported with a propagated panic is the location of that panic.
THEOREM PanicIsPaired == Spec => []PanicCarriesItsLocation
  BY Invariance, PTL DEF IInv

\* When every worker has left without a recorded failure, every block is done.
LEMMA AllDoneAtJoin ==
  ASSUME IInv, mode = "pool", ~ Failed, \A w \in Workers : pc[w] = "exit"
  PROVE  done = Blocks
  <1>1. next = n
    BY DEF IInv, FailureInv
  <1>2. \A w \in Workers : ~ Busy(w)
    BY DEF Busy
  <1> QED
    BY <1>1, <1>2 DEF IInv, HandOutInv, Blocks

\* A buffer in which every block is done is a sequential pass's buffer.
LEMMA AllDoneIsSequential ==
  ASSUME IInv, done = Blocks
  PROVE  LastWriterWins /\ \A i \in Blocks : verdict[i] = "ok"
  BY DEF IInv, MemInv, HandOutInv, LastWriterWins

\* Every step of the fan-out is a step of its promise, or leaves it unchanged.
LEMMA StepRefines == IInv /\ [Next]_vars => [FanOutNext]_fanOutVars
  <1> SUFFICES ASSUME IInv, [Next]_vars PROVE [FanOutNext]_fanOutVars
    OBVIOUS
  <1>1. ASSUME UNCHANGED <<input, mem, result>> PROVE [FanOutNext]_fanOutVars
    BY <1>1 DEF fanOutVars, input
  <1>2. ASSUME result' = Ok, result = Running, UNCHANGED <<input, mem>>,
               LastWriterWins, \A i \in Blocks : verdict[i] = "ok"
        PROVE  [FanOutNext]_fanOutVars
    BY <1>2 DEF FanOutNext, Return, input
  <1>3. CASE Enter
    <2>1. CASE n = 0
      <3>1. done = Blocks
        BY <1>3, <2>1 DEF IInv, HandOutInv, Enter, Blocks
      <3> QED
        BY <1>1, <1>2, <1>3, <2>1, <3>1, AllDoneIsSequential DEF Enter, IInv, FailureInv
    <2>2. CASE n # 0
      BY <1>1, <1>3, <2>2 DEF Enter
    <2> QED
      BY <2>1, <2>2
  <1>4. ASSUME NEW i \in Blocks, CarvePiece(i) PROVE [FanOutNext]_fanOutVars
    <2>1. base <= spans[i].start /\ base \in Nat /\ spans[i].start \in Nat
      BY <1>4, CarveAdvances, InputAssumption DEF CarvePiece, IInv, TypeOK
    <2> QED
      BY <1>1, <1>4, <2>1 DEF CarvePiece
  <1>5. CASE Dispatch
    BY <1>1, <1>5 DEF Dispatch
  <1>6. ASSUME NEW i \in Blocks, RunHere(i) PROVE [FanOutNext]_fanOutVars
    <2>1. result = Running
      BY <1>6 DEF RunHere, IInv, FailureInv
    <2>2. CASE verdict[i] = "ok"
      BY <1>6, <2>1, <2>2 DEF RunHere, FanOutNext, WriteBlock, input
    <2>3. CASE verdict[i] # "ok"
      BY <1>6, <2>1, <2>3 DEF RunHere, FanOutNext, Return, input
    <2> QED
      BY <2>2, <2>3
  <1>7. CASE ReturnOk
    <2>1. done = Blocks
      BY <1>7 DEF ReturnOk, IInv, HandOutInv, Blocks
    <2> QED
      BY <1>2, <1>7, <2>1, AllDoneIsSequential DEF ReturnOk, IInv, FailureInv
  <1>8. CASE Join
    <2>1. result = Running /\ mode = "pool" /\ UNCHANGED <<input, mem>>
      BY <1>8 DEF Join, IInv, FailureInv
    <2>2. CASE ~ Failed
      <3>1. done = Blocks
        BY <1>8, <2>1, <2>2, AllDoneAtJoin DEF Join
      <3>2. result' = Ok
        BY <1>8, <2>2 DEF Join, Outcome, Failed
      <3> QED
        BY <1>2, <2>1, <3>1, <3>2, AllDoneIsSequential
    <2>3. CASE Failed
      <3>1. PICK i \in Blocks : \/ verdict[i] = "err" /\ result' = Err(i)
                                \/ verdict[i] = "panic" /\ result' = Panic(i)
        BY <1>8, <2>3 DEF Join, Outcome, Failed, IInv, FailureInv, TypeOK, Blocks
      <3>2. Write(i, {}) /\ {} \in SUBSET Target(i)
        BY <2>1 DEF Write, IInv, TypeOK
      <3> QED
        BY <2>1, <3>1, <3>2 DEF FanOutNext, Return, input
    <2> QED
      BY <2>2, <2>3
  <1>9. ASSUME NEW w \in Workers, Finish(w) PROVE [FanOutNext]_fanOutVars
    <2>1. result = Running /\ cur[w] \in Blocks
      BY <1>9 DEF Finish, IInv, HandOutInv, FailureInv, TypeOK, Busy, Blocks
    <2>2. PICK W \in SUBSET Target(cur[w]) : Write(cur[w], W)
      BY <1>9 DEF Finish
    <2> QED
      BY <1>9, <2>1, <2>2 DEF Finish, FanOutNext, WriteBlock, input
  <1>10. ASSUME NEW w \in Workers, Worker(w), ~ Finish(w) PROVE [FanOutNext]_fanOutVars
    BY <1>1, <1>10 DEF Worker, Poll, Take, Record, Signal
  <1>11. CASE UNCHANGED vars
    BY <1>1, <1>11 DEF vars
  <1> QED
    BY <1>3, <1>4, <1>5, <1>6, <1>7, <1>8, <1>9, <1>10, <1>11
    DEF Next, Caller, Returned

\* `parallel_for` keeps its promise: Ok only with the bytes of a sequential pass
\* and every block done, otherwise the failure of a block that failed.
THEOREM KeepsPromise == Spec => FanOutSpec
  <1>1. Init => FanOutInit
    BY DEF Init
  <1> QED
    BY <1>1, StepRefines, Invariance, PTL DEF Spec, FanOutSpec
=============================================================================
