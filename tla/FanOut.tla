------------------------------- MODULE FanOut -------------------------------
(***************************************************************************)
(* What a caller of `parallel_for` (senbei-engine/src/windows/parallel.rs) *)
(* may rely on, with no thread in sight: blocks write only inside their    *)
(* own span, and the call returns                                          *)
(*   - Ok only when every block succeeded, with the bytes a sequential     *)
(*     pass in block order would have left (last writer wins), or          *)
(*   - the Err, or the panic, of a block that did fail that way.           *)
(***************************************************************************)
EXTENDS Naturals

CONSTANTS BufLen     \* length of the output buffer

VARIABLES
  n,         \* number of blocks
  spans,     \* block |-> [start, end), the region it writes
  verdict,   \* block |-> how its closure ends: "ok", "err" or "panic"
  mem,       \* position |-> the block that wrote it last, 0 if none did
  result     \* what the call returned, or Running

fanOutVars == <<n, spans, verdict, mem, result>>

Blocks    == 1 .. n
Positions == 0 .. BufLen - 1
Verdicts  == {"ok", "err", "panic"}

Running   == [kind |-> "running", block |-> 0]
Ok        == [kind |-> "ok",      block |-> 0]
Err(i)    == [kind |-> "err",     block |-> i]
Panic(i)  == [kind |-> "panic",   block |-> i]

\* The bytes of the buffer block i writes.
Target(i) == {p \in Positions : spans[i].start <= p /\ p < spans[i].end}

\* mem is what running the blocks one after the other would have left.
LastWriterWins ==
  \A p \in Positions :
    /\ mem[p] # 0 => p \in Target(mem[p])
    /\ \A i \in Blocks : p \in Target(i) => i <= mem[p]

Write(i, W) == mem' = [p \in Positions |-> IF p \in W THEN i ELSE mem[p]]

-----------------------------------------------------------------------------
FanOutInit ==
  /\ mem = [p \in Positions |-> 0]
  /\ result = Running

WriteBlock(i) ==
  /\ result = Running
  /\ \E W \in SUBSET Target(i) : Write(i, W)
  /\ UNCHANGED <<n, spans, verdict, result>>

\* The last block's bytes and the return may be one step of the caller.
Return ==
  /\ result = Running
  /\ \/ /\ \A i \in Blocks : verdict[i] = "ok"
        /\ LastWriterWins
        /\ result' = Ok
        /\ UNCHANGED mem
     \/ \E i \in Blocks :
          /\ verdict[i] # "ok"
          /\ \E W \in SUBSET Target(i) : Write(i, W)
          /\ result' = IF verdict[i] = "err" THEN Err(i) ELSE Panic(i)
  /\ UNCHANGED <<n, spans, verdict>>

FanOutNext == Return \/ \E i \in Blocks : WriteBlock(i)

\* The promise: nothing but the above happens.  That the call returns is the
\* fan-out's own liveness property.
FanOutSpec == FanOutInit /\ [][FanOutNext]_fanOutVars
=============================================================================
