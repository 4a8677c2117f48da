---------------------------- MODULE AtomicReplace ----------------------------
(***************************************************************************)
(* What the callers of `write_atomic` (senbei-io/src/atomic.rs) rely on,   *)
(* with no temporary file in sight: each call replaces the destination by  *)
(* its whole payload in one step, or fails and changes nothing.  A crash   *)
(* keeps the destination or brings back one it had before.                 *)
(***************************************************************************)
CONSTANTS
  Writers,      \* concurrent calls
  PayloadOf     \* writer |-> what it writes

VARIABLES
  verdict,      \* writer |-> "pending", "replaced" or "failed"
  dest,         \* the destination
  durable       \* what a crash may bring back

replaceVars == <<verdict, dest, durable>>

ReplaceInit == verdict = [w \in Writers |-> "pending"] /\ durable = dest

Replace(w) ==
  /\ verdict[w] = "pending"
  /\ verdict' = [verdict EXCEPT ![w] = "replaced"]
  /\ dest' = PayloadOf[w]
  /\ UNCHANGED durable

GiveUp(w) ==
  /\ verdict[w] = "pending"
  /\ verdict' = [verdict EXCEPT ![w] = "failed"]
  /\ UNCHANGED <<dest, durable>>

Settle == durable' = dest /\ UNCHANGED <<verdict, dest>>

Lose == dest' = durable /\ UNCHANGED <<verdict, durable>>

ReplaceNext == Settle \/ Lose \/ \E w \in Writers : Replace(w) \/ GiveUp(w)

AtomicReplaceSpec == ReplaceInit /\ [][ReplaceNext]_replaceVars
=============================================================================
