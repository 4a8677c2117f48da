----------------------------- MODULE AtomicWrite -----------------------------
(***************************************************************************)
(* Concurrent calls of `write_atomic` (senbei-io/src/atomic.rs) on one     *)
(* destination: a private temporary in the same directory is filled and    *)
(* synced, then renamed over the destination; Windows may refuse the       *)
(* rename while another handle has the destination open, and the refusal   *)
(* is retried a bounded number of times.  The process may crash anywhere.  *)
(*                                                                         *)
(* A payload is Size pieces; a file is the sequence of the writers of its  *)
(* pieces, so a mixed or a short file shows.  The file system is external: *)
(* what was not synced may be cut short by a crash, and a rename becomes   *)
(* durable at some later point of its own choosing.                        *)
(***************************************************************************)
EXTENDS Naturals, Sequences

CONSTANTS
  Writers,    \* concurrent calls
  Names,      \* the random temporary names to choose from
  Size,       \* pieces in a payload
  Attempts,   \* ATTEMPTS
  Windows     \* whether replace_in_progress can answer true

ASSUME ParameterAssumption ==
  /\ Size \in Nat \ {0} /\ Attempts \in Nat \ {0} /\ Windows \in BOOLEAN
  /\ Writers \cap {"nobody"} = {}

VARIABLES
  pc,        \* writer |-> where its call is
  name,      \* writer |-> the name of its temporary
  attempt,   \* writer |-> renames refused so far
  temp,      \* temporaries in the directory: name |-> contents
  synced,    \* temporaries whose contents are on disk
  dest,      \* contents of the destination, <<>> if it does not exist
  solid,     \* whether those contents are on disk
  durable,   \* contents of the destination a crash would bring back
  crashed

file == <<dest, solid, durable>>
vars == <<pc, name, attempt, temp, synced, file, crashed>>

Steps    == {"call", "fill", "sync", "rename", "backoff", "close", "ok", "err"}
Payload(w) == [i \in 1 .. Size |-> w]
Previous   == [i \in 1 .. Size |-> "nobody"]

InUse == DOMAIN temp
Holds(w) == pc[w] \in {"fill", "sync", "rename", "backoff"}

Goto(w, step) == pc' = [pc EXCEPT ![w] = step]

SetTemp(n, contents) == [m \in InUse \cup {n} |-> IF m = n THEN contents ELSE temp[m]]
DropTemp(n)          == [m \in InUse \ {n} |-> temp[m]]

-----------------------------------------------------------------------------
Init ==
  /\ pc = [w \in Writers |-> "call"]
  /\ name \in [Writers -> Names]
  /\ attempt = [w \in Writers |-> 0]
  /\ temp = <<>> /\ synced = {}
  /\ dest \in {<<>>, Previous} /\ solid = TRUE /\ durable = dest
  /\ crashed = FALSE

\* A mutant of Fresh: every writer uses the same sibling name.
Sibling == {CHOOSE n \in Names : TRUE}

\* tempfile creates the file exclusively, under a name nobody has.
Fresh == Names \ InUse

Create(w) ==
  /\ pc[w] = "call"
  /\ \/ \E n \in Fresh :
          /\ name' = [name EXCEPT ![w] = n]
          /\ temp' = SetTemp(n, <<>>)
          /\ synced' = synced \ {n}
          /\ Goto(w, "fill")
     \/ Goto(w, "err") /\ UNCHANGED <<name, temp, synced>>
  /\ UNCHANGED <<attempt, file, crashed>>

\* Any `?` after the creation drops the temporary, which deletes it.
Fail(w) ==
  /\ temp' = DropTemp(name[w]) /\ synced' = synced \ {name[w]}
  /\ Goto(w, "err")

\* write_all, one piece at a time.
Fill(w) ==
  /\ pc[w] = "fill"
  /\ \/ /\ temp' = [temp EXCEPT ![name[w]] = Append(@, w)]
        /\ Goto(w, IF Len(temp'[name[w]]) >= Size THEN "sync" ELSE "fill")
        /\ UNCHANGED synced
     \/ Fail(w)
  /\ UNCHANGED <<name, attempt, file, crashed>>

\* A mutant of OnDisk: sync_all is forgotten.
Buffered(n) == synced

\* sync_all puts the contents of the temporary on disk.
OnDisk(n) == synced \cup {n}

Sync(w) ==
  /\ pc[w] = "sync"
  /\ \/ synced' = OnDisk(name[w]) /\ Goto(w, "rename") /\ UNCHANGED temp
     \/ Fail(w)
  /\ UNCHANGED <<name, attempt, file, crashed>>

\* A refused rename is tried again, but not for ever.
MayRetry(w) == Windows /\ attempt[w] + 1 < Attempts

\* A mutant of CountRefusal: the refusals are not counted.
Uncounted(w) == UNCHANGED attempt

CountRefusal(w) == attempt' = [attempt EXCEPT ![w] = @ + 1]

\* persist replaces the destination in one step or leaves it as it is.  It is
\* refused for as long as another call holds the destination open (Windows),
\* it may be refused because some other process does, and it may fail for good.
Rename(w) ==
  /\ pc[w] = "rename"
  /\ \/ /\ ~ \E v \in Writers : Windows /\ pc[v] = "close"
        /\ dest' = temp[name[w]] /\ solid' = (name[w] \in synced)
        /\ temp' = DropTemp(name[w]) /\ synced' = synced \ {name[w]}
        /\ Goto(w, "close")
        /\ UNCHANGED <<attempt, durable>>
     \/ /\ MayRetry(w)
        /\ Goto(w, "backoff")
        /\ CountRefusal(w)
        /\ UNCHANGED <<temp, synced, file>>
     \/ Fail(w) /\ UNCHANGED <<attempt, file>>
  /\ UNCHANGED <<name, crashed>>

Backoff(w) ==
  /\ pc[w] = "backoff"
  /\ Goto(w, "rename")
  /\ UNCHANGED <<name, attempt, temp, synced, file, crashed>>

\* A mutant of Close: the directory is synced too, and that may fail.
SyncDirectory(w) ==
  /\ pc[w] = "close"
  /\ Goto(w, "ok") \/ Goto(w, "err")
  /\ UNCHANGED <<name, attempt, temp, synced, file, crashed>>

\* The handle persist returned is dropped with the call's Ok.
Close(w) ==
  /\ pc[w] = "close"
  /\ Goto(w, "ok")
  /\ UNCHANGED <<name, attempt, temp, synced, file, crashed>>

-----------------------------------------------------------------------------
(* The file system.                                                        *)

\* What a file may hold after a crash.
Survivors(contents, onDisk) ==
  IF onDisk THEN {contents} ELSE {SubSeq(contents, 1, k) : k \in 0 .. Len(contents)}

Flush ==
  /\ durable # dest
  /\ durable' \in Survivors(dest, solid)
  /\ UNCHANGED <<pc, name, attempt, temp, synced, dest, solid, crashed>>

\* The process dies; the destination is the old or the new one.
Crash ==
  /\ crashed' = TRUE
  /\ dest' \in Survivors(dest, solid) \cup {durable}
  /\ solid' = TRUE /\ durable' = dest'
  /\ UNCHANGED <<pc, name, attempt, temp, synced>>

Write(w) == Create(w) \/ Fill(w) \/ Sync(w) \/ Rename(w) \/ Backoff(w) \/ Close(w)

Returned == \A w \in Writers : pc[w] \in {"ok", "err"}

Next ==
  \/ ~ crashed /\ \E w \in Writers : Write(w)
  \/ ~ crashed /\ (Flush \/ Crash)
  \/ (crashed \/ Returned) /\ UNCHANGED vars

Spec == Init /\ [][Next]_vars /\ \A w \in Writers : WF_vars(~ crashed /\ Write(w))

-----------------------------------------------------------------------------
(* Properties.                                                             *)

IsContents(c) == c \in Seq(Writers \cup {"nobody"}) /\ Len(c) <= Size

TypeOK ==
  /\ pc \in [Writers -> Steps]
  /\ name \in [Writers -> Names]
  /\ attempt \in [Writers -> 0 .. Attempts - 1]
  /\ InUse \subseteq Names /\ \A n \in InUse : IsContents(temp[n])
  /\ synced \subseteq InUse
  /\ IsContents(dest) /\ IsContents(durable)
  /\ solid \in BOOLEAN /\ crashed \in BOOLEAN

Whole == {<<>>, Previous} \cup {Payload(w) : w \in Writers}

(***************************************************************************)
(* "Write bytes through a uniquely named temporary file and replace dest   *)
(* only after the complete write succeeds": the destination is absent, the *)
(* previous file or one call's whole payload, with other calls writing the *)
(* same destination and after a crash at any point.                        *)
(***************************************************************************)
DestIsWhole == dest \in Whole /\ durable \in Whole

(***************************************************************************)
(* "On any failure the temporary file is removed": each temporary belongs  *)
(* to exactly one call still running, so none is left once they have all   *)
(* returned.                                                               *)
(***************************************************************************)
NoStrayTemporary ==
  \A n \in InUse : \E w \in Writers :
    /\ Holds(w) /\ name[w] = n
    /\ \A v \in Writers \ {w} : Holds(v) => name[v] # n

Verdict(step) ==
  CASE step \in {"close", "ok"} -> "replaced"
    [] step = "err"             -> "failed"
    [] OTHER                    -> "pending"

Contract == INSTANCE AtomicReplace WITH
  PayloadOf <- [w \in Writers |-> Payload(w)],
  verdict   <- [w \in Writers |-> Verdict(pc[w])]

(***************************************************************************)
(* The call is atomic to everyone who looks at the destination: it is      *)
(* replaced by a whole payload in one step, at most once per call, by a    *)
(* call that does not then fail, and otherwise changed only by a crash.    *)
(***************************************************************************)
AtomicReplaceSpec == Contract!AtomicReplaceSpec

\* Retries are bounded: every call returns, unless the process dies.
EveryCallReturns == <>(crashed \/ Returned)
=============================================================================
