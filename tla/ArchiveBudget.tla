---------------------------- MODULE ArchiveBudget ----------------------------
(***************************************************************************)
(* The extraction budget one run shares among all its packages and their   *)
(* nested APKs: `ArchiveBudget` in senbei-io/src/android/archive_limits.rs.*)
(* Archives are opened, and opened again in a later pass; entries are      *)
(* copied chunk by chunk against the size their header declares, which may *)
(* be a lie.  The ZIP reader is external: it yields some bytes per read.   *)
(***************************************************************************)
EXTENDS Integers, Functions

CONSTANTS
  Paths,        \* archives of the run
  Counts,       \* entry counts an end record may declare
  Sizes,        \* sizes of directories and entries, declared and actual
  MaxEntry,     \* max_entry_bytes
  MaxTotal,     \* max_total_bytes
  MaxEntries,   \* max_entries
  Chunk,        \* the copy buffer
  Probe,        \* MANIFEST_PROBE
  EntryRecord   \* the least bytes an entry takes in the directory

ASSUME BudgetAssumption ==
  /\ Counts \subseteq Nat /\ Sizes \subseteq Nat
  /\ MaxEntry \in Nat /\ MaxTotal \in Nat /\ MaxEntries \in Nat
  /\ Chunk \in Nat \ {0} /\ Probe \in Nat /\ EntryRecord \in Nat

VARIABLES
  bytes,      \* bytes charged so far
  entries,    \* entries charged so far
  archives,   \* path |-> the entry count it was charged for, 0 if none
  copy,       \* the running copy: declared size, bytes left to read, bytes written
  handed      \* ghost: bytes written by all the copies

spending == <<bytes, entries, archives, copy, handed>>

NoCopy == [active |-> FALSE, declared |-> 0, left |-> 0, written |-> 0]

Least(a, b) == IF a < b THEN a ELSE b

Remaining == MaxTotal - bytes

-----------------------------------------------------------------------------
BudgetInit ==
  /\ bytes = 0 /\ entries = 0
  /\ archives = [p \in Paths |-> 0]
  /\ copy = NoCopy
  /\ handed = 0

\* The end record and the directory fit each other and what is left to spend.
Admissible(count, directory) ==
  /\ count <= MaxEntries
  /\ directory <= Least(MaxEntry, Remaining)
  /\ count * EntryRecord <= directory

\* Only the entries the path was not charged for yet.
Newly(p, count) == IF count > archives[p] THEN count - archives[p] ELSE 0

\* A mutant of Registrable: off by one at the limit.
RegistrableAtLimit(n) == entries < MaxEntries \/ n = 0

Registrable(n) == entries + n <= MaxEntries

\* Open an archive, for the first time or again; indexing it may still fail.
OpenArchive(p) ==
  /\ ~ copy.active
  /\ \E count \in Counts, directory \in Sizes :
       /\ Admissible(count, directory)
       /\ Registrable(Newly(p, count))
       /\ entries' = entries + Newly(p, count)
       /\ archives' = [archives EXCEPT ![p] = IF count > @ THEN count ELSE @]
  /\ UNCHANGED <<bytes, copy, handed>>

\* A mutant of Allowance: what was charged before is forgotten.
AllowanceAlone == MaxEntry

Allowance == Least(MaxEntry, Remaining)

Begin(declared, actual) ==
  /\ ~ copy.active
  /\ declared <= Allowance
  /\ copy' = [active |-> TRUE, declared |-> declared, left |-> actual, written |-> 0]
  /\ UNCHANGED <<bytes, entries, archives, handed>>

\* extract_entry, or read_probe: no more than the probe, whatever the size is.
CopyEntry == \E declared, actual \in Sizes : Begin(declared, actual)

ProbeEntry ==
  \E declared, actual \in Sizes :
    /\ declared <= MaxEntry
    /\ Begin(Least(declared, Probe), Least(actual, Least(declared, Probe)))

\* One byte beyond the declared size shows a lie without reading the rest.
ReadLimit == Least(copy.declared - copy.written + 1, Chunk)

\* A mutant of Charge: bytes are paid when the whole entry has been written.
ChargeAtEnd(n) ==
  bytes' = IF copy.written + n = copy.declared THEN bytes + copy.declared ELSE bytes

Charge(n) == bytes' = bytes + n

\* A chunk within the declared size is charged, then written if that works;
\* `handed` counts the chunks written in full.
ReadChunk ==
  /\ copy.active
  /\ \E n \in 1 .. Least(ReadLimit, copy.left) :
       /\ copy.written + n <= copy.declared
       /\ Charge(n)
       /\ \/ /\ copy' = [copy EXCEPT !.left = @ - n, !.written = @ + n]
             /\ handed' = handed + n
          \/ /\ copy' = [copy EXCEPT !.left = @ - n, !.active = FALSE]
             /\ UNCHANGED handed
  /\ UNCHANGED <<entries, archives>>

\* The chunk goes past the declared size: an Err before anything is charged.
Overrun ==
  /\ copy.active
  /\ \E n \in 1 .. Least(ReadLimit, copy.left) :
       /\ copy.written + n > copy.declared
       /\ copy' = [copy EXCEPT !.left = @ - n, !.active = FALSE]
  /\ UNCHANGED <<bytes, entries, archives, handed>>

\* The end of the entry, which may come too early, or a read that fails.
EndCopy ==
  /\ copy.active
  /\ copy' = [copy EXCEPT !.active = FALSE]
  /\ UNCHANGED <<bytes, entries, archives, handed>>

\* What the caller had of the last copy is gone with the next call.
Forget ==
  /\ ~ copy.active /\ copy # NoCopy
  /\ copy' = NoCopy
  /\ UNCHANGED <<bytes, entries, archives, handed>>

BudgetNext ==
  \/ \E p \in Paths : OpenArchive(p)
  \/ CopyEntry \/ ProbeEntry
  \/ ReadChunk \/ Overrun \/ EndCopy \/ Forget

BudgetSpec == BudgetInit /\ [][BudgetNext]_spending

-----------------------------------------------------------------------------
(* Properties.                                                             *)

BudgetTypeOK ==
  /\ bytes \in Nat /\ entries \in Nat /\ handed \in Nat
  /\ archives \in [Paths -> Nat]
  /\ copy \in [active : BOOLEAN, declared : Nat, left : Nat, written : Nat]

(***************************************************************************)
(* "Cumulative extraction work for a run": whatever the headers say and in *)
(* whatever order archives are opened, probed and extracted, the run stays *)
(* within its byte and entry limits, and no entry gets past its own.       *)
(***************************************************************************)
WithinLimits ==
  /\ bytes <= MaxTotal
  /\ entries <= MaxEntries
  /\ copy.written <= copy.declared /\ copy.declared <= MaxEntry

\* Nothing is handed on that was not paid for, failed copies included.
HandedIsPaid == handed <= bytes
=============================================================================
