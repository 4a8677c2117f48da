------------------------------- MODULE WebApp -------------------------------
(***************************************************************************)
(* The page of web/app.js: files are staged by asynchronous drops, a read  *)
(* budget is planned from their sizes by every render(), and a click on    *)
(* Unpack walks the live Map of files, one disposable worker at a time,    *)
(* with one forced-EXE retry after a trap.                                 *)
(*                                                                         *)
(* JavaScript runs to completion, so one action is what happens between    *)
(* two awaits.  The turn of an unpack loop, which may pass many files, is  *)
(* cut into one step per file, and `turn` keeps everything else waiting.   *)
(* A file entry is an object: a drop of a known name makes a new one.      *)
(***************************************************************************)
EXTENDS Naturals, Sequences, Functions

CONSTANTS
  Modules,      \* names of base modules
  CompanionOf,  \* module |-> the name of its `._` file
  Drops,        \* what may be dropped: sequences of [name, size, kind]
  Limits,       \* input limits the user may type
  MaxFiles,     \* bound on the entries ever created
  Loops,        \* bound on the unpack loops running at once
  Stagers       \* bound on the drops being staged at once

Companions == {CompanionOf[m] : m \in Modules}
Names      == Modules \cup Companions
PeKinds    == {"exe", "dll"}
Kinds      == PeKinds \cup {"metadata", "android", "unknown"}

ASSUME PageAssumption ==
  /\ Modules \cap Companions = {}
  /\ \A m, k \in Modules : CompanionOf[m] = CompanionOf[k] => m = k
  /\ Drops \subseteq Seq([name : Names, size : Nat, kind : Kinds]) \ {<<>>}
  /\ \A d \in Drops : \A i \in DOMAIN d : d[i].name \in Companions => d[i].kind = "unknown"
  /\ Limits \subseteq Nat /\ Limits # {} /\ MaxFiles \in Nat
  /\ 0 \notin Loops

VARIABLES
  heap,     \* the entry objects, in the order they were made
  files,    \* name |-> [slot, id]: its place in the Map, its entry
  rest,     \* stager |-> files its drop has still to stage
  limit,    \* limitBytes
  plan,     \* names the last render() found above the limit
  button,   \* whether Unpack can be pressed
  clear,    \* whether Clear can be pressed
  rows,     \* names that have a row
  broken,   \* ghost: a drop ended without its render()
  turn,     \* the loop that is running, 0 if none
  pc,       \* loop |-> what it awaits
  cursor,   \* loop |-> slot of the file it visited last
  entry,    \* loop |-> the entry it works on, 0 if none
  comp,     \* loop |-> the companion entry it captured, 0 if none
  forced    \* loop |-> whether its job is the forced-EXE retry

page  == <<heap, files, limit, plan, button, rows, broken>>
loop  == <<pc, cursor, entry, comp, forced>>
vars  == <<page, rest, clear, turn, loop>>

Staged == DOMAIN files

-----------------------------------------------------------------------------
(* render()                                                                *)

\* planReadBudget: a module and its companion are one unit, under the base name.
SizeOf(F, H, n) == IF n \in DOMAIN F THEN H[F[n].id].size ELSE 0
UnitSize(F, H, m) == SizeOf(F, H, m) + SizeOf(F, H, CompanionOf[m])

BlockedIn(F, H, lim) == {m \in Modules : UnitSize(F, H, m) > lim}

\* A blocked row goes back to staged once it fits again.
Unblock(F, H, blocked) ==
  [i \in DOMAIN H |->
     IF H[i].state = "blocked" /\ H[i].name \notin blocked
        /\ H[i].name \in DOMAIN F /\ F[H[i].name].id = i
     THEN [H[i] EXCEPT !.state = "staged"] ELSE H[i]]

\* A companion has a row of its own only while its base is not staged.
Wanted(F) == {n \in DOMAIN F : \A m \in Modules : CompanionOf[m] = n => m \notin DOMAIN F}

Unpackable(F, H) ==
  \E m \in Modules \cap DOMAIN F :
    H[F[m].id].state = "staged" /\ H[F[m].id].kind \notin {"unknown", "android"}

\* The page after render() ran with files F, entries H and limit lim.
Render(F, H, lim) ==
  LET blocked == BlockedIn(F, H, lim)
      entries == Unblock(F, H, blocked)
  IN  /\ files' = F /\ limit' = lim
      /\ plan' = blocked /\ heap' = entries
      /\ button' = Unpackable(F, entries) /\ rows' = Wanted(F)
      /\ broken' = FALSE

SetState(id, state) == [heap EXCEPT ![id].state = state]

-----------------------------------------------------------------------------
Init ==
  /\ heap = <<>> /\ files = <<>>
  /\ rest = [s \in Stagers |-> <<>>]
  /\ limit \in Limits /\ plan = {}
  /\ button = FALSE /\ clear = TRUE /\ rows = {} /\ broken = FALSE
  /\ turn = 0
  /\ pc = [l \in Loops |-> "idle"]
  /\ cursor = [l \in Loops |-> 0] /\ entry = [l \in Loops |-> 0]
  /\ comp = [l \in Loops |-> 0] /\ forced = [l \in Loops |-> FALSE]

\* Files of the running drops that are not staged yet.
Pending == FoldFunction(LAMBDA d, sum : Len(d) + sum, 0, rest)

(***************************************************************************)
(* stageFiles                                                              *)
(***************************************************************************)

\* A drop, up to its first await.
Drop(s) ==
  /\ turn = 0
  /\ rest[s] = <<>>
  /\ \E d \in Drops :
       /\ Len(heap) + Pending + Len(d) <= MaxFiles
       /\ rest' = [rest EXCEPT ![s] = d]
  /\ UNCHANGED <<page, clear, turn, loop>>

\* files.set: a known name keeps its place in the Map.
Put(F, n, id) ==
  [m \in DOMAIN F \cup {n} |->
     IF m = n THEN [slot |-> IF n \in DOMAIN F THEN F[n].slot ELSE id, id |-> id]
     ELSE F[m]]

Fresh(file) ==
  [name |-> file.name, size |-> file.size, kind |-> file.kind,
   state |-> "staged", bytes |-> 0]

\* The header of one file is there: stage it and, after the last, render.
Stage(s) ==
  /\ turn = 0
  /\ rest[s] # <<>>
  /\ LET file == Head(rest[s])
         H    == Append(heap, Fresh(file))
         F    == Put(files, file.name, Len(H))
     IN  \/ /\ Len(rest[s]) = 1
            /\ Render(F, H, limit)
         \/ /\ Len(rest[s]) > 1
            /\ heap' = H /\ files' = F
            /\ rows' = IF file.name \in Staged THEN rows \ {file.name} ELSE rows
            /\ UNCHANGED <<limit, plan, button, broken>>
  /\ rest' = [rest EXCEPT ![s] = Tail(@)]
  /\ UNCHANGED <<clear, turn, loop>>

\* The header of one file cannot be read: the drop ends there, unrendered.
StageFails(s) ==
  /\ turn = 0
  /\ rest[s] # <<>>
  /\ rest' = [rest EXCEPT ![s] = <<>>]
  /\ broken' = TRUE
  /\ UNCHANGED <<heap, files, limit, plan, button, rows, clear, turn, loop>>

(***************************************************************************)
(* The other controls.                                                     *)
(***************************************************************************)

Without(F, gone) == [n \in DOMAIN F \ gone |-> F[n]]

\* The x of a row: a companion goes with its base.
Remove(n) ==
  /\ turn = 0
  /\ n \in rows
  /\ Render(Without(files, {n} \cup {CompanionOf[m] : m \in Modules \cap {n}}), heap, limit)
  /\ UNCHANGED <<rest, clear, turn, loop>>

Clear ==
  /\ turn = 0
  /\ clear
  /\ Staged # {}
  /\ Render(<<>>, heap, limit)
  /\ UNCHANGED <<rest, clear, turn, loop>>

\* A mutant of SetLimit: the new limit is not rendered.
SetLimitOnly ==
  /\ turn = 0
  /\ \E v \in Limits \ {limit} : limit' = v
  /\ UNCHANGED <<heap, files, plan, button, rows, broken, rest, clear, turn, loop>>

SetLimit ==
  /\ turn = 0
  /\ \E v \in Limits \ {limit} : Render(files, heap, v)
  /\ UNCHANGED <<rest, clear, turn, loop>>

(***************************************************************************)
(* The Unpack loop.                                                        *)
(***************************************************************************)

Click(l) ==
  /\ turn = 0
  /\ button /\ pc[l] = "idle"
  /\ button' = FALSE /\ clear' = FALSE
  /\ pc' = [pc EXCEPT ![l] = "scan"]
  /\ turn' = l
  /\ UNCHANGED <<heap, files, limit, plan, rows, broken, rest, cursor, entry, comp, forced>>

\* The Map's iterator is live: the next file is the one in the next used slot.
NextFile(l, n) ==
  /\ n \in Staged /\ files[n].slot > cursor[l]
  /\ \A k \in Staged : files[k].slot > cursor[l] => files[n].slot <= files[k].slot

Pass(l, n) == cursor' = [cursor EXCEPT ![l] = files[n].slot]

\* A mutant of Ready: everything without a result is run.
NoResultYet(e) == e.state \notin {"ok", "err"}

Ready(e) == e.state = "staged"

\* Companions, rows with a verdict and Android rows are passed over.
SkipFile(l, n) ==
  LET e == heap[files[n].id]
  IN  /\ n \in Companions \/ ~ Ready(e) \/ e.kind = "android"
      /\ Pass(l, n)
      /\ UNCHANGED <<page, clear, rest, turn, pc, entry, comp, forced>>

\* A file that is not recognized fails, one above the limit is blocked; both
\* without a read.
RefuseFile(l, n) ==
  LET id == files[n].id
      e  == heap[id]
  IN  /\ n \in Modules /\ Ready(e)
      /\ \/ e.kind = "unknown" /\ Render(files, SetState(id, "err"), limit)
         \/ /\ e.kind \notin {"unknown", "android"} /\ n \in plan
            /\ Render(files, SetState(id, "blocked"), limit)
      /\ Pass(l, n)
      /\ UNCHANGED <<clear, rest, turn, pc, entry, comp, forced>>

\* The first read starts; the companion entry is looked up now.
StartFile(l, n) ==
  LET id == files[n].id
      e  == heap[id]
      c  == CompanionOf[n]
  IN  /\ n \in Modules /\ Ready(e)
      /\ e.kind \notin {"unknown", "android"} /\ n \notin plan
      /\ Render(files, SetState(id, "working"), limit)
      /\ Pass(l, n)
      /\ entry' = [entry EXCEPT ![l] = id]
      /\ comp' = [comp EXCEPT ![l] = IF e.kind \in PeKinds /\ c \in Staged THEN files[c].id ELSE 0]
      /\ pc' = [pc EXCEPT ![l] = "input"]
      /\ turn' = 0
      /\ UNCHANGED <<clear, rest, forced>>

\* No file is left: the finally block.
EndLoop(l) ==
  /\ \A n \in Staged : files[n].slot <= cursor[l]
  /\ Render(files, heap, limit)
  /\ clear' = TRUE
  /\ pc' = [pc EXCEPT ![l] = "idle"]
  /\ cursor' = [cursor EXCEPT ![l] = 0]
  /\ turn' = 0
  /\ UNCHANGED <<rest, entry, comp, forced>>

Scan(l) ==
  /\ turn = l
  /\ \/ \E n \in Names : NextFile(l, n) /\ (SkipFile(l, n) \/ RefuseFile(l, n) \/ StartFile(l, n))
     \/ EndLoop(l)

\* A mutant of Receiver: the reply goes to whatever entry has the name now.
NowStaged(l) ==
  LET n == heap[entry[l]].name IN IF n \in Staged THEN files[n].id ELSE entry[l]

\* The entry a reply is applied to.
Receiver(l) == entry[l]

\* The row gets its verdict and the loop goes on in the same turn.
Settle(l, H) ==
  /\ Render(files, H, limit)
  /\ entry' = [entry EXCEPT ![l] = 0] /\ comp' = [comp EXCEPT ![l] = 0]
  /\ forced' = [forced EXCEPT ![l] = FALSE]
  /\ pc' = [pc EXCEPT ![l] = "scan"]
  /\ turn' = l
  /\ UNCHANGED <<clear, rest, cursor>>

\* A mutant of Reject: the loop goes on, the row is left as it is.
RejectQuietly(l) == Settle(l, heap)

\* An await threw: the catch block.
Reject(l) == Settle(l, SetState(entry[l], "err"))

Await(l, next) ==
  /\ pc' = [pc EXCEPT ![l] = next]
  /\ UNCHANGED <<page, clear, rest, turn, cursor, entry, comp>>

\* readFile of the module, then of its companion.
Read(l) ==
  /\ turn = 0
  /\ \/ /\ pc[l] = "input"
        /\ Await(l, IF comp[l] # 0 THEN "companion" ELSE "job") /\ UNCHANGED forced
     \/ pc[l] = "companion" /\ Await(l, "job") /\ UNCHANGED forced
     \/ pc[l] \in {"input", "companion"} /\ Reject(l)

\* A mutant of MayRetry: a trapped retry is retried.
RetryEveryTrap(l) == heap[entry[l]].kind = "dll"

\* A trap of the DLL route is retried once, with the forced-EXE pipeline.
MayRetry(l) == heap[entry[l]].kind = "dll" /\ ~ forced[l]

\* The worker's reply: bytes, a failure, or a trap.  Clean metadata is a failure.
Reply(l) ==
  /\ turn = 0
  /\ pc[l] = "job"
  /\ \/ Settle(l, [heap EXCEPT ![Receiver(l)].state = "ok", ![Receiver(l)].bytes = entry[l]])
     \/ Settle(l, SetState(Receiver(l), "err"))
     \/ MayRetry(l) /\ Await(l, "input") /\ forced' = [forced EXCEPT ![l] = TRUE]

-----------------------------------------------------------------------------
User ==
  \/ \E s \in Stagers : Drop(s)
  \/ \E n \in Names : Remove(n)
  \/ Clear \/ SetLimit
  \/ \E l \in Loops : Click(l)

Unpack(l) == Scan(l) \/ Read(l) \/ Reply(l)

Next ==
  \/ User
  \/ \E s \in Stagers : Stage(s) \/ StageFails(s)
  \/ \E l \in Loops : Unpack(l)

\* Promises settle and workers reply, however many turns other code takes in
\* between.  Nobody has to press anything.
Fairness == \A l \in Loops : WF_vars(Scan(l)) /\ SF_vars(Read(l)) /\ SF_vars(Reply(l))

Spec == Init /\ [][Next]_vars /\ Fairness

-----------------------------------------------------------------------------
(* Properties.                                                             *)

Ids == 1 .. Len(heap)

TypeOK ==
  /\ Len(heap) <= MaxFiles
  /\ \A i \in Ids :
       /\ heap[i].name \in Names /\ heap[i].size \in Nat /\ heap[i].kind \in Kinds
       /\ heap[i].state \in {"staged", "working", "ok", "err", "blocked"}
       /\ heap[i].bytes \in 0 .. MaxFiles
  /\ Staged \subseteq Names
  /\ \A n \in Staged : files[n].slot \in Ids /\ files[n].id \in Ids /\ heap[files[n].id].name = n
  /\ limit \in Limits /\ plan \subseteq Modules /\ rows \subseteq Names
  /\ button \in BOOLEAN /\ clear \in BOOLEAN /\ broken \in BOOLEAN
  /\ turn \in Loops \cup {0}
  /\ pc \in [Loops -> {"idle", "scan", "input", "companion", "job"}]
  /\ cursor \in [Loops -> 0 .. MaxFiles]
  /\ entry \in [Loops -> {0} \cup Ids] /\ comp \in [Loops -> {0} \cup Ids]
  /\ forced \in [Loops -> BOOLEAN]

(***************************************************************************)
(* render() enables Unpack again while a loop is still running, so two     *)
(* loops may walk the files together.  No file is ever run by both.        *)
(***************************************************************************)
OneLoopPerEntry ==
  \A l, k \in Loops : l # k /\ entry[l] # 0 => entry[l] # entry[k]

(***************************************************************************)
(* A row that shows progress is being worked on: whatever an await does,   *)
(* and whatever is dropped or removed meanwhile, no row is left "working". *)
(***************************************************************************)
WorkingIsHeld ==
  \A i \in Ids : heap[i].state = "working" <=> \E l \in Loops : entry[l] = i

(***************************************************************************)
(* A name may be dropped again while its file is in the worker.  The bytes *)
(* a row offers for download come from that row's own file.                *)
(***************************************************************************)
ResultBelongsToItsFile ==
  \A i \in Ids : heap[i].state = "ok" <=> heap[i].bytes = i

(***************************************************************************)
(* When no drop is in flight, the page shows the files there are: the plan *)
(* is theirs, each has its row, and Unpack can be pressed when there is    *)
(* something to unpack, whatever order drops, removals, limit changes and  *)
(* loops came in.  (A drop that failed half-way leaves it stale.)          *)
(***************************************************************************)
QuietPageIsCurrent ==
  turn = 0 /\ ~ broken /\ (\A s \in Stagers : rest[s] = <<>>) =>
    /\ plan = BlockedIn(files, heap, limit)
    /\ rows = Wanted(files)
    /\ button <=> Unpackable(files, heap)

\* Every loop comes to an end: one retry, and each file is visited once.
LoopsEnd == \A l \in Loops : pc[l] # "idle" ~> pc[l] = "idle"

(***************************************************************************)
(* app.js:124: "Every read is guarded from File.size BEFORE arrayBuffer()  *)
(* runs, so an oversized input never becomes a large allocation".          *)
(***************************************************************************)
OversizedIsNeverRead ==
  [][\A l \in Loops :
       pc[l] # "input" /\ pc'[l] = "input" =>
         heap'[entry'[l]].size + (IF comp'[l] = 0 THEN 0 ELSE heap'[comp'[l]].size) <= limit']_vars
=============================================================================
