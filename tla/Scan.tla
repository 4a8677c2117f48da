-------------------------------- MODULE Scan --------------------------------
(***************************************************************************)
(* The folder scan of senbei-io/src/scan.rs: a serial walk that only looks *)
(* at directory entries, a probe of the kept paths fanned out over threads *)
(* in contiguous slices, and the merge into lists of targets and tallies.  *)
(***************************************************************************)
EXTENDS Integers, Sequences, FiniteSets

CONSTANTS
  Trees,     \* directory trees, each a sequence of entries in walk order
  Caps       \* values of thread_cap()

Names == {"pe", "so", "package", "metadata", "companion", "asset", "unpack"}
Contents == {"pe", "so", "package", "metadata", "junk", "overlimit", "locked", "panics"}
Classes == {"crackproof", "so", "package", "metadata", "none", "unknown"}

\* `small` is a size below MIN_SIZE.  "broken" is an entry the walker cannot read.
EntryType ==
  [depth : Nat \ {0}, type : {"file", "dir", "junction", "broken"}, name : Names,
   small : BOOLEAN, content : Contents]

ASSUME ScanAssumption ==
  /\ Trees \subseteq Seq(EntryType)
  /\ Caps \subseteq Nat \ {0}

VARIABLES
  tree, cap, scanAll,  \* the folder and the settings of the run
  pc,                  \* walk, probe, done
  at,                  \* the next entry of the walk
  pruned,              \* depth of the directory being passed over, 0 if none
  paths,               \* kept entries, by their place in the tree
  walkErrors,
  class,               \* one verdict per path
  cursor,              \* worker |-> the next path it probes
  result

vars == <<tree, cap, scanAll, pc, at, pruned, paths, walkErrors, class, cursor, result>>

n == Len(paths)

Lesser(a, b) == IF a < b THEN a ELSE b
Greater(a, b) == IF a < b THEN b ELSE a

Nothing == [found |-> [c \in Classes |-> <<>>], walkErrors |-> 0]

-----------------------------------------------------------------------------
Init ==
  /\ tree \in Trees /\ cap \in Caps /\ scanAll \in BOOLEAN
  /\ pc = "walk" /\ at = 1 /\ pruned = 0
  /\ paths = <<>> /\ walkErrors = 0 /\ class = <<>> /\ cursor = <<>> /\ result = Nothing

\* Output of an earlier run, and links to somewhere else.
Prunes(e) == e.type = "junction" \/ (e.type = "dir" /\ e.name = "unpack")

Candidate(e) ==
  /\ e.type = "file"
  /\ e.name \in {"pe", "so", "package", "metadata"}
  /\ e.small => scanAll

\* A mutant of Resumes: a directory named unpack ends the walk of what follows.
ResumesNever(e) == pruned = 0

\* The walk is out of the directory it passed over.
Resumes(e) == pruned = 0 \/ e.depth <= pruned

Visit ==
  /\ pc = "walk" /\ at <= Len(tree)
  /\ at' = at + 1
  /\ LET e == tree[at]
     IN  IF ~ Resumes(e)
         THEN UNCHANGED <<pruned, paths, walkErrors>>
         ELSE /\ pruned' = IF Prunes(e) THEN e.depth ELSE 0
              /\ walkErrors' = IF e.type = "broken" THEN walkErrors + 1 ELSE walkErrors
              /\ paths' = IF Candidate(e) THEN Append(paths, at) ELSE paths
  /\ UNCHANGED <<tree, cap, scanAll, pc, class, cursor, result>>

-----------------------------------------------------------------------------
Workers == Lesser(cap, Greater(n, 1))

\* n.div_ceil(workers)
ChunkSize == (n + Workers - 1) \div Workers

\* `chunks` yields as many slices as it takes, each with its own thread; one
\* worker is the calling thread itself, going over everything.
Chunks == IF n = 0 THEN 0 ELSE (n + ChunkSize - 1) \div ChunkSize

From(k) == (k - 1) * ChunkSize + 1

Upto(k) == Lesser(k * ChunkSize, n)

Spawn ==
  /\ pc = "walk" /\ at > Len(tree)
  /\ pc' = "probe"
  /\ class' = [i \in 1 .. n |-> "none"]
  /\ cursor' = [k \in 1 .. Chunks |-> From(k)]
  /\ UNCHANGED <<tree, cap, scanAll, at, pruned, paths, walkErrors, result>>

\* The name says which detector is asked.  A library over the limits stays a
\* candidate, so that the job reports the limit; what cannot be read, and what a
\* detector panics on, has no class.
Classify(e) ==
  CASE e.content \in {"locked", "panics"} -> "unknown"
    [] e.content = "overlimit" -> IF e.name = "so" THEN "so" ELSE "none"
    [] e.content # e.name -> "none"
    [] OTHER -> IF e.name = "pe" THEN "crackproof" ELSE e.name

Probe(k) ==
  /\ pc = "probe" /\ cursor[k] <= Upto(k)
  /\ class' = [class EXCEPT ![cursor[k]] = Classify(tree[paths[cursor[k]]])]
  /\ cursor' = [cursor EXCEPT ![k] = @ + 1]
  /\ UNCHANGED <<tree, cap, scanAll, pc, at, pruned, paths, walkErrors, result>>

\* The paths of one class, in walk order.
Tally(c) ==
  LET upto[i \in 0 .. n] ==
        IF i = 0 THEN <<>>
        ELSE IF class[i] = c THEN Append(upto[i - 1], paths[i]) ELSE upto[i - 1]
  IN  upto[n]

\* The end of the scope joins every worker.
Merge ==
  /\ pc = "probe" /\ \A k \in DOMAIN cursor : cursor[k] > Upto(k)
  /\ pc' = "done"
  /\ result' = [found |-> [c \in Classes |-> Tally(c)], walkErrors |-> walkErrors]
  /\ UNCHANGED <<tree, cap, scanAll, at, pruned, paths, walkErrors, class, cursor>>

Done == pc = "done" /\ UNCHANGED vars

Next ==
  \/ Visit \/ Spawn
  \/ \E k \in DOMAIN cursor : Probe(k)
  \/ Merge \/ Done

Spec == Init /\ [][Next]_vars

-----------------------------------------------------------------------------
TypeOK ==
  /\ tree \in Trees /\ cap \in Caps /\ scanAll \in BOOLEAN
  /\ pc \in {"walk", "probe", "done"}
  /\ at \in 1 .. Len(tree) + 1
  /\ pruned \in Nat /\ walkErrors \in Nat
  /\ paths \in Seq(1 .. Len(tree))
  /\ pc # "walk" => /\ class \in [1 .. n -> Classes]
                    /\ cursor \in [1 .. Chunks -> 1 .. n + 1]
  /\ DOMAIN result = {"found", "walkErrors"}

\* The slices of the workers are disjoint and leave no path out, whatever the
\* number of paths and threads: each slot of the class list has one writer.
SlicesPartition ==
  \A i \in 1 .. n : \E k \in 1 .. Chunks :
    /\ i \in From(k) .. Upto(k)
    /\ \A l \in 1 .. Chunks \ {k} : i \notin From(l) .. Upto(l)

Above(j, i) ==
  j < i /\ \A k \in j + 1 .. i : tree[k].depth > tree[j].depth

\* No directory above it is passed over.
Reached(i) == \A j \in 1 .. i - 1 : Above(j, i) => ~ Prunes(tree[j])

Wanted == {i \in DOMAIN tree : Candidate(tree[i]) /\ Reached(i)}

Unreadable == {i \in DOMAIN tree : tree[i].type = "broken" /\ Reached(i)}

\* Each of these places once, in walk order.
Lists(s, places) ==
  /\ {s[i] : i \in DOMAIN s} = places
  /\ \A i, j \in DOMAIN s : i < j => s[i] < s[j]

\* Whatever the number of threads and their interleaving, a scan is what one
\* thread asking one file after another would find: every candidate once, in walk
\* order, under its own class, and nothing unreadable passes as "not a target".
ScanIsSequential ==
  pc = "done" =>
    /\ \A c \in Classes :
         Lists(result.found[c], {i \in Wanted : Classify(tree[i]) = c})
    /\ result.walkErrors = Cardinality(Unreadable)
=============================================================================
