----------------------------- MODULE Scan_proofs -----------------------------
(***************************************************************************)
(* The scan for every tree, every number of candidates and of threads: the *)
(* slices cover the list without overlap, at the join every verdict in it  *)
(* is that of its own file, and what is found is what the tree holds.      *)
(***************************************************************************)
EXTENDS Scan, FiniteSetTheorems, WellFoundedInduction, TLAPS

-----------------------------------------------------------------------------
(* Division and slices *)

\* What a \div c is, in the terms the arithmetic below needs.
LEMMA DivisionBounds ==
  ASSUME NEW a \in Nat, NEW c \in Nat \ {0}
  PROVE  /\ a \div c \in Nat
         /\ c * (a \div c) <= a
         /\ a < c * (a \div c) + c
BY SMTT(30)

LEMMA TimesMonotone ==
  ASSUME NEW a \in Nat, NEW b \in Nat, NEW c \in Nat, a <= b
  PROVE  a * c <= b * c
BY SMTT(30)

\* div_ceil rounds up: K slices of C are enough for N, and K - 1 are not.
LEMMA DivCeil ==
  ASSUME NEW N \in Nat \ {0}, NEW C \in Nat \ {0}, NEW K, K = (N + C - 1) \div C
  PROVE  K \in Nat \ {0} /\ (K - 1) * C < N /\ N <= K * C
<1>1. /\ K \in Nat /\ C * K <= N + C - 1 /\ N + C - 1 < C * K + C
      BY DivisionBounds, N + C - 1 \in Nat
<1>2. N <= C * K /\ C * K - C < N
      BY <1>1
<1>3. K # 0
      BY <1>1, <1>2
<1>4. (K - 1) * C = C * K - C /\ K * C = C * K
      BY <1>1
<1> QED
      BY <1>1, <1>2, <1>3, <1>4

\* The slices are non-empty, and their number and size are positive when there is
\* something to probe.
LEMMA SliceSizes ==
  ASSUME n \in Nat \ {0}, cap \in Nat \ {0}
  PROVE  /\ ChunkSize \in Nat \ {0} /\ Chunks \in Nat \ {0}
         /\ (Chunks - 1) * ChunkSize < n /\ n <= Chunks * ChunkSize
<1>1. Workers \in Nat \ {0}
      BY DEF Workers, Lesser, Greater
<1>2. ChunkSize \in Nat \ {0}
      BY <1>1, DivCeil DEF ChunkSize
<1>3. Chunks = (n + ChunkSize - 1) \div ChunkSize
      BY DEF Chunks
<1> QED
      BY <1>2, <1>3, DivCeil

LEMMA SliceBounds ==
  ASSUME n \in Nat \ {0}, cap \in Nat \ {0}, NEW k \in 1 .. Chunks
  PROVE  /\ From(k) \in 1 .. n /\ Upto(k) \in 1 .. n /\ From(k) <= Upto(k)
<1> DEFINE C == ChunkSize
<1>1. C \in Nat \ {0} /\ Chunks \in Nat \ {0} /\ (Chunks - 1) * C < n
      BY SliceSizes
<1> HIDE DEF C
<1>2. k \in Nat /\ k - 1 \in Nat /\ Chunks - 1 \in Nat /\ k - 1 <= Chunks - 1
      BY <1>1
<1>3. (k - 1) * C <= (Chunks - 1) * C
      BY <1>1, <1>2, TimesMonotone
<1>4. (k - 1) * C \in Nat /\ (Chunks - 1) * C \in Nat
      BY <1>1, <1>2
<1>5. k * C = (k - 1) * C + C
      BY <1>1, <1>2
<1>6. From(k) = (k - 1) * C + 1 /\ Upto(k) = Lesser(k * C, n)
      BY DEF From, Upto, C
<1> QED
      BY <1>1, <1>3, <1>4, <1>5, <1>6 DEF Lesser

\* A later slice begins after an earlier one ends.
LEMMA SlicesAreApart ==
  ASSUME n \in Nat \ {0}, cap \in Nat \ {0},
         NEW k \in 1 .. Chunks, NEW l \in 1 .. Chunks, k < l
  PROVE  Upto(k) < From(l)
<1> DEFINE C == ChunkSize
<1>1. C \in Nat \ {0} /\ Chunks \in Nat
      BY SliceSizes
<1> HIDE DEF C
<1>2. k \in Nat /\ l - 1 \in Nat /\ k <= l - 1
      BY <1>1
<1>3. k * C <= (l - 1) * C
      BY <1>1, <1>2, TimesMonotone
<1>4. k * C \in Nat /\ (l - 1) * C \in Nat
      BY <1>1, <1>2
<1>5. From(l) = (l - 1) * C + 1 /\ Upto(k) <= k * C
      BY <1>4 DEF From, Upto, Lesser, C
<1>6. Upto(k) \in Int
      BY SliceBounds
<1> QED
      BY <1>3, <1>4, <1>5, <1>6

\* The slices cover the list without overlap.
LEMMA PartitionHolds ==
  ASSUME n \in Nat, cap \in Nat \ {0}
  PROVE  SlicesPartition
<1> SUFFICES ASSUME NEW i \in 1 .. n
             PROVE  \E k \in 1 .. Chunks :
                      /\ i \in From(k) .. Upto(k)
                      /\ \A l \in 1 .. Chunks \ {k} : i \notin From(l) .. Upto(l)
      BY DEF SlicesPartition
<1> n \in Nat \ {0}
      OBVIOUS
<1> DEFINE C == ChunkSize
           q == (i - 1) \div C
<1>1. C \in Nat \ {0} /\ Chunks \in Nat \ {0} /\ n <= Chunks * C
      BY SliceSizes
<1> HIDE DEF C
<1>2. q \in Nat /\ C * q <= i - 1 /\ i - 1 < C * q + C
      BY <1>1, DivisionBounds, i - 1 \in Nat
<1> HIDE DEF q
<1>3. q < Chunks
  <2> SUFFICES ASSUME Chunks <= q PROVE FALSE
      BY <1>1, <1>2
  <2>1. Chunks * C <= q * C
      BY <1>1, <1>2, TimesMonotone
  <2>2. q * C = C * q /\ C * q \in Nat /\ Chunks * C \in Nat
      BY <1>1, <1>2
  <2> QED
      BY <2>1, <2>2, <1>1, <1>2
<1> DEFINE k == q + 1
<1>4. k \in 1 .. Chunks
      BY <1>1, <1>2, <1>3
<1>5. i \in From(k) .. Upto(k)
  <2>1. (k - 1) * C = C * q /\ k * C = C * q + C /\ C * q \in Nat
      BY <1>1, <1>2
  <2>2. From(k) = C * q + 1 /\ Upto(k) = Lesser(C * q + C, n)
      BY <2>1 DEF From, Upto, C
  <2> QED
      BY <2>1, <2>2, <1>1, <1>2 DEF Lesser
<1>6. ASSUME NEW l \in 1 .. Chunks \ {k}, i \in From(l) .. Upto(l) PROVE FALSE
  <2>1. l < k \/ k < l
      BY <1>1, <1>2
  <2>2. /\ From(l) \in Int /\ Upto(l) \in Int /\ From(k) \in Int /\ Upto(k) \in Int
      BY <1>4, SliceBounds
  <2>3. CASE l < k
      BY <2>3, <2>2, <1>4, <1>5, <1>6, SlicesAreApart
  <2>4. CASE k < l
      BY <2>4, <2>2, <1>4, <1>5, <1>6, SlicesAreApart
  <2> QED
      BY <2>1, <2>3, <2>4
<1> QED
      BY <1>4, <1>5, <1>6

-----------------------------------------------------------------------------
(* The inductive invariant *)

\* A worker stays in its slice, and what it has gone over has its own verdict.
SliceDone(k) ==
  /\ cursor[k] \in From(k) .. Upto(k) + 1
  /\ \A i \in From(k) .. cursor[k] - 1 : class[i] = Classify(tree[paths[i]])

IInv ==
  /\ TypeOK
  /\ pc # "walk" => \A k \in 1 .. Chunks : SliceDone(k)
  /\ pc = "done" => \A k \in 1 .. Chunks : Upto(k) < cursor[k]

\* Every candidate has the verdict a probe of that file alone gives.
VerdictsAreOwn ==
  pc = "done" => \A i \in 1 .. n : class[i] = Classify(tree[paths[i]])

LEMMA SettingsTyped ==
  ASSUME TypeOK
  PROVE  /\ n \in Nat /\ cap \in Nat \ {0} /\ tree \in Seq(EntryType)
         /\ \A i \in 1 .. n : paths[i] \in 1 .. Len(tree)
         /\ \A i \in 1 .. Len(tree) : tree[i] \in EntryType
BY ScanAssumption DEF TypeOK, n

LEMMA ClassifyTyped == ASSUME NEW e \in EntryType PROVE Classify(e) \in Classes
<1>1. e.name \in Names /\ e.content \in Contents
      BY DEF EntryType
<1>2. CASE e.content \in {"locked", "panics"}
      BY <1>2 DEF Classify, Classes
<1>3. CASE e.content = "overlimit"
      BY <1>3 DEF Classify, Classes
<1>4. CASE e.content \notin {"locked", "panics", "overlimit"} /\ e.content # e.name
      BY <1>4 DEF Classify, Classes
<1>5. CASE e.content \notin {"locked", "panics", "overlimit"} /\ e.content = e.name
      BY <1>1, <1>5 DEF Classify, Classes, Names, Contents
<1> QED
      BY <1>2, <1>3, <1>4, <1>5

LEMMA NoPathNoChunk == ASSUME n = 0 PROVE Chunks = 0
BY DEF Chunks

LEMMA Initially == ASSUME Init PROVE IInv
<1>1. tree \in Seq(EntryType) /\ Len(tree) \in Nat
      BY ScanAssumption DEF Init
<1> QED
      BY <1>1 DEF Init, IInv, TypeOK, Nothing

LEMMA VisitKeeps == ASSUME IInv, Visit PROVE IInv'
<1>1. at \in 1 .. Len(tree) /\ Len(tree) \in Nat /\ tree[at] \in EntryType
      BY SettingsTyped DEF Visit, IInv, TypeOK
<1>2. /\ pc = "walk" /\ at' = at + 1
      /\ UNCHANGED <<tree, cap, scanAll, pc, class, cursor, result>>
      BY DEF Visit
<1>3. tree[at].depth \in Nat
      BY <1>1 DEF EntryType
<1>4. pruned' \in Nat /\ walkErrors' \in Nat
      BY <1>3 DEF Visit, IInv, TypeOK
<1>5. paths' = paths \/ paths' = Append(paths, at)
      BY DEF Visit
<1>6. paths' \in Seq(1 .. Len(tree))
  <2> DEFINE S == 1 .. Len(tree)
  <2>1. paths \in Seq(S) /\ at \in S
      BY <1>1 DEF IInv, TypeOK
  <2> HIDE DEF S
  <2>2. Append(paths, at) \in Seq(S)
      BY <2>1
  <2> QED
      BY <2>1, <2>2, <1>5 DEF S
<1> QED
      BY <1>1, <1>2, <1>4, <1>6 DEF IInv, TypeOK

LEMMA SpawnKeeps == ASSUME IInv, Spawn PROVE IInv'
<1>1. n \in Nat /\ cap \in Nat \ {0}
      BY SettingsTyped DEF IInv
<1>2. /\ pc' = "probe"
      /\ class' = [i \in 1 .. n |-> "none"]
      /\ cursor' = [k \in 1 .. Chunks |-> From(k)]
      /\ UNCHANGED <<tree, cap, scanAll, at, pruned, paths, walkErrors, result>>
      BY DEF Spawn
<1>3. n' = n /\ Chunks' = Chunks /\ \A k : From(k)' = From(k) /\ Upto(k)' = Upto(k)
      BY <1>2 DEF n, Chunks, From, Upto, ChunkSize, Workers
<1>4. \A k \in 1 .. Chunks : From(k) \in 1 .. n /\ Upto(k) \in 1 .. n /\ From(k) <= Upto(k)
  <2>1. CASE n = 0
      BY <2>1, NoPathNoChunk
  <2>2. CASE n # 0
      BY <2>2, <1>1, SliceBounds
  <2> QED
      BY <2>1, <2>2
<1>5. class' \in [1 .. n -> Classes]
      BY <1>2 DEF Classes
<1>6. cursor' \in [1 .. Chunks -> 1 .. n + 1]
      BY <1>1, <1>2, <1>4
<1>7. TypeOK'
      BY <1>2, <1>3, <1>5, <1>6 DEF IInv, TypeOK
<1>8. \A k \in 1 .. Chunks : SliceDone(k)'
      BY <1>1, <1>2, <1>3, <1>4 DEF SliceDone
<1> QED
      BY <1>2, <1>3, <1>7, <1>8 DEF IInv

LEMMA ProbeKeeps == ASSUME IInv, NEW k \in DOMAIN cursor, Probe(k) PROVE IInv'
<1>1. /\ pc = "probe" /\ cursor[k] <= Upto(k)
      /\ class' = [class EXCEPT ![cursor[k]] = Classify(tree[paths[cursor[k]]])]
      /\ cursor' = [cursor EXCEPT ![k] = @ + 1]
      /\ UNCHANGED <<tree, cap, scanAll, pc, at, pruned, paths, walkErrors, result>>
      BY DEF Probe
<1>2. n' = n /\ Chunks' = Chunks /\ \A l : From(l)' = From(l) /\ Upto(l)' = Upto(l)
      BY <1>1 DEF n, Chunks, From, Upto, ChunkSize, Workers
<1>3. /\ class \in [1 .. n -> Classes] /\ cursor \in [1 .. Chunks -> 1 .. n + 1]
      /\ k \in 1 .. Chunks
      BY <1>1 DEF IInv, TypeOK
<1>4. n \in Nat \ {0} /\ cap \in Nat \ {0}
      BY <1>3, SettingsTyped, NoPathNoChunk DEF IInv
<1>5. Chunks \in Nat
      BY <1>4, SliceSizes
<1>6. \A l \in 1 .. Chunks : From(l) \in 1 .. n /\ Upto(l) \in 1 .. n
      BY <1>4, SliceBounds
<1>7. cursor[k] \in From(k) .. Upto(k) /\ cursor[k] \in 1 .. n
      BY <1>1, <1>3, <1>4, <1>6 DEF IInv, SliceDone
<1>8. Classify(tree[paths[cursor[k]]]) \in Classes
      BY <1>7, SettingsTyped, ClassifyTyped DEF IInv
<1>9. TypeOK'
  <2>1. class' \in [1 .. n -> Classes] /\ cursor' \in [1 .. Chunks -> 1 .. n + 1]
      BY <1>1, <1>3, <1>4, <1>7, <1>8
  <2> QED
      BY <2>1, <1>1, <1>2 DEF IInv, TypeOK
<1>10. ASSUME NEW l \in 1 .. Chunks PROVE SliceDone(l)'
  <2>1. SliceDone(l) /\ SliceDone(k)
      BY <1>1, <1>3 DEF IInv
  <2>2. CASE l = k
    <3>1. cursor'[k] = cursor[k] + 1
      BY <1>1, <1>3
    <3>2. cursor'[k] \in From(k) .. Upto(k) + 1
      BY <3>1, <1>6, <1>7, <1>3
    <3>3. ASSUME NEW i \in From(k) .. cursor'[k] - 1
          PROVE  class'[i] = Classify(tree[paths[i]])
      BY <3>1, <3>3, <2>1, <1>1, <1>3, <1>6, <1>7 DEF SliceDone
    <3> QED
      BY <3>2, <3>3, <2>2, <1>1, <1>2 DEF SliceDone
  <2>3. CASE l # k
    <3>1. cursor'[l] = cursor[l]
      BY <2>3, <1>1, <1>3
    <3>2. cursor[k] \notin From(l) .. Upto(l)
      <4>1. l < k \/ k < l
        BY <2>3, <1>3, <1>5
      <4>2. CASE l < k
        BY <4>2, <1>3, <1>4, <1>6, <1>7, SlicesAreApart
      <4>3. CASE k < l
        BY <4>3, <1>3, <1>4, <1>6, <1>7, SlicesAreApart
      <4> QED
        BY <4>1, <4>2, <4>3
    <3>3. cursor[l] \in From(l) .. Upto(l) + 1
      BY <2>1 DEF SliceDone
    <3>4. ASSUME NEW i \in From(l) .. cursor[l] - 1
          PROVE  class'[i] = Classify(tree[paths[i]])
      <4>1. i \in From(l) .. Upto(l) /\ i \in 1 .. n
        BY <3>3, <3>4, <1>6, <1>4
      <4>2. i # cursor[k]
        BY <4>1, <3>2
      <4> QED
        BY <4>1, <4>2, <3>4, <2>1, <1>1, <1>3 DEF SliceDone
    <3> QED
      BY <3>1, <3>3, <3>4, <1>1, <1>2 DEF SliceDone
  <2> QED
      BY <2>2, <2>3
<1> QED
      BY <1>1, <1>2, <1>9, <1>10 DEF IInv

LEMMA MergeKeeps == ASSUME IInv, Merge PROVE IInv'
<1>1. /\ pc = "probe" /\ pc' = "done"
      /\ \A k \in DOMAIN cursor : cursor[k] > Upto(k)
      /\ result' = [found |-> [c \in Classes |-> Tally(c)], walkErrors |-> walkErrors]
      /\ UNCHANGED <<tree, cap, scanAll, at, pruned, paths, walkErrors, class, cursor>>
      BY DEF Merge
<1>2. n' = n /\ Chunks' = Chunks /\ \A k : From(k)' = From(k) /\ Upto(k)' = Upto(k)
      BY <1>1 DEF n, Chunks, From, Upto, ChunkSize, Workers
<1>3. TypeOK'
      BY <1>1, <1>2 DEF IInv, TypeOK
<1>4. \A k \in 1 .. Chunks : SliceDone(k)'
      BY <1>1, <1>2 DEF IInv, SliceDone
<1>5. \A k \in 1 .. Chunks : (Upto(k) < cursor[k])'
  <2> SUFFICES ASSUME NEW k \in 1 .. Chunks PROVE Upto(k) < cursor[k]
      BY <1>1, <1>2
  <2>1. k \in DOMAIN cursor
      BY <1>1 DEF IInv, TypeOK
  <2>2. n \in Nat \ {0} /\ cap \in Nat \ {0}
      BY SettingsTyped, NoPathNoChunk DEF IInv
  <2>3. Upto(k) \in Int /\ cursor[k] \in Int
      BY <2>1, <2>2, <1>1, SliceBounds DEF IInv, TypeOK
  <2> QED
      BY <2>1, <2>3, <1>1
<1> QED
      BY <1>1, <1>2, <1>3, <1>4, <1>5 DEF IInv

LEMMA StutterKeeps == ASSUME IInv, UNCHANGED vars PROVE IInv'
BY DEF IInv, TypeOK, SliceDone, vars, n, Chunks, From, Upto, ChunkSize, Workers, Lesser, Greater

LEMMA InductiveInvariant == Spec => []IInv
<1>1. Init => IInv
      BY Initially
<1>2. ASSUME IInv, [Next]_vars PROVE IInv'
  <2>1. CASE Visit
      BY <2>1, <1>2, VisitKeeps
  <2>2. CASE Spawn
      BY <2>2, <1>2, SpawnKeeps
  <2>3. ASSUME NEW k \in DOMAIN cursor, Probe(k) PROVE IInv'
      BY <2>3, <1>2, ProbeKeeps
  <2>4. CASE Merge
      BY <2>4, <1>2, MergeKeeps
  <2>5. CASE Done \/ UNCHANGED vars
      BY <2>5, <1>2, StutterKeeps DEF Done
  <2> QED
      BY <1>2, <2>1, <2>2, <2>3, <2>4, <2>5 DEF Next
<1> QED
      BY <1>1, <1>2, PTL DEF Spec

-----------------------------------------------------------------------------
(* The theorems *)

\* Every variable of the scan stays in its type; in particular no worker probes
\* past the list, whatever the candidates and the thread count.
THEOREM Typed == Spec => []TypeOK
<1>1. IInv => TypeOK
      BY DEF IInv
<1> QED
      BY <1>1, InductiveInvariant, PTL

\* The slices of the workers are disjoint and leave no path out.
THEOREM Partitioned == Spec => []SlicesPartition
<1>1. IInv => SlicesPartition
      BY SettingsTyped, PartitionHolds DEF IInv
<1> QED
      BY <1>1, InductiveInvariant, PTL

\* After the join every candidate of scan.rs has its own verdict, as if one
\* thread had asked one file after another.
THEOREM ParallelIsSequential == Spec => []VerdictsAreOwn
<1>1. ASSUME IInv PROVE VerdictsAreOwn
  <2> SUFFICES ASSUME pc = "done", NEW i \in 1 .. n
               PROVE  class[i] = Classify(tree[paths[i]])
      BY DEF VerdictsAreOwn
  <2>1. n \in Nat \ {0} /\ cap \in Nat \ {0}
      BY <1>1, SettingsTyped DEF IInv
  <2>2. PICK k \in 1 .. Chunks : i \in From(k) .. Upto(k)
      BY <2>1, PartitionHolds DEF SlicesPartition
  <2>3. SliceDone(k) /\ Upto(k) < cursor[k]
      BY <1>1 DEF IInv
  <2>4. From(k) \in Int /\ Upto(k) \in Int
      BY <2>1, SliceBounds
  <2>5. i \in From(k) .. cursor[k] - 1
      BY <2>2, <2>3, <2>4 DEF SliceDone
  <2> QED
      BY <2>3, <2>5 DEF SliceDone
<1> QED
      BY <1>1, InductiveInvariant, PTL

-----------------------------------------------------------------------------
(* Induction *)

LEMMA NatIsWellFounded ==
  \E R : IsWellFoundedOn(R, Nat) /\ \A k, m \in Nat : k < m => <<k, m>> \in R
<1>1. IsWellFoundedOn(OpToRel(<, Nat), Nat)
      BY NatLessThanWellFounded
<1>2. \A k, m \in Nat : k < m => <<k, m>> \in OpToRel(<, Nat)
      BY DEF OpToRel
<1> QED
      BY <1>1, <1>2

\* A set with 0 and, with each number, the next one holds every number.
LEMMA NatByInduction ==
  ASSUME NEW T, 0 \in T, \A m \in Nat : m \in T => m + 1 \in T
  PROVE  Nat \subseteq T
<1> SUFFICES ASSUME ~ Nat \subseteq T PROVE FALSE
      OBVIOUS
<1>1. PICK R : IsWellFoundedOn(R, Nat) /\ \A k, m \in Nat : k < m => <<k, m>> \in R
      BY NatIsWellFounded
<1> DEFINE U == Nat \ T
<1>2. PICK m \in U : \A k \in U : ~ (<<k, m>> \in R)
  <2>1. U \subseteq Nat /\ U # {}
      OBVIOUS
  <2> HIDE DEF U
  <2> QED
      BY <1>1, <2>1, WFMin
<1>3. m - 1 \in Nat /\ m - 1 < m /\ (m - 1) + 1 = m
      BY <1>2
<1>4. m - 1 \in T
      BY <1>1, <1>2, <1>3
<1> QED
      BY <1>2, <1>3, <1>4

-----------------------------------------------------------------------------
(* Lists of places *)

LEMMA AppendLists ==
  ASSUME NEW s \in Seq(Nat), NEW S, Lists(s, S), NEW x \in Nat, \A y \in S : y < x
  PROVE  Append(s, x) \in Seq(Nat) /\ Lists(Append(s, x), S \cup {x})
<1> DEFINE t == Append(s, x)
           m == Len(s)
<1>1. /\ m \in Nat /\ DOMAIN s = 1 .. m /\ t \in Seq(Nat) /\ DOMAIN t = 1 .. m + 1
      /\ \A i \in 1 .. m : t[i] = s[i]
      /\ t[m + 1] = x
      OBVIOUS
<1> HIDE DEF t, m
<1>2. {t[i] : i \in DOMAIN t} = {s[i] : i \in DOMAIN s} \cup {x}
      BY <1>1
<1>3. \A i \in DOMAIN s : s[i] < x
      BY DEF Lists
<1>4. ASSUME NEW i \in DOMAIN t, NEW j \in DOMAIN t, i < j PROVE t[i] < t[j]
  <2>1. i \in 1 .. m
      BY <1>1, <1>4
  <2>2. CASE j = m + 1
      BY <1>1, <1>3, <2>1, <2>2
  <2>3. CASE j # m + 1
    <3>1. j \in 1 .. m
      BY <1>1, <2>3
    <3> QED
      BY <1>1, <1>4, <2>1, <3>1 DEF Lists
  <2> QED
      BY <2>2, <2>3
<1>5. Lists(t, S \cup {x})
      BY <1>2, <1>4 DEF Lists
<1> QED
      BY <1>1, <1>5 DEF t

\* One round of the merge loop after another, for one class.
Merging(c, f, m) ==
  f = [i \in 0 .. m |->
         IF i = 0 THEN <<>> ELSE IF class[i] = c THEN Append(f[i - 1], paths[i]) ELSE f[i - 1]]

LEMMA MergingExists == ASSUME NEW c PROVE \A m \in Nat : \E f : Merging(c, f, m)
<1> DEFINE G(s, i) == IF class[i] = c THEN Append(s, paths[i]) ELSE s
           T == {m \in Nat : \E f : f = [i \in 0 .. m |-> IF i = 0 THEN <<>> ELSE G(f[i - 1], i)]}
<1> HIDE DEF G
<1>1. 0 \in T
  <2> DEFINE f == [i \in 0 .. 0 |-> <<>>]
  <2>1. f = [i \in 0 .. 0 |-> IF i = 0 THEN <<>> ELSE G(f[i - 1], i)]
      OBVIOUS
  <2> QED
      BY <2>1
<1>2. ASSUME NEW m \in Nat, m \in T PROVE m + 1 \in T
  <2>1. PICK f : f = [i \in 0 .. m |-> IF i = 0 THEN <<>> ELSE G(f[i - 1], i)]
      BY <1>2
  <2> DEFINE g == [i \in 0 .. m + 1 |-> IF i = m + 1 THEN G(f[m], m + 1) ELSE f[i]]
  <2>2. ASSUME NEW i \in 0 .. m + 1
        PROVE  g[i] = IF i = 0 THEN <<>> ELSE G(g[i - 1], i)
      BY <2>1
  <2>3. g = [i \in 0 .. m + 1 |-> g[i]]
      OBVIOUS
  <2>4. \A i \in 0 .. m + 1 : g[i] = IF i = 0 THEN <<>> ELSE G(g[i - 1], i)
      BY <2>2
  <2> HIDE DEF g
  <2>5. g = [i \in 0 .. m + 1 |-> IF i = 0 THEN <<>> ELSE G(g[i - 1], i)]
      BY <2>3, <2>4
  <2> QED
      BY <2>5
<1>3. Nat \subseteq T
      BY <1>1, <1>2, NatByInduction
<1> QED
      BY <1>3 DEF Merging, G

LEMMA TallyIsMerged ==
  ASSUME n \in Nat, NEW c
  PROVE  \E f : Merging(c, f, n) /\ Tally(c) = f[n]
<1> DEFINE g == CHOOSE f : Merging(c, f, n)
<1>1. Merging(c, g, n)
      BY MergingExists
<1>2. Tally(c) = g[n]
      BY DEF Tally, Merging
<1> QED
      BY <1>1, <1>2

\* The tally of a class is the list of its places, if the paths are in order.
LEMMA TallyLists ==
  ASSUME paths \in Seq(Nat), NEW c,
         \A i, j \in DOMAIN paths : i < j => paths[i] < paths[j]
  PROVE  Lists(Tally(c), {paths[i] : i \in {j \in 1 .. n : class[j] = c}})
<1>0. n \in Nat /\ DOMAIN paths = 1 .. n /\ \A i \in 1 .. n : paths[i] \in Nat
      BY DEF n
<1>1. PICK f : Merging(c, f, n) /\ Tally(c) = f[n]
      BY <1>0, TallyIsMerged
<1>2. /\ f[0] = <<>>
      /\ \A i \in 1 .. n : f[i] = IF class[i] = c THEN Append(f[i - 1], paths[i]) ELSE f[i - 1]
  <2> DEFINE G(s, i) == IF class[i] = c THEN Append(s, paths[i]) ELSE s
  <2>1. f = [i \in 0 .. n |-> IF i = 0 THEN <<>> ELSE G(f[i - 1], i)]
      BY <1>1 DEF Merging
  <2> HIDE DEF G
  <2>2. f[0] = <<>> /\ \A i \in 1 .. n : f[i] = G(f[i - 1], i)
      BY <1>0, <2>1
  <2> QED
      BY <2>2 DEF G
<1> DEFINE S(k) == {paths[i] : i \in {j \in 1 .. k : class[j] = c}}
           T == {k \in Nat : k <= n => f[k] \in Seq(Nat) /\ Lists(f[k], S(k))}
<1>3. 0 \in T
  <2>1. <<>> \in Seq(Nat) /\ Lists(<<>>, {})
      BY DEF Lists
  <2>2. S(0) = {}
      OBVIOUS
  <2> QED
      BY <1>2, <2>1, <2>2
<1>4. ASSUME NEW k \in Nat, k \in T PROVE k + 1 \in T
  <2> SUFFICES ASSUME k + 1 <= n PROVE f[k + 1] \in Seq(Nat) /\ Lists(f[k + 1], S(k + 1))
      OBVIOUS
  <2>1. /\ k + 1 \in 1 .. n /\ (k + 1) - 1 = k /\ k <= n
        /\ f[k] \in Seq(Nat) /\ Lists(f[k], S(k))
      BY <1>0, <1>4
  <2>2. CASE class[k + 1] = c
    <3>1. f[k + 1] = Append(f[k], paths[k + 1])
      BY <1>2, <2>1, <2>2
    <3>2. S(k + 1) = S(k) \cup {paths[k + 1]}
      BY <1>0, <2>1, <2>2
    <3>3. paths[k + 1] \in Nat /\ \A y \in S(k) : y < paths[k + 1]
      BY <1>0, <2>1
    <3> DEFINE U == S(k)
               s == f[k]
               x == paths[k + 1]
    <3>4. s \in Seq(Nat) /\ Lists(s, U) /\ x \in Nat /\ \A y \in U : y < x
      BY <2>1, <3>3
    <3> HIDE DEF U, s, x
    <3>5. Append(s, x) \in Seq(Nat) /\ Lists(Append(s, x), U \cup {x})
      BY <3>4, AppendLists
    <3> QED
      BY <3>1, <3>2, <3>5 DEF U, s, x
  <2>3. CASE class[k + 1] # c
    <3>1. f[k + 1] = f[k]
      BY <1>2, <2>1, <2>3
    <3>2. S(k + 1) = S(k)
      BY <1>0, <2>1, <2>3
    <3> QED
      BY <2>1, <3>1, <3>2
  <2> QED
      BY <2>2, <2>3
<1>5. n \in T
      BY <1>0, <1>3, <1>4, NatByInduction
<1> QED
      BY <1>0, <1>1, <1>5

-----------------------------------------------------------------------------
(* The walk *)

\* Every entry after j so far is below it.
Open(j) == \A k \in j + 1 .. at - 1 : tree[k].depth > tree[j].depth

\* The outermost directory passed over that the walk has not left yet is what
\* `pruned` stands for.
PrunedStory ==
  /\ pruned # 0 =>
       \E j \in 1 .. at - 1 : Prunes(tree[j]) /\ Open(j) /\ tree[j].depth = pruned
  /\ \A j \in 1 .. at - 1 :
       Prunes(tree[j]) /\ Open(j) => pruned # 0 /\ pruned <= tree[j].depth

\* The walk has collected what it came past, and the merge what it found there.
WalkInv ==
  /\ pc = "walk" => PrunedStory
  /\ pc # "walk" => at = Len(tree) + 1
  /\ Lists(paths, Wanted \cap 1 .. at - 1)
  /\ walkErrors = Cardinality(Unreadable \cap 1 .. at - 1)

Found == [c \in Classes |-> Tally(c)]

Merged == pc = "done" => result = [found |-> Found, walkErrors |-> walkErrors]

LEMMA PathsAreNumbers == ASSUME TypeOK PROVE paths \in Seq(Nat)
<1>1. paths \in Seq(1 .. Len(tree)) /\ 1 .. Len(tree) \subseteq Nat
      BY SettingsTyped DEF TypeOK
<1> QED
      BY <1>1

LEMMA WalkInit == ASSUME Init PROVE WalkInv /\ Merged
<1>1. at = 1 /\ pc = "walk" /\ pruned = 0 /\ paths = <<>> /\ walkErrors = 0
      BY DEF Init
<1>2. 1 .. at - 1 = {}
      BY <1>1
<1>3. Lists(<<>>, {})
      BY DEF Lists
<1>4. Cardinality({}) = 0
      BY FS_EmptySet
<1>5. PrunedStory
      BY <1>1, <1>2 DEF PrunedStory
<1> QED
      BY <1>1, <1>2, <1>3, <1>4, <1>5 DEF WalkInv, Merged

\* The walk resumes at an entry exactly if nothing above that is passed over.
LEMMA ResumesIfReached ==
  ASSUME TypeOK, PrunedStory, at \in 1 .. Len(tree)
  PROVE  Resumes(tree[at]) <=> Reached(at)
<1>1. /\ Len(tree) \in Nat /\ pruned \in Nat
      /\ \A i \in 1 .. Len(tree) : tree[i].depth \in Nat \ {0}
      BY SettingsTyped DEF TypeOK, EntryType
<1>2. \A j \in 1 .. at - 1 : Above(j, at) <=> Open(j) /\ tree[at].depth > tree[j].depth
      BY <1>1 DEF Above, Open
<1>3. ASSUME ~ Resumes(tree[at]) PROVE ~ Reached(at)
  <2>1. pruned # 0 /\ ~ (tree[at].depth <= pruned)
      BY <1>3 DEF Resumes
  <2>2. PICK j \in 1 .. at - 1 : Prunes(tree[j]) /\ Open(j) /\ tree[j].depth = pruned
      BY <2>1 DEF PrunedStory
  <2>3. tree[at].depth > tree[j].depth
      BY <1>1, <2>1, <2>2
  <2> QED
      BY <1>2, <2>2, <2>3 DEF Reached
<1>4. ASSUME ~ Reached(at) PROVE ~ Resumes(tree[at])
  <2>1. PICK j \in 1 .. at - 1 : Above(j, at) /\ Prunes(tree[j])
      BY <1>4 DEF Reached
  <2>2. Open(j) /\ tree[at].depth > tree[j].depth
      BY <1>2, <2>1
  <2>3. pruned # 0 /\ pruned <= tree[j].depth
      BY <2>1, <2>2 DEF PrunedStory
  <2>4. j \in 1 .. Len(tree)
      BY <1>1
  <2> QED
      BY <1>1, <2>2, <2>3, <2>4 DEF Resumes
<1> QED
      BY <1>3, <1>4

\* Going on by one entry, the walk still knows what it passes over.
LEMMA PrunedKept == ASSUME TypeOK, PrunedStory, Visit PROVE PrunedStory'
<1> DEFINE e == tree[at]
<1>1. /\ Len(tree) \in Nat /\ pruned \in Nat /\ at \in 1 .. Len(tree)
      /\ \A i \in 1 .. Len(tree) : tree[i].depth \in Nat \ {0}
      /\ at' = at + 1 /\ tree' = tree /\ at' - 1 = at
      BY SettingsTyped DEF TypeOK, EntryType, Visit
<1>2. pruned' = IF ~ Resumes(e) THEN pruned ELSE IF Prunes(e) THEN e.depth ELSE 0
      BY DEF Visit
<1> DEFINE Later(j) == \A k \in j + 1 .. at : tree[k].depth > tree[j].depth
<1>3. /\ \A j \in 1 .. at - 1 : Later(j) <=> Open(j) /\ e.depth > tree[j].depth
      /\ Later(at)
      BY <1>1 DEF Open
<1>4. /\ pruned' # 0 =>
           \E j \in 1 .. at : Prunes(tree[j]) /\ Later(j) /\ tree[j].depth = pruned'
      /\ \A j \in 1 .. at :
           Prunes(tree[j]) /\ Later(j) => pruned' # 0 /\ pruned' <= tree[j].depth
  <2> HIDE DEF Later
  <2>1. CASE ~ Resumes(e)
    <3>1. pruned' = pruned /\ pruned # 0 /\ pruned < e.depth
      BY <1>1, <1>2, <2>1 DEF Resumes
    <3>2. PICK j \in 1 .. at - 1 : Prunes(tree[j]) /\ Open(j) /\ tree[j].depth = pruned
      BY <3>1 DEF PrunedStory
    <3>3. Later(j) /\ j \in 1 .. at
      BY <1>1, <1>3, <3>1, <3>2
    <3>4. ASSUME NEW i \in 1 .. at, Prunes(tree[i]), Later(i) PROVE pruned <= tree[i].depth
      <4>1. CASE i = at
        BY <1>1, <3>1, <4>1
      <4>2. CASE i # at
        <5>1. i \in 1 .. at - 1
          BY <1>1, <4>2
        <5> QED
          BY <1>3, <3>4, <5>1 DEF PrunedStory
      <4> QED
        BY <4>1, <4>2
    <3> QED
      BY <3>1, <3>2, <3>3, <3>4
  <2>2. CASE Resumes(e)
    <3>1. ASSUME NEW i \in 1 .. at - 1, Prunes(tree[i]), Later(i) PROVE FALSE
      <4>1. Open(i) /\ e.depth > tree[i].depth
        BY <1>3, <3>1
      <4>2. pruned # 0 /\ pruned <= tree[i].depth
        BY <3>1, <4>1 DEF PrunedStory
      <4>3. i \in 1 .. Len(tree)
        BY <1>1
      <4> QED
        BY <1>1, <2>2, <4>1, <4>2, <4>3 DEF Resumes
    <3>2. \A i \in 1 .. at : Prunes(tree[i]) /\ Later(i) => i = at
      BY <1>1, <3>1
    <3>3. at \in 1 .. at /\ e.depth \in Nat \ {0}
      BY <1>1
    <3> QED
      BY <1>2, <1>3, <2>2, <3>2, <3>3
  <2> QED
      BY <2>1, <2>2
<1> QED
      BY <1>1, <1>4 DEF PrunedStory, Open, Prunes

LEMMA OneMore ==
  ASSUME NEW S, NEW a \in Nat \ {0}
  PROVE  S \cap 1 .. a = IF a \in S THEN (S \cap 1 .. a - 1) \cup {a} ELSE S \cap 1 .. a - 1
<1>1. 1 .. a = (1 .. a - 1) \cup {a}
      OBVIOUS
<1> QED
      BY <1>1

LEMMA VisitWalks == ASSUME IInv, WalkInv, Visit PROVE WalkInv'
<1>1. /\ TypeOK /\ pc = "walk" /\ at \in 1 .. Len(tree) /\ Len(tree) \in Nat
      /\ at' = at + 1 /\ at' - 1 = at /\ at \in Nat \ {0}
      /\ UNCHANGED <<tree, scanAll, pc>>
      BY SettingsTyped DEF Visit, IInv, TypeOK
<1>2. PrunedStory /\ PrunedStory'
      BY <1>1, PrunedKept DEF WalkInv
<1>3. Resumes(tree[at]) <=> Reached(at)
      BY <1>1, <1>2, ResumesIfReached
<1>4. /\ at \in Wanted <=> Resumes(tree[at]) /\ Candidate(tree[at])
      /\ at \in Unreadable <=> Resumes(tree[at]) /\ tree[at].type = "broken"
  <2>1. at \in DOMAIN tree
      BY <1>1, SettingsTyped
  <2> QED
      BY <1>3, <2>1 DEF Wanted, Unreadable
<1>5. Wanted' = Wanted /\ Unreadable' = Unreadable
      BY <1>1 DEF Wanted, Unreadable, Reached, Above, Candidate, Prunes
<1>6. Lists(paths', Wanted \cap 1 .. at)
  <2> DEFINE S == Wanted \cap 1 .. at - 1
  <2>1. paths \in Seq(Nat) /\ Lists(paths, S) /\ \A y \in S : y < at
      BY <1>1, PathsAreNumbers DEF WalkInv
  <2>2. paths' = IF at \in Wanted THEN Append(paths, at) ELSE paths
      BY <1>4 DEF Visit
  <2>3. Wanted \cap 1 .. at = IF at \in Wanted THEN S \cup {at} ELSE S
      BY <1>1, OneMore
  <2> HIDE DEF S
  <2>4. Lists(Append(paths, at), S \cup {at})
      BY <1>1, <2>1, AppendLists
  <2> QED
      BY <2>1, <2>2, <2>3, <2>4
<1>7. walkErrors' = Cardinality(Unreadable \cap 1 .. at)
  <2> DEFINE S == Unreadable \cap 1 .. at - 1
  <2>1. IsFiniteSet(S) /\ at \notin S
    <3>1. IsFiniteSet(1 .. at - 1)
      BY <1>1, FS_Interval
    <3> QED
      BY <1>1, <3>1, FS_Subset
  <2>2. walkErrors' = IF at \in Unreadable THEN walkErrors + 1 ELSE walkErrors
      BY <1>4 DEF Visit
  <2>3. Unreadable \cap 1 .. at = IF at \in Unreadable THEN S \cup {at} ELSE S
      BY <1>1, OneMore
  <2>4. walkErrors = Cardinality(S)
      BY DEF WalkInv
  <2> HIDE DEF S
  <2>5. Cardinality(S \cup {at}) = Cardinality(S) + 1
      BY <2>1, FS_AddElement
  <2> QED
      BY <2>2, <2>3, <2>4, <2>5
<1> QED
      BY <1>1, <1>2, <1>5, <1>6, <1>7 DEF WalkInv

\* After the walk only the verdicts change.
LEMMA ProbingWalks ==
  ASSUME IInv, WalkInv, Merged, [Next]_vars, ~ Visit PROVE WalkInv' /\ Merged'
<1>1. /\ UNCHANGED <<tree, scanAll, at, pruned, paths, walkErrors>>
      /\ pc' = "walk" => pc = "walk"
      /\ pc = "walk" /\ pc' # "walk" => at > Len(tree)
      BY DEF Next, Spawn, Probe, Merge, Done, vars
<1>2. Wanted' = Wanted /\ Unreadable' = Unreadable
      BY <1>1 DEF Wanted, Unreadable, Reached, Above, Candidate, Prunes
<1>3. PrunedStory => PrunedStory'
      BY <1>1 DEF PrunedStory, Open, Prunes
<1>4. pc' # "walk" => at = Len(tree) + 1
  <2>1. Len(tree) \in Nat /\ at \in 1 .. Len(tree) + 1
      BY SettingsTyped DEF IInv, TypeOK
  <2> QED
      BY <1>1, <2>1 DEF WalkInv
<1>5. WalkInv'
      BY <1>1, <1>2, <1>3, <1>4 DEF WalkInv
<1>6. Merged'
  <2>1. CASE Merge
    <3>1. /\ UNCHANGED <<paths, class, walkErrors>>
          /\ result' = [found |-> Found, walkErrors |-> walkErrors]
      BY <2>1 DEF Merge, Found
    <3>2. Found' = Found
      BY <3>1 DEF Found, Tally, n
    <3> QED
      BY <3>1, <3>2 DEF Merged
  <2>2. CASE Spawn \/ \E k \in DOMAIN cursor : Probe(k)
    <3>1. pc' # "done"
      BY <2>2 DEF Spawn, Probe
    <3> QED
      BY <3>1 DEF Merged
  <2>3. CASE UNCHANGED vars
    <3>1. Found' = Found /\ UNCHANGED <<pc, result, walkErrors>>
      BY <2>3 DEF Found, Tally, n, vars
    <3> QED
      BY <3>1 DEF Merged
  <2> QED
      BY <2>1, <2>2, <2>3 DEF Next, Done
<1> QED
      BY <1>5, <1>6

LEMMA WalkInvariant == Spec => [](WalkInv /\ Merged)
<1>1. Init => WalkInv /\ Merged
      BY WalkInit
<1>2. ASSUME IInv, WalkInv, Merged, [Next]_vars PROVE WalkInv' /\ Merged'
  <2>1. CASE Visit
    <3>1. pc' # "done"
      BY <2>1 DEF Visit
    <3> QED
      BY <1>2, <2>1, <3>1, VisitWalks DEF Merged
  <2>2. CASE ~ Visit
      BY <1>2, <2>2, ProbingWalks
  <2> QED
      BY <2>1, <2>2
<1>3. IInv /\ WalkInv /\ Merged /\ [Next]_vars => WalkInv' /\ Merged'
      BY <1>2
<1> QED
      BY <1>1, <1>3, InductiveInvariant, PTL DEF Spec

\* Whatever the tree, the number of threads and their interleaving, a scan finds
\* what one thread asking one file after another would, in walk order.
THEOREM ScansAreSequential == Spec => []ScanIsSequential
<1>1. ASSUME IInv, WalkInv, Merged, VerdictsAreOwn PROVE ScanIsSequential
  <2> SUFFICES ASSUME pc = "done"
               PROVE  /\ \A c \in Classes :
                           Lists(result.found[c], {i \in Wanted : Classify(tree[i]) = c})
                      /\ result.walkErrors = Cardinality(Unreadable)
      BY DEF ScanIsSequential
  <2>1. /\ TypeOK /\ Len(tree) \in Nat /\ DOMAIN tree = 1 .. Len(tree) /\ at - 1 = Len(tree)
        /\ paths \in Seq(Nat)
      BY <1>1, SettingsTyped, PathsAreNumbers DEF WalkInv, IInv
  <2>2. Wanted \cap 1 .. at - 1 = Wanted /\ Unreadable \cap 1 .. at - 1 = Unreadable
      BY <2>1 DEF Wanted, Unreadable
  <2>3. Lists(paths, Wanted) /\ walkErrors = Cardinality(Unreadable)
      BY <1>1, <2>2 DEF WalkInv
  <2>4. result.found = Found /\ result.walkErrors = walkErrors
      BY <1>1 DEF Merged
  <2>5. ASSUME NEW c \in Classes
        PROVE  Lists(result.found[c], {i \in Wanted : Classify(tree[i]) = c})
    <3>1. Lists(Tally(c), {paths[i] : i \in {j \in 1 .. n : class[j] = c}})
      BY <2>1, <2>3, TallyLists DEF Lists
    <3>2. DOMAIN paths = 1 .. n
      BY <2>1 DEF n
    <3>3. \A j \in 1 .. n : class[j] = Classify(tree[paths[j]])
      BY <1>1 DEF VerdictsAreOwn
    <3>4. Wanted = {paths[i] : i \in 1 .. n}
      BY <2>3, <3>2 DEF Lists
    <3>5. {paths[i] : i \in {j \in 1 .. n : class[j] = c}} = {i \in Wanted : Classify(tree[i]) = c}
      BY <3>3, <3>4
    <3> QED
      BY <2>4, <3>1, <3>5 DEF Found
  <2> QED
      BY <2>3, <2>4, <2>5
<1> QED
      BY <1>1, InductiveInvariant, WalkInvariant, ParallelIsSequential, PTL
=============================================================================
