-------------------------- MODULE Diagnostics_proofs --------------------------
(***************************************************************************)
(* What the structural checks promise of every image: a report of a PE     *)
(* table is exhaustive or says that it is not, silent ELF tables resolve,  *)
(* overlapping segments are noticed, and a PE image without an issue has   *)
(* imports and relocations that can be walked.                             *)
(***************************************************************************)
EXTENDS Diagnostics, Integers, SequenceTheorems, FiniteSetTheorems, WellFoundedInduction, TLAPS

-----------------------------------------------------------------------------
(* Induction over the naturals, and what is computed along them.           *)

\* Less-than on the naturals, as the relation the library says is well-founded.
LEMMA NatIsWellFounded ==
  \E R : IsWellFoundedOn(R, Nat) /\ \A k, m \in Nat : k < m => <<k, m>> \in R
  <1>1. IsWellFoundedOn(OpToRel(<, Nat), Nat)
    BY NatLessThanWellFounded
  <1>2. \A k, m \in Nat : k < m => <<k, m>> \in OpToRel(<, Nat)
    BY DEF OpToRel
  <1> QED BY <1>1, <1>2

\* Every non-empty set of naturals has a least element.
LEMMA LeastOf ==
  ASSUME NEW T, T \subseteq Nat, T # {}
  PROVE  \E m \in T : \A k \in T : m <= k
  <1>1. PICK R : IsWellFoundedOn(R, Nat) /\ \A k, m \in Nat : k < m => <<k, m>> \in R
    BY NatIsWellFounded
  <1>2. PICK m \in T : \A k \in T : ~ (<<k, m>> \in R)
    <2>1. IsWellFoundedOn(R, Nat)
      BY <1>1
    <2> QED BY <2>1, WFMin
  <1>3. ASSUME NEW k \in T
        PROVE  m <= k
    <2>1. k \in Nat /\ m \in Nat /\ ~ (<<k, m>> \in R)
      BY <1>2
    <2>2. ~ (k < m)
      BY <1>1, <2>1
    <2> QED BY <2>1, <2>2
  <1> QED BY <1>3

\* A set with 0 and, with each number, the next one holds every number.
LEMMA NatByInduction ==
  ASSUME NEW T, 0 \in T, \A n \in Nat : n \in T => n + 1 \in T
  PROVE  Nat \subseteq T
  <1> SUFFICES ASSUME ~ Nat \subseteq T PROVE FALSE
    OBVIOUS
  <1>1. PICK m \in Nat \ T : \A k \in Nat \ T : m <= k
    BY LeastOf
  <1>2. m - 1 \in Nat /\ m - 1 \in T
    BY <1>1
  <1> QED BY <1>1, <1>2, m - 1 + 1 = m

\* A set with 0 and, with each number up to n, the next one holds those numbers.
LEMMA UpTo ==
  ASSUME NEW n \in Nat, NEW T, 0 \in T, \A i \in 1..n : i - 1 \in T => i \in T
  PROVE  0..n \subseteq T
  <1> DEFINE U == {i \in Nat : i <= n => i \in T}
  <1>1. 0 \in U
    OBVIOUS
  <1>2. ASSUME NEW i \in Nat, i \in U
        PROVE  i + 1 \in U
    <2>1. CASE i + 1 <= n
      <3>1. i + 1 \in 1..n /\ (i + 1) - 1 = i /\ i \in T
        BY <1>2, <2>1
      <3> QED BY <3>1
    <2> QED BY <2>1
  <1>3. Nat \subseteq U
    <2> HIDE DEF U
    <2> QED BY <1>1, <1>2, NatByInduction
  <1> QED BY <1>3

\* What a recursive function computes: it exists when every step stays in V.
Steps(f, n, base, go) == f = [i \in 0..n |-> IF i = 0 THEN base ELSE go[<<f[i - 1], i>>]]

\* Such a function exists, and all it gives is in V.
LEMMA StepsExist ==
  ASSUME NEW n \in Nat, NEW V, NEW base \in V, NEW go \in [V \X (1..n) -> V]
  PROVE  \E f \in [0..n -> V] : Steps(f, n, base, go)
  <1> DEFINE Good(m, f) == f = [i \in 0..m |-> IF i = 0 THEN base ELSE go[<<f[i - 1], i>>]]
             T == {m \in 0..n : \E f \in [0..m -> V] : Good(m, f)}
  <1>1. 0 \in T
    <2> DEFINE f == [i \in 0..0 |-> base]
    <2>1. f \in [0..0 -> V] /\ Good(0, f)
      OBVIOUS
    <2>2. 0 \in 0..n
      OBVIOUS
    <2> HIDE DEF f, Good
    <2> QED BY <2>1, <2>2
  <1>2. ASSUME NEW m \in 1..n, m - 1 \in T
        PROVE  m \in T
    <2>1. PICK f \in [0..m - 1 -> V] : Good(m - 1, f)
      BY <1>2
    <2> DEFINE v == go[<<f[m - 1], m>>]
               g == [i \in 0..m |-> IF i = m THEN v ELSE f[i]]
    <2>2. v \in V
      <3>1. m - 1 \in 0..m - 1
        OBVIOUS
      <3> QED BY <2>1, <3>1
    <2> HIDE DEF v
    <2>3. g \in [0..m -> V]
      BY <2>1, <2>2
    <2>4. ASSUME NEW i \in 0..m
          PROVE  g[i] = IF i = 0 THEN base ELSE go[<<g[i - 1], i>>]
      <3>1. CASE i = m
        <4>1. m # 0 /\ m - 1 \in 0..m /\ m - 1 # m /\ m \in 0..m
          OBVIOUS
        <4>2. g[m - 1] = f[m - 1] /\ g[m] = v
          BY <4>1
        <4> HIDE DEF g
        <4> QED BY <3>1, <4>1, <4>2 DEF v
      <3>2. CASE i # m
        <4>1. i \in 0..m - 1 /\ (i # 0 => i - 1 \in 0..m /\ i - 1 # m)
          BY <3>2
        <4>2. f[i] = IF i = 0 THEN base ELSE go[<<f[i - 1], i>>]
          BY <2>1, <4>1
        <4>3. g[i] = f[i] /\ (i # 0 => g[i - 1] = f[i - 1])
          BY <3>2, <4>1
        <4> HIDE DEF g
        <4> QED BY <4>2, <4>3
      <3> QED BY <3>1, <3>2
    <2> HIDE DEF g
    <2>5. Good(m, g)
      BY <2>3, <2>4
    <2> HIDE DEF Good
    <2> QED BY <2>3, <2>5
  <1>3. 0..n \subseteq T
    <2> HIDE DEF T
    <2> QED BY <1>1, <1>2, UpTo
  <1>4. n \in T
    BY <1>3
  <1> HIDE DEF Good
  <1>5. PICK f \in [0..n -> V] : Good(n, f)
    BY <1>4
  <1> QED BY <1>5 DEF Good, Steps

\* What is built entry by entry from a set stays in it.
LEMMA StepsStay ==
  ASSUME NEW n \in Nat, NEW V, NEW f, f[0] \in V, \A i \in 1..n : f[i - 1] \in V => f[i] \in V
  PROVE  f[n] \in V
  <1> DEFINE T == {i \in 0..n : f[i] \in V}
  <1>1. 0 \in T /\ \A i \in 1..n : i - 1 \in T => i \in T
    OBVIOUS
  <1>2. 0..n \subseteq T
    <2> HIDE DEF T
    <2> QED BY <1>1, UpTo
  <1> QED BY <1>2

-----------------------------------------------------------------------------
(* Lists.                                                                  *)

\* A sequence is a list of what it holds.
LEMMA SeqOverItself ==
  ASSUME NEW T, NEW s \in Seq(T)
  PROVE  Listed(s)
  <1>1. Len(s) \in Nat /\ DOMAIN s = 1..Len(s) /\ s = [i \in 1..Len(s) |-> s[i]]
    OBVIOUS
  <1>2. \A i \in 1..Len(s) : s[i] \in {s[j] : j \in DOMAIN s}
    BY <1>1
  <1>3. s \in [1..Len(s) -> {s[j] : j \in DOMAIN s}]
    BY <1>1, <1>2
  <1> QED BY <1>1, <1>3, SeqDef DEF Listed

\* Nothing is in the empty sequence.
LEMMA EmptyHolds == Listed(<<>>) /\ Len(<<>>) = 0 /\ ToSet(<<>>) = {}
  <1>1. <<>> \in Seq({}) /\ Len(<<>>) = 0 /\ DOMAIN <<>> = {}
    OBVIOUS
  <1>2. ToSet(<<>>) = {}
    BY <1>1 DEF ToSet
  <1> QED BY <1>1, <1>2, SeqOverItself

\* What two sequences hold, one behind the other.
LEMMA ConcatSets ==
  ASSUME NEW s, NEW t, Listed(s), Listed(t)
  PROVE  ToSet(s \o t) = ToSet(s) \cup ToSet(t)
  <1> DEFINE T == ToSet(s) \cup ToSet(t)
  <1>1. s \in Seq(T) /\ t \in Seq(T)
    BY SeqMonotonic DEF Listed, ToSet
  <1> HIDE DEF T
  <1>2. /\ Len(s) \in Nat /\ Len(t) \in Nat /\ DOMAIN s = 1..Len(s) /\ DOMAIN t = 1..Len(t)
        /\ s \o t \in Seq(T) /\ Len(s \o t) = Len(s) + Len(t)
        /\ \A i \in 1..Len(s) + Len(t) :
             (s \o t)[i] = IF i <= Len(s) THEN s[i] ELSE t[i - Len(s)]
    BY <1>1, ConcatProperties
  <1> DEFINE u == s \o t
  <1>3. DOMAIN u = 1..Len(s) + Len(t)
    BY <1>2
  <1>4. \A i \in 1..Len(s) + Len(t) : u[i] = IF i <= Len(s) THEN s[i] ELSE t[i - Len(s)]
    BY <1>2
  <1> HIDE DEF u
  <1>5. ASSUME NEW i \in DOMAIN u
        PROVE  u[i] \in ToSet(s) \cup ToSet(t)
    <2>1. CASE i <= Len(s)
      <3>1. i \in DOMAIN s
        BY <1>2, <1>3, <2>1
      <3> QED BY <1>3, <1>4, <2>1, <3>1 DEF ToSet
    <2>2. CASE ~ (i <= Len(s))
      <3>1. i - Len(s) \in DOMAIN t
        BY <1>2, <1>3, <2>2
      <3> QED BY <1>3, <1>4, <2>2, <3>1 DEF ToSet
    <2> QED BY <2>1, <2>2
  <1>6. ASSUME NEW i \in DOMAIN s
        PROVE  s[i] \in ToSet(u)
    <2>1. i \in DOMAIN u /\ u[i] = s[i]
      BY <1>2, <1>3, <1>4
    <2> QED BY <2>1 DEF ToSet
  <1>7. ASSUME NEW i \in DOMAIN t
        PROVE  t[i] \in ToSet(u)
    <2>1. Len(s) + i \in DOMAIN u /\ ~ (Len(s) + i <= Len(s)) /\ Len(s) + i - Len(s) = i
      BY <1>2, <1>3
    <2>2. u[Len(s) + i] = t[i]
      BY <1>3, <1>4, <2>1
    <2> QED BY <2>1, <2>2 DEF ToSet
  <1>8. ToSet(u) = ToSet(s) \cup ToSet(t)
    BY <1>5, <1>6, <1>7 DEF ToSet
  <1> QED BY <1>8 DEF u

\* How long a list is, and where it has entries.
LEMMA ListFacts ==
  ASSUME NEW s, Listed(s)
  PROVE  Len(s) \in Nat /\ DOMAIN s = 1..Len(s) /\ s = [i \in 1..Len(s) |-> s[i]]
  <1> DEFINE T == {s[i] : i \in DOMAIN s}
  <1>1. s \in Seq(T)
    BY DEF Listed
  <1> HIDE DEF T
  <1> QED BY <1>1

\* A function on the first numbers is a list.
LEMMA Counted ==
  ASSUME NEW n \in Nat, NEW f, DOMAIN f = 1..n, f = [i \in 1..n |-> f[i]]
  PROVE  Listed(f) /\ Len(f) = n
  <1> DEFINE T == {f[i] : i \in DOMAIN f}
  <1>1. \A i \in 1..n : f[i] \in T
    OBVIOUS
  <1> HIDE DEF T
  <1>2. f \in [1..n -> T]
    BY <1>1
  <1>3. f \in Seq(T)
    BY <1>2, SeqDef
  <1>4. Len(f) = n
    <2>1. Len(f) \in Nat /\ DOMAIN f = 1..Len(f)
      BY <1>3
    <2> QED BY <2>1
  <1> QED BY <1>3, <1>4 DEF Listed, T

\* The first entries of a list.
LEMMA FirstOnes ==
  ASSUME NEW s, Listed(s), NEW k \in 0..Len(s)
  PROVE  LET t == SubSeq(s, 1, k) IN
         /\ Listed(t) /\ Len(t) = k /\ DOMAIN t = 1..k
         /\ \A i \in 1..k : t[i] = s[i]
         /\ ToSet(t) \subseteq ToSet(s)
         /\ k = Len(s) => t = s
  <1> DEFINE T == ToSet(s)
             t == SubSeq(s, 1, k)
  <1>1. Len(s) \in Nat /\ DOMAIN s = 1..Len(s)
    BY ListFacts
  <1>2. k \in Int /\ 1 \in Int /\ \A i \in 1..k : s[i] \in T
    BY <1>1 DEF ToSet
  <1> HIDE DEF T
  <1>3. /\ t \in Seq(T) /\ Len(t) = (IF 1 <= k THEN k - 1 + 1 ELSE 0)
        /\ \A i \in 1..k - 1 + 1 : t[i] = s[1 + i - 1]
    BY <1>2, SubSeqProperties
  <1> HIDE DEF t
  <1>4. Len(t) = k /\ DOMAIN t = 1..k /\ \A i \in 1..k : t[i] = s[i]
    BY <1>1, <1>3
  <1>5. Listed(t)
    BY <1>3, SeqOverItself
  <1>6. ToSet(t) \subseteq ToSet(s)
    BY <1>1, <1>4 DEF ToSet
  <1>7. ASSUME k = Len(s)
        PROVE  t = s
    <2>1. t = [i \in 1..k |-> t[i]]
      BY <1>4, <1>5, ListFacts
    <2>2. s = [i \in 1..k |-> s[i]]
      BY <1>7, ListFacts
    <2> QED BY <1>4, <2>1, <2>2
  <1> QED BY <1>4, <1>5, <1>6, <1>7 DEF t

\* One list behind the other.
LEMMA ConcatList ==
  ASSUME NEW s, NEW t, Listed(s), Listed(t)
  PROVE  Listed(s \o t) /\ Len(s \o t) = Len(s) + Len(t) /\ ToSet(s \o t) = ToSet(s) \cup ToSet(t)
  <1> DEFINE T == ToSet(s) \cup ToSet(t)
  <1>1. s \in Seq(T) /\ t \in Seq(T)
    BY SeqMonotonic DEF Listed, ToSet
  <1> HIDE DEF T
  <1>2. s \o t \in Seq(T) /\ Len(s \o t) = Len(s) + Len(t)
    BY <1>1, ConcatProperties
  <1> QED BY <1>2, SeqOverItself, ConcatSets

\* A list without entries, and one without elements.
LEMMA NoneListed ==
  ASSUME NEW s, Listed(s)
  PROVE  (Len(s) = 0 <=> s = <<>>) /\ (ToSet(s) = {} <=> s = <<>>)
  <1> DEFINE T == {s[i] : i \in DOMAIN s}
  <1>1. s \in Seq(T)
    BY DEF Listed
  <1> HIDE DEF T
  <1>2. Len(s) = 0 <=> s = <<>>
    BY <1>1, EmptySeq
  <1>3. ASSUME Len(s) # 0
        PROVE  ToSet(s) # {}
    <2>1. 1 \in DOMAIN s
      BY <1>3, ListFacts
    <2> QED BY <2>1 DEF ToSet
  <1> QED BY <1>2, <1>3, EmptyHolds

\* A list of one entry.
LEMMA OneListed ==
  ASSUME NEW x
  PROVE  Listed(<<x>>) /\ Len(<<x>>) = 1 /\ ToSet(<<x>>) = {x}
  <1>1. <<x>> \in Seq({x}) /\ Len(<<x>>) = 1 /\ DOMAIN <<x>> = 1..1 /\ <<x>>[1] = x
    OBVIOUS
  <1>2. ToSet(<<x>>) = {x}
    <2> DEFINE s == <<x>>
    <2>1. DOMAIN s = 1..1 /\ s[1] = x
      BY <1>1
    <2> HIDE DEF s
    <2>2. ToSet(s) = {x}
      BY <2>1 DEF ToSet
    <2> QED BY <2>2 DEF s
  <1> QED BY <1>1, <1>2, SeqOverItself

\* Flattening goes through the lists one by one.
LEMMA FlattenReaches ==
  ASSUME NEW seqs, Listed(seqs), \A i \in 1..Len(seqs) : Listed(seqs[i]),
         NEW f, f[0] = <<>>, \A i \in 1..Len(seqs) : f[i] = f[i - 1] \o seqs[i]
  PROVE  FlattenSeq(seqs) = f[Len(seqs)]
  <1> DEFINE n == Len(seqs)
             First(g) == g = [i \in 1..n |-> IF i = 1 THEN seqs[i] ELSE g[i - 1] \o seqs[i]]
             first == CHOOSE g : First(g)
             h == [i \in 1..n |-> f[i]]
  <1>1. n \in Nat /\ DOMAIN seqs = 1..n
    BY ListFacts
  <1>2. CASE n = 0
    <2>1. seqs = <<>>
      BY <1>2, NoneListed
    <2>2. FlattenSeq(seqs) = seqs
      BY <1>2 DEF FlattenSeq
    <2> QED BY <1>2, <2>1, <2>2
  <1>3. CASE n # 0
    <2>1. FlattenSeq(seqs) = first[n]
      BY <1>3 DEF FlattenSeq
    <2> HIDE DEF n, first
    <2>2. f[1] = seqs[1]
      <3>1. 1 \in 1..n /\ 1 - 1 = 0
        BY <1>1, <1>3
      <3>2. f[1] = <<>> \o seqs[1] /\ Listed(seqs[1])
        BY <3>1 DEF n
      <3>3. seqs[1] \in Seq({seqs[1][j] : j \in DOMAIN seqs[1]})
        BY <3>2 DEF Listed
      <3> QED BY <3>2, <3>3, ConcatEmptySeq
    <2>3. ASSUME NEW i \in 1..n
          PROVE  h[i] = IF i = 1 THEN seqs[i] ELSE h[i - 1] \o seqs[i]
      <3>1. i # 1 => i - 1 \in 1..n
        BY <1>1
      <3>2. f[i] = f[i - 1] \o seqs[i]
        BY DEF n
      <3> QED BY <2>2, <3>1, <3>2
    <2>4. First(h)
      <3>1. h = [i \in 1..n |-> h[i]]
        OBVIOUS
      <3> HIDE DEF h
      <3> QED BY <2>3, <3>1
    <2>5. First(first)
      <3> HIDE DEF First, h
      <3> QED BY <2>4 DEF first
    <2> HIDE DEF h
    <2> DEFINE T == {i \in 0..n : i # 0 => first[i] = f[i]}
    <2>6. ASSUME NEW i \in 1..n, i - 1 \in T
          PROVE  i \in T
      <3>1. first[i] = IF i = 1 THEN seqs[i] ELSE first[i - 1] \o seqs[i]
        BY <2>5
      <3>2. f[i] = f[i - 1] \o seqs[i]
        BY DEF n
      <3>3. i \in 0..n /\ (i # 1 => first[i - 1] = f[i - 1])
        BY <1>1, <2>6
      <3> QED BY <2>2, <3>1, <3>2, <3>3
    <2>7. 0 \in T
      BY <1>1
    <2>8. 0..n \subseteq T
      <3> HIDE DEF T
      <3> QED BY <1>1, <2>6, <2>7, UpTo
    <2>9. first[n] = f[n]
      <3>1. n \in 0..n
        BY <1>1
      <3> QED BY <1>3, <2>8, <3>1
    <2> QED BY <2>1, <2>9 DEF n
  <1> QED BY <1>2, <1>3

\* So do the first of them.
LEMMA FlattenUnfolds ==
  ASSUME NEW rows, Listed(rows), \A i \in 1..Len(rows) : Listed(rows[i])
  PROVE  \E flat :
           /\ flat[0] = <<>>
           /\ \A i \in 1..Len(rows) : flat[i] = flat[i - 1] \o rows[i]
           /\ \A i \in 0..Len(rows) : Listed(flat[i]) /\ FlattenSeq(SubSeq(rows, 1, i)) = flat[i]
           /\ FlattenSeq(rows) = flat[Len(rows)]
  <1> DEFINE n == Len(rows)
             U == UNION {ToSet(rows[i]) : i \in 1..n}
             V == Seq(U)
             go == [p \in V \X (1..n) |-> p[1] \o rows[p[2]]]
  <1>1. n \in Nat /\ DOMAIN rows = 1..n
    BY ListFacts
  <1>2. \A i \in 1..n : rows[i] \in V
    <2> TAKE i \in 1..n
    <2>1. rows[i] \in Seq(ToSet(rows[i])) /\ ToSet(rows[i]) \subseteq U
      BY DEF Listed, ToSet
    <2> HIDE DEF U
    <2> QED BY <2>1, SeqMonotonic
  <1> HIDE DEF n, U
  <1>3. <<>> \in V /\ go \in [V \X (1..n) -> V]
    <2>1. \A e \in V, i \in 1..n : e \o rows[i] \in V
      BY <1>2, ConcatProperties
    <2> QED BY <2>1
  <1>4. \A e \in V, i \in 1..n : go[<<e, i>>] = e \o rows[i]
    OBVIOUS
  <1> HIDE DEF V, go
  <1>5. PICK flat \in [0..n -> V] : Steps(flat, n, <<>>, go)
    BY <1>1, <1>3, StepsExist
  <1>6. flat[0] = <<>>
    <2>1. 0 \in 0..n
      BY <1>1
    <2> QED BY <1>5, <2>1 DEF Steps
  <1>7. ASSUME NEW i \in 1..n
        PROVE  flat[i] = flat[i - 1] \o rows[i]
    <2>1. i \in 0..n /\ i # 0 /\ i - 1 \in 0..n
      BY <1>1
    <2>2. flat[i] = go[<<flat[i - 1], i>>]
      BY <1>5, <2>1 DEF Steps
    <2> QED BY <1>4, <1>5, <2>1, <2>2
  <1>8. ASSUME NEW i \in 0..n
        PROVE  Listed(flat[i]) /\ FlattenSeq(SubSeq(rows, 1, i)) = flat[i]
    <2> DEFINE t == SubSeq(rows, 1, i)
    <2>1. Listed(flat[i])
      BY <1>5, SeqOverItself DEF V
    <2>2. Listed(t) /\ Len(t) = i /\ \A j \in 1..i : t[j] = rows[j]
      BY FirstOnes DEF n
    <2> HIDE DEF t
    <2>3. \A j \in 1..i : j \in 1..n
      BY <1>1
    <2>4. \A j \in 1..Len(t) : Listed(t[j]) /\ flat[j] = flat[j - 1] \o t[j]
      BY <1>7, <2>2, <2>3 DEF n
    <2>5. FlattenSeq(t) = flat[Len(t)]
      BY <1>6, <2>2, <2>4, FlattenReaches
    <2> QED BY <2>1, <2>2, <2>5 DEF t
  <1>9. FlattenSeq(rows) = flat[n]
    BY <1>6, <1>7, FlattenReaches DEF n
  <1> QED BY <1>6, <1>7, <1>8, <1>9 DEF n

\* What a flattened list holds.
LEMMA FlattenFacts ==
  ASSUME NEW rows, Listed(rows), \A i \in 1..Len(rows) : Listed(rows[i])
  PROVE  /\ Listed(FlattenSeq(rows))
         /\ \A i \in 1..Len(rows) : ToSet(rows[i]) \subseteq ToSet(FlattenSeq(rows))
  <1> DEFINE n == Len(rows)
  <1>1. PICK flat :
           /\ flat[0] = <<>>
           /\ \A i \in 1..n : flat[i] = flat[i - 1] \o rows[i]
           /\ \A i \in 0..n : Listed(flat[i])
           /\ FlattenSeq(rows) = flat[n]
    BY FlattenUnfolds
  <1>2. n \in Nat /\ n \in 0..n
    BY ListFacts
  <1> DEFINE T == {k \in 0..n : \A i \in 1..k : ToSet(rows[i]) \subseteq ToSet(flat[k])}
  <1>3. 0 \in T
    BY <1>2
  <1>4. ASSUME NEW k \in 1..n, k - 1 \in T
        PROVE  k \in T
    <2>1. k - 1 \in 0..n /\ k \in 0..n
      BY <1>2
    <2>2. Listed(flat[k - 1]) /\ Listed(rows[k]) /\ flat[k] = flat[k - 1] \o rows[k]
      BY <1>1, <2>1
    <2>3. ToSet(flat[k]) = ToSet(flat[k - 1]) \cup ToSet(rows[k])
      BY <2>2, ConcatSets
    <2>4. \A i \in 1..k - 1 : ToSet(rows[i]) \subseteq ToSet(flat[k - 1])
      BY <1>4
    <2>5. \A i \in 1..k : i = k \/ i \in 1..k - 1
      BY <2>1
    <2> QED BY <2>1, <2>3, <2>4, <2>5
  <1>5. n \in T
    <2>1. 0..n \subseteq T
      <3> HIDE DEF T, n
      <3> QED BY <1>2, <1>3, <1>4, UpTo
    <2> HIDE DEF T
    <2> QED BY <1>2, <2>1
  <1> QED BY <1>1, <1>2, <1>5

-----------------------------------------------------------------------------
(* The bounded sink.                                                       *)

\* A sink that lost a message, or left a row unread, is full.
Honest(s) ==
  /\ s = [kept |-> s.kept, dropped |-> s.dropped, unseen |-> s.unseen]
  /\ Listed(s.kept) /\ s.dropped \in Nat /\ s.unseen \in BOOLEAN
  /\ ~ Whole(s) => Full(s)

\* A sink nothing was pushed into.
LEMMA FreshIsHonest == Honest(Fresh) /\ Whole(Fresh)
  BY EmptyHolds DEF Honest, Fresh, Holding, Whole

\* What is pushed is kept, or the sink says that it was not.
LEMMA PushFacts ==
  ASSUME NEW s, Honest(s), NEW m, Listed(m)
  PROVE  LET t == Push(s, m) IN
         /\ Honest(t) /\ ToSet(s.kept) \subseteq ToSet(t.kept)
         /\ Whole(t) => Whole(s) /\ ToSet(m) \subseteq ToSet(t.kept)
         /\ Full(t) <=> Len(s.kept) + Len(m) >= MaxPerTable
         /\ t.unseen = s.unseen
  <1> DEFINE k == IF Len(m) <= Room(s) THEN Len(m) ELSE Room(s)
             kept == SubSeq(m, 1, k)
             t == Push(s, m)
  <1>1. Len(m) \in Nat /\ Len(s.kept) \in Nat /\ s.dropped \in Nat
    BY ListFacts DEF Honest
  <1>2. Room(s) \in Nat /\ (Full(s) => Room(s) = 0) /\ (~ Full(s) => Len(s.kept) + Room(s) = MaxPerTable)
    <2>1. Full(s) => Room(s) = 0
      BY DEF Room
    <2>2. ~ Full(s) => Room(s) = MaxPerTable - Len(s.kept)
      BY DEF Room
    <2>3. Full(s) <=> Len(s.kept) >= MaxPerTable
      BY DEF Full
    <2>4. MaxPerTable \in Nat
      BY MaxPerTableAssumption
    <2>5. Len(s.kept) + (MaxPerTable - Len(s.kept)) = MaxPerTable
      BY <1>1, <2>4
    <2>6. ~ Full(s) => MaxPerTable - Len(s.kept) \in Nat
      BY <1>1, <2>3, <2>4
    <2> QED BY <2>1, <2>2, <2>5, <2>6
  <1>3. k \in 0..Len(m)
    BY <1>1, <1>2
  <1>4. t = [kept |-> s.kept \o kept, dropped |-> s.dropped + Len(m) - Len(kept), unseen |-> s.unseen]
    <2>1. t = [s EXCEPT !.kept = @ \o kept, !.dropped = @ + Len(m) - Len(kept)]
      BY DEF Push
    <2> HIDE DEF k, kept, t
    <2>2. s = [kept |-> s.kept, dropped |-> s.dropped, unseen |-> s.unseen]
      BY DEF Honest
    <2> QED BY <2>1, <2>2
  <1> HIDE DEF k, t
  <1>5. Listed(kept) /\ Len(kept) = k /\ (k = Len(m) => kept = m)
    BY <1>3, FirstOnes
  <1> HIDE DEF kept
  <1>6. /\ Listed(s.kept \o kept) /\ Len(s.kept \o kept) = Len(s.kept) + k
        /\ ToSet(s.kept \o kept) = ToSet(s.kept) \cup ToSet(kept)
    BY <1>5, ConcatList DEF Honest
  <1>7. t.kept = s.kept \o kept /\ t.dropped = s.dropped + Len(m) - k /\ t.unseen = s.unseen
    BY <1>4, <1>5
  <1>8. Full(t) <=> Len(s.kept) + Len(m) >= MaxPerTable
    BY <1>1, <1>2, <1>3, <1>6, <1>7, MaxPerTableAssumption DEF Full, k
  <1>9. t.dropped \in Nat /\ (t.dropped = 0 => s.dropped = 0 /\ k = Len(m))
    BY <1>1, <1>3, <1>7
  <1>10. Whole(t) => Whole(s) /\ kept = m
    BY <1>5, <1>7, <1>9 DEF Whole
  <1>11. ~ Whole(t) => Full(t)
    <2>1. CASE ~ Whole(s)
      <3>1. Len(s.kept) >= MaxPerTable
        BY <2>1 DEF Honest, Full
      <3>2. Len(s.kept) + Len(m) >= MaxPerTable
        BY <1>1, <3>1, MaxPerTableAssumption
      <3> QED BY <1>8, <3>2
    <2>2. CASE Whole(s)
      <3>1. ASSUME ~ Whole(t)
            PROVE  k # Len(m)
        BY <1>1, <1>7, <2>2, <3>1 DEF Whole
      <3>2. ASSUME k # Len(m)
            PROVE  Full(t)
        <4>1. ~ (Len(m) <= Room(s))
          BY <3>2 DEF k
        <4>2. CASE Full(s)
          <5>1. Len(s.kept) >= MaxPerTable
            BY <4>2 DEF Full
          <5>2. Len(s.kept) + Len(m) >= MaxPerTable
            BY <1>1, <5>1, MaxPerTableAssumption
          <5> QED BY <1>8, <5>2
        <4>3. CASE ~ Full(s)
          <5>1. Len(s.kept) + Room(s) = MaxPerTable /\ Room(s) \in Nat
            BY <1>2, <4>3
          <5>2. Len(s.kept) + Len(m) >= MaxPerTable
            BY <1>1, <4>1, <5>1
          <5> QED BY <1>8, <5>2
        <4> QED BY <4>2, <4>3
      <3> QED BY <3>1, <3>2
    <2> QED BY <2>1, <2>2
  <1>12. Honest(t)
    <2>1. t = [kept |-> t.kept, dropped |-> t.dropped, unseen |-> t.unseen]
      BY <1>4
    <2> QED BY <1>1, <1>6, <1>7, <1>9, <1>11, <2>1 DEF Honest
  <1> QED BY <1>6, <1>7, <1>8, <1>10, <1>12 DEF t

\* Rows found while the sink wants more: all of them, or the sink says that it was asked.
LEMMA AskingFacts ==
  ASSUME NEW s, Honest(s), NEW rows, Listed(rows), \A i \in 1..Len(rows) : Listed(rows[i])
  PROVE  LET t == Asking(s, rows) IN
         /\ Honest(t) /\ ToSet(s.kept) \subseteq ToSet(t.kept)
         /\ Whole(t) => Whole(s) /\ \A i \in 1..Len(rows) : ToSet(rows[i]) \subseteq ToSet(t.kept)
  <1> DEFINE n == Len(rows)
             before(k) == Push(s, FlattenSeq(SubSeq(rows, 1, k - 1)))
             open == {k \in DOMAIN rows : ~ Full(before(k))}
             examined == Cardinality(open)
             rest == SubSeq(rows, examined + 1, n)
  <1>1. n \in Nat /\ DOMAIN rows = 1..n /\ Len(s.kept) \in Nat
    BY ListFacts DEF Honest
  <1>2. PICK flat :
           /\ flat[0] = <<>>
           /\ \A i \in 1..n : flat[i] = flat[i - 1] \o rows[i]
           /\ \A i \in 0..n : Listed(flat[i]) /\ FlattenSeq(SubSeq(rows, 1, i)) = flat[i]
           /\ FlattenSeq(rows) = flat[n]
    BY FlattenUnfolds
  <1> HIDE DEF n
  <1>3. ASSUME NEW k \in 1..n + 1
        PROVE  /\ k - 1 \in 0..n /\ before(k) = Push(s, flat[k - 1]) /\ Listed(flat[k - 1])
               /\ Honest(before(k)) /\ ToSet(s.kept) \subseteq ToSet(before(k).kept)
               /\ Whole(before(k)) => Whole(s) /\ ToSet(flat[k - 1]) \subseteq ToSet(before(k).kept)
               /\ Full(before(k)) <=> Len(s.kept) + Len(flat[k - 1]) >= MaxPerTable
    <2>1. k - 1 \in 0..n
      BY <1>1
    <2>2. before(k) = Push(s, flat[k - 1]) /\ Listed(flat[k - 1])
      BY <1>2, <2>1
    <2> DEFINE t == before(k)
               m == flat[k - 1]
    <2>3. t = Push(s, m) /\ Listed(m)
      BY <2>2
    <2> HIDE DEF before, t, m
    <2>4. /\ Honest(t) /\ ToSet(s.kept) \subseteq ToSet(t.kept)
          /\ Whole(t) => Whole(s) /\ ToSet(m) \subseteq ToSet(t.kept)
          /\ Full(t) <=> Len(s.kept) + Len(m) >= MaxPerTable
      BY <2>3, PushFacts
    <2> QED BY <2>1, <2>2, <2>4 DEF t, m
  <1> HIDE DEF before
  <1>4. ASSUME NEW k \in 1..n, Full(before(k))
        PROVE  Full(before(k + 1))
    <2>1. k \in 1..n + 1 /\ k + 1 \in 1..n + 1 /\ k - 1 \in 0..n /\ (k + 1) - 1 = k
      BY <1>1
    <2>2. flat[k] = flat[k - 1] \o rows[k] /\ Listed(rows[k]) /\ Listed(flat[k - 1])
      BY <1>2, <2>1 DEF n
    <2>3. Len(flat[k]) = Len(flat[k - 1]) + Len(rows[k]) /\ Len(rows[k]) \in Nat /\ Len(flat[k - 1]) \in Nat
      BY <2>2, ConcatList, ListFacts
    <2>4. Len(s.kept) + Len(flat[k - 1]) >= MaxPerTable
      BY <1>3, <1>4, <2>1
    <2> DEFINE a == Len(s.kept)
               b == Len(flat[k - 1])
               c == Len(rows[k])
    <2>5. Len(s.kept) + Len(flat[k]) >= MaxPerTable
      <3>1. a \in Nat /\ b \in Nat /\ c \in Nat /\ a + b >= MaxPerTable /\ Len(flat[k]) = b + c
        BY <1>1, <2>3, <2>4
      <3> HIDE DEF b, c
      <3>2. a + (b + c) >= MaxPerTable
        <4> HIDE DEF a
        <4> QED BY <3>1, MaxPerTableAssumption
      <3> QED BY <3>1, <3>2
    <2>6. Full(before(k + 1)) <=> Len(s.kept) + Len(flat[(k + 1) - 1]) >= MaxPerTable
      BY <1>3, <2>1
    <2> QED BY <2>1, <2>5, <2>6
  <1>5. /\ examined \in 0..n
        /\ examined < n => Full(before(examined + 1))
    <2>1. IsFiniteSet(1..n) /\ Cardinality(1..n) = n /\ open \subseteq 1..n
      <3>1. open \subseteq 1..n
        BY <1>1
      <3>2. n \in Nat
        BY <1>1
      <3> HIDE DEF open
      <3>3. IsFiniteSet(1..n) /\ Cardinality(1..n) = n
        BY <3>2, FS_Interval
      <3> QED BY <3>1, <3>3
    <2>2. IsFiniteSet(open) /\ examined \in Nat /\ examined <= n
      BY <2>1, FS_Subset, FS_CardinalityType
    <2> DEFINE first(k) == 1..k
               T == {k \in 0..n : k # 0 /\ ~ Full(before(k)) => first(k) \subseteq open}
    <2>3. 0 \in T
      BY <1>1
    <2>4. ASSUME NEW k \in 1..n, k - 1 \in T
          PROVE  k \in T
      <3>1. k \in 0..n /\ (k # 1 => k - 1 \in 1..n /\ (k - 1) + 1 = k)
        BY <1>1
      <3>2. ASSUME ~ Full(before(k))
            PROVE  first(k) \subseteq open
        <4>1. k \in open
          BY <1>1, <3>2
        <4>2. CASE k = 1
          BY <4>1, <4>2
        <4>3. CASE k # 1
          <5>1. ~ Full(before(k - 1))
            BY <1>4, <3>1, <3>2, <4>3
          <5>2. first(k - 1) \subseteq open
            BY <2>4, <3>1, <4>3, <5>1
          <5>3. \A i \in first(k) : i = k \/ i \in first(k - 1)
            BY <1>1
          <5> QED BY <4>1, <5>2, <5>3
        <4> QED BY <4>2, <4>3
      <3> QED BY <3>1, <3>2
    <2>5. 0..n \subseteq T
      <3> HIDE DEF T
      <3> QED BY <1>1, <2>3, <2>4, UpTo
    <2> DEFINE e == examined
    <2>6. e \in Nat /\ e <= n
      BY <2>2
    <2>7. ASSUME e < n, ~ Full(before(e + 1))
          PROVE  FALSE
      <3>1. e + 1 \in 0..n /\ e + 1 # 0
        BY <1>1, <2>6, <2>7
      <3>2. first(e + 1) \subseteq open
        <4> HIDE DEF e, open, first
        <4> QED BY <2>5, <2>7, <3>1
      <3>3. IsFiniteSet(1..e + 1) /\ Cardinality(1..e + 1) = e + 1
        BY <2>6, FS_Interval
      <3>4. Cardinality(1..e + 1) <= Cardinality(open)
        <4> HIDE DEF e, open
        <4> QED BY <2>2, <3>2, <3>3, FS_Subset
      <3> HIDE DEF open
      <3> QED BY <2>6, <3>3, <3>4
    <2> QED BY <2>6, <2>7
  <1> HIDE DEF open, examined
  <1> DEFINE b == before(examined + 1)
             t == [b EXCEPT !.unseen = @ \/ rest # <<>>]
  <1>6. Asking(s, rows) = t
    BY DEF Asking, WantsMore, before, examined, open, n
  <1>7. examined + 1 \in 1..n + 1 /\ (examined + 1) - 1 = examined
    BY <1>1, <1>5
  <1>8. /\ Honest(b) /\ ToSet(s.kept) \subseteq ToSet(b.kept)
        /\ Whole(b) => Whole(s) /\ ToSet(flat[examined]) \subseteq ToSet(b.kept)
    BY <1>3, <1>7
  <1>9. rest = <<>> => examined = n
    <2> DEFINE U == {rows[i] : i \in 1..n}
               m == examined + 1
    <2>1. m \in Int /\ n \in Int /\ \A i \in m..n : rows[i] \in U
      BY <1>1, <1>5
    <2>2. Len(SubSeq(rows, m, n)) = IF m <= n THEN n - m + 1 ELSE 0
      <3> HIDE DEF m, U
      <3> QED BY <2>1, SubSeqProperties
    <2>3. ASSUME rest = <<>>
          PROVE  examined = n
      <3>1. Len(SubSeq(rows, m, n)) = 0
        BY <2>3, EmptyHolds
      <3> QED BY <1>1, <1>5, <2>2, <3>1
    <2> QED BY <2>3
  <1>10. examined = n => rest = <<>>
    BY <1>1, <1>5, SubSeqEmpty
  <1> HIDE DEF b, rest
  <1>11. /\ t.kept = b.kept /\ t.dropped = b.dropped /\ t.unseen = (b.unseen \/ rest # <<>>)
         /\ t = [kept |-> t.kept, dropped |-> t.dropped, unseen |-> t.unseen]
    BY <1>8 DEF Honest
  <1> HIDE DEF t
  <1>12. Honest(t)
    <2>1. Full(t) <=> Full(b)
      BY <1>11 DEF Full
    <2>2. Whole(t) <=> Whole(b) /\ rest = <<>>
      BY <1>8, <1>11 DEF Honest, Whole
    <2>3. rest # <<>> => Full(b)
      BY <1>1, <1>5, <1>10 DEF b
    <2>4. ~ Whole(t) => Full(t)
      BY <1>8, <2>1, <2>2, <2>3 DEF Honest
    <2>5. Listed(t.kept) /\ t.dropped \in Nat /\ t.unseen \in BOOLEAN
      BY <1>8, <1>11 DEF Honest
    <2> QED BY <1>11, <2>4, <2>5 DEF Honest
  <1>13. ASSUME Whole(t), NEW i \in 1..n
         PROVE  ToSet(rows[i]) \subseteq ToSet(t.kept)
    <2>1. Whole(b) /\ rest = <<>>
      BY <1>8, <1>11, <1>13 DEF Honest, Whole
    <2>2. ToSet(flat[n]) \subseteq ToSet(t.kept)
      BY <1>8, <1>9, <1>11, <2>1
    <2>3. ToSet(rows[i]) \subseteq ToSet(FlattenSeq(rows))
      BY FlattenFacts DEF n
    <2> QED BY <1>2, <2>2, <2>3
  <1>14. Whole(t) => Whole(s)
    BY <1>8, <1>11 DEF Honest, Whole
  <1> QED BY <1>6, <1>8, <1>11, <1>12, <1>13, <1>14 DEF n

-----------------------------------------------------------------------------
(* The image is never written, and so every question about it keeps its answer. *)

\* What a range of bytes has to do with the sections.
LEMMA SameLookups ==
  ASSUME image' = image
  PROVE  /\ \A rva, size : FileRange(rva, size)' = FileRange(rva, size)
         /\ \A rva, size : Mapped(rva, size)' = Mapped(rva, size)
         /\ \A rva, size : Executable(rva, size)' = Executable(rva, size)
         /\ \A rva, size : Backed(rva, size)' = Backed(rva, size)
         /\ \A name : Dir(name)' = Dir(name)
         /\ Pointer' = Pointer
  <1>1. ASSUME NEW rva, NEW size
        PROVE  FileRange(rva, size)' = FileRange(rva, size) 
    BY DEF FileRange, Backs
  <1>2. ASSUME NEW rva, NEW size
        PROVE  Mapped(rva, size)' = Mapped(rva, size)
    BY DEF Mapped
  <1>3. ASSUME NEW rva, NEW size
        PROVE  Executable(rva, size)' = Executable(rva, size)
    BY DEF Executable
  <1>4. ASSUME NEW rva, NEW size
        PROVE  Backed(rva, size)' = Backed(rva, size)
    BY <1>1 DEF Backed
  <1>5. \A name : Dir(name)' = Dir(name)
    BY DEF Dir
  <1>6. Pointer' = Pointer
    BY DEF Pointer
  <1> QED BY <1>1, <1>2, <1>3, <1>4, <1>5, <1>6

\* What is found in the rows of a table.
LEMMA SameWalks ==
  ASSUME image' = image
  PROVE  /\ \A k : BadFunction(k)' = BadFunction(k)
         /\ \A k : BlocksBefore(k)' = BlocksBefore(k)
         /\ \A b, i, k : BadEntry(b, i, k)' = BadEntry(b, i, k)
         /\ \A rva : Words(rva)' = Words(rva)
         /\ \A rva, max : Upto(rva, max)' = Upto(rva, max)
         /\ CallbackArray' = CallbackArray
         /\ \A array, k : BadCallback(array, k)' = BadCallback(array, k)
  <1>1. ASSUME NEW k
        PROVE  BadFunction(k)' = BadFunction(k)
    BY SameLookups DEF BadFunction
  <1>2. ASSUME NEW k
        PROVE  BlocksBefore(k)' = BlocksBefore(k)
    BY DEF BlocksBefore
  <1>3. ASSUME NEW b, NEW i, NEW k
        PROVE  BadEntry(b, i, k)' = BadEntry(b, i, k)
    BY DEF BadEntry
  <1>4. ASSUME NEW rva
        PROVE  Words(rva)' = Words(rva)
    BY SameLookups DEF Words, HeldAt
  <1>5. ASSUME NEW rva, NEW max
        PROVE  Upto(rva, max)' = Upto(rva, max)
    BY <1>4 DEF Upto
  <1>6. CallbackArray' = CallbackArray
    BY SameLookups DEF CallbackArray, TlsField
  <1>7. ASSUME NEW array, NEW k
        PROVE  BadCallback(array, k)' = BadCallback(array, k)
    <2>1. ASSUME NEW v, NEW w
          PROVE  BadAddress(v, w)' = BadAddress(v, w)
      BY SameLookups DEF BadAddress
    <2> QED BY <1>4, <2>1, SameLookups DEF BadCallback
  <1> QED BY <1>1, <1>2, <1>3, <1>4, <1>5, <1>6, <1>7

\* Every defect of the rows of a table.
LEMMA SameDefects ==
  ASSUME image' = image
  PROVE  \A name : RowDefects(name)' = RowDefects(name)
  <1>1. FunctionDefects' = FunctionDefects
    <2> DEFINE found(n) == UNION {ToSet(BadFunction(k)) : k \in 1..n}
    <2>1. ASSUME NEW n
          PROVE  found(n)' = found(n)
      <3>1. \A k \in 1..n : ToSet(BadFunction(k)') = ToSet(BadFunction(k))
        BY SameWalks
      <3> QED BY <3>1
    <2> HIDE DEF found
    <2> DEFINE dir == Dir("exceptions")
               entry == IF image.is64 THEN 12 ELSE 8
               functions == dir.size \div entry
    <2>2. dir' = dir /\ entry' = entry
      BY SameLookups
    <2> HIDE DEF dir, entry
    <2>3. functions' = functions
      BY <2>2
    <2> HIDE DEF functions
    <2>4. Backed(dir.rva, functions * entry)' = Backed(dir.rva, functions * entry)
      BY <2>2, <2>3, SameLookups
    <2>5. found(Smaller(functions, MaxExceptions))' = found(Smaller(functions, MaxExceptions))
      BY <2>1, <2>3
    <2>6. FunctionDefects = IF dir.rva # 0 /\ Backed(dir.rva, functions * entry)
                            THEN found(Smaller(functions, MaxExceptions)) ELSE {}
      BY DEF FunctionDefects, found, dir, entry, functions
    <2>7. FunctionDefects' = IF dir'.rva # 0 /\ Backed(dir.rva, functions * entry)'
                             THEN found(Smaller(functions, MaxExceptions))' ELSE {}
      BY DEF FunctionDefects, found, dir, entry, functions
    <2> QED BY <2>2, <2>4, <2>5, <2>6, <2>7
  <1>2. PatchDefects' = PatchDefects
    <2>1. ASSUME NEW i
          PROVE  BlocksFit(i)' = BlocksFit(i)
      BY SameLookups, SameWalks DEF BlocksFit
    <2>2. ASSUME NEW i
          PROVE  BlockDefects(i)' = BlockDefects(i)
      BY SameWalks DEF BlockDefects
    <2> DEFINE walked == {i \in DOMAIN image.blocks : i <= MaxBlocks /\ BlocksFit(i)}
               found(w) == UNION {BlockDefects(i) : i \in w}
    <2>3. walked' = walked
      BY <2>1
    <2>4. ASSUME NEW w
          PROVE  found(w)' = found(w)
      BY <2>2
    <2>5. found(walked)' = found(walked)
      <3> HIDE DEF walked
      <3> QED BY <2>2, <2>3
    <2> HIDE DEF walked, found
    <2>6. PatchDefects = IF Dir("relocations").rva # 0 /\ Backed(Dir("relocations").rva, Dir("relocations").size)
                         THEN found(walked) ELSE {}
      BY DEF PatchDefects, walked, found
    <2>7. PatchDefects' = IF Dir("relocations")'.rva # 0 /\ Backed(Dir("relocations").rva, Dir("relocations").size)'
                          THEN found(walked)' ELSE {}
      BY DEF PatchDefects, walked, found
    <2>8. Dir("relocations")' = Dir("relocations")
      BY SameLookups
    <2>9. Backed(Dir("relocations").rva, Dir("relocations").size)' = Backed(Dir("relocations").rva, Dir("relocations").size)
      BY <2>8, SameLookups
    <2> QED BY <2>5, <2>6, <2>7, <2>8, <2>9
  <1>3. CallbackDefects' = CallbackDefects
    <2> DEFINE found(n) == UNION {ToSet(BadCallback(CallbackArray, k)) : k \in 1..n}
    <2>1. ASSUME NEW n
          PROVE  found(n)' = found(n)
      <3>1. \A k \in 1..n : ToSet(BadCallback(CallbackArray, k)') = ToSet(BadCallback(CallbackArray, k))
        BY SameWalks
      <3> QED BY <3>1
    <2> QED BY <2>1, SameLookups, SameWalks DEF CallbackDefects
  <1>4. ASSUME NEW name
        PROVE  RowDefects(name)' = RowDefects(name)
    BY <1>1, <1>2, <1>3 DEF RowDefects
  <1> QED BY <1>4

-----------------------------------------------------------------------------
(* The lists and the numbers the walks of a PE image are made of.           *)

\* Rows that follow one another start at natural numbers, the first at 0.
LEMMA RunningFacts ==
  ASSUME NEW sizes \in Seq(Nat)
  PROVE  Running(sizes)[0] = 0 /\ \A k \in 0..Len(sizes) : Running(sizes)[k] \in Nat
  <1> DEFINE n == Len(sizes)
             go == [p \in Nat \X (1..n) |-> p[1] + sizes[p[2]]]
             Is(f) == f = [k \in 0..n |-> IF k = 0 THEN 0 ELSE f[k - 1] + sizes[k]]
             at == CHOOSE f : Is(f)
  <1>1. n \in Nat /\ \A k \in 1..n : sizes[k] \in Nat
    OBVIOUS
  <1> HIDE DEF n
  <1>2. go \in [Nat \X (1..n) -> Nat] /\ \A e \in Nat, k \in 1..n : go[<<e, k>>] = e + sizes[k]
    <2>1. \A p \in Nat \X (1..n) : p[1] \in Nat /\ p[2] \in 1..n /\ sizes[p[2]] \in Nat
      BY <1>1
    <2>2. \A p \in Nat \X (1..n) : p[1] + sizes[p[2]] \in Nat
      BY <2>1
    <2> QED BY <2>2
  <1> HIDE DEF go
  <1>3. PICK f \in [0..n -> Nat] : Steps(f, n, 0, go)
    BY <1>1, <1>2, StepsExist
  <1>4. ASSUME NEW k \in 0..n
        PROVE  f[k] = IF k = 0 THEN 0 ELSE f[k - 1] + sizes[k]
    <2>1. f[k] = IF k = 0 THEN 0 ELSE go[<<f[k - 1], k>>]
      BY <1>3 DEF Steps
    <2>2. k # 0 => k \in 1..n /\ k - 1 \in 0..n
      BY <1>1
    <2>3. k # 0 => go[<<f[k - 1], k>>] = f[k - 1] + sizes[k]
      BY <1>2, <1>3, <2>2
    <2> QED BY <2>1, <2>3
  <1>5. Is(f)
    BY <1>3, <1>4
  <1> HIDE DEF Is
  <1>6. Is(at)
    BY <1>5
  <1>7. Running(sizes) = at
    BY DEF Running, Is, n
  <1> HIDE DEF at
  <1>8. \A k \in 0..n : at[k] = IF k = 0 THEN 0 ELSE at[k - 1] + sizes[k]
    BY <1>6 DEF Is
  <1> DEFINE T == {k \in 0..n : at[k] \in Nat}
  <1>9. 0 \in T /\ at[0] = 0
    BY <1>1, <1>8
  <1>10. ASSUME NEW k \in 1..n, k - 1 \in T
         PROVE  k \in T
    <2>1. k \in 0..n /\ k # 0
      BY <1>1
    <2>2. at[k] = at[k - 1] + sizes[k]
      BY <1>8, <2>1
    <2>3. at[k - 1] \in Nat /\ sizes[k] \in Nat
      BY <1>1, <1>10
    <2> HIDE DEF Is
    <2>4. at[k] \in Nat
      BY <2>2, <2>3
    <2> QED BY <2>1, <2>4
  <1>11. 0..n \subseteq T
    <2> HIDE DEF T
    <2> QED BY <1>1, <1>9, <1>10, UpTo
  <1> QED BY <1>7, <1>9, <1>11 DEF n

\* The least of a set of naturals is one of them.
LEMMA LeastIs ==
  ASSUME NEW S, S \subseteq Nat, S # {}
  PROVE  Least(S) \in S /\ \A k \in S : Least(S) <= k
  <1>1. \E m \in S : \A k \in S : m <= k
    BY LeastOf
  <1> QED BY <1>1 DEF Least

\* An image the checks of a PE read.
Pe == image \in Images /\ image.kind = "pe"

\* Words of the file, and how many come before the null.
LEMMA UptoFacts ==
  ASSUME Pe, NEW rva, NEW max \in Nat
  PROVE  Words(rva) \in Seq(Nat) /\ Upto(rva, max) \in Nat /\ Upto(rva, max) <= Len(Words(rva))
  <1>1. Words(rva) \in Seq(Nat)
    <2>1. \A from \in DOMAIN image.thunks : image.thunks[from] \in Seq(Nat)
      BY ImageAssumption DEF Pe, PeRead
    <2> QED BY <2>1 DEF Words, HeldAt
  <1> DEFINE slots == Smaller(Len(Words(rva)), max)
             S == {k \in 0..slots : k = slots \/ Words(rva)[k + 1] = 0}
  <1>2. slots \in Nat /\ slots <= Len(Words(rva))
    BY <1>1 DEF Smaller
  <1>3. Upto(rva, max) = Least(S)
    BY DEF Upto
  <1> HIDE DEF slots
  <1>4. S \subseteq Nat /\ S # {}
    <2>1. slots \in S
      BY <1>2
    <2> QED BY <1>2, <2>1
  <1>5. Least(S) \in S
    <2> HIDE DEF S
    <2> QED BY <1>4, LeastIs
  <1>6. Least(S) \in 0..slots
    BY <1>5
  <1> HIDE DEF S
  <1> QED BY <1>1, <1>2, <1>3, <1>6

\* Every list of messages is one.
LEMMA MessagesListed ==
  /\ \A rva, hint, what : Listed(BadString(rva, hint, what))
  /\ \A value, what : Listed(BadAddress(value, what))
  /\ \A rva, k, label : Listed(BadThunk(rva, k, label))
  /\ \A name, offset : Listed(BadTlsField(name, offset))
  /\ \A array, k : Listed(BadCallback(array, k))
  /\ \A block, i, k : Listed(BadEntry(block, i, k))
  /\ \A block : Listed(BadBlock(block))
  /\ \A k : Listed(BadFunction(k))
  <1>1. \A rva, hint, what : Listed(BadString(rva, hint, what))
    BY EmptyHolds, OneListed DEF BadString
  <1>2. \A value, what : Listed(BadAddress(value, what))
    BY EmptyHolds, OneListed DEF BadAddress
  <1>3. \A rva, k, label : Listed(BadThunk(rva, k, label))
    BY <1>1, EmptyHolds DEF BadThunk
  <1>4. \A name, offset : Listed(BadTlsField(name, offset))
    BY <1>2, OneListed DEF BadTlsField
  <1>5. \A array, k : Listed(BadCallback(array, k))
    BY <1>2, OneListed DEF BadCallback
  <1>6. \A block, i, k : Listed(BadEntry(block, i, k))
    BY EmptyHolds, OneListed DEF BadEntry
  <1>7. ASSUME NEW block
        PROVE  Listed(BadBlock(block))
    <2> DEFINE low == IF block.page % 4096 # 0 THEN <<<<"block", row, "not aligned">>>> ELSE <<>>
               high == IF block.page >= image.size THEN <<<<"block", row, "beyond the image">>>> ELSE <<>>
    <2>0. Listed(<<<<"block", row, "not aligned">>>>) /\ Listed(<<<<"block", row, "beyond the image">>>>)
      BY OneListed
    <2>1. Listed(low) /\ Listed(high)
      <3>1. low \in {<<>>, <<<<"block", row, "not aligned">>>>} /\ high \in {<<>>, <<<<"block", row, "beyond the image">>>>}
        OBVIOUS
      <3> HIDE DEF low, high
      <3> QED BY <2>0, <3>1, EmptyHolds
    <2> HIDE DEF low, high
    <2>2. Listed(low \o high)
      BY <2>1, ConcatList
    <2> QED BY <2>2 DEF BadBlock, low, high
  <1>8. ASSUME NEW k
        PROVE  Listed(BadFunction(k))
    <2> DEFINE bad(rva, what) == IF Mapped(rva, 1) THEN <<>> ELSE <<<<"function", k, what>>>>
               f == image.functions[k]
               low == bad(f.begin, "begin")
               high == bad(f.end - 1, "end")
               unwind == IF image.is64 /\ f.unwind # 0 THEN bad((f.unwind \div 4) * 4, "unwind") ELSE <<>>
    <2>1. \A rva, what : Listed(bad(rva, what))
      BY EmptyHolds, OneListed
    <2> HIDE DEF bad
    <2>2. Listed(low) /\ Listed(high) /\ Listed(unwind)
      BY <2>1, EmptyHolds
    <2>3. BadFunction(k) = IF f.begin >= f.end THEN <<<<"function", k, "empty">>>> ELSE low \o high \o unwind
      BY DEF BadFunction, bad
    <2> HIDE DEF low, high, unwind, f
    <2>4. Listed(low \o high)
      BY <2>2, ConcatList
    <2>5. Listed(low \o high \o unwind)
      BY <2>2, <2>4, ConcatList
    <2>6. Listed(<<<<"function", k, "empty">>>>)
      BY OneListed
    <2> QED BY <2>3, <2>5, <2>6
  <1> QED BY <1>1, <1>2, <1>3, <1>4, <1>5, <1>6, <1>7, <1>8

-----------------------------------------------------------------------------
(* What is kept of a walk.                                                 *)

\* A report tells of a table: every defect of its rows, or that some are missing.
Told(told) ==
  /\ Honest(told.sink)
  /\ told.table \in PeTables /\ Whole(told.sink) => RowDefects(told.table) \subseteq ToSet(told.sink.kept)

\* The blocks before this one fit, and the defects of their entries are kept or missed.
BlocksSeen ==
  table = "relocations" =>
    \A j \in 1..row - 1 :
      /\ j \in DOMAIN image.blocks
      /\ BlockFits(image.blocks[j], BlocksBefore(j), Dir("relocations").size)
      /\ Whole(sink) => BlockDefects(j) \subseteq ToSet(sink.kept)

PeWalks == PeTables \cup {"headers", "sections", "entry", "names", "runtime", "done"}
ElfWalks == {"programs", "segments", "dynamic", "arrays", "relas", "hashes"}

\* The inductive invariant of the reports.
Telling ==
  /\ image \in Images
  /\ table \in PeWalks \cup ElfWalks \cup {"end"}
  /\ table \in PeWalks => image.kind = "pe"
  /\ table \in ElfWalks => image.kind # "pe"
  /\ row \in Nat \ {0}
  /\ Honest(sink)
  /\ Listed(report) /\ \A k \in DOMAIN report : Told(report[k])
  /\ BlocksSeen

\* The image that is asked about stays the same.
LEMMA ToldStays ==
  ASSUME image' = image, NEW t
  PROVE  Told(t)' <=> Told(t)
  <1>1. \A name : RowDefects(name)' = RowDefects(name)
    BY SameDefects
  <1> QED BY <1>1 DEF Told

\* One more entry of a list.
LEMMA AppendFacts ==
  ASSUME NEW s, Listed(s), NEW x
  PROVE  /\ Listed(Append(s, x)) /\ Len(Append(s, x)) = Len(s) + 1
         /\ \A i \in 1..Len(s) : Append(s, x)[i] = s[i]
         /\ Append(s, x)[Len(s) + 1] = x
         /\ ToSet(Append(s, x)) = ToSet(s) \cup {x}
  <1> DEFINE T == ToSet(s) \cup {x}
             t == Append(s, x)
  <1>1. s \in Seq(T) /\ x \in T
    BY SeqMonotonic DEF Listed, ToSet
  <1>2. Len(s) \in Nat /\ DOMAIN s = 1..Len(s)
    BY ListFacts
  <1> HIDE DEF T
  <1>3. t \in Seq(T) /\ Len(t) = Len(s) + 1 /\ t[Len(s) + 1] = x /\ \A i \in 1..Len(s) : t[i] = s[i]
    BY <1>1, AppendProperties
  <1>4. DOMAIN t = 1..Len(s) + 1
    BY <1>3
  <1> HIDE DEF t
  <1>5. ToSet(t) = ToSet(s) \cup {x}
    <2>1. \A i \in 1..Len(s) + 1 : i = Len(s) + 1 \/ i \in 1..Len(s)
      BY <1>2
    <2>2. Len(s) + 1 \in 1..Len(s) + 1 /\ \A i \in 1..Len(s) : i \in 1..Len(s) + 1
      BY <1>2
    <2> QED BY <1>2, <1>3, <1>4, <2>1, <2>2 DEF ToSet
  <1>6. Listed(t)
    BY <1>3, SeqOverItself
  <1> QED BY <1>3, <1>5, <1>6 DEF t

\* The walk of a table ends.
LEMMA FinishTells ==
  ASSUME Telling, NEW s, NEW next, Finish(s, next), Honest(s),
         table \in PeTables /\ Whole(s) => RowDefects(table) \subseteq ToSet(s.kept),
         next \in PeWalks \cup ElfWalks \cup {"end"},
         next \in PeWalks => table \in PeWalks, next \in ElfWalks => table \in ElfWalks
  PROVE  Telling'
  <1> DEFINE told == [table |-> table, sink |-> s]
  <1>1. report' = Append(report, told) /\ table' = next /\ row' = 1 /\ sink' = Fresh /\ image' = image
    BY DEF Finish
  <1>2. Told(told)
    BY DEF Told
  <1> HIDE DEF told
  <1>3. Listed(report') /\ \A k \in DOMAIN report' : Told(report'[k])
    <2>1. Listed(report) /\ Len(report) \in Nat /\ DOMAIN report = 1..Len(report)
      BY ListFacts DEF Telling
    <2>2. /\ Listed(report') /\ Len(report') = Len(report) + 1 /\ report'[Len(report) + 1] = told
          /\ \A i \in 1..Len(report) : report'[i] = report[i]
      BY <1>1, <2>1, AppendFacts
    <2>3. DOMAIN report' = 1..Len(report) + 1
      BY <2>2, ListFacts
    <2>4. \A i \in 1..Len(report) + 1 : i = Len(report) + 1 \/ i \in 1..Len(report)
      BY <2>1
    <2> QED BY <1>2, <2>1, <2>2, <2>3, <2>4 DEF Telling
  <1>4. \A k \in DOMAIN report' : Told(report[k])'
    BY <1>1, <1>3, ToldStays
  <1>5. BlocksSeen'
    BY <1>1 DEF BlocksSeen
  <1>6. Honest(sink)'
    BY <1>1, FreshIsHonest DEF Honest, Full, Whole
  <1>7. table' \in PeWalks => image'.kind = "pe"
    BY <1>1 DEF Telling
  <1>8. table' \in ElfWalks => image'.kind # "pe"
    BY <1>1 DEF Telling
  <1>9. image' \in Images /\ table' \in PeWalks \cup ElfWalks \cup {"end"} /\ row' \in Nat \ {0}
    BY <1>1 DEF Telling
  <1>10. Listed(report)'
    BY <1>3 DEF Listed
  <1> QED BY <1>4, <1>5, <1>6, <1>7, <1>8, <1>9, <1>10 DEF Telling, PeWalks, ElfWalks, PeTables

\* The walk goes on with the next row.
LEMMA ContinueTells ==
  ASSUME Telling, NEW s, Continue(s), Honest(s), table # "relocations"
  PROVE  Telling'
  <1>1. sink' = s /\ row' = row + 1 /\ image' = image /\ table' = table /\ report' = report
    BY DEF Continue
  <1>2. \A k \in DOMAIN report : Told(report[k])'
    BY <1>1, ToldStays DEF Telling
  <1>3. Honest(sink)'
    BY <1>1 DEF Honest, Full, Whole
  <1>4. BlocksSeen'
    BY <1>1 DEF BlocksSeen
  <1> QED BY <1>1, <1>2, <1>3, <1>4 DEF Telling, Listed

\* A check of the headers.
LEMMA NoteTells ==
  ASSUME Telling, NEW found, NEW next, Note(found, next), table \in PeWalks, next \in PeWalks \cup {"end"}
  PROVE  Telling'
  <1>1. table' = next /\ row' = 1 /\ image' = image /\ sink' = sink /\ report' = report
    BY DEF Note
  <1>2. \A k \in DOMAIN report : Told(report[k])'
    BY <1>1, ToldStays DEF Telling
  <1>3. Honest(sink)'
    BY <1>1 DEF Telling, Honest, Full, Whole
  <1>4. BlocksSeen'
    BY <1>1 DEF BlocksSeen
  <1>5. Listed(report)'
    BY <1>1 DEF Telling, Listed
  <1>6. image' \in Images /\ table' \in PeWalks \cup {"end"} /\ row' \in Nat \ {0} /\ image'.kind = "pe"
    BY <1>1 DEF Telling
  <1>7. table' \notin ElfWalks
    BY <1>6 DEF PeWalks, PeTables, ElfWalks
  <1> QED BY <1>1, <1>2, <1>3, <1>4, <1>5, <1>6, <1>7 DEF Telling, PeWalks, ElfWalks, PeTables

-----------------------------------------------------------------------------
(* The tables of a PE image, one by one.                                   *)

\* One message, or none.
LEMMA PushOne ==
  ASSUME NEW s, Honest(s), NEW x
  PROVE  Honest(Push(s, <<x>>))
  <1>1. Listed(<<x>>)
    BY OneListed
  <1> QED BY <1>1, PushFacts

\* A walk of thunks leaves an honest sink.
LEMMA ThunksAreHonest ==
  ASSUME Pe, NEW s, Honest(s), NEW rva, NEW label, NEW checkNames
  PROVE  Honest(WalkThunks(s, rva, label, checkNames))
  <1> DEFINE n == Upto(rva, MaxThunks)
             rows == [k \in 1..n |-> BadThunk(rva, k, label)]
             walked == IF checkNames THEN Asking(s, rows) ELSE s
             why == IF Len(Words(rva)) >= MaxThunks THEN "too long" ELSE "runs off the file"
  <1>1. n \in Nat
    BY UptoFacts, WalkAssumption
  <1>2. Listed(rows) /\ Len(rows) = n
    <2> HIDE DEF n
    <2>1. DOMAIN rows = 1..n /\ rows = [k \in 1..n |-> rows[k]]
      OBVIOUS
    <2> HIDE DEF rows
    <2> QED BY <1>1, <2>1, Counted
  <1> HIDE DEF n
  <1>3. \A k \in 1..Len(rows) : Listed(rows[k])
    BY <1>2, MessagesListed
  <1> HIDE DEF rows
  <1>4. Honest(Asking(s, rows))
    BY <1>2, <1>3, AskingFacts
  <1>5. Honest(walked)
    BY <1>4
  <1> HIDE DEF walked
  <1>6. Honest(Push(walked, <<<<label, why>>>>))
    BY <1>5, PushOne
  <1>7. WalkThunks(s, rva, label, checkNames) \in {walked, Push(walked, <<<<label, why>>>>)}
    BY DEF WalkThunks, walked, rows, n
  <1> HIDE DEF why
  <1> QED BY <1>5, <1>6, <1>7

\* So does what ends a table of descriptors.
LEMMA EndIsHonest ==
  ASSUME Honest(sink), NEW rows, NEW max, NEW past, Listed(past)
  PROVE  Honest(DescriptorsEnd(rows, max, past))
  <1>1. Honest(Push(sink, <<<<table, "too many">>>>)) /\ Honest(Push(sink, past))
    BY PushOne, PushFacts
  <1> QED BY <1>1 DEF DescriptorsEnd

\* Descriptors of imports: none, the next one, or the end.
LEMMA ImportsTell ==
  ASSUME Telling, Imports
  PROVE  Telling'
  <1> DEFINE rows == HeldAt(image.imports, FileRange(Dir("imports").rva, 20))
             past == <<<<table, "runs off the file">>>>
             d == rows[row]
             lookup == IF d.original # 0 THEN d.original ELSE d.first
             named == WalkThunks(sink, lookup, <<"lookup table", row>>, d.original # 0)
  <1>1. table = "imports" /\ Honest(sink) /\ Pe
    BY DEF Imports, Telling, PeWalks, PeTables, Pe
  <1>2. \/ Finish(sink, "delay imports")
        \/ Continue(ImportDescriptor(sink, d, row))
        \/ Finish(DescriptorsEnd(rows, MaxDescriptors, past), "delay imports")
    BY DEF Imports
  <1> HIDE DEF rows
  <1>3. Honest(DescriptorsEnd(rows, MaxDescriptors, past))
    <2>1. Listed(past)
      BY OneListed
    <2> QED BY <1>1, <2>1, EndIsHonest
  <1>4. Honest(ImportDescriptor(sink, d, row))
    <2>1. Honest(named)
      BY <1>1, ThunksAreHonest
    <2>2. /\ Honest(Push(sink, <<<<"no table", row>>>>))
          /\ Honest(Push(sink, <<<<"lookup table unmapped", row>>>>))
          /\ Honest(Push(named, <<<<"tables differ", row>>>>))
      BY <1>1, <2>1, PushOne
    <2>3. ImportDescriptor(sink, d, row) \in
            {sink, Push(sink, <<<<"no table", row>>>>), Push(sink, <<<<"lookup table unmapped", row>>>>),
             Push(named, <<<<"tables differ", row>>>>), named}
      BY DEF ImportDescriptor
    <2> HIDE DEF named, lookup, d
    <2> QED BY <1>1, <2>1, <2>2, <2>3
  <1>5. RowDefects(table) = {}
    BY <1>1 DEF RowDefects
  <1> HIDE DEF d
  <1> QED BY <1>1, <1>2, <1>3, <1>4, <1>5, FinishTells, ContinueTells DEF PeWalks, PeTables, ElfWalks

\* Delay-load descriptors.
LEMMA DelayImportsTell ==
  ASSUME Telling, DelayImports
  PROVE  Telling'
  <1> DEFINE d == image.delay[row]
             lookup == IF d.names # 0 THEN d.names ELSE d.addresses
             named == IF d.name = 0 THEN sink ELSE Push(sink, BadString(d.name, 0, <<"module name", row>>))
             walked == WalkThunks(named, lookup, <<"name table", row>>, TRUE)
  <1>1. table = "delay imports" /\ Honest(sink) /\ Pe
    BY DEF DelayImports, Telling, PeWalks, PeTables, Pe
  <1>2. \/ Finish(sink, "bound imports")
        \/ Finish(Push(sink, <<<<table, "unmapped">>>>), "bound imports")
        \/ Continue(DelayDescriptor(sink, d, row))
        \/ Finish(DescriptorsEnd(image.delay, MaxDelay, <<>>), "bound imports")
    BY DEF DelayImports
  <1>3. Honest(DescriptorsEnd(image.delay, MaxDelay, <<>>)) /\ Honest(Push(sink, <<<<table, "unmapped">>>>))
    BY <1>1, EmptyHolds, EndIsHonest, PushOne
  <1>4. Honest(DelayDescriptor(sink, d, row))
    <2>1. Honest(Push(sink, BadString(d.name, 0, <<"module name", row>>)))
      BY <1>1, MessagesListed, PushFacts
    <2>2. Honest(named)
      BY <1>1, <2>1
    <2> HIDE DEF named
    <2>3. Honest(walked)
      BY <1>1, <2>2, ThunksAreHonest
    <2>4. /\ Honest(Push(sink, <<<<"legacy form", row>>>>)) /\ Honest(Push(named, <<<<"no table", row>>>>))
          /\ Honest(Push(named, <<<<"name table unmapped", row>>>>))
      BY <1>1, <2>2, PushOne
    <2>5. DelayDescriptor(sink, d, row) \in
            {Push(sink, <<<<"legacy form", row>>>>), Push(named, <<<<"no table", row>>>>),
             Push(named, <<<<"name table unmapped", row>>>>), walked}
      BY DEF DelayDescriptor, named
    <2> HIDE DEF walked, lookup, d
    <2> QED BY <2>3, <2>4, <2>5
  <1>5. RowDefects(table) = {}
    BY <1>1 DEF RowDefects
  <1> HIDE DEF d
  <1> QED BY <1>1, <1>2, <1>3, <1>4, <1>5, FinishTells, ContinueTells DEF PeWalks, PeTables, ElfWalks

\* Bound descriptors and their forwarders.
LEMMA BoundImportsTell ==
  ASSUME Telling, BoundImports
  PROVE  Telling'
  <1>1. table = "bound imports" /\ Honest(sink)
    BY DEF BoundImports, Telling
  <1>2. \/ Finish(sink, "addresses")
        \/ Finish(Push(sink, <<<<table, "unmapped">>>>), "addresses")
        \/ \E bad \in {<<>>, <<<<"name outside the directory", row>>>>, <<<<"name not in the file", row>>>>} :
             Continue(Push(sink, bad))
        \/ Finish(DescriptorsEnd(image.bound, MaxBound, <<>>), "addresses")
    BY DEF BoundImports
  <1>3. Honest(DescriptorsEnd(image.bound, MaxBound, <<>>)) /\ Honest(Push(sink, <<<<table, "unmapped">>>>))
    BY <1>1, EmptyHolds, EndIsHonest, PushOne
  <1>4. \A bad \in {<<>>, <<<<"name outside the directory", row>>>>, <<<<"name not in the file", row>>>>} :
          Honest(Push(sink, bad))
    BY <1>1, EmptyHolds, OneListed, PushFacts
  <1>5. RowDefects(table) = {}
    BY <1>1 DEF RowDefects
  <1> QED BY <1>1, <1>2, <1>3, <1>4, <1>5, FinishTells, ContinueTells DEF PeWalks, PeTables, ElfWalks

\* The directory of the import addresses.
LEMMA AddressesTell ==
  ASSUME Telling, Addresses
  PROVE  Telling'
  <1>1. table = "addresses" /\ Honest(sink)
    BY DEF Addresses, Telling
  <1>2. \E s \in {sink, Push(sink, <<<<table, "unmapped">>>>)} : Finish(s, "tls")
    BY DEF Addresses
  <1>3. \A s \in {sink, Push(sink, <<<<table, "unmapped">>>>)} : Honest(s)
    BY <1>1, PushOne
  <1>4. RowDefects(table) = {}
    BY <1>1 DEF RowDefects
  <1> QED BY <1>1, <1>2, <1>3, <1>4, FinishTells DEF PeWalks, PeTables, ElfWalks

\* Callbacks are all looked at, or the sink says that it was asked for more.
LEMMA CallbacksTell ==
  ASSUME Pe, NEW s, Honest(s)
  PROVE  /\ Honest(Callbacks(s))
         /\ Whole(Callbacks(s)) => CallbackDefects \subseteq ToSet(Callbacks(s).kept)
  <1> DEFINE array == CallbackArray
             n == Upto(array, MaxCallbacks)
             rows == [k \in 1..n |-> BadCallback(array, k)]
             walked == Asking(s, rows)
             lost == Push(s, <<<<"callbacks", "array unmapped">>>>)
             open == Push(walked, <<<<"callbacks", "not terminated">>>>)
             c == Callbacks(s)
  <1>1. n \in Nat
    BY UptoFacts, WalkAssumption
  <1>2. Listed(rows) /\ Len(rows) = n /\ \A k \in 1..n : rows[k] = BadCallback(array, k)
    <2> HIDE DEF n
    <2>1. DOMAIN rows = 1..n /\ rows = [k \in 1..n |-> rows[k]] /\ \A k \in 1..n : rows[k] = BadCallback(array, k)
      OBVIOUS
    <2> HIDE DEF rows
    <2> QED BY <1>1, <2>1, Counted
  <1>3. c \in {s, lost, walked, open}
        /\ (array # 0 /\ Backed(array, Pointer) => c \in {walked, open})
    <2>1. Callbacks(s) = IF array = 0 THEN s
                         ELSE IF ~ Backed(array, Pointer) THEN lost
                         ELSE IF Terminated(array, MaxCallbacks) \/ walked.unseen THEN walked
                         ELSE open
      BY DEF Callbacks
    <2> HIDE DEF array, walked, lost, open
    <2> QED BY <2>1
  <1>4. CallbackDefects = {} \/ (array # 0 /\ Backed(array, Pointer))
    BY DEF CallbackDefects
  <1> DEFINE found == UNION {ToSet(BadCallback(array, k)) : k \in 1..n}
  <1>5. CallbackDefects \subseteq found
    <2>1. CallbackDefects \in {{}, found}
      BY DEF CallbackDefects
    <2> HIDE DEF found
    <2> QED BY <2>1
  <1> HIDE DEF n, rows, c
  <1> HIDE DEF array
  <1>6. \A k \in 1..Len(rows) : Listed(rows[k])
    BY <1>2, MessagesListed
  <1>7. Honest(walked) /\ (Whole(walked) => \A k \in 1..n : ToSet(rows[k]) \subseteq ToSet(walked.kept))
    BY <1>2, <1>6, AskingFacts
  <1> HIDE DEF walked
  <1>8. /\ Honest(open) /\ (Whole(open) => Whole(walked))
        /\ ToSet(walked.kept) \subseteq ToSet(open.kept)
    BY <1>7, OneListed, PushFacts
  <1>9. Honest(lost)
    BY PushOne
  <1> HIDE DEF open, lost
  <1>10. Honest(c)
    BY <1>3, <1>7, <1>8, <1>9
  <1>11. ASSUME Whole(c), array # 0 /\ Backed(array, Pointer)
         PROVE  CallbackDefects \subseteq ToSet(c.kept)
    <2>1. Whole(walked) /\ ToSet(walked.kept) \subseteq ToSet(c.kept)
      BY <1>3, <1>8, <1>11
    <2>2. \A k \in 1..n : ToSet(BadCallback(array, k)) \subseteq ToSet(c.kept)
      BY <1>2, <1>7, <2>1
    <2> QED BY <1>5, <2>2
  <1> QED BY <1>4, <1>10, <1>11 DEF c

\* The TLS directory with its fields and its callbacks.
LEMMA TlsTells ==
  ASSUME Telling, Tls
  PROVE  Telling'
  <1> DEFINE dir == Dir("tls")
             header == IF image.is64 THEN 40 ELSE 24
             sized == IF dir.size < header THEN Push(sink, <<<<table, "too small">>>>) ELSE sink
             rows == [k \in DOMAIN TlsFields |-> BadTlsField(TlsFields[k][1], TlsFields[k][2])]
             fields == FlattenSeq(rows)
             next == "relocations"
  <1>1. table = "tls" /\ Honest(sink) /\ Pe
    BY DEF Tls, Telling, PeWalks, PeTables, Pe
  <1>2. \/ dir.rva = 0 /\ Finish(sink, next)
        \/ ~ Backed(dir.rva, header) /\ Finish(Push(sized, <<<<table, "unmapped">>>>), next)
        \/ Finish(Callbacks(Push(sized, fields)), next)
    BY DEF Tls
  <1>3. Honest(sized)
    BY <1>1, PushOne
  <1>4. Honest(Push(sized, <<<<table, "unmapped">>>>))
    <2> HIDE DEF sized
    <2> QED BY <1>3, PushOne
  <1>5. Listed(fields)
    <2>1. DOMAIN rows = 1..4 /\ rows = [k \in 1..4 |-> rows[k]] /\ \A k \in 1..4 : Listed(rows[k])
      <3>1. DOMAIN TlsFields = 1..4
        BY DEF TlsFields
      <3> QED BY <3>1, MessagesListed
    <2> HIDE DEF rows
    <2>2. Listed(rows) /\ Len(rows) = 4
      BY <2>1, Counted
    <2> QED BY <2>1, <2>2, FlattenFacts
  <1> HIDE DEF fields
  <1>6. Honest(Push(sized, fields))
    <2> HIDE DEF sized
    <2> QED BY <1>3, <1>5, PushFacts
  <1> DEFINE s == Push(sized, fields)
  <1> HIDE DEF s
  <1>7. Honest(Callbacks(s)) /\ (Whole(Callbacks(s)) => CallbackDefects \subseteq ToSet(Callbacks(s).kept))
    BY <1>1, <1>6, CallbacksTell DEF s
  <1>8. RowDefects(table) = CallbackDefects
    BY <1>1 DEF RowDefects
  <1>9. dir.rva = 0 \/ ~ Backed(dir.rva, header) => CallbackDefects = {}
    BY DEF CallbackDefects
  <1> HIDE DEF sized, dir, header
  <1>10. next \in PeWalks /\ table \in PeWalks /\ next \notin ElfWalks
    BY <1>1 DEF PeWalks, PeTables, ElfWalks
  <1> HIDE DEF next
  <1>11. CASE dir.rva = 0 /\ Finish(sink, next)
    <2>1. RowDefects(table) = {}
      BY <1>8, <1>9, <1>11
    <2> QED BY <1>1, <1>10, <1>11, <2>1, FinishTells
  <1>12. CASE ~ Backed(dir.rva, header) /\ Finish(Push(sized, <<<<table, "unmapped">>>>), next)
    <2>1. RowDefects(table) = {}
      BY <1>8, <1>9, <1>12
    <2> QED BY <1>4, <1>10, <1>12, <2>1, FinishTells
  <1>13. CASE Finish(Callbacks(Push(sized, fields)), next)
    <2>1. Finish(Callbacks(s), next)
      BY <1>13 DEF s
    <2> QED BY <1>7, <1>8, <1>10, <2>1, FinishTells
  <1> QED BY <1>2, <1>11, <1>12, <1>13

\* The functions that are asked for.
LEMMA ExceptionsTell ==
  ASSUME Telling, Exceptions
  PROVE  Telling'
  <1> DEFINE dir == Dir("exceptions")
             entry == IF image.is64 THEN 12 ELSE 8
             functions == dir.size \div entry
             sized == IF dir.size % entry # 0 THEN Push(sink, <<<<table, "odd size">>>>) ELSE sink
             count == Smaller(functions, MaxExceptions)
             rows == [k \in 1..count |-> BadFunction(k)]
             walked == Asking(sized, rows)
             lost == Push(sized, <<<<table, "unmapped">>>>)
             backed == Backed(dir.rva, functions * entry)
             next == "load config"
  <1>1. table = "exceptions" /\ Honest(sink) /\ Pe
    BY DEF Exceptions, Telling, PeWalks, PeTables, Pe
  <1>2. dir.size \in Nat
    <2>1. "exceptions" \in DOMAIN image.dir
      BY <1>1, ImageAssumption DEF Pe, PeRead, Directory
    <2> QED BY <1>1, <2>1, ImageAssumption DEF Pe, PeRead, Dir
  <1>3. functions \in Nat /\ (dir.size = 0 => functions = 0)
    <2>1. entry \in {8, 12}
      OBVIOUS
    <2> HIDE DEF dir, entry
    <2>2. dir.size \div 8 \in Nat /\ dir.size \div 12 \in Nat /\ 0 \div 8 = 0 /\ 0 \div 12 = 0
      BY <1>2
    <2> QED BY <2>1, <2>2
  <1>4. \/ (dir.rva = 0 \/ dir.size = 0) /\ Finish(sink, next)
        \/ backed /\ Finish(walked, next)
        \/ ~ backed /\ Finish(lost, next)
    BY DEF Exceptions
  <1>5. FunctionDefects = IF dir.rva # 0 /\ backed THEN UNION {ToSet(BadFunction(k)) : k \in 1..count} ELSE {}
    BY DEF FunctionDefects
  <1>6. RowDefects(table) = FunctionDefects
    BY <1>1 DEF RowDefects
  <1>7. Honest(sized)
    BY <1>1, PushOne
  <1> HIDE DEF sized, dir, backed, functions
  <1>8. count \in Nat /\ (functions = 0 => count = 0)
    BY <1>3, WalkAssumption DEF Smaller
  <1> HIDE DEF count
  <1>9. Listed(rows) /\ Len(rows) = count /\ \A k \in 1..count : rows[k] = BadFunction(k)
    <2>1. DOMAIN rows = 1..count /\ rows = [k \in 1..count |-> rows[k]] /\ \A k \in 1..count : rows[k] = BadFunction(k)
      OBVIOUS
    <2> HIDE DEF rows
    <2> QED BY <1>8, <2>1, Counted
  <1> HIDE DEF rows
  <1>10. \A k \in 1..Len(rows) : Listed(rows[k])
    BY <1>9, MessagesListed
  <1>11. Honest(walked) /\ (Whole(walked) => \A k \in 1..count : ToSet(rows[k]) \subseteq ToSet(walked.kept))
    BY <1>7, <1>9, <1>10, AskingFacts
  <1>12. Honest(lost)
    BY <1>7, PushOne
  <1> HIDE DEF walked, lost
  <1>13. next \in PeWalks /\ table \in PeWalks /\ next \notin ElfWalks
    BY <1>1 DEF PeWalks, PeTables, ElfWalks
  <1> HIDE DEF next
  <1>14. CASE (dir.rva = 0 \/ dir.size = 0) /\ Finish(sink, next)
    <2>1. RowDefects(table) = {}
      <3>1. dir.size = 0 => 1..count = {}
        BY <1>3, <1>8
      <3> QED BY <1>5, <1>6, <1>14, <3>1
    <2> QED BY <1>1, <1>13, <1>14, <2>1, FinishTells
  <1>15. CASE backed /\ Finish(walked, next)
    <2>1. ASSUME Whole(walked)
          PROVE  RowDefects(table) \subseteq ToSet(walked.kept)
      <3>1. \A k \in 1..count : ToSet(BadFunction(k)) \subseteq ToSet(walked.kept)
        BY <1>9, <1>11, <2>1
      <3> QED BY <1>5, <1>6, <3>1
    <2> QED BY <1>11, <1>13, <1>15, <2>1, FinishTells
  <1>16. CASE ~ backed /\ Finish(lost, next)
    <2>1. RowDefects(table) = {}
      BY <1>5, <1>6, <1>16
    <2> QED BY <1>12, <1>13, <1>16, <2>1, FinishTells
  <1> QED BY <1>4, <1>14, <1>15, <1>16

\* The two addresses of the load configuration.
LEMMA LoadConfigTells ==
  ASSUME Telling, LoadConfig
  PROVE  Telling'
  <1> DEFINE dir == Dir("load config")
             minimum == IF image.is64 THEN 112 ELSE 64
             readable == Smaller(minimum, dir.size)
             sized == IF dir.size < minimum THEN Push(sink, <<<<table, "too small">>>>) ELSE sink
             fields == IF image.is64 THEN <<<<"cookie", 88>>, <<"guard", 112>>>>
                       ELSE <<<<"cookie", 60>>, <<"guard", 72>>>>
             bad(name, offset) == IF offset + Pointer > readable THEN <<>>
                                  ELSE BadAddress(image.config[name], name)
             rows == [k \in 1..2 |-> bad(fields[k][1], fields[k][2])]
             next == "done"
  <1>1. table = "load config" /\ Honest(sink)
    BY DEF LoadConfig, Telling
  <1>2. \E s \in {sink, Push(sized, FlattenSeq(rows)), Push(sized, <<<<table, "unmapped">>>>)} : Finish(s, next)
    BY DEF LoadConfig
  <1>3. Honest(sized)
    BY <1>1, PushOne
  <1>4. Listed(FlattenSeq(rows))
    <2>1. \A name, offset : Listed(bad(name, offset))
      BY EmptyHolds, MessagesListed
    <2> HIDE DEF bad, fields
    <2>2. DOMAIN rows = 1..2 /\ rows = [k \in 1..2 |-> rows[k]] /\ \A k \in 1..2 : Listed(rows[k])
      BY <2>1
    <2> HIDE DEF rows
    <2>3. Listed(rows) /\ Len(rows) = 2
      BY <2>2, Counted
    <2> QED BY <2>2, <2>3, FlattenFacts
  <1> HIDE DEF sized, rows
  <1>5. Honest(Push(sized, FlattenSeq(rows))) /\ Honest(Push(sized, <<<<table, "unmapped">>>>))
    BY <1>3, <1>4, PushFacts, PushOne
  <1>6. RowDefects(table) = {}
    BY <1>1 DEF RowDefects
  <1>7. next \in PeWalks /\ table \in PeWalks /\ next \notin ElfWalks
    BY <1>1 DEF PeWalks, PeTables, ElfWalks
  <1> HIDE DEF next
  <1> QED BY <1>1, <1>2, <1>5, <1>6, <1>7, FinishTells

\* Streams that can be read are counted by a natural number.
LEMMA ReadableIsNat ==
  ASSUME Blob.count \in Nat
  PROVE  Readable \in Nat
  <1> DEFINE broken == {k \in 1..Blob.count : ~ InBlob(StreamAt(k), 8) \/ ~ NameEnds(k)}
  <1>1. broken \subseteq Nat /\ \A k \in broken : k >= 1
    OBVIOUS
  <1>2. Readable = IF broken = {} THEN Blob.count ELSE Least(broken) - 1
    BY DEF Readable
  <1> HIDE DEF broken
  <1>3. broken # {} => Least(broken) \in broken
    BY <1>1, LeastIs
  <1> DEFINE m == Least(broken)
  <1>4. broken # {} => m - 1 \in Nat
    <2>1. broken # {} => m \in Nat /\ m >= 1
      BY <1>1, <1>3
    <2> HIDE DEF m
    <2> QED BY <2>1
  <1> QED BY <1>2, <1>4

\* The defects of the CLR metadata are a list.
LEMMA MetadataListed ==
  ASSUME Blob.count \in Nat
  PROVE  Listed(MetadataDefects)
  <1> DEFINE unreadable == <<"stream", Readable + 1, IF InBlob(StreamAt(Readable + 1), 8) THEN "name" ELSE "header">>
             rows == [k \in 1..Readable |-> BadStream(k)]
             streams == FlattenSeq(rows)
             heaps == Missing("#Strings") \o Missing("#GUID") \o Missing("#Blob")
             tables == BadTables(TablesStream)
  <1>1. Readable \in Nat
    BY ReadableIsNat
  <1>2. ASSUME NEW k
        PROVE  Listed(BadStream(k))
    <2> DEFINE s == Blob.streams[k]
               name == IF s.name = "" THEN <<<<"stream name", k>>>> ELSE <<>>
               past == IF s.offset + s.size < Word /\ InBlob(s.offset, s.size) THEN <<>>
                       ELSE <<<<"stream", k, "past the blob">>>>
    <2>1. name \in {<<>>, <<<<"stream name", k>>>>} /\ past \in {<<>>, <<<<"stream", k, "past the blob">>>>}
      OBVIOUS
    <2>2. BadStream(k) = name \o past
      BY DEF BadStream
    <2> HIDE DEF name, past
    <2>3. Listed(name) /\ Listed(past)
      BY <2>1, EmptyHolds, OneListed
    <2> QED BY <2>2, <2>3, ConcatList
  <1>3. Listed(streams)
    <2>1. DOMAIN rows = 1..Readable /\ rows = [k \in 1..Readable |-> rows[k]]
          /\ \A k \in 1..Readable : Listed(rows[k])
      BY <1>2
    <2> HIDE DEF rows
    <2>2. Listed(rows) /\ Len(rows) = Readable
      BY <1>1, <2>1, Counted
    <2> QED BY <2>1, <2>2, FlattenFacts
  <1>4. \A name : Listed(Missing(name))
    BY EmptyHolds, OneListed DEF Missing
  <1>5. Listed(heaps)
    BY <1>4, ConcatList
  <1>6. ASSUME NEW s
        PROVE  Listed(BadTables(s))
    <2> DEFINE t == Blob.tables
               note(bad, what) == IF bad THEN <<<<"tables", what>>>> ELSE <<>>
               n1 == note(t.reserved # 0, "reserved")
               n2 == note(t.major # 2, "major")
               n3 == note(t.heaps >= 8, "heap flags")
               n4 == note(t.rows = 0, "none")
               n5 == note(t.undefined, "undefined bits")
               n6 == note(~ InBlob(s.offset + 24, 4 * t.rows), "rows past the blob")
               n7 == note(s.size < 24 + 4 * t.rows, "stream too small")
    <2>1. /\ n1 \in {<<>>, <<<<"tables", "reserved">>>>} /\ n2 \in {<<>>, <<<<"tables", "major">>>>}
          /\ n3 \in {<<>>, <<<<"tables", "heap flags">>>>} /\ n4 \in {<<>>, <<<<"tables", "none">>>>}
          /\ n5 \in {<<>>, <<<<"tables", "undefined bits">>>>}
          /\ n6 \in {<<>>, <<<<"tables", "rows past the blob">>>>}
          /\ n7 \in {<<>>, <<<<"tables", "stream too small">>>>}
      OBVIOUS
    <2>2. BadTables(s) = IF ~ InBlob(s.offset, 24) THEN <<<<"tables", "no header">>>>
                         ELSE n1 \o n2 \o n3 \o n4 \o n5 \o n6 \o n7
      BY DEF BadTables
    <2> HIDE DEF n1, n2, n3, n4, n5, n6, n7
    <2>3. Listed(n1) /\ Listed(n2) /\ Listed(n3) /\ Listed(n4) /\ Listed(n5) /\ Listed(n6) /\ Listed(n7)
      BY <2>1, EmptyHolds, OneListed
    <2>4. Listed(n1 \o n2)
      BY <2>3, ConcatList
    <2>5. Listed(n1 \o n2 \o n3)
      BY <2>3, <2>4, ConcatList
    <2>6. Listed(n1 \o n2 \o n3 \o n4)
      BY <2>3, <2>5, ConcatList
    <2>7. Listed(n1 \o n2 \o n3 \o n4 \o n5)
      BY <2>3, <2>6, ConcatList
    <2>8. Listed(n1 \o n2 \o n3 \o n4 \o n5 \o n6)
      BY <2>3, <2>7, ConcatList
    <2>9. Listed(n1 \o n2 \o n3 \o n4 \o n5 \o n6 \o n7)
      BY <2>3, <2>8, ConcatList
    <2>10. Listed(<<<<"tables", "no header">>>>)
      BY OneListed
    <2> QED BY <2>2, <2>9, <2>10
  <1>7. Listed(tables)
    BY <1>6
  <1>8. MetadataDefects \in {<<>>, <<RootDefect>>, Append(streams, unreadable),
                             Append(streams, <<"streams", "no tables">>), streams \o heaps \o tables}
    BY DEF MetadataDefects
  <1> HIDE DEF streams, heaps, tables, unreadable
  <1>9. Listed(streams \o heaps \o tables)
    <2>1. Listed(streams \o heaps)
      BY <1>3, <1>5, ConcatList
    <2> QED BY <1>7, <2>1, ConcatList
  <1>10. Listed(<<RootDefect>>) /\ Listed(<<>>)
    BY OneListed, EmptyHolds
  <1>11. Listed(Append(streams, unreadable)) /\ Listed(Append(streams, <<"streams", "no tables">>))
    BY <1>3, AppendFacts
  <1> QED BY <1>8, <1>9, <1>10, <1>11

\* The CLR metadata.
LEMMA MetadataTells ==
  ASSUME Telling, Metadata
  PROVE  Telling'
  <1> DEFINE found == Dir("clr").rva # 0 /\ Backed(Dir("clr").rva, 16) /\ Blob.rva # 0 /\ Backed(Blob.rva, 4)
             s == IF found THEN Push(sink, MetadataDefects) ELSE sink
             next == "done"
  <1>1. table = "metadata" /\ Honest(sink) /\ Pe
    BY DEF Metadata, Telling, PeWalks, PeTables, Pe
  <1>2. Finish(s, next)
    BY DEF Metadata
  <1>3. Blob.rva # 0 => Blob.count \in Nat
    BY <1>1, ImageAssumption DEF Pe, PeRead, Blob
  <1>4. Honest(s)
    <2>1. ASSUME found
          PROVE  Honest(Push(sink, MetadataDefects))
      BY <1>1, <1>3, <2>1, MetadataListed, PushFacts
    <2> HIDE DEF found
    <2> QED BY <1>1, <2>1
  <1>5. RowDefects(table) = {}
    BY <1>1 DEF RowDefects
  <1>6. next \in PeWalks /\ table \in PeWalks /\ next \notin ElfWalks
    BY <1>1 DEF PeWalks, PeTables, ElfWalks
  <1> HIDE DEF next, s
  <1> QED BY <1>2, <1>4, <1>5, <1>6, FinishTells

\* The checks of the headers leave the sink and the reports alone.
LEMMA HeadersTell ==
  ASSUME Telling, Headers \/ Sections \/ Entry \/ Names \/ Runtime \/ Conclude
  PROVE  Telling'
  <1>1. table \in {"headers", "sections", "entry", "names", "runtime", "done"}
    BY DEF Headers, Sections, Entry, Names, Runtime, Conclude
  <1>2. table \in PeWalks
    BY <1>1 DEF PeWalks
  <1>3. {"sections", "entry", "names", "runtime", "metadata", "imports", "end"} \subseteq PeWalks \cup {"end"}
    BY DEF PeWalks, PeTables
  <1>4. ASSUME NEW found, NEW next \in {"sections", "entry", "names", "runtime", "metadata", "imports", "end"},
               Note(found, next)
        PROVE  Telling'
    BY <1>2, <1>3, <1>4, NoteTells
  <1>5. CASE Headers
    BY <1>4, <1>5 DEF Headers
  <1>6. CASE Sections
    BY <1>4, <1>6 DEF Sections
  <1>7. CASE Entry
    BY <1>4, <1>7 DEF Entry
  <1>8. CASE Names
    <2>1. CASE \E found : Note(found, "imports")
      BY <1>4, <2>1
    <2>2. CASE row' = row + 1 /\ UNCHANGED <<image, table, sink, report>>
      <3>1. \A k \in DOMAIN report : Told(report[k])'
        BY <2>2, ToldStays DEF Telling
      <3>2. Honest(sink)' /\ Listed(report)'
        BY <2>2 DEF Telling, Honest, Full, Whole, Listed
      <3>3. BlocksSeen'
        BY <1>8, <2>2 DEF BlocksSeen, Names
      <3>4. row' \in Nat \ {0}
        BY <2>2 DEF Telling
      <3> QED BY <2>2, <3>1, <3>2, <3>3, <3>4 DEF Telling, PeWalks, ElfWalks, PeTables
    <2> QED BY <1>8, <2>1, <2>2 DEF Names
  <1>9. CASE Runtime
    BY <1>4, <1>9 DEF Runtime
  <1>10. CASE Conclude
    BY <1>4, <1>10 DEF Conclude
  <1> QED BY <1>5, <1>6, <1>7, <1>8, <1>9, <1>10

\* Where the blocks of the relocations start, and that the walk finds one where it looks.
LEMMA BlockFacts ==
  ASSUME Pe
  PROVE  /\ image.blocks \in Seq(Blocks) /\ Dir("relocations").size \in Nat
         /\ BlocksBefore(1) = 0
         /\ \A k \in 1..Len(image.blocks) + 1 : BlocksBefore(k) \in Nat
         /\ (\A k \in 1..Len(image.blocks) : BlockFits(image.blocks[k], BlocksBefore(k), Dir("relocations").size))
              => BlocksBefore(Len(image.blocks) + 1) + 8 > Dir("relocations").size
  <1> DEFINE n == Len(image.blocks)
             size == Dir("relocations").size
             at == Starts(image.blocks)
             sizes == [k \in DOMAIN image.blocks |-> image.blocks[k].size]
  <1>1. image.blocks \in Seq(Blocks) /\ DOMAIN image.dir = Directory
    BY ImageAssumption DEF Pe, PeRead
  <1>2. size \in Nat
    <2>1. "relocations" \in DOMAIN image.dir
      BY <1>1 DEF Directory
    <2> QED BY <2>1, ImageAssumption DEF Pe, PeRead, Dir
  <1>3. (\A k \in DOMAIN image.blocks : BlockFits(image.blocks[k], at[k - 1], size)) => at[n] + 8 > size
    BY ImageAssumption DEF Pe, PeRead, Dir
  <1>4. n \in Nat /\ DOMAIN image.blocks = 1..n /\ \A k \in 1..n : image.blocks[k].size \in Nat
    <2>1. n \in Nat /\ DOMAIN image.blocks = 1..n /\ \A k \in 1..n : image.blocks[k] \in Blocks
      BY <1>1
    <2>2. \A b \in Blocks : b.size \in Nat
      BY DEF Blocks
    <2> QED BY <2>1, <2>2
  <1>5. sizes \in Seq(Nat) /\ Len(sizes) = n
    <2>1. DOMAIN sizes = 1..n /\ sizes \in [1..n -> Nat]
      BY <1>4
    <2> HIDE DEF sizes
    <2>2. sizes \in Seq(Nat)
      BY <1>4, <2>1, SeqDef
    <2>3. Len(sizes) \in Nat /\ DOMAIN sizes = 1..Len(sizes)
      BY <2>2
    <2> QED BY <1>4, <2>1, <2>2, <2>3
  <1>6. at[0] = 0 /\ \A k \in 0..n : at[k] \in Nat
    <2>1. at = Running(sizes)
      BY DEF Starts
    <2> HIDE DEF sizes, at
    <2> QED BY <1>5, <2>1, RunningFacts
  <1>7. \A k : BlocksBefore(k) = at[k - 1]
    BY DEF BlocksBefore
  <1> HIDE DEF at, size
  <1>8. BlocksBefore(1) = 0
    BY <1>6, <1>7
  <1>9. ASSUME NEW k \in 1..n + 1
        PROVE  BlocksBefore(k) \in Nat
    <2>1. k - 1 \in 0..n
      BY <1>4
    <2> QED BY <1>6, <1>7, <2>1
  <1>10. BlocksBefore(n + 1) = at[n]
    <2>1. (n + 1) - 1 = n
      BY <1>4
    <2> QED BY <1>7, <2>1
  <1>11. (\A k \in 1..n : BlockFits(image.blocks[k], BlocksBefore(k), size)) => BlocksBefore(n + 1) + 8 > size
    BY <1>3, <1>4, <1>7, <1>10
  <1> QED BY <1>1, <1>2, <1>8, <1>9, <1>11 DEF size

\* The blocks of relocations: BlocksSeen carries what was found before this block.
LEMMA RelocationsTell ==
  ASSUME Telling, Relocations
  PROVE  Telling'
  <1> DEFINE dir == Dir("relocations")
             size == Dir("relocations").size
             at == BlocksBefore(row)
             block == image.blocks[row]
             n == Len(image.blocks)
             fits == BlockFits(block, at, size)
             pushed == Push(sink, BadBlock(block))
             rows == [k \in DOMAIN block.entries |-> BadEntry(block, row, k)]
             walked == Asking(pushed, rows)
             many == Push(walked, <<<<table, "too many">>>>)
             stray == Push(sink, <<<<"block", row, "does not fit">>>>)
             rest == IF at = size THEN sink ELSE Push(sink, <<<<table, "trailing bytes">>>>)
             next == "exceptions"
             backed == Backed(dir.rva, size)
  <1>1. table = "relocations" /\ Honest(sink) /\ Pe /\ row \in Nat \ {0}
    BY DEF Relocations, Telling, PeWalks, PeTables, Pe
  <1>2. \/ dir.rva = 0 /\ Finish(sink, next)
        \/ size = 0 /\ Finish(Push(sink, <<<<table, "empty">>>>), next)
        \/ ~ backed /\ Finish(Push(sink, <<<<table, "unmapped">>>>), next)
        \/ at + 8 <= size /\ ~ fits /\ Finish(stray, next)
        \/ at + 8 <= size /\ fits /\ Continue(walked)
        \/ at + 8 <= size /\ fits /\ row >= MaxBlocks /\ Finish(many, next)
        \/ at + 8 > size /\ Finish(rest, next)
    BY DEF Relocations
  <1>3. /\ n \in Nat /\ DOMAIN image.blocks = 1..n /\ size \in Nat /\ BlocksBefore(1) = 0
        /\ \A k \in 1..n : image.blocks[k] \in Blocks
        /\ \A k \in 1..n + 1 : BlocksBefore(k) \in Nat
        /\ (\A k \in 1..n : BlockFits(image.blocks[k], BlocksBefore(k), size)) => BlocksBefore(n + 1) + 8 > size
    BY <1>1, BlockFacts
  <1>4. \A j \in 1..row - 1 :
          /\ j \in 1..n /\ BlockFits(image.blocks[j], BlocksBefore(j), size)
          /\ Whole(sink) => BlockDefects(j) \subseteq ToSet(sink.kept)
    BY <1>1, <1>3 DEF Telling, BlocksSeen
  <1>5. row \in 1..n + 1
    <2>1. CASE row = 1
      BY <1>3, <2>1
    <2>2. CASE row # 1
      <3>1. row - 1 \in 1..row - 1
        BY <1>1, <2>2
      <3>2. row - 1 \in 1..n
        BY <1>4, <3>1
      <3> QED BY <1>1, <1>3, <3>2
    <2> QED BY <2>1, <2>2
  <1>6. at + 8 <= size => row \in 1..n
    <2> SUFFICES ASSUME at + 8 <= size, row \notin 1..n
                 PROVE  FALSE
      OBVIOUS
    <2>1. row = n + 1 /\ row - 1 = n
      BY <1>1, <1>3, <1>5
    <2>2. \A k \in 1..n : BlockFits(image.blocks[k], BlocksBefore(k), size)
      BY <1>4, <2>1
    <2>3. at + 8 > size /\ at \in Nat
      BY <1>3, <1>5, <2>1, <2>2
    <2> HIDE DEF at, size
    <2> QED BY <1>3, <2>3
  \* What RowDefects asks of a report of this table.
  <1>7. /\ RowDefects(table) = PatchDefects
        /\ PatchDefects = IF dir.rva # 0 /\ backed
                          THEN UNION {BlockDefects(i) : i \in {i \in 1..n : i <= MaxBlocks /\ BlocksFit(i)}} ELSE {}
    BY <1>1, <1>3 DEF RowDefects, PatchDefects
  <1>8. ASSUME NEW t, Honest(t), ToSet(sink.kept) \subseteq ToSet(t.kept), Whole(t) => Whole(sink),
               \A i \in 1..n : BlocksFit(i) => i \in 1..row - 1
        PROVE  Whole(t) => RowDefects(table) \subseteq ToSet(t.kept)
    <2>1. ASSUME Whole(t), NEW i \in 1..n, BlocksFit(i)
          PROVE  BlockDefects(i) \subseteq ToSet(t.kept)
      BY <1>4, <1>8, <2>1
    <2> HIDE DEF backed
    <2> QED BY <1>7, <2>1
  <1>9. ASSUME ~ (row \in 1..n /\ fits)
        PROVE  \A i \in 1..n : BlocksFit(i) => i \in 1..row - 1
    <2> TAKE i \in 1..n
    <2>1. ASSUME BlocksFit(i), ~ (i \in 1..row - 1)
          PROVE  FALSE
      <3>1. row \in 1..i /\ row \in 1..n
        BY <1>1, <1>3, <2>1
      <3>2. fits
        BY <2>1, <3>1 DEF BlocksFit
      <3> HIDE DEF fits
      <3> QED BY <1>9, <3>1, <3>2
    <2> QED BY <2>1
  <1>10. next \in PeWalks /\ table \in PeWalks /\ next \notin ElfWalks
    BY <1>1 DEF PeWalks, PeTables, ElfWalks
  \* The sinks it ends with.
  <1>11. ASSUME NEW x
         PROVE  LET t == Push(sink, <<x>>) IN
                Honest(t) /\ ToSet(sink.kept) \subseteq ToSet(t.kept) /\ (Whole(t) => Whole(sink))
    BY <1>1, OneListed, PushFacts
  <1>12. ASSUME row \in 1..n
         PROVE  /\ Honest(walked) /\ ToSet(sink.kept) \subseteq ToSet(walked.kept)
                /\ Whole(walked) => Whole(sink) /\ BlockDefects(row) \subseteq ToSet(walked.kept)
    <2>1. Honest(pushed) /\ ToSet(sink.kept) \subseteq ToSet(pushed.kept) /\ (Whole(pushed) => Whole(sink))
      BY <1>1, MessagesListed, PushFacts
    <2> DEFINE m == Len(block.entries)
    <2>2. m \in Nat /\ DOMAIN block.entries = 1..m
      <3>1. block \in Blocks
        BY <1>3, <1>12
      <3> HIDE DEF block
      <3>2. block.entries \in Seq([kind : Nat, offset : Nat])
        BY <3>1 DEF Blocks
      <3> QED BY <3>2
    <2> HIDE DEF m
    <2>3. Listed(rows) /\ Len(rows) = m /\ \A k \in 1..m : rows[k] = BadEntry(block, row, k)
      <3>1. DOMAIN rows = 1..m /\ rows = [k \in 1..m |-> rows[k]] /\ \A k \in 1..m : rows[k] = BadEntry(block, row, k)
        BY <2>2
      <3> HIDE DEF rows
      <3> QED BY <2>2, <3>1, Counted
    <2> HIDE DEF rows, pushed
    <2>4. \A k \in 1..Len(rows) : Listed(rows[k])
      BY <2>3, MessagesListed
    <2>5. /\ Honest(walked) /\ ToSet(pushed.kept) \subseteq ToSet(walked.kept)
          /\ Whole(walked) => Whole(pushed) /\ \A k \in 1..m : ToSet(rows[k]) \subseteq ToSet(walked.kept)
      BY <2>1, <2>3, <2>4, AskingFacts
    <2>6. BlockDefects(row) = UNION {ToSet(BadEntry(block, row, k)) : k \in 1..m}
      BY <2>2 DEF BlockDefects
    <2> HIDE DEF walked, block
    <2> QED BY <2>1, <2>3, <2>5, <2>6
  <1>13. ASSUME NEW t, Honest(t), ToSet(sink.kept) \subseteq ToSet(t.kept), Whole(t) => Whole(sink),
                ~ (row \in 1..n /\ fits), Finish(t, next)
         PROVE  Telling'
    BY <1>8, <1>9, <1>10, <1>13, FinishTells
  <1>14. ASSUME NEW t, Honest(t), RowDefects(table) = {}, Finish(t, next)
         PROVE  Telling'
    BY <1>10, <1>14, FinishTells
  <1> HIDE DEF next
  <1>15. CASE dir.rva = 0 /\ Finish(sink, next)
    <2>1. RowDefects(table) = {}
      BY <1>7, <1>15
    <2> QED BY <1>1, <1>14, <1>15, <2>1
  <1>16. CASE size = 0 /\ Finish(Push(sink, <<<<table, "empty">>>>), next)
    <2>1. ASSUME NEW i \in 1..n, BlocksFit(i)
          PROVE  FALSE
      <3>1. 1 \in 1..i /\ 1 \in 1..n
        BY <1>3
      <3>2. BlockFits(image.blocks[1], 0, 0)
        BY <1>3, <1>16, <2>1, <3>1 DEF BlocksFit
      <3>3. image.blocks[1].size \in Nat
        BY <1>3, <3>1 DEF Blocks
      <3> QED BY <3>2, <3>3 DEF BlockFits
    <2>2. RowDefects(table) = {}
      BY <1>7, <2>1
    <2> QED BY <1>11, <1>14, <1>16, <2>2
  <1>17. CASE ~ backed /\ Finish(Push(sink, <<<<table, "unmapped">>>>), next)
    <2>1. RowDefects(table) = {}
      BY <1>7, <1>17
    <2> QED BY <1>11, <1>14, <1>17, <2>1
  <1>18. CASE at + 8 <= size /\ ~ fits /\ Finish(stray, next)
    <2> HIDE DEF fits
    <2> QED BY <1>11, <1>13, <1>18
  <1>19. CASE at + 8 <= size /\ fits /\ row >= MaxBlocks /\ Finish(many, next)
    <2>1. row \in 1..n
      BY <1>6, <1>19
    <2> HIDE DEF walked
    <2>2. /\ Honest(many) /\ ToSet(walked.kept) \subseteq ToSet(many.kept)
          /\ Whole(many) => Whole(walked)
      BY <1>12, <2>1, OneListed, PushFacts
    <2> HIDE DEF many
    <2>3. ASSUME Whole(many), NEW i \in 1..n, i <= MaxBlocks
          PROVE  BlockDefects(i) \subseteq ToSet(many.kept)
      <3>1. i \in 1..row
        <4>1. i \in Nat /\ i >= 1 /\ row \in Nat /\ MaxBlocks \in Nat
          BY <1>1, <1>3, WalkAssumption
        <4>2. i <= row
          BY <1>19, <2>3, <4>1
        <4> QED BY <4>1, <4>2
      <3>2. Whole(walked) /\ Whole(sink)
        BY <1>12, <2>1, <2>2, <2>3
      <3>3. CASE i = row
        BY <1>12, <2>1, <2>2, <3>2, <3>3
      <3>4. CASE i # row
        <4>1. i \in 1..row - 1
          BY <1>1, <3>1, <3>4
        <4> QED BY <1>4, <1>12, <2>1, <2>2, <3>2, <4>1
      <3> QED BY <3>3, <3>4
    <2>4. Whole(many) => RowDefects(table) \subseteq ToSet(many.kept)
      <3> HIDE DEF backed
      <3> QED BY <1>7, <2>3
    <2> QED BY <1>10, <1>19, <2>2, <2>4, FinishTells
  <1>20. CASE at + 8 > size /\ Finish(rest, next)
    <2>1. ASSUME row \in 1..n, fits
          PROVE  FALSE
      <3>1. block \in Blocks /\ at \in Nat
        BY <1>3, <1>5, <2>1
      <3> HIDE DEF block, at, size
      <3>2. block.size \in Nat
        BY <3>1 DEF Blocks
      <3>3. block.size >= 8 /\ at + block.size <= size
        BY <2>1 DEF BlockFits
      <3>4. at + 8 > size /\ size \in Nat
        BY <1>3, <1>20
      <3> HIDE DEF fits
      <3> QED BY <3>1, <3>2, <3>3, <3>4
    <2>2. rest \in {sink, Push(sink, <<<<table, "trailing bytes">>>>)}
      OBVIOUS
    <2> HIDE DEF rest, fits
    <2>3. Honest(rest) /\ ToSet(sink.kept) \subseteq ToSet(rest.kept) /\ (Whole(rest) => Whole(sink))
      BY <1>1, <1>11, <2>2
    <2> QED BY <1>13, <1>20, <2>1, <2>3
  <1>21. CASE at + 8 <= size /\ fits /\ Continue(walked)
    <2>1. row \in 1..n
      BY <1>6, <1>21
    <2>2. sink' = walked /\ row' = row + 1 /\ image' = image /\ table' = table /\ report' = report
      BY <1>21 DEF Continue
    <2>3. \A k \in DOMAIN report : Told(report[k])'
      BY <2>2, ToldStays DEF Telling
    <2>4. /\ Honest(walked) /\ ToSet(sink.kept) \subseteq ToSet(walked.kept)
          /\ Whole(walked) => Whole(sink) /\ BlockDefects(row) \subseteq ToSet(walked.kept)
      BY <1>12, <2>1
    <2>5. fits
      BY <1>21
    <2>6. ASSUME NEW j \in 1..row
          PROVE  /\ j \in 1..n /\ BlockFits(image.blocks[j], BlocksBefore(j), size)
                 /\ Whole(walked) => BlockDefects(j) \subseteq ToSet(walked.kept)
      <3>1. CASE j = row
        BY <2>1, <2>4, <2>5, <3>1
      <3>2. CASE j # row
        <4>1. j \in 1..row - 1
          BY <1>1, <3>2
        <4> HIDE DEF walked, size
        <4> QED BY <1>4, <2>4, <4>1
      <3> QED BY <3>1, <3>2
    <2> HIDE DEF walked, at, block, fits
    <2>7. /\ \A k : BlocksBefore(k)' = BlocksBefore(k)
          /\ \A i : BlockDefects(i)' = BlockDefects(i)
          /\ Dir("relocations")' = Dir("relocations")
      <3>1. ASSUME NEW i
            PROVE  BlockDefects(i)' = BlockDefects(i)
        BY <2>2, SameWalks DEF BlockDefects
      <3> QED BY <2>2, <3>1, SameWalks, SameLookups
    <2>8. row' - 1 = row /\ row' \in Nat \ {0}
      BY <1>1, <2>2
    <2>9. BlocksSeen'
      BY <1>3, <2>2, <2>6, <2>7, <2>8 DEF BlocksSeen, Whole
    <2>10. Honest(sink)' /\ Listed(report)'
      BY <2>2, <2>4 DEF Telling, Honest, Full, Whole, Listed
    <2>11. image' \in Images /\ image'.kind = "pe" /\ table' \in PeWalks /\ table' \notin ElfWalks
      BY <1>1, <2>2 DEF Pe, PeWalks, PeTables, ElfWalks
    <2> QED BY <2>2, <2>3, <2>8, <2>9, <2>10, <2>11 DEF Telling, PeWalks, ElfWalks, PeTables
  <1> QED BY <1>2, <1>15, <1>16, <1>17, <1>18, <1>19, <1>20, <1>21

-----------------------------------------------------------------------------
(* The tables of an ELF.                                                   *)

\* An image the checks of an ELF read.
Elf == image \in Images /\ image.kind # "pe"

\* One message if something is wrong.
LEMMA SayListed == \A bad, message : Listed(Say(bad, message)) /\ (Say(bad, message) = <<>> <=> ~ bad)
  <1> TAKE bad, message
  <1>1. Listed(<<message>>) /\ ToSet(<<message>>) = {message}
    BY OneListed
  <1>2. <<message>> # <<>>
    BY <1>1, EmptyHolds
  <1> QED BY <1>1, <1>2, EmptyHolds DEF Say

\* The rows of a table, flattened.
LEMMA RowsFlatten ==
  ASSUME NEW n \in Nat, NEW rows, DOMAIN rows = 1..n, rows = [k \in 1..n |-> rows[k]],
         \A k \in 1..n : Listed(rows[k])
  PROVE  /\ Listed(rows) /\ Len(rows) = n /\ Listed(FlattenSeq(rows))
         /\ \A k \in 1..n : ToSet(rows[k]) \subseteq ToSet(FlattenSeq(rows))
  <1>1. Listed(rows) /\ Len(rows) = n
    BY Counted
  <1> QED BY <1>1, FlattenFacts

\* The tables as the file has them.
LEMMA ElfFacts ==
  ASSUME Elf
  PROVE  /\ image.segments \in Seq(Loads)
         /\ Listed(image.programs) /\ Listed(image.sections) /\ Listed(image.dynamic)
         /\ image.gnu.bucket \in Seq(Nat)
         /\ {image.gnu.symoffset, image.gnu.bloom, image.hash.buckets, image.hash.chains} \subseteq Nat
         /\ \A k \in DOMAIN image.sections : image.sections[k].size \in Nat
         /\ \A name \in {".rela.dyn", ".rela.plt"} :
              Listed(image.relas[name]) /\ \A r \in ToSet(image.relas[name]) : r.at \in Nat /\ r.symbol \in Nat
  BY ImageAssumption DEF Elf, ElfRead

\* A section that is there has a size.
LEMMA SectionFacts ==
  ASSUME Elf, NEW name, Has(name)
  PROVE  Section(name).size \in Nat /\ Section(name).size \div 24 \in Nat
         /\ Section(name).size \div 8 \in Nat /\ Section(name).size \div 16 \in Nat
  <1> DEFINE S == SectionsOf(name)
             k == CHOOSE k \in S : TRUE
  <1>1. S # {}
    <2>1. Cardinality({}) = 0
      BY FS_EmptySet
    <2> QED BY <2>1 DEF Has
  <1>2. k \in S
    BY <1>1
  <1> HIDE DEF k
  <1>3. Section(name) = image.sections[k]
    BY DEF Section, k
  <1>4. k \in DOMAIN image.sections
    BY <1>2 DEF SectionsOf
  <1>5. Section(name).size \in Nat
    BY <1>3, <1>4, ElfFacts
  <1> QED BY <1>5

\* What is told of the program headers.
LEMMA ProgramsTell ==
  ASSUME Telling, Programs
  PROVE  Telling'
  <1> DEFINE programs == image.programs
             n == Len(programs)
             unread == {k \in DOMAIN programs : programs[k] = "unbacked"}
             ends == {k - 1 : k \in unread} \cup {n}
             read == SubSeq(programs, 1, Least(ends))
             rows == [k \in DOMAIN read |-> Say(read[k] = "truncated", "truncated")]
             short == FlattenSeq(rows)
             stop == IF unread # {} THEN <<"program header">>
                     ELSE IF image.segments = <<>> THEN <<"no segment">>
                     ELSE IF ~ image.named THEN <<"no section names">> ELSE <<>>
             all == short \o stop
             s == Holding(all)
  <1>1. table = "programs" /\ Elf
    BY DEF Programs, Telling, ElfWalks, Elf
  <1>2. \E next \in {"segments", "end"} : Finish(s, next)
    BY DEF Programs
  <1>3. Listed(programs) /\ n \in Nat /\ DOMAIN programs = 1..n
    BY <1>1, ElfFacts, ListFacts
  <1> HIDE DEF programs, n
  <1>4. Least(ends) \in 0..n
    <2>1. ends \subseteq 0..n /\ n \in ends
      BY <1>3
    <2> HIDE DEF ends
    <2>2. ends \subseteq Nat /\ ends # {}
      BY <2>1
    <2> QED BY <2>1, <2>2, LeastIs
  <1> HIDE DEF unread, ends
  <1>5. Listed(read) /\ Len(read) \in Nat /\ DOMAIN read = 1..Len(read)
    BY <1>3, <1>4, FirstOnes, ListFacts DEF n
  <1> HIDE DEF read
  <1>6. Listed(short)
    <2>1. DOMAIN rows = 1..Len(read) /\ rows = [k \in 1..Len(read) |-> rows[k]] /\ \A k \in 1..Len(read) : Listed(rows[k])
      BY <1>5, SayListed
    <2> HIDE DEF rows
    <2> QED BY <1>5, <2>1, RowsFlatten
  <1> HIDE DEF short
  <1>7. Listed(stop)
    <2>1. stop \in {<<"program header">>, <<"no segment">>, <<"no section names">>, <<>>}
      OBVIOUS
    <2> HIDE DEF stop
    <2>2. \A x : Listed(<<x>>)
      BY OneListed
    <2> QED BY <2>1, <2>2, EmptyHolds
  <1> HIDE DEF stop
  <1>8. Listed(all)
    BY <1>6, <1>7, ConcatList
  <1> HIDE DEF all
  <1>9. s = [kept |-> all, dropped |-> 0, unseen |-> FALSE]
    BY DEF Holding
  <1> HIDE DEF s
  <1>10. Honest(s)
    BY <1>8, <1>9 DEF Honest, Whole
  <1>11. table \notin PeTables /\ table \in ElfWalks /\ {"segments", "end"} \cap PeWalks = {}
         /\ {"segments", "end"} \subseteq ElfWalks \cup {"end"}
    BY <1>1 DEF PeTables, ElfWalks, PeWalks
  <1>12. PICK next \in {"segments", "end"} : Finish(s, next)
    BY <1>2
  <1>13. next \in PeWalks \cup ElfWalks \cup {"end"} /\ next \notin PeWalks
    BY <1>11
  <1> QED BY <1>10, <1>11, <1>12, <1>13, FinishTells

\* The three lists of what is told of the segments and the sections.
SegmentRows == [k \in DOMAIN image.segments |-> SegmentDefects(k)]
OverlapRows == [k \in 1..Len(image.segments) - 1 |-> OverlapDefects(k)]
SectionRows == [k \in DOMAIN image.sections |-> SectionDefects(k)]

\* Each of the three is flattened into a list that holds its rows.
LEMMA SegmentRowsListed ==
  ASSUME Elf
  PROVE  /\ Listed(FlattenSeq(SegmentRows)) /\ Listed(FlattenSeq(OverlapRows)) /\ Listed(FlattenSeq(SectionRows))
         /\ \A k \in 1..Len(image.segments) : ToSet(SegmentDefects(k)) \subseteq ToSet(FlattenSeq(SegmentRows))
         /\ \A k \in 1..Len(image.segments) - 1 : ToSet(OverlapDefects(k)) \subseteq ToSet(FlattenSeq(OverlapRows))
  <1> DEFINE n == Len(image.segments)
             m == Len(image.sections)
  <1>1. n \in Nat /\ DOMAIN image.segments = 1..n
    BY ElfFacts
  <1>2. m \in Nat /\ DOMAIN image.sections = 1..m
    BY ElfFacts, ListFacts
  <1> HIDE DEF n, m
  <1>3. ASSUME NEW k
        PROVE  Listed(SegmentDefects(k))
    <2> DEFINE s == image.segments[k]
               n1 == Say(s.align # 0 /\ ~ PowerOfTwo(s.align), <<"segment", k, "alignment">>)
               n2 == Say(s.align > 1 /\ s.offset % s.align # s.va % s.align, <<"segment", k, "not congruent">>)
               n3 == Say(s.file > s.memory, <<"segment", k, "more file than memory">>)
               n4 == Say(s.offset + s.file >= Word \/ s.offset + s.file > image.length, <<"segment", k, "past the file">>)
               n5 == Say(s.va + s.memory >= Word, <<"segment", k, "overflows">>)
               n6 == Say("r" \notin s.flags, <<"segment", k, "not readable">>)
    <2>1. SegmentDefects(k) = n1 \o n2 \o n3 \o n4 \o n5 \o n6
      BY DEF SegmentDefects
    <2>2. Listed(n1) /\ Listed(n2) /\ Listed(n3) /\ Listed(n4) /\ Listed(n5) /\ Listed(n6)
      BY SayListed
    <2> HIDE DEF n1, n2, n3, n4, n5, n6
    <2>3. Listed(n1 \o n2)
      BY <2>2, ConcatList
    <2>4. Listed(n1 \o n2 \o n3)
      BY <2>2, <2>3, ConcatList
    <2>5. Listed(n1 \o n2 \o n3 \o n4)
      BY <2>2, <2>4, ConcatList
    <2>6. Listed(n1 \o n2 \o n3 \o n4 \o n5)
      BY <2>2, <2>5, ConcatList
    <2>7. Listed(n1 \o n2 \o n3 \o n4 \o n5 \o n6)
      BY <2>2, <2>6, ConcatList
    <2> QED BY <2>1, <2>7
  <1>4. ASSUME NEW k
        PROVE  Listed(OverlapDefects(k))
    BY SayListed DEF OverlapDefects
  <1>5. ASSUME NEW k
        PROVE  Listed(SectionDefects(k))
    <2> DEFINE s == image.sections[k]
               covering == SegmentsFor(s.va, s.size)
               segment == image.segments[Least(covering)]
               n1 == Say("r" \notin segment.flags, <<"section", k, "not readable">>)
               n2 == Say("write" \in s.flags /\ "w" \notin segment.flags, <<"section", k, "read-only">>)
               n3 == Say("exec" \in s.flags /\ "x" \notin segment.flags, <<"section", k, "not executable">>)
               n4 == Say(OffsetOf(s.va, s.size) = None, <<"section", k, "no file bytes">>)
    <2>1. SectionDefects(k) \in {<<>>, <<<<"section", k, "not covered">>>>, n1 \o n2 \o n3 \o n4}
      BY DEF SectionDefects
    <2>2. Listed(n1) /\ Listed(n2) /\ Listed(n3) /\ Listed(n4)
      BY SayListed
    <2> HIDE DEF n1, n2, n3, n4
    <2>3. Listed(n1 \o n2)
      BY <2>2, ConcatList
    <2>4. Listed(n1 \o n2 \o n3)
      BY <2>2, <2>3, ConcatList
    <2>5. Listed(n1 \o n2 \o n3 \o n4)
      BY <2>2, <2>4, ConcatList
    <2>6. Listed(<<>>) /\ Listed(<<<<"section", k, "not covered">>>>)
      BY EmptyHolds, OneListed
    <2> QED BY <2>1, <2>5, <2>6
  <1>6. /\ Listed(FlattenSeq(SegmentRows))
        /\ \A k \in 1..n : ToSet(SegmentDefects(k)) \subseteq ToSet(FlattenSeq(SegmentRows))
    <2>1. /\ DOMAIN SegmentRows = 1..n /\ SegmentRows = [k \in 1..n |-> SegmentRows[k]]
          /\ \A k \in 1..n : SegmentRows[k] = SegmentDefects(k)
      BY <1>1 DEF SegmentRows
    <2> QED BY <1>1, <1>3, <2>1, RowsFlatten
  <1>7. Listed(FlattenSeq(SectionRows))
    <2>1. /\ DOMAIN SectionRows = 1..m /\ SectionRows = [k \in 1..m |-> SectionRows[k]]
          /\ \A k \in 1..m : SectionRows[k] = SectionDefects(k)
      BY <1>2 DEF SectionRows
    <2> QED BY <1>2, <1>5, <2>1, RowsFlatten
  <1>8. /\ Listed(FlattenSeq(OverlapRows))
        /\ \A k \in 1..n - 1 : ToSet(OverlapDefects(k)) \subseteq ToSet(FlattenSeq(OverlapRows))
    <2>1. /\ DOMAIN OverlapRows = 1..n - 1 /\ OverlapRows = [k \in 1..n - 1 |-> OverlapRows[k]]
          /\ \A k \in 1..n - 1 : OverlapRows[k] = OverlapDefects(k)
      BY DEF OverlapRows, n
    <2>2. CASE n # 0
      <3>1. n - 1 \in Nat
        BY <1>1, <2>2
      <3> QED BY <1>4, <2>1, <3>1, RowsFlatten
    <2>3. CASE n = 0
      <3>1. 1..n - 1 = 1..0
        BY <2>3
      <3>2. 0 \in Nat /\ DOMAIN OverlapRows = 1..0 /\ OverlapRows = [k \in 1..0 |-> OverlapRows[k]]
        BY <2>1, <3>1
      <3>3. \A k \in 1..0 : Listed(OverlapRows[k])
        OBVIOUS
      <3>4. Listed(FlattenSeq(OverlapRows))
        BY <3>2, <3>3, RowsFlatten
      <3> QED BY <3>1, <3>4
    <2> QED BY <2>2, <2>3
  <1> QED BY <1>6, <1>7, <1>8 DEF n

\* A table of an ELF ends with its messages pushed.
LEMMA ElfTells ==
  ASSUME Telling, table \in ElfWalks, NEW messages, Listed(messages),
         NEW next \in ElfWalks \cup {"end"}, Finish(Push(sink, messages), next)
  PROVE  Telling'
  <1>1. Honest(Push(sink, messages))
    BY PushFacts DEF Telling
  <1>2. table \notin PeTables /\ next \notin PeWalks
    BY DEF ElfWalks, PeTables, PeWalks
  <1> QED BY <1>1, <1>2, FinishTells

\* The segments and the sections.
LEMMA SegmentsTell ==
  ASSUME Telling, Segments
  PROVE  Telling'
  <1> DEFINE messages == FlattenSeq(SegmentRows) \o FlattenSeq(OverlapRows) \o FlattenSeq(SectionRows)
             next == IF Dynamic = <<>> THEN "end" ELSE "dynamic"
  <1>1. table = "segments" /\ Finish(Push(sink, messages), next)
    BY DEF Segments, SegmentRows, OverlapRows, SectionRows
  <1>2. table \in ElfWalks /\ next \in ElfWalks \cup {"end"}
    BY <1>1 DEF ElfWalks
  <1>3. Listed(messages)
    <2>1. Elf
      BY <1>2 DEF Telling, Elf
    <2>2. Listed(FlattenSeq(SegmentRows)) /\ Listed(FlattenSeq(OverlapRows)) /\ Listed(FlattenSeq(SectionRows))
      BY <2>1, SegmentRowsListed
    <2>3. Listed(FlattenSeq(SegmentRows) \o FlattenSeq(OverlapRows))
      BY <2>2, ConcatList
    <2> QED BY <2>2, <2>3, ConcatList
  <1> HIDE DEF messages, next
  <1> QED BY <1>1, <1>2, <1>3, ElfTells

\* The dynamic table.
LEMMA DynamicTells ==
  ASSUME Telling, DynamicTable
  PROVE  Telling'
  <1> DEFINE rows == [k \in DOMAIN TagsOf |-> Agrees(TagsOf[k][1], TagsOf[k][2], TagsOf[k][3])]
             messages == FlattenSeq(rows) \o Twice("RELACOUNT") \o PrefixDefects
  <1>1. table = "dynamic" /\ Finish(Push(sink, messages), "arrays")
    BY DEF DynamicTable
  <1>2. table \in ElfWalks /\ "arrays" \in ElfWalks \cup {"end"}
    BY <1>1 DEF ElfWalks
  <1>3. \A tag : Listed(Twice(tag))
    BY SayListed DEF Twice
  <1>4. ASSUME NEW tag, NEW name, NEW size
        PROVE  Listed(Agrees(tag, name, size))
    <2> DEFINE address == Say(Value(tag) # Section(name).va, <<tag, "address">>)
               sized == Say(Tagged(size) # {} /\ Value(size) # Section(name).size, <<size, "size">>)
               more == IF size = None THEN <<>> ELSE Twice(size) \o sized
               rest == IF Tagged(tag) = {} \/ ~ Has(name) THEN <<>> ELSE address \o more
    <2>1. Listed(address) /\ Listed(sized)
      BY SayListed
    <2>2. Agrees(tag, name, size) = Twice(tag) \o rest
      BY DEF Agrees
    <2> HIDE DEF address, sized
    <2>3. Listed(Twice(size) \o sized)
      BY <1>3, <2>1, ConcatList
    <2>4. Listed(more)
      BY <2>3, EmptyHolds
    <2> HIDE DEF more
    <2>5. Listed(address \o more)
      BY <2>1, <2>4, ConcatList
    <2>6. Listed(rest)
      BY <2>5, EmptyHolds
    <2> HIDE DEF rest
    <2> QED BY <1>3, <2>2, <2>6, ConcatList
  <1>5. Listed(FlattenSeq(rows))
    <2>1. DOMAIN rows = 1..8 /\ rows = [k \in 1..8 |-> rows[k]] /\ \A k \in 1..8 : Listed(rows[k])
      <3>1. DOMAIN TagsOf = 1..8
        BY DEF TagsOf
      <3> QED BY <1>4, <3>1
    <2> HIDE DEF rows
    <2> QED BY <2>1, RowsFlatten
  <1> HIDE DEF rows
  <1>6. Listed(PrefixDefects)
    <2> DEFINE count == Value("RELACOUNT")
               walked == Smaller(count, Records(".rela.dyn"))
               other == {k \in 1..Smaller(walked, Len(image.relas[".rela.dyn"])) : Rela(".rela.dyn", k).kind # "RELATIVE"}
    <2>1. PrefixDefects \in {<<>>, <<<<"RELACOUNT", "too large">>>>, <<<<"prefix", Least(other)>>>>,
                             Say(walked > Len(image.relas[".rela.dyn"]), <<"RELACOUNT", "past the file">>)}
      BY DEF PrefixDefects
    <2> HIDE DEF count, walked, other
    <2>2. Listed(<<<<"RELACOUNT", "too large">>>>) /\ Listed(<<<<"prefix", Least(other)>>>>)
      BY OneListed
    <2> QED BY <2>1, <2>2, SayListed, EmptyHolds
  <1>7. Listed(messages)
    <2>1. Listed(FlattenSeq(rows) \o Twice("RELACOUNT"))
      BY <1>3, <1>5, ConcatList
    <2> QED BY <1>6, <2>1, ConcatList
  <1> HIDE DEF messages
  <1> QED BY <1>1, <1>2, <1>7, ElfTells

\* The arrays of pointers.
LEMMA ArraysTell ==
  ASSUME Telling, Arrays
  PROVE  Telling'
  <1> DEFINE first == ArrayDefects(".init_array", "INIT_ARRAY", "INIT_ARRAYSZ")
             last == ArrayDefects(".fini_array", "FINI_ARRAY", "FINI_ARRAYSZ")
  <1>1. table = "arrays" /\ Finish(Push(sink, first \o last), "relas")
    BY DEF Arrays
  <1>2. table \in ElfWalks /\ "relas" \in ElfWalks \cup {"end"} /\ Elf
    BY <1>1 DEF ElfWalks, Telling, Elf
  <1>3. ASSUME NEW name, NEW at, NEW size
        PROVE  Listed(ArrayDefects(name, at, size))
    <2> DEFINE section == Section(name)
               bound == Smaller(section.size \div 8, MaxSlots)
               slots == SubSeq(image.slots[name], 1, bound)
               there == Tagged(at) # {}
               rows == [k \in DOMAIN slots |->
                          Say(slots[k] # 0 /\ SegmentsFor(slots[k], 1) = {}, <<name, k, "unmapped">>)]
               m1 == Say(there /\ Value(at) # section.va, <<name, "address">>)
               m2 == Say(section.size % 8 # 0, <<name, "odd size">>)
               m3 == Say(Tagged(size) # {} /\ section.size # 0 /\ Value(size) # section.size, <<name, "size">>)
               m4 == IF ~ BackedSection(name) THEN <<>> ELSE FlattenSeq(rows)
               twice == Twice(at) \o Twice(size)
               absent == Say(there, <<name, "no section">>)
    <2>1. Listed(twice)
      BY SayListed, ConcatList DEF Twice
    <2>2. ArrayDefects(name, at, size) = twice \o (IF ~ Has(name) THEN absent ELSE m1 \o m2 \o m3 \o m4)
      BY DEF ArrayDefects
    <2>3. Listed(m1) /\ Listed(m2) /\ Listed(m3) /\ Listed(absent)
      BY SayListed
    <2> HIDE DEF m1, m2, m3, absent, twice
    <2>4. ASSUME Has(name)
          PROVE  Listed(m4)
      <3>1. bound \in Nat
        <4>1. section.size \div 8 \in Nat /\ MaxSlots \in Nat
          BY <1>2, <2>4, SectionFacts, TableAssumption
        <4> QED BY <4>1 DEF Smaller
      <3> HIDE DEF bound
      <3>2. DOMAIN slots = 1..bound
        <4> DEFINE list == image.slots[name]
                   U == {list[i] : i \in 1..bound}
        <4>1. 1 \in Int /\ bound \in Int /\ \A i \in 1..bound : list[i] \in U
          BY <3>1
        <4> HIDE DEF list, U
        <4>2. SubSeq(list, 1, bound) \in Seq(U) /\ Len(SubSeq(list, 1, bound)) = (IF 1 <= bound THEN bound - 1 + 1 ELSE 0)
          BY <4>1, SubSeqProperties
        <4> DEFINE t == SubSeq(list, 1, bound)
        <4> HIDE DEF t
        <4>3. DOMAIN t = 1..Len(t)
          BY <4>2 DEF t
        <4>4. Len(t) = bound
          BY <3>1, <4>2 DEF t
        <4> QED BY <4>3, <4>4 DEF t, list
      <3> HIDE DEF slots
      <3>3. DOMAIN rows = 1..bound /\ rows = [k \in 1..bound |-> rows[k]] /\ \A k \in 1..bound : Listed(rows[k])
        BY <3>2, SayListed
      <3> HIDE DEF rows
      <3>4. Listed(FlattenSeq(rows))
        BY <3>1, <3>3, RowsFlatten
      <3> QED BY <3>4, EmptyHolds
    <2> HIDE DEF m4
    <2>5. ASSUME Has(name)
          PROVE  Listed(m1 \o m2 \o m3 \o m4)
      <3>1. Listed(m1 \o m2)
        BY <2>3, ConcatList
      <3>2. Listed(m1 \o m2 \o m3)
        BY <2>3, <3>1, ConcatList
      <3> QED BY <2>4, <2>5, <3>2, ConcatList
    <2> DEFINE rest == IF ~ Has(name) THEN absent ELSE m1 \o m2 \o m3 \o m4
    <2>6. Listed(rest)
      BY <2>3, <2>5
    <2>7. ArrayDefects(name, at, size) = twice \o rest
      BY <2>2
    <2> HIDE DEF rest
    <2> QED BY <2>1, <2>6, <2>7, ConcatList
  <1>4. Listed(first \o last)
    BY <1>3, ConcatList
  <1> HIDE DEF first, last
  <1> QED BY <1>1, <1>2, <1>4, ElfTells

\* The messages of a table of relocations, and the messages of a relocation that is read.
LEMMA RelaListed ==
  ASSUME Elf, NEW name \in {".rela.dyn", ".rela.plt"}, NEW allowed
  PROVE  /\ Listed(RelaDefects(name, allowed))
         /\ Len(image.relas[name]) \in Nat
         /\ Has(name) => Records(name) \in Nat
         /\ Has(name) /\ BackedSection(name) =>
              /\ \A k \in 1..Smaller(Records(name), Len(image.relas[name])) :
                   Listed(BadRela(name, allowed, k)) /\ ToSet(BadRela(name, allowed, k)) \subseteq ToSet(RelaDefects(name, allowed))
              /\ Unread(name) => <<name, "past the file">> \in ToSet(RelaDefects(name, allowed))
  <1> DEFINE n == Smaller(Records(name), Len(image.relas[name]))
             rows == [k \in 1..n |-> BadRela(name, allowed, k)]
             all == FlattenSeq(rows)
             sized == Say(Section(name).entry \notin {0, 24}, <<name, "entry size">>)
             unread == Say(Unread(name), <<name, "past the file">>)
             d == RelaDefects(name, allowed)
  <1>1. Len(image.relas[name]) \in Nat
    BY ElfFacts, ListFacts
  <1>2. d = IF ~ Has(name) THEN <<>> ELSE sized \o (IF ~ BackedSection(name) THEN <<>> ELSE all \o unread)
    BY DEF RelaDefects
  <1>3. ASSUME NEW k
        PROVE  Listed(BadRela(name, allowed, k))
    <2> DEFINE r == Rela(name, k)
               m1 == Say(r.kind \notin allowed, <<name, k, "kind">>)
               m2 == Say(SegmentsFor(r.at, 8) = {}, <<name, k, "unmapped">>)
               m3 == Say(IF r.kind = "RELATIVE" THEN r.symbol # 0 ELSE r.symbol >= SymbolCount, <<name, k, "symbol">>)
    <2>1. BadRela(name, allowed, k) = m1 \o m2 \o m3
      BY DEF BadRela
    <2>2. Listed(m1) /\ Listed(m2) /\ Listed(m3)
      BY SayListed
    <2> HIDE DEF m1, m2, m3
    <2>3. Listed(m1 \o m2)
      BY <2>2, ConcatList
    <2>4. Listed(m1 \o m2 \o m3)
      BY <2>2, <2>3, ConcatList
    <2> QED BY <2>1, <2>4
  <1>4. Listed(sized) /\ Listed(unread)
    BY SayListed
  <1>5. Unread(name) => <<name, "past the file">> \in ToSet(unread)
    BY OneListed DEF Say
  <1>6. Has(name) => Records(name) \in Nat
    BY SectionFacts, TableAssumption DEF Records, Smaller
  <1>7. Has(name) => n \in Nat
    BY <1>1, <1>6 DEF Smaller
  <1> HIDE DEF n, sized, unread, d
  <1>8. ASSUME Has(name)
        PROVE  Listed(all) /\ \A k \in 1..n : ToSet(BadRela(name, allowed, k)) \subseteq ToSet(all)
    <2>1. /\ DOMAIN rows = 1..n /\ rows = [k \in 1..n |-> rows[k]]
          /\ \A k \in 1..n : rows[k] = BadRela(name, allowed, k)
      OBVIOUS
    <2> HIDE DEF rows
    <2>2. \A k \in 1..n : Listed(rows[k])
      BY <1>3, <2>1
    <2> QED BY <1>7, <1>8, <2>1, <2>2, RowsFlatten
  <1> HIDE DEF all
  <1>9. ASSUME Has(name), BackedSection(name)
        PROVE  Listed(d) /\ ToSet(all) \subseteq ToSet(d) /\ ToSet(unread) \subseteq ToSet(d)
    <2>1. Listed(all \o unread) /\ ToSet(all \o unread) = ToSet(all) \cup ToSet(unread)
      BY <1>4, <1>8, <1>9, ConcatList
    <2> DEFINE rest == all \o unread
    <2> HIDE DEF rest
    <2>2. d = sized \o rest
      BY <1>2, <1>9 DEF rest
    <2>3. Listed(sized \o rest) /\ ToSet(sized \o rest) = ToSet(sized) \cup ToSet(rest)
      BY <1>4, <2>1, ConcatList DEF rest
    <2> QED BY <2>1, <2>2, <2>3 DEF rest
  <1>10. ASSUME Has(name), ~ BackedSection(name)
         PROVE  Listed(d)
    <2>1. d = sized \o <<>>
      BY <1>2, <1>10
    <2> QED BY <1>4, <2>1, EmptyHolds, ConcatList
  <1>11. Listed(d)
    BY <1>2, <1>9, <1>10, EmptyHolds
  <1> QED BY <1>1, <1>3, <1>5, <1>6, <1>8, <1>9, <1>11 DEF n, d

\* The relocations of an ELF.
LEMMA RelasTell ==
  ASSUME Telling, Relas
  PROVE  Telling'
  <1> DEFINE dyn == RelaDefects(".rela.dyn", {"RELATIVE", "GLOB_DAT", "ABS64"})
             plt == RelaDefects(".rela.plt", {"JUMP_SLOT", "RELATIVE"})
             rest == IF Unread(".rela.dyn") THEN <<>> ELSE plt
  <1>1. table = "relas" /\ Finish(Push(sink, dyn \o rest), "hashes")
    BY DEF Relas
  <1>2. table \in ElfWalks /\ "hashes" \in ElfWalks \cup {"end"} /\ Elf
    BY <1>1 DEF ElfWalks, Telling, Elf
  <1>3. Listed(dyn) /\ Listed(plt)
    BY <1>2, RelaListed
  <1> HIDE DEF dyn, plt
  <1>4. Listed(rest)
    BY <1>3, EmptyHolds
  <1> HIDE DEF rest
  <1>5. Listed(dyn \o rest)
    BY <1>3, <1>4, ConcatList
  <1> QED BY <1>1, <1>2, <1>5, ElfTells

\* The messages of the hash tables.
HashMessages ==
  IF Has(".hash") /\ BackedSection(".hash") /\ ~ HeaderHeld(".hash", 8)
  THEN <<<<".hash", "header truncated">>>>
  ELSE HashDefects \o GnuHashDefects

\* They are lists.
LEMMA HashListed ==
  ASSUME Elf
  PROVE  Listed(HashDefects) /\ Listed(GnuHashDefects) /\ Listed(HashMessages)
  <1>1. Listed(HashDefects)
    <2> DEFINE h == image.hash
               m1 == Say(h.chains # SymbolCount, <<".hash", "chains">>)
               m2 == Say(8 + 4 * h.buckets + 4 * h.chains > Section(".hash").size, <<".hash", "too small">>)
    <2>1. HashDefects \in {<<>>, m1 \o m2}
      BY DEF HashDefects
    <2>2. Listed(m1) /\ Listed(m2)
      BY SayListed
    <2> HIDE DEF m1, m2
    <2>3. Listed(m1 \o m2)
      BY <2>2, ConcatList
    <2> QED BY <2>1, <2>3, EmptyHolds
  <1>2. Listed(GnuHashDefects)
    <2> DEFINE h == image.gnu
               size == Section(".gnu.hash").size
               header == 16 + 8 * h.bloom + 4 * Len(h.bucket)
               m1 == Say(~ PowerOfTwo(Len(h.bucket)), <<".gnu.hash", "buckets">>)
               m2 == Say(~ PowerOfTwo(h.bloom), <<".gnu.hash", "bloom">>)
               m3 == Say(h.shift >= 64, <<".gnu.hash", "shift">>)
               shape == m1 \o m2 \o m3
               chains == SymbolCount - h.symoffset
               n == Smaller(Len(h.bucket), MaxBuckets)
               small == Say(header + 4 * chains > size, <<".gnu.hash", "too small">>)
               rows == [k \in 1..n |-> Say(h.bucket[k] # 0 /\ h.bucket[k] >= SymbolCount, <<".gnu.hash", k, "bucket">>)]
    <2>1. GnuHashDefects \in {<<>>, <<<<".gnu.hash", "header truncated">>>>,
                              Append(shape, <<".gnu.hash", "header too large">>),
                              Append(shape, <<".gnu.hash", "symbol offset">>),
                              shape \o small \o FlattenSeq(rows)}
      BY DEF GnuHashDefects
    <2>2. Listed(m1) /\ Listed(m2) /\ Listed(m3) /\ Listed(small)
      BY SayListed
    <2>3. Listed(FlattenSeq(rows))
      <3>1. n \in Nat
        <4>1. Len(h.bucket) \in Nat /\ MaxBuckets \in Nat
          BY ElfFacts, TableAssumption
        <4> QED BY <4>1 DEF Smaller
      <3> HIDE DEF n
      <3>2. DOMAIN rows = 1..n /\ rows = [k \in 1..n |-> rows[k]] /\ \A k \in 1..n : Listed(rows[k])
        BY SayListed
      <3> HIDE DEF rows
      <3> QED BY <3>1, <3>2, RowsFlatten
    <2> HIDE DEF m1, m2, m3, small, rows
    <2>4. Listed(m1 \o m2)
      BY <2>2, ConcatList
    <2>5. Listed(shape)
      BY <2>2, <2>4, ConcatList
    <2> HIDE DEF shape
    <2>6. Listed(shape \o small)
      BY <2>2, <2>5, ConcatList
    <2>7. Listed(shape \o small \o FlattenSeq(rows))
      BY <2>3, <2>6, ConcatList
    <2>8. /\ Listed(Append(shape, <<".gnu.hash", "header too large">>))
          /\ Listed(Append(shape, <<".gnu.hash", "symbol offset">>))
      BY <2>5, AppendFacts
    <2>9. Listed(<<<<".gnu.hash", "header truncated">>>>)
      BY OneListed
    <2> QED BY <2>1, <2>7, <2>8, <2>9, EmptyHolds
  <1>3. Listed(HashDefects \o GnuHashDefects)
    BY <1>1, <1>2, ConcatList
  <1>4. Listed(<<<<".hash", "header truncated">>>>)
    BY OneListed
  <1> QED BY <1>1, <1>2, <1>3, <1>4 DEF HashMessages

\* The hash tables.
LEMMA HashesTell ==
  ASSUME Telling, Hashes
  PROVE  Telling'
  <1>1. table = "hashes" /\ Finish(Push(sink, HashMessages), "end")
    BY DEF Hashes, HashMessages
  <1>2. table \in ElfWalks /\ "end" \in ElfWalks \cup {"end"} /\ Elf
    BY <1>1 DEF ElfWalks, Telling, Elf
  <1> QED BY <1>1, <1>2, HashListed, ElfTells

-----------------------------------------------------------------------------
(* A truncated list is never mistaken for an exhaustive one.               *)

\* A sink that misses something has more lines than it may keep.
LEMMA MissingIsTold ==
  ASSUME NEW s, Honest(s), ~ Whole(s)
  PROVE  Len(Lines(s)) > MaxPerTable
  <1> DEFINE lost == IF s.dropped # 0 THEN <<<<"suppressed", s.dropped>>>> ELSE <<>>
             blind == IF s.unseen THEN <<<<"not checked">>>> ELSE <<>>
  <1>1. Lines(s) = s.kept \o lost \o blind
    BY DEF Lines
  <1>2. Listed(lost) /\ Len(lost) \in {0, 1} /\ (s.dropped # 0 => Len(lost) = 1)
    BY OneListed, EmptyHolds
  <1>3. Listed(blind) /\ Len(blind) \in {0, 1} /\ (s.unseen => Len(blind) = 1)
    BY OneListed, EmptyHolds
  <1>4. Len(lost) + Len(blind) >= 1
    <2>1. s.dropped # 0 \/ s.unseen
      BY DEF Whole
    <2>2. Len(lost) = 1 \/ Len(blind) = 1
      BY <1>2, <1>3, <2>1
    <2> DEFINE b == Len(lost)
               c == Len(blind)
    <2>3. b \in {0, 1} /\ c \in {0, 1} /\ (b = 1 \/ c = 1)
      BY <1>2, <1>3, <2>2
    <2> HIDE DEF b, c
    <2>4. b + c >= 1
      BY <2>3
    <2> QED BY <2>4 DEF b, c
  <1>5. Listed(s.kept) /\ Len(s.kept) \in Nat /\ Len(s.kept) >= MaxPerTable
    BY ListFacts DEF Honest, Full
  <1> HIDE DEF lost, blind
  <1>6. Listed(s.kept \o lost) /\ Len(s.kept \o lost) = Len(s.kept) + Len(lost)
    BY <1>2, <1>5, ConcatList
  <1>7. Len(Lines(s)) = Len(s.kept) + Len(lost) + Len(blind)
    BY <1>1, <1>3, <1>6, ConcatList
  <1> DEFINE a == Len(s.kept)
             b == Len(lost)
             c == Len(blind)
             d == Len(Lines(s))
  <1>8. a \in Nat /\ b \in {0, 1} /\ c \in {0, 1} /\ b + c >= 1 /\ d = a + b + c /\ a >= MaxPerTable
    BY <1>2, <1>3, <1>4, <1>5, <1>7
  <1> HIDE DEF a, b, c, d
  <1>9. d > MaxPerTable
    BY <1>8, MaxPerTableAssumption
  <1> QED BY <1>9 DEF d

\* Telling holds of the start.
LEMMA TellingInit == Init => Telling
  <1> SUFFICES ASSUME Init PROVE Telling
    OBVIOUS
  <1>1. Honest(sink)
    BY FreshIsHonest DEF Init
  <1>2. Listed(report) /\ DOMAIN report = {}
    BY EmptyHolds, ListFacts DEF Init
  <1>3. (table = "headers" /\ image.kind = "pe") \/ (table = "programs" /\ image.kind # "pe")
    BY DEF Init
  <1> QED BY <1>1, <1>2, <1>3 DEF Init, Telling, BlocksSeen, PeWalks, ElfWalks, PeTables

\* Every step keeps it.
LEMMA TellingStep == Telling /\ [Next]_checking => Telling'
  <1> SUFFICES ASSUME Telling, [Next]_checking PROVE Telling'
    OBVIOUS
  <1>1. CASE WalkDirectories
    BY <1>1, ImportsTell, DelayImportsTell, BoundImportsTell, AddressesTell, TlsTells,
       RelocationsTell, ExceptionsTell, LoadConfigTells DEF WalkDirectories
  <1>2. CASE Metadata
    BY <1>2, MetadataTells
  <1>3. CASE Headers \/ Sections \/ Entry \/ Names \/ Runtime \/ Conclude
    BY <1>3, HeadersTell
  <1>4. CASE VerifyNext
    BY <1>4, ProgramsTell, SegmentsTell, DynamicTells, ArraysTell, RelasTell, HashesTell DEF VerifyNext
  <1>5. CASE UNCHANGED checking
    <2>1. image' = image /\ table' = table /\ row' = row /\ sink' = sink /\ report' = report
      BY <1>5 DEF checking, walking
    <2>2. \A k \in DOMAIN report : Told(report[k])'
      BY <2>1, ToldStays DEF Telling
    <2>3. Honest(sink)' /\ Listed(report)'
      BY <2>1 DEF Telling, Honest, Full, Whole, Listed
    <2>4. BlocksSeen'
      <3>1. /\ \A k : BlocksBefore(k)' = BlocksBefore(k)
            /\ Dir("relocations")' = Dir("relocations")
        BY <2>1, SameWalks, SameLookups
      <3>2. ASSUME NEW i
            PROVE  BlockDefects(i)' = BlockDefects(i)
        BY <2>1, SameWalks DEF BlockDefects
      <3> QED BY <2>1, <3>1, <3>2 DEF Telling, BlocksSeen, Whole
    <2> QED BY <2>1, <2>2, <2>3, <2>4 DEF Telling
  <1> QED BY <1>1, <1>2, <1>3, <1>4, <1>5 DEF Next, IntegrityNext, Walk

\* findings.rs 14-15: what a table of a PE image reports either holds every defect of the
\* rows it asks for or says that it does not, and a list of an ELF that lost something says so.
THEOREM TruncationTold == Spec => []TruncationIsTold
  <1>1. Telling => TruncationIsTold
    <2> SUFFICES ASSUME Telling, NEW k \in DOMAIN report
                 PROVE  /\ report[k].table \in PeTables /\ Whole(report[k].sink)
                             => RowDefects(report[k].table) \subseteq ToSet(report[k].sink.kept)
                        /\ ~ Whole(report[k].sink) => Len(Lines(report[k].sink)) > MaxPerTable
      BY DEF TruncationIsTold
    <2>1. Told(report[k])
      BY DEF Telling
    <2> QED BY <2>1, MissingIsTold DEF Told
  <1> QED BY <1>1, TellingInit, TellingStep, PTL DEF Spec

-----------------------------------------------------------------------------
(* The order of the segments.                                              *)

\* A set within the first numbers is finite.
LEMMA WithinIsFinite ==
  ASSUME NEW n \in Nat, NEW S, S \subseteq 1..n
  PROVE  IsFiniteSet(S) /\ Cardinality(S) \in 0..n
  <1>1. IsFiniteSet(1..n) /\ Cardinality(1..n) = n
    BY FS_Interval
  <1>2. IsFiniteSet(S) /\ Cardinality(S) <= n
    BY <1>1, FS_Subset
  <1>3. Cardinality(S) \in Nat
    BY <1>2, FS_CardinalityType
  <1> QED BY <1>2, <1>3

\* Places are numbered without a gap, in the order of the addresses.
LEMMA PlacesFacts ==
  ASSUME image.segments \in Seq(Loads)
  PROVE  LET n == Len(image.segments) IN
         /\ \A i \in 1..n : Place(i) \in 1..n
         /\ \A i, j \in 1..n : Before(i, j) => Place(i) < Place(j)
         /\ \A i, j \in 1..n : i # j => Before(i, j) \/ Before(j, i)
         /\ \A k \in 1..n : \E i \in 1..n : Place(i) = k
         /\ \A i \in 1..n : Sorted[Place(i)] = image.segments[i]
  <1> DEFINE s == image.segments
             n == Len(s)
             ahead(j) == {i \in 1..n : Before(i, j)}
             place == [i \in 1..n |-> Place(i)]
  <1>1. n \in Nat /\ DOMAIN s = 1..n /\ \A i \in 1..n : s[i].va \in Nat
    <2>1. \A x \in Loads : x.va \in Nat
      BY DEF Loads
    <2> QED BY <2>1
  <1>2. \A i, j \in 1..n : Before(i, j) <=> s[i].va < s[j].va \/ (s[i].va = s[j].va /\ i < j)
    BY DEF Before
  <1>3. \A j : Place(j) = Cardinality(ahead(j)) + 1
    BY <1>1 DEF Place
  <1> HIDE DEF n, s
  <1>4. \A i, j \in 1..n : i # j => Before(i, j) \/ Before(j, i)
    BY <1>1, <1>2
  <1>5. \A i \in 1..n : ~ Before(i, i)
    BY <1>1, <1>2
  <1>6. \A i, j, k \in 1..n : Before(i, j) /\ Before(j, k) => Before(i, k)
    BY <1>1, <1>2
  <1>7. \A j \in 1..n : IsFiniteSet(ahead(j)) /\ Cardinality(ahead(j)) \in 0..n
    BY <1>1, WithinIsFinite
  <1>8. ASSUME NEW i \in 1..n, NEW j \in 1..n, Before(i, j)
        PROVE  Place(i) < Place(j)
    <2>1. ahead(i) \subseteq ahead(j) /\ i \in ahead(j) /\ i \notin ahead(i)
      BY <1>5, <1>6, <1>8
    <2>2. Cardinality(ahead(i)) <= Cardinality(ahead(j)) /\ Cardinality(ahead(i)) # Cardinality(ahead(j))
      <3> HIDE DEF ahead
      <3> QED BY <1>7, <2>1, FS_Subset
    <2> HIDE DEF ahead
    <2> QED BY <1>3, <1>7, <2>2
  <1>9. ASSUME NEW j \in 1..n
        PROVE  Place(j) \in 1..n
    <2>1. ahead(j) \subseteq 1..n /\ j \notin ahead(j)
      BY <1>5
    <2>2. IsFiniteSet(1..n) /\ Cardinality(1..n) = n
      BY <1>1, FS_Interval
    <2>3. Cardinality(ahead(j)) # n
      <3> HIDE DEF ahead
      <3> QED BY <2>1, <2>2, FS_Subset
    <2> HIDE DEF ahead
    <2> QED BY <1>1, <1>3, <1>7, <2>3
  <1>10. \A i, j \in 1..n : Place(i) = Place(j) => i = j
    BY <1>4, <1>8, <1>9
  <1>11. ASSUME NEW k \in 1..n
         PROVE  \E i \in 1..n : Place(i) = k
    <2>1. place \in [1..n -> 1..n] /\ \A i \in 1..n : place[i] = Place(i)
      BY <1>9
    <2> HIDE DEF place
    <2>2. place \in Injection(1..n, 1..n)
      BY <1>10, <2>1 DEF Injection, IsInjective
    <2>3. IsFiniteSet(1..n)
      BY <1>1, FS_Interval
    <2>4. place \in Surjection(1..n, 1..n)
      BY <2>2, <2>3, FS_Injection
    <2> QED BY <2>1, <2>4 DEF Surjection
  <1>12. ASSUME NEW i \in 1..n
         PROVE  Sorted[Place(i)] = s[i]
    <2> DEFINE j == CHOOSE j \in 1..n : Place(j) = Place(i)
    <2>1. j \in 1..n /\ Place(j) = Place(i)
      OBVIOUS
    <2>2. Sorted[Place(i)] = s[j]
      BY <1>1, <1>9 DEF Sorted, s
    <2> HIDE DEF j
    <2>3. j = i
      BY <1>10, <2>1
    <2> QED BY <2>2, <2>3
  <1> QED BY <1>4, <1>8, <1>9, <1>11, <1>12 DEF n, s

\* When no neighbours overlap, no two segments do.
LEMMA NeighboursSuffice ==
  ASSUME Elf, \A s \in ToSet(image.segments) : s.va + s.memory < Word,
         \A k \in 1..Len(image.segments) - 1 : OverlapDefects(k) = <<>>
  PROVE  SegmentsApart
  <1> DEFINE s == image.segments
             n == Len(s)
             from(k) == Sorted[k].va
             end(k) == Sorted[k].va + Sorted[k].memory
  <1>1. s \in Seq(Loads)
    BY ElfFacts
  <1>2. n \in Nat /\ DOMAIN s = 1..n /\ \A i \in 1..n : s[i] \in Loads
    BY <1>1
  <1>3. /\ \A i \in 1..n : Place(i) \in 1..n
        /\ \A i, j \in 1..n : Before(i, j) => Place(i) < Place(j)
        /\ \A i, j \in 1..n : i # j => Before(i, j) \/ Before(j, i)
        /\ \A k \in 1..n : \E i \in 1..n : Place(i) = k
        /\ \A i \in 1..n : Sorted[Place(i)] = s[i]
    BY <1>1, PlacesFacts
  <1>4. \A k \in 1..n : from(k) \in Nat /\ end(k) \in Nat /\ from(k) <= end(k) /\ end(k) < Word
    <2> TAKE k \in 1..n
    <2>1. PICK i \in 1..n : Place(i) = k
      BY <1>3
    <2>2. Sorted[k] = s[i] /\ s[i] \in Loads /\ s[i] \in ToSet(s)
      BY <1>2, <1>3, <2>1 DEF ToSet
    <2>3. s[i].va \in Nat /\ s[i].memory \in Nat
      BY <2>2 DEF Loads
    <2>4. s[i].va + s[i].memory < Word
      BY <2>2
    <2> QED BY <2>2, <2>3, <2>4
  <1>5. \A k \in 1..n - 1 : end(k) <= from(k + 1)
    <2> TAKE k \in 1..n - 1
    <2>1. ~ (end(k) < Word /\ end(k) > from(k + 1))
      BY SayListed DEF OverlapDefects, Neighbours
    <2>2. k \in 1..n /\ k + 1 \in 1..n
      BY <1>2
    <2> HIDE DEF end, from
    <2> QED BY <1>4, <2>1, <2>2
  <1> HIDE DEF end, from, n
  <1>6. ASSUME NEW p \in 1..n, NEW q \in 1..n, p < q
        PROVE  end(p) <= from(q)
    <2> DEFINE T == {d \in 0..n : p + d + 1 <= n => end(p) <= from(p + d + 1)}
    <2>1. 0 \in T
      <3>1. p + 0 + 1 <= n => p \in 1..n - 1 /\ p + 0 + 1 = p + 1
        BY <1>2
      <3> QED BY <1>2, <1>5, <3>1
    <2>2. ASSUME NEW d \in 1..n, d - 1 \in T
          PROVE  d \in T
      <3>1. ASSUME p + d + 1 <= n
            PROVE  end(p) <= from(p + d + 1)
        <4>1. p + d \in 1..n - 1 /\ p + (d - 1) + 1 = p + d /\ p + d <= n /\ p + d \in 1..n /\ p + d + 1 \in 1..n
          BY <1>2, <3>1
        <4>2. end(p) <= from(p + d)
          BY <2>2, <4>1
        <4>3. from(p + d) <= end(p + d) /\ end(p + d) <= from(p + d + 1)
          BY <1>4, <1>5, <4>1
        <4>4. end(p) \in Nat /\ from(p + d) \in Nat /\ end(p + d) \in Nat /\ from(p + d + 1) \in Nat
          BY <1>4, <4>1
        <4> QED BY <4>2, <4>3, <4>4
      <3>2. d \in 0..n
        BY <1>2
      <3> QED BY <3>1, <3>2
    <2>3. 0..n \subseteq T
      <3> HIDE DEF T
      <3> QED BY <1>2, <2>1, <2>2, UpTo
    <2>4. q - p - 1 \in 0..n /\ p + (q - p - 1) + 1 = q
      BY <1>2, <1>6
    <2>5. q - p - 1 \in T
      <3> HIDE DEF T
      <3> QED BY <2>3, <2>4
    <2> QED BY <2>4, <2>5
  <1>7. ASSUME NEW i \in 1..n, NEW j \in 1..n, Before(i, j)
        PROVE  s[i].va + s[i].memory <= s[j].va
    <2>1. Place(i) \in 1..n /\ Place(j) \in 1..n /\ Place(i) < Place(j)
      BY <1>3, <1>7 DEF n
    <2>2. end(Place(i)) <= from(Place(j))
      BY <1>6, <2>1
    <2> QED BY <1>3, <2>2 DEF end, from, n
  <1>8. ASSUME NEW i \in 1..n, NEW j \in 1..n, i # j
        PROVE  ~ Overlap(s[i], s[j])
    <2>1. s[i].va + s[i].memory <= s[j].va \/ s[j].va + s[j].memory <= s[i].va
      BY <1>3, <1>7, <1>8 DEF n
    <2>2. s[i] \in Loads /\ s[j] \in Loads
      BY <1>2 DEF n
    <2> HIDE DEF s
    <2>3. s[i].va \in Nat /\ s[i].memory \in Nat /\ s[j].va \in Nat /\ s[j].memory \in Nat
      BY <2>2 DEF Loads
    <2> QED BY <2>1, <2>3 DEF Overlap
  <1> QED BY <1>2, <1>8 DEF SegmentsApart, n

-----------------------------------------------------------------------------
(* Silence.                                                                *)

\* Nothing in both, nothing in either.
LEMMA BothEmpty ==
  ASSUME NEW s, NEW t, Listed(s), Listed(t), s \o t = <<>>
  PROVE  s = <<>> /\ t = <<>>
  <1>1. ToSet(s) \cup ToSet(t) = {}
    BY ConcatList, EmptyHolds
  <1> QED BY <1>1, NoneListed

\* A fresh sink that gives no lines was given none.
LEMMA SilenceIsEmpty ==
  ASSUME NEW m, Listed(m), Lines(Push(Fresh, m)) = <<>>
  PROVE  m = <<>>
  <1> DEFINE t == Push(Fresh, m)
             lost == IF t.dropped # 0 THEN <<<<"suppressed", t.dropped>>>> ELSE <<>>
             blind == IF t.unseen THEN <<<<"not checked">>>> ELSE <<>>
  <1>1. Honest(t) /\ (Whole(t) => ToSet(m) \subseteq ToSet(t.kept))
    BY FreshIsHonest, PushFacts
  <1>2. t.kept \o lost \o blind = <<>>
    BY DEF Lines
  <1>3. Whole(t)
    <2>1. Len(Lines(t)) = 0
      BY EmptyHolds
    <2> HIDE DEF t
    <2> QED BY <1>1, <2>1, MissingIsTold, MaxPerTableAssumption
  <1>4. Listed(lost) /\ Listed(blind)
    BY OneListed, EmptyHolds
  <1> HIDE DEF t, lost, blind
  <1>5. Listed(t.kept) /\ Listed(t.kept \o lost)
    BY <1>1, <1>4, ConcatList DEF Honest
  <1>6. t.kept = <<>>
    BY <1>2, <1>4, <1>5, BothEmpty
  <1>7. ToSet(m) = {}
    BY <1>1, <1>3, <1>6, EmptyHolds
  <1> QED BY <1>7, NoneListed

\* A row without messages, when the whole has none.
LEMMA WithinEmpty ==
  ASSUME NEW m, Listed(m), NEW s, ToSet(m) \subseteq ToSet(s), s = <<>>
  PROVE  m = <<>>
  BY EmptyHolds, NoneListed

\* Segments that nothing is said of do not overlap.
LEMMA SilentSegments ==
  ASSUME Elf, FlattenSeq(SegmentRows) \o FlattenSeq(OverlapRows) \o FlattenSeq(SectionRows) = <<>>
  PROVE  SegmentsApart
  <1> DEFINE a == FlattenSeq(SegmentRows)
             b == FlattenSeq(OverlapRows)
             c == FlattenSeq(SectionRows)
             n == Len(image.segments)
  <1>1. Listed(a) /\ Listed(b) /\ Listed(c)
    BY SegmentRowsListed
  <1>2. a = <<>> /\ b = <<>>
    <2> HIDE DEF a, b, c
    <2>1. Listed(a \o b) /\ (a \o b) \o c = <<>>
      BY <1>1, ConcatList DEF a, b, c
    <2>2. a \o b = <<>>
      BY <1>1, <2>1, BothEmpty
    <2> QED BY <1>1, <2>2, BothEmpty
  <1>3. \A k \in 1..n : ToSet(SegmentDefects(k)) = {}
    BY <1>2, EmptyHolds, SegmentRowsListed
  <1>4. \A k \in 1..n - 1 : OverlapDefects(k) = <<>>
    <2> TAKE k \in 1..n - 1
    <2>1. ToSet(OverlapDefects(k)) = {}
      BY <1>2, EmptyHolds, SegmentRowsListed
    <2>2. Listed(OverlapDefects(k))
      BY SayListed DEF OverlapDefects
    <2> QED BY <2>1, <2>2, NoneListed
  <1>5. \A s \in ToSet(image.segments) : s.va + s.memory < Word
    <2>1. n \in Nat /\ DOMAIN image.segments = 1..n /\ \A k \in 1..n : image.segments[k] \in Loads
      BY ElfFacts
    <2>2. ASSUME NEW k \in 1..n
          PROVE  image.segments[k].va + image.segments[k].memory < Word
      <3> DEFINE s == image.segments[k]
                 n1 == Say(s.align # 0 /\ ~ PowerOfTwo(s.align), <<"segment", k, "alignment">>)
                 n2 == Say(s.align > 1 /\ s.offset % s.align # s.va % s.align, <<"segment", k, "not congruent">>)
                 n3 == Say(s.file > s.memory, <<"segment", k, "more file than memory">>)
                 n4 == Say(s.offset + s.file >= Word \/ s.offset + s.file > image.length, <<"segment", k, "past the file">>)
                 n5 == Say(s.va + s.memory >= Word, <<"segment", k, "overflows">>)
                 n6 == Say("r" \notin s.flags, <<"segment", k, "not readable">>)
                 front == n1 \o n2 \o n3 \o n4
      <3>1. SegmentDefects(k) = front \o n5 \o n6
        BY DEF SegmentDefects
      <3>2. Listed(n1) /\ Listed(n2) /\ Listed(n3) /\ Listed(n4) /\ Listed(n5) /\ Listed(n6)
        BY SayListed
      <3>3. n5 = <<>> => ~ (s.va + s.memory >= Word)
        BY SayListed
      <3> HIDE DEF n1, n2, n3, n4, n5, n6
      <3>4. Listed(n1 \o n2)
        BY <3>2, ConcatList
      <3>5. Listed(n1 \o n2 \o n3)
        BY <3>2, <3>4, ConcatList
      <3>6. Listed(front)
        BY <3>2, <3>5, ConcatList
      <3> HIDE DEF front
      <3>7. Listed(front \o n5)
        BY <3>2, <3>6, ConcatList
      <3>8. Listed(front \o n5 \o n6) /\ ToSet(front \o n5 \o n6) = {}
        BY <1>3, <3>1, <3>2, <3>7, ConcatList
      <3>9. front \o n5 \o n6 = <<>>
        BY <3>8, NoneListed
      <3>10. front \o n5 = <<>>
        BY <3>2, <3>7, <3>9, BothEmpty
      <3>11. n5 = <<>>
        BY <3>2, <3>6, <3>10, BothEmpty
      <3>12. s.va \in Nat /\ s.memory \in Nat
        BY <2>1 DEF Loads
      <3>13. ~ (s.va + s.memory >= Word)
        BY <3>3, <3>11
      <3>14. Word \in Nat
        BY WalkAssumption
      <3> HIDE DEF s
      <3>15. s.va + s.memory < Word
        BY <3>12, <3>13, <3>14
      <3> QED BY <3>15 DEF s
    <2> QED BY <2>1, <2>2 DEF ToSet
  <1> QED BY <1>4, <1>5, NeighboursSuffice

\* Relocations that nothing is said of find their targets.
LEMMA SilentRelas ==
  ASSUME Elf,
         RelaDefects(".rela.dyn", {"RELATIVE", "GLOB_DAT", "ABS64"})
           \o (IF Unread(".rela.dyn") THEN <<>> ELSE RelaDefects(".rela.plt", {"JUMP_SLOT", "RELATIVE"})) = <<>>
  PROVE  RelasResolve
  <1> DEFINE dyn == RelaDefects(".rela.dyn", {"RELATIVE", "GLOB_DAT", "ABS64"})
             plt == RelaDefects(".rela.plt", {"JUMP_SLOT", "RELATIVE"})
             rest == IF Unread(".rela.dyn") THEN <<>> ELSE plt
  <1>1. Listed(dyn) /\ Listed(plt)
    BY RelaListed
  <1>2. dyn = <<>> /\ (~ Unread(".rela.dyn") => plt = <<>>)
    <2> HIDE DEF dyn, plt
    <2>1. Listed(rest) /\ dyn \o rest = <<>>
      BY <1>1, EmptyHolds DEF dyn, plt
    <2>2. dyn = <<>> /\ rest = <<>>
      BY <1>1, <2>1, BothEmpty
    <2> QED BY <2>2
  <1>3. ASSUME NEW name \in {".rela.dyn", ".rela.plt"}, NEW allowed, RelaDefects(name, allowed) = <<>>,
               Has(name), BackedSection(name), NEW k \in 1..Records(name)
        PROVE  LET r == Rela(name, k) IN
               /\ \E s \in ToSet(image.segments) : s.va <= r.at /\ r.at + 8 <= s.va + s.memory
               /\ r.kind = "RELATIVE" \/ r.symbol < SymbolCount
    <2> DEFINE r == Rela(name, k)
               d == RelaDefects(name, allowed)
               n == Len(image.relas[name])
    <2>1. /\ n \in Nat /\ Records(name) \in Nat
          /\ \A i \in 1..Smaller(Records(name), n) :
               Listed(BadRela(name, allowed, i)) /\ ToSet(BadRela(name, allowed, i)) \subseteq ToSet(d)
          /\ Unread(name) => <<name, "past the file">> \in ToSet(d)
      BY <1>3, RelaListed
    <2>2. ~ Unread(name)
      BY <1>3, <2>1, EmptyHolds
    <2>3. Records(name) <= n
      <3> DEFINE m == Records(name)
      <3>1. m \in Nat /\ n \in Nat /\ k \in 1..m
        BY <1>3, <2>1
      <3>2. m > 0 => ~ (m > n)
        BY <1>3, <2>2 DEF Unread
      <3> HIDE DEF m, n
      <3>3. m <= n
        BY <3>1, <3>2
      <3> QED BY <3>3 DEF m, n
    <2>4. k \in 1..Smaller(Records(name), n) /\ k \in 1..n
      <3> DEFINE m == Records(name)
      <3>1. m \in Nat /\ n \in Nat /\ k \in 1..m /\ m <= n
        BY <1>3, <2>1, <2>3
      <3> HIDE DEF m, n
      <3>2. k \in 1..Smaller(m, n) /\ k \in 1..n
        BY <3>1 DEF Smaller
      <3> QED BY <3>2 DEF m, n
    <2>5. BadRela(name, allowed, k) = <<>>
      <3>1. Listed(BadRela(name, allowed, k)) /\ ToSet(BadRela(name, allowed, k)) \subseteq ToSet(d)
        BY <2>1, <2>4
      <3>2. d = <<>>
        BY <1>3
      <3> QED BY <3>1, <3>2, WithinEmpty
    <2> DEFINE m1 == Say(r.kind \notin allowed, <<name, k, "kind">>)
               m2 == Say(SegmentsFor(r.at, 8) = {}, <<name, k, "unmapped">>)
               m3 == Say(IF r.kind = "RELATIVE" THEN r.symbol # 0 ELSE r.symbol >= SymbolCount, <<name, k, "symbol">>)
    <2>6. BadRela(name, allowed, k) = m1 \o m2 \o m3
      BY DEF BadRela
    <2>7. Listed(m1) /\ Listed(m2) /\ Listed(m3)
      BY SayListed
    <2>8. /\ m2 = <<>> => ~ (SegmentsFor(r.at, 8) = {})
          /\ m3 = <<>> => ~ (IF r.kind = "RELATIVE" THEN r.symbol # 0 ELSE r.symbol >= SymbolCount)
      BY SayListed
    <2> HIDE DEF m1, m2, m3
    <2>9. Listed(m1 \o m2)
      BY <2>7, ConcatList
    <2>10. m1 \o m2 = <<>> /\ m3 = <<>>
      BY <2>5, <2>6, <2>7, <2>9, BothEmpty
    <2>11. m2 = <<>>
      BY <2>7, <2>10, BothEmpty
    <2>12. r.at \in Nat /\ r.symbol \in Nat
      <3>1. Listed(image.relas[name]) /\ \A x \in ToSet(image.relas[name]) : x.at \in Nat /\ x.symbol \in Nat
        BY ElfFacts
      <3>2. image.relas[name][k] \in ToSet(image.relas[name])
        BY <2>4, <3>1, ListFacts DEF ToSet
      <3> QED BY <3>1, <3>2 DEF Rela
    <2> HIDE DEF r
    <2>13. PICK i \in DOMAIN image.segments : Covers(image.segments[i], r.at, 8)
      BY <2>8, <2>11 DEF SegmentsFor
    <2> DEFINE s == image.segments[i]
    <2>14. s \in ToSet(image.segments) /\ s.va \in Nat /\ s.memory \in Nat
      <3>1. s \in Loads
        BY ElfFacts
      <3> QED BY <3>1 DEF ToSet, Loads
    <2>15. s.va <= r.at /\ r.at + 8 <= Top(s.va + s.memory)
      BY <2>13 DEF Covers
    <2> HIDE DEF s
    <2>16. Top(s.va + s.memory) <= s.va + s.memory
      BY <2>14, WalkAssumption DEF Top, Smaller
    <2>17. Top(s.va + s.memory) \in Int
      BY <2>14, WalkAssumption DEF Top, Smaller
    <2>18. r.at + 8 <= s.va + s.memory
      BY <2>12, <2>14, <2>15, <2>16, <2>17
    <2>19. SymbolCount \in Nat
      BY SectionFacts DEF SymbolCount
    <2>20. r.kind = "RELATIVE" \/ r.symbol < SymbolCount
      BY <2>8, <2>10, <2>12, <2>19
    <2> QED BY <2>14, <2>15, <2>18, <2>20 DEF r
  <1> QED BY <1>2, <1>3 DEF RelasResolve

\* Hash tables that nothing is said of: the slots a lookup starts from lie in them.
LEMMA SilentHashes ==
  ASSUME Elf, HashMessages = <<>>
  PROVE  HashesHold
  <1>1. HashDefects = <<>> /\ GnuHashDefects = <<>>
    <2>1. <<<<".hash", "header truncated">>>> # <<>>
      BY OneListed, EmptyHolds
    <2> DEFINE x == <<<<".hash", "header truncated">>>>
               y == HashDefects \o GnuHashDefects
    <2>2. HashMessages \in {x, y}
      BY DEF HashMessages
    <2> HIDE DEF x, y
    <2>3. x # <<>>
      BY <2>1 DEF x
    <2>4. y = <<>>
      BY <2>2, <2>3
    <2>5. HashDefects \o GnuHashDefects = <<>>
      BY <2>4 DEF y
    <2> QED BY <2>5, HashListed, BothEmpty
  <1>2. SymbolCount \in Nat
    BY SectionFacts DEF SymbolCount
  <1>3. ASSUME Has(".hash"), BackedSection(".hash")
        PROVE  8 + 4 * (image.hash.buckets + SymbolCount) <= Section(".hash").size
    <2> DEFINE h == image.hash
               size == Section(".hash").size
               m1 == Say(h.chains # SymbolCount, <<".hash", "chains">>)
               m2 == Say(8 + 4 * h.buckets + 4 * h.chains > Section(".hash").size, <<".hash", "too small">>)
    <2>1. m1 \o m2 = <<>>
      BY <1>1, <1>3 DEF HashDefects
    <2>2. m1 = <<>> /\ m2 = <<>>
      <3>1. Listed(m1) /\ Listed(m2)
        BY SayListed
      <3> HIDE DEF m1, m2
      <3> QED BY <2>1, <3>1, BothEmpty
    <2>3. h.chains = SymbolCount /\ ~ (8 + 4 * h.buckets + 4 * h.chains > size)
      BY <2>2, SayListed
    <2> DEFINE a == h.buckets
               c == SymbolCount
    <2>4. a \in Nat /\ c \in Nat /\ size \in Nat /\ ~ (8 + 4 * a + 4 * c > size)
      BY <1>2, <1>3, <2>3, ElfFacts, SectionFacts
    <2> HIDE DEF a, c, size
    <2>5. 8 + 4 * (a + c) <= size
      BY <2>4
    <2> QED BY <2>5 DEF a, c, size
  <1>4. ASSUME Has(".gnu.hash"), BackedSection(".gnu.hash")
        PROVE  \A k \in 1..Smaller(Len(image.gnu.bucket), MaxBuckets) :
                 LET b == image.gnu.bucket[k] IN
                 b >= image.gnu.symoffset /\ b # 0 =>
                   16 + 8 * image.gnu.bloom + 4 * Len(image.gnu.bucket) + 4 * (b - image.gnu.symoffset) + 4
                     <= Section(".gnu.hash").size
    <2> DEFINE h == image.gnu
               size == Section(".gnu.hash").size
               header == 16 + 8 * h.bloom + 4 * Len(h.bucket)
               m1 == Say(~ PowerOfTwo(Len(h.bucket)), <<".gnu.hash", "buckets">>)
               m2 == Say(~ PowerOfTwo(h.bloom), <<".gnu.hash", "bloom">>)
               m3 == Say(h.shift >= 64, <<".gnu.hash", "shift">>)
               shape == m1 \o m2 \o m3
               chains == SymbolCount - h.symoffset
               small == Say(header + 4 * chains > size, <<".gnu.hash", "too small">>)
               n == Smaller(Len(h.bucket), MaxBuckets)
               rows == [k \in 1..n |->
                          Say(h.bucket[k] # 0 /\ h.bucket[k] >= SymbolCount, <<".gnu.hash", k, "bucket">>)]
               held == <<<<".gnu.hash", "header truncated">>>>
               large == Append(shape, <<".gnu.hash", "header too large">>)
               late == Append(shape, <<".gnu.hash", "symbol offset">>)
               body == shape \o small \o FlattenSeq(rows)
    <2>1. GnuHashDefects = IF ~ HeaderHeld(".gnu.hash", 16) THEN held
                           ELSE IF header > size THEN large
                           ELSE IF h.symoffset > SymbolCount THEN late ELSE body
      BY <1>4 DEF GnuHashDefects
    <2>2. Listed(m1) /\ Listed(m2) /\ Listed(m3) /\ Listed(small)
      BY SayListed
    <2>3. Listed(shape)
      <3> HIDE DEF m1, m2, m3
      <3>1. Listed(m1 \o m2)
        BY <2>2, ConcatList
      <3> QED BY <2>2, <3>1, ConcatList
    <2>4. n \in Nat /\ Listed(FlattenSeq(rows))
          /\ \A k \in 1..n : Listed(rows[k]) /\ ToSet(rows[k]) \subseteq ToSet(FlattenSeq(rows))
      <3>1. Len(h.bucket) \in Nat /\ MaxBuckets \in Nat
        BY ElfFacts, TableAssumption
      <3>2. n \in Nat
        BY <3>1 DEF Smaller
      <3>3. \A k \in 1..n : Listed(rows[k])
        BY SayListed
      <3> HIDE DEF n
      <3>4. DOMAIN rows = 1..n /\ rows = [k \in 1..n |-> rows[k]]
        OBVIOUS
      <3> HIDE DEF rows
      <3> QED BY <3>2, <3>3, <3>4, RowsFlatten
    <2>5. held # <<>> /\ large # <<>> /\ late # <<>>
      <3>1. held # <<>>
        BY OneListed, EmptyHolds
      <3> HIDE DEF shape
      <3>2. shape \in Seq({shape[i] : i \in DOMAIN shape})
        BY <2>3 DEF Listed
      <3>3. ASSUME NEW x
            PROVE  Append(shape, x) # <<>>
        <4> DEFINE T == {shape[i] : i \in DOMAIN shape} \cup {x}
        <4>1. shape \in Seq(T) /\ x \in T
          BY <3>2, SeqMonotonic
        <4> HIDE DEF T
        <4>2. Len(Append(shape, x)) = Len(shape) + 1 /\ Len(shape) \in Nat
          BY <4>1
        <4> QED BY <4>2, EmptyHolds
      <3> QED BY <3>1, <3>3
    <2>6. /\ ~ (header > size) /\ ~ (h.symoffset > SymbolCount)
          /\ body = <<>>
      <3> DEFINE p == header > size
                 q == h.symoffset > SymbolCount
      <3> HIDE DEF held, large, late, body, header, size, p, q
      <3>1. GnuHashDefects = IF ~ HeaderHeld(".gnu.hash", 16) THEN held
                             ELSE IF p THEN large ELSE IF q THEN late ELSE body
        BY <2>1 DEF p, q
      <3>2. ~ p /\ ~ q /\ body = <<>>
        BY <1>1, <2>5, <3>1
      <3> QED BY <3>2 DEF p, q
    <2>7. small = <<>> /\ FlattenSeq(rows) = <<>>
      <3> DEFINE f == FlattenSeq(rows)
      <3> HIDE DEF shape, small, rows, f
      <3>1. Listed(shape \o small) /\ (shape \o small) \o f = <<>> /\ Listed(f)
        BY <2>2, <2>3, <2>4, <2>6, ConcatList DEF f
      <3>2. shape \o small = <<>> /\ f = <<>>
        BY <3>1, BothEmpty
      <3>3. small = <<>>
        BY <2>2, <2>3, <3>2, BothEmpty
      <3> QED BY <3>2, <3>3 DEF f
    <2>8. ~ (header + 4 * chains > size)
      BY <2>7, SayListed
    <2>9. ASSUME NEW k \in 1..n
          PROVE  ~ (h.bucket[k] # 0 /\ h.bucket[k] >= SymbolCount)
      <3>1. rows[k] = <<>>
        <4>1. Listed(rows[k]) /\ ToSet(rows[k]) \subseteq ToSet(FlattenSeq(rows))
          BY <2>4
        <4> HIDE DEF rows, n
        <4> QED BY <2>7, <4>1, WithinEmpty
      <3>2. rows[k] = Say(h.bucket[k] # 0 /\ h.bucket[k] >= SymbolCount, <<".gnu.hash", k, "bucket">>)
        OBVIOUS
      <3> QED BY <3>1, <3>2, SayListed
    <2> SUFFICES ASSUME NEW k \in 1..n, h.bucket[k] >= h.symoffset, h.bucket[k] # 0
                 PROVE  header + 4 * (h.bucket[k] - h.symoffset) + 4 <= size
      OBVIOUS
    <2> DEFINE b == h.bucket[k]
               o == h.symoffset
               c == SymbolCount
    <2>10. o \in Nat /\ header \in Nat /\ c \in Nat /\ size \in Nat /\ b \in Nat
      <3>1. h.bucket \in Seq(Nat) /\ o \in Nat /\ h.bloom \in Nat /\ Len(h.bucket) \in Nat
        BY ElfFacts
      <3>2. header \in Nat
        <4> DEFINE m == h.bloom
                   l == Len(h.bucket)
        <4>1. header = 16 + 8 * m + 4 * l /\ m \in Nat /\ l \in Nat
          BY <3>1
        <4> HIDE DEF header, m, l
        <4> QED BY <4>1
      <3>3. k \in DOMAIN h.bucket
        <4>1. k \in 1..n /\ DOMAIN h.bucket = 1..Len(h.bucket) /\ MaxBuckets \in Nat
          BY <3>1, TableAssumption
        <4> DEFINE l == Len(h.bucket)
        <4>2. l \in Nat /\ n = Smaller(l, MaxBuckets)
          BY <3>1
        <4> HIDE DEF l, n
        <4>3. k \in 1..l
          BY <4>1, <4>2 DEF Smaller
        <4> QED BY <4>1, <4>3 DEF l
      <3>4. size \in Nat
        BY <1>4, SectionFacts
      <3>5. b \in Nat
        BY <3>1, <3>3
      <3> HIDE DEF b, o, header, n
      <3> QED BY <1>2, <3>1, <3>2, <3>4, <3>5
    <2>11. b < c
      <3>1. ~ (b # 0 /\ b >= c) /\ b # 0
        BY <2>9
      <3> HIDE DEF b, c
      <3> QED BY <2>10, <3>1
    <2>12. b >= o /\ ~ (header + 4 * (c - o) > size)
      BY <2>8
    <2> HIDE DEF b, o, c, header, size
    <2>13. header + 4 * (b - o) + 4 <= size
      BY <2>10, <2>11, <2>12
    <2> QED BY <2>13 DEF b, o
  <1> QED BY <1>3, <1>4 DEF HashesHold

-----------------------------------------------------------------------------
(* What silence means stays what it is.                                    *)

\* The tables of an ELF and what is asked of them.
LEMMA SameElf ==
  ASSUME image' = image
  PROVE  SegmentsApart' = SegmentsApart /\ RelasResolve' = RelasResolve /\ HashesHold' = HashesHold
  <1>1. SegmentsApart' = SegmentsApart
    BY DEF SegmentsApart, Overlap
  <1>2. \A name : Has(name)' = Has(name) /\ Section(name)' = Section(name)
    BY DEF Has, Section, SectionsOf
  <1>3. SymbolCount' = SymbolCount
    BY <1>2 DEF SymbolCount
  <1>4. \A address, size : OffsetOf(address, size)' = OffsetOf(address, size)
    BY DEF OffsetOf
  <1>5. \A name : BackedSection(name)' = BackedSection(name)
    <2> TAKE name
    <2> DEFINE s == Section(name)
    <2>1. s' = s
      BY <1>2
    <2> HIDE DEF s
    <2>2. OffsetOf(s.va, s.size)' = OffsetOf(s.va, s.size)
      BY <1>4, <2>1
    <2> QED BY <2>2 DEF BackedSection, s
  <1>6. \A name : Records(name)' = Records(name)
    BY <1>2 DEF Records
  <1>7. \A name : Unread(name)' = Unread(name)
    BY <1>2, <1>5, <1>6 DEF Unread
  <1>8. \A name, k : Rela(name, k)' = Rela(name, k)
    BY DEF Rela
  <1>9. RelasResolve' = RelasResolve
    BY <1>2, <1>3, <1>5, <1>6, <1>7, <1>8 DEF RelasResolve
  <1>10. HashesHold' = HashesHold
    BY <1>2, <1>3, <1>5 DEF HashesHold
  <1> QED BY <1>1, <1>9, <1>10

\* What the lines of a table of an ELF leave out.
Meant(told) ==
  Lines(told.sink) = <<>> =>
    /\ told.table = "segments" => SegmentsApart
    /\ told.table = "relas" => RelasResolve
    /\ told.table = "hashes" => HashesHold

\* Inductive together with Telling: each table of an ELF starts with a fresh sink, and the
\* relocations come before the hash tables.
Resolving ==
  /\ table \in ElfWalks => sink = Fresh
  /\ \A k \in DOMAIN report : Meant(report[k])
  /\ table = "hashes" \/ Reported("hashes") # {} => Reported("relas") # {}

\* The image that is asked about stays the same.
LEMMA MeantStays ==
  ASSUME image' = image, NEW t
  PROVE  Meant(t)' <=> Meant(t)
  BY SameElf DEF Meant

\* One more table in the report.
LEMMA ReportGrows ==
  ASSUME Telling, NEW told, report' = Append(report, told)
  PROVE  /\ DOMAIN report' = DOMAIN report \cup {Len(report) + 1}
         /\ report'[Len(report) + 1] = told /\ Len(report) + 1 \notin DOMAIN report
         /\ \A k \in DOMAIN report : report'[k] = report[k]
  <1>1. Listed(report) /\ Len(report) \in Nat /\ DOMAIN report = 1..Len(report)
    BY ListFacts DEF Telling
  <1>2. /\ Listed(report') /\ Len(report') = Len(report) + 1 /\ report'[Len(report) + 1] = told
        /\ \A i \in 1..Len(report) : report'[i] = report[i]
    BY <1>1, AppendFacts
  <1>3. DOMAIN report' = 1..Len(report) + 1
    BY <1>2, ListFacts
  <1>4. 1..Len(report) + 1 = 1..Len(report) \cup {Len(report) + 1} /\ Len(report) + 1 \notin 1..Len(report)
    BY <1>1
  <1> QED BY <1>1, <1>2, <1>3, <1>4

\* A step that reports nothing, or what the table it is at left.
Adding ==
  /\ image' = image
  /\ \/ report' = report
     \/ \E s : report' = Append(report, [table |-> table, sink |-> s]) /\ Meant([table |-> table, sink |-> s])

\* Such a step keeps what the reported tables leave out.
LEMMA AddingResolves ==
  ASSUME Telling, Resolving, Adding, table' \in ElfWalks => sink' = Fresh,
         table' = "hashes" \/ table = "hashes" \/ Reported("hashes")' # Reported("hashes")
           => Reported("relas")' # {}
  PROVE  Resolving'
  <1>1. \A k \in DOMAIN report' : Meant(report[k])'
    <2>1. CASE report' = report
      BY <2>1, MeantStays DEF Adding, Resolving
    <2>2. CASE report' # report
      <3>1. PICK s : report' = Append(report, [table |-> table, sink |-> s]) /\ Meant([table |-> table, sink |-> s])
        BY <2>2 DEF Adding
      <3> DEFINE told == [table |-> table, sink |-> s]
      <3>2. report' = Append(report, told) /\ Meant(told)
        BY <3>1
      <3> HIDE DEF told
      <3>3. \A k \in DOMAIN report' : Meant(report'[k])
        BY <3>2, ReportGrows DEF Resolving
      <3>4. \A t : Meant(t)' <=> Meant(t)
        BY MeantStays DEF Adding
      <3> QED BY <3>3, <3>4
    <2> QED BY <2>1, <2>2
  <1>2. Reported("relas") # {} => Reported("relas")' # {}
    <2>1. CASE report' = report
      BY <2>1 DEF Reported
    <2>2. CASE report' # report
      <3>1. PICK s : report' = Append(report, [table |-> table, sink |-> s])
        BY <2>2 DEF Adding
      <3> DEFINE told == [table |-> table, sink |-> s]
      <3>2. report' = Append(report, told)
        BY <3>1
      <3> HIDE DEF told
      <3> QED BY <3>2, ReportGrows DEF Reported
    <2> QED BY <2>1, <2>2
  <1>3. sink' = Fresh' \/ table' \notin ElfWalks
    BY DEF Fresh, Holding
  <1>4. table' = "hashes" \/ Reported("hashes")' # {} => Reported("relas")' # {}
    BY <1>2 DEF Resolving
  <1> QED BY <1>1, <1>3, <1>4 DEF Resolving

\* A table of an ELF ends.
LEMMA ElfResolves ==
  ASSUME Telling, Resolving, NEW s, NEW next, Finish(s, next), table \in ElfWalks,
         Meant([table |-> table, sink |-> s]),
         next = "hashes" => table = "relas"
  PROVE  Resolving'
  <1> DEFINE told == [table |-> table, sink |-> s]
  <1>1. report' = Append(report, told) /\ image' = image /\ table' = next /\ sink' = Fresh /\ Meant(told)
    BY DEF Finish
  <1>2. Adding
    BY <1>1 DEF Adding
  <1>3. told.table = table
    OBVIOUS
  <1> HIDE DEF told
  <1>4. /\ table = "relas" => Reported("relas")' # {}
        /\ Reported("relas") # {} => Reported("relas")' # {}
        /\ table # "hashes" => Reported("hashes")' = Reported("hashes")
    BY <1>1, <1>3, ReportGrows DEF Reported
  <1>5. table = "hashes" => Reported("relas") # {}
    BY DEF Resolving
  <1> QED BY <1>1, <1>2, <1>4, <1>5, AddingResolves

\* A table of a PE image says nothing of an ELF.
LEMMA PeResolves ==
  ASSUME Telling, Resolving, table \in PeWalks, image' = image, Telling',
         report' = report \/ \E s : report' = Append(report, [table |-> table, sink |-> s])
  PROVE  Resolving'
  <1>1. table \notin {"segments", "relas", "hashes"} /\ image.kind = "pe"
    BY DEF Telling, PeWalks, PeTables
  <1>2. table' \notin ElfWalks
    BY <1>1 DEF Telling, ElfWalks
  <1>3. \A s : Meant([table |-> table, sink |-> s])
    BY <1>1 DEF Meant
  <1>4. Adding
    BY <1>3 DEF Adding
  <1>5. Reported("hashes")' = Reported("hashes")
    <2>1. CASE report' = report
      BY <2>1 DEF Reported
    <2>2. CASE report' # report
      <3>1. PICK s : report' = Append(report, [table |-> table, sink |-> s])
        BY <2>2
      <3> DEFINE told == [table |-> table, sink |-> s]
      <3>2. report' = Append(report, told) /\ told.table = table
        BY <3>1
      <3> HIDE DEF told
      <3> QED BY <1>1, <3>2, ReportGrows DEF Reported
    <2> QED BY <2>1, <2>2
  <1>6. table' # "hashes" /\ table # "hashes"
    BY <1>1, <1>2 DEF ElfWalks
  <1> QED BY <1>2, <1>4, <1>5, <1>6, AddingResolves

\* A step of the check of a PE image adds what its table left, or nothing.
LEMMA PeAdds ==
  ASSUME IntegrityNext
  PROVE  /\ table \in PeWalks /\ image' = image
         /\ report' = report \/ \E s : report' = Append(report, [table |-> table, sink |-> s])
  <1> DEFINE Adds == /\ image' = image
                     /\ report' = report \/ \E s : report' = Append(report, [table |-> table, sink |-> s])
  <1>1. \A s, next : Finish(s, next) => Adds
    BY DEF Finish
  <1>2. \A s : Continue(s) => Adds
    BY DEF Continue
  <1>3. \A found, next : Note(found, next) => Adds
    BY DEF Note
  <1>4. CASE Names
    <2>1. Adds
      <3> HIDE DEF Adds
      <3>1. (image' = image /\ report' = report) \/ \E found : Note(found, "imports")
        BY <1>4 DEF Names
      <3> QED BY <1>3, <3>1 DEF Adds
    <2> QED BY <1>4, <2>1 DEF Names, PeWalks
  <1> HIDE DEF Adds
  <1>5. CASE Headers
    BY <1>3, <1>5 DEF Headers, PeWalks, Adds
  <1>6. CASE Sections \/ Entry \/ Runtime \/ Conclude
    BY <1>3, <1>6 DEF Sections, Entry, Runtime, Conclude, PeWalks, Adds
  <1>7. CASE Metadata
    BY <1>1, <1>7 DEF Metadata, PeWalks, PeTables, Adds
  <1>8. CASE Imports
    BY <1>1, <1>2, <1>8 DEF Imports, PeWalks, PeTables, Adds
  <1>9. CASE DelayImports
    BY <1>1, <1>2, <1>9 DEF DelayImports, PeWalks, PeTables, Adds
  <1>10. CASE BoundImports
    BY <1>1, <1>2, <1>10 DEF BoundImports, PeWalks, PeTables, Adds
  <1>11. CASE Addresses
    BY <1>1, <1>11 DEF Addresses, PeWalks, PeTables, Adds
  <1>12. CASE Tls
    BY <1>1, <1>12 DEF Tls, PeWalks, PeTables, Adds
  <1>13. CASE Relocations
    BY <1>1, <1>2, <1>13 DEF Relocations, PeWalks, PeTables, Adds
  <1>14. CASE Exceptions
    BY <1>1, <1>14 DEF Exceptions, PeWalks, PeTables, Adds
  <1>15. CASE LoadConfig
    BY <1>1, <1>15 DEF LoadConfig, PeWalks, PeTables, Adds
  <1> QED BY <1>4, <1>5, <1>6, <1>7, <1>8, <1>9, <1>10, <1>11, <1>12, <1>13, <1>14, <1>15
          DEF IntegrityNext, Walk, WalkDirectories

\* A table of an ELF whose messages say what they leave out.
LEMMA SilentTable ==
  ASSUME Telling, Resolving, table \in ElfWalks, NEW messages, Listed(messages),
         messages = <<>> => /\ table = "segments" => SegmentsApart
                            /\ table = "relas" => RelasResolve
                            /\ table = "hashes" => HashesHold,
         NEW next, Finish(Push(sink, messages), next), next = "hashes" => table = "relas"
  PROVE  Resolving'
  <1> DEFINE told == [table |-> table, sink |-> Push(sink, messages)]
  <1>1. sink = Fresh
    BY DEF Resolving
  <1>2. told.sink = Push(Fresh, messages) /\ told.table = table
    BY <1>1
  <1> HIDE DEF told
  <1>3. Lines(told.sink) = <<>> => messages = <<>>
    BY <1>2, SilenceIsEmpty
  <1>4. Meant(told)
    BY <1>2, <1>3 DEF Meant
  <1> QED BY <1>4, ElfResolves DEF told

\* Silent segments are apart.
LEMMA SegmentsResolve ==
  ASSUME Telling, Resolving, Segments
  PROVE  Resolving'
  <1> DEFINE messages == FlattenSeq(SegmentRows) \o FlattenSeq(OverlapRows) \o FlattenSeq(SectionRows)
             next == IF Dynamic = <<>> THEN "end" ELSE "dynamic"
  <1>1. table = "segments" /\ Finish(Push(sink, messages), next)
    BY DEF Segments, SegmentRows, OverlapRows, SectionRows
  <1>2. Elf /\ table \in ElfWalks /\ next # "hashes"
    BY <1>1 DEF Telling, Elf, ElfWalks
  <1>3. Listed(messages)
    BY <1>2, SegmentRowsListed, ConcatList
  <1>4. messages = <<>> => SegmentsApart
    BY <1>2, SilentSegments
  <1> HIDE DEF messages, next
  <1> QED BY <1>1, <1>2, <1>3, <1>4, SilentTable

\* Silent relocations find their targets.
LEMMA RelasAreResolved ==
  ASSUME Telling, Resolving, Relas
  PROVE  Resolving'
  <1> DEFINE dyn == RelaDefects(".rela.dyn", {"RELATIVE", "GLOB_DAT", "ABS64"})
             plt == RelaDefects(".rela.plt", {"JUMP_SLOT", "RELATIVE"})
             rest == IF Unread(".rela.dyn") THEN <<>> ELSE plt
             messages == dyn \o rest
  <1>1. table = "relas" /\ Finish(Push(sink, messages), "hashes")
    BY DEF Relas
  <1>2. table \in ElfWalks /\ Elf
    BY <1>1 DEF ElfWalks, Telling, Elf
  <1>3. messages = <<>> => RelasResolve
    BY <1>2, SilentRelas
  <1>4. Listed(dyn) /\ Listed(plt)
    BY <1>2, RelaListed
  <1> HIDE DEF dyn, plt
  <1>5. Listed(rest)
    BY <1>4, EmptyHolds
  <1> HIDE DEF rest
  <1>6. Listed(messages)
    BY <1>4, <1>5, ConcatList
  <1> HIDE DEF messages
  <1> QED BY <1>1, <1>2, <1>3, <1>6, SilentTable

\* Silent hash tables hold their lookups.
LEMMA HashesResolve ==
  ASSUME Telling, Resolving, Hashes
  PROVE  Resolving'
  <1>1. table = "hashes" /\ Finish(Push(sink, HashMessages), "end")
    BY DEF Hashes, HashMessages
  <1>2. table \in ElfWalks /\ Elf
    BY <1>1 DEF ElfWalks, Telling, Elf
  <1>3. HashMessages = <<>> => HashesHold
    BY <1>2, SilentHashes
  <1> QED BY <1>1, <1>2, <1>3, HashListed, SilentTable

\* The tables nothing else is asked of.
LEMMA OthersResolve ==
  ASSUME Telling, Resolving, Programs \/ DynamicTable \/ Arrays
  PROVE  Resolving'
  <1>1. PICK s, next : Finish(s, next) /\ next \in {"segments", "end", "arrays", "relas"}
    <2>1. CASE Programs
      BY <2>1 DEF Programs
    <2>2. CASE DynamicTable
      BY <2>2 DEF DynamicTable
    <2>3. CASE Arrays
      BY <2>3 DEF Arrays
    <2> QED BY <2>1, <2>2, <2>3
  <1>2. table \in {"programs", "dynamic", "arrays"}
    BY DEF Programs, DynamicTable, Arrays
  <1>3. Meant([table |-> table, sink |-> s])
    BY <1>2 DEF Meant
  <1>4. next # "hashes" /\ table \in ElfWalks
    BY <1>1, <1>2 DEF ElfWalks
  <1> QED BY <1>1, <1>3, <1>4, ElfResolves

\* Nothing is reported at the start.
LEMMA ResolvingInit == Init => Resolving
  <1> SUFFICES ASSUME Init PROVE Resolving
    OBVIOUS
  <1>1. DOMAIN report = {} /\ sink = Fresh /\ table # "hashes"
    BY EmptyHolds, ListFacts DEF Init
  <1>2. Reported("hashes") = {}
    BY <1>1 DEF Reported
  <1> QED BY <1>1, <1>2 DEF Resolving

\* Every step keeps it: one case per table.
LEMMA ResolvingStep == Telling /\ Resolving /\ [Next]_checking => Resolving'
  <1> SUFFICES ASSUME Telling, Resolving, [Next]_checking PROVE Resolving'
    OBVIOUS
  <1>1. CASE IntegrityNext
    <2>1. Telling'
      BY TellingStep
    <2> QED BY <1>1, <2>1, PeAdds, PeResolves
  <1>2. CASE VerifyNext
    BY <1>2, SegmentsResolve, RelasAreResolved, HashesResolve, OthersResolve DEF VerifyNext
  <1>3. CASE UNCHANGED checking
    <2>1. image' = image /\ table' = table /\ sink' = sink /\ report' = report
      BY <1>3 DEF checking, walking
    <2>2. Adding
      BY <2>1 DEF Adding
    <2>3. \A name : Reported(name)' = Reported(name)
      BY <2>1 DEF Reported
    <2>4. table' \in ElfWalks => sink' = Fresh
      BY <2>1 DEF Resolving
    <2> QED BY <2>1, <2>2, <2>3, <2>4, AddingResolves DEF Resolving
  <1> QED BY <1>1, <1>2, <1>3 DEF Next

\* Both invariants, from the start on.
LEMMA ResolvingHolds == Spec => [](Telling /\ Resolving)
  BY TellingInit, TellingStep, ResolvingInit, ResolvingStep, PTL DEF Spec

\* verify.rs 302-304: comparing neighbours in the order of their addresses is enough. When
\* the table of the segments gives no line, no two segments of the restored ELF overlap.
THEOREM OverlapsAreSeen == Spec => []OverlapIsSeen
  <1>1. Resolving => OverlapIsSeen
    BY DEF Resolving, Meant, OverlapIsSeen, Reported, Silent
  <1> QED BY <1>1, ResolvingHolds, PTL

\* verify.rs 14-17: when the relocations and the hash tables give no line, a relocation lies
\* in a segment and names a symbol that is there, and a lookup starts inside its table.
THEOREM SilenceResolves == Spec => []SilentElfResolves
  <1>1. Resolving => SilentElfResolves
    <2> SUFFICES ASSUME Resolving, Reported("hashes") # {},
                        \A name \in {"relas", "hashes"} : Silent(name)
                 PROVE  RelasResolve /\ HashesHold
      BY DEF SilentElfResolves
    <2>1. Reported("relas") # {}
      BY DEF Resolving
    <2>2. RelasResolve
      BY <2>1 DEF Resolving, Meant, Reported, Silent
    <2>3. HashesHold
      BY DEF Resolving, Meant, Reported, Silent
    <2> QED BY <2>2, <2>3
  <1> QED BY <1>1, ResolvingHolds, PTL

-----------------------------------------------------------------------------
(* A report of a PE image without an issue.                                *)

Quiet(s) == Lines(s) = <<>>

\* A sink gives no lines when it keeps none and misses none.
LEMMA QuietFacts ==
  ASSUME NEW s, Honest(s)
  PROVE  Quiet(s) <=> Whole(s) /\ s.kept = <<>>
  <1> DEFINE lost == IF s.dropped # 0 THEN <<<<"suppressed", s.dropped>>>> ELSE <<>>
             blind == IF s.unseen THEN <<<<"not checked">>>> ELSE <<>>
  <1>1. Quiet(s) <=> s.kept \o lost \o blind = <<>>
    BY DEF Quiet, Lines
  <1>2. Listed(lost) /\ Listed(blind) /\ Listed(s.kept)
    BY OneListed, EmptyHolds DEF Honest
  <1>3. ASSUME Quiet(s)
        PROVE  Whole(s) /\ s.kept = <<>>
    <2>1. Whole(s)
      <3>1. Lines(s) = <<>> /\ Len(<<>>) = 0
        BY <1>3, EmptyHolds DEF Quiet
      <3>2. Len(Lines(s)) = 0
        BY <3>1
      <3> QED BY <3>2, MissingIsTold, MaxPerTableAssumption
    <2> HIDE DEF lost, blind
    <2>2. Listed(s.kept \o lost)
      BY <1>2, ConcatList
    <2>3. s.kept \o lost = <<>>
      BY <1>1, <1>2, <1>3, <2>2, BothEmpty
    <2>4. s.kept = <<>>
      BY <1>2, <2>3, BothEmpty
    <2> QED BY <2>1, <2>4
  <1>4. ASSUME Whole(s), s.kept = <<>>
        PROVE  Quiet(s)
    <2>1. lost = <<>> /\ blind = <<>>
      BY <1>4 DEF Whole
    <2> HIDE DEF lost, blind
    <2>2. Listed(s.kept \o lost) /\ ToSet(s.kept \o lost) = {}
      BY <1>2, <1>4, <2>1, ConcatList, EmptyHolds
    <2>3. Listed(s.kept \o lost \o blind) /\ ToSet(s.kept \o lost \o blind) = {}
      BY <1>2, <2>1, <2>2, ConcatList, EmptyHolds
    <2>4. s.kept \o lost \o blind = <<>>
      BY <2>3, NoneListed
    <2> QED BY <1>1, <2>4
  <1> QED BY <1>3, <1>4

\* Nothing was pushed into a sink without lines.
LEMMA QuietPush ==
  ASSUME NEW s, Honest(s), NEW m, Listed(m), Quiet(Push(s, m))
  PROVE  Quiet(s) /\ m = <<>>
  <1> DEFINE t == Push(s, m)
  <1>1. /\ Honest(t) /\ ToSet(s.kept) \subseteq ToSet(t.kept)
        /\ Whole(t) => Whole(s) /\ ToSet(m) \subseteq ToSet(t.kept)
    BY PushFacts
  <1>2. Quiet(t)
    OBVIOUS
  <1> HIDE DEF t
  <1>3. Whole(t) /\ t.kept = <<>>
    BY <1>1, <1>2, QuietFacts
  <1>4. ToSet(s.kept) = {} /\ ToSet(m) = {} /\ Whole(s)
    BY <1>1, <1>3, EmptyHolds
  <1>5. Listed(s.kept)
    BY DEF Honest
  <1> QED BY <1>4, <1>5, NoneListed, QuietFacts

\* No message of a row that was asked for, and none was left out.
LEMMA QuietAsking ==
  ASSUME NEW s, Honest(s), NEW rows, Listed(rows), \A i \in 1..Len(rows) : Listed(rows[i]),
         Quiet(Asking(s, rows))
  PROVE  Quiet(s) /\ \A i \in 1..Len(rows) : rows[i] = <<>>
  <1> DEFINE t == Asking(s, rows)
  <1>1. /\ Honest(t) /\ ToSet(s.kept) \subseteq ToSet(t.kept)
        /\ Whole(t) => Whole(s) /\ \A i \in 1..Len(rows) : ToSet(rows[i]) \subseteq ToSet(t.kept)
    BY AskingFacts
  <1>2. Quiet(t)
    OBVIOUS
  <1> HIDE DEF t
  <1>3. Whole(t) /\ t.kept = <<>>
    BY <1>1, <1>2, QuietFacts
  <1>4. ToSet(s.kept) = {} /\ Whole(s) /\ \A i \in 1..Len(rows) : ToSet(rows[i]) = {}
    BY <1>1, <1>3, EmptyHolds
  <1>5. Listed(s.kept)
    BY DEF Honest
  <1> QED BY <1>4, <1>5, NoneListed, QuietFacts

\* One message is a line.
LEMMA OneIsALine ==
  ASSUME NEW s, Honest(s), NEW x
  PROVE  ~ Quiet(Push(s, <<x>>))
  <1>1. Listed(<<x>>) /\ <<x>> # <<>>
    BY OneListed, EmptyHolds
  <1> QED BY <1>1, QuietPush

-----------------------------------------------------------------------------
(* The imports, row by row.                                                *)

\* What the fatal check reads of the import descriptors.
NamesAt == Offset(Dir("imports").rva, 20)
NameRows == HeldAt(image.imports, NamesAt)
NameIsRead(k) == Offset(NameRows[k].name, 1) # None /\ Offset(NameRows[k].name, 1) \in image.text

NamesSeen(n) == \A k \in 1..n - 1 : k \in DOMAIN NameRows /\ NameRows[k].name # 0 /\ NameIsRead(k)

NamesChecked ==
  Dir("imports").rva # 0 =>
    /\ NamesAt # None
    /\ \A k \in DOMAIN NameRows :
         k <= MaxDescriptors /\ (\A j \in 1..k : NameRows[j].name # 0) => NameIsRead(k)

\* What the walker does.
ImportRows == HeldAt(image.imports, FileRange(Dir("imports").rva, 20))

Ends(rva) ==
  \E n \in 1..Len(Words(rva)) :
    /\ Words(rva)[n] = 0
    /\ \A k \in 1..n - 1 : IsOrdinal(Words(rva)[k]) \/ BadString(Words(rva)[k], 2, "") = <<>>

RowWalks(k) ==
  LET d == ImportRows[k] IN
  d.name # 0 /\ (Backed(d.name, 1) /\ d.original # 0 => Ends(d.original))

RowsWalk ==
  Dir("imports").rva # 0 /\ Backed(Dir("imports").rva, 20) =>
    \E n \in DOMAIN ImportRows :
      n <= MaxDescriptors /\ ImportRows[n].name = 0 /\ \A k \in 1..n - 1 : RowWalks(k)

\* The image that is asked about stays the same.
LEMMA SamePe ==
  ASSUME image' = image
  PROVE  /\ NamesChecked' = NamesChecked /\ \A n : NamesSeen(n)' = NamesSeen(n)
         /\ \A k : RowWalks(k)' = RowWalks(k)
         /\ RowsWalk' = RowsWalk /\ RelocationsWalk' = RelocationsWalk /\ Managed' = Managed
  <1>1. \A rva, size : Offset(rva, size)' = Offset(rva, size)
    <2> TAKE rva, size
    <2> QED BY DEF Offset, InSection
  <1>2. NamesAt' = NamesAt
    BY <1>1, SameLookups DEF NamesAt
  <1>3. NameRows' = NameRows
    BY <1>2 DEF NameRows, HeldAt
  <1>4. \A k : NameIsRead(k)' = NameIsRead(k)
    <2> TAKE k
    <2>1. Offset(NameRows[k].name, 1)' = Offset(NameRows[k].name, 1)
      <3> DEFINE rva == NameRows[k].name
      <3>1. rva' = rva
        BY <1>3
      <3> HIDE DEF rva
      <3>2. Offset(rva, 1)' = Offset(rva, 1)
        BY <3>1 DEF Offset, InSection
      <3> QED BY <3>2 DEF rva
    <2> QED BY <2>1 DEF NameIsRead
  <1>5. \A n : NamesSeen(n)' = NamesSeen(n)
    BY <1>3, <1>4 DEF NamesSeen
  <1>6. NamesChecked' = NamesChecked
    BY <1>2, <1>3, <1>4, SameLookups DEF NamesChecked
  <1>7. ImportRows' = ImportRows
    <2> DEFINE at == FileRange(Dir("imports").rva, 20)
    <2>1. at' = at
      BY SameLookups DEF FileRange, Backs, Dir
    <2> HIDE DEF at
    <2> QED BY <2>1 DEF ImportRows, HeldAt, at
  <1>8. ASSUME NEW k
        PROVE  RowWalks(k)' = RowWalks(k)
    <2> DEFINE d == ImportRows[k]
    <2>1. d' = d
      BY <1>7
    <2> HIDE DEF d
    <2>2. Backed(d.name, 1)' = Backed(d.name, 1)
      BY <2>1 DEF Backed, FileRange, Backs
    <2>3. Ends(d.original)' = Ends(d.original)
      <3> DEFINE rva == d.original
                 words == Words(rva)
      <3>1. rva' = rva
        BY <2>1
      <3> HIDE DEF rva
      <3>2. FileRange(rva, Pointer)' = FileRange(rva, Pointer)
        BY <3>1 DEF FileRange, Backs, Pointer
      <3>3. words' = words
        BY <3>2 DEF Words, HeldAt
      <3> DEFINE bad(i) == BadString(words[i], 2, "") = <<>>
      <3>4. ASSUME NEW i
            PROVE  bad(i)' = bad(i)
        <4> DEFINE word == words[i]
                   at == FileRange(word, Larger(2, 1))
        <4>1. word' = word
          BY <3>3
        <4> HIDE DEF word
        <4>2. at' = at
          BY <4>1 DEF FileRange, Backs
        <4> HIDE DEF at
        <4>3. BadString(word, 2, "")' = BadString(word, 2, "")
          BY <4>2 DEF BadString, Backed, at
        <4> QED BY <4>3 DEF word
      <3>5. Ends(rva) <=> \E n \in 1..Len(words) :
                            /\ words[n] = 0
                            /\ \A i \in 1..n - 1 : IsOrdinal(words[i]) \/ bad(i)
        BY DEF Ends
      <3>6. Ends(rva)' <=> \E n \in 1..Len(words') :
                             /\ words'[n] = 0
                             /\ \A i \in 1..n - 1 : IsOrdinal(words'[i]) \/ bad(i)'
        BY DEF Ends, IsOrdinal
      <3> HIDE DEF words, bad
      <3>7. Ends(rva)' = Ends(rva)
        BY <3>3, <3>4, <3>5, <3>6 DEF Ends
      <3> QED BY <3>7 DEF rva
    <2> QED BY <2>1, <2>2, <2>3 DEF RowWalks, d
  <1>9. RowsWalk' = RowsWalk
    BY <1>7, <1>8, SameLookups DEF RowsWalk
  <1>10. RelocationsWalk' = RelocationsWalk
    BY SameLookups, SameWalks DEF RelocationsWalk
  <1>11. Managed' = Managed
    BY SameLookups DEF Managed
  <1> QED BY <1>5, <1>6, <1>8, <1>9, <1>10, <1>11

\* What is said of a string tells nothing of whether it can be read.
LEMMA StringIsBad ==
  ASSUME NEW rva, NEW hint, NEW what
  PROVE  BadString(rva, hint, what) = <<>> <=> BadString(rva, hint, "") = <<>>
  <1> DEFINE at == FileRange(rva, Larger(hint, 1)) + hint
             backed == Backed(rva, Larger(hint, 1))
  <1>1. \A w : BadString(rva, hint, w) = IF ~ backed THEN <<<<w, "unmapped">>>>
                                         ELSE IF at \notin image.text THEN <<<<w, "unreadable">>>> ELSE <<>>
    BY DEF BadString
  <1> HIDE DEF at, backed
  <1>2. \A x : <<x>> # <<>>
    BY OneListed, EmptyHolds
  <1> QED BY <1>1, <1>2

\* A null after the words before it.
LEMMA TerminatedFacts ==
  ASSUME Pe, NEW rva, NEW max \in Nat, Terminated(rva, max)
  PROVE  Upto(rva, max) + 1 \in 1..Len(Words(rva)) /\ Words(rva)[Upto(rva, max) + 1] = 0
  <1> DEFINE len == Len(Words(rva))
             slots == Smaller(len, max)
             S == {k \in 0..slots : k = slots \/ Words(rva)[k + 1] = 0}
             m == Upto(rva, max)
  <1>1. len \in Nat
    BY UptoFacts
  <1> HIDE DEF len
  <1>2. slots \in Nat /\ slots <= len
    BY <1>1 DEF Smaller
  <1>3. m = Least(S) /\ m < slots
    BY DEF Upto, Terminated, len
  <1> HIDE DEF slots, m
  <1>4. slots \in S /\ S \subseteq Nat
    BY <1>2
  <1>5. Least(S) \in S
    <2> HIDE DEF S
    <2> QED BY <1>4, LeastIs
  <1>6. m \in 0..slots /\ (m = slots \/ Words(rva)[m + 1] = 0)
    BY <1>3, <1>5
  <1> HIDE DEF S
  <1>7. m + 1 \in 1..len /\ m # slots
    BY <1>1, <1>2, <1>3, <1>6
  <1> QED BY <1>6, <1>7 DEF len, m

\* A walk of thunks without a line ends at a null, and every name before it can be read.
LEMMA QuietThunks ==
  ASSUME Pe, NEW s, Honest(s), NEW rva, NEW label, NEW checkNames \in BOOLEAN,
         Quiet(WalkThunks(s, rva, label, checkNames))
  PROVE  Quiet(s) /\ (checkNames => Ends(rva))
  <1> DEFINE n == Upto(rva, MaxThunks)
             rows == [k \in 1..n |-> BadThunk(rva, k, label)]
             walked == IF checkNames THEN Asking(s, rows) ELSE s
             why == IF Len(Words(rva)) >= MaxThunks THEN "too long" ELSE "runs off the file"
             ended == Terminated(rva, MaxThunks)
  <1>1. n \in Nat /\ (ended => n + 1 \in 1..Len(Words(rva)) /\ Words(rva)[n + 1] = 0)
    BY UptoFacts, TerminatedFacts, WalkAssumption
  <1>2. WalkThunks(s, rva, label, checkNames) = IF ended THEN walked ELSE Push(walked, <<<<label, why>>>>)
    BY DEF WalkThunks
  <1> HIDE DEF n, why, ended
  <1>3. Listed(rows) /\ Len(rows) = n /\ \A k \in 1..n : rows[k] = BadThunk(rva, k, label)
    <2>1. DOMAIN rows = 1..n /\ rows = [k \in 1..n |-> rows[k]] /\ \A k \in 1..n : rows[k] = BadThunk(rva, k, label)
      OBVIOUS
    <2> HIDE DEF rows
    <2> QED BY <1>1, <2>1, Counted
  <1> HIDE DEF rows
  <1>4. \A k \in 1..Len(rows) : Listed(rows[k])
    BY <1>3, MessagesListed
  <1>5. Honest(Asking(s, rows))
    BY <1>3, <1>4, AskingFacts
  <1>6. Honest(walked)
    BY <1>5
  <1>7. ended /\ Quiet(walked)
    <2> HIDE DEF walked
    <2>1. ~ Quiet(Push(walked, <<<<label, why>>>>))
      BY <1>6, OneIsALine
    <2> QED BY <1>2, <2>1
  <1>8. CASE ~ checkNames
    BY <1>7, <1>8
  <1>9. CASE checkNames
    <2>1. Quiet(Asking(s, rows))
      BY <1>7, <1>9
    <2>2. Quiet(s) /\ \A k \in 1..n : BadThunk(rva, k, label) = <<>>
      BY <1>3, <1>4, <2>1, QuietAsking
    <2>3. ASSUME NEW k \in 1..n
          PROVE  IsOrdinal(Words(rva)[k]) \/ BadString(Words(rva)[k], 2, "") = <<>>
      <3>1. BadThunk(rva, k, label) = <<>>
        BY <2>2
      <3> QED BY <3>1, StringIsBad DEF BadThunk
    <2> DEFINE m == n + 1
    <2>4. m \in 1..Len(Words(rva)) /\ Words(rva)[m] = 0 /\ m - 1 = n
      BY <1>1, <1>7
    <2> HIDE DEF m
    <2>5. Ends(rva)
      BY <2>3, <2>4 DEF Ends
    <2> QED BY <2>2, <2>5
  <1> QED BY <1>8, <1>9

\* So does one descriptor, when its name is in the file.
LEMMA QuietDescriptor ==
  ASSUME Pe, NEW s, Honest(s), NEW d, NEW i, Quiet(ImportDescriptor(s, d, i))
  PROVE  Quiet(s) /\ (Backed(d.name, 1) /\ d.original # 0 => Ends(d.original))
  <1> DEFINE checked == d.original # 0
             lookup == IF checked THEN d.original ELSE d.first
             named == WalkThunks(s, lookup, <<"lookup table", i>>, checked)
             backed == Backed(d.name, 1)
  <1>1. Honest(named)
    BY ThunksAreHonest
  <1>2. Quiet(named) => Quiet(s) /\ (checked => Ends(lookup))
    <2>1. checked \in BOOLEAN
      OBVIOUS
    <2> HIDE DEF checked, lookup
    <2> QED BY <2>1, QuietThunks
  <1>3. \/ ~ backed /\ ImportDescriptor(s, d, i) = s
        \/ ImportDescriptor(s, d, i) \in
             {Push(s, <<<<"no table", i>>>>), Push(s, <<<<"lookup table unmapped", i>>>>),
              Push(named, <<<<"tables differ", i>>>>), named}
    BY DEF ImportDescriptor
  <1> HIDE DEF named, backed
  <1>4. ~ Quiet(Push(s, <<<<"no table", i>>>>)) /\ ~ Quiet(Push(s, <<<<"lookup table unmapped", i>>>>))
        /\ ~ Quiet(Push(named, <<<<"tables differ", i>>>>))
    BY <1>1, OneIsALine
  <1>5. (~ backed /\ Quiet(s)) \/ Quiet(named)
    BY <1>3, <1>4
  <1>6. CASE ~ backed /\ Quiet(s)
    BY <1>6 DEF backed
  <1>7. CASE Quiet(named)
    <2> HIDE DEF lookup
    <2>1. Quiet(s) /\ (checked => Ends(lookup))
      BY <1>2, <1>7
    <2>2. checked => lookup = d.original
      BY DEF lookup
    <2> QED BY <2>1, <2>2
  <1> QED BY <1>5, <1>6, <1>7

\* A block without defects patches nothing beyond the image.
LEMMA GoodBlock ==
  ASSUME Pe, NEW j \in DOMAIN image.blocks, BlockDefects(j) = {}, NEW e \in ToSet(image.blocks[j].entries), e.kind # 0
  PROVE  e.kind <= 10 /\ image.blocks[j].page + e.offset < image.size
  <1> DEFINE b == image.blocks[j]
  <1>1. b \in Blocks
    <2>1. image.blocks \in Seq(Blocks)
      BY BlockFacts
    <2> QED BY <2>1
  <1>2. image.size \in Nat
    BY ImageAssumption DEF Pe, PeRead
  <1> HIDE DEF b
  <1>3. b.page \in Nat /\ b.entries \in Seq([kind : Nat, offset : Nat])
    BY <1>1 DEF Blocks
  <1>4. PICK k \in DOMAIN b.entries : b.entries[k] = e
    BY DEF ToSet, b
  <1>5. e.kind \in Nat /\ e.offset \in Nat
    <2> DEFINE list == b.entries
               E == [kind : Nat, offset : Nat]
    <2>1. list \in Seq(E) /\ k \in DOMAIN list /\ list[k] = e
      BY <1>3, <1>4
    <2> HIDE DEF list, E
    <2>2. e \in E
      BY <2>1
    <2> QED BY <2>2 DEF E
  <1>6. ToSet(BadEntry(b, j, k)) = {} /\ Listed(BadEntry(b, j, k))
    BY <1>4, MessagesListed DEF BlockDefects, b
  <1>7. BadEntry(b, j, k) = <<>>
    BY <1>6, NoneListed
  <1>8. \A x : <<x>> # <<>>
    BY OneListed, EmptyHolds
  <1> DEFINE high == e.kind > 10
             past == b.page + e.offset >= image.size
  <1>9. BadEntry(b, j, k) = IF high THEN <<<<"entry", j, k, "kind">>>>
                            ELSE IF past THEN <<<<"entry", j, k, "beyond the image">>>> ELSE <<>>
    BY <1>4 DEF BadEntry
  <1>10. ~ high /\ ~ past
    <2> HIDE DEF high, past
    <2> QED BY <1>7, <1>8, <1>9
  <1>11. e.kind <= 10 /\ b.page + e.offset < image.size
    BY <1>2, <1>3, <1>5, <1>10
  <1> QED BY <1>11 DEF b

\* A walk of relocations goes on, or ends: and without a line it has filled the directory.
LEMMA RelocationsWalked ==
  ASSUME Telling, Relocations
  PROVE  \/ \E s : Continue(s)
         \/ \E s : Finish(s, "exceptions") /\ (Quiet(s) => RelocationsWalk)
  <1> DEFINE dir == Dir("relocations")
             size == Dir("relocations").size
             at == BlocksBefore(row)
             n == Len(image.blocks)
             block == image.blocks[row]
             walked == Asking(Push(sink, BadBlock(block)),
                              [k \in DOMAIN block.entries |-> BadEntry(block, row, k)])
             next == "exceptions"
  <1>1. table = "relocations" /\ Honest(sink) /\ Pe /\ row \in Nat \ {0}
    BY DEF Relocations, Telling, PeWalks, PeTables, Pe
  <1>2. \/ \E s : Continue(s)
        \/ dir.rva = 0 /\ Finish(sink, next)
        \/ \E what \in {<<table, "empty">>, <<table, "unmapped">>, <<"block", row, "does not fit">>,
                        <<table, "trailing bytes">>} : Finish(Push(sink, <<what>>), next)
        \/ at + 8 <= size /\ BlockFits(block, at, size) /\ Finish(Push(walked, <<<<table, "too many">>>>), next)
        \/ at = size /\ Finish(sink, next)
    BY DEF Relocations
  <1>3. /\ n \in Nat /\ DOMAIN image.blocks = 1..n /\ size \in Nat /\ BlocksBefore(1) = 0
        /\ \A k \in 1..n + 1 : BlocksBefore(k) \in Nat
        /\ (\A k \in 1..n : BlockFits(image.blocks[k], BlocksBefore(k), size)) => BlocksBefore(n + 1) + 8 > size
    BY <1>1, BlockFacts
  <1>4. \A j \in 1..row - 1 :
          /\ j \in 1..n /\ BlockFits(image.blocks[j], BlocksBefore(j), size)
          /\ Whole(sink) => BlockDefects(j) \subseteq ToSet(sink.kept)
    BY <1>1, <1>3 DEF Telling, BlocksSeen
  <1>5. row \in 1..n + 1
    <2>1. CASE row = 1
      BY <1>3, <2>1
    <2>2. CASE row # 1
      <3>1. row - 1 \in 1..row - 1
        BY <1>1, <2>2
      <3>2. row - 1 \in 1..n
        BY <1>4, <3>1
      <3> QED BY <1>1, <1>3, <3>2
    <2> QED BY <2>1, <2>2
  <1> HIDE DEF n, walked, next
  <1>6. CASE dir.rva = 0 /\ Finish(sink, next)
    <2>1. RelocationsWalk
      BY <1>6 DEF RelocationsWalk
    <2> QED BY <1>6, <2>1 DEF next
  <1>7. ASSUME NEW what, Finish(Push(sink, <<what>>), next)
        PROVE  \E s : Finish(s, next) /\ (Quiet(s) => RelocationsWalk)
    <2>1. ~ Quiet(Push(sink, <<what>>))
      BY <1>1, OneIsALine
    <2> QED BY <1>7, <2>1
  <1>8. CASE at + 8 <= size /\ BlockFits(block, at, size) /\ Finish(Push(walked, <<<<table, "too many">>>>), next)
    <2>1. row \in 1..n
      <3> SUFFICES ASSUME row \notin 1..n PROVE FALSE
        OBVIOUS
      <3>1. row = n + 1 /\ row - 1 = n
        BY <1>1, <1>3, <1>5
      <3>2. \A k \in 1..n : BlockFits(image.blocks[k], BlocksBefore(k), size)
        BY <1>4, <3>1
      <3>3. at + 8 > size /\ at \in Nat
        BY <1>3, <1>5, <3>1, <3>2
      <3>4. at + 8 <= size
        BY <1>8
      <3> HIDE DEF at, size
      <3> QED BY <1>3, <3>3, <3>4
    <2>2. Honest(walked)
      <3> DEFINE pushed == Push(sink, BadBlock(block))
                 rows == [k \in DOMAIN block.entries |-> BadEntry(block, row, k)]
                 m == Len(block.entries)
      <3>1. Honest(pushed)
        BY <1>1, MessagesListed, PushFacts
      <3>2. m \in Nat /\ DOMAIN block.entries = 1..m
        <4>1. image.blocks \in Seq(Blocks)
          BY <1>1, BlockFacts
        <4>2. block \in Blocks
          BY <1>3, <2>1, <4>1 
        <4> HIDE DEF block
        <4>3. block.entries \in Seq([kind : Nat, offset : Nat])
          BY <4>2 DEF Blocks
        <4> QED BY <4>3
      <3> HIDE DEF m
      <3>3. Listed(rows) /\ Len(rows) = m /\ \A k \in 1..m : rows[k] = BadEntry(block, row, k)
        <4>1. DOMAIN rows = 1..m /\ rows = [k \in 1..m |-> rows[k]] /\ \A k \in 1..m : rows[k] = BadEntry(block, row, k)
          BY <3>2
        <4> HIDE DEF rows
        <4> QED BY <3>2, <4>1, Counted
      <3>4. walked = Asking(pushed, rows)
        BY DEF walked
      <3> HIDE DEF rows, pushed
      <3>5. \A k \in 1..Len(rows) : Listed(rows[k])
        BY <3>3, MessagesListed
      <3> QED BY <3>1, <3>3, <3>4, <3>5, AskingFacts
    <2>3. ~ Quiet(Push(walked, <<<<table, "too many">>>>))
      BY <2>2, OneIsALine
    <2>4. Finish(Push(walked, <<<<table, "too many">>>>), next)
      BY <1>8
    <2> QED BY <2>3, <2>4 DEF next
  <1>9. CASE at = size /\ Finish(sink, next)
    <2>1. ASSUME Quiet(sink)
          PROVE  RelocationsWalk
      <3>1. Whole(sink) /\ sink.kept = <<>>
        BY <1>1, <2>1, QuietFacts
      <3>2. \A j \in 1..row - 1 : BlockDefects(j) = {}
        BY <1>4, <3>1, EmptyHolds
      <3>3. \A j \in 1..row - 1 : \A e \in ToSet(image.blocks[j].entries) :
              e.kind # 0 => e.kind <= 10 /\ image.blocks[j].page + e.offset < image.size
        BY <1>1, <1>3, <1>4, <3>2, GoodBlock
      <3>4. row \in 1..Len(image.blocks) + 1 /\ BlocksBefore(row) = Dir("relocations").size
        BY <1>5, <1>9 DEF n
      <3> QED BY <3>3, <3>4 DEF RelocationsWalk
    <2> QED BY <1>9, <2>1 DEF next
  <1>10. CASE \E what \in {<<table, "empty">>, <<table, "unmapped">>, <<"block", row, "does not fit">>,
                           <<table, "trailing bytes">>} : Finish(Push(sink, <<what>>), next)
    BY <1>7, <1>10 DEF next
  <1> QED BY <1>2, <1>6, <1>8, <1>9, <1>10

\* A walk of import descriptors: without a line, each of them walks, up to the null one.
LEMMA ImportsWalked ==
  ASSUME Telling, Imports, Quiet(sink) => \A k \in 1..row - 1 : RowWalks(k)
  PROVE  \/ \E s : Continue(s) /\ (Quiet(s) => \A k \in 1..row : RowWalks(k))
         \/ \E s : Finish(s, "delay imports") /\ (Quiet(s) => RowsWalk)
  <1> DEFINE present == Dir("imports").rva # 0 /\ Backed(Dir("imports").rva, 20)
             past == <<<<table, "runs off the file">>>>
             last(d) == d.name = 0
             more == present /\ DescriptorsLeft(ImportRows, MaxDescriptors, last)
             d == ImportRows[row]
             next == "delay imports"
             end == DescriptorsEnd(ImportRows, MaxDescriptors, past)
  <1>1. table = "imports" /\ Honest(sink) /\ Pe /\ row \in Nat \ {0}
    BY DEF Imports, Telling, PeWalks, PeTables, Pe
  <1>2. \/ ~ present /\ Finish(sink, next)
        \/ more /\ Continue(ImportDescriptor(sink, d, row))
        \/ present /\ ~ more /\ Finish(end, next)
    BY DEF Imports, ImportRows
  <1>3. CASE ~ present /\ Finish(sink, next)
    <2>1. RowsWalk
      BY <1>3 DEF RowsWalk
    <2> QED BY <1>3, <2>1
  <1>4. CASE more /\ Continue(ImportDescriptor(sink, d, row))
    <2>1. d.name # 0
      BY <1>4 DEF DescriptorsLeft
    <2> DEFINE s == ImportDescriptor(sink, d, row)
    <2>2. ASSUME Quiet(s)
          PROVE  \A k \in 1..row : RowWalks(k)
      <3>1. Quiet(sink) /\ (Backed(d.name, 1) /\ d.original # 0 => Ends(d.original))
        BY <1>1, <2>2, QuietDescriptor
      <3>2. RowWalks(row)
        BY <2>1, <3>1 DEF RowWalks
      <3>3. \A k \in 1..row : k = row \/ k \in 1..row - 1
        BY <1>1
      <3> QED BY <3>1, <3>2, <3>3
    <2>3. Continue(s)
      BY <1>4
    <2> HIDE DEF s
    <2> QED BY <2>2, <2>3
  <1>5. CASE present /\ ~ more /\ Finish(end, next)
    <2>1. ASSUME Quiet(end)
          PROVE  RowsWalk
      <3>1. ~ Quiet(Push(sink, past)) /\ ~ Quiet(Push(sink, <<<<table, "too many">>>>))
        BY <1>1, OneIsALine
      <3>2. end = sink /\ ~ (row > MaxDescriptors) /\ ~ (row > Len(ImportRows))
        <4> DEFINE many == row > MaxDescriptors
                   off == row > Len(ImportRows)
        <4>1. end = IF many THEN Push(sink, <<<<table, "too many">>>>)
                    ELSE IF off THEN Push(sink, past) ELSE sink
          BY DEF DescriptorsEnd
        <4>2. Quiet(end)
          BY <2>1
        <4> HIDE DEF many, off, end, past
        <4>3. ~ many /\ ~ off /\ end = sink
          BY <3>1, <4>1, <4>2
        <4> QED BY <4>3 DEF many, off
      <3>3. Listed(ImportRows)
        BY <1>1, EmptyHolds, ImageAssumption DEF ImportRows, HeldAt, Pe, PeRead
      <3>4. Len(ImportRows) \in Nat /\ DOMAIN ImportRows = 1..Len(ImportRows)
        BY <3>3, ListFacts
      <3>5. row <= MaxDescriptors /\ row \in DOMAIN ImportRows
        <4> HIDE DEF end, past, d
        <4>1. row \in Nat /\ MaxDescriptors \in Nat /\ ~ (row > MaxDescriptors) /\ ~ (row > Len(ImportRows)) /\ row # 0
          BY <1>1, <3>2, WalkAssumption
        <4> QED BY <3>4, <4>1
      <3>6. d.name = 0
        <4>1. row <= Len(ImportRows)
          BY <3>4, <3>5
        <4> QED BY <1>5, <3>5, <4>1 DEF DescriptorsLeft
      <3>7. \A k \in 1..row - 1 : RowWalks(k)
        BY <2>1, <3>2
      <3> QED BY <3>5, <3>6, <3>7 DEF RowsWalk
    <2> HIDE DEF end
    <2> QED BY <1>5, <2>1
  <1> QED BY <1>2, <1>3, <1>4, <1>5

-----------------------------------------------------------------------------
(* What a check without an issue has gone through.                         *)

AfterRelocations == {"exceptions", "load config", "done", "end"}
AfterImports == {"delay imports", "bound imports", "addresses", "tls", "relocations"} \cup AfterRelocations
AfterNames == {"imports"} \cup AfterImports

\* What the silence of a reported table says.
Walks(told) ==
  Quiet(told.sink) =>
    /\ told.table = "imports" => RowsWalk
    /\ told.table = "relocations" => RelocationsWalk

Clean == image.kind = "pe" /\ ~ Managed /\ issues = <<>>

AllQuiet == \A k \in DOMAIN report : Quiet(report[k].sink)

\* Where a clean check stands, and what it has seen on the way.
Passed ==
  /\ table \notin {"runtime", "metadata"}
  /\ table = "names" => NamesSeen(row)
  /\ table \in AfterNames => NamesChecked
  /\ table \in AfterImports => Reported("imports") # {}
  /\ table \in AfterRelocations => Reported("relocations") # {}
  /\ table = "end" => AllQuiet

\* Inductive together with Telling.
Cleaning ==
  /\ Listed(issues)
  /\ \A k \in DOMAIN report : Walks(report[k])
  /\ table = "imports" /\ Quiet(sink) => \A k \in 1..row - 1 : RowWalks(k)
  /\ Clean => Passed

\* The image that is asked about stays the same.
LEMMA WalksStay ==
  ASSUME image' = image, NEW t
  PROVE  Walks(t)' <=> Walks(t)
  BY SamePe DEF Walks, Quiet, Lines

\* One of the checks of the headers is over.
LEMMA NoteCleans ==
  ASSUME Telling, Cleaning, NEW found, NEW next, Note(found, next), Listed(found),
         Clean /\ found = <<>> =>
           /\ next \notin {"runtime", "metadata"}
           /\ next \in AfterNames => NamesChecked
           /\ next \in AfterImports => Reported("imports") # {}
           /\ next \in AfterRelocations => Reported("relocations") # {}
           /\ next = "end" => AllQuiet
  PROVE  Cleaning'
  <1>1. issues' = issues \o found /\ table' = next /\ row' = 1 /\ image' = image /\ sink' = sink /\ report' = report
    BY DEF Note
  <1>2. Listed(issues) /\ Listed(issues \o found)
    BY ConcatList DEF Cleaning
  <1>3. Listed(issues)'
    BY <1>1, <1>2 DEF Listed
  <1>4. \A k \in DOMAIN report' : Walks(report[k])'
    BY <1>1, WalksStay DEF Cleaning
  <1>5. \A k \in 1..row' - 1 : RowWalks(k)'
    BY <1>1
  <1>6. Clean' => Clean /\ found = <<>>
    <2>1. issues' = <<>> => issues = <<>> /\ found = <<>>
      BY <1>1, <1>2, BothEmpty
    <2> QED BY <1>1, <2>1, SamePe DEF Clean
  <1>7. \A name : Reported(name)' = Reported(name)
    BY <1>1 DEF Reported
  <1>8. AllQuiet' = AllQuiet
    BY <1>1 DEF AllQuiet, Quiet, Lines
  <1>9. NamesSeen(row)'
    BY <1>1 DEF NamesSeen
  <1>10. Clean' => Passed'
    BY <1>1, <1>6, <1>7, <1>8, <1>9, SamePe DEF Passed
  <1> QED BY <1>3, <1>4, <1>5, <1>10 DEF Cleaning

\* Which table is walked after which.
Order == {<<"imports", "delay imports">>, <<"delay imports", "bound imports">>, <<"bound imports", "addresses">>,
          <<"addresses", "tls">>, <<"tls", "relocations">>, <<"relocations", "exceptions">>,
          <<"exceptions", "load config">>, <<"load config", "done">>, <<"metadata", "done">>}

\* The walk of a table is over.
LEMMA FinishCleans ==
  ASSUME Telling, Cleaning, NEW s, NEW next, Finish(s, next), issues' = issues, <<table, next>> \in Order,
         Quiet(s) => (table = "imports" => RowsWalk) /\ (table = "relocations" => RelocationsWalk)
  PROVE  Cleaning'
  <1> DEFINE told == [table |-> table, sink |-> s]
  <1>1. report' = Append(report, told) /\ table' = next /\ row' = 1 /\ image' = image
    BY DEF Finish
  <1>2. told.table = table /\ Walks(told)
    BY DEF Walks
  <1> HIDE DEF told
  <1>3. \A k \in DOMAIN report' : Walks(report[k])'
    <2>1. \A k \in DOMAIN report' : Walks(report'[k])
      BY <1>1, <1>2, ReportGrows DEF Cleaning
    <2>2. \A t : Walks(t)' <=> Walks(t)
      BY <1>1, WalksStay
    <2> QED BY <2>1, <2>2
  <1>4. \A name : (Reported(name) # {} \/ table = name) => Reported(name)' # {}
    BY <1>1, <1>2, ReportGrows DEF Reported
  <1>5. Clean' => Clean
    BY <1>1, SamePe DEF Clean
  <1>6. Clean => table # "metadata"
    BY DEF Cleaning, Passed
  <1>7. /\ next \notin {"runtime", "metadata", "names", "end"}
        /\ table # "metadata" =>
             /\ table \in AfterNames /\ next \in AfterImports
             /\ next \in AfterRelocations => table = "relocations" \/ table \in AfterRelocations
             /\ table = "imports" \/ table \in AfterImports
    BY DEF Order, AfterNames, AfterImports, AfterRelocations
  <1>8. Clean' => Passed'
    BY <1>1, <1>4, <1>5, <1>6, <1>7, SamePe DEF Passed, Cleaning
  <1>9. \A k \in 1..row' - 1 : RowWalks(k)'
    BY <1>1
  <1>10. Listed(issues)'
    BY DEF Cleaning, Listed
  <1> QED BY <1>3, <1>8, <1>9, <1>10 DEF Cleaning

\* The walk goes on with the next row.
LEMMA ContinueCleans ==
  ASSUME Telling, Cleaning, NEW s, Continue(s), issues' = issues, table # "names",
         table = "imports" /\ Quiet(s) => \A k \in 1..row : RowWalks(k)
  PROVE  Cleaning'
  <1>1. sink' = s /\ row' = row + 1 /\ image' = image /\ table' = table /\ report' = report
    BY DEF Continue
  <1>2. \A k \in DOMAIN report' : Walks(report[k])'
    BY <1>1, WalksStay DEF Cleaning
  <1>3. table' = "imports" /\ Quiet(sink)' => \A k \in 1..row' - 1 : RowWalks(k)'
    <2>1. row' - 1 = row
      BY <1>1 DEF Telling
    <2>2. Quiet(sink)' = Quiet(s)
      BY <1>1 DEF Quiet, Lines
    <2> QED BY <1>1, <2>1, <2>2, SamePe
  <1>4. Clean' => Clean
    BY <1>1, SamePe DEF Clean
  <1>5. \A name : Reported(name)' = Reported(name)
    BY <1>1 DEF Reported
  <1>6. AllQuiet' = AllQuiet
    BY <1>1 DEF AllQuiet, Quiet, Lines
  <1>7. Clean' => Passed'
    BY <1>1, <1>4, <1>5, <1>6, SamePe DEF Passed, Cleaning
  <1>8. Listed(issues)'
    BY DEF Cleaning, Listed
  <1> QED BY <1>2, <1>3, <1>7, <1>8 DEF Cleaning

\* One issue if something is wrong.
LEMMA WhenListed == \A bad, issue : Listed(When(bad, issue)) /\ (When(bad, issue) = <<>> <=> ~ bad)
  <1> SUFFICES ASSUME NEW bad, NEW issue
               PROVE  Listed(When(bad, issue)) /\ (When(bad, issue) = <<>> <=> ~ bad)
    OBVIOUS
  <1>1. Listed(<<issue>>) /\ <<issue>> # <<>>
    BY OneListed, EmptyHolds
  <1> QED BY <1>1, EmptyHolds DEF When

\* The headers.
LEMMA HeadersClean ==
  ASSUME Telling, Cleaning, Headers
  PROVE  Cleaning'
  <1> DEFINE count == When(image.count = 0 \/ image.count > MaxSections, Fatal("section count"))
             size == When(image.size = 0, Fatal("image size"))
             implausible == count \o size
             late == Append(implausible, Fatal("section table"))
             broken == <<Fatal(image.header)>>
  <1>1. Listed(count) /\ Listed(size)
    BY WhenListed
  <1> HIDE DEF count, size
  <1>2. Listed(implausible)
    BY <1>1, ConcatList
  <1> HIDE DEF implausible
  <1>3. Listed(late) /\ late # <<>>
    <2>1. Listed(late) /\ ToSet(late) = ToSet(implausible) \cup {Fatal("section table")}
      BY <1>2, AppendFacts
    <2> HIDE DEF late
    <2>2. ToSet(late) # {}
      BY <2>1
    <2> QED BY <2>1, <2>2, EmptyHolds
  <1>4. Listed(broken) /\ broken # <<>>
    BY OneListed, EmptyHolds
  <1>5. Note(implausible, "sections") \/ Note(late, "end") \/ Note(broken, "end")
    BY DEF Headers, implausible, count, size
  <1> HIDE DEF late, broken
  <1>6. CASE Note(implausible, "sections")
    <2> DEFINE next == "sections"
    <2>1. next \notin AfterNames \cup AfterImports \cup AfterRelocations \cup {"runtime", "metadata", "end"}
      BY DEF AfterNames, AfterImports, AfterRelocations
    <2>2. Note(implausible, next)
      BY <1>6
    <2> HIDE DEF next
    <2> QED BY <1>2, <2>1, <2>2, NoteCleans
  <1>7. ASSUME NEW found, Listed(found), found # <<>>, Note(found, "end")
        PROVE  Cleaning'
    BY <1>7, NoteCleans
  <1> QED BY <1>3, <1>4, <1>5, <1>6, <1>7

\* The sections.
LEMMA SectionsClean ==
  ASSUME Telling, Cleaning, Sections
  PROVE  Cleaning'
  <1> DEFINE past(s) == s.raw # 0 /\ (s.offset + s.raw) % Word > image.length
             rows == [k \in DOMAIN image.sections |-> When(past(image.sections[k]), Fatal(<<"section", k>>))]
             fixed == When(image.dll /\ ~ Managed /\ Dir("relocations").rva = 0, Warning("no relocations"))
             found == FlattenSeq(rows) \o fixed
             next == "entry"
             n == Len(image.sections)
  <1>1. table = "sections" /\ Note(found, next)
    BY DEF Sections
  <1>2. n \in Nat /\ DOMAIN image.sections = 1..n
    <2>1. image.sections \in Seq(Ranges)
      BY <1>1, ImageAssumption DEF Telling, PeWalks, PeRead
    <2> QED BY <2>1
  <1> HIDE DEF n, past
  <1>3. Listed(rows) /\ Len(rows) = n /\ \A k \in 1..n : Listed(rows[k])
    <2>1. DOMAIN rows = 1..n /\ rows = [k \in 1..n |-> rows[k]] /\ \A k \in 1..n : Listed(rows[k])
      BY <1>2, WhenListed
    <2> HIDE DEF rows
    <2> QED BY <1>2, <2>1, Counted
  <1>4. Listed(fixed)
    BY WhenListed
  <1> HIDE DEF rows, fixed
  <1>5. Listed(FlattenSeq(rows))
    BY <1>3, FlattenFacts
  <1>6. Listed(found)
    BY <1>4, <1>5, ConcatList
  <1>7. next \notin AfterNames \cup AfterImports \cup AfterRelocations \cup {"runtime", "metadata", "end"}
    BY DEF AfterNames, AfterImports, AfterRelocations
  <1> HIDE DEF found, next
  <1> QED BY <1>1, <1>6, <1>7, NoteCleans

\* The issues of the entry point are a list.
LEMMA EntryListed == Listed(EntryDefects)
  <1> DEFINE offset == Offset(image.entry, 16)
             code == IF offset = image.stub.at THEN image.stub.code ELSE "other"
             none == When(~ image.dll, Fatal("no entry"))
             blank == When(code \in {"zeros", "int3"}, Warning("entry not recovered"))
             data == When(~ ExecutableRva(image.entry), Fatal("entry not executable"))
             stub == IF offset = image.stub.at THEN EntryBranches(offset) ELSE <<>>
             call == When(~ ExecutableRva(image.stub.call), Fatal("call target"))
             jump == When(~ ExecutableRva(image.stub.jump), Fatal("jump target"))
             one == <<Fatal("entry unmapped")>>
  <1>1. Listed(none) /\ Listed(blank) /\ Listed(data) /\ Listed(call) /\ Listed(jump) /\ Listed(one) /\ Listed(<<>>)
    BY WhenListed, OneListed, EmptyHolds
  <1>2. EntryBranches(offset) \in {call \o jump, <<>>}
    BY DEF EntryBranches
  <1>3. EntryDefects \in {none, <<>>, one, blank \o data \o stub}
    BY DEF EntryDefects
  <1> HIDE DEF none, blank, data, call, jump, one
  <1>4. Listed(call \o jump)
    BY <1>1, ConcatList
  <1>5. Listed(EntryBranches(offset))
    BY <1>1, <1>2, <1>4
  <1>6. Listed(stub)
    BY <1>1, <1>5
  <1> HIDE DEF stub
  <1>7. Listed(blank \o data)
    BY <1>1, ConcatList
  <1>8. Listed(blank \o data \o stub)
    BY <1>6, <1>7, ConcatList
  <1> QED BY <1>1, <1>3, <1>8

\* The entry point; a check of a native image goes on with the names.
LEMMA EntryCleans ==
  ASSUME Telling, Cleaning, Entry
  PROVE  Cleaning'
  <1> DEFINE next == IF Managed THEN "runtime" ELSE "names"
  <1>1. Note(EntryDefects, next)
    BY DEF Entry
  <1>2. next \in {"runtime", "names"} /\ (~ Managed => next = "names")
    OBVIOUS
  <1> HIDE DEF next
  <1>3. {"runtime", "names"} \cap (AfterNames \cup AfterImports \cup AfterRelocations \cup {"end"}) = {}
    BY DEF AfterNames, AfterImports, AfterRelocations
  <1>4. Clean => next = "names"
    BY <1>2 DEF Clean
  <1> QED BY <1>1, <1>2, <1>3, <1>4, EntryListed, NoteCleans

\* The header of the runtime: the check of a native image never comes here.
LEMMA RuntimeCleans ==
  ASSUME Telling, Cleaning, Runtime
  PROVE  Cleaning'
  <1>1. table = "runtime" /\ Note(RuntimeDefects, "metadata")
    BY DEF Runtime
  <1>2. ~ Clean
    BY <1>1 DEF Cleaning, Passed
  <1>3. Listed(RuntimeDefects)
    <2> DEFINE sign == When(~ image.clr.signed, Fatal("metadata signature"))
    <2>1. \A what : Listed(<<Fatal(what)>>)
      BY OneListed
    <2>2. Listed(sign) /\ Listed(<<>>)
      BY WhenListed, EmptyHolds
    <2>3. RuntimeDefects \in {<<Fatal("runtime header unmapped")>>, <<Fatal("runtime header")>>, <<>>,
                              <<Fatal("metadata unmapped")>>, sign}
      BY DEF RuntimeDefects
    <2> HIDE DEF sign
    <2> QED BY <2>1, <2>2, <2>3
  <1> QED BY <1>1, <1>2, <1>3, NoteCleans

\* The lines of every table become issues: none when every table was quiet.
LEMMA ConcludeCleans ==
  ASSUME Telling, Cleaning, Conclude
  PROVE  Cleaning'
  <1> DEFINE rows == [k \in DOMAIN report |-> Lines(report[k].sink)]
             lines == FlattenSeq(rows)
             found == [k \in DOMAIN lines |-> Advisory(lines[k])]
             n == Len(report)
  <1>1. table = "done" /\ Note(found, "end")
    BY DEF Conclude
  <1>2. n \in Nat /\ DOMAIN report = 1..n
    BY ListFacts DEF Telling
  <1> HIDE DEF n
  <1>3. \A k \in 1..n : Listed(Lines(report[k].sink))
    <2> SUFFICES ASSUME NEW k \in 1..n PROVE Listed(Lines(report[k].sink))
      OBVIOUS
    <2> DEFINE s == report[k].sink
               lost == IF s.dropped # 0 THEN <<<<"suppressed", s.dropped>>>> ELSE <<>>
               blind == IF s.unseen THEN <<<<"not checked">>>> ELSE <<>>
    <2>1. Listed(s.kept) /\ Listed(lost) /\ Listed(blind)
      BY <1>2, OneListed, EmptyHolds DEF Telling, Told, Honest
    <2>2. Lines(s) = s.kept \o lost \o blind
      BY DEF Lines
    <2> HIDE DEF s, lost, blind
    <2>3. Listed(s.kept \o lost)
      BY <2>1, ConcatList
    <2>4. Listed(s.kept \o lost \o blind)
      BY <2>1, <2>3, ConcatList
    <2> QED BY <2>2, <2>4 DEF s
  <1>4. Listed(rows) /\ Len(rows) = n /\ \A k \in 1..n : rows[k] = Lines(report[k].sink)
    <2>1. DOMAIN rows = 1..n /\ rows = [k \in 1..n |-> rows[k]] /\ \A k \in 1..n : rows[k] = Lines(report[k].sink)
      BY <1>2
    <2> HIDE DEF rows
    <2> QED BY <1>2, <2>1, Counted
  <1> HIDE DEF rows
  <1>5. Listed(lines) /\ \A k \in 1..n : ToSet(rows[k]) \subseteq ToSet(lines)
    BY <1>3, <1>4, FlattenFacts
  <1> HIDE DEF lines
  <1>6. Len(lines) \in Nat /\ DOMAIN lines = 1..Len(lines)
    BY <1>5, ListFacts
  <1>7. Listed(found) /\ Len(found) = Len(lines)
    <2>1. DOMAIN found = 1..Len(lines) /\ found = [k \in 1..Len(lines) |-> found[k]]
      BY <1>6
    <2> HIDE DEF found
    <2> QED BY <1>6, <2>1, Counted
  <1> HIDE DEF found
  <1>8. ASSUME found = <<>>
        PROVE  AllQuiet
    <2>1. lines = <<>>
      BY <1>5, <1>7, <1>8, EmptyHolds, NoneListed
    <2>2. \A k \in 1..n : Lines(report[k].sink) = <<>>
      BY <1>3, <1>4, <1>5, <2>1, WithinEmpty
    <2> QED BY <1>2, <2>2 DEF AllQuiet, Quiet
  <1>9. table \in AfterNames /\ table \in AfterImports /\ table \in AfterRelocations
    BY <1>1 DEF AfterNames, AfterImports, AfterRelocations
  <1>10. Clean => NamesChecked /\ Reported("imports") # {} /\ Reported("relocations") # {}
    BY <1>9 DEF Cleaning, Passed
  <1> QED BY <1>1, <1>7, <1>8, <1>10, NoteCleans

\* The names the fatal check asks for stay the same.
LEMMA SameNames ==
  ASSUME image' = image
  PROVE  NameRows' = NameRows /\ \A k : NameIsRead(k)' = NameIsRead(k)
  <1>1. NamesAt' = NamesAt
    BY SameLookups DEF NamesAt, Offset, InSection, Dir
  <1>2. NameRows' = NameRows
    BY <1>1 DEF NameRows, HeldAt
  <1>3. \A k : NameIsRead(k)' = NameIsRead(k)
    <2> TAKE k
    <2> DEFINE rva == NameRows[k].name
    <2>1. rva' = rva
      BY <1>2
    <2> HIDE DEF rva
    <2>2. Offset(rva, 1)' = Offset(rva, 1)
      BY <2>1 DEF Offset, InSection
    <2> QED BY <2>2 DEF NameIsRead, rva
  <1> QED BY <1>2, <1>3

\* The names of the modules, one by one.
LEMMA NamesClean ==
  ASSUME Telling, Cleaning, Names
  PROVE  Cleaning'
  <1> DEFINE dir == Dir("imports").rva
             present == dir # 0 /\ NamesAt # None
             more == present /\ row <= MaxDescriptors /\ row <= Len(NameRows) /\ NameRows[row].name # 0
             at == Offset(NameRows[row].name, 1)
             bad == IF at = None THEN <<Fatal(<<"name unmapped", row>>)>>
                    ELSE When(at \notin image.text, Warning(<<"name unreadable", row>>))
             found == When(dir # 0 /\ NamesAt = None, Fatal("imports unmapped"))
  <1>1. table = "names" /\ Pe /\ row \in Nat \ {0}
    BY DEF Names, Telling, PeWalks, Pe
  <1>2. \/ more /\ issues' = issues \o bad /\ row' = row + 1 /\ UNCHANGED <<image, table, sink, report>>
        \/ ~ more /\ Note(found, "imports")
    BY DEF Names, NameRows, NamesAt
  <1>3. Len(NameRows) \in Nat /\ DOMAIN NameRows = 1..Len(NameRows)
    <2>1. Listed(NameRows)
      BY <1>1, EmptyHolds, ImageAssumption DEF NameRows, HeldAt, Pe, PeRead
    <2> QED BY <2>1, ListFacts
  <1>4. Clean => NamesSeen(row)
    BY <1>1 DEF Cleaning, Passed
  <1>5. CASE more /\ issues' = issues \o bad /\ row' = row + 1 /\ UNCHANGED <<image, table, sink, report>>
    <2>1. Listed(bad) /\ (bad = <<>> => NameIsRead(row))
      <3> DEFINE lost == <<Fatal(<<"name unmapped", row>>)>>
                 odd == When(at \notin image.text, Warning(<<"name unreadable", row>>))
      <3>1. Listed(lost) /\ lost # <<>> /\ Listed(odd) /\ (odd = <<>> <=> at \in image.text)
        BY OneListed, EmptyHolds, WhenListed
      <3>2. bad = IF at = None THEN lost ELSE odd
        OBVIOUS
      <3> HIDE DEF lost, odd, bad
      <3>3. Listed(bad) /\ (bad = <<>> => at # None /\ at \in image.text)
        BY <3>1, <3>2
      <3> QED BY <3>3 DEF NameIsRead
    <2> HIDE DEF bad
    <2>2. Listed(issues) /\ Listed(issues \o bad)
      BY <2>1, ConcatList DEF Cleaning
    <2>3. image' = image /\ table' = table /\ sink' = sink /\ report' = report /\ issues' = issues \o bad /\ row' = row + 1
      BY <1>5
    <2>4. Clean' => Clean /\ bad = <<>>
      <3>1. issues' = <<>> => issues = <<>> /\ bad = <<>>
        BY <2>1, <2>2, <2>3, BothEmpty
      <3> QED BY <2>3, <3>1, SamePe DEF Clean
    <2>5. Clean' => NamesSeen(row')
      <3> SUFFICES ASSUME Clean' PROVE NamesSeen(row')
        OBVIOUS
      <3>1. NamesSeen(row) /\ NameIsRead(row)
        BY <1>4, <2>1, <2>4
      <3>2. row \in DOMAIN NameRows /\ NameRows[row].name # 0
        <4>1. row <= Len(NameRows) /\ NameRows[row].name # 0
          BY <1>5
        <4> QED BY <1>1, <1>3, <4>1
      <3>3. \A k \in 1..row' - 1 : k = row \/ k \in 1..row - 1
        BY <1>1, <2>3
      <3> QED BY <3>1, <3>2, <3>3 DEF NamesSeen
    <2>6. Clean' => NamesSeen(row)'
      <3>1. \A n : NamesSeen(n)' <=> NamesSeen(n)
        BY <2>3, SamePe
      <3> DEFINE m == row'
      <3>2. NamesSeen(row)' <=> NamesSeen(m)
        <4>1. NameRows' = NameRows /\ \A k : NameIsRead(k)' = NameIsRead(k)
          BY <2>3, SameNames
        <4> QED BY <4>1 DEF NamesSeen
      <3> QED BY <2>5, <3>2
    <2>7. table \notin AfterNames \cup AfterImports \cup AfterRelocations \cup {"runtime", "metadata", "end"}
      BY <1>1 DEF AfterNames, AfterImports, AfterRelocations
    <2>8. Clean' => Passed'
      BY <2>3, <2>6, <2>7 DEF Passed
    <2>9. \A k \in DOMAIN report' : Walks(report[k])'
      BY <2>3, WalksStay DEF Cleaning
    <2>10. Listed(issues)'
      BY <2>2, <2>3 DEF Listed
    <2> QED BY <1>1, <2>3, <2>8, <2>9, <2>10 DEF Cleaning
  <1>6. CASE ~ more /\ Note(found, "imports")
    <2>1. Listed(found) /\ (found = <<>> => ~ (dir # 0 /\ NamesAt = None))
      BY WhenListed
    <2> HIDE DEF found
    <2>2. ASSUME Clean, found = <<>>, dir # 0
          PROVE  /\ NamesAt # None
                 /\ \A k \in DOMAIN NameRows :
                      k <= MaxDescriptors /\ (\A j \in 1..k : NameRows[j].name # 0) => NameIsRead(k)
      <3>1. NamesAt # None /\ present
        BY <2>1, <2>2
      <3>2. SUFFICES ASSUME NEW k \in DOMAIN NameRows, k <= MaxDescriptors, \A j \in 1..k : NameRows[j].name # 0
                     PROVE  NameIsRead(k)
        BY <3>1
      <3>3. k \in 1..Len(NameRows)
        BY <1>3
      <3>4. k < row
        <4> SUFFICES ASSUME ~ (k < row) PROVE FALSE
          OBVIOUS
        <4>1. row \in 1..k /\ row <= Len(NameRows)
          BY <1>1, <1>3, <3>3
        <4>2. row <= MaxDescriptors
          BY <1>1, <1>3, <3>2, <3>3, <4>1, WalkAssumption
        <4>3. NameRows[row].name # 0
          BY <3>2, <4>1
        <4> QED BY <1>6, <3>1, <4>1, <4>2, <4>3
      <3>5. k \in 1..row - 1
        BY <1>1, <3>3, <3>4
      <3> QED BY <1>4, <2>2, <3>5 DEF NamesSeen
    <2> DEFINE next == "imports"
    <2>3. next \notin AfterImports \cup AfterRelocations \cup {"runtime", "metadata", "end"}
      BY DEF AfterImports, AfterRelocations
    <2>4. Note(found, next)
      BY <1>6
    <2> HIDE DEF next
    <2>5. Clean /\ found = <<>> => NamesChecked
      BY <2>2 DEF NamesChecked
    <2> QED BY <2>1, <2>3, <2>4, <2>5, NoteCleans
  <1> QED BY <1>2, <1>5, <1>6

\* The tables whose rows are not asked for here.
LEMMA OthersClean ==
  ASSUME Telling, Cleaning, issues' = issues,
         DelayImports \/ BoundImports \/ Addresses \/ Tls \/ Exceptions \/ LoadConfig \/ Metadata
  PROVE  Cleaning'
  <1>1. ASSUME NEW s, NEW next, Finish(s, next), <<table, next>> \in Order, table \notin {"imports", "relocations"}
        PROVE  Cleaning'
    BY <1>1, FinishCleans
  <1>2. ASSUME NEW s, Continue(s), table \in {"delay imports", "bound imports"}
        PROVE  Cleaning'
    BY <1>2, ContinueCleans
  <1>3. CASE DelayImports
    <2>1. table = "delay imports" /\ ((\E s : Continue(s)) \/ \E s : Finish(s, "bound imports"))
      BY <1>3 DEF DelayImports
    <2> QED BY <1>1, <1>2, <2>1 DEF Order
  <1>4. CASE BoundImports
    <2>1. table = "bound imports" /\ ((\E s : Continue(s)) \/ \E s : Finish(s, "addresses"))
      BY <1>4 DEF BoundImports
    <2> QED BY <1>1, <1>2, <2>1 DEF Order
  <1>5. CASE Addresses
    <2>1. table = "addresses" /\ \E s : Finish(s, "tls")
      BY <1>5 DEF Addresses
    <2> QED BY <1>1, <2>1 DEF Order
  <1>6. CASE Tls
    <2>1. table = "tls" /\ \E s : Finish(s, "relocations")
      BY <1>6 DEF Tls
    <2> QED BY <1>1, <2>1 DEF Order
  <1>7. CASE Exceptions
    <2>1. table = "exceptions" /\ \E s : Finish(s, "load config")
      BY <1>7 DEF Exceptions
    <2> QED BY <1>1, <2>1 DEF Order
  <1>8. CASE LoadConfig
    <2>1. table = "load config" /\ \E s : Finish(s, "done")
      BY <1>8 DEF LoadConfig
    <2> QED BY <1>1, <2>1 DEF Order
  <1>9. CASE Metadata
    <2>1. table = "metadata" /\ \E s : Finish(s, "done")
      BY <1>9 DEF Metadata
    <2> QED BY <1>1, <2>1 DEF Order
  <1> QED BY <1>3, <1>4, <1>5, <1>6, <1>7, <1>8, <1>9

\* The imports and the relocations.
LEMMA RowsClean ==
  ASSUME Telling, Cleaning, issues' = issues, Imports \/ Relocations
  PROVE  Cleaning'
  <1>1. CASE Imports
    <2>1. table = "imports"
      BY <1>1 DEF Imports
    <2>2. \/ \E s : Continue(s) /\ (Quiet(s) => \A k \in 1..row : RowWalks(k))
          \/ \E s : Finish(s, "delay imports") /\ (Quiet(s) => RowsWalk)
      BY <1>1, <2>1, ImportsWalked DEF Cleaning
    <2>3. ASSUME NEW s, Continue(s), Quiet(s) => \A k \in 1..row : RowWalks(k)
          PROVE  Cleaning'
      BY <2>1, <2>3, ContinueCleans
    <2>4. ASSUME NEW s, Finish(s, "delay imports"), Quiet(s) => RowsWalk
          PROVE  Cleaning'
      BY <2>1, <2>4, FinishCleans DEF Order
    <2> QED BY <2>2, <2>3, <2>4
  <1>2. CASE Relocations
    <2>1. table = "relocations"
      BY <1>2 DEF Relocations
    <2>2. \/ \E s : Continue(s)
          \/ \E s : Finish(s, "exceptions") /\ (Quiet(s) => RelocationsWalk)
      BY <1>2, RelocationsWalked
    <2>3. ASSUME NEW s, Continue(s)
          PROVE  Cleaning'
      BY <2>1, <2>3, ContinueCleans
    <2>4. ASSUME NEW s, Finish(s, "exceptions"), Quiet(s) => RelocationsWalk
          PROVE  Cleaning'
      BY <2>1, <2>4, FinishCleans DEF Order
    <2> QED BY <2>2, <2>3, <2>4
  <1> QED BY <1>1, <1>2

\* An ELF has no imports and no relocations of this kind.
LEMMA ElfCleans ==
  ASSUME Telling, Cleaning, issues' = issues, Telling', VerifyNext
  PROVE  Cleaning'
  <1>1. PICK s, next : Finish(s, next)
    <2>1. CASE Programs
      BY <2>1 DEF Programs
    <2>2. CASE Segments
      BY <2>2 DEF Segments
    <2>3. CASE DynamicTable
      BY <2>3 DEF DynamicTable
    <2>4. CASE Arrays
      BY <2>4 DEF Arrays
    <2>5. CASE Relas
      BY <2>5 DEF Relas
    <2>6. CASE Hashes
      BY <2>6 DEF Hashes
    <2> QED BY <2>1, <2>2, <2>3, <2>4, <2>5, <2>6 DEF VerifyNext
  <1>2. table \in ElfWalks
    BY DEF VerifyNext, Programs, Segments, DynamicTable, Arrays, Relas, Hashes, ElfWalks
  <1>3. image.kind # "pe" /\ table \notin {"imports", "relocations"}
    BY <1>2 DEF Telling, ElfWalks
  <1> DEFINE told == [table |-> table, sink |-> s]
  <1>4. report' = Append(report, told) /\ image' = image
    BY <1>1 DEF Finish
  <1>5. told.table = table
    OBVIOUS
  <1> HIDE DEF told
  <1>6. Walks(told)
    BY <1>3, <1>5 DEF Walks
  <1>7. \A k \in DOMAIN report' : Walks(report[k])'
    <2>1. \A k \in DOMAIN report' : Walks(report'[k])
      BY <1>4, <1>6, ReportGrows DEF Cleaning
    <2>2. \A t : Walks(t)' <=> Walks(t)
      BY <1>4, WalksStay
    <2> QED BY <2>1, <2>2
  <1>8. ~ Clean'
    BY <1>3, <1>4 DEF Clean
  <1>9. table' # "imports"
    BY <1>3, <1>4 DEF Telling, PeWalks, PeTables
  <1>10. Listed(issues)'
    BY DEF Cleaning, Listed
  <1> QED BY <1>7, <1>8, <1>9, <1>10 DEF Cleaning

\* Nothing is found at the start.
LEMMA CleaningInit == Init => Cleaning
  <1> SUFFICES ASSUME Init PROVE Cleaning
    OBVIOUS
  <1>1. DOMAIN report = {} /\ Listed(issues)
    BY EmptyHolds, ListFacts DEF Init
  <1>2. table \in {"headers", "programs"}
    BY DEF Init
  <1>3. Passed /\ table # "imports"
    BY <1>2 DEF Passed, AfterNames, AfterImports, AfterRelocations
  <1> QED BY <1>1, <1>3 DEF Cleaning

\* Every step keeps it.
LEMMA CleaningStep == Telling /\ Cleaning /\ [Next]_checking => Cleaning'
  <1> SUFFICES ASSUME Telling, Cleaning, [Next]_checking PROVE Cleaning'
    OBVIOUS
  <1>1. CASE Walk
    BY <1>1, OthersClean, RowsClean DEF Walk, WalkDirectories
  <1>2. CASE Headers \/ Sections \/ Entry \/ Names \/ Runtime \/ Conclude
    BY <1>2, HeadersClean, SectionsClean, EntryCleans, NamesClean, RuntimeCleans, ConcludeCleans
  <1>3. CASE VerifyNext /\ UNCHANGED issues
    BY <1>3, TellingStep, ElfCleans
  <1>4. CASE UNCHANGED checking
    <2>1. image' = image /\ table' = table /\ row' = row /\ sink' = sink /\ report' = report /\ issues' = issues
      BY <1>4 DEF checking, walking
    <2>2. \A k \in DOMAIN report' : Walks(report[k])'
      BY <2>1, WalksStay DEF Cleaning
    <2>3. Quiet(sink)' = Quiet(sink) /\ AllQuiet' = AllQuiet
      BY <2>1 DEF Quiet, Lines, AllQuiet
    <2>4. \A name : Reported(name)' = Reported(name)
      BY <2>1 DEF Reported
    <2>5. Clean' = Clean
      BY <2>1, SamePe DEF Clean
    <2>6. NamesSeen(row)' = NamesSeen(row)
      BY <2>1, SameNames DEF NamesSeen
    <2>7. Passed' = Passed
      BY <2>1, <2>3, <2>4, <2>6, SamePe DEF Passed
    <2>8. Listed(issues)' = Listed(issues)
      BY <2>1 DEF Listed
    <2>9. \A k : RowWalks(k)' = RowWalks(k)
      BY <2>1, SamePe
    <2> QED BY <2>1, <2>2, <2>3, <2>5, <2>7, <2>8, <2>9 DEF Cleaning
  <1> QED BY <1>1, <1>2, <1>3, <1>4 DEF Next, IntegrityNext

\* mod.rs 16-17: a check of a native image that ends without an issue means that its
\* imports and its relocations can be walked.
THEOREM CleanReportsWalk == Spec => []CleanReportWalks
  <1>1. Telling /\ Cleaning => CleanReportWalks
    <2> SUFFICES ASSUME Telling, Cleaning, table = "end", issues = <<>>, image.kind = "pe", ~ Managed, NoTails
                 PROVE  ImportsWalk /\ RelocationsWalk
      BY DEF CleanReportWalks
    <2>1. Pe
      BY DEF Telling, Pe
    <2>2. table \in AfterNames /\ table \in AfterImports /\ table \in AfterRelocations
      BY DEF AfterNames, AfterImports, AfterRelocations
    <2>3. NamesChecked /\ Reported("imports") # {} /\ Reported("relocations") # {} /\ AllQuiet
      BY <2>2 DEF Cleaning, Clean, Passed
    <2>4. RowsWalk /\ RelocationsWalk
      BY <2>3 DEF Cleaning, Walks, Reported, AllQuiet
    <2>5. ASSUME Dir("imports").rva # 0
          PROVE  \E n \in 1..Len(ImportRows) :
                   /\ ImportRows[n].name = 0
                   /\ \A k \in 1..n - 1 :
                        /\ BadString(ImportRows[k].name, 0, "") = <<>>
                        /\ ImportRows[k].original # 0 => Ends(ImportRows[k].original)
      <3> DEFINE from == FileRange(Dir("imports").rva, 20)
      <3>1. NamesAt = from /\ NamesAt # None
        BY <2>3, <2>5 DEF NoTails, NamesAt, NamesChecked
      <3>2. NameRows = ImportRows /\ Backed(Dir("imports").rva, 20)
        BY <3>1 DEF NameRows, ImportRows, Backed
      <3>3. Listed(ImportRows)
        BY <2>1, EmptyHolds, ImageAssumption DEF ImportRows, HeldAt, Pe, PeRead
      <3>4. Len(ImportRows) \in Nat /\ DOMAIN ImportRows = 1..Len(ImportRows)
        BY <3>3, ListFacts
      <3>5. PICK n \in DOMAIN ImportRows :
              n <= MaxDescriptors /\ ImportRows[n].name = 0 /\ \A k \in 1..n - 1 : RowWalks(k)
        BY <2>4, <2>5, <3>2 DEF RowsWalk
      <3>6. n \in 1..Len(ImportRows)
        BY <3>4
      <3>7. from \in DOMAIN image.imports /\ image.imports[from] = ImportRows
        <4>1. ImportRows # <<>>
          BY <3>4, <3>6, EmptyHolds
        <4> QED BY <4>1 DEF ImportRows, HeldAt
      <3> HIDE DEF from
      <3>8. ASSUME NEW k \in 1..n - 1
            PROVE  /\ BadString(ImportRows[k].name, 0, "") = <<>>
                   /\ ImportRows[k].original # 0 => Ends(ImportRows[k].original)
        <4> DEFINE d == ImportRows[k]
        <4>1. k \in DOMAIN ImportRows /\ k <= MaxDescriptors /\ \A j \in 1..k : j \in 1..n - 1
          BY <3>4, <3>5, <3>6, WalkAssumption
        <4>2. \A j \in 1..k : ImportRows[j].name # 0
          BY <3>5, <4>1 DEF RowWalks
        <4>3. NameIsRead(k)
          BY <2>3, <2>5, <3>2, <4>1, <4>2 DEF NamesChecked
        <4>4. d.name # 0 /\ d \in ToSet(image.imports[from])
          <5>1. k \in 1..k
            BY <3>6
          <5> QED BY <3>7, <4>1, <4>2, <5>1 DEF ToSet
        <4>5. d.name \in UNION {{r.name : r \in ToSet(image.imports[o])} : o \in DOMAIN image.imports}
          BY <3>7, <4>4
        <4>6. Offset(d.name, 1) = FileRange(d.name, 1)
          BY <4>4, <4>5 DEF NoTails
        <4> DEFINE at == FileRange(d.name, 1)
        <4>7. at # None /\ at \in image.text
          BY <3>2, <4>3, <4>6 DEF NameIsRead
        <4>8. at \in Nat
          BY <2>1, <4>7, ImageAssumption DEF Pe, PeRead
        <4>9. BadString(d.name, 0, "") = <<>>
          <5>1. Larger(0, 1) = 1
            BY DEF Larger
          <5> HIDE DEF d
          <5>2. at + 0 = at
            <6> HIDE DEF at
            <6> QED BY <4>8
          <5> QED BY <4>7, <5>1, <5>2 DEF BadString, Backed
        <4>10. Backed(d.name, 1)
          BY <4>7 DEF Backed
        <4> QED BY <3>5, <4>9, <4>10 DEF RowWalks
      <3> QED BY <3>5, <3>6, <3>8
    <2>6. ImportsWalk
      BY <2>5 DEF ImportsWalk, ImportRows, Ends
    <2> QED BY <2>4, <2>6
  <1>2. Telling /\ Cleaning /\ [Next]_checking => (Telling /\ Cleaning)'
    BY TellingStep, CleaningStep
  <1> QED BY <1>1, <1>2, TellingInit, CleaningInit, PTL DEF Spec

=============================================================================
