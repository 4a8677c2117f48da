---------------------------- MODULE WebApp_proofs ----------------------------
(***************************************************************************)
(* Theorems about the page, for any files, drops, limits and number of     *)
(* loops: no file is run by two loops, no row is left working, a result is *)
(* that of its own file, and a quiet page is current.                      *)
(***************************************************************************)
EXTENDS WebApp, SequenceTheorems, TLAPS

File == [name : Names, size : Nat, kind : Kinds]
States == {"staged", "working", "ok", "err", "blocked"}
Entry == [name : Names, size : Nat, kind : Kinds, state : States, bytes : Nat]
Awaiting == {"input", "companion", "job"}

Types ==
  /\ heap \in Seq(Entry)
  /\ \A n \in Staged : files[n].id \in Ids
  /\ rest \in [Stagers -> Seq(File)]
  /\ pc \in [Loops -> {"idle", "scan"} \cup Awaiting]
  /\ entry \in [Loops -> {0} \cup Ids]

\* These loops work on entries of their own, which are the working ones, and
\* the entries with a result have their own.
Held(H, E) ==
  /\ \A l, k \in Loops : l # k /\ E[l] # 0 => E[l] # E[k]
  /\ \A i \in 1 .. Len(H) : H[i].state = "working" <=> \E l \in Loops : E[l] = i
  /\ \A i \in 1 .. Len(H) : H[i].state = "ok" <=> H[i].bytes = i

(***************************************************************************)
(* The inductive invariant.  The properties hold of the pages between two  *)
(* turns; a loop that scans has no entry yet, and one that awaits has one. *)
(***************************************************************************)
Inv ==
  /\ Types
  /\ Held(heap, entry)
  /\ \A l \in Loops : entry[l] # 0 <=> pc[l] \in Awaiting
  /\ \A l \in Loops : turn = l => pc[l] = "scan"

Current ==
  /\ plan = BlockedIn(files, heap, limit)
  /\ rows = Wanted(files)
  /\ button <=> Unpackable(files, heap)

-----------------------------------------------------------------------------
LEMMA UnblockFacts ==
  ASSUME NEW F, NEW H \in Seq(Entry), NEW B
  PROVE  /\ Unblock(F, H, B) \in Seq(Entry) /\ Len(Unblock(F, H, B)) = Len(H)
         /\ \A i \in 1 .. Len(H) :
              /\ Unblock(F, H, B)[i].size = H[i].size
              /\ Unblock(F, H, B)[i].bytes = H[i].bytes
              /\ \/ Unblock(F, H, B)[i].state = H[i].state
                 \/ H[i].state = "blocked" /\ Unblock(F, H, B)[i].state = "staged"
  <1> DEFINE U == Unblock(F, H, B)
  <1>1. /\ Len(H) \in Nat /\ DOMAIN H = 1 .. Len(H)
        /\ \A i \in 1 .. Len(H) : H[i] \in Entry
    OBVIOUS
  <1>2. ASSUME NEW i \in 1 .. Len(H)
        PROVE  /\ U[i] \in Entry /\ U[i].size = H[i].size /\ U[i].bytes = H[i].bytes
               /\ U[i].state = H[i].state \/ (H[i].state = "blocked" /\ U[i].state = "staged")
    <2>1. U[i] = H[i] \/ (H[i].state = "blocked" /\ U[i] = [H[i] EXCEPT !.state = "staged"])
      BY <1>1 DEF Unblock
    <2>2. H[i] \in Entry
      BY <1>1
    <2> QED BY <2>1, <2>2 DEF Entry, States
  <1>3. U = [i \in 1 .. Len(H) |-> U[i]]
    BY <1>1 DEF Unblock
  <1>4. U \in [1 .. Len(H) -> Entry]
    BY <1>2, <1>3
  <1>5. U \in Seq(Entry) /\ Len(U) = Len(H)
    BY <1>1, <1>4
  <1> QED BY <1>2, <1>5

LEMMA SetFacts ==
  ASSUME NEW H \in Seq(Entry), NEW id \in 1 .. Len(H), NEW state \in States, NEW J,
         J = [H EXCEPT ![id].state = state]
  PROVE  /\ J \in Seq(Entry) /\ Len(J) = Len(H)
         /\ \A i \in 1 .. Len(H) :
              /\ J[i].bytes = H[i].bytes
              /\ J[i].state = IF i = id THEN state ELSE H[i].state
  <1>1. /\ Len(H) \in Nat /\ DOMAIN H = 1 .. Len(H)
        /\ \A i \in 1 .. Len(H) : H[i] \in Entry
    OBVIOUS
  <1>2. [H[id] EXCEPT !.state = state] \in Entry
    BY <1>1 DEF Entry
  <1>3. J \in [1 .. Len(H) -> Entry]
    BY <1>1, <1>2
  <1>4. J \in Seq(Entry) /\ Len(J) = Len(H)
    BY <1>1, <1>3
  <1>5. ASSUME NEW i \in 1 .. Len(H)
        PROVE  J[i].bytes = H[i].bytes /\ J[i].state = IF i = id THEN state ELSE H[i].state
    BY <1>1 DEF Entry
  <1> QED BY <1>4, <1>5

\* After a render the page is current, and only blocked rows have changed.
LEMMA RenderFacts ==
  ASSUME NEW F, NEW H \in Seq(Entry), NEW lim, NEW E, Held(H, E), Render(F, H, lim),
         \A n \in DOMAIN F : F[n].id \in 1 .. Len(H)
  PROVE  /\ heap' \in Seq(Entry) /\ Len(heap') = Len(H)
         /\ files' = F /\ broken' = FALSE
         /\ Held(heap', E) /\ Current'
  <1>1. /\ heap' = Unblock(F, H, BlockedIn(F, H, lim))
        /\ files' = F /\ limit' = lim /\ plan' = BlockedIn(F, H, lim)
        /\ button' = Unpackable(F, heap') /\ rows' = Wanted(F) /\ broken' = FALSE
    BY DEF Render
  <1>2. /\ heap' \in Seq(Entry) /\ Len(heap') = Len(H)
        /\ \A i \in 1 .. Len(H) :
             /\ heap'[i].size = H[i].size
             /\ heap'[i].bytes = H[i].bytes
             /\ \/ heap'[i].state = H[i].state
                \/ H[i].state = "blocked" /\ heap'[i].state = "staged"
    BY <1>1, UnblockFacts
  <1>3. Held(heap', E)
    BY <1>2 DEF Held
  <1>4. BlockedIn(F, heap', lim) = BlockedIn(F, H, lim)
    <2>1. \A n : SizeOf(F, heap', n) = SizeOf(F, H, n)
      BY <1>2 DEF SizeOf
    <2> QED BY <2>1 DEF BlockedIn, UnitSize
  <1> QED BY <1>1, <1>2, <1>3, <1>4 DEF Current

\* A reply, or an await that throws: the entry is the loop's own no more.
LEMMA SettleFacts ==
  ASSUME NEW l \in Loops, Inv, entry[l] # 0, NEW H \in Seq(Entry), Len(H) = Len(heap),
         \A i \in Ids : i # entry[l] => H[i] = heap[i],
         H[entry[l]].state # "working",
         H[entry[l]].state = "ok" <=> H[entry[l]].bytes = entry[l],
         Settle(l, H)
  PROVE  Inv' /\ turn' = l
  <1>1. Held(H, [entry EXCEPT ![l] = 0])
    <2>1. entry \in [Loops -> {0} \cup Ids] /\ Held(heap, entry) /\ Len(heap) \in Nat
      BY DEF Inv, Types
    <2>2. ASSUME NEW i \in Ids
          PROVE  H[i].state = "working" <=> \E k \in Loops : [entry EXCEPT ![l] = 0][k] = i
      <3>1. CASE i = entry[l]
        BY <2>1, <3>1 DEF Held, Ids
      <3>2. CASE i # entry[l]
        BY <2>1, <3>2 DEF Held, Ids
      <3> QED BY <3>1, <3>2
    <2>3. \A i \in Ids : H[i].state = "ok" <=> H[i].bytes = i
      BY <2>1 DEF Held, Ids
    <2>4. \A k, j \in Loops : k # j /\ [entry EXCEPT ![l] = 0][k] # 0 =>
            [entry EXCEPT ![l] = 0][k] # [entry EXCEPT ![l] = 0][j]
      BY <2>1 DEF Held
    <2> QED BY <2>2, <2>3, <2>4 DEF Held, Ids
  <1>2. /\ Render(files, H, limit) /\ entry' = [entry EXCEPT ![l] = 0]
        /\ pc' = [pc EXCEPT ![l] = "scan"] /\ turn' = l /\ rest' = rest
    BY DEF Settle
  <1>3. \A n \in DOMAIN files : files[n].id \in 1 .. Len(H)
    BY DEF Inv, Types, Ids, Staged
  <1>4. /\ heap' \in Seq(Entry) /\ Len(heap') = Len(heap) /\ files' = files
        /\ Held(heap', [entry EXCEPT ![l] = 0])
    BY <1>1, <1>2, <1>3, RenderFacts
  <1>5. Types'
    BY <1>2, <1>3, <1>4 DEF Inv, Types, Ids, Staged, Awaiting
  <1> QED BY <1>2, <1>4, <1>5 DEF Inv, Types, Awaiting

LEMMA InitInv == Init => Inv
  <1> SUFFICES ASSUME Init
               PROVE  Inv
    OBVIOUS
  <1>1. heap = <<>> /\ heap \in Seq(Entry) /\ Len(heap) = 0 /\ DOMAIN files = {}
    BY DEF Init
  <1>2. Types
    BY <1>1 DEF Init, Types, Ids, Staged, Awaiting
  <1> QED BY <1>1, <1>2, PageAssumption DEF Init, Inv, Held, Awaiting

\* What does not touch entries, loops and rest keeps the invariant.
LEMMA Untouched ==
  ASSUME Inv, UNCHANGED <<heap, files, rest, entry, pc, turn>>
  PROVE  Inv'
  BY DEF Inv, Types, Held, Ids, Staged

LEMMA UserInv ==
  ASSUME Inv, User
  PROVE  Inv'
  <1>1. ASSUME NEW s \in Stagers, Drop(s)
        PROVE  Inv'
    <2>1. PICK d \in Drops : rest' = [rest EXCEPT ![s] = d]
      BY <1>1 DEF Drop
    <2>2. rest' \in [Stagers -> Seq(File)]
      BY <2>1, PageAssumption DEF Inv, Types, File
    <2> QED BY <1>1, <2>2 DEF Drop, page, loop, Inv, Types, Held, Ids, Staged
  <1>2. ASSUME NEW F, NEW lim, Render(F, heap, lim), UNCHANGED <<rest, clear, turn, loop>>,
               \A n \in DOMAIN F : n \in DOMAIN files /\ F[n] = files[n]
        PROVE  Inv'
    <2>1. /\ heap' \in Seq(Entry) /\ Len(heap') = Len(heap) /\ files' = F /\ Held(heap', entry)
      BY <1>2, RenderFacts DEF Inv, Types, Ids, Staged
    <2> QED BY <1>2, <2>1 DEF Inv, Types, Ids, Staged, loop
  <1>3. ASSUME NEW n \in Names, Remove(n)
        PROVE  Inv'
    BY <1>2, <1>3 DEF Remove, Without
  <1>4. CASE Clear
    BY <1>2, <1>4 DEF Clear
  <1>5. CASE SetLimit
    BY <1>2, <1>5 DEF SetLimit
  <1>6. ASSUME NEW l \in Loops, Click(l)
        PROVE  Inv'
    <2>1. /\ UNCHANGED <<heap, files, rest, entry>> /\ turn' = l
          /\ pc[l] = "idle" /\ pc' = [pc EXCEPT ![l] = "scan"]
      BY <1>6 DEF Click
    <2>2. Types'
      BY <2>1 DEF Inv, Types, Ids, Staged
    <2>3. \A k \in Loops : pc'[k] \in Awaiting <=> pc[k] \in Awaiting
      BY <2>1 DEF Inv, Types, Awaiting
    <2> QED BY <2>1, <2>2, <2>3 DEF Inv, Types, Held, Ids
  <1> QED BY <1>1, <1>3, <1>4, <1>5, <1>6 DEF User

LEMMA StageInv ==
  ASSUME Inv, NEW s \in Stagers, Stage(s)
  PROVE  /\ Inv'
         /\ ~ Current' => rest'[s] # <<>>
  <1> DEFINE file == Head(rest[s])
             H == Append(heap, Fresh(file))
             F == Put(files, file.name, Len(H))
  <1>1. rest[s] \in Seq(File) /\ rest[s] # <<>> /\ rest \in [Stagers -> Seq(File)]
    BY DEF Stage, Inv, Types
  <1>2. /\ file \in File /\ rest' = [rest EXCEPT ![s] = Tail(@)]
        /\ rest' \in [Stagers -> Seq(File)] /\ rest'[s] = Tail(rest[s])
        /\ Len(rest[s]) > 1 => rest'[s] # <<>>
    <2>1. /\ file \in File /\ Tail(rest[s]) \in Seq(File) /\ Len(rest[s]) \in Nat
          /\ Len(Tail(rest[s])) = Len(rest[s]) - 1
      BY <1>1, HeadTailProperties
    <2>2. rest' = [rest EXCEPT ![s] = Tail(rest[s])]
      BY DEF Stage
    <2>3. rest' \in [Stagers -> Seq(File)] /\ rest'[s] = Tail(rest[s])
      BY <1>1, <2>1, <2>2
    <2>4. Len(rest[s]) > 1 => rest'[s] # <<>>
      BY <2>1, <2>3, EmptySeq
    <2> QED BY <2>1, <2>2, <2>3, <2>4
  <1>3. heap \in Seq(Entry) /\ Held(heap, entry) /\ entry \in [Loops -> {0} \cup Ids]
    BY DEF Inv, Types
  <1>4. Fresh(file) \in Entry /\ Fresh(file).state = "staged" /\ Fresh(file).bytes = 0
    BY <1>2 DEF Fresh, Entry, File, States
  <1>5. /\ H \in Seq(Entry) /\ Len(H) = Len(heap) + 1 /\ Len(heap) \in Nat
        /\ \A i \in 1 .. Len(heap) : H[i] = heap[i]
        /\ H[Len(heap) + 1] = Fresh(file)
    BY <1>3, <1>4
  <1>6. Held(H, entry)
    <2>1. ASSUME NEW i \in 1 .. Len(H)
          PROVE  /\ H[i].state = "working" <=> \E l \in Loops : entry[l] = i
                 /\ H[i].state = "ok" <=> H[i].bytes = i
      <3>1. CASE i = Len(heap) + 1
        BY <1>3, <1>4, <1>5, <3>1 DEF Ids
      <3>2. CASE i # Len(heap) + 1
        BY <1>3, <1>5, <3>2 DEF Held
      <3> QED BY <3>1, <3>2
    <2> QED BY <1>3, <2>1 DEF Held
  <1>7. \A n \in DOMAIN F : F[n].id \in 1 .. Len(H)
    BY <1>5 DEF Put, Inv, Types, Ids, Staged
  <1>8. UNCHANGED <<turn, pc, entry>>
    BY DEF Stage, loop
  <1> HIDE DEF H, F
  <1>9. CASE Len(rest[s]) = 1 /\ Render(F, H, limit)
    <2>1. /\ heap' \in Seq(Entry) /\ Len(heap') = Len(H) /\ files' = F
          /\ Held(heap', entry) /\ Current'
      BY <1>5, <1>6, <1>7, <1>9, RenderFacts
    <2> QED BY <1>2, <1>3, <1>5, <1>7, <1>8, <2>1 DEF Inv, Types, Ids, Staged
  <1>10. CASE Len(rest[s]) > 1 /\ heap' = H /\ files' = F
    BY <1>2, <1>3, <1>5, <1>6, <1>7, <1>8, <1>10 DEF Inv, Types, Ids, Staged
  <1> QED BY <1>9, <1>10 DEF Stage, H, F

LEMMA ScanInv ==
  ASSUME Inv, NEW l \in Loops, Scan(l)
  PROVE  /\ Inv'
         /\ turn' = 0 => Current'
  <1>1. turn = l /\ l # 0 /\ pc[l] = "scan" /\ entry[l] = 0
    BY PageAssumption DEF Scan, Inv, Awaiting
  <1>2. ASSUME NEW n \in Names, NextFile(l, n), SkipFile(l, n)
        PROVE  Inv' /\ turn' # 0
    BY <1>1, <1>2, Untouched DEF SkipFile, page
  <1>3. ASSUME NEW n \in Names, NextFile(l, n)
        PROVE  files[n].id \in Ids
    BY <1>3 DEF NextFile, Inv, Types
  <1>4. heap \in Seq(Entry) /\ Held(heap, entry) /\ entry \in [Loops -> {0} \cup Ids]
    BY DEF Inv, Types
  <1>5. ASSUME NEW n \in Names, NextFile(l, n), RefuseFile(l, n)
        PROVE  Inv' /\ turn' # 0
    <2> DEFINE id == files[n].id
    <2>1. id \in Ids /\ heap[id].state = "staged"
      BY <1>3, <1>5 DEF RefuseFile, Ready
    <2>2. PICK state \in {"err", "blocked"} : Render(files, SetState(id, state), limit)
      BY <1>5 DEF RefuseFile
    <2> DEFINE H == SetState(id, state)
    <2>3. /\ H \in Seq(Entry) /\ Len(H) = Len(heap)
          /\ \A i \in 1 .. Len(heap) :
               /\ H[i].bytes = heap[i].bytes
               /\ H[i].state = IF i = id THEN state ELSE heap[i].state
      <3>1. state \in States /\ id \in 1 .. Len(heap)
        BY <2>1 DEF States, Ids
      <3>2. H = [heap EXCEPT ![id].state = state]
        BY DEF SetState
      <3> HIDE DEF H, id
      <3> QED BY <1>4, <3>1, <3>2, SetFacts
    <2> HIDE DEF H, id
    <2>4. Held(H, entry)
      BY <1>4, <2>1, <2>3 DEF Held, Ids
    <2>5. \A k \in DOMAIN files : files[k].id \in 1 .. Len(H)
      BY <2>3 DEF Inv, Types, Ids, Staged
    <2>6. /\ heap' \in Seq(Entry) /\ Len(heap') = Len(heap) /\ files' = files /\ Held(heap', entry)
      BY <2>2, <2>3, <2>4, <2>5, RenderFacts DEF H
    <2>7. UNCHANGED <<rest, turn, pc, entry>>
      BY <1>5 DEF RefuseFile
    <2> QED BY <1>1, <2>6, <2>7 DEF Inv, Types, Ids, Staged
  <1>6. ASSUME NEW n \in Names, NextFile(l, n), StartFile(l, n)
        PROVE  Inv' /\ Current'
    <2> DEFINE id == files[n].id
               H == SetState(id, "working")
               E == [entry EXCEPT ![l] = id]
    <2>1. id \in Ids /\ heap[id].state = "staged" /\ id # 0
      BY <1>3, <1>6 DEF StartFile, Ready, Ids
    <2>2. /\ Render(files, H, limit) /\ entry' = E /\ pc' = [pc EXCEPT ![l] = "input"]
          /\ turn' = 0 /\ rest' = rest
      BY <1>6 DEF StartFile
    <2>3. /\ H \in Seq(Entry) /\ Len(H) = Len(heap)
          /\ \A i \in 1 .. Len(heap) :
               /\ H[i].bytes = heap[i].bytes
               /\ H[i].state = IF i = id THEN "working" ELSE heap[i].state
      <3>1. PICK state \in States : state = "working"
        BY DEF States
      <3>2. H = [heap EXCEPT ![id].state = state] /\ id \in 1 .. Len(heap)
        BY <2>1, <3>1 DEF SetState, Ids
      <3> HIDE DEF H, E, id
      <3>3. /\ H \in Seq(Entry) /\ Len(H) = Len(heap)
            /\ \A i \in 1 .. Len(heap) :
                 H[i].bytes = heap[i].bytes /\ H[i].state = IF i = id THEN state ELSE heap[i].state
        BY <1>4, <3>2, SetFacts
      <3> QED BY <3>1, <3>3
    <2> HIDE DEF H, id
    <2>4. \A k \in Loops : entry[k] # id
      BY <1>4, <2>1 DEF Held, Ids
    <2>5. Held(H, E)
      <3>1. \A k \in Loops : E[k] = IF k = l THEN id ELSE entry[k]
        BY <1>4
      <3>2. \A j, k \in Loops : j # k /\ E[j] # 0 => E[j] # E[k]
        BY <1>4, <2>4, <3>1 DEF Held
      <3>3. ASSUME NEW i \in 1 .. Len(H)
            PROVE  H[i].state = "working" <=> \E k \in Loops : E[k] = i
        <4>1. CASE i = id
          BY <2>3, <3>1, <4>1
        <4>2. CASE i # id
          BY <1>1, <1>4, <2>3, <3>1, <4>2 DEF Held, Ids
        <4> QED BY <4>1, <4>2
      <3>4. \A i \in 1 .. Len(H) : H[i].state = "ok" <=> H[i].bytes = i
        BY <1>4, <2>1, <2>3 DEF Held, Ids
      <3> QED BY <3>2, <3>3, <3>4 DEF Held
    <2>6. \A k \in DOMAIN files : files[k].id \in 1 .. Len(H)
      BY <2>3 DEF Inv, Types, Ids, Staged
    <2> HIDE DEF E
    <2>7. /\ heap' \in Seq(Entry) /\ Len(heap') = Len(heap) /\ files' = files
          /\ Held(heap', entry') /\ Current'
      BY <2>2, <2>3, <2>5, <2>6, RenderFacts
    <2>8. Types'
      BY <1>4, <2>1, <2>2, <2>7 DEF Inv, Types, Ids, Staged, Awaiting, E
    <2> QED BY <1>1, <1>4, <2>1, <2>2, <2>7, <2>8, PageAssumption DEF Inv, Types, Awaiting, E
  <1>7. CASE EndLoop(l)
    <2>1. /\ heap' \in Seq(Entry) /\ Len(heap') = Len(heap) /\ files' = files
          /\ Held(heap', entry) /\ Current'
      BY <1>4, <1>7, RenderFacts DEF EndLoop, Inv, Types, Ids, Staged
    <2>2. /\ pc' = [pc EXCEPT ![l] = "idle"] /\ turn' = 0 /\ UNCHANGED <<rest, entry>>
      BY <1>7 DEF EndLoop
    <2> QED BY <1>1, <1>4, <2>1, <2>2, PageAssumption DEF Inv, Types, Ids, Staged, Awaiting
  <1> QED BY <1>2, <1>5, <1>6, <1>7 DEF Scan

LEMMA AwaitInv ==
  ASSUME Inv, NEW l \in Loops, NEW next \in Awaiting, pc[l] \in Awaiting, turn = 0, Await(l, next)
  PROVE  Inv' /\ UNCHANGED <<page, rest>>
  <1>1. \A k \in Loops : pc'[k] \in Awaiting <=> pc[k] \in Awaiting
    BY DEF Await, Inv, Types
  <1>2. pc' \in [Loops -> {"idle", "scan"} \cup Awaiting]
    BY DEF Await, Inv, Types
  <1>3. \A k \in Loops : turn # k
    BY PageAssumption
  <1> QED BY <1>1, <1>2, <1>3 DEF Await, page, Inv, Types, Held, Ids, Staged

\* An await throws: the entry gets its error.
LEMMA RejectInv ==
  ASSUME Inv, NEW l \in Loops, pc[l] \in Awaiting, Settle(l, SetState(entry[l], "err"))
  PROVE  Inv' /\ turn' # 0
  <1>1. /\ heap \in Seq(Entry) /\ entry[l] \in Ids /\ entry[l] # 0 /\ Held(heap, entry)
    BY DEF Inv, Types, Ids
  <1>2. heap[entry[l]].state = "working" /\ heap[entry[l]].bytes # entry[l]
    BY <1>1 DEF Held, Ids
  <1> DEFINE H == SetState(entry[l], "err")
  <1>3. /\ H \in Seq(Entry) /\ Len(H) = Len(heap)
        /\ H[entry[l]].state = "err" /\ H[entry[l]].bytes = heap[entry[l]].bytes
    <2>1. "err" \in States /\ H = [heap EXCEPT ![entry[l]].state = "err"]
      BY DEF States, SetState
    <2>2. entry[l] \in 1 .. Len(heap)
      BY <1>1 DEF Ids
    <2> HIDE DEF H
    <2> QED BY <1>1, <2>1, <2>2, SetFacts
  <1>4. \A i \in Ids : i # entry[l] => H[i] = heap[i]
    BY <1>1 DEF SetState, Ids
  <1>5. Settle(l, H)
    OBVIOUS
  <1> HIDE DEF H
  <1> QED BY <1>1, <1>2, <1>3, <1>4, <1>5, SettleFacts, PageAssumption

LEMMA ReadInv ==
  ASSUME Inv, NEW l \in Loops, Read(l)
  PROVE  Inv' /\ (turn' = 0 => UNCHANGED <<page, rest>>)
  <1>1. turn = 0 /\ pc[l] \in Awaiting
    BY DEF Read, Awaiting
  <1>2. CASE \E next \in Awaiting : Await(l, next)
    BY <1>1, <1>2, AwaitInv
  <1>3. CASE Reject(l)
    BY <1>1, <1>3, RejectInv DEF Reject
  <1> QED BY <1>2, <1>3 DEF Read, Awaiting

LEMMA ReplyInv ==
  ASSUME Inv, NEW l \in Loops, Reply(l)
  PROVE  Inv' /\ (turn' = 0 => UNCHANGED <<page, rest>>)
  <1>1. turn = 0 /\ pc[l] \in Awaiting
    BY DEF Reply, Awaiting
  <1>2. CASE \E next \in Awaiting : Await(l, next)
    BY <1>1, <1>2, AwaitInv
  <1>3. CASE Settle(l, SetState(entry[l], "err"))
    BY <1>1, <1>3, RejectInv
  <1>4. CASE Settle(l, [heap EXCEPT ![entry[l]].state = "ok", ![entry[l]].bytes = entry[l]])
    <2>1. /\ heap \in Seq(Entry) /\ entry[l] \in Ids /\ entry[l] # 0
      BY <1>1 DEF Inv, Types, Ids
    <2> DEFINE e == entry[l]
               H == [heap EXCEPT ![e].state = "ok", ![e].bytes = e]
    <2>2. /\ Len(heap) \in Nat /\ e \in 1 .. Len(heap) /\ e \in Nat
          /\ heap \in [1 .. Len(heap) -> Entry] /\ heap[e] \in Entry
      BY <2>1 DEF Ids
    <2>3. H = [heap EXCEPT ![e] = [heap[e] EXCEPT !.state = "ok", !.bytes = e]]
      BY <2>2
    <2>4. /\ [heap[e] EXCEPT !.state = "ok", !.bytes = e] \in Entry
          /\ [heap[e] EXCEPT !.state = "ok", !.bytes = e].state = "ok"
          /\ [heap[e] EXCEPT !.state = "ok", !.bytes = e].bytes = e
      BY <2>2 DEF Entry, States
    <2>5. /\ H \in [1 .. Len(heap) -> Entry]
          /\ H[e].state = "ok" /\ H[e].bytes = e
          /\ \A i \in Ids : i # e => H[i] = heap[i]
      BY <2>2, <2>3, <2>4 DEF Ids
    <2>6. Settle(l, H)
      BY <1>4
    <2> HIDE DEF H
    <2>7. H \in Seq(Entry) /\ Len(H) = Len(heap)
      BY <2>2, <2>5
    <2> QED BY <2>1, <2>5, <2>6, <2>7, SettleFacts, PageAssumption
  <1> QED BY <1>2, <1>3, <1>4 DEF Reply, Receiver, Awaiting

LEMMA NextInv == Inv /\ [Next]_vars => Inv'
  <1> SUFFICES ASSUME Inv, [Next]_vars
               PROVE  Inv'
    OBVIOUS
  <1>1. ASSUME NEW s \in Stagers, StageFails(s)
        PROVE  Inv'
    <2>1. rest' \in [Stagers -> Seq(File)]
      BY <1>1 DEF StageFails, Inv, Types
    <2>2. Types'
      BY <1>1, <2>1 DEF StageFails, loop, Inv, Types, Ids, Staged
    <2> QED BY <1>1, <2>2 DEF StageFails, loop, Inv, Held
  <1>2. CASE UNCHANGED vars
    BY <1>2, Untouched DEF vars, page, loop
  <1> QED BY <1>1, <1>2, UserInv, StageInv, ScanInv, ReadInv, ReplyInv DEF Next, Unpack

LEMMA AlwaysInv == Spec => []Inv
  BY InitInv, NextInv, PTL DEF Spec

\* However many loops walk the files, and however replies, drops and removals fall
\* between their turns, no two of them hold the same entry (unpackBtn click, app.js 624-677).
THEOREM NoEntryTwice == Spec => []OneLoopPerEntry
  <1>1. Inv => OneLoopPerEntry
    BY DEF Inv, Held, OneLoopPerEntry
  <1> QED BY <1>1, AlwaysInv, PTL

\* A row is "working" exactly while some loop works on it (app.js 655-670).
THEOREM NoRowIsLeft == Spec => []WorkingIsHeld
  <1>1. Inv => WorkingIsHeld
    BY DEF Inv, Held, WorkingIsHeld, Ids
  <1> QED BY <1>1, AlwaysInv, PTL

\* The bytes a row offers are those of its own file, whatever was dropped under the
\* same name meanwhile (applyReply, app.js 540-560).
THEOREM ResultsAreTheirOwn == Spec => []ResultBelongsToItsFile
  <1>1. Inv => ResultBelongsToItsFile
    BY DEF Inv, Held, ResultBelongsToItsFile, Ids
  <1> QED BY <1>1, AlwaysInv, PTL

\* Between two turns, with no drop in flight and none broken off, the last render saw
\* what is there: every handler that changes files, sizes or the limit renders before
\* its turn ends (render, app.js 424-496).
THEOREM QuietPagesAreCurrent == Spec => []QuietPageIsCurrent
  <1> DEFINE Quiet == turn = 0 /\ ~ broken /\ \A s \in Stagers : rest[s] = <<>>
  <1>1. QuietPageIsCurrent <=> (Quiet => Current)
    BY DEF QuietPageIsCurrent, Current
  <1>2. Init => (Quiet => Current)
    <2> SUFFICES ASSUME Init
                 PROVE  Current
      OBVIOUS
    <2>1. /\ heap = <<>> /\ DOMAIN files = {} /\ limit \in Nat
          /\ plan = {} /\ rows = {} /\ button = FALSE
      BY PageAssumption DEF Init
    <2>2. BlockedIn(files, heap, limit) = {}
      BY <2>1 DEF BlockedIn, UnitSize, SizeOf
    <2> QED BY <2>1, <2>2 DEF Current, Wanted, Unpackable
  <1>3. Inv /\ (Quiet => Current) /\ [Next]_vars => (Quiet => Current)'
    <2> SUFFICES ASSUME Inv, Quiet => Current, [Next]_vars, Quiet'
                 PROVE  Current'
      OBVIOUS
    <2>1. ASSUME UNCHANGED <<page, rest>>, turn = 0
          PROVE  Current'
      BY <2>1 DEF page, Current
    <2>2. CASE User
      <3>1. ASSUME NEW s \in Stagers, Drop(s)
            PROVE  FALSE
        BY <3>1, PageAssumption DEF Drop, Inv, Types
      <3>2. ASSUME NEW F, NEW lim, Render(F, heap, lim),
                   \A n \in DOMAIN F : n \in DOMAIN files /\ F[n] = files[n]
            PROVE  Current'
        BY <3>2, RenderFacts DEF Inv, Types, Ids, Staged
      <3>3. ASSUME NEW l \in Loops, Click(l)
            PROVE  FALSE
        BY <3>3, PageAssumption DEF Click
      <3>4. CASE \E n \in Names : Remove(n)
        BY <3>2, <3>4 DEF Remove, Without
      <3>5. CASE Clear \/ SetLimit
        BY <3>2, <3>5 DEF Clear, SetLimit
      <3> QED BY <2>2, <3>1, <3>3, <3>4, <3>5 DEF User
    <2>3. ASSUME NEW s \in Stagers, StageFails(s)
          PROVE  Current'
      BY <2>3 DEF StageFails
    <2>4. ASSUME NEW s \in Stagers, Stage(s)
          PROVE  Current'
      BY <2>4, StageInv
    <2>5. ASSUME NEW l \in Loops, Scan(l)
          PROVE  Current'
      BY <2>5, ScanInv
    <2>6. ASSUME NEW l \in Loops, Read(l) \/ Reply(l)
          PROVE  Current'
      <3>1. turn = 0
        BY <2>6 DEF Read, Reply
      <3> QED BY <2>1, <2>6, <3>1, ReadInv, ReplyInv
    <2>7. CASE UNCHANGED vars
      BY <2>7 DEF vars, page, Current
    <2> QED BY <2>2, <2>3, <2>4, <2>5, <2>6, <2>7 DEF Next, Unpack
  <1> HIDE DEF Quiet
  <1> QED BY <1>1, <1>2, <1>3, AlwaysInv, PTL DEF Spec
==============================================================================
