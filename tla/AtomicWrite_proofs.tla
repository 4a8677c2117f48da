-------------------------- MODULE AtomicWrite_proofs --------------------------
(***************************************************************************)
(* Theorems about AtomicWrite, for any number of writers, temporary names, *)
(* payload pieces and attempts.                                            *)
(***************************************************************************)
EXTENDS AtomicWrite, TLAPS

\* What a running call's temporary holds: its own pieces, all of them before
\* the rename, and on disk by then.
OwnPieces(w) ==
  /\ name[w] \in InUse
  /\ \A i \in 1 .. Len(temp[name[w]]) : temp[name[w]][i] = w
  /\ pc[w] = "fill" => Len(temp[name[w]]) < Size
  /\ pc[w] # "fill" => Len(temp[name[w]]) = Size
  /\ pc[w] \in {"rename", "backoff"} => name[w] \in synced

Temporaries ==
  /\ \A w \in Writers : Holds(w) => OwnPieces(w)
  /\ \A v, w \in Writers : Holds(v) /\ Holds(w) /\ name[v] = name[w] => v = w
  /\ \A n \in InUse : \E w \in Writers : Holds(w) /\ name[w] = n

(***************************************************************************)
(* The inductive invariant: the types, that every temporary is owned by    *)
(* one running call and holds nothing but that call's pieces, in full and  *)
(* on disk before its rename, and that the destination is whole, on disk.  *)
(***************************************************************************)
IInv == TypeOK /\ Temporaries /\ DestIsWhole /\ solid = TRUE

-----------------------------------------------------------------------------
LEMMA WholeIsContents == \A c \in Whole : IsContents(c)
  <1>1. IsContents(<<>>)
    BY ParameterAssumption DEF IsContents
  <1>2. IsContents(Previous)
    BY ParameterAssumption DEF IsContents, Previous
  <1>3. \A w \in Writers : IsContents(Payload(w))
    BY ParameterAssumption DEF IsContents, Payload
  <1> QED BY <1>1, <1>2, <1>3 DEF Whole

\* A call's full temporary is its payload.
LEMMA FullIsPayload ==
  ASSUME NEW w \in Writers, NEW c, IsContents(c), Len(c) = Size,
         \A i \in 1 .. Len(c) : c[i] = w
  PROVE  c = Payload(w)
  <1>1. c = [i \in 1 .. Len(c) |-> c[i]]
    BY DEF IsContents
  <1> QED BY <1>1 DEF Payload

LEMMA AppendOwn ==
  ASSUME NEW w \in Writers, NEW c \in Seq(Writers \cup {"nobody"}), Len(c) < Size,
         \A i \in 1 .. Len(c) : c[i] = w
  PROVE  /\ IsContents(Append(c, w))
         /\ Len(Append(c, w)) = Len(c) + 1
         /\ \A i \in 1 .. Len(Append(c, w)) : Append(c, w)[i] = w
  <1>1. Append(c, w) \in Seq(Writers \cup {"nobody"}) /\ Len(Append(c, w)) = Len(c) + 1
    OBVIOUS
  <1>2. Len(c) + 1 <= Size
    BY ParameterAssumption
  <1>3. \A i \in 1 .. Len(c) + 1 : Append(c, w)[i] = w
    OBVIOUS
  <1> QED BY <1>1, <1>2, <1>3 DEF IsContents

LEMMA InitInv == Init => IInv
  <1> SUFFICES ASSUME Init PROVE IInv
    OBVIOUS
  <1>1. InUse = {}
    BY DEF Init, InUse
  <1>2. dest \in Whole /\ durable \in Whole
    BY DEF Init, Whole
  <1>3. IsContents(dest) /\ IsContents(durable)
    BY <1>2, WholeIsContents
  <1>4. attempt \in [Writers -> 0 .. Attempts - 1]
    BY ParameterAssumption DEF Init
  <1>5. TypeOK
    BY <1>1, <1>3, <1>4 DEF Init, TypeOK, Steps
  <1>6. Temporaries
    BY <1>1 DEF Init, Temporaries, Holds
  <1> QED BY <1>2, <1>5, <1>6 DEF IInv, DestIsWhole, Init

-----------------------------------------------------------------------------
(* The calls.                                                              *)

LEMMA CreateInv ==
  ASSUME IInv, NEW w \in Writers, Create(w)
  PROVE  IInv'
  <1> USE DEF IInv, TypeOK, Temporaries, DestIsWhole, Create, Goto, file, Steps
  <1>1. CASE Goto(w, "err") /\ UNCHANGED <<name, temp, synced>>
    <2>1. \A v \in Writers : Holds(v)' <=> Holds(v)
      BY <1>1 DEF Holds
    <2>2. \A v \in Writers : Holds(v) => OwnPieces(v)'
      BY <1>1, <2>1 DEF OwnPieces, InUse, Holds
    <2>3. TypeOK'
      BY <1>1 DEF InUse, IsContents
    <2>4. Temporaries'
      BY <1>1, <2>1, <2>2 DEF InUse
    <2> QED BY <2>3, <2>4 DEF Whole
  <1>2. ASSUME NEW n \in Fresh,
               name' = [name EXCEPT ![w] = n], temp' = SetTemp(n, <<>>),
               synced' = synced \ {n}, Goto(w, "fill")
        PROVE  IInv'
    <2> USE <1>2
    <2>1. n \in Names /\ n \notin InUse
      BY DEF Fresh
    <2>2. InUse' = InUse \cup {n} /\ temp'[n] = <<>>
          /\ \A m \in InUse : temp'[m] = temp[m]
      BY <2>1 DEF InUse, SetTemp
    <2>3. \A v \in Writers : Holds(v)' <=> (Holds(v) \/ v = w)
      BY DEF Holds
    <2>4. \A v \in Writers \ {w} : Holds(v) => OwnPieces(v)' /\ name'[v] = name[v] /\ name[v] # n
      BY <2>1, <2>2 DEF OwnPieces, Holds
    <2>5. OwnPieces(w)' /\ name'[w] = n
      BY <2>1, <2>2, ParameterAssumption DEF OwnPieces
    <2>6. Temporaries'
      BY <2>1, <2>2, <2>3, <2>4, <2>5 DEF Holds
    <2>7. IsContents(<<>>)
      BY WholeIsContents DEF Whole
    <2>8. TypeOK'
      BY <2>1, <2>2, <2>7 DEF IsContents
    <2> QED BY <2>6, <2>8 DEF Whole
  <1> QED BY <1>1, <1>2

\* Dropping the temporary of a call that returns Err.
LEMMA FailInv ==
  ASSUME IInv, NEW w \in Writers, Holds(w), Fail(w),
         UNCHANGED <<name, attempt, file, crashed>>
  PROVE  IInv'
  <1> USE DEF IInv, TypeOK, Temporaries, DestIsWhole, Fail, Goto, file, Steps
  <1>1. InUse' = InUse \ {name[w]} /\ \A m \in InUse' : temp'[m] = temp[m]
    BY DEF InUse, DropTemp
  <1>2. \A v \in Writers : Holds(v)' <=> (Holds(v) /\ v # w)
    BY DEF Holds
  <1>3. \A v \in Writers \ {w} : Holds(v) => OwnPieces(v)'
    BY <1>1 DEF OwnPieces
  <1>4. Temporaries'
    BY <1>1, <1>2, <1>3
  <1>5. TypeOK'
    BY <1>1 DEF IsContents
  <1> QED BY <1>4, <1>5 DEF Whole

LEMMA FillInv ==
  ASSUME IInv, NEW w \in Writers, Fill(w)
  PROVE  IInv'
  <1> USE DEF IInv, TypeOK, Temporaries, DestIsWhole, Goto, file, Steps
  <1>1. Holds(w) /\ UNCHANGED <<name, attempt, file, crashed>>
    BY DEF Fill, Holds
  <1>2. CASE Fail(w)
    BY <1>1, <1>2, FailInv
  <1>3. CASE /\ temp' = [temp EXCEPT ![name[w]] = Append(@, w)]
             /\ Goto(w, IF Len(temp'[name[w]]) >= Size THEN "sync" ELSE "fill")
             /\ UNCHANGED synced
    <2> USE <1>1, <1>3
    <2> DEFINE old == temp[name[w]]
    <2>1. name[w] \in InUse /\ old \in Seq(Writers \cup {"nobody"}) /\ Len(old) < Size
          /\ \A i \in 1 .. Len(old) : old[i] = w
      BY DEF OwnPieces, Fill, Holds, IsContents
    <2>2. InUse' = InUse /\ temp'[name[w]] = Append(old, w)
          /\ \A m \in InUse \ {name[w]} : temp'[m] = temp[m]
      BY <2>1 DEF InUse
    <2>3. /\ IsContents(Append(old, w))
          /\ Len(Append(old, w)) = Len(old) + 1
          /\ \A i \in 1 .. Len(Append(old, w)) : Append(old, w)[i] = w
      BY <2>1, AppendOwn
    <2>4. pc'[w] \in {"fill", "sync"} /\ \A v \in Writers \ {w} : pc'[v] = pc[v]
      OBVIOUS
    <2>5. \A v \in Writers : Holds(v)' <=> Holds(v)
      BY <2>4 DEF Holds
    <2>6. \A v \in Writers \ {w} : Holds(v) => OwnPieces(v)'
      BY <2>2, <2>4 DEF OwnPieces
    <2>7. OwnPieces(w)'
      <3>1. Len(temp'[name[w]]) = Len(old) + 1
        BY <2>2, <2>3
      <3>2. pc'[w] = "fill" => Len(temp'[name[w]]) < Size
        BY <3>1, <2>1, ParameterAssumption
      <3>3. pc'[w] # "fill" => Len(temp'[name[w]]) = Size
        BY <3>1, <2>1, ParameterAssumption
      <3> QED BY <2>1, <2>2, <2>3, <2>4, <3>2, <3>3 DEF OwnPieces
    <2>8. Temporaries'
      BY <2>2, <2>5, <2>6, <2>7
    <2>9. TypeOK'
      <3>1. pc' \in [Writers -> Steps]
        OBVIOUS
      <3>2. \A m \in InUse' : IsContents(temp'[m])
        BY <2>2, <2>3 DEF IsContents
      <3> QED BY <2>2, <3>1, <3>2 DEF IsContents
    <2> QED BY <2>8, <2>9 DEF Whole
  <1> QED BY <1>2, <1>3 DEF Fill

LEMMA SyncInv ==
  ASSUME IInv, NEW w \in Writers, Sync(w)
  PROVE  IInv'
  <1> USE DEF IInv, TypeOK, Temporaries, DestIsWhole, Goto, file, Steps
  <1>1. Holds(w) /\ UNCHANGED <<name, attempt, file, crashed>>
    BY DEF Sync, Holds
  <1>2. CASE Fail(w)
    BY <1>1, <1>2, FailInv
  <1>3. CASE synced' = OnDisk(name[w]) /\ Goto(w, "rename") /\ UNCHANGED temp
    <2> USE <1>1, <1>3 DEF OnDisk
    <2>1. name[w] \in InUse /\ Len(temp[name[w]]) = Size
      BY DEF OwnPieces, Sync
    <2>2. InUse' = InUse
      BY DEF InUse
    <2>3. \A v \in Writers : Holds(v)' <=> Holds(v)
      BY DEF Holds
    <2>4. \A v \in Writers : Holds(v) => OwnPieces(v)'
      BY <2>1, <2>2 DEF OwnPieces, Sync
    <2>5. Temporaries'
      BY <2>2, <2>3, <2>4
    <2>6. TypeOK'
      BY <2>1, <2>2 DEF IsContents
    <2> QED BY <2>5, <2>6 DEF Whole
  <1> QED BY <1>2, <1>3 DEF Sync

\* The three ways a rename ends.
Renamed(w) ==
  /\ dest' = temp[name[w]] /\ solid' = (name[w] \in synced)
  /\ temp' = DropTemp(name[w]) /\ synced' = synced \ {name[w]}
  /\ Goto(w, "close")
  /\ UNCHANGED <<attempt, durable, name, crashed>>

\* What is renamed is the call's whole payload, on disk.
LEMMA RenamesPayload ==
  ASSUME IInv, NEW w \in Writers, pc[w] = "rename", Renamed(w)
  PROVE  dest' = Payload(w) /\ solid' = TRUE
  <1>1. OwnPieces(w)
    BY DEF IInv, Temporaries, Holds
  <1>2. IsContents(temp[name[w]])
    BY <1>1 DEF IInv, TypeOK, OwnPieces
  <1> QED BY <1>1, <1>2, FullIsPayload DEF Renamed, OwnPieces

LEMMA RenameInv ==
  ASSUME IInv, NEW w \in Writers, Rename(w)
  PROVE  IInv'
  <1> USE DEF IInv, TypeOK, Temporaries, DestIsWhole, Goto, file, Steps
  <1>1. Holds(w) /\ pc[w] = "rename" /\ UNCHANGED <<name, crashed>>
    BY DEF Rename, Holds
  <1>2. CASE Fail(w) /\ UNCHANGED <<attempt, file>>
    BY <1>1, <1>2, FailInv
  <1>3. CASE Renamed(w)
    <2> USE <1>1, <1>3 DEF Renamed
    <2>1. dest' = Payload(w) /\ solid' = TRUE
      BY RenamesPayload
    <2>2. dest' \in Whole' /\ durable' \in Whole'
      BY <2>1 DEF Whole
    <2>3. InUse' = InUse \ {name[w]} /\ \A m \in InUse' : temp'[m] = temp[m]
      BY DEF InUse, DropTemp
    <2>4. \A v \in Writers : Holds(v)' <=> (Holds(v) /\ v # w)
      BY DEF Holds
    <2>5. \A v \in Writers \ {w} : Holds(v) => OwnPieces(v)'
      BY <2>3 DEF OwnPieces
    <2>6. Temporaries'
      BY <2>3, <2>4, <2>5
    <2>7. IsContents(dest')
      BY <2>2, WholeIsContents DEF Whole, Payload, Previous
    <2>8. TypeOK'
      BY <2>1, <2>3, <2>7 DEF IsContents
    <2> QED BY <2>1, <2>2, <2>6, <2>8
  <1>4. CASE /\ MayRetry(w) /\ Goto(w, "backoff") /\ CountRefusal(w)
             /\ UNCHANGED <<temp, synced, file>>
    <2> USE <1>1, <1>4
    <2>1. attempt' \in [Writers -> 0 .. Attempts - 1]
      BY ParameterAssumption DEF MayRetry, CountRefusal
    <2>2. InUse' = InUse
      BY DEF InUse
    <2>3. \A v \in Writers : Holds(v)' <=> Holds(v)
      BY DEF Holds
    <2>4. \A v \in Writers : Holds(v) => OwnPieces(v)'
      BY <2>2 DEF OwnPieces
    <2>5. Temporaries'
      BY <2>2, <2>3, <2>4
    <2>6. TypeOK'
      BY <2>1, <2>2 DEF IsContents
    <2> QED BY <2>5, <2>6 DEF Whole
  <1> QED BY <1>2, <1>3, <1>4 DEF Rename, Renamed

\* Waiting before a retry, and returning Ok.
LEMMA MoveOnInv ==
  ASSUME IInv, NEW w \in Writers, Backoff(w) \/ Close(w)
  PROVE  IInv'
  <1> USE DEF IInv, TypeOK, Temporaries, DestIsWhole, Goto, file, Steps, Backoff, Close
  <1>1. InUse' = InUse
    BY DEF InUse
  <1>3. UNCHANGED <<name, temp, synced>> /\ \A v \in Writers \ {w} : pc'[v] = pc[v]
    OBVIOUS
  <1>2. \A v \in Writers : Holds(v)' <=> Holds(v)
    <2>1. Holds(w)' <=> Holds(w)
      <3>1. \/ pc[w] = "backoff" /\ pc'[w] = "rename"
            \/ pc[w] = "close" /\ pc'[w] = "ok"
        OBVIOUS
      <3> QED BY ONLY <3>1 DEF Holds
    <2>2. \A v \in Writers \ {w} : Holds(v)' <=> Holds(v)
      BY ONLY <1>3 DEF Holds
    <2> QED BY ONLY <2>1, <2>2
  <1>8. Holds(w)' => pc[w] = "backoff" /\ pc'[w] = "rename"
    BY DEF Holds
  <1>7. \A v \in Writers : Holds(v) => OwnPieces(v)'
    <2>1. ASSUME NEW v \in Writers \ {w}, OwnPieces(v) PROVE OwnPieces(v)'
      BY ONLY <1>1, <1>3, <2>1 DEF OwnPieces
    <2>2. pc[w] = "backoff" /\ pc'[w] = "rename" /\ OwnPieces(w) => OwnPieces(w)'
      BY ONLY <1>1, <1>3 DEF OwnPieces
    <2> QED BY <1>2, <1>8, <2>1, <2>2
  <1>4. Temporaries'
    BY <1>1, <1>2, <1>7
  <1>5. TypeOK'
    BY <1>1 DEF IsContents
  <1> QED BY <1>4, <1>5 DEF Whole

-----------------------------------------------------------------------------
(* The file system.                                                        *)

\* What is on disk survives as it is.
LEMMA SolidSurvives ==
  ASSUME IInv
  PROVE  Survivors(dest, solid) = {dest}
  BY DEF IInv, Survivors

LEMMA FlushInv ==
  ASSUME IInv, Flush
  PROVE  IInv'
  <1>1. durable' = dest
    BY SolidSurvives DEF Flush
  <1>2. Temporaries'
    BY DEF IInv, Temporaries, Flush, OwnPieces, Holds, InUse
  <1> QED BY <1>1, <1>2 DEF IInv, TypeOK, DestIsWhole, Whole, Flush, InUse, IsContents, Steps

LEMMA CrashInv ==
  ASSUME IInv, Crash
  PROVE  IInv'
  <1>1. dest' \in {dest, durable} /\ durable' = dest' /\ solid' = TRUE
    BY SolidSurvives DEF Crash
  <1>2. Temporaries'
    BY DEF IInv, Temporaries, Crash, OwnPieces, Holds, InUse
  <1> QED BY <1>1, <1>2 DEF IInv, TypeOK, DestIsWhole, Whole, Crash, InUse, IsContents, Steps

LEMMA StutterInv == IInv /\ UNCHANGED vars => IInv'
  BY DEF IInv, TypeOK, Temporaries, DestIsWhole, Whole, OwnPieces, Holds, InUse,
         IsContents, Steps, vars, file

LEMMA NextInv == IInv /\ [Next]_vars => IInv'
  <1> SUFFICES ASSUME IInv, [Next]_vars PROVE IInv'
    OBVIOUS
  <1>1. ASSUME NEW w \in Writers, Write(w) PROVE IInv'
    BY <1>1, CreateInv, FillInv, SyncInv, RenameInv, MoveOnInv DEF Write
  <1>2. CASE Flush
    BY <1>2, FlushInv
  <1>3. CASE Crash
    BY <1>3, CrashInv
  <1>4. CASE UNCHANGED vars
    BY <1>4, StutterInv
  <1> QED BY <1>1, <1>2, <1>3, <1>4 DEF Next

-----------------------------------------------------------------------------
(* What holds of every run.                                                *)

\* Every reachable state satisfies the inductive invariant.
THEOREM Invariance == Spec => []IInv
  BY InitInv, NextInv, PTL DEF Spec

\* The state of the calls and of the directory keeps its type.
THEOREM TypeCorrect == Spec => []TypeOK
  BY Invariance, PTL DEF IInv

(***************************************************************************)
(* write_atomic: the destination is absent, the previous file or one       *)
(* call's whole payload, whoever else writes it and wherever it crashes.   *)
(***************************************************************************)
THEOREM DestinationIsWhole == Spec => []DestIsWhole
  BY Invariance, PTL DEF IInv

(***************************************************************************)
(* write_atomic: a temporary belongs to exactly one call that is still     *)
(* running, so every call that returns has removed its own.                *)
(***************************************************************************)
THEOREM NothingIsLeftBehind == Spec => []NoStrayTemporary
  <1>1. IInv => NoStrayTemporary
    BY DEF IInv, Temporaries, NoStrayTemporary
  <1> QED BY <1>1, Invariance, PTL

(***************************************************************************)
(* write_atomic implements AtomicReplace: each call replaces the           *)
(* destination in one step or fails without a trace.                       *)
(***************************************************************************)
LEMMA StepRefines ==
  IInv /\ [Next]_vars => [Contract!ReplaceNext]_(Contract!replaceVars)
  <1> DEFINE verdict == [w \in Writers |-> Verdict(pc[w])]
             Refined == [Contract!ReplaceNext]_(Contract!replaceVars)
  <1> USE DEF Contract!ReplaceNext, Contract!replaceVars
  <1> SUFFICES ASSUME IInv, [Next]_vars PROVE Refined
    OBVIOUS
  <1>1. pc \in [Writers -> Steps]
    BY DEF IInv, TypeOK
  <1>2. ASSUME NEW w \in Writers, NEW step, Goto(w, step), Verdict(step) = Verdict(pc[w]),
               UNCHANGED file
        PROVE  Refined
    <2>1. verdict' = verdict
      BY <1>1, <1>2 DEF Goto
    <2> QED BY <2>1, <1>2 DEF file
  <1>3. ASSUME NEW w \in Writers, Goto(w, "err"), Verdict(pc[w]) = "pending", UNCHANGED file
        PROVE  Refined
    <2>1. verdict' = [verdict EXCEPT ![w] = "failed"]
      BY <1>1, <1>3 DEF Goto, Verdict
    <2>2. Contract!GiveUp(w)
      BY <2>1, <1>3 DEF Contract!GiveUp, file
    <2> QED BY <2>2
  <1>4. ASSUME NEW w \in Writers, pc[w] = "rename", Renamed(w)
        PROVE  Refined
    <2>1. dest' = Payload(w) /\ durable' = durable
      BY <1>4, RenamesPayload DEF Renamed
    <2>2. verdict' = [verdict EXCEPT ![w] = "replaced"]
      BY <1>1, <1>4 DEF Renamed, Goto, Verdict
    <2>3. verdict[w] = "pending"
      BY <1>4 DEF Verdict
    <2>4. Contract!Replace(w)
      BY <2>1, <2>2, <2>3 DEF Contract!Replace
    <2> QED BY <2>4
  <1>5. ASSUME NEW w \in Writers, Write(w) PROVE Refined
    <2>1. CASE Create(w)
      BY <2>1, <1>2, <1>3 DEF Create, Verdict
    <2>2. CASE Fill(w)
      BY <2>2, <1>2, <1>3 DEF Fill, Fail, Verdict, Goto
    <2>3. CASE Sync(w)
      BY <2>3, <1>2, <1>3 DEF Sync, Fail, Verdict
    <2>4. CASE Rename(w)
      BY <2>4, <1>2, <1>3, <1>4 DEF Rename, Renamed, Fail, Verdict
    <2>5. CASE Backoff(w)
      BY <2>5, <1>2 DEF Backoff, Verdict
    <2>6. CASE Close(w)
      BY <2>6, <1>2 DEF Close, Verdict
    <2> QED BY <1>5, <2>1, <2>2, <2>3, <2>4, <2>5, <2>6 DEF Write
  <1>6. CASE Flush
    <2>1. durable' = dest /\ UNCHANGED <<pc, dest>>
      BY <1>6, SolidSurvives DEF Flush
    <2>2. Contract!Settle
      BY <2>1 DEF Contract!Settle
    <2> QED BY <2>2
  <1>7. CASE Crash
    <2>1. dest' \in {dest, durable} /\ durable' = dest' /\ UNCHANGED pc
      BY <1>7, SolidSurvives DEF Crash
    <2>2. CASE dest' = dest
      BY <2>1, <2>2 DEF Contract!Settle
    <2>3. CASE dest' = durable
      BY <2>1, <2>3 DEF Contract!Lose
    <2> QED BY <2>1, <2>2, <2>3
  <1>8. CASE UNCHANGED vars
    BY <1>8 DEF vars, file
  <1> QED BY <1>5, <1>6, <1>7, <1>8 DEF Next

\* Every call of write_atomic is an atomic replace of the destination, or fails
\* and leaves it alone: AtomicWrite implements AtomicReplace.
THEOREM KeepsPromise == Spec => AtomicReplaceSpec
  <1>1. Init => Contract!ReplaceInit
    <2>1. Init => [w \in Writers |-> Verdict(pc[w])] = [w \in Writers |-> "pending"]
      BY DEF Init, Verdict
    <2> QED BY <2>1 DEF Init, Contract!ReplaceInit
  <1> QED BY <1>1, StepRefines, Invariance, PTL
      DEF Spec, AtomicReplaceSpec, Contract!AtomicReplaceSpec
=============================================================================
