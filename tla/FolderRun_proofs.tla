--------------------------- MODULE FolderRun_proofs ---------------------------
(***************************************************************************)
(* Proofs about FolderRun, for every set of folders and every library,     *)
(* module and blob: the modules of an application come from its own        *)
(* libraries, when package entries are named for what they hold the run    *)
(* implements AppRecovery, the Summary keeps to the outputs, and a run     *)
(* without an error is complete. The last section is about the budget its  *)
(* packages share, ArchiveBudget.                                          *)
(***************************************************************************)
EXTENDS FolderRun, ArchiveBudget, FiniteSetTheorems, TLAPS

V24Outputs == {w \in written : w.kind = "metadata" /\ w.file.content \in V24}

\* What is left to process belongs to units that are still open.
PendingIsOpen == pending \subseteq {e \in folder.files : UnitOf(e) \in todo}

\* Once v24 metadata of an application was written, no library of the
\* application is left, and the module it was written under is its only one.
SettledInv ==
  \A w \in V24Outputs :
    /\ modules[AppKey(w.file)] = {w.module}
    /\ \A f \in pending : f.content \in Library => AppKey(f) # AppKey(w.file)

IInv ==
  /\ TypeOK
  /\ ModulesStayHome
  /\ WellNamed(folder) => SettledInv

-----------------------------------------------------------------------------
(* The order of the work.                                                  *)

\* A file of a folder has the type the model gives it.
LEMMA FileTyped ==
  ASSUME folder \in Folders, NEW e \in folder.files
  PROVE  /\ e \in FileType
         /\ folder.packages \in Seq(PackageType)
         /\ e.package # 0 => /\ e.package \in Packages
                             /\ e.nested \in DOMAIN Package(e.package).names
                             /\ Package(e.package) \in PackageType
                             /\ e.content \notin Program
         /\ \A p \in Packages : /\ Package(p) \in PackageType
                                /\ ~ Package(p).bundle => Len(Package(p).names) = 1
PROOF
  <1>1. /\ folder.packages \in Seq(PackageType)
        /\ folder.files \subseteq FileType
        /\ e.package \in 0 .. Len(folder.packages)
        /\ e.package # 0 => /\ e.nested \in 1 .. Len(Package(e.package).names)
                            /\ e.content \notin Program
        /\ \A p \in Packages : ~ Package(p).bundle => Len(Package(p).names) = 1
    BY FolderAssumption DEF Packages, Package
  <1>2. \A p \in Packages : Package(p) \in PackageType
    BY <1>1 DEF Packages, Package
  <1>3. e.package # 0 => e.package \in Packages
    BY <1>1 DEF Packages
  <1>4. \A p \in Packages : DOMAIN Package(p).names = 1 .. Len(Package(p).names)
    BY <1>2 DEF PackageType
  <1> QED
    BY <1>1, <1>2, <1>3, <1>4

\* Two packages that share an application are one package or one split set.
LEMMA SameAppSameUnit ==
  ASSUME folder \in Folders,
         NEW l \in folder.files, NEW m \in folder.files,
         l.package # 0, m.package # 0, AppKey(l) = AppKey(m)
  PROVE  /\ UnitOf(l) = UnitOf(m)
         /\ l.package # m.package => Grouped(l) /\ Grouped(m)
PROOF
  <1> DEFINE p == l.package
             q == m.package
  <1>1. /\ p \in Packages /\ q \in Packages
        /\ l.nested \in DOMAIN Package(p).names /\ m.nested \in DOMAIN Package(q).names
        /\ Package(p) \in PackageType /\ Package(q) \in PackageType
        /\ ~ Package(p).bundle => Len(Package(p).names) = 1
        /\ ~ Package(q).bundle => Len(Package(q).names) = 1
    BY FileTyped
  <1>2. CASE p = q
    BY <1>2 DEF UnitOf
  <1>3. CASE p # q
    <2>1. /\ Package(p).names[l.nested] # NoName
          /\ Package(q).names[m.nested] = Package(p).names[l.nested]
          /\ PackageSet(p) = PackageSet(q)
      BY <1>3 DEF AppKey
    <2>2. ~ Package(p).bundle /\ ~ Package(q).bundle
      BY <1>3, <2>1 DEF PackageSet
    <2>3. l.nested = 1 /\ m.nested = 1
      BY <1>1, <2>2 DEF PackageType
    <2>4. /\ Named(p) /\ Named(q)
          /\ SplitSet(p) = SplitSet(q)
          /\ p \in SplitSet(p) /\ q \in SplitSet(p)
      BY <1>1, <2>1, <2>2, <2>3 DEF Named, SplitSet
    <2>5. UnitOf(l) = UnitOf(m)
      BY <2>4 DEF UnitOf, PackageUnit, Leader
    <2>6. IsFiniteSet(SplitSet(p))
      <3>1. Len(folder.packages) \in Nat
        BY FileTyped
      <3>2. IsFiniteSet(Packages)
        BY <3>1, FS_Interval DEF Packages
      <3>3. SplitSet(p) \subseteq Packages
        BY <1>1 DEF SplitSet
      <3> QED
        BY <3>2, <3>3, FS_Subset
    <2>7. Cardinality({p, q}) = 2
      <3>1. IsFiniteSet({p}) /\ Cardinality({p}) = 1
        BY FS_Singleton
      <3>2. Cardinality({p} \cup {q}) = IF q \in {p} THEN 1 ELSE 1 + 1
        BY <3>1, FS_AddElement
      <3>3. {p} \cup {q} = {p, q} /\ q \notin {p}
        BY <1>3
      <3> QED
        BY <3>2, <3>3
    <2>8. Cardinality({p, q}) <= Cardinality(SplitSet(p))
      BY <2>4, <2>6, FS_Subset
    <2>9. Cardinality(SplitSet(p)) > 1
      <3>1. Cardinality(SplitSet(p)) \in Nat
        BY <2>6, FS_CardinalityType
      <3> QED
        BY <2>7, <2>8, <3>1
    <2> QED
      BY <1>3, <2>4, <2>5, <2>9 DEF Grouped
  <1> QED
    BY <1>2, <1>3

\* AppRank is a number, so that Before orders it strictly.
LEMMA AppRankNat ==
  ASSUME folder \in Folders, NEW e \in folder.files, e.package # 0
  PROVE  AppRank(e) \in Nat
PROOF
  <1> DEFINE nested == DOMAIN Package(e.package).names
             same   == {i \in nested : AppKey([e EXCEPT !.nested = i]) = AppKey(e)}
             before == {i \in nested : \A j \in same : i < j}
  <1>1. Package(e.package) \in PackageType
    BY FileTyped
  <1>2. nested = 1 .. Len(Package(e.package).names) /\ Len(Package(e.package).names) \in Nat
    BY <1>1 DEF PackageType
  <1>3. IsFiniteSet(nested)
    BY <1>2, FS_Interval
  <1>4. before \subseteq nested
    OBVIOUS
  <1> HIDE DEF before, nested
  <1>5. Cardinality(before) \in Nat
    BY <1>3, <1>4, FS_Subset, FS_CardinalityType
  <1> QED
    BY <1>5 DEF AppRank, before, same, nested

\* Two entries of one package and application have the same rank.
LEMMA SameAppSameRank ==
  ASSUME NEW l, NEW m, l.package # 0, l \in FileType, m \in FileType,
         l.package = m.package, AppKey(l) = AppKey(m)
  PROVE  AppRank(l) = AppRank(m)
PROOF
  <1>1. ASSUME NEW i
        PROVE  AppKey([l EXCEPT !.nested = i]) = AppKey([m EXCEPT !.nested = i])
    BY DEF AppKey, FileType
  <1>2. \A i : AppKey([l EXCEPT !.nested = i]) = AppKey(l)
                <=> AppKey([m EXCEPT !.nested = i]) = AppKey(m)
    BY <1>1
  <1> QED
    BY <1>2 DEF AppRank

\* When metadata is next, no library of its application is pending: every
\* earlier stage, pass and priority is over.
LEMMA LibrariesComeFirst ==
  ASSUME folder \in Folders, PendingIsOpen, WellNamed(folder),
         NEW m \in pending, NEW l \in pending,
         IsNext(m), m.content \in Metadata, l.content \in Library,
         AppKey(l) = AppKey(m)
  PROVE  FALSE
PROOF
  <1>1. l \in folder.files /\ m \in folder.files /\ l # m
    BY FolderAssumption DEF PendingIsOpen
  <1>2. l \in FileType /\ m \in FileType
    BY <1>1, FileTyped
  <1>3. l.so /\ ~ m.so
    BY <1>1 DEF WellNamed
  <1>4. UnitOf(l) = UnitOf(m) \/ Before(UnitOf(m), UnitOf(l))
    BY DEF IsNext, Current, PendingIsOpen
  <1>5. UnitOf(l) = UnitOf(m) => Before(FileOrder(m), FileOrder(l))
    BY <1>1 DEF IsNext
  <1>6. CASE l.package = 0 /\ m.package = 0
    <2>1. LooseStage(l) = 1 /\ LooseStage(m) = 3
      BY FolderAssumption DEF LooseStage
    <2>2. UnitOf(l) = <<1, 0, l.pos>> /\ UnitOf(m) = <<3, 0, m.pos>>
      BY <1>6, <2>1 DEF UnitOf
    <2>3. UnitOf(l)[1] = 1 /\ UnitOf(m)[1] = 3 /\ DOMAIN UnitOf(m) = 1 .. 3
      BY <2>2
    <2>4. Before(UnitOf(m), UnitOf(l))
      BY <1>4, <2>3
    <2>5. PICK i \in 1 .. 3 : /\ UnitOf(m)[i] < UnitOf(l)[i]
                              /\ \A j \in 1 .. i - 1 : UnitOf(m)[j] = UnitOf(l)[j]
      BY <2>3, <2>4 DEF Before
    <2> QED
      BY <2>3, <2>5
  <1>7. CASE l.package = 0 /\ m.package # 0
    BY <1>2, <1>7 DEF AppKey, FileType
  <1>8. CASE l.package # 0 /\ m.package = 0
    BY <1>2, <1>8 DEF AppKey, FileType
  <1>9. CASE l.package # 0 /\ m.package # 0
    <2>1. /\ UnitOf(l) = UnitOf(m)
          /\ l.package # m.package => Grouped(l) /\ Grouped(m)
      BY <1>1, <1>9, SameAppSameUnit
    <2> DEFINE s == FileOrder(m)
               t == FileOrder(l)
    <2>2. Before(s, t)
      BY <1>5, <2>1
    <2>3. /\ s[1] = Pass(m) /\ s[2] = m.package /\ s[3] = AppRank(m) /\ s[4] = 1
          /\ t[1] = Pass(l) /\ t[2] = l.package /\ t[3] = AppRank(l) /\ t[4] = 0
          /\ DOMAIN s = 1 .. 6
      BY <1>3, <1>9 DEF FileOrder, Priority
    <2> HIDE DEF s, t
    <2>4. PICK i \in 1 .. 6 : s[i] < t[i] /\ \A j \in 1 .. i - 1 : s[j] = t[j]
      BY <2>2, <2>3 DEF Before
    <2>5. CASE l.package # m.package
      <3>1. s[1] = 1 /\ t[1] = 0
        BY <1>3, <2>1, <2>3, <2>5 DEF Pass, Priority
      <3> QED
        BY <2>4, <3>1
    <2>6. CASE l.package = m.package
      <3>1. s[3] = t[3] /\ s[3] \in Nat
        BY <1>1, <1>2, <1>9, <2>3, <2>6, SameAppSameRank, AppRankNat
      <3>2. s[2] = t[2] /\ s[2] \in Nat
        BY <1>2, <2>3, <2>6 DEF FileType
      <3>3. s[1] \in {0, 1} /\ t[1] \in {0, 1} /\ s[1] >= t[1]
        <4>1. Grouped(l) <=> Grouped(m)
          BY <2>6 DEF Grouped
        <4> QED
          BY <1>3, <2>3, <4>1 DEF Pass, Priority
      <3> QED
        BY <2>3, <2>4, <3>1, <3>2, <3>3
    <2> QED
      BY <2>5, <2>6
  <1> QED
    BY <1>6, <1>7, <1>8, <1>9

-----------------------------------------------------------------------------
(* The invariant.                                                          *)

\* Everything about files and applications depends on the folder alone.
LEMMA FolderFixed ==
  ASSUME folder' = folder
  PROVE  /\ Apps' = Apps /\ Units' = Units
         /\ \A e : AppKey(e)' = AppKey(e) /\ UnitOf(e)' = UnitOf(e)
         /\ \A a : ModulesOf(a)' = ModulesOf(a)
PROOF
  <1>1. /\ \A e : AppKey(e)' = AppKey(e)
        /\ Packages' = Packages
        /\ \A p : Named(p)' = Named(p) /\ Package(p)' = Package(p)
        /\ \A p : PackageSet(p)' = PackageSet(p)
    BY DEF AppKey, Packages, Named, Package, PackageSet
  <1>2. \A p : SplitSet(p)' = SplitSet(p)
    BY <1>1 DEF SplitSet
  <1>3. \A p : PackageUnit(p)' = PackageUnit(p)
    BY <1>1, <1>2 DEF PackageUnit, Leader
  <1>4. \A e : UnitOf(e)' = UnitOf(e)
    BY <1>3 DEF UnitOf, LooseStage
  <1>5. \A a : ModulesOf(a)' = ModulesOf(a)
    BY <1>1 DEF ModulesOf
  <1> QED
    BY <1>1, <1>3, <1>4, <1>5 DEF Apps, Units

\* Counters stay numbers.
LEMMA PlusTyped ==
  ASSUME NEW s \in [DOMAIN Nothing -> Nat], NEW t \in [DOMAIN Nothing -> Nat]
  PROVE  Plus(s, t) \in [DOMAIN Nothing -> Nat]
PROOF
  BY DEF Plus

LEMMA OutcomesTyped ==
  /\ Nothing \in [DOMAIN Nothing -> Nat]
  /\ Skipped \in [DOMAIN Nothing -> Nat]
  /\ Failed \in [DOMAIN Nothing -> Nat]
  /\ Restored \in [DOMAIN Nothing -> Nat]
  /\ [Nothing EXCEPT !.unpacked = 1] \in [DOMAIN Nothing -> Nat]
  /\ [Nothing EXCEPT !.unpacked = 1, !.metadata = 1] \in [DOMAIN Nothing -> Nat]
  /\ \A k \in {0, 1} :
       [Nothing EXCEPT !.unpacked = 1, !.suspect = k] \in [DOMAIN Nothing -> Nat]
PROOF
  <1> DEFINE K == {"unpacked", "skipped", "errors", "suspect", "metadata", "packages"}
  <1>1. DOMAIN Nothing = K /\ Nothing \in [K -> Nat]
    BY DEF Nothing
  <1>2. ASSUME NEW s \in [K -> Nat], NEW k \in K, NEW v \in {0, 1}
        PROVE  [s EXCEPT ![k] = v] \in [K -> Nat]
    OBVIOUS
  <1>3. /\ Skipped \in [K -> Nat] /\ Failed \in [K -> Nat] /\ Restored \in [K -> Nat]
        /\ [Nothing EXCEPT !.unpacked = 1] \in [K -> Nat]
    BY <1>1, <1>2 DEF Skipped, Failed, Restored
  <1>4. /\ [Nothing EXCEPT !.unpacked = 1, !.metadata = 1] \in [K -> Nat]
        /\ \A k \in {0, 1} : [Nothing EXCEPT !.unpacked = 1, !.suspect = k] \in [K -> Nat]
    BY <1>1, <1>2, <1>3
  <1> QED
    BY <1>1, <1>3, <1>4

LEMMA CountTyped ==
  ASSUME tally \in [DOMAIN Nothing -> Nat],
         NEW outcome \in [DOMAIN Nothing -> Nat], Count(outcome)
  PROVE  tally' \in [DOMAIN Nothing -> Nat]
PROOF
  BY PlusTyped DEF Count

\* What processing one file leaves alone.
LEMMA ProcessFrame ==
  ASSUME TypeOK, NEW e, Process(e)
  PROVE  /\ e \in folder.files /\ e \in pending /\ IsNext(e)
         /\ folder' = folder /\ folder' \in Folders
         /\ (todo \subseteq Units)'
         /\ pending' \subseteq pending
         /\ (pending \subseteq {f \in folder.files : UnitOf(f) \in todo})'
         /\ summary' \in [DOMAIN Nothing -> Nat]
         /\ AppKey(e) \in Apps
PROOF
  <1>1. /\ e \in pending /\ pending' = pending \ {e}
        /\ folder' = folder /\ todo' = todo /\ summary' = summary
        /\ IsNext(e)
    BY DEF Process, IsNext
  <1>2. /\ Units' = Units
        /\ \A f : UnitOf(f)' = UnitOf(f)
    BY <1>1, FolderFixed
  <1> QED
    BY <1>1, <1>2 DEF TypeOK, Apps

\* Recording a library's module touches its own application only, and with a
\* module of its own.
LEMMA RecordFrame ==
  ASSUME TypeOK, ModulesStayHome, folder' = folder,
         NEW e \in folder.files, e.content \in Library, Record(AppKey(e), e.content)
  PROVE  /\ (modules \in [Apps -> SUBSET Module])'
         /\ ModulesStayHome'
         /\ \A a \in Apps : a # AppKey(e) => modules'[a] = modules[a]
PROOF
  <1>1. /\ modules \in [Apps -> SUBSET Module]
        /\ \A a \in Apps : modules[a] \subseteq ModulesOf(a)
        /\ AppKey(e) \in Apps
    BY DEF TypeOK, ModulesStayHome, Apps
  <1>2. Apps' = Apps /\ \A a : ModulesOf(a)' = ModulesOf(a)
    BY FolderFixed
  <1>3. CASE ModuleOf[e.content] = NoModule
    BY <1>1, <1>2, <1>3 DEF Record, ModulesStayHome
  <1>4. CASE ModuleOf[e.content] # NoModule
    <2>1. ModuleOf[e.content] \in Module
      BY <1>4, FolderAssumption
    <2>2. ModuleOf[e.content] \in ModulesOf(AppKey(e))
      BY <1>4 DEF ModulesOf
    <2>3. modules' = [modules EXCEPT ![AppKey(e)] = @ \cup {ModuleOf[e.content]}]
      BY <1>4 DEF Record
    <2> QED
      BY <1>1, <1>2, <2>1, <2>2, <2>3 DEF ModulesStayHome
  <1> QED
    BY <1>3, <1>4

\* Types of the outputs.
LEMMA WrittenTyped ==
  ASSUME NEW e \in folder.files, NEW m \in Module \cup {NoModule},
         NEW kind \in {"pe", "library", "embedded", "metadata"}, folder' = folder
  PROVE  Written(kind, e, m)
           \in [kind : {"pe", "library", "embedded", "metadata"},
               file : folder'.files, module : Module \cup {NoModule}]
PROOF
  BY DEF Written

\* A step that writes no v24 metadata and records no module keeps what was
\* settled.
LEMMA SettledFrame ==
  ASSUME folder' = folder, pending' \subseteq pending,
         V24Outputs' \subseteq V24Outputs, TypeOK, SettledInv,
         \A w \in V24Outputs : modules'[AppKey(w.file)] = modules[AppKey(w.file)]
  PROVE  SettledInv'
PROOF
  <1>1. \A e : AppKey(e)' = AppKey(e)
    BY FolderFixed
  <1> QED
    BY <1>1 DEF SettledInv

\* The recovery context of v24 metadata is its application's only module.
LEMMA ContextSound ==
  ASSUME TypeOK, NEW e \in folder.files, NEW m \in Contexts(e)
  PROVE  /\ m \in Module \cup {NoModule}
         /\ e.content \in V24 => modules[AppKey(e)] = {m}
PROOF
  <1>1. AppKey(e) \in Apps
    BY DEF Apps
  <1> QED
    BY <1>1 DEF TypeOK, Contexts, Binding

\* Processing a file that records no module and caches no blob.
LEMMA IdleStep ==
  ASSUME IInv, NEW e, Process(e), UNCHANGED cache, tally' \in [DOMAIN Nothing -> Nat],
         written' = written
  PROVE  IInv'
PROOF
  <1>1. folder' = folder /\ pending' \subseteq pending
    BY ProcessFrame DEF IInv
  <1>2. Apps' = Apps /\ \A a : ModulesOf(a)' = ModulesOf(a)
    BY <1>1, FolderFixed
  <1>3. TypeOK'
    BY <1>1, <1>2, ProcessFrame DEF IInv, TypeOK, cache
  <1>4. ModulesStayHome'
    BY <1>2 DEF IInv, ModulesStayHome, cache
  <1>5. WellNamed(folder)' => SettledInv'
    BY <1>1, SettledFrame DEF IInv, WellNamed, V24Outputs, cache
  <1> QED
    BY <1>3, <1>4, <1>5 DEF IInv

LEMMA UnpackPeStep ==
  ASSUME IInv, NEW e \in pending, UnpackPe(e)
  PROVE  IInv'
PROOF
  <1>1. /\ Process(e) /\ UNCHANGED cache
        /\ tally \in [DOMAIN Nothing -> Nat]
    BY DEF UnpackPe, IInv, TypeOK
  <1>2. CASE Count(Failed) /\ UNCHANGED written
    BY <1>1, <1>2, CountTyped, OutcomesTyped, IdleStep
  <1>3. ASSUME NEW suspect \in {0, 1},
               Count([Nothing EXCEPT !.unpacked = 1, !.suspect = suspect]),
               written' = written \cup {Written("pe", e, NoModule)}
        PROVE  IInv'
    <2>1. /\ folder' = folder /\ pending' \subseteq pending
          /\ e \in folder.files /\ IsNext(e)
      BY <1>1, ProcessFrame DEF IInv
    <2>2. Apps' = Apps /\ \A a : ModulesOf(a)' = ModulesOf(a)
      BY <2>1, FolderFixed
    <2>3. tally' \in [DOMAIN Nothing -> Nat]
      BY <1>1, <1>3, CountTyped, OutcomesTyped
    <2>4. TypeOK'
      BY <1>1, <1>3, <2>1, <2>2, <2>3, ProcessFrame, WrittenTyped DEF IInv, TypeOK, cache
    <2>5. ModulesStayHome'
      BY <1>1, <2>2 DEF IInv, ModulesStayHome, cache
    <2>6. V24Outputs' = V24Outputs
      BY <1>3 DEF V24Outputs, Written
    <2>7. WellNamed(folder)' => SettledInv'
      BY <1>1, <2>1, <2>6, SettledFrame DEF IInv, WellNamed, cache
    <2> QED
      BY <2>4, <2>5, <2>7 DEF IInv
  <1> QED
    BY <1>2, <1>3 DEF UnpackPe

\* Both library actions that record a module: the application of the library
\* has no v24 metadata written yet.
LEMMA LibraryStep ==
  ASSUME IInv, NEW e \in pending, Process(e), e.content \in Library,
         Record(AppKey(e), e.content),
         libraries' \subseteq Library, blobs' = blobs,
         tally' \in [DOMAIN Nothing -> Nat],
         written' = written
           \/ written' = written \cup {Written("library", e, NoModule)}
           \/ written' = written \cup {Written("library", e, NoModule),
                                       Written("embedded", e, NoModule)}
  PROVE  IInv'
PROOF
  <1>1. /\ folder' = folder /\ pending' \subseteq pending /\ e \in folder.files
    BY ProcessFrame DEF IInv
  <1>2. Apps' = Apps /\ \A a : AppKey(a)' = AppKey(a)
    BY <1>1, FolderFixed
  <1>3. /\ (modules \in [Apps -> SUBSET Module])' /\ ModulesStayHome'
        /\ \A a \in Apps : a # AppKey(e) => modules'[a] = modules[a]
    BY <1>1, RecordFrame DEF IInv
  <1>4. written' \subseteq [kind : {"pe", "library", "embedded", "metadata"},
                            file : folder'.files, module : Module \cup {NoModule}]
    BY <1>1, WrittenTyped DEF IInv, TypeOK
  <1>5. TypeOK'
    BY <1>1, <1>3, <1>4, ProcessFrame DEF IInv, TypeOK
  <1>6. V24Outputs' = V24Outputs
    BY DEF V24Outputs, Written
  <1>7. ASSUME WellNamed(folder) PROVE SettledInv'
    <2>1. \A w \in V24Outputs : AppKey(w.file) # AppKey(e) /\ AppKey(w.file) \in Apps
      BY <1>7 DEF IInv, SettledInv, TypeOK, V24Outputs, Apps
    <2> QED
      BY <1>1, <1>3, <1>6, <1>7, <2>1, SettledFrame DEF IInv
  <1> QED
    BY <1>1, <1>3, <1>5, <1>7 DEF IInv, WellNamed

\* Writing metadata settles its application, whose libraries are all processed.
LEMMA MetadataStep ==
  ASSUME IInv, NEW e \in pending, Process(e), e.content \in Metadata,
         NEW m \in Contexts(e), UNCHANGED <<modules, libraries>>,
         blobs' = blobs \/ blobs' = blobs \cup {<<e.content, m>>},
         tally' \in [DOMAIN Nothing -> Nat],
         written' = written \/ written' = written \cup {Written("metadata", e, m)}
  PROVE  IInv'
PROOF
  <1>1. /\ folder' = folder /\ pending' \subseteq pending
        /\ e \in folder.files /\ IsNext(e)
    BY ProcessFrame DEF IInv
  <1>2. /\ Apps' = Apps /\ \A a : AppKey(a)' = AppKey(a)
        /\ \A a : ModulesOf(a)' = ModulesOf(a)
    BY <1>1, FolderFixed
  <1>3. /\ m \in Module \cup {NoModule}
        /\ e.content \in V24 => modules[AppKey(e)] = {m}
    BY <1>1, ContextSound DEF IInv
  <1>4. written' \subseteq [kind : {"pe", "library", "embedded", "metadata"},
                            file : folder'.files, module : Module \cup {NoModule}]
    BY <1>1, <1>3, WrittenTyped DEF IInv, TypeOK
  <1>5. blobs' \subseteq Metadata \X (Module \cup {NoModule})
    BY <1>3 DEF IInv, TypeOK
  <1>6. TypeOK'
    BY <1>1, <1>2, <1>4, <1>5, ProcessFrame DEF IInv, TypeOK
  <1>7. ModulesStayHome'
    BY <1>2 DEF IInv, ModulesStayHome
  <1>8. ASSUME WellNamed(folder) PROVE SettledInv'
    <2> SUFFICES ASSUME NEW w \in V24Outputs'
                 PROVE  /\ modules'[AppKey(w.file)'] = {w.module}
                        /\ \A f \in pending' :
                             f.content \in Library => AppKey(f)' # AppKey(w.file)'
      BY DEF SettledInv
    <2>1. CASE w \in V24Outputs
      BY <1>1, <1>2, <1>8, <2>1 DEF IInv, SettledInv
    <2>2. CASE w \notin V24Outputs
      <3>1. w = Written("metadata", e, m) /\ w.file = e /\ w.module = m /\ e.content \in V24
        BY <2>2 DEF V24Outputs, Written
      <3>2. modules'[AppKey(w.file)'] = {w.module}
        BY <1>2, <1>3, <3>1
      <3>3. folder \in Folders /\ PendingIsOpen
        BY DEF IInv, TypeOK, PendingIsOpen
      <3>4. \A f \in pending : f.content \in Library => AppKey(f) # AppKey(e)
        BY <1>1, <1>8, <3>3, LibrariesComeFirst
      <3> QED
        BY <1>1, <1>2, <3>1, <3>2, <3>4
    <2> QED
      BY <2>1, <2>2
  <1> QED
    BY <1>1, <1>6, <1>7, <1>8 DEF IInv, WellNamed

\* Closing a unit, finished or given up, drops its files and nothing else.
LEMMA UnitStep ==
  ASSUME IInv, NEW u, NEW outcome \in [DOMAIN Nothing -> Nat],
         folder' = folder, todo' = todo \ {u}, pending' = pending \ FilesOf(u),
         summary' = Plus(Plus(summary, outcome), Opened(u)),
         tally' = Nothing, UNCHANGED <<cache, written>>
  PROVE  IInv'
PROOF
  <1>1. /\ Apps' = Apps /\ Units' = Units
        /\ \A e : AppKey(e)' = AppKey(e) /\ UnitOf(e)' = UnitOf(e)
        /\ \A a : ModulesOf(a)' = ModulesOf(a)
    BY FolderFixed
  <1>2. Opened(u) \in [DOMAIN Nothing -> Nat]
    <2>1. Len(folder.packages) \in Nat
      BY FolderAssumption DEF IInv, TypeOK
    <2>2. IsFiniteSet(Packages)
      BY <2>1, FS_Interval DEF Packages
    <2>3. Members(u) \subseteq Packages
      BY DEF Members
    <2>4. Cardinality(Members(u)) \in Nat
      BY <2>2, <2>3, FS_Subset, FS_CardinalityType
    <2> QED
      BY <2>4 DEF Opened, Nothing
  <1>3. summary' \in [DOMAIN Nothing -> Nat] /\ tally' \in [DOMAIN Nothing -> Nat]
    BY <1>2, PlusTyped, OutcomesTyped DEF IInv, TypeOK
  <1>4. pending' \subseteq {e \in folder.files : UnitOf(e) \in todo'}
    BY DEF IInv, TypeOK, FilesOf
  <1>5. TypeOK'
    BY <1>1, <1>3, <1>4 DEF IInv, TypeOK, cache
  <1>6. ModulesStayHome'
    BY <1>1 DEF IInv, ModulesStayHome, cache
  <1>7. WellNamed(folder)' => SettledInv'
    BY SettledFrame DEF IInv, WellNamed, V24Outputs, cache
  <1> QED
    BY <1>5, <1>6, <1>7 DEF IInv

LEMMA InitIInv == Init => IInv
PROOF
  <1> SUFFICES ASSUME Init PROVE IInv
    OBVIOUS
  <1>1. folder.files = pending /\ todo = Units /\ written = {} /\ libraries = {} /\ blobs = {}
    BY DEF Init
  <1>2. modules = [a \in Apps |-> {}]
    BY DEF Init
  <1>3. summary \in [DOMAIN Nothing -> Nat]
    <2> DEFINE K == {"unpacked", "skipped", "errors", "suspect", "metadata", "packages"}
    <2>1. PICK skipped \in {0, 1}, unreadable \in {0, 1} :
            summary = [Nothing EXCEPT !.skipped = skipped, !.errors = unreadable]
      BY DEF Init
    <2>2. DOMAIN Nothing = K /\ Nothing \in [K -> Nat]
      BY DEF Nothing
    <2> DEFINE s == [Nothing EXCEPT !.skipped = skipped]
    <2>3. s \in [K -> Nat]
      BY <2>2
    <2>4. summary = [s EXCEPT !.errors = unreadable]
      BY <2>1
    <2> HIDE DEF s
    <2> QED
      BY <2>2, <2>3, <2>4
  <1>4. pending \subseteq {e \in folder.files : UnitOf(e) \in todo}
    BY <1>1 DEF Units
  <1>5. TypeOK
    BY <1>1, <1>2, <1>3, <1>4, OutcomesTyped DEF Init, TypeOK
  <1>6. ModulesStayHome
    BY <1>2 DEF ModulesStayHome
  <1>7. SettledInv
    BY <1>1 DEF SettledInv, V24Outputs
  <1> QED
    BY <1>5, <1>6, <1>7 DEF IInv

LEMMA NextIInv == IInv /\ [Next]_vars => IInv'
PROOF
  <1> SUFFICES ASSUME IInv, [Next]_vars PROVE IInv'
    OBVIOUS
  <1> USE OutcomesTyped, CountTyped
  <1>0. tally \in [DOMAIN Nothing -> Nat] /\ libraries \subseteq Library
        /\ pending \subseteq folder.files
    BY DEF IInv, TypeOK
  <1>1. ASSUME NEW e \in pending, UnpackPe(e) PROVE IInv'
    BY <1>1, UnpackPeStep
  <1>2. ASSUME NEW e \in pending, DuplicateLibrary(e) PROVE IInv'
    BY <1>0, <1>2, LibraryStep DEF DuplicateLibrary, RecordDuplicate
  <1>3. ASSUME NEW e \in pending, RestoreLibrary(e) PROVE IInv'
    <2>1. Process(e) /\ e.content \in Library /\ Record(AppKey(e), e.content)
          /\ libraries' \subseteq Library /\ blobs' = blobs
      BY <1>0, <1>3 DEF RestoreLibrary
    <2>2. tally' \in [DOMAIN Nothing -> Nat]
      BY <1>0, <1>3 DEF RestoreLibrary
    <2> QED
      BY <1>3, <2>1, <2>2, LibraryStep DEF RestoreLibrary
  <1>4. ASSUME NEW e \in pending, FailLibrary(e) PROVE IInv'
    <2>1. Process(e) /\ UNCHANGED cache /\ tally' \in [DOMAIN Nothing -> Nat]
      BY <1>0, <1>4 DEF FailLibrary
    <2>2. CASE UNCHANGED written
      BY <2>1, <2>2, IdleStep
    <2>3. CASE written' = written \cup {Written("library", e, NoModule)}
      <3>1. folder' = folder /\ pending' \subseteq pending
        BY <2>1, ProcessFrame DEF IInv
      <3>2. Apps' = Apps /\ \A a : ModulesOf(a)' = ModulesOf(a)
        BY <3>1, FolderFixed
      <3>3. TypeOK'
        BY <1>0, <2>1, <2>3, <3>1, <3>2, ProcessFrame, WrittenTyped DEF IInv, TypeOK, cache
      <3>4. ModulesStayHome'
        BY <2>1, <3>2 DEF IInv, ModulesStayHome, cache
      <3>5. V24Outputs' = V24Outputs
        BY <2>3 DEF V24Outputs, Written
      <3>6. WellNamed(folder)' => SettledInv'
        BY <2>1, <3>1, <3>5, SettledFrame DEF IInv, WellNamed, cache
      <3> QED
        BY <3>3, <3>4, <3>6 DEF IInv
    <2> QED
      BY <1>4, <2>2, <2>3 DEF FailLibrary
  <1>5. ASSUME NEW e \in pending, RestoreMetadata(e) PROVE IInv'
    BY <1>0, <1>5, MetadataStep DEF RestoreMetadata, CacheBlob
  <1>6. ASSUME NEW e \in pending, KeepMetadata(e) PROVE IInv'
    <2>1. tally' \in [DOMAIN Nothing -> Nat]
      BY <1>0, <1>6 DEF KeepMetadata
    <2> QED
      BY <1>6, <2>1, MetadataStep DEF KeepMetadata, CacheBlob
  <1>7. ASSUME NEW e \in pending, DuplicateMetadata(e) PROVE IInv'
    BY <1>0, <1>7, IdleStep DEF DuplicateMetadata
  <1>8. ASSUME NEW e \in pending, FailMetadata(e) PROVE IInv'
    BY <1>0, <1>8, IdleStep DEF FailMetadata
  <1>9. ASSUME NEW e \in pending, UnsupportedMetadata(e) PROVE IInv'
    BY <1>0, <1>9, IdleStep DEF UnsupportedMetadata
  <1>10. ASSUME NEW e \in pending, NotTarget(e) PROVE IInv'
    BY <1>0, <1>10, IdleStep DEF NotTarget
  <1>11. ASSUME NEW u \in todo, FinishUnit(u) PROVE IInv'
    <2>1. pending' = pending \ FilesOf(u)
      BY <1>11 DEF FinishUnit
    <2> QED
      BY <1>0, <1>11, <2>1, UnitStep DEF FinishUnit
  <1>12. ASSUME NEW u \in todo, AbortUnit(u) PROVE IInv'
    BY <1>12, UnitStep DEF AbortUnit
  <1>13. CASE UNCHANGED vars
    <2>1. /\ Apps' = Apps /\ Units' = Units
          /\ \A e : AppKey(e)' = AppKey(e) /\ UnitOf(e)' = UnitOf(e)
          /\ \A a : ModulesOf(a)' = ModulesOf(a)
      BY <1>13, FolderFixed DEF vars
    <2> QED
      BY <1>13, <2>1 DEF IInv, TypeOK, ModulesStayHome, SettledInv, V24Outputs, WellNamed,
                         vars, cache
  <1> QED
    BY <1>1, <1>2, <1>3, <1>4, <1>5, <1>6, <1>7, <1>8, <1>9, <1>10, <1>11, <1>12, <1>13
       DEF Next, ProcessFile, Done

THEOREM Invariance == Spec => []IInv
PROOF
  <1> QED
    BY InitIInv, NextIInv, PTL DEF Spec

\* Every reachable state is well typed, for every set of folders.
THEOREM TypeCorrect == Spec => []TypeOK
PROOF
  <1> QED
    BY Invariance, PTL DEF IInv

\* No application ever learns a module none of its libraries carries.
THEOREM ModulesAreTheirOwn == Spec => []ModulesStayHome
PROOF
  <1> QED
    BY Invariance, PTL DEF IInv

\* Metadata stays bound to the only module its application has.
THEOREM BindingIsFinal == Spec => []BindingStaysSole
PROOF
  <1>1. IInv => BindingStaysSole
    BY DEF IInv, SettledInv, V24Outputs, BindingStaysSole
  <1> QED
    BY <1>1, Invariance, PTL

-----------------------------------------------------------------------------
(* The run implements AppRecovery.                                         *)

Recovered == {<<AppKey(w.file), w.module>> : w \in V24Outputs}

\* A step that settles nothing and learns nothing is a stutter.
LEMMA Stutter ==
  ASSUME folder' = folder, modules' = modules, V24Outputs' = V24Outputs
  PROVE  Recovered' = Recovered
PROOF
  BY FolderFixed DEF Recovered

\* Recording a module is Learn, for an application that is not settled.
LEMMA RecordIsLearn ==
  ASSUME IInv, WellNamed(folder), NEW e \in pending, e.content \in Library,
         folder' = folder, Record(AppKey(e), e.content), V24Outputs' = V24Outputs
  PROVE  \/ modules' = modules /\ Recovered' = Recovered
         \/ \E a \in DOMAIN modules, m \in Module :
              /\ ~ \E r \in Recovered : r[1] = a
              /\ modules' = [modules EXCEPT ![a] = @ \cup {m}]
              /\ Recovered' = Recovered
PROOF
  <1>1. Recovered' = Recovered
    BY FolderFixed DEF Recovered
  <1>2. CASE ModuleOf[e.content] = NoModule
    BY <1>1, <1>2 DEF Record
  <1>3. CASE ModuleOf[e.content] # NoModule
    <2>1. ModuleOf[e.content] \in Module
      BY <1>3, FolderAssumption
    <2>2. AppKey(e) \in DOMAIN modules
      BY DEF IInv, TypeOK, Apps
    <2>3. ~ \E r \in Recovered : r[1] = AppKey(e)
      BY DEF IInv, SettledInv, Recovered
    <2>4. modules' = [modules EXCEPT ![AppKey(e)] = @ \cup {ModuleOf[e.content]}]
      BY <1>3 DEF Record
    <2> QED
      BY <1>1, <2>1, <2>2, <2>3, <2>4
  <1> QED
    BY <1>2, <1>3

\* Writing metadata is Recover when it is v24, and a stutter when it is not.
LEMMA RestoreIsRecover ==
  ASSUME IInv, NEW e \in pending, RestoreMetadata(e)
  PROVE  \/ modules' = modules /\ Recovered' = Recovered
         \/ \E a \in DOMAIN modules, m \in Module :
              /\ modules[a] = {m}
              /\ Recovered' = Recovered \cup {<<a, m>>}
              /\ modules' = modules
PROOF
  <1>1. PICK m \in Contexts(e) : /\ Process(e)
                                 /\ written' = written \cup {Written("metadata", e, m)}
    BY DEF RestoreMetadata
  <1>2. modules' = modules /\ folder' = folder /\ e \in folder.files
    BY <1>1, ProcessFrame DEF IInv, RestoreMetadata
  <1>3. \A f : AppKey(f)' = AppKey(f)
    BY <1>2, FolderFixed
  <1>4. CASE e.content \notin V24
    <2>1. V24Outputs' = V24Outputs
      BY <1>1, <1>4 DEF V24Outputs, Written
    <2> QED
      BY <1>2, <2>1, Stutter
  <1>5. CASE e.content \in V24
    <2>1. V24Outputs' = V24Outputs \cup {Written("metadata", e, m)}
      BY <1>1, <1>5 DEF V24Outputs, Written
    <2>2. Recovered' = Recovered \cup {<<AppKey(e), m>>}
      <3> DEFINE w0 == Written("metadata", e, m)
      <3>1. w0.file = e /\ w0.module = m
        BY DEF Written
      <3>2. Recovered' = {<<AppKey(w.file), w.module>> : w \in V24Outputs'}
        BY <1>3 DEF Recovered
      <3> HIDE DEF w0
      <3>3. {<<AppKey(w.file), w.module>> : w \in V24Outputs \cup {w0}}
              = Recovered \cup {<<AppKey(w0.file), w0.module>>}
        BY DEF Recovered
      <3> QED
        BY <2>1, <3>1, <3>2, <3>3 DEF w0
    <2>3. modules[AppKey(e)] = {m}
      BY <1>2, <1>5, ContextSound DEF IInv
    <2>4. AppKey(e) \in DOMAIN modules /\ m \in Module
      BY <1>2, <2>3 DEF IInv, TypeOK, Apps
    <2> QED
      BY <1>2, <2>2, <2>3, <2>4
  <1> QED
    BY <1>4, <1>5

\* A step of the run is a step of AppRecovery, or a stutter.
LEMMA StepIsAllowed ==
  ASSUME IInv, WellNamed(folder), [Next]_vars
  PROVE  [Recovery!AppRecoveryNext]_(Recovery!appRecoveryVars)
PROOF
  <1> DEFINE Idle == folder' = folder /\ modules' = modules /\ V24Outputs' = V24Outputs
  <1>0. Recovered = {<<AppKey(w.file), w.module>> :
                       w \in {v \in written : v.kind = "metadata" /\ v.file.content \in V24}}
    BY DEF Recovered, V24Outputs
  <1>1. ASSUME Idle PROVE modules' = modules /\ Recovered' = Recovered
    BY <1>1, Stutter
  <1>2. ASSUME NEW e \in pending, DuplicateLibrary(e)
        PROVE  \/ modules' = modules /\ Recovered' = Recovered
               \/ \E a \in DOMAIN modules, m \in Module :
                    /\ ~ \E r \in Recovered : r[1] = a
                    /\ modules' = [modules EXCEPT ![a] = @ \cup {m}]
                    /\ Recovered' = Recovered
    <2>1. /\ folder' = folder /\ V24Outputs' = V24Outputs
          /\ e.content \in Library /\ Record(AppKey(e), e.content)
      BY <1>2 DEF DuplicateLibrary, Process, RecordDuplicate, V24Outputs
    <2> QED
      BY <2>1, RecordIsLearn
  <1>3. ASSUME NEW e \in pending, RestoreLibrary(e)
        PROVE  \/ modules' = modules /\ Recovered' = Recovered
               \/ \E a \in DOMAIN modules, m \in Module :
                    /\ ~ \E r \in Recovered : r[1] = a
                    /\ modules' = [modules EXCEPT ![a] = @ \cup {m}]
                    /\ Recovered' = Recovered
    <2>1. /\ folder' = folder /\ V24Outputs' = V24Outputs
          /\ e.content \in Library /\ Record(AppKey(e), e.content)
      BY <1>3 DEF RestoreLibrary, Process, V24Outputs, Written
    <2> QED
      BY <2>1, RecordIsLearn
  <1>4. ASSUME NEW e \in pending, ProcessFile(e),
               ~ DuplicateLibrary(e), ~ RestoreLibrary(e), ~ RestoreMetadata(e)
        PROVE  Idle
    <2>1. CASE UnpackPe(e)
      BY <2>1 DEF UnpackPe, Process, V24Outputs, Written, cache
    <2>2. CASE FailLibrary(e)
      BY <2>2 DEF FailLibrary, Process, V24Outputs, Written, cache
    <2>3. CASE KeepMetadata(e)
      BY <2>3 DEF KeepMetadata, Process, V24Outputs
    <2>4. CASE DuplicateMetadata(e)
      BY <2>4 DEF DuplicateMetadata, Process, V24Outputs, cache
    <2>5. CASE FailMetadata(e) \/ UnsupportedMetadata(e) \/ NotTarget(e)
      BY <2>5 DEF FailMetadata, UnsupportedMetadata, NotTarget, Process, V24Outputs, cache
    <2> QED
      BY <1>4, <2>1, <2>2, <2>3, <2>4, <2>5 DEF ProcessFile
  <1>5. ASSUME NEW u \in todo, FinishUnit(u) \/ AbortUnit(u)
        PROVE  Idle
    BY <1>5 DEF FinishUnit, AbortUnit, V24Outputs, cache
  <1>6. ASSUME UNCHANGED vars PROVE Idle
    BY <1>6 DEF vars, cache, V24Outputs
  <1>7. \/ modules' = modules /\ Recovered' = Recovered
        \/ \E a \in DOMAIN modules, m \in Module :
             \/ /\ ~ \E r \in Recovered : r[1] = a
                /\ modules' = [modules EXCEPT ![a] = @ \cup {m}]
                /\ Recovered' = Recovered
             \/ /\ modules[a] = {m}
                /\ Recovered' = Recovered \cup {<<a, m>>}
                /\ modules' = modules
    <2> HIDE DEF Idle
    <2>1. CASE \E e \in pending : ProcessFile(e)
      BY <1>1, <1>2, <1>3, <1>4, <2>1, RestoreIsRecover
    <2>2. CASE \E u \in todo : FinishUnit(u) \/ AbortUnit(u)
      BY <1>1, <1>5, <2>2
    <2>3. CASE UNCHANGED vars
      BY <1>1, <1>6, <2>3
    <2> QED
      BY <2>1, <2>2, <2>3 DEF Next, Done
  <1> QED
    BY <1>7 DEF Recovery!AppRecoveryNext, Recovery!Learn, Recovery!Recover,
                Recovery!Settled, Recovery!Applications, Recovery!appRecoveryVars,
                Recovered, V24Outputs

\* When package entries are named for what they hold, the run does only what
\* AppRecovery allows.
THEOREM KeepsPromise ==
  ASSUME \A F \in Folders : WellNamed(F)
  PROVE  Spec => AppRecoverySpec
PROOF
  <1>1. Init => Recovery!AppRecoveryInit
    BY DEF Init, Recovery!AppRecoveryInit, Recovery!Applications
  <1>2. IInv /\ [Next]_vars => [Recovery!AppRecoveryNext]_(Recovery!appRecoveryVars)
    BY StepIsAllowed DEF IInv, TypeOK
  <1> QED
    BY <1>1, <1>2, Invariance, PTL DEF Spec, AppRecoverySpec, Recovery!AppRecoverySpec

-----------------------------------------------------------------------------
(* The summary.                                                            *)

CountOf(A, kinds) == Cardinality({w \in A : w.kind \in kinds})

Total == Plus(summary, tally)

\* No error was counted so far, in the open unit or before it.
Clean == summary.errors = 0 /\ tally.errors = 0

\* The outputs so far are those of files that are no longer pending, and the
\* counters keep to them: exactly, as long as nothing failed.
CountedInv ==
  /\ IsFiniteSet(written)
  /\ \A w \in written : w.file \notin pending
  /\ Total.unpacked <= CountOf(written, {"pe", "library"})
  /\ Total.metadata <= CountOf(written, {"metadata", "embedded"})
  /\ Total.suspect <= CountOf(written, {"pe"})
  /\ Clean => /\ Total.unpacked = CountOf(written, {"pe", "library"})
              /\ Total.metadata = CountOf(written, {"metadata", "embedded"})
  /\ todo = {} => tally = Nothing

Processed == folder.files \ pending

ProgramsUnpacked ==
  \A e \in Processed : e.content \in Program => Written("pe", e, NoModule) \in written

LibrariesLearned ==
  \A e \in Processed : e.content \in Library =>
    /\ e.content \in libraries
    /\ ModuleOf[e.content] # NoModule => ModuleOf[e.content] \in modules[AppKey(e)]

\* A cached library was written once, from a copy of the earliest kind of source.
SoleLibraries ==
  /\ \A c \in libraries : \E w \in written : w.kind = "library" /\ w.file.content = c
  /\ \A w \in written : w.kind = "library" =>
       /\ w.file.content \in libraries
       /\ \A v \in written : v.kind = "library" /\ v.file.content = w.file.content => v = w
       /\ \A e \in folder.files :
            e.content = w.file.content => SourceRank(w.file) <= SourceRank(e)

\* The application of a handled v24 blob has one module, and learns no other.
V24Bound ==
  \A e \in Processed : e.content \in V24 =>
    /\ \E m \in Module : modules[AppKey(e)] = {m}
    /\ \A l \in pending : l.content \in Library => AppKey(l) # AppKey(e)

CompleteInv ==
  Clean => /\ ProgramsUnpacked /\ LibrariesLearned /\ SoleLibraries
           /\ WellNamed(folder) => V24Bound

\* What a file adds to the counters and to the outputs: one for each output, or
\* an error.
Effect(e, o, A) ==
  /\ tally' = Plus(tally, o) /\ written' = written \cup A
  /\ IsFiniteSet(A) /\ \A w \in A : w.file = e
  /\ o.unpacked <= CountOf(A, {"pe", "library"})
  /\ o.metadata <= CountOf(A, {"metadata", "embedded"})
  /\ o.suspect <= CountOf(A, {"pe"})
  /\ o.errors = 0 => /\ o.unpacked = CountOf(A, {"pe", "library"})
                     /\ o.metadata = CountOf(A, {"metadata", "embedded"})

LEMMA CountOfParts ==
  ASSUME NEW A, NEW B, NEW kinds, IsFiniteSet(A), IsFiniteSet(B), A \cap B = {}
  PROVE  /\ CountOf(A, kinds) \in Nat /\ CountOf(B, kinds) \in Nat
         /\ CountOf(A \cup B, kinds) = CountOf(A, kinds) + CountOf(B, kinds)
PROOF
  <1> DEFINE a == {w \in A : w.kind \in kinds}
             b == {w \in B : w.kind \in kinds}
  <1>1. IsFiniteSet(a) /\ IsFiniteSet(b)
    BY FS_Subset
  <1>2. a \cap b = {} /\ {w \in A \cup B : w.kind \in kinds} = a \cup b
    OBVIOUS
  <1> HIDE DEF a, b
  <1>3. Cardinality(a) \in Nat /\ Cardinality(b) \in Nat
    BY <1>1, FS_CardinalityType
  <1>4. Cardinality(a \cup b) = Cardinality(a) + Cardinality(b) - Cardinality(a \cap b)
    BY <1>1, FS_Union
  <1>5. Cardinality(a \cap b) = 0
    BY <1>2, FS_EmptySet
  <1>6. Cardinality(a \cup b) = Cardinality(a) + Cardinality(b)
    BY <1>3, <1>4, <1>5
  <1>7. CountOf(A \cup B, kinds) = Cardinality(a \cup b)
    BY <1>2 DEF CountOf
  <1> QED
    BY <1>3, <1>6, <1>7 DEF CountOf, a, b

LEMMA CountOfNone ==
  ASSUME NEW kinds
  PROVE  IsFiniteSet({}) /\ CountOf({}, kinds) = 0
PROOF
  <1>1. {w \in {} : w.kind \in kinds} = {}
    OBVIOUS
  <1> QED
    BY <1>1, FS_EmptySet DEF CountOf

LEMMA CountOfOne ==
  ASSUME NEW w, NEW kinds
  PROVE  IsFiniteSet({w}) /\ CountOf({w}, kinds) = IF w.kind \in kinds THEN 1 ELSE 0
PROOF
  <1>1. CASE w.kind \in kinds
    <2>1. {v \in {w} : v.kind \in kinds} = {w}
      BY <1>1
    <2> QED
      BY <1>1, <2>1, FS_Singleton DEF CountOf
  <1>2. CASE w.kind \notin kinds
    <2>1. {v \in {w} : v.kind \in kinds} = {}
      BY <1>2
    <2> QED
      BY <1>2, <2>1, FS_Singleton, FS_EmptySet DEF CountOf
  <1> QED
    BY <1>1, <1>2

LEMMA WrittenFields ==
  ASSUME NEW kind, NEW e, NEW m
  PROVE  /\ Written(kind, e, m).kind = kind
         /\ Written(kind, e, m).file = e
         /\ Written(kind, e, m).module = m
PROOF
  BY DEF Written

\* The counters each outcome carries.
LEMMA OutcomeFields ==
  /\ \A o \in {Nothing, Skipped, Failed, Restored} : o.unpacked = 0 /\ o.suspect = 0
  /\ Nothing.metadata = 0 /\ Skipped.metadata = 0 /\ Failed.metadata = 0 /\ Restored.metadata = 1
  /\ Failed.errors = 1
  /\ LET o == [Nothing EXCEPT !.unpacked = 1]
     IN  o.unpacked = 1 /\ o.metadata = 0 /\ o.suspect = 0
  /\ LET o == [Nothing EXCEPT !.unpacked = 1, !.metadata = 1]
     IN  o.unpacked = 1 /\ o.metadata = 1 /\ o.suspect = 0
  /\ \A k \in {0, 1} :
       LET o == [Nothing EXCEPT !.unpacked = 1, !.suspect = k]
       IN  o.unpacked = 1 /\ o.metadata = 0 /\ o.suspect = k
PROOF
  <1> DEFINE K == {"unpacked", "skipped", "errors", "suspect", "metadata", "packages"}
  <1>1. /\ Nothing \in [K -> Nat]
        /\ Nothing.unpacked = 0 /\ Nothing.metadata = 0 /\ Nothing.suspect = 0 /\ Nothing.errors = 0
    BY DEF Nothing
  <1>2. /\ Skipped.unpacked = 0 /\ Skipped.metadata = 0 /\ Skipped.suspect = 0
        /\ Failed.unpacked = 0 /\ Failed.metadata = 0 /\ Failed.suspect = 0 /\ Failed.errors = 1
        /\ Restored.unpacked = 0 /\ Restored.metadata = 1 /\ Restored.suspect = 0
    BY <1>1 DEF Skipped, Failed, Restored
  <1> QED
    BY <1>1, <1>2

\* An outcome with no output.
LEMMA EffectNone ==
  ASSUME NEW e, NEW o \in {Nothing, Skipped, Failed}, Count(o), written' = written
  PROVE  Effect(e, o, {})
PROOF
  <1>1. o.unpacked = 0 /\ o.metadata = 0 /\ o.suspect = 0
    BY OutcomeFields
  <1>2. written' = written \cup {}
    OBVIOUS
  <1> QED
    BY <1>1, <1>2, CountOfNone DEF Effect, Count

\* An outcome with one output.
LEMMA EffectOne ==
  ASSUME NEW e, NEW o, NEW kind, NEW m, Count(o),
         written' = written \cup {Written(kind, e, m)},
         \/ o = Failed /\ kind = "library"
         \/ o = [Nothing EXCEPT !.unpacked = 1] /\ kind = "library"
         \/ o = Restored /\ kind = "metadata"
         \/ kind = "pe" /\ \E k \in {0, 1} : o = [Nothing EXCEPT !.unpacked = 1, !.suspect = k]
  PROVE  Effect(e, o, {Written(kind, e, m)})
PROOF
  <1> DEFINE w == Written(kind, e, m)
  <1>1. w.kind = kind /\ w.file = e
    BY WrittenFields
  <1> HIDE DEF w
  <1>2. /\ IsFiniteSet({w})
        /\ CountOf({w}, {"pe", "library"}) = IF kind \in {"pe", "library"} THEN 1 ELSE 0
        /\ CountOf({w}, {"metadata", "embedded"}) = IF kind \in {"metadata", "embedded"} THEN 1 ELSE 0
        /\ CountOf({w}, {"pe"}) = IF kind \in {"pe"} THEN 1 ELSE 0
    BY <1>1, CountOfOne
  <1>3. /\ o.unpacked <= CountOf({w}, {"pe", "library"})
        /\ o.metadata <= CountOf({w}, {"metadata", "embedded"})
        /\ o.suspect <= CountOf({w}, {"pe"})
        /\ o.errors = 0 => /\ o.unpacked = CountOf({w}, {"pe", "library"})
                           /\ o.metadata = CountOf({w}, {"metadata", "embedded"})
    <2>1. CASE o = Failed /\ kind = "library"
      BY <1>2, <2>1, OutcomeFields
    <2>2. CASE o = [Nothing EXCEPT !.unpacked = 1] /\ kind = "library"
      <3>1. o.unpacked = 1 /\ o.metadata = 0 /\ o.suspect = 0
        BY <2>2, OutcomeFields
      <3> QED
        BY <1>2, <2>2, <3>1
    <2>3. CASE o = Restored /\ kind = "metadata"
      BY <1>2, <2>3, OutcomeFields
    <2>4. CASE kind = "pe" /\ \E k \in {0, 1} : o = [Nothing EXCEPT !.unpacked = 1, !.suspect = k]
      <3>1. o.unpacked = 1 /\ o.metadata = 0 /\ o.suspect \in {0, 1}
        BY <2>4, OutcomeFields
      <3> QED
        BY <1>2, <2>4, <3>1
    <2> QED
      BY <2>1, <2>2, <2>3, <2>4
  <1>4. tally' = Plus(tally, o) /\ written' = written \cup {w}
    BY DEF Count, w
  <1>5. \A v \in {w} : v.file = e
    BY <1>1
  <1> QED
    BY <1>2, <1>3, <1>4, <1>5 DEF Effect, w

\* A library restored together with the metadata it embeds.
LEMMA EffectTwo ==
  ASSUME NEW e, Count([Nothing EXCEPT !.unpacked = 1, !.metadata = 1]),
         written' = written \cup {Written("library", e, NoModule), Written("embedded", e, NoModule)}
  PROVE  \E A : /\ Effect(e, [Nothing EXCEPT !.unpacked = 1, !.metadata = 1], A)
                /\ A = {Written("library", e, NoModule), Written("embedded", e, NoModule)}
PROOF
  <1> DEFINE w == Written("library", e, NoModule)
             v == Written("embedded", e, NoModule)
             o == [Nothing EXCEPT !.unpacked = 1, !.metadata = 1]
  <1>1. w.kind = "library" /\ v.kind = "embedded" /\ w.file = e /\ v.file = e
    BY WrittenFields
  <1>2. o.unpacked = 1 /\ o.metadata = 1 /\ o.suspect = 0
    BY OutcomeFields
  <1>3. tally' = Plus(tally, o) /\ written' = written \cup {w, v}
    BY DEF Count
  <1> HIDE DEF w, v, o
  <1> DEFINE W == {w}
             V == {v}
  <1>4. W \cap V = {} /\ W \cup V = {w, v}
    BY <1>1
  <1>5. /\ IsFiniteSet(W) /\ IsFiniteSet(V)
        /\ CountOf(W, {"pe", "library"}) = 1 /\ CountOf(V, {"pe", "library"}) = 0
        /\ CountOf(W, {"metadata", "embedded"}) = 0 /\ CountOf(V, {"metadata", "embedded"}) = 1
        /\ CountOf(W, {"pe"}) = 0 /\ CountOf(V, {"pe"}) = 0
    BY <1>1, CountOfOne
  <1> HIDE DEF W, V
  <1>6. ASSUME NEW kinds
        PROVE  CountOf(W \cup V, kinds) = CountOf(W, kinds) + CountOf(V, kinds)
    BY <1>4, <1>5, CountOfParts
  <1>7. /\ CountOf(W \cup V, {"pe", "library"}) = 1
        /\ CountOf(W \cup V, {"metadata", "embedded"}) = 1
        /\ CountOf(W \cup V, {"pe"}) = 0
    <2>1. CountOf(W \cup V, {"pe", "library"})
            = CountOf(W, {"pe", "library"}) + CountOf(V, {"pe", "library"})
      BY <1>6
    <2>2. CountOf(W \cup V, {"metadata", "embedded"})
            = CountOf(W, {"metadata", "embedded"}) + CountOf(V, {"metadata", "embedded"})
      BY <1>6
    <2>3. CountOf(W \cup V, {"pe"}) = CountOf(W, {"pe"}) + CountOf(V, {"pe"})
      BY <1>6
    <2> QED
      BY <1>5, <2>1, <2>2, <2>3
  <1>8. IsFiniteSet(W \cup V)
    BY <1>5, FS_Union
  <1>9. Effect(e, o, W \cup V)
    <2>1. \A x \in W \cup V : x.file = e
      BY <1>1, <1>4
    <2>2. written' = written \cup (W \cup V)
      BY <1>3, <1>4
    <2> QED
      BY <1>2, <1>3, <1>7, <1>8, <2>1, <2>2 DEF Effect
  <1> QED
    BY <1>4, <1>9 DEF w, v, o

\* Every way a file is processed has such an effect.
LEMMA FileEffect ==
  ASSUME IInv, NEW e \in pending, ProcessFile(e)
  PROVE  \E o \in [DOMAIN Nothing -> Nat] : \E A : Effect(e, o, A)
PROOF
  <1> USE OutcomesTyped
  <1>1. CASE UnpackPe(e)
    <2>1. CASE Count(Failed) /\ written' = written
      BY <2>1, EffectNone
    <2>2. ASSUME NEW k \in {0, 1}, Count([Nothing EXCEPT !.unpacked = 1, !.suspect = k]),
                 written' = written \cup {Written("pe", e, NoModule)}
          PROVE  \E o \in [DOMAIN Nothing -> Nat] : \E A : Effect(e, o, A)
      <3>1. Effect(e, [Nothing EXCEPT !.unpacked = 1, !.suspect = k], {Written("pe", e, NoModule)})
        BY <2>2, EffectOne
      <3> QED
        BY <3>1
    <2> QED
      BY <1>1, <2>1, <2>2 DEF UnpackPe
  <1>2. CASE DuplicateLibrary(e)
    BY <1>2, EffectNone DEF DuplicateLibrary
  <1>3. CASE RestoreLibrary(e)
    <2>1. CASE e.content \in Embeds
      <3>1. /\ Count([Nothing EXCEPT !.unpacked = 1, !.metadata = 1])
            /\ written' = written \cup {Written("library", e, NoModule), Written("embedded", e, NoModule)}
        BY <1>3, <2>1 DEF RestoreLibrary
      <3>2. PICK A : Effect(e, [Nothing EXCEPT !.unpacked = 1, !.metadata = 1], A)
        BY <3>1, EffectTwo
      <3> QED
        BY <3>2
    <2>2. CASE e.content \notin Embeds
      <3>1. /\ Count([Nothing EXCEPT !.unpacked = 1])
            /\ written' = written \cup {Written("library", e, NoModule)}
        BY <1>3, <2>2 DEF RestoreLibrary
      <3>2. Effect(e, [Nothing EXCEPT !.unpacked = 1], {Written("library", e, NoModule)})
        BY <3>1, EffectOne
      <3> QED
        BY <3>2
    <2> QED
      BY <2>1, <2>2
  <1>4. CASE FailLibrary(e)
    <2>1. CASE written' = written
      BY <1>4, <2>1, EffectNone DEF FailLibrary
    <2>2. CASE written' = written \cup {Written("library", e, NoModule)}
      <3>1. Effect(e, Failed, {Written("library", e, NoModule)})
        BY <1>4, <2>2, EffectOne DEF FailLibrary
      <3> QED
        BY <3>1
    <2> QED
      BY <1>4, <2>1, <2>2 DEF FailLibrary
  <1>5. CASE RestoreMetadata(e)
    <2>1. PICK m \in Contexts(e) :
            Count(Restored) /\ written' = written \cup {Written("metadata", e, m)}
      BY <1>5 DEF RestoreMetadata
    <2>2. Effect(e, Restored, {Written("metadata", e, m)})
      BY <2>1, EffectOne
    <2> QED
      BY <2>2
  <1>6. CASE KeepMetadata(e)
    BY <1>6, EffectNone DEF KeepMetadata
  <1>7. CASE DuplicateMetadata(e)
    BY <1>7, EffectNone DEF DuplicateMetadata
  <1>8. CASE FailMetadata(e)
    BY <1>8, EffectNone DEF FailMetadata
  <1>9. CASE UnsupportedMetadata(e)
    BY <1>9, EffectNone DEF UnsupportedMetadata
  <1>10. CASE NotTarget(e)
    BY <1>10, EffectNone DEF NotTarget
  <1> QED
    BY <1>1, <1>2, <1>3, <1>4, <1>5, <1>6, <1>7, <1>8, <1>9, <1>10 DEF ProcessFile

LEMMA FileIsProcessed ==
  ASSUME NEW e, ProcessFile(e)
  PROVE  Process(e)
PROOF
  BY DEF ProcessFile, UnpackPe, DuplicateLibrary, RestoreLibrary, FailLibrary, RestoreMetadata,
         KeepMetadata, DuplicateMetadata, FailMetadata, UnsupportedMetadata, NotTarget

LEMMA PlusFields ==
  ASSUME NEW s \in [DOMAIN Nothing -> Nat], NEW t \in [DOMAIN Nothing -> Nat]
  PROVE  /\ \A k \in DOMAIN Nothing : Plus(s, t)[k] = s[k] + t[k]
         /\ \A k \in {"unpacked", "skipped", "errors", "suspect", "metadata", "packages"} :
              s[k] \in Nat /\ t[k] \in Nat /\ Plus(s, t)[k] = s[k] + t[k]
PROOF
  BY DEF Plus, Nothing

\* A processed file keeps the counters to the outputs.
LEMMA CountedStep ==
  ASSUME IInv, CountedInv, NEW e \in pending, ProcessFile(e)
  PROVE  CountedInv'
PROOF
  <1>1. /\ tally \in [DOMAIN Nothing -> Nat] /\ summary \in [DOMAIN Nothing -> Nat]
        /\ pending' = pending \ {e} /\ summary' = summary /\ todo' = todo /\ todo # {}
    BY FileIsProcessed DEF IInv, TypeOK, Process
  <1>0. PICK o \in [DOMAIN Nothing -> Nat] : \E A : Effect(e, o, A)
    BY FileEffect
  <1>2. PICK A : Effect(e, o, A)
    BY <1>0
  <1>3. /\ IsFiniteSet(written) /\ IsFiniteSet(A) /\ written' = written \cup A
        /\ \A w \in A : w.file = e
        /\ tally' = Plus(tally, o)
    BY <1>2 DEF Effect, CountedInv
  <1>4. written \cap A = {} /\ IsFiniteSet(written) /\ IsFiniteSet(A)
    BY <1>3 DEF CountedInv
  <1>5. ASSUME NEW kinds
        PROVE  /\ CountOf(written, kinds) \in Nat /\ CountOf(A, kinds) \in Nat
               /\ CountOf(written', kinds) = CountOf(written, kinds) + CountOf(A, kinds)
    <2>1. /\ CountOf(written, kinds) \in Nat /\ CountOf(A, kinds) \in Nat
          /\ CountOf(written \cup A, kinds) = CountOf(written, kinds) + CountOf(A, kinds)
      BY <1>4, CountOfParts
    <2> QED
      BY <1>3, <2>1
  <1>6. Total' = Plus(summary, Plus(tally, o))
    BY <1>1, <1>3 DEF Total
  <1>7. ASSUME NEW k \in {"unpacked", "errors", "suspect", "metadata"}
        PROVE  /\ Total[k] \in Nat /\ o[k] \in Nat /\ summary[k] \in Nat /\ tally[k] \in Nat
               /\ Total'[k] = Total[k] + o[k]
               /\ tally'[k] = tally[k] + o[k]
               /\ summary'[k] = summary[k]
    <2>1. Plus(tally, o) \in [DOMAIN Nothing -> Nat]
      BY <1>1, PlusTyped
    <2>2. /\ Plus(tally, o)[k] = tally[k] + o[k] /\ tally[k] \in Nat /\ o[k] \in Nat
          /\ Total[k] = summary[k] + tally[k] /\ summary[k] \in Nat
          /\ Plus(summary, Plus(tally, o))[k] = summary[k] + Plus(tally, o)[k]
      BY <1>1, <2>1, PlusFields DEF Total
    <2> QED
      BY <1>1, <1>3, <1>6, <2>2
  <1>8. /\ o.unpacked <= CountOf(A, {"pe", "library"})
        /\ o.metadata <= CountOf(A, {"metadata", "embedded"})
        /\ o.suspect <= CountOf(A, {"pe"})
        /\ o.errors = 0 => /\ o.unpacked = CountOf(A, {"pe", "library"})
                           /\ o.metadata = CountOf(A, {"metadata", "embedded"})
    BY <1>2 DEF Effect
  <1>9. IsFiniteSet(written') /\ \A w \in written' : w.file \notin pending'
    BY <1>1, <1>3, FS_Union DEF CountedInv
  <1>10. Total'.unpacked <= CountOf(written', {"pe", "library"})
    <2>1. Total.unpacked <= CountOf(written, {"pe", "library"})
      BY DEF CountedInv
    <2>2. CountOf(written', {"pe", "library"})
            = CountOf(written, {"pe", "library"}) + CountOf(A, {"pe", "library"})
      BY <1>5
    <2> QED
      BY <1>5, <1>7, <1>8, <2>1, <2>2
  <1>11. Total'.metadata <= CountOf(written', {"metadata", "embedded"})
    <2>1. Total.metadata <= CountOf(written, {"metadata", "embedded"})
      BY DEF CountedInv
    <2>2. CountOf(written', {"metadata", "embedded"})
            = CountOf(written, {"metadata", "embedded"}) + CountOf(A, {"metadata", "embedded"})
      BY <1>5
    <2> QED
      BY <1>5, <1>7, <1>8, <2>1, <2>2
  <1>12. Total'.suspect <= CountOf(written', {"pe"})
    <2>1. Total.suspect <= CountOf(written, {"pe"})
      BY DEF CountedInv
    <2>2. CountOf(written', {"pe"}) = CountOf(written, {"pe"}) + CountOf(A, {"pe"})
      BY <1>5
    <2> QED
      BY <1>5, <1>7, <1>8, <2>1, <2>2
  <1>13. ASSUME Clean'
         PROVE  /\ Total'.unpacked = CountOf(written', {"pe", "library"})
                /\ Total'.metadata = CountOf(written', {"metadata", "embedded"})
    <2>1. Clean /\ o.errors = 0
      BY <1>7, <1>13 DEF Clean
    <2>2. /\ Total.unpacked = CountOf(written, {"pe", "library"})
          /\ Total.metadata = CountOf(written, {"metadata", "embedded"})
          /\ o.unpacked = CountOf(A, {"pe", "library"})
          /\ o.metadata = CountOf(A, {"metadata", "embedded"})
      BY <1>8, <2>1 DEF CountedInv
    <2>3. /\ CountOf(written', {"pe", "library"})
               = CountOf(written, {"pe", "library"}) + CountOf(A, {"pe", "library"})
          /\ CountOf(written', {"metadata", "embedded"})
               = CountOf(written, {"metadata", "embedded"}) + CountOf(A, {"metadata", "embedded"})
      BY <1>5
    <2> QED
      BY <1>5, <1>7, <2>2, <2>3
  <1>14. todo' = {} => tally' = Nothing
    BY <1>1
  <1> QED
    BY <1>9, <1>10, <1>11, <1>12, <1>13, <1>14 DEF CountedInv

\* The members of a unit are counted, never its errors.
LEMMA OpenedFields ==
  ASSUME folder \in Folders, NEW u
  PROVE  /\ Opened(u) \in [DOMAIN Nothing -> Nat]
         /\ Opened(u).unpacked = 0 /\ Opened(u).metadata = 0
         /\ Opened(u).suspect = 0 /\ Opened(u).errors = 0
PROOF
  <1>1. Len(folder.packages) \in Nat
    BY FolderAssumption
  <1>2. IsFiniteSet(Packages)
    BY <1>1, FS_Interval DEF Packages
  <1>3. Members(u) \subseteq Packages
    BY DEF Members
  <1>4. Cardinality(Members(u)) \in Nat
    BY <1>2, <1>3, FS_Subset, FS_CardinalityType
  <1> QED
    BY <1>4 DEF Opened, Nothing

\* Closing a unit moves its outcomes into the summary, or an error in their place.
LEMMA CountedUnit ==
  ASSUME IInv, CountedInv, NEW u, FinishUnit(u) \/ AbortUnit(u)
  PROVE  CountedInv' /\ (Clean' => Clean /\ FinishUnit(u))
PROOF
  <1> DEFINE Kept == IF FinishUnit(u) THEN tally ELSE Failed
  <1>1. /\ tally \in [DOMAIN Nothing -> Nat] /\ summary \in [DOMAIN Nothing -> Nat]
        /\ folder \in Folders
    BY DEF IInv, TypeOK
  <1>2. /\ tally' = Nothing /\ written' = written /\ pending' \subseteq pending
        /\ summary' = Plus(Plus(summary, Kept), Opened(u))
        /\ Kept \in [DOMAIN Nothing -> Nat]
    BY <1>1, OutcomesTyped DEF FinishUnit, AbortUnit
  <1>3. \/ Kept = tally /\ FinishUnit(u)
        \/ Kept = Failed
    OBVIOUS
  <1> HIDE DEF Kept
  <1>4. Opened(u) \in [DOMAIN Nothing -> Nat] /\ Plus(summary, Kept) \in [DOMAIN Nothing -> Nat]
        /\ summary' \in [DOMAIN Nothing -> Nat]
    BY <1>1, <1>2, OpenedFields, PlusTyped
  <1>5. ASSUME NEW k \in {"unpacked", "errors", "suspect", "metadata"}
        PROVE  /\ summary[k] \in Nat /\ tally[k] \in Nat /\ Kept[k] \in Nat
               /\ Total[k] = summary[k] + tally[k]
               /\ Total'[k] = summary[k] + Kept[k]
               /\ summary'[k] = summary[k] + Kept[k] /\ tally'[k] = 0
    <2>1. /\ Total[k] = summary[k] + tally[k] /\ summary[k] \in Nat /\ tally[k] \in Nat
          /\ Plus(summary, Kept)[k] = summary[k] + Kept[k] /\ Kept[k] \in Nat
          /\ Total'[k] = summary'[k] + tally'[k]
          /\ summary'[k] = Plus(summary, Kept)[k] + Opened(u)[k]
      BY <1>1, <1>2, <1>4, PlusFields, OutcomesTyped DEF Total
    <2>2. Opened(u)[k] = 0 /\ tally'[k] = 0
      BY <1>1, <1>2, OpenedFields DEF Nothing
    <2> QED
      BY <2>1, <2>2
  <1>6. Failed.unpacked = 0 /\ Failed.metadata = 0 /\ Failed.suspect = 0 /\ Failed.errors = 1
    BY OutcomeFields
  <1>7. Clean' => Clean /\ Kept = tally /\ FinishUnit(u)
    BY <1>3, <1>5, <1>6 DEF Clean
  <1>8. /\ Total'.unpacked <= Total.unpacked /\ Total'.metadata <= Total.metadata
        /\ Total'.suspect <= Total.suspect
        /\ Kept = tally => Total'.unpacked = Total.unpacked /\ Total'.metadata = Total.metadata
    BY <1>3, <1>5, <1>6
  <1>9. ASSUME NEW kinds PROVE CountOf(written, kinds) \in Nat
    BY CountOfNone, CountOfParts DEF CountedInv
  <1>10. /\ Total'.unpacked <= CountOf(written, {"pe", "library"})
         /\ Total'.metadata <= CountOf(written, {"metadata", "embedded"})
         /\ Total'.suspect <= CountOf(written, {"pe"})
    <2>1. /\ Total.unpacked <= CountOf(written, {"pe", "library"})
          /\ Total.metadata <= CountOf(written, {"metadata", "embedded"})
          /\ Total.suspect <= CountOf(written, {"pe"})
      BY DEF CountedInv
    <2> QED
      BY <1>5, <1>8, <1>9, <2>1
  <1> QED
    BY <1>2, <1>7, <1>8, <1>10 DEF CountedInv

LEMMA InitCounted == Init => CountedInv
PROOF
  <1> SUFFICES ASSUME Init PROVE CountedInv
    OBVIOUS
  <1>1. PICK skipped \in {0, 1}, unreadable \in {0, 1} :
          summary = [Nothing EXCEPT !.skipped = skipped, !.errors = unreadable]
    BY DEF Init
  <1>2. Total.unpacked = 0 /\ Total.metadata = 0 /\ Total.suspect = 0
    <2>1. /\ tally = Nothing /\ tally \in [DOMAIN Nothing -> Nat]
          /\ summary \in [DOMAIN Nothing -> Nat]
      BY InitIInv, OutcomesTyped DEF IInv, TypeOK, Init
    <2>2. /\ tally.unpacked = 0 /\ tally.metadata = 0 /\ tally.suspect = 0
          /\ summary.unpacked = 0 /\ summary.metadata = 0 /\ summary.suspect = 0
      BY <1>1, <2>1 DEF Nothing
    <2>3. \A k \in {"unpacked", "metadata", "suspect"} : Total[k] = summary[k] + tally[k]
      BY <2>1, PlusFields DEF Total
    <2> QED
      BY <2>2, <2>3
  <1>3. \A kinds : IsFiniteSet(written) /\ CountOf(written, kinds) = 0
    BY CountOfNone DEF Init
  <1> QED
    BY <1>2, <1>3 DEF CountedInv, Init

LEMMA NextCounted == IInv /\ CountedInv /\ [Next]_vars => CountedInv'
PROOF
  <1> SUFFICES ASSUME IInv, CountedInv, [Next]_vars PROVE CountedInv'
    OBVIOUS
  <1>1. CASE UNCHANGED vars
    BY <1>1 DEF vars, CountedInv, Clean, Total
  <1> QED
    BY <1>1, CountedStep, CountedUnit DEF Next, Done

\* The Summary claims no output that was not written.
THEOREM SummaryKeepsToOutputs == Spec => []SummaryIsHonest
PROOF
  <1>1. CountedInv => SummaryIsHonest
    BY DEF CountedInv, SummaryIsHonest, Total, CountOf, Outputs
  <1> QED
    BY <1>1, Invariance, InitCounted, NextCounted, PTL DEF Spec

-----------------------------------------------------------------------------
(* A run without an error is complete.                                     *)

\* What is pending behind the next file has a source of its kind or a later one.
LEMMA SourcesInOrder ==
  ASSUME folder \in Folders, PendingIsOpen, NEW e \in pending, NEW f \in pending,
         IsNext(e), e.content \in Library, f.content \in Library
  PROVE  SourceRank(e) <= SourceRank(f)
PROOF
  <1>1. e \in folder.files /\ f \in folder.files
    BY DEF PendingIsOpen
  <1>2. UnitOf(f) = UnitOf(e) \/ Before(UnitOf(e), UnitOf(f))
    BY DEF IsNext, Current, PendingIsOpen
  <1>3. ASSUME NEW g \in {e, f}
        PROVE  \/ /\ SourceRank(g) = 0
                  /\ UnitOf(g) = <<1, 0, g.pos>>
               \/ /\ SourceRank(g) \in {1, 2}
                  /\ UnitOf(g) = <<2, SourceRank(g) - 1, Leader(g.package)>>
    <2>1. g.content \notin Program /\ g.content \in Library
      BY FolderAssumption
    <2>2. CASE g.package = 0
      BY <2>1, <2>2 DEF SourceRank, UnitOf, LooseStage
    <2>3. CASE g.package # 0
      BY <2>3 DEF SourceRank, UnitOf, PackageUnit
    <2> QED
      BY <2>2, <2>3
  <1>4. CASE UnitOf(f) = UnitOf(e)
    <2>1. UnitOf(e)[1] = UnitOf(f)[1] /\ UnitOf(e)[2] = UnitOf(f)[2]
      BY <1>4
    <2> QED
      BY <1>3, <2>1
  <1>5. CASE Before(UnitOf(e), UnitOf(f))
    <2>1. DOMAIN UnitOf(e) = 1 .. 3
      BY <1>3
    <2>2. PICK i \in 1 .. 3 : /\ UnitOf(e)[i] < UnitOf(f)[i]
                              /\ \A j \in 1 .. i - 1 : UnitOf(e)[j] = UnitOf(f)[j]
      BY <1>5, <2>1 DEF Before
    <2>3. \/ UnitOf(e)[1] < UnitOf(f)[1]
          \/ UnitOf(e)[1] = UnitOf(f)[1] /\ UnitOf(e)[2] <= UnitOf(f)[2]
      <3>1. CASE i = 1
        BY <2>2, <3>1
      <3>2. CASE i = 2
        <4>1. UnitOf(e)[1] = UnitOf(f)[1] /\ UnitOf(e)[2] < UnitOf(f)[2]
          BY <2>2, <3>2
        <4>2. UnitOf(e)[2] \in {0, 1} /\ UnitOf(f)[2] \in {0, 1}
          BY <1>3
        <4> QED
          BY <4>1, <4>2
      <3>3. CASE i = 3
        <4>1. UnitOf(e)[1] = UnitOf(f)[1] /\ UnitOf(e)[2] = UnitOf(f)[2]
          BY <2>2, <3>3
        <4>2. UnitOf(e)[2] \in {0, 1} /\ UnitOf(f)[2] \in {0, 1}
          BY <1>3
        <4> QED
          BY <4>1, <4>2
      <3> QED
        BY <3>1, <3>2, <3>3
    <2>4. ASSUME NEW g \in {e, f}
          PROVE  \/ SourceRank(g) = 0 /\ UnitOf(g)[1] = 1
                 \/ /\ SourceRank(g) \in {1, 2} /\ UnitOf(g)[1] = 2
                    /\ UnitOf(g)[2] = SourceRank(g) - 1
      BY <1>3
    <2> QED
      BY <2>3, <2>4
  <1> QED
    BY <1>2, <1>4, <1>5

\* No error in this step or before it.
LEMMA CleanStep ==
  ASSUME IInv, NEW e \in pending, ProcessFile(e), Clean'
  PROVE  Clean /\ ~ Count(Failed)
PROOF
  <1>1. /\ tally \in [DOMAIN Nothing -> Nat] /\ summary' = summary
    BY FileIsProcessed DEF IInv, TypeOK, Process
  <1>2. PICK o \in [DOMAIN Nothing -> Nat] : tally' = Plus(tally, o)
    BY FileEffect DEF Effect
  <1>3. tally.errors \in Nat /\ o.errors \in Nat /\ tally'.errors = tally.errors + o.errors
    BY <1>1, <1>2, PlusFields
  <1>4. Clean
    BY <1>1, <1>3 DEF Clean
  <1>5. ASSUME Count(Failed) PROVE FALSE
    <2>1. tally' = Plus(tally, Failed) /\ Failed.errors = 1
      BY <1>5, OutcomeFields DEF Count
    <2>2. tally'.errors = tally.errors + 1
      BY <1>1, <2>1, PlusFields, OutcomesTyped
    <2> QED
      BY <1>3, <2>2 DEF Clean
  <1> QED
    BY <1>4, <1>5

\* Which application, unit and kind of source a file is of depends on the folder.
LEMMA RanksFixed ==
  ASSUME folder' = folder
  PROVE  \A e : SourceRank(e)' = SourceRank(e) /\ AppKey(e)' = AppKey(e)
PROOF
  BY FolderFixed DEF SourceRank, Named, Package

\* Writing down a file that is neither a program nor a library, and not v24.
LEMMA OthersKeep ==
  ASSUME IInv, NEW e \in pending, Process(e), e.content \notin Program \cup Library,
         modules' = modules, libraries' = libraries,
         written' = written \/ \E m : written' = written \cup {Written("metadata", e, m)},
         ProgramsUnpacked, LibrariesLearned, SoleLibraries
  PROVE  (ProgramsUnpacked /\ LibrariesLearned /\ SoleLibraries)'
PROOF
  <1>1. /\ folder' = folder /\ pending' = pending \ {e} /\ e \in folder.files
        /\ Processed' = Processed \cup {e}
    BY DEF Process, Processed, IInv, TypeOK
  <1>2. \A f : SourceRank(f)' = SourceRank(f) /\ AppKey(f)' = AppKey(f)
    BY <1>1, RanksFixed
  <1>3. ProgramsUnpacked'
    BY <1>1 DEF ProgramsUnpacked
  <1>4. LibrariesLearned'
    BY <1>1, <1>2 DEF LibrariesLearned
  <1>5. /\ written \subseteq written'
        /\ \A w \in written' : w.kind = "library" => w \in written
    BY WrittenFields
  <1>6. SoleLibraries'
    <2>1. \A c \in libraries' : \E w \in written' : w.kind = "library" /\ w.file.content = c
      BY <1>5 DEF SoleLibraries
    <2>2. ASSUME NEW w \in written', w.kind = "library"
          PROVE  /\ w.file.content \in libraries'
                 /\ \A v \in written' : v.kind = "library" /\ v.file.content = w.file.content => v = w
                 /\ \A f \in folder'.files :
                      f.content = w.file.content => SourceRank(w.file)' <= SourceRank(f)'
      BY <1>1, <1>2, <1>5, <2>2 DEF SoleLibraries
    <2> QED
      BY <2>1, <2>2 DEF SoleLibraries
  <1> QED
    BY <1>3, <1>4, <1>6

\* A handled v24 blob was bound, and the libraries of its application are done.
LEMMA BoundStep ==
  ASSUME IInv, NEW e \in pending, Process(e), V24Bound, WellNamed(folder),
         e.content \in V24 => e.content \in Metadata /\ Contexts(e) # {},
         \A a \in Apps : \/ modules'[a] = modules[a]
                         \/ e.content \in Library /\ a = AppKey(e)
  PROVE  V24Bound'
PROOF
  <1>1. /\ folder' = folder /\ pending' = pending \ {e} /\ e \in folder.files /\ IsNext(e)
        /\ Processed' = Processed \cup {e} /\ folder \in Folders /\ PendingIsOpen
    BY DEF Process, Processed, IInv, TypeOK, PendingIsOpen
  <1>2. \A f : AppKey(f)' = AppKey(f)
    BY <1>1, FolderFixed
  <1>3. ASSUME NEW f \in Processed, f.content \in V24
        PROVE  /\ \E m \in Module : modules'[AppKey(f)] = {m}
               /\ \A l \in pending' : l.content \in Library => AppKey(l) # AppKey(f)
    <2>1. AppKey(f) \in Apps
      BY DEF Apps, Processed
    <2>2. /\ \E m \in Module : modules[AppKey(f)] = {m}
          /\ \A l \in pending : l.content \in Library => AppKey(l) # AppKey(f)
      BY <1>3 DEF V24Bound
    <2> QED
      BY <1>1, <2>1, <2>2
  <1>4. ASSUME e.content \in V24
        PROVE  /\ \E m \in Module : modules'[AppKey(e)] = {m}
               /\ \A l \in pending' : l.content \in Library => AppKey(l) # AppKey(e)
    <2>1. AppKey(e) \in Apps /\ e.content \notin Library
      BY <1>1, <1>4, FolderAssumption DEF Apps
    <2>2. PICK m : m \in Contexts(e)
      BY <1>4
    <2>3. m \in modules[AppKey(e)] /\ modules[AppKey(e)] = {m}
      BY <1>4, <2>2 DEF Contexts, Binding
    <2>4. m \in Module
      BY <2>1, <2>3 DEF IInv, TypeOK
    <2>5. \A l \in pending : l.content \in Library => AppKey(l) # AppKey(e)
      BY <1>1, <1>4, LibrariesComeFirst
    <2> QED
      BY <1>1, <2>1, <2>3, <2>4, <2>5
  <1> QED
    BY <1>1, <1>2, <1>3, <1>4 DEF V24Bound

\* A cached library that comes again is learned, and written no second time.
LEMMA DuplicateKeeps ==
  ASSUME IInv, NEW e \in pending, DuplicateLibrary(e),
         ProgramsUnpacked, LibrariesLearned, SoleLibraries
  PROVE  (ProgramsUnpacked /\ LibrariesLearned /\ SoleLibraries)'
PROOF
  <1>1. /\ Process(e) /\ Record(AppKey(e), e.content) /\ e.content \in Library \cap libraries
        /\ libraries' = libraries /\ written' = written
    BY DEF DuplicateLibrary, RecordDuplicate
  <1>2. /\ folder' = folder /\ pending' = pending \ {e} /\ e \in folder.files
        /\ Processed' = Processed \cup {e}
    BY <1>1 DEF Process, Processed, IInv, TypeOK
  <1>3. \A f : SourceRank(f)' = SourceRank(f) /\ AppKey(f)' = AppKey(f)
    BY <1>2, RanksFixed
  <1>4. ProgramsUnpacked'
    BY <1>1, <1>2, FolderAssumption DEF ProgramsUnpacked
  <1>5. /\ \A a \in Apps : modules[a] \subseteq modules'[a]
        /\ ModuleOf[e.content] # NoModule => ModuleOf[e.content] \in modules'[AppKey(e)]
    BY <1>1, <1>2 DEF Record, IInv, TypeOK, Apps
  <1>6. LibrariesLearned'
    BY <1>1, <1>2, <1>3, <1>5 DEF LibrariesLearned, Apps, Processed
  <1>7. SoleLibraries'
    BY <1>1, <1>2, <1>3 DEF SoleLibraries
  <1> QED
    BY <1>4, <1>6, <1>7

\* Without an error, a program that is processed is unpacked.
LEMMA ProgramKeeps ==
  ASSUME IInv, NEW e \in pending, UnpackPe(e), ~ Count(Failed),
         ProgramsUnpacked, LibrariesLearned, SoleLibraries
  PROVE  (ProgramsUnpacked /\ LibrariesLearned /\ SoleLibraries)'
PROOF
  <1>1. /\ Process(e) /\ e.content \in Program /\ modules' = modules /\ libraries' = libraries
        /\ written' = written \cup {Written("pe", e, NoModule)}
    BY DEF UnpackPe, cache
  <1>2. /\ folder' = folder /\ pending' = pending \ {e} /\ e \in folder.files
        /\ Processed' = Processed \cup {e}
    BY <1>1 DEF Process, Processed, IInv, TypeOK
  <1>3. \A f : SourceRank(f)' = SourceRank(f) /\ AppKey(f)' = AppKey(f)
    BY <1>2, RanksFixed
  <1>4. ProgramsUnpacked'
    BY <1>1, <1>2 DEF ProgramsUnpacked
  <1>5. e.content \notin Library
    BY <1>1, FolderAssumption
  <1>6. LibrariesLearned'
    BY <1>1, <1>2, <1>3, <1>5 DEF LibrariesLearned
  <1>7. written \subseteq written' /\ \A w \in written' : w.kind = "library" => w \in written
    BY <1>1, WrittenFields
  <1>8. SoleLibraries'
    <2>1. \A c \in libraries' : \E w \in written' : w.kind = "library" /\ w.file.content = c
      BY <1>1, <1>7 DEF SoleLibraries
    <2>2. ASSUME NEW w \in written', w.kind = "library"
          PROVE  /\ w.file.content \in libraries'
                 /\ \A v \in written' : v.kind = "library" /\ v.file.content = w.file.content => v = w
                 /\ \A f \in folder'.files :
                      f.content = w.file.content => SourceRank(w.file)' <= SourceRank(f)'
      BY <1>1, <1>2, <1>3, <1>7, <2>2 DEF SoleLibraries
    <2> QED
      BY <2>1, <2>2 DEF SoleLibraries
  <1> QED
    BY <1>4, <1>6, <1>8

\* A library that is restored was in no cache, and so in no earlier source.
LEMMA LibraryKeeps ==
  ASSUME IInv, NEW e \in pending, RestoreLibrary(e),
         ProgramsUnpacked, LibrariesLearned, SoleLibraries
  PROVE  (ProgramsUnpacked /\ LibrariesLearned /\ SoleLibraries)'
PROOF
  <1> DEFINE new == Written("library", e, NoModule)
  <1>1. /\ Process(e) /\ Record(AppKey(e), e.content) /\ e.content \in Library \ libraries
        /\ libraries' = libraries \cup {e.content}
        /\ \/ written' = written \cup {new}
           \/ written' = written \cup {new, Written("embedded", e, NoModule)}
    BY DEF RestoreLibrary
  <1>2. /\ folder' = folder /\ pending' = pending \ {e} /\ e \in folder.files /\ IsNext(e)
        /\ Processed' = Processed \cup {e} /\ folder \in Folders /\ PendingIsOpen
    BY <1>1 DEF Process, Processed, IInv, TypeOK, PendingIsOpen
  <1>3. \A f : SourceRank(f)' = SourceRank(f) /\ AppKey(f)' = AppKey(f)
    BY <1>2, RanksFixed
  <1>4. new.kind = "library" /\ new.file = e /\ Written("embedded", e, NoModule).kind = "embedded"
    BY WrittenFields
  <1> HIDE DEF new
  <1>5. /\ written \subseteq written' /\ new \in written'
        /\ \A w \in written' : w.kind = "library" => w \in written \/ w = new
    BY <1>1, <1>4
  <1>6. ProgramsUnpacked'
    BY <1>1, <1>2, <1>5, FolderAssumption DEF ProgramsUnpacked
  <1>7. LibrariesLearned'
    <2>1. /\ \A a \in Apps : modules[a] \subseteq modules'[a]
          /\ ModuleOf[e.content] # NoModule => ModuleOf[e.content] \in modules'[AppKey(e)]
      BY <1>1, <1>2 DEF Record, IInv, TypeOK, Apps
    <2> QED
      BY <1>1, <1>2, <1>3, <2>1 DEF LibrariesLearned, Apps, Processed
  <1>8. \A w \in written : w.kind = "library" => w.file.content # e.content
    BY <1>1 DEF SoleLibraries
  <1>9. ASSUME NEW f \in folder.files, f.content = e.content
        PROVE  SourceRank(e) <= SourceRank(f)
    <2>1. f \in pending
      BY <1>1, <1>9 DEF LibrariesLearned, Processed
    <2> QED
      BY <1>1, <1>2, <1>9, <2>1, SourcesInOrder
  <1>10. SoleLibraries'
    <2>1. ASSUME NEW c \in libraries'
          PROVE  \E w \in written' : w.kind = "library" /\ w.file.content = c
      <3>1. CASE c \in libraries
        BY <1>5, <3>1 DEF SoleLibraries
      <3>2. CASE c = e.content
        BY <1>4, <1>5, <3>2
      <3> QED
        BY <1>1, <3>1, <3>2
    <2>2. ASSUME NEW w \in written', w.kind = "library"
          PROVE  /\ w.file.content \in libraries'
                 /\ \A v \in written' : v.kind = "library" /\ v.file.content = w.file.content => v = w
                 /\ \A f \in folder'.files :
                      f.content = w.file.content => SourceRank(w.file)' <= SourceRank(f)'
      <3>1. CASE w = new
        <4>1. \A v \in written' : v.kind = "library" /\ v.file.content = e.content => v = new
          BY <1>5, <1>8
        <4>2. \A f \in folder'.files : f.content = e.content => SourceRank(e)' <= SourceRank(f)'
          BY <1>2, <1>3, <1>9
        <4> QED
          BY <1>1, <1>4, <3>1, <4>1, <4>2
      <3>2. CASE w \in written
        <4>1. /\ w.file.content \in libraries
              /\ \A v \in written : v.kind = "library" /\ v.file.content = w.file.content => v = w
              /\ \A f \in folder.files :
                   f.content = w.file.content => SourceRank(w.file) <= SourceRank(f)
          BY <2>2, <3>2 DEF SoleLibraries
        <4>2. w.file.content # e.content
          BY <1>8, <2>2, <3>2
        <4>3. \A v \in written' : v.kind = "library" /\ v.file.content = w.file.content => v = w
          BY <1>4, <1>5, <4>1, <4>2
        <4> QED
          BY <1>1, <1>2, <1>3, <4>1, <4>3
      <3> QED
        BY <1>5, <2>2, <3>1, <3>2
    <2> QED
      BY <2>1, <2>2 DEF SoleLibraries
  <1> QED
    BY <1>6, <1>7, <1>10

LEMMA FileKeeps ==
  ASSUME IInv, NEW e \in pending, ProcessFile(e), ~ Count(Failed),
         ProgramsUnpacked, LibrariesLearned, SoleLibraries
  PROVE  (ProgramsUnpacked /\ LibrariesLearned /\ SoleLibraries)'
PROOF
  <1>1. CASE UnpackPe(e)
    BY <1>1, ProgramKeeps
  <1>2. CASE DuplicateLibrary(e)
    BY <1>2, DuplicateKeeps
  <1>3. CASE RestoreLibrary(e)
    BY <1>3, LibraryKeeps
  <1>4. CASE ~ UnpackPe(e) /\ ~ DuplicateLibrary(e) /\ ~ RestoreLibrary(e)
    <2>1. Process(e) /\ ~ FailLibrary(e) /\ ~ FailMetadata(e)
      BY FileIsProcessed DEF FailLibrary, FailMetadata
    <2>2. /\ e.content \in Metadata \cup {"other"} /\ modules' = modules /\ libraries' = libraries
          /\ written' = written \/ \E m : written' = written \cup {Written("metadata", e, m)}
      BY <1>4, <2>1 DEF ProcessFile, RestoreMetadata, KeepMetadata, DuplicateMetadata,
                        UnsupportedMetadata, NotTarget, cache
    <2>3. e.content \notin Program \cup Library
      BY <2>2, FolderAssumption
    <2> QED
      BY <2>1, <2>2, <2>3, OthersKeep
  <1> QED
    BY <1>1, <1>2, <1>3, <1>4

\* The same of the bindings.
LEMMA FileBinds ==
  ASSUME IInv, NEW e \in pending, ProcessFile(e), ~ Count(Failed), V24Bound, WellNamed(folder)
  PROVE  V24Bound'
PROOF
  <1>1. Process(e) /\ ~ FailLibrary(e) /\ ~ FailMetadata(e)
    BY FileIsProcessed DEF FailLibrary, FailMetadata
  <1>2. ASSUME e.content \in V24
        PROVE  e.content \in Metadata /\ Contexts(e) # {}
    <2>1. e.content \in Metadata /\ e.content \notin Program \cup Library /\ e.content # "other"
      BY <1>2, FolderAssumption
    <2>2. RestoreMetadata(e) \/ KeepMetadata(e) \/ DuplicateMetadata(e)
      BY <1>1, <1>2, <2>1 DEF ProcessFile, UnpackPe, DuplicateLibrary, RestoreLibrary,
                              UnsupportedMetadata, NotTarget
    <2>3. \E m : m \in Contexts(e)
      BY <2>2 DEF RestoreMetadata, KeepMetadata, DuplicateMetadata
    <2> QED
      BY <2>1, <2>3
  <1>3. \A a \in Apps : modules'[a] = modules[a] \/ (e.content \in Library /\ a = AppKey(e))
    <2>1. CASE DuplicateLibrary(e) \/ RestoreLibrary(e)
      <3>1. Record(AppKey(e), e.content) /\ e.content \in Library
        BY <2>1 DEF DuplicateLibrary, RestoreLibrary, RecordDuplicate
      <3> QED
        BY <3>1 DEF Record, IInv, TypeOK
    <2>2. CASE ~ (DuplicateLibrary(e) \/ RestoreLibrary(e))
      <3>1. modules' = modules
        BY <1>1, <2>2 DEF ProcessFile, UnpackPe, RestoreMetadata, KeepMetadata,
                          DuplicateMetadata, UnsupportedMetadata, NotTarget, cache
      <3> QED
        BY <3>1
    <2> QED
      BY <2>1, <2>2
  <1> QED
    BY <1>1, <1>2, <1>3, BoundStep

\* What closing a unit, or doing nothing, leaves alone.
LEMMA CompleteFrame ==
  ASSUME UNCHANGED <<folder, pending, modules, libraries, written>>
  PROVE  /\ ProgramsUnpacked => ProgramsUnpacked'
         /\ LibrariesLearned => LibrariesLearned'
         /\ SoleLibraries => SoleLibraries'
         /\ V24Bound => V24Bound'
PROOF
  <1>1. \A f : SourceRank(f)' = SourceRank(f) /\ AppKey(f)' = AppKey(f)
    BY RanksFixed
  <1>2. Processed' = Processed
    BY DEF Processed
  <1>3. (ProgramsUnpacked => ProgramsUnpacked') /\ (LibrariesLearned => LibrariesLearned')
    BY <1>1, <1>2 DEF ProgramsUnpacked, LibrariesLearned
  <1>4. SoleLibraries => SoleLibraries'
    BY <1>1 DEF SoleLibraries
  <1>5. V24Bound => V24Bound'
    BY <1>1, <1>2 DEF V24Bound
  <1> QED
    BY <1>3, <1>4, <1>5

LEMMA NextComplete == IInv /\ CountedInv /\ CompleteInv /\ [Next]_vars => CompleteInv'
PROOF
  <1> SUFFICES ASSUME IInv, CountedInv, CompleteInv, [Next]_vars, Clean'
               PROVE  /\ ProgramsUnpacked' /\ LibrariesLearned' /\ SoleLibraries'
                      /\ WellNamed(folder)' => V24Bound'
    BY DEF CompleteInv
  <1>1. ASSUME NEW e \in pending, ProcessFile(e)
        PROVE  /\ ProgramsUnpacked' /\ LibrariesLearned' /\ SoleLibraries'
               /\ WellNamed(folder)' => V24Bound'
    <2>1. Clean /\ ~ Count(Failed)
      BY <1>1, CleanStep
    <2>2. folder' = folder
      BY <1>1, FileIsProcessed DEF Process
    <2>3. /\ ProgramsUnpacked /\ LibrariesLearned /\ SoleLibraries
          /\ WellNamed(folder) => V24Bound
      BY <2>1 DEF CompleteInv
    <2>4. WellNamed(folder)' => WellNamed(folder)
      BY <2>2 DEF WellNamed
    <2>5. ProgramsUnpacked' /\ LibrariesLearned' /\ SoleLibraries'
      BY <1>1, <2>1, <2>3, FileKeeps
    <2>6. WellNamed(folder) => V24Bound'
      BY <1>1, <2>1, <2>3, FileBinds
    <2> QED
      BY <2>4, <2>5, <2>6
  <1>2. CASE UNCHANGED vars \/ \E u \in todo : FinishUnit(u) \/ AbortUnit(u)
    <2>1. Clean /\ UNCHANGED <<folder, pending, modules, libraries, written>>
      <3>1. CASE UNCHANGED vars
        BY <3>1 DEF vars, cache, Clean
      <3>2. ASSUME NEW u \in todo, FinishUnit(u) \/ AbortUnit(u)
            PROVE  Clean /\ UNCHANGED <<folder, pending, modules, libraries, written>>
        <4>1. Clean /\ FinishUnit(u)
          BY <3>2, CountedUnit
        <4> QED
          BY <4>1 DEF FinishUnit, cache
      <3> QED
        BY <1>2, <3>1, <3>2
    <2>2. WellNamed(folder)' => WellNamed(folder)
      BY <2>1 DEF WellNamed
    <2> QED
      BY <2>1, <2>2, CompleteFrame DEF CompleteInv
  <1> QED
    BY <1>1, <1>2 DEF Next, Done

LEMMA InitComplete == Init => CompleteInv
PROOF
  <1> SUFFICES ASSUME Init PROVE CompleteInv
    OBVIOUS
  <1>1. Processed = {} /\ written = {} /\ libraries = {}
    BY DEF Init, Processed
  <1> QED
    BY <1>1 DEF CompleteInv, ProgramsUnpacked, LibrariesLearned, SoleLibraries, V24Bound

\* A run that ends without an error unpacked, restored, learned and counted
\* everything there was, whatever the folder.
THEOREM CleanRunMissesNothing == Spec => []CleanRunIsComplete
PROOF
  <1>1. IInv /\ CountedInv /\ CompleteInv => CleanRunIsComplete
    <2> SUFFICES ASSUME IInv, CountedInv, CompleteInv, todo = {}, summary.errors = 0
                 PROVE  CleanRunIsComplete
      BY DEF CleanRunIsComplete
    <2>1. tally = Nothing /\ Clean /\ pending = {} /\ Processed = folder.files
      BY DEF CountedInv, Clean, IInv, TypeOK, Processed, Nothing
    <2>2. ProgramsUnpacked /\ LibrariesLearned /\ SoleLibraries
      BY <2>1 DEF CompleteInv
    <2>3. WellNamed(folder) => V24Bound
      BY <2>1 DEF CompleteInv
    <2>4. ASSUME NEW e \in folder.files, e.content \in Library
          PROVE  /\ Cardinality({w \in Outputs({"library"}) : w.file.content = e.content}) = 1
                 /\ \A w \in Outputs({"library"}) :
                      w.file.content = e.content => SourceRank(w.file) <= SourceRank(e)
      <3>1. e.content \in libraries
        BY <2>1, <2>2, <2>4 DEF LibrariesLearned
      <3>2. PICK w \in written : w.kind = "library" /\ w.file.content = e.content
        BY <2>2, <3>1 DEF SoleLibraries
      <3>3. {v \in Outputs({"library"}) : v.file.content = e.content} = {w}
        BY <2>2, <3>2 DEF SoleLibraries, Outputs
      <3>4. Cardinality({w}) = 1
        BY FS_Singleton
      <3>5. \A v \in Outputs({"library"}) :
              v.file.content = e.content => SourceRank(v.file) <= SourceRank(e)
        BY <2>2 DEF SoleLibraries, Outputs
      <3> QED
        BY <3>3, <3>4, <3>5
    <2>5. \A a \in Apps : modules[a] = ModulesOf(a)
      <3>1. \A a \in Apps : modules[a] \subseteq ModulesOf(a)
        BY DEF IInv, ModulesStayHome
      <3>2. \A a \in Apps : ModulesOf(a) \subseteq modules[a]
        BY <2>1, <2>2 DEF LibrariesLearned, ModulesOf
      <3> QED
        BY <3>1, <3>2
    <2>6. ASSUME WellNamed(folder), NEW e \in folder.files, e.content \in V24
          PROVE  Cardinality(ModulesOf(AppKey(e))) = 1
      <3>1. PICK m : modules[AppKey(e)] = {m}
        BY <2>1, <2>3, <2>6 DEF V24Bound
      <3>2. ModulesOf(AppKey(e)) = {m}
        BY <2>5, <3>1 DEF Apps
      <3> QED
        BY <3>2, FS_Singleton
    <2>7. /\ summary.unpacked = Cardinality(Outputs({"pe", "library"}))
          /\ summary.metadata = Cardinality(Outputs({"metadata", "embedded"}))
      <3>1. /\ Total.unpacked = CountOf(written, {"pe", "library"})
            /\ Total.metadata = CountOf(written, {"metadata", "embedded"})
        BY <2>1 DEF CountedInv
      <3>2. \A k \in {"unpacked", "metadata"} : Total[k] = summary[k] + tally[k] /\ summary[k] \in Nat
        BY PlusFields DEF Total, IInv, TypeOK
      <3>3. tally.unpacked = 0 /\ tally.metadata = 0
        BY <2>1 DEF Nothing
      <3>4. Total.unpacked = summary.unpacked /\ Total.metadata = summary.metadata
        BY <3>2, <3>3
      <3> QED
        BY <3>1, <3>4 DEF CountOf, Outputs
    <2>8. \A e \in folder.files : e.content \in Program => Written("pe", e, NoModule) \in written
      BY <2>1, <2>2 DEF ProgramsUnpacked
    <2> QED
      BY <2>4, <2>5, <2>6, <2>7, <2>8 DEF CleanRunIsComplete
  <1>2. Spec => [](IInv /\ CountedInv /\ CompleteInv)
    BY InitIInv, NextIInv, InitCounted, NextCounted, InitComplete, NextComplete, PTL DEF Spec
  <1> QED
    BY <1>1, <1>2, PTL

-----------------------------------------------------------------------------
(* The extraction budget of a run: what it guarantees for every set of     *)
(* limits, every declared and actual size, and every order of the calls.   *)

(***************************************************************************)
(* WithinLimits alone is not inductive: a running copy was allowed its     *)
(* whole declared size when it began, so what it has yet to read must      *)
(* still fit what is left of the budget.                                   *)
(***************************************************************************)
PromiseFits == copy.active => bytes + (copy.declared - copy.written) <= MaxTotal

Affordable == BudgetTypeOK /\ WithinLimits /\ HandedIsPaid /\ PromiseFits

LEMMA BudgetInitially == ASSUME BudgetInit PROVE Affordable
BY BudgetAssumption
   DEF BudgetInit, Affordable, BudgetTypeOK, WithinLimits, HandedIsPaid, PromiseFits, NoCopy

LEMMA OpenKeeps ==
  ASSUME Affordable, NEW p \in Paths, OpenArchive(p) PROVE Affordable'
<1>1. PICK count \in Counts, directory \in Sizes :
        /\ Registrable(Newly(p, count))
        /\ entries' = entries + Newly(p, count)
        /\ archives' = [archives EXCEPT ![p] = IF count > @ THEN count ELSE @]
      BY DEF OpenArchive
<1>2. count \in Nat /\ archives[p] \in Nat
      BY BudgetAssumption DEF Affordable, BudgetTypeOK
<1>3. Newly(p, count) \in Nat
      BY <1>2 DEF Newly
<1>4. archives' \in [Paths -> Nat]
      BY <1>1, <1>2 DEF Affordable, BudgetTypeOK
<1>5. entries' \in Nat /\ entries' <= MaxEntries
      BY <1>1, <1>3 DEF Registrable, Affordable, BudgetTypeOK
<1>6. UNCHANGED <<bytes, copy, handed>>
      BY DEF OpenArchive
<1> QED
      BY <1>4, <1>5, <1>6 DEF Affordable, BudgetTypeOK, WithinLimits, HandedIsPaid, PromiseFits

LEMMA BeginKeeps ==
  ASSUME Affordable, NEW declared \in Nat, NEW actual \in Nat, Begin(declared, actual)
  PROVE  Affordable'
<1>1. declared <= MaxEntry /\ declared <= MaxTotal - bytes
      BY BudgetAssumption DEF Begin, Allowance, Least, Remaining, Affordable, BudgetTypeOK
<1>2. /\ copy' = [active |-> TRUE, declared |-> declared, left |-> actual, written |-> 0]
      /\ UNCHANGED <<bytes, entries, archives, handed>>
      BY DEF Begin
<1> QED
      BY <1>1, <1>2, BudgetAssumption
         DEF Affordable, BudgetTypeOK, WithinLimits, HandedIsPaid, PromiseFits

LEMMA ReadKeeps == ASSUME Affordable, ReadChunk PROVE Affordable'
<1>1. PICK n \in 1 .. Least(ReadLimit, copy.left) :
        /\ copy.active
        /\ copy.written + n <= copy.declared
        /\ bytes' = bytes + n
        /\ \/ /\ copy' = [copy EXCEPT !.left = @ - n, !.written = @ + n]
              /\ handed' = handed + n
           \/ /\ copy' = [copy EXCEPT !.left = @ - n, !.active = FALSE]
              /\ UNCHANGED handed
        /\ UNCHANGED <<entries, archives>>
      BY DEF ReadChunk, Charge
<1>2. /\ copy.declared \in Nat /\ copy.written \in Nat /\ copy.left \in Nat
      /\ bytes \in Nat /\ handed \in Nat
      BY DEF Affordable, BudgetTypeOK
<1>3. ReadLimit \in Int
      BY <1>2, BudgetAssumption DEF ReadLimit, Least
<1>4. n \in Nat /\ copy.left - n \in Nat
      BY <1>2, <1>3 DEF Least
<1>5. bytes' \in Nat /\ bytes' <= MaxTotal /\ handed' \in Nat /\ handed' <= bytes'
      BY <1>1, <1>2, <1>4, BudgetAssumption DEF Affordable, HandedIsPaid, PromiseFits
<1>6. CASE copy' = [copy EXCEPT !.left = @ - n, !.written = @ + n]
      <2>1. copy' = [active |-> copy.active, declared |-> copy.declared,
                     left |-> copy.left - n, written |-> copy.written + n]
            BY <1>6 DEF Affordable, BudgetTypeOK
      <2> QED
            BY <2>1, <1>1, <1>2, <1>4, <1>5, BudgetAssumption
               DEF Affordable, BudgetTypeOK, WithinLimits, HandedIsPaid, PromiseFits
<1>7. CASE copy' = [copy EXCEPT !.left = @ - n, !.active = FALSE]
      <2>1. copy' = [active |-> FALSE, declared |-> copy.declared,
                     left |-> copy.left - n, written |-> copy.written]
            BY <1>7 DEF Affordable, BudgetTypeOK
      <2> QED
            BY <2>1, <1>1, <1>2, <1>4, <1>5, BudgetAssumption
               DEF Affordable, BudgetTypeOK, WithinLimits, HandedIsPaid, PromiseFits
<1> QED
      BY <1>1, <1>6, <1>7

LEMMA OverrunKeeps == ASSUME Affordable, Overrun PROVE Affordable'
<1>1. PICK n \in 1 .. Least(ReadLimit, copy.left) :
        copy' = [copy EXCEPT !.left = @ - n, !.active = FALSE]
      BY DEF Overrun
<1>2. copy.declared \in Nat /\ copy.written \in Nat /\ copy.left \in Nat
      BY DEF Affordable, BudgetTypeOK
<1>3. ReadLimit \in Int
      BY <1>2, BudgetAssumption DEF ReadLimit, Least
<1>4. copy.left - n \in Nat
      BY <1>2, <1>3 DEF Least
<1>5. copy' = [active |-> FALSE, declared |-> copy.declared,
               left |-> copy.left - n, written |-> copy.written]
      BY <1>1 DEF Affordable, BudgetTypeOK
<1> QED
      BY <1>2, <1>4, <1>5
         DEF Overrun, Affordable, BudgetTypeOK, WithinLimits, HandedIsPaid, PromiseFits

LEMMA BudgetInductive == ASSUME Affordable, [BudgetNext]_spending PROVE Affordable'
<1>1. ASSUME NEW p \in Paths, OpenArchive(p) PROVE Affordable'
      BY <1>1, OpenKeeps
<1>2. CASE CopyEntry
      BY <1>2, BeginKeeps, BudgetAssumption DEF CopyEntry
<1>3. CASE ProbeEntry
      <2>1. PICK declared \in Sizes, actual \in Sizes :
              Begin(Least(declared, Probe), Least(actual, Least(declared, Probe)))
            BY <1>3 DEF ProbeEntry
      <2>2. /\ Least(declared, Probe) \in Nat
            /\ Least(actual, Least(declared, Probe)) \in Nat
            BY <2>1, BudgetAssumption DEF Least
      <2> QED
            BY <2>1, <2>2, BeginKeeps
<1>4. CASE ReadChunk
      BY <1>4, ReadKeeps
<1>5. CASE Overrun
      BY <1>5, OverrunKeeps
<1>6. CASE EndCopy
      BY <1>6 DEF EndCopy, Affordable, BudgetTypeOK, WithinLimits, HandedIsPaid, PromiseFits
<1>7. CASE Forget
      BY <1>7, BudgetAssumption
         DEF Forget, NoCopy, Affordable, BudgetTypeOK, WithinLimits, HandedIsPaid, PromiseFits
<1>8. CASE UNCHANGED spending
      BY <1>8 DEF spending, Affordable, BudgetTypeOK, WithinLimits, HandedIsPaid, PromiseFits
<1> QED
      BY <1>1, <1>2, <1>3, <1>4, <1>5, <1>6, <1>7, <1>8 DEF BudgetNext

\* The strengthened invariant holds in every reachable state.
THEOREM BudgetInvariance == BudgetSpec => []Affordable
BY BudgetInitially, BudgetInductive, PTL DEF BudgetSpec

\* The counters of the budget never leave the naturals.
THEOREM BudgetIsTyped == BudgetSpec => []BudgetTypeOK
<1>1. Affordable => BudgetTypeOK
      BY DEF Affordable
<1> QED
      BY BudgetInvariance, <1>1, PTL

\* For every limit and every lie a header tells: the run stays within its
\* byte and entry limits, and every entry within its own.
THEOREM BudgetHolds == BudgetSpec => []WithinLimits
<1>1. Affordable => WithinLimits
      BY DEF Affordable
<1> QED
      BY BudgetInvariance, <1>1, PTL

\* No byte is handed on that the budget was not charged for.
THEOREM NothingIsFree == BudgetSpec => []HandedIsPaid
<1>1. Affordable => HandedIsPaid
      BY DEF Affordable
<1> QED
      BY BudgetInvariance, <1>1, PTL
=============================================================================
