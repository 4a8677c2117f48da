------------------------------ MODULE FolderRun ------------------------------
(***************************************************************************)
(* One folder run of senbei-io (`run_folder_inner` in job.rs), after the   *)
(* scan: every PE, then every loose Android library, then every group of   *)
(* packages, then every loose metadata blob, each restored in isolation    *)
(* against one run-wide AndroidRunCache (android/context.rs) and folded    *)
(* into the Summary the exit code is computed from.                        *)
(*                                                                         *)
(* A unit is what one catch_unwind of the driver surrounds: a loose file,  *)
(* a package, or a group of split APKs.  The nested loops of the driver    *)
(* and of `restore_package_pass` are modelled by the order they visit the  *)
(* entries in: the next entry is the least pending one.                    *)
(***************************************************************************)
EXTENDS Integers, FiniteSets, Sequences

CONSTANTS
  Folders,     \* the scanned trees a run may be given
  Program,     \* contents of protected PE files
  Library,     \* contents of protected Android libraries
  Metadata,    \* contents of global-metadata.dat blobs
  V24,         \* the metadata of version 24, which needs a module 0x0C
  Embeds,      \* the libraries that carry a metadata blob of their own
  Module,      \* decoded module 0x0C images
  NoModule,    \* what a library without a module 0x0C yields
  ModuleOf,    \* library |-> its module or NoModule
  NoName       \* a package without a readable name and version, or a loose
               \* file outside any lib/<abi>/ or assets/ tree

(***************************************************************************)
(* A folder lists its packages in walk order and the files in them.  A     *)
(* package is [bundle, dir, names]: names[i] is the package name and       *)
(* version of its i-th nested APK; an .apk is its own single nested APK.   *)
(* A file is [package, nested, pos, so, content, root]: package 0 is loose,*)
(* pos orders the files of one archive (the loose files, by path), `so`    *)
(* says whether its name ends in .so, and root is the application root of  *)
(* a loose file.                                                           *)
(***************************************************************************)
PackageType == [bundle : BOOLEAN, dir : Nat, names : Seq(STRING)]
FileType ==
  [package : Nat, nested : Nat, pos : Nat, so : BOOLEAN,
   content : Program \cup Library \cup Metadata \cup {"other"}, root : STRING]

ASSUME FolderAssumption ==
  /\ \A F \in Folders :
       /\ F.packages \in Seq(PackageType)
       /\ F.files \subseteq FileType
       /\ \A e \in F.files :
            /\ e.package \in 0 .. Len(F.packages)
            /\ e.package # 0 => /\ e.nested \in 1 .. Len(F.packages[e.package].names)
                                /\ e.content \notin Program
            /\ e.package = 0 => e.content # "other"
       /\ \A p \in 1 .. Len(F.packages) :
            ~ F.packages[p].bundle => Len(F.packages[p].names) = 1
  /\ NoName \in STRING
  /\ "other" \notin Program \cup Library \cup Metadata
  /\ Library \cap Metadata = {} /\ Program \cap (Library \cup Metadata) = {}
  /\ V24 \subseteq Metadata /\ Embeds \subseteq Library
  /\ ModuleOf \in [Library -> Module \cup {NoModule}] /\ NoModule \notin Module

VARIABLES
  folder,      \* the scanned tree
  todo,        \* units whose result has not been folded into the summary
  pending,     \* files not processed yet, of the units in todo
  modules,     \* application |-> modules recorded for it
  libraries,   \* contents of the libraries in the cache
  blobs,       \* <<content, context>> of the package metadata in the cache
  tally,       \* outcomes of the current unit
  summary,     \* the Summary
  written      \* ghost: the outputs written, [kind, file, module]

cache   == <<modules, libraries, blobs>>
vars    == <<folder, todo, pending, cache, tally, summary, written>>

-----------------------------------------------------------------------------
(* Which application a file belongs to.                                    *)

Package(p) == folder.packages[p]

\* The directory of an .apk; a bundle is a package set of its own.
PackageSet(p) == IF Package(p).bundle THEN <<"file", p>> ELSE <<"dir", Package(p).dir>>

AppKey(e) ==
  IF e.package = 0
  THEN IF e.root = NoName THEN <<"isolated", 0, e.pos>> ELSE <<"extracted", e.root, 0>>
  ELSE LET name == Package(e.package).names[e.nested]
       IN  IF name = NoName THEN <<"isolated", e.package, e.nested>>
           ELSE <<"manifest", name, PackageSet(e.package)>>

Apps == {AppKey(e) : e \in folder.files}

-----------------------------------------------------------------------------
(* The order of the work.                                                  *)

\* Tuples of numbers, compared from the left.
Before(s, t) ==
  \E i \in DOMAIN s : s[i] < t[i] /\ \A j \in 1 .. i - 1 : s[j] = t[j]

Packages == 1 .. Len(folder.packages)

\* An .apk `apk_manifest_key` finds a key for.
Named(p) == ~ Package(p).bundle /\ Package(p).names[1] # NoName

SplitSet(p) ==
  IF Named(p)
  THEN {q \in Packages : /\ Named(q)
                         /\ Package(q).names[1] = Package(p).names[1]
                         /\ PackageSet(q) = PackageSet(p)}
  ELSE {p}

Leader(p) == CHOOSE q \in SplitSet(p) : \A r \in SplitSet(p) : q <= r

\* The stage of the run a loose file belongs to: PEs, libraries, metadata.
LooseStage(e) ==
  IF e.content \in Program THEN 0 ELSE IF e.content \in Library THEN 1 ELSE 3

\* Packages are stage 2: the groups by their first member, then the rest.
PackageUnit(p) == <<2, IF Named(p) THEN 0 ELSE 1, Leader(p)>>

UnitOf(e) ==
  IF e.package = 0 THEN <<LooseStage(e), 0, e.pos>> ELSE PackageUnit(e.package)

Units == {UnitOf(e) : e \in folder.files} \cup {PackageUnit(p) : p \in Packages}

Members(u) == {p \in Packages : PackageUnit(p) = u}

Grouped(e) == e.package # 0 /\ Cardinality(SplitSet(e.package)) > 1

Priority(e) == IF e.so THEN 0 ELSE 1

\* A mutant of Pass: a group is walked once, member by member.
OnePass(e) == 0

\* A group is walked twice, once for its libraries and once for its metadata.
Pass(e) == IF Grouped(e) THEN Priority(e) ELSE 0

\* How many nested APKs precede the first one of the same application.
AppRank(e) ==
  LET nested == DOMAIN Package(e.package).names
      same   == {i \in nested : AppKey([e EXCEPT !.nested = i]) = AppKey(e)}
  IN  Cardinality({i \in nested : \A j \in same : i < j})

FileOrder(e) ==
  IF e.package = 0 THEN <<0, 0, 0, 0, 0, 0>>
  ELSE <<Pass(e), e.package, AppRank(e), Priority(e), e.nested, e.pos>>

Current(u) == u \in todo /\ \A v \in todo : v = u \/ Before(u, v)

IsNext(e) ==
  /\ e \in pending
  /\ Current(UnitOf(e))
  /\ \A f \in pending :
       UnitOf(f) = UnitOf(e) => f = e \/ Before(FileOrder(e), FileOrder(f))

-----------------------------------------------------------------------------
(* The Summary.                                                            *)

Nothing == [unpacked |-> 0, skipped |-> 0, errors |-> 0, suspect |-> 0,
            metadata |-> 0, packages |-> 0]

Plus(s, t) == [k \in DOMAIN s |-> s[k] + t[k]]

Count(outcome) == tally' = Plus(tally, outcome)

\* A mutant of Skipped: a duplicate counts as unpacked.
CountedAgain == [Nothing EXCEPT !.unpacked = 1]

Skipped  == [Nothing EXCEPT !.skipped = 1]
Failed   == [Nothing EXCEPT !.errors = 1]
Restored == [Nothing EXCEPT !.metadata = 1]

Written(kind, e, m) == [kind |-> kind, file |-> e, module |-> m]

-----------------------------------------------------------------------------
(* The cache.                                                              *)

\* A mutant of Record: one module table for the whole run.
RecordForAll(a, c) ==
  modules' = IF ModuleOf[c] = NoModule THEN modules
             ELSE [b \in Apps |-> modules[b] \cup {ModuleOf[c]}]

\* Record a library's module, if it has one, for application a.
Record(a, c) ==
  modules' = IF ModuleOf[c] = NoModule THEN modules
             ELSE [modules EXCEPT ![a] = @ \cup {ModuleOf[c]}]

\* A mutant of RecordDuplicate: a cached library teaches its new application nothing.
ForgetDuplicate(a, c) == UNCHANGED modules

RecordDuplicate(a, c) == Record(a, c)

\* A mutant of Binding: any module of the application will do.
AnyModule(a) == modules[a]

\* The modules v24 metadata of application a may be bound to: at most one,
\* and none when the libraries disagree.
Binding(a) == {m \in modules[a] : modules[a] = {m}}

\* The recovery context metadata e is restored under.
Contexts(e) == IF e.content \in V24 THEN Binding(AppKey(e)) ELSE {NoModule}

Cached(e, m) == e.package # 0 /\ <<e.content, m>> \in blobs

\* Loose metadata neither reads nor fills the cache.
CacheBlob(e, m) ==
  blobs' = IF e.package = 0 THEN blobs ELSE blobs \cup {<<e.content, m>>}

-----------------------------------------------------------------------------
(* One file.                                                               *)

Init ==
  /\ folder \in Folders
  /\ todo = Units
  /\ pending = folder.files
  /\ modules = [a \in Apps |-> {}]
  /\ libraries = {} /\ blobs = {}
  /\ tally = Nothing
  /\ \E skipped, unreadable \in {0, 1} :
       summary = [Nothing EXCEPT !.skipped = skipped, !.errors = unreadable]
  /\ written = {}

Process(e) == IsNext(e) /\ pending' = pending \ {e} /\ UNCHANGED <<folder, todo, summary>>

UnpackPe(e) ==
  /\ e.content \in Program
  /\ Process(e)
  /\ \/ /\ \E suspect \in {0, 1} :
             Count([Nothing EXCEPT !.unpacked = 1, !.suspect = suspect])
        /\ written' = written \cup {Written("pe", e, NoModule)}
     \/ Count(Failed) /\ UNCHANGED written
  /\ UNCHANGED cache

\* The same encrypted library was restored before: record, write nothing.
DuplicateLibrary(e) ==
  /\ e.content \in Library /\ e.content \in libraries
  /\ Process(e)
  /\ RecordDuplicate(AppKey(e), e.content)
  /\ Count(Skipped)
  /\ UNCHANGED <<libraries, blobs, written>>

RestoreLibrary(e) ==
  /\ e.content \in Library \ libraries
  /\ Process(e)
  /\ Record(AppKey(e), e.content)
  /\ libraries' = libraries \cup {e.content}
  /\ IF e.content \in Embeds
     THEN /\ Count([Nothing EXCEPT !.unpacked = 1, !.metadata = 1])
          /\ written' = written \cup {Written("library", e, NoModule),
                                      Written("embedded", e, NoModule)}
     ELSE /\ Count([Nothing EXCEPT !.unpacked = 1])
          /\ written' = written \cup {Written("library", e, NoModule)}
  /\ UNCHANGED blobs

\* The restore failed, or something after the library is in place: reading it
\* again, or writing its metadata.  Nothing is cached and nothing is recorded.
FailLibrary(e) ==
  /\ e.content \in Library \ libraries
  /\ Process(e)
  /\ Count(Failed)
  /\ \/ written' = written \cup {Written("library", e, NoModule)}
     \/ UNCHANGED written
  /\ UNCHANGED cache

RestoreMetadata(e) ==
  /\ e.content \in Metadata
  /\ \E m \in Contexts(e) :
       /\ ~ Cached(e, m)
       /\ Process(e)
       /\ CacheBlob(e, m)
       /\ Count(Restored)
       /\ written' = written \cup {Written("metadata", e, m)}
  /\ UNCHANGED <<modules, libraries>>

\* The blob was canonical already; a loose one is not even counted.
KeepMetadata(e) ==
  /\ e.content \in Metadata
  /\ \E m \in Contexts(e) : ~ Cached(e, m) /\ Process(e) /\ CacheBlob(e, m)
  /\ Count(IF e.package = 0 THEN Nothing ELSE Skipped)
  /\ UNCHANGED <<modules, libraries, written>>

DuplicateMetadata(e) ==
  /\ e.content \in Metadata
  /\ \E m \in Contexts(e) : Cached(e, m) /\ Process(e)
  /\ Count(Skipped)
  /\ UNCHANGED <<cache, written>>

\* No binding, a failed restore, or a failed write.
FailMetadata(e) ==
  /\ e.content \in Metadata
  /\ \A m \in Contexts(e) : ~ Cached(e, m)
  /\ Process(e)
  /\ Count(Failed)
  /\ UNCHANGED <<cache, written>>

\* A loose blob of a version nothing handles is left alone.
UnsupportedMetadata(e) ==
  /\ e.content \in Metadata \ V24 /\ e.package = 0
  /\ Process(e)
  /\ Count(Skipped)
  /\ UNCHANGED <<cache, written>>

NotTarget(e) ==
  /\ e.content = "other"
  /\ Process(e)
  /\ Count(Skipped)
  /\ UNCHANGED <<cache, written>>

ProcessFile(e) ==
  \/ UnpackPe(e)
  \/ DuplicateLibrary(e) \/ RestoreLibrary(e) \/ FailLibrary(e)
  \/ RestoreMetadata(e) \/ KeepMetadata(e) \/ DuplicateMetadata(e)
  \/ FailMetadata(e) \/ UnsupportedMetadata(e)
  \/ NotTarget(e)

-----------------------------------------------------------------------------
(* One unit.                                                               *)

Opened(u) == [Nothing EXCEPT !.packages = Cardinality(Members(u))]

FilesOf(u) == {e \in pending : UnitOf(e) = u}

\* Every file of the unit was processed: fold its outcomes.
FinishUnit(u) ==
  /\ Current(u) /\ FilesOf(u) = {}
  /\ todo' = todo \ {u}
  /\ summary' = Plus(Plus(summary, tally), Opened(u))
  /\ tally' = Nothing
  /\ UNCHANGED <<folder, pending, cache, written>>

\* An Err or a panic while opening an archive, extracting or probing an entry,
\* or hashing a loose file: the rest of the unit is given up, and the outcomes
\* it had so far are lost.
AbortUnit(u) ==
  /\ Current(u)
  /\ Members(u) # {} \/ FilesOf(u) # {}
  /\ todo' = todo \ {u}
  /\ pending' = pending \ FilesOf(u)
  /\ summary' = Plus(Plus(summary, Failed), Opened(u))
  /\ tally' = Nothing
  /\ UNCHANGED <<folder, cache, written>>

Done == todo = {} /\ UNCHANGED vars

Next ==
  \/ \E e \in pending : ProcessFile(e)
  \/ \E u \in todo : FinishUnit(u) \/ AbortUnit(u)
  \/ Done

Spec == Init /\ [][Next]_vars

-----------------------------------------------------------------------------
(* Properties.                                                             *)

TypeOK ==
  /\ folder \in Folders
  /\ todo \subseteq Units
  /\ pending \subseteq {e \in folder.files : UnitOf(e) \in todo}
  /\ modules \in [Apps -> SUBSET Module]
  /\ libraries \subseteq Library
  /\ blobs \subseteq Metadata \X (Module \cup {NoModule})
  /\ tally \in [DOMAIN Nothing -> Nat] /\ summary \in [DOMAIN Nothing -> Nat]
  /\ written \subseteq [kind : {"pe", "library", "embedded", "metadata"},
                        file : folder.files, module : Module \cup {NoModule}]

\* The names of a folder's package entries say what they hold.
WellNamed(F) == \A e \in F.files : /\ e.content \in Library => e.so
                                   /\ e.content \in Metadata => ~ e.so

(***************************************************************************)
(* The module v24 metadata was restored under is the one and only module   *)
(* its application has, then and for the rest of the run: no library of a  *)
(* sibling split, of a nested APK or of the same loose tree is restored    *)
(* late enough to make the choice ambiguous afterwards.                    *)
(* (restore_apk_group, restore_package_pass and binding_module.)           *)
(***************************************************************************)
BindingStaysSole ==
  WellNamed(folder) =>
    \A w \in written :
      w.kind = "metadata" /\ w.file.content \in V24 =>
        modules[AppKey(w.file)] = {w.module}

\* What the run recovers is what AppRecovery promises.
Recovery == INSTANCE AppRecovery WITH
  recovered <- {<<AppKey(w.file), w.module>> :
                  w \in {v \in written : v.kind = "metadata" /\ v.file.content \in V24}}

AppRecoverySpec == Recovery!AppRecoverySpec

(***************************************************************************)
(* A module recorded for an application was decoded from one of that       *)
(* application's own libraries, even when the library was first restored   *)
(* for another application and found in the cache (record_module).         *)
(***************************************************************************)
ModulesOf(a) ==
  {ModuleOf[e.content] : e \in {f \in folder.files : f.content \in Library /\ AppKey(f) = a}}
    \ {NoModule}

ModulesStayHome == \A a \in Apps : modules[a] \subseteq ModulesOf(a)

Outputs(kinds) == {w \in written : w.kind \in kinds}

\* The kinds of sources in their order: a loose file, an .apk with a readable
\* manifest, the other packages.
SourceRank(e) == IF e.package = 0 THEN 0 ELSE IF Named(e.package) THEN 1 ELSE 2

(***************************************************************************)
(* A run that ends with no error, hence with exit code 0, missed nothing:  *)
(* every PE was unpacked, every library restored exactly once, from a copy *)
(* of the earliest kind of source, every application knows all its         *)
(* modules, every v24 blob was handled under an unambiguous one, and the   *)
(* counters are the outputs on disk.                                       *)
(***************************************************************************)
CleanRunIsComplete ==
  todo = {} /\ summary.errors = 0 =>
    /\ \A e \in folder.files :
         e.content \in Program => Written("pe", e, NoModule) \in written
    /\ \A e \in folder.files : e.content \in Library =>
         /\ Cardinality({w \in Outputs({"library"}) : w.file.content = e.content}) = 1
         /\ \A w \in Outputs({"library"}) :
              w.file.content = e.content => SourceRank(w.file) <= SourceRank(e)
    /\ \A a \in Apps : modules[a] = ModulesOf(a)
    /\ WellNamed(folder) =>
         \A e \in folder.files :
           e.content \in V24 => Cardinality(ModulesOf(AppKey(e))) = 1
    /\ summary.unpacked = Cardinality(Outputs({"pe", "library"}))
    /\ summary.metadata = Cardinality(Outputs({"metadata", "embedded"}))

(***************************************************************************)
(* The Summary never claims more than was written, whatever failed on the  *)
(* way, and a suspect file is one of the unpacked ones (Summary and        *)
(* apply_package_outcomes in job.rs).                                      *)
(***************************************************************************)
SummaryIsHonest ==
  LET total == Plus(summary, tally)
  IN  /\ total.unpacked <= Cardinality(Outputs({"pe", "library"}))
      /\ total.metadata <= Cardinality(Outputs({"metadata", "embedded"}))
      /\ total.suspect <= Cardinality(Outputs({"pe"}))
=============================================================================
