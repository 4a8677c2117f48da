----------------------------- MODULE Diagnostics -----------------------------
(***************************************************************************)
(* The structural checks of what an unpack or a restore gave back: an      *)
(* unpacked PE image (Integrity) or a restored ELF (ElfVerify). They only  *)
(* read the image and write lines.                                         *)
(***************************************************************************)
EXTENDS Integrity, ElfVerify

CONSTANT Images

Ranges == [va : Nat, virtual : Nat, raw : Nat, offset : Nat, exec : BOOLEAN]
Directory == {"imports", "delay imports", "bound imports", "addresses", "tls",
              "relocations", "exceptions", "load config", "clr"}
Blocks == [page : Nat, size : Nat, entries : Seq([kind : Nat, offset : Nat])]

Listed(list) == list \in Seq({list[k] : k \in DOMAIN list})

\* Values of a file are unsigned and its tables are lists. Where the walk looks for a
\* block of relocations there is one.
PeRead(i) ==
  LET size == i.dir["relocations"].size
      at == Starts(i.blocks)
  IN /\ i.sections \in Seq(Ranges) /\ i.blocks \in Seq(Blocks)
     /\ {i.length, i.headers, i.size} \cup {i.dir[name].size : name \in DOMAIN i.dir} \subseteq Nat
     /\ DOMAIN i.dir = Directory
     /\ \A from \in DOMAIN i.thunks : i.thunks[from] \in Seq(Nat)
     /\ \A from \in DOMAIN i.imports : Listed(i.imports[from])
     /\ i.text \subseteq Nat
     /\ i.clr.rva # 0 => i.clr.count \in Nat
     /\ (\A k \in DOMAIN i.blocks : BlockFits(i.blocks[k], at[k - 1], size))
          => at[Len(i.blocks)] + 8 > size

Loads == [offset : Nat, va : Nat, file : Nat, memory : Nat, align : Nat, flags : SUBSET {"r", "w", "x"}]

ElfRead(i) ==
  /\ i.segments \in Seq(Loads)
  /\ Listed(i.programs) /\ Listed(i.sections) /\ Listed(i.dynamic)
  /\ \A k \in DOMAIN i.sections : i.sections[k].size \in Nat
  /\ \A name \in {".rela.dyn", ".rela.plt"} :
       Listed(i.relas[name]) /\ \A r \in ToSet(i.relas[name]) : {r.at, r.symbol} \subseteq Nat
  /\ i.gnu.bucket \in Seq(Nat) /\ {i.gnu.symoffset, i.gnu.bloom, i.hash.buckets, i.hash.chains} \subseteq Nat

ASSUME ImageAssumption == \A i \in Images : IF i.kind = "pe" THEN PeRead(i) ELSE ElfRead(i)

Init ==
  /\ image \in Images
  /\ table = (IF image.kind = "pe" THEN "headers" ELSE "programs")
  /\ row = 1 /\ sink = Fresh /\ report = <<>> /\ issues = <<>>

Next ==
  \/ IntegrityNext
  \/ VerifyNext /\ UNCHANGED issues

Spec == Init /\ [][Next]_checking

-----------------------------------------------------------------------------
PeTables == {"imports", "delay imports", "bound imports", "addresses", "tls",
             "relocations", "exceptions", "load config", "metadata"}

Whole(s) == s.dropped = 0 /\ ~ s.unseen

Reported(name) == {k \in DOMAIN report : report[k].table = name}

\* Every defect of the rows of a table whose rows are asked for.
FunctionDefects ==
  LET dir == Dir("exceptions")
      entry == IF image.is64 THEN 12 ELSE 8
      functions == dir.size \div entry
  IN IF dir.rva # 0 /\ Backed(dir.rva, functions * entry)
     THEN UNION {ToSet(BadFunction(k)) : k \in 1..Smaller(functions, MaxExceptions)} ELSE {}

BlocksFit(i) ==
  \A j \in 1..i : BlockFits(image.blocks[j], BlocksBefore(j), Dir("relocations").size)

BlockDefects(i) == UNION {ToSet(BadEntry(image.blocks[i], i, k)) : k \in DOMAIN image.blocks[i].entries}

PatchDefects ==
  LET dir == Dir("relocations") IN
  IF dir.rva # 0 /\ Backed(dir.rva, dir.size)
  THEN UNION {BlockDefects(i) : i \in {i \in DOMAIN image.blocks : i <= MaxBlocks /\ BlocksFit(i)}} ELSE {}

CallbackDefects ==
  LET dir == Dir("tls") IN
  IF /\ dir.rva # 0 /\ Backed(dir.rva, IF image.is64 THEN 40 ELSE 24)
     /\ CallbackArray # 0 /\ Backed(CallbackArray, Pointer)
  THEN UNION {ToSet(BadCallback(CallbackArray, k)) : k \in 1..Upto(CallbackArray, MaxCallbacks)} ELSE {}

RowDefects(name) ==
  CASE name = "exceptions" -> FunctionDefects
    [] name = "relocations" -> PatchDefects
    [] name = "tls" -> CallbackDefects
    [] OTHER -> {}

\* findings.rs 14-15, "a truncated list is never mistaken for an exhaustive one": what
\* a table reports either holds every defect of its rows or says that it does not. (Rows
\* beyond the cap of a table are not counted here.)
TruncationIsTold ==
  \A k \in DOMAIN report :
    LET told == report[k] IN
    /\ told.table \in PeTables /\ Whole(told.sink)
         => RowDefects(told.table) \subseteq ToSet(told.sink.kept)
    /\ ~ Whole(told.sink) => Len(Lines(told.sink)) > MaxPerTable

\* The import directory and the names of the modules are read from the bytes of one
\* section: neither lies in the part of a section that has no file bytes.
NoTails ==
  LET dir == Dir("imports").rva
      names == UNION {{r.name : r \in ToSet(image.imports[o])} : o \in DOMAIN image.imports}
  IN /\ Offset(dir, 20) = FileRange(dir, 20)
     /\ \A rva \in names \ {0} : Offset(rva, 1) = FileRange(rva, 1)

\* Every descriptor up to the null one names a module and a table of names that ends.
ImportsWalk ==
  LET rows == HeldAt(image.imports, FileRange(Dir("imports").rva, 20))
      named(rva) == \E n \in 1..Len(Words(rva)) :
                      /\ Words(rva)[n] = 0
                      /\ \A k \in 1..n - 1 : IsOrdinal(Words(rva)[k]) \/ BadString(Words(rva)[k], 2, "") = <<>>
  IN Dir("imports").rva # 0 =>
       \E n \in 1..Len(rows) :
         /\ rows[n].name = 0
         /\ \A k \in 1..n - 1 :
              /\ BadString(rows[k].name, 0, "") = <<>>
              /\ rows[k].original # 0 => named(rows[k].original)

\* The blocks fill their directory and patch nothing beyond the image.
RelocationsWalk ==
  LET dir == Dir("relocations") IN
  dir.rva # 0 =>
    \E n \in 1..Len(image.blocks) + 1 :
      /\ BlocksBefore(n) = dir.size
      /\ \A j \in 1..n - 1 : \A e \in ToSet(image.blocks[j].entries) :
           e.kind # 0 => e.kind <= 10 /\ image.blocks[j].page + e.offset < image.size

\* mod.rs 16-17, "a clean report therefore means 'the loader would be able to walk
\* these tables'", for a native image that keeps its imports within its file bytes.
CleanReportWalks ==
  /\ table = "end" /\ issues = <<>>
  /\ image.kind = "pe" /\ ~ Managed /\ NoTails
  => ImportsWalk /\ RelocationsWalk

\* The directory as the 32-bit loader reads it: four pointers in sixteen bytes.
Sound32(field) == BadAddress(image.tls[field], "") = <<>>
SoundTls32 ==
  LET array == image.tls[4] - image.base IN
  /\ \A field \in 1..4 : Sound32(field)
  /\ image.tls[4] = 0 \/ (Terminated(array, MaxCallbacks) /\ \A k \in 1..Upto(array, MaxCallbacks) : BadCallback(array, k) = <<>>)

\* directories.rs 3-7 and 566: these are defects "the output bytes themselves prove", and
\* the 32-bit directory is 24 bytes long; a sound one gives no line.
SoundTlsIsQuiet ==
  \A k \in DOMAIN report :
    /\ report[k].table = "tls" /\ ~ image.is64 /\ Dir("tls").rva # 0 /\ Dir("tls").size >= 24
    /\ Backed(Dir("tls").rva, 24) /\ SoundTls32
    => Lines(report[k].sink) = <<>>

-----------------------------------------------------------------------------
Silent(name) == \A k \in Reported(name) : Lines(report[k].sink) = <<>>

Overlap(a, b) ==
  /\ a.memory > 0 /\ b.memory > 0
  /\ a.va < b.va + b.memory /\ b.va < a.va + a.memory

SegmentsApart ==
  \A i, j \in DOMAIN image.segments : i # j => ~ Overlap(image.segments[i], image.segments[j])

\* verify.rs 302-304: "Sorted by address the mappings must not overlap". Only neighbours
\* are compared, and still any two segments that overlap are noticed.
OverlapIsSeen ==
  image.kind = "elf" /\ Reported("segments") # {} /\ Silent("segments") => SegmentsApart

\* A relocation lies in one segment and names a symbol that is there.
RelasResolve ==
  \A name \in {".rela.dyn", ".rela.plt"} :
    Has(name) /\ BackedSection(name) /\ ~ Unread(".rela.dyn") =>
      \A k \in 1..Records(name) :
        LET r == Rela(name, k) IN
        /\ \E s \in ToSet(image.segments) : s.va <= r.at /\ r.at + 8 <= s.va + s.memory
        /\ r.kind = "RELATIVE" \/ r.symbol < SymbolCount

\* The slots a lookup starts from lie in their table.
HashesHold ==
  /\ Has(".hash") /\ BackedSection(".hash") =>
       8 + 4 * (image.hash.buckets + SymbolCount) <= Section(".hash").size
  /\ Has(".gnu.hash") /\ BackedSection(".gnu.hash") =>
       \A k \in 1..Smaller(Len(image.gnu.bucket), MaxBuckets) :
         LET b == image.gnu.bucket[k] IN
         b >= image.gnu.symoffset /\ b # 0 =>
           16 + 8 * image.gnu.bloom + 4 * Len(image.gnu.bucket) + 4 * (b - image.gnu.symoffset) + 4
             <= Section(".gnu.hash").size

\* verify.rs 14-17: when the tables are silent a relocation finds its target and its
\* symbol, and a lookup that starts at or after the first hashed symbol stays in its table.
\* A first table without file bytes leaves the second one unread, and neither says so.
SilentElfResolves ==
  /\ image.kind = "elf" /\ Reported("hashes") # {}
  /\ \A name \in {"relas", "hashes"} : Silent(name)
  => RelasResolve /\ HashesHold
===============================================================================
