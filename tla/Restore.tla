------------------------------- MODULE Restore -------------------------------
(***************************************************************************)
(* Restoring a protected library from its extracted artifacts:             *)
(*   senbei-engine/src/android/restore/{pipeline,artifact}.rs              *)
(* The restoration goes on where Extract stops, with a budget of its own.  *)
(* The tables it rebuilds are those of ElfTables; what one of its steps    *)
(* reads it has from the steps before, in the temporary output.            *)
(***************************************************************************)
EXTENDS Extract, ElfTables

CONSTANTS
  Libraries,  \* content of the 0x9D image |-> what decodes from it
  Seeds       \* contents of 0x96 in which the symbol seed is found

ASSUME LibraryAssumption == \A c \in DOMAIN Libraries : Parsed(Libraries[c])

ASSUME LinkerAssumption == \A c \in DOMAIN Libraries : Linked(Libraries[c])

VARIABLES
  stage,      \* the next step, "failed" or "written"
  lib,        \* the decoded library
  pending,    \* artifacts still to be read
  charged,    \* this call's ByteBudget
  records,    \* this call's EntryBudget
  temp,       \* the NamedTempFile
  dest        \* what a persist put at the output path, if one did

restoring == <<stage, lib, pending, charged, records, temp, dest>>

NoFile == <<>>

Required == {155, 157, 158}   \* 0x9b, 0x9d, 0x9e
Seed == 150                   \* 0x96
Constructors == 152           \* 0x98

Wanted == Required \cup {Seed, Constructors}

\* The records of that id with an image, in a stream of the index.
Showing(id, rows) == {i \in DOMAIN rows : rows[i].id = id /\ rows[i].image # None}

Shown(id) == {k \in DOMAIN index.streams : Showing(id, index.streams[k].records) # {}}

\* A registered module, unless some stream reports a record of that id: then the
\* last such record.
ArtifactOf(id) ==
  IF Shown(id) # {}
  THEN LET rows == index.streams[Largest(Shown(id))].records
           record == rows[Largest(Showing(id, rows))]
       IN [path |-> record.image.path, size |-> record.image.size, entry |-> record.entry]
  ELSE [path |-> index.registry[id].path, size |-> index.registry[id].size,
        entry |-> index.registry[id].entry]

Indexed == {id \in Wanted : id \in DOMAIN index.registry \/ Shown(id) # {}}

\* A file is as long as what was last written to it.
SizeOnDisk(path) == Last(SelectSeq(artifacts, LAMBDA a : a.path = path)).size

ArtifactsFit ==
  /\ Required \subseteq Indexed
  /\ \A id \in Indexed : SizeOnDisk(ArtifactOf(id).path) = ArtifactOf(id).size

Affordable(size) == size <= limits.entry /\ charged + size <= limits.total

\* A mutant of Sizable: the total is for decoded bytes alone.
SizableAlone(size) == size <= limits.entry

\* A file of this size: capped on its own, never charged.
Sizable(size) == size <= limits.entry /\ size <= limits.total

Proceed(from, ok, to) ==
  /\ stage = from
  /\ stage' = IF ok THEN to ELSE "failed"
  /\ UNCHANGED vars

\* A mutant of Keep: a failing call leaves its temporary behind.
KeepAnyway(ok, file) == temp' = file

\* A failing call drops its temporary.
Keep(ok, file) == temp' = IF ok THEN file ELSE NoFile

\* The temporary with these parts written.
With(parts) == [x \in DOMAIN temp \cup DOMAIN parts |-> IF x \in DOMAIN parts THEN parts[x] ELSE temp[x]]

-----------------------------------------------------------------------------
RestoreInit ==
  /\ stage = "idle" /\ lib = None /\ pending = <<>>
  /\ charged = 0 /\ records = 0 /\ temp = NoFile
  /\ dest = NoFile

Optional(id) == IF id \in Indexed THEN <<id>> ELSE <<>>

\* Never over the protected input itself.
LoadArtifacts ==
  LET ok == ~ elf.inplace /\ ArtifactsFit IN
  /\ step = "done" /\ Proceed("idle", ok, "read")
  /\ pending' = IF ok THEN <<155, 158>> \o Optional(Seed) \o Optional(Constructors) ELSE pending
  /\ UNCHANGED <<lib, charged, records, temp, dest>>

\* One artifact: its size is charged before it is read, a seed must be found in
\* 0x96 and an entry point come with 0x98.
ReadArtifact ==
  /\ stage = "read" /\ pending # <<>>
  /\ LET id == Head(pending)
         artifact == ArtifactOf(id)
         ok == /\ Affordable(artifact.size)
               /\ id = Seed => files[artifact.path] \in Seeds
               /\ id = Constructors => artifact.entry # 0
     IN /\ Proceed("read", ok, "read")
        /\ charged' = IF ok THEN charged + artifact.size ELSE charged
  /\ pending' = Tail(pending)
  /\ UNCHANGED <<lib, records, temp, dest>>

FileLoadEnd(library) == Largest({l.offset + l.file : l \in library.loads})
LoadEnd(library) == Largest({l.address + l.memory : l \in library.loads})

\* The private section follows the loaded bytes, the descriptor and both
\* containers declare what the headers say, and the output may be that long.
HeadersFit(library) ==
  /\ library.private = Align(FileLoadEnd(library), 16)
  /\ library.primary.size = LoadEnd(library)
  /\ library.auxiliary.size <= limits.entry
  /\ Sizable(library.private)

\* A library under the seed 0x96 holds, if any.
Seeded(library, seeded) == [library EXCEPT !.aux = [library.aux EXCEPT !.permuted = seeded]]

Image9d == files[ArtifactOf(157).path]

\* The 0x9D image is a library that fits its ELF; the temporary begins as the
\* bytes before the private section.
CreateTemporary ==
  /\ pending = <<>>
  /\ LET library == Seeded(Libraries[Image9d], Seed \in Indexed)
         ok == Image9d \in DOMAIN Libraries /\ HeadersFit(library)
     IN /\ Proceed("read", ok, "primary")
        /\ lib' = IF ok THEN library ELSE lib
        /\ Keep(ok, [length |-> library.private, decoded |-> FALSE])
  /\ UNCHANGED <<pending, charged, records, dest>>

Packed(w) == w.encoded # w.size

Unpacked(container) ==
  SumOf([i \in DOMAIN container.writers |->
           IF Packed(container.writers[i]) THEN container.writers[i].size ELSE 0])

\* A write is refused before anything is decoded for it.
WritersFit(container, size, paid) ==
  /\ records + container.segments + Len(container.writers) <= limits.entries
  /\ \A w \in ToSet(container.writers) :
       w.encoded <= limits.entry /\ w.size <= limits.entry /\ w.at + w.size <= size
  /\ paid + Unpacked(container) <= limits.total

\* Every byte of a write has a place in memory; file bytes are those of a
\* segment's file part.
Covered(w) ==
  \A byte \in w.at..w.at + w.size - 1 :
    \E l \in lib.loads : l.address <= byte /\ byte < l.address + l.memory

DecodePrimary ==
  LET ok == /\ WritersFit(lib.primary, LoadEnd(lib), charged)
            /\ \A w \in ToSet(lib.primary.writers) : Covered(w)
  IN /\ Proceed("primary", ok, "auxiliary")
     /\ charged' = IF ok THEN charged + Unpacked(lib.primary) ELSE charged
     /\ records' = IF ok THEN records + lib.primary.segments + Len(lib.primary.writers) ELSE records
     /\ Keep(ok, With([decoded |-> TRUE]))
     /\ UNCHANGED <<lib, pending, dest>>

\* The auxiliary image is reserved whole, and charged before that.
DecodeAuxiliary ==
  LET ok == /\ Affordable(lib.auxiliary.size)
            /\ WritersFit(lib.auxiliary, lib.auxiliary.size, charged + lib.auxiliary.size)
  IN /\ Proceed("auxiliary", ok, "extend")
     /\ charged' = IF ok THEN charged + lib.auxiliary.size + Unpacked(lib.auxiliary) ELSE charged
     /\ records' = IF ok THEN records + lib.auxiliary.segments + Len(lib.auxiliary.writers)
                   ELSE records
     /\ Keep(ok, temp)
     /\ UNCHANGED <<lib, pending, dest>>

\* Room for the largest tables there can be, taken before they are built.
Extend ==
  LET ok == /\ lib.aux.symbols # <<>>
            /\ MappingLength(lib) >= lib.private /\ Sizable(MappingLength(lib))
  IN /\ Proceed("extend", ok, "symbols")
     /\ Keep(ok, With([length |-> MappingLength(lib)]))
     /\ UNCHANGED <<lib, pending, charged, records, dest>>

-----------------------------------------------------------------------------
\* The rest until "cut" is one call, `materialize_static_elf_tables`.

Scratch(size) == size <= limits.entry

MergeSymbols ==
  LET ok == /\ PatchFits(lib) /\ AuxiliaryFits(lib)
            /\ Scratch(SymbolSize * Len(Symbols(lib))) /\ Scratch(Strings(lib) + 64)
  IN /\ Proceed("symbols", ok, "imports")
     /\ Keep(ok, With([symbols |-> Symbols(lib)]))
     /\ UNCHANGED <<lib, pending, charged, records, dest>>

\* The slots nothing binds get the imports their callers tell.
AddImports ==
  LET ok == RelocationsFit(lib) /\ MissingFits(lib) /\ SpecialsFit(lib) IN
  /\ Proceed("imports", ok, "constructors")
  /\ Keep(ok, With([symbols |-> Merged(lib)]))
  /\ UNCHANGED <<lib, pending, charged, records, dest>>

\* With 0x98, what the stage 1 constructor would have run.
ProfileConstructors ==
  LET ok == Constructors \in Indexed => ConstructorsFit(lib) IN
  /\ Proceed("constructors", ok, "plt")
  /\ Keep(ok, With([init |-> IF Constructors \in Indexed THEN Addends(lib) ELSE <<>>]))
  /\ UNCHANGED <<lib, pending, charged, records, dest>>

BindPlt ==
  LET ok == PltFits(lib) IN
  /\ Proceed("plt", ok, "dyn")
  /\ Keep(ok, With([plt |-> PltRows(lib)]))
  /\ UNCHANGED <<lib, pending, charged, records, dest>>

\* Converted, then sorted; the RELATIVE ones in front are counted.
RelocateDyn ==
  LET ok == SymbolsExist(DynRows(lib), temp.symbols) IN
  /\ Proceed("dyn", ok, "redirect")
  /\ Keep(ok, With([dyn |-> InOrder(Converted(DynRows(lib), temp.symbols))]))
  /\ UNCHANGED <<lib, pending, charged, records, dest>>

Redirect ==
  LET redirected == Constructors \in Indexed
      ok == /\ redirected => RedirectFits(lib, temp.dyn)
            /\ Scratch(RelaSize * Len(temp.dyn)) /\ Scratch(RelaSize * Len(temp.plt))
  IN /\ Proceed("redirect", ok, "place")
     /\ Keep(ok, With([dyn |-> IF redirected THEN Redirected(lib, temp.dyn) ELSE temp.dyn,
                       relative |-> RelativePrefix(temp.dyn)]))
     /\ UNCHANGED <<lib, pending, charged, records, dest>>

\* The old window is cleared, the tables are written, each at its place.
Place ==
  LET tables == Built(lib, Len(temp.symbols), Len(temp.dyn), Len(temp.plt))
      moved == Moved(lib, tables)
      placed == Placed(lib, tables)
      ok == IF moved THEN Extensible(lib, placed) ELSE Mapped(lib, placed)
  IN /\ Proceed("place", ok, "tags")
     /\ Keep(ok, With([tables |-> placed.at, cleared |-> Window(lib),
                       header |-> HeaderPlace(lib, moved),
                       finish |-> IF moved THEN placed.end ELSE lib.private]))
     /\ UNCHANGED <<lib, pending, charged, records, dest>>

\* The tags are patched and the file is cut after the last table.
PatchTags ==
  /\ Proceed("tags", TagsFit(lib), "finalize")
  /\ Keep(TagsFit(lib), With([length |-> temp.finish]))
  /\ UNCHANGED <<lib, pending, charged, records, dest>>

-----------------------------------------------------------------------------
\* The sections no segment loads follow, then the section headers.
Appended == Laid(lib.loose, temp.length)

Finalize ==
  LET ok == lib.last /\ temp.length >= lib.private
      headers == Align(Appended.end, 8)
  IN /\ Proceed("finalize", ok, "validate")
     /\ Keep(ok, With([length |-> headers + lib.headers, loose |-> Appended.at]))
     /\ UNCHANGED <<lib, pending, charged, records, dest>>

TableSize(name) ==
  LET found == SelectSeq(temp.tables, LAMBDA t : t.name = name) IN found[1].size

\* The counts a fresh parse finds are those of the report.
CountsAgree ==
  /\ TableSize(".dynsym") \div SymbolSize = Len(temp.symbols)
  /\ TableSize(".rela.dyn") \div RelaSize = Len(temp.dyn)
  /\ TableSize(".rela.plt") \div RelaSize = Len(temp.plt)

Validate ==
  /\ Proceed("validate", CountsAgree, "persist")
  /\ Keep(CountsAgree, temp)
  /\ UNCHANGED <<lib, pending, charged, records, dest>>

Persist ==
  /\ Proceed("persist", TRUE, "hash")
  /\ dest' = temp
  /\ temp' = NoFile
  /\ UNCHANGED <<lib, pending, charged, records>>

\* The report is written last; by then the output is already there.
Hash ==
  /\ Proceed("hash", TRUE, "written")
  /\ UNCHANGED <<lib, pending, charged, records, temp, dest>>

\* An I/O error, or a reservation that fails, anywhere.
BreakOff ==
  /\ step = "done" /\ stage \notin {"failed", "written"}
  /\ Proceed(stage, FALSE, stage)
  /\ temp' = NoFile
  /\ UNCHANGED <<lib, pending, charged, records, dest>>

RestoreNext ==
  \/ BreakOff
  \/ LoadArtifacts \/ ReadArtifact \/ CreateTemporary
  \/ DecodePrimary \/ DecodeAuxiliary \/ Extend
  \/ MergeSymbols \/ AddImports \/ ProfileConstructors \/ BindPlt \/ RelocateDyn
  \/ Redirect \/ Place \/ PatchTags \/ Finalize \/ Validate \/ Persist \/ Hash

-----------------------------------------------------------------------------
RestoreTypeOK ==
  /\ charged \in 0..limits.total /\ records \in 0..limits.entries
  /\ temp # NoFile /\ stage \notin {"validate", "persist"} => temp.length <= limits.total
  /\ stage \in {"idle", "read", "hash", "written"} => temp = NoFile

\* The dynamic tables of what is at the destination.
Published == dest # NoFile

\* Each relocation of the output names the symbol its author meant, or, where the
\* library defines it, points as far behind that symbol's value as it did behind the
\* symbol; and every relocation of the source or of the auxiliary image is there but
\* those of the symbols taken out
\* (decode_auxiliary_symbol 1190-1212, convert_defined_symbol_relocations
\* 1294-1313, materialize_static_elf_tables 1872-2035).
RelocationsKeepTheirSymbols ==
  Published =>
    /\ \A r \in ToSet(dest.dyn) \cup ToSet(dest.plt) :
         IF r.sym # 0 THEN r.sym < Len(dest.symbols) /\ dest.symbols[r.sym + 1].name = r.means
         ELSE r.means # "" =>
                \E s \in ToSet(dest.symbols), o \in Sources(lib) :
                  /\ s.defined /\ s.name = r.means
                  /\ o.at = r.at /\ o.means = r.means /\ r.addend = o.addend + s.value
    /\ Len(dest.dyn) + Len(dest.plt) =
         Len(Kept(lib, lib.dyn)) + Len(OldPlt(lib)) + Len(lib.aux.first) + Len(lib.aux.second)
           + Cardinality(Missing(lib))
    /\ \A slot \in Missing(lib) : \E r \in ToSet(dest.plt) : r.at = slot /\ r.means \in Specials

Touched ==
  {dest.cleared, dest.header} \cup {[offset |-> t.offset, size |-> t.size] : t \in ToSet(dest.tables)}

\* Nothing is written over a section that is not one of the tables, no table is
\* behind the end of the file, and no appended section is over a table
\* (metadata_capacity_end 1503-1527, append_load_segment, materialize 2184-2256).
NothingElseIsTouched ==
  Published =>
    /\ \A s \in Filed(lib) : s.name \notin TableNames(lib) \ {".dynamic"} =>
         \A part \in Touched : Disjoint(s, part)
    /\ \A t \in ToSet(dest.tables) :
         \/ t.offset + t.size <= lib.private
         \/ /\ t.offset >= ExtensionStart(lib)
            /\ t.offset + t.size <= dest.finish /\ dest.finish <= MappingLength(lib)
    /\ \A i, j \in DOMAIN dest.tables : i # j => Disjoint(dest.tables[i], dest.tables[j])
    /\ \A s \in ToSet(dest.loose) : s.offset >= dest.finish

\* The destination is what it was, or a finished image whose counts a fresh parse
\* confirmed; a failing call leaves no temporary (restore 2528-2817).
PublishedOnlyWhole ==
  /\ Published => /\ dest.decoded /\ {"tables", "loose", "init"} \subseteq DOMAIN dest
                  /\ Len(dest.symbols) = Len(Merged(lib))
                  /\ dest.length > dest.finish
  /\ stage = "failed" => temp = NoFile
  /\ stage = "written" => Published
=============================================================================
