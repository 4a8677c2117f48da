----------------------------- MODULE ElfTables -----------------------------
(***************************************************************************)
(* The dynamic-linker tables a restored Android library gets: symbols,     *)
(* relocations, constructors and where the tables go in the file.          *)
(*   senbei-engine/src/android/restore/{pipeline,constructors}.rs          *)
(*   senbei-elf/src/{layout,hash}.rs                                       *)
(* `lib` is the decoded image.  Symbol i of a table is its entry i + 1; an *)
(* address is a number, and a relocation has a place, a kind, a symbol, an *)
(* addend and, as a ghost, the name of the symbol its author meant.        *)
(***************************************************************************)
EXTENDS Integers, Sequences, FiniteSets, SequencesExt

SymbolSize == 24
RelaSize == 24
NameSize == 7          \* each of the five special names with its NUL

Protectors == {"dlerror", "__stack_chk_guard", "__stack_chk_fail"}
Specials == {"strlen", "strcmp", "memset", "strcpy", "strchr"}
DynKinds == {"RELATIVE", "GLOB_DAT", "ABS64"}

Align(n, a) == ((n + a - 1) \div a) * a

Largest(S) == CHOOSE x \in S : \A y \in S : y <= x
Smallest(S) == CHOOSE x \in S : \A y \in S : x <= y

-----------------------------------------------------------------------------
(* What the parsers hand over: counts and sizes are unsigned, tables are   *)
(* vectors.  What the tables say is checked by the steps below.            *)

ImageParts ==
  {"last", "headers", "align", "private", "loads", "primary", "auxiliary", "symbols", "versions",
   "patch", "aux", "dyn", "plt", "got", "slots", "pltroom", "callers", "selector", "init", "inits",
   "fini", "callbacks", "code", "strings", "verneed", "gnu", "sysv", "tags", "sections", "phdrs",
   "loose"}

Listed(rows) == rows \in Seq(ToSet(rows))

SizedContainer(container) ==
  /\ {container.size, container.segments} \subseteq Nat
  /\ Listed(container.writers)
  /\ \A w \in ToSet(container.writers) : {w.at, w.size, w.encoded} \subseteq Nat

\* The required sections leave section headers to be written, and an alignment
\* of 0 is refused or read as 1.
Parsed(lib) ==
  /\ ImageParts \subseteq DOMAIN lib
  /\ {"symbols", "permuted", "rotation", "strings", "first", "second"} \subseteq DOMAIN lib.aux
  /\ {lib.headers, lib.align} \subseteq Nat \ {0}
  /\ {lib.private, lib.versions, lib.strings, lib.aux.strings, lib.verneed, lib.slots,
      lib.phdrs.at, lib.phdrs.count} \subseteq Nat
  /\ {lib.got, lib.init, lib.inits} \subseteq Nat
  /\ \A rows \in {lib.symbols, lib.patch, lib.dyn, lib.plt, lib.loose, lib.aux.symbols,
                   lib.aux.first, lib.aux.second} : Listed(rows)
  /\ Listed(lib.callbacks)
  /\ \A s \in ToSet(lib.loose) : s.size \in Nat /\ s.align \in Nat \ {0}
  /\ SizedContainer(lib.primary) /\ SizedContainer(lib.auxiliary)

-----------------------------------------------------------------------------
(* Rows taken from a table in their order, and rows sorted.                *)

Picked(rows, places) ==
  LET first[i \in 0..Len(rows)] ==
        IF i = 0 THEN <<>>
        ELSE IF i \in places THEN Append(first[i - 1], rows[i]) ELSE first[i - 1]
  IN first[Len(rows)]

\* Behind every row it is not before.
Inserted(rows, row, before) ==
  LET k == Cardinality({i \in DOMAIN rows : <<row, rows[i]>> \notin before}) IN
  SubSeq(rows, 1, k) \o <<row>> \o SubSeq(rows, k + 1, Len(rows))

\* A stable sort: rows neither of which is before the other keep their order.
Arranged(rows, before) ==
  LET first[i \in 0..Len(rows)] ==
        IF i = 0 THEN <<>> ELSE Inserted(first[i - 1], rows[i], before)
  IN first[Len(rows)]

Pairs(rows) == {rows[i] : i \in DOMAIN rows} \X {rows[i] : i \in DOMAIN rows}

ByPlace(rows) == Arranged(rows, {p \in Pairs(rows) : p[1].at < p[2].at})

-----------------------------------------------------------------------------
(* Symbols: the old table with its hidden entries back, without the tail   *)
(* the protector added, then the auxiliary image's, then the special ones. *)

Targets(lib) == {lib.patch[i].at : i \in DOMAIN lib.patch}

\* A patch names each symbol once and never over another name.
PatchFits(lib) ==
  /\ lib.patch # <<>>
  /\ Cardinality(Targets(lib)) = Len(lib.patch)
  /\ Targets(lib) \subseteq 1..Len(lib.symbols) - 1
  /\ \A i \in DOMAIN lib.patch : lib.patch[i].over \in {"", lib.patch[i].symbol.name}
  /\ lib.versions = Len(lib.symbols)

Patched(lib) ==
  [s \in DOMAIN lib.symbols |->
     IF s - 1 \in Targets(lib)
     THEN lib.patch[CHOOSE i \in DOMAIN lib.patch : lib.patch[i].at = s - 1].symbol
     ELSE lib.symbols[s]]

\* The first symbol after the last one patched.
TailStart(lib) == Largest(Targets(lib)) + 1

TailIsProtector(lib) ==
  /\ TailStart(lib) < Len(lib.symbols)
  /\ \A s \in TailStart(lib) + 1..Len(lib.symbols) : Patched(lib)[s].name \in Protectors

OldCount(lib) == IF TailIsProtector(lib) THEN TailStart(lib) ELSE Len(lib.symbols)

AuxiliaryFits(lib) ==
  /\ lib.aux.symbols # <<>>
  /\ \A s \in 2..Len(lib.aux.symbols) : ~ lib.aux.symbols[s].defined

OldSymbols(lib) == SubSeq(Patched(lib), 1, OldCount(lib))

Symbols(lib) == OldSymbols(lib) \o Tail(lib.aux.symbols)

Special(name) == [name |-> name, defined |-> FALSE, value |-> 0]

-----------------------------------------------------------------------------
(* Relocations.                                                            *)

\* A mutant of Unrotate: a rotation past the first symbol is not wrapped.
UnrotateOnce(encoded, rotation, modulus) == (modulus - 1 + encoded - rotation) + 1

\* The auxiliary image rotates the symbol numbers 1 .. modulus of every row.
Unrotate(encoded, rotation, modulus) ==
  LET decoded == modulus - 1 + encoded - rotation IN
  (IF decoded >= modulus THEN decoded - modulus ELSE decoded) + 1

AuxSymbol(lib, row, encoded) ==
  IF encoded = 0 \/ ~ lib.aux.permuted THEN encoded
  ELSE Unrotate(encoded, lib.aux.rotation[row], Len(lib.aux.symbols) - 1)

\* Where the auxiliary symbols begin in the merged table.
RemapBase(lib) == OldCount(lib) - 1

Remapped(lib, rows) ==
  [row \in DOMAIN rows |->
     LET sym == AuxSymbol(lib, row, rows[row].sym) IN
     [rows[row] EXCEPT !.sym = IF sym = 0 THEN 0 ELSE sym + RemapBase(lib)]]

RowsFit(lib, rows, kinds) ==
  \A i \in DOMAIN rows : rows[i].kind \in kinds /\ rows[i].sym < Len(lib.aux.symbols)

KindsFit(rows, kinds) == \A i \in DOMAIN rows : rows[i].kind \in kinds

RelocationsFit(lib) ==
  /\ KindsFit(lib.dyn, DynKinds)
  /\ KindsFit(lib.plt, {"JUMP_SLOT"})
  /\ RowsFit(lib, lib.aux.first, DynKinds)
  /\ RowsFit(lib, lib.aux.second, {"RELATIVE", "JUMP_SLOT"})

\* A relocation of a symbol that is gone goes too.
DroppedSymbol(lib, r) ==
  TailIsProtector(lib) /\ r.sym \in TailStart(lib)..Len(lib.symbols) - 1

Kept(lib, rows) == Picked(rows, {i \in DOMAIN rows : ~ DroppedSymbol(lib, rows[i])})

Slots(lib) == {lib.got + 8 * i : i \in 0..lib.slots - 1}
InSlots(lib, r) == lib.got <= r.at /\ r.at < lib.got + 8 * lib.slots
Inside(lib, rows) == Picked(rows, {i \in DOMAIN rows : InSlots(lib, rows[i])})
Outside(lib, rows) == Picked(rows, {i \in DOMAIN rows : ~ InSlots(lib, rows[i])})

OldPlt(lib) == Kept(lib, lib.plt)
AuxPlt(lib) == Remapped(lib, lib.aux.second)

Places(rows) == {rows[i].at : i \in DOMAIN rows}

Occupied(lib) == Places(Inside(lib, OldPlt(lib) \o AuxPlt(lib)))

\* Slots nothing binds: none, or the five calls into libc that were taken out.
Missing(lib) == Slots(lib) \ Occupied(lib)

MissingFits(lib) ==
  /\ Occupied(lib) \subseteq Slots(lib)
  /\ Cardinality(Occupied(lib)) = Len(Inside(lib, OldPlt(lib) \o AuxPlt(lib)))
  /\ Missing(lib) # {} => Cardinality(Missing(lib)) = Cardinality(Specials) /\ lib.pltroom

Tests == <<"memset", "strcmp", "strchr", "strlen">>

\* A slot is told by the first test its callers pass; what passes none is left.
Told(lib, slot) ==
  LET passed == {i \in DOMAIN Tests : Tests[i] \in lib.callers[slot]} IN
  IF passed = {} THEN "strcpy" ELSE Tests[Smallest(passed)]

\* Each test finds one slot, and one slot somebody calls is left.
Classified(lib, missing) ==
  /\ \A a, b \in missing : Told(lib, a) = Told(lib, b) => a = b
  /\ \A slot \in missing : Told(lib, slot) = "strcpy" => "called" \in lib.callers[slot]

SpecialOrder(lib) ==
  LET slots == [i \in 1..lib.slots |-> lib.got + 8 * (i - 1)]
      missing == Missing(lib)
  IN Picked(slots, {i \in 1..lib.slots : slots[i] \in missing})

\* None, or the five of them, and none the table already has.
SpecialsFit(lib) ==
  Missing(lib) # {} =>
    /\ Classified(lib, Missing(lib))
    /\ \A i \in DOMAIN Symbols(lib) : Symbols(lib)[i].name \notin Specials

Merged(lib) ==
  LET order == SpecialOrder(lib) IN
  Symbols(lib) \o [i \in DOMAIN order |-> Special(Told(lib, order[i]))]

SpecialRows(lib) ==
  LET order == SpecialOrder(lib) IN
  [i \in DOMAIN order |->
     [at |-> order[i], kind |-> "JUMP_SLOT", sym |-> Len(Symbols(lib)) + i - 1,
      addend |-> 0, means |-> Told(lib, order[i])]]

\* Every slot of .got.plt in order, each exactly once.
PltRows(lib) ==
  ByPlace(Inside(lib, OldPlt(lib)) \o Inside(lib, AuxPlt(lib)) \o SpecialRows(lib))

PltFits(lib) ==
  /\ Outside(lib, OldPlt(lib)) = <<>>
  /\ LET rows == PltRows(lib) IN
       Len(rows) = lib.slots /\ \A i \in DOMAIN rows : rows[i].at = lib.got + 8 * (i - 1)
  /\ KindsFit(Outside(lib, AuxPlt(lib)), DynKinds)

DynRows(lib) ==
  Kept(lib, lib.dyn) \o Remapped(lib, lib.aux.first) \o Outside(lib, AuxPlt(lib))

\* A relocation against a symbol the library defines becomes a RELATIVE one.
Converted(rows, symbols) ==
  [i \in DOMAIN rows |->
     LET r == rows[i] IN
     IF r.kind = "RELATIVE" \/ r.sym = 0 \/ ~ symbols[r.sym + 1].defined THEN r
     ELSE [r EXCEPT !.kind = "RELATIVE", !.sym = 0, !.addend = @ + symbols[r.sym + 1].value]]

SymbolsExist(rows, symbols) ==
  \A i \in DOMAIN rows :
    rows[i].kind = "RELATIVE" \/ rows[i].sym = 0 \/ rows[i].sym < Len(symbols)

\* RELATIVE ones first, the linker counts them; then by place.
Before(a, b) ==
  \/ a.kind = "RELATIVE" /\ b.kind # "RELATIVE"
  \/ (a.kind = "RELATIVE" <=> b.kind = "RELATIVE") /\ a.at < b.at

InOrder(rows) == Arranged(rows, {p \in Pairs(rows) : Before(p[1], p[2])})

RelativePrefix(rows) ==
  Cardinality({i \in DOMAIN rows : \A j \in 1..i : rows[j].kind = "RELATIVE"})

\* The number the protector gave the auxiliary image's symbol in a row.
Rotated(symbol, rotation, modulus) ==
  IF symbol + rotation > modulus THEN symbol + rotation - modulus ELSE symbol + rotation

Sources(lib) == ToSet(lib.dyn) \cup ToSet(lib.plt) \cup ToSet(lib.aux.first) \cup ToSet(lib.aux.second)

\* What the ghost says: the name of the symbol a row of the source has, and of the
\* one a row of the auxiliary image had before the protector rotated it.
Meant(lib) ==
  /\ \A r \in Sources(lib) :
       /\ {"at", "kind", "sym", "addend", "means"} \subseteq DOMAIN r
       /\ r.at \in Nat /\ r.addend \in Int
       /\ r.sym = 0 => r.means = ""
  /\ \A r \in ToSet(lib.dyn) \cup ToSet(lib.plt) :
       r.sym # 0 => /\ r.sym \in 1..Len(lib.symbols) - 1
                    /\ Patched(lib)[r.sym + 1].name = r.means
  /\ LET last == Len(lib.aux.symbols) - 1 IN
     \A rows \in {lib.aux.first, lib.aux.second} : \A i \in DOMAIN rows :
       rows[i].sym # 0 =>
         \E s \in 1..last :
           /\ lib.aux.symbols[s + 1].name = rows[i].means
           /\ IF lib.aux.permuted
              THEN /\ lib.aux.rotation[i] \in 0..last - 1
                   /\ rows[i].sym = Rotated(s, lib.aux.rotation[i], last)
              ELSE rows[i].sym = s

-----------------------------------------------------------------------------
(* Constructors: the stage 1 entry makes room for the callbacks it hid.    *)

\* `code` says what is at an address: "bootstrap", "ret", "code", or nothing.
InitRows(lib) ==
  ByPlace(Picked(lib.dyn, {i \in DOMAIN lib.dyn :
            lib.init <= lib.dyn[i].at /\ lib.dyn[i].at < lib.init + 8 * lib.inits}))

Addends(lib) ==
  FlattenSeq([i \in DOMAIN InitRows(lib) |->
    LET target == InitRows(lib)[i].addend IN
    CASE lib.code[target] = "bootstrap" -> lib.callbacks
      [] lib.code[target] = "code" -> <<target>>
      [] OTHER -> <<>>])

IsRelative(r) == r.kind = "RELATIVE" /\ r.sym = 0

FiniRows(lib) == Picked(lib.dyn, {i \in DOMAIN lib.dyn : lib.dyn[i].at = lib.fini})

ConstructorsFit(lib) ==
  /\ lib.selector
  /\ Len(InitRows(lib)) = lib.inits
  /\ \A i \in DOMAIN InitRows(lib) :
       /\ InitRows(lib)[i].at = lib.init + 8 * (i - 1) /\ IsRelative(InitRows(lib)[i])
       /\ InitRows(lib)[i].addend \in DOMAIN lib.code
  /\ Cardinality({i \in DOMAIN InitRows(lib) : lib.code[InitRows(lib)[i].addend] = "bootstrap"}) = 1
  /\ Len(Addends(lib)) <= lib.inits
  /\ Len(FiniRows(lib)) = 1 /\ IsRelative(FiniRows(lib)[1])

\* The relocations of the array's first slots and of the fini slot are redirected.
Redirected(lib, rows) ==
  [i \in DOMAIN rows |->
     LET slot == (rows[i].at - lib.init) \div 8 + 1 IN
     IF rows[i].at \in {lib.init + 8 * (k - 1) : k \in DOMAIN Addends(lib)}
     THEN [rows[i] EXCEPT !.addend = Addends(lib)[slot]]
     ELSE IF rows[i].at = lib.fini THEN [rows[i] EXCEPT !.addend = FiniRows(lib)[1].addend]
     ELSE rows[i]]

RedirectFits(lib, rows) ==
  \A at \in {lib.init + 8 * (k - 1) : k \in DOMAIN Addends(lib)} \cup {lib.fini} :
    /\ Cardinality({i \in DOMAIN rows : rows[i].at = at}) = 1
    /\ \A i \in DOMAIN rows : rows[i].at = at => IsRelative(rows[i])

-----------------------------------------------------------------------------
(* Where the tables go: over the old ones, or in a segment of their own.   *)

\* One table after another, each at its alignment.
Laid(tables, start) ==
  LET end[i \in 0..Len(tables)] ==
        IF i = 0 THEN start ELSE Align(end[i - 1], tables[i].align) + tables[i].size
  IN [end |-> end[Len(tables)],
      at |-> [i \in DOMAIN tables |->
                [name |-> tables[i].name, offset |-> Align(end[i - 1], tables[i].align),
                 size |-> tables[i].size]]]

GnuHash(lib, count) ==
  [name |-> ".gnu.hash", align |-> 8, size |-> IF lib.gnu THEN 28 + 4 * (count - 1) ELSE 0]
SysvHash(lib, count) ==
  [name |-> ".hash", align |-> 4, size |-> IF lib.sysv THEN 4 * (2 * count + 2) ELSE 0]

\* The hash tables the library has.
HashTables(lib, count) ==
  (IF lib.gnu THEN <<GnuHash(lib, count)>> ELSE <<>>)
  \o (IF lib.sysv THEN <<SysvHash(lib, count)>> ELSE <<>>)

TableList(lib, hashes, count, versions, strings, dyn, plt) ==
  <<[name |-> ".dynsym", align |-> 8, size |-> SymbolSize * count],
    [name |-> ".gnu.version", align |-> 2, size |-> 2 * versions],
    [name |-> ".gnu.version_r", align |-> 4, size |-> lib.verneed]>>
  \o hashes
  \o <<[name |-> ".dynstr", align |-> 1, size |-> strings],
       [name |-> ".rela.dyn", align |-> 8, size |-> RelaSize * dyn],
       [name |-> ".rela.plt", align |-> 8, size |-> RelaSize * plt]>>

Strings(lib) == lib.strings + lib.aux.strings

\* Room is kept for the special imports before anyone knows whether they miss.
ReservedSpecials == Cardinality(Specials)

Reserved(lib) ==
  LET count == Len(lib.symbols) + Len(lib.aux.symbols) - 1 + ReservedSpecials IN
  TableList(lib, <<GnuHash(lib, count), SysvHash(lib, count)>>, count, lib.versions + Len(lib.aux.symbols) - 1 + ReservedSpecials,
            Strings(lib) + NameSize * Cardinality(Specials),
            Len(lib.dyn) + Len(lib.aux.first) + Len(lib.aux.second),
            Len(lib.plt) + Len(lib.aux.second) + ReservedSpecials)

TableNames(lib) ==
  {".dynsym", ".gnu.version", ".gnu.version_r", ".dynstr", ".rela.dyn", ".rela.plt", ".dynamic"}
  \cup (IF lib.gnu THEN {".gnu.hash"} ELSE {}) \cup (IF lib.sysv THEN {".hash"} ELSE {})

\* The tables of so many symbols and relocations.
Built(lib, symbols, dyn, plt) ==
  TableList(lib, HashTables(lib, symbols), symbols, symbols,
            Strings(lib) + NameSize * (symbols - Len(Symbols(lib))), dyn, plt)

Filed(lib) == {s \in lib.sections : ~ s.nobits /\ s.size # 0}

Disjoint(a, b) == a.offset + a.size <= b.offset \/ b.offset + b.size <= a.offset

SectionAt(lib, name) == CHOOSE s \in lib.sections : s.name = name

PhdrSize == 56

\* How a linker lays out what the segments load: the tables and .dynamic are there
\* once, no section is over another or over the program headers, and all of them
\* are before the private section.
Linked(lib) ==
  /\ \A s \in lib.sections : {s.offset, s.size} \subseteq Nat
  /\ \A name \in {".dynsym", ".dynamic"} :
       \E s \in Filed(lib) : \A t \in lib.sections : t.name = name <=> t = s
  /\ \A s, t \in Filed(lib) : s # t => Disjoint(s, t)
  /\ \A s \in Filed(lib) :
       /\ s.offset + s.size <= lib.private
       /\ Disjoint(s, [offset |-> lib.phdrs.at, size |-> lib.phdrs.count * PhdrSize])

\* A mutant of CapacityEnd: as far as the private section.
CapacityToPrivate(lib) == lib.private

\* The first other section behind .dynsym; the table names include .dynamic.
CapacityEnd(lib) ==
  LET start == SectionAt(lib, ".dynsym").offset
      next == {s.offset : s \in {x \in Filed(lib) : x.name \notin TableNames(lib) /\ x.offset >= start}}
      end == Smallest(next \cup {lib.private})
  IN IF end < start THEN start ELSE end

\* The new program header fits behind the others, or they all need new room.
HeaderRoom(lib) ==
  LET end == lib.phdrs.at + (lib.phdrs.count + 1) * PhdrSize IN
  IF \A s \in Filed(lib) : end <= s.offset THEN 0 ELSE (lib.phdrs.count + 1) * PhdrSize

ExtensionStart(lib) == Align(lib.private, lib.align)

\* What `metadata_mapping_length` reserves, before a table exists.
MappingLength(lib) == ExtensionStart(lib) + Laid(Reserved(lib), HeaderRoom(lib)).end

Moved(lib, tables) ==
  Laid(tables, SectionAt(lib, ".dynsym").offset).end > CapacityEnd(lib)

TablesStart(lib, moved) ==
  IF moved THEN ExtensionStart(lib) + HeaderRoom(lib) ELSE SectionAt(lib, ".dynsym").offset

Placed(lib, tables) == Laid(tables, TablesStart(lib, Moved(lib, tables)))

\* A segment for the tables: it may overlap nothing, and its header goes behind
\* the others, over a spare PT_NOTE, or with all of them into the segment.
Extensible(lib, placed) ==
  /\ placed.end <= MappingLength(lib)
  /\ \A l \in lib.loads : l.offset + l.file <= ExtensionStart(lib)
  /\ \/ HeaderRoom(lib) = 0
     \/ lib.phdrs.notes >= 2 /\ lib.phdrs.spare
     \/ lib.phdrs.self

HeaderPlace(lib, moved) ==
  CASE ~ moved -> [offset |-> 0, size |-> 0]
    [] moved /\ HeaderRoom(lib) = 0 ->
         [offset |-> lib.phdrs.at + lib.phdrs.count * PhdrSize, size |-> PhdrSize]
    [] moved /\ HeaderRoom(lib) # 0 /\ lib.phdrs.notes >= 2 /\ lib.phdrs.spare ->
         [offset |-> lib.phdrs.at, size |-> lib.phdrs.count * PhdrSize]
    [] OTHER -> [offset |-> ExtensionStart(lib), size |-> HeaderRoom(lib)]

\* In place, every table must lie in a segment; a new segment holds them all.
Mapped(lib, placed) ==
  \A t \in ToSet(placed.at) :
    \E l \in lib.loads : l.offset <= t.offset /\ t.offset + t.size <= l.offset + l.file

\* The old tables are cleared whether the new ones go there or not.
Window(lib) ==
  [offset |-> SectionAt(lib, ".dynsym").offset,
   size |-> CapacityEnd(lib) - SectionAt(lib, ".dynsym").offset]

\* Every tag once: `lib.tags` says so of the source, and the cleared window must
\* have left .dynamic alone.
TagsFit(lib) ==
  /\ lib.tags
  /\ Disjoint(SectionAt(lib, ".dynamic"), Window(lib))
=============================================================================
