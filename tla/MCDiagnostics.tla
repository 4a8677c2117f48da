---------------------------- MODULE MCDiagnostics ----------------------------
(***************************************************************************)
(* Diagnostics over small images: a sound one of each kind, and images     *)
(* that differ from it in one table (two for the tables a walk relates).   *)
(***************************************************************************)
EXTENDS Diagnostics

W == 65536
Base == 131072

Dirs(f) == [name \in {"imports", "delay imports", "bound imports", "addresses", "tls",
                      "relocations", "exceptions", "load config", "clr"} |->
              IF name \in DOMAIN f THEN f[name] ELSE [rva |-> 0, size |-> 0]]
D(rva, size) == [rva |-> rva, size |-> size]

Code == [va |-> 4096, virtual |-> 4096, raw |-> 2048, offset |-> 1024, exec |-> TRUE]
Data == [va |-> 8192, virtual |-> 4096, raw |-> 2048, offset |-> 3072, exec |-> FALSE]

Function(begin, end, unwind) == [begin |-> begin, end |-> end, unwind |-> unwind]
Entries(kinds) == [k \in DOMAIN kinds |-> [kind |-> kinds[k], offset |-> 4 * k]]
Block(page, kinds) == [page |-> page, size |-> 8 + 2 * Len(kinds), entries |-> Entries(kinds)]
Descriptor(original, name, first) == [original |-> original, name |-> name, first |-> first]
NullDescriptor == Descriptor(0, 0, 0)

Pe64 ==
  [kind |-> "pe", header |-> "good", count |-> 2, size |-> 12288, length |-> 5120, headers |-> 1024,
   table |-> 400, is64 |-> TRUE, base |-> Base, dll |-> TRUE, entry |-> 4096,
   stub |-> [at |-> 1024, code |-> "branches", call |-> 4200, jump |-> 4300],
   sections |-> <<Code, Data>>,
   dir |-> Dirs([imports |-> D(8192, 60), tls |-> D(9100, 40), relocations |-> D(9000, 12),
                 exceptions |-> D(9300, 24)] @@
                ("load config" :> D(9400, 112)) @@ ("addresses" :> D(8500, 24)) @@
                ("delay imports" :> D(9600, 64)) @@ ("bound imports" :> D(9900, 24))),
   imports |-> 3072 :> <<Descriptor(8300, 8400, 8500), NullDescriptor>>,
   thunks |-> 3180 :> <<8600, W + 1, 0>> @@ 3380 :> <<8600, W + 1, 0>>
              @@ 4080 :> <<Base + 4096, 0>> @@ 4630 :> <<8600, 0>>,
   text |-> {3280, 3482, 4580},
   delay |-> <<[attributes |-> 1, name |-> 9700, names |-> 9750, addresses |-> 9800],
               [attributes |-> 0, name |-> 0, names |-> 0, addresses |-> 0]>>,
   bound |-> <<[stamp |-> 1, name |-> 16, forwarders |-> 0], [stamp |-> 0, name |-> 0, forwarders |-> 0]>>,
   tls |-> <<Base + 8192, Base + 8200, Base + 8208, Base + 9200, 0>>,
   blocks |-> <<Block(4096, <<10, 0>>)>>,
   functions |-> <<Function(4096, 4100, 9401), Function(4100, 4200, 0)>>,
   config |-> [cookie |-> Base + 9500, guard |-> Base + 4096],
   cb |-> 72, clr |-> [rva |-> 0]]

Pe32 ==
  [Pe64 EXCEPT !.is64 = FALSE, !.dir["tls"] = D(9100, 24), !.dir["exceptions"] = D(0, 0),
               !.dir["load config"] = D(9400, 64),
               !.tls = <<Base + 8192, Base + 8200, Base + 8208, Base + 9200, 0, 0, 0>>]

Stream(name, length, offset, size) == [name |-> name, length |-> length, offset |-> offset, size |-> size]

Clr ==
  [Pe64 EXCEPT
     !.dir = Dirs([clr |-> D(8200, 72)]), !.dll = FALSE,
     !.clr = [rva |-> 8300, size |-> 200, signed |-> TRUE, version |-> 12, count |-> 4,
              streams |-> <<Stream("#~", 2, 96, 40), Stream("#Strings", 8, 136, 8),
                            Stream("#GUID", 5, 144, 16), Stream("#Blob", 5, 160, 8)>>,
              tables |-> [reserved |-> 0, major |-> 2, heaps |-> 1, rows |-> 2, undefined |-> FALSE]]]

-----------------------------------------------------------------------------
Headers64 ==
  {[Pe64 EXCEPT !.header = h] : h \in {"no MZ", "section table"}} \cup
  {[Pe64 EXCEPT !.count = 4], [Pe64 EXCEPT !.size = 0], [Pe64 EXCEPT !.sections[2].raw = 4096],
   [Pe64 EXCEPT !.dir["relocations"] = D(0, 0)], [Pe64 EXCEPT !.entry = 0, !.dll = FALSE],
   [Pe64 EXCEPT !.entry = 20000], [Pe64 EXCEPT !.entry = 8192], [Pe64 EXCEPT !.stub.call = 9000],
   [Pe64 EXCEPT !.stub.code = "zeros"]}

Imports64 ==
  {[Pe64 EXCEPT !.imports = 3072 :> rows] : rows \in
     {<<Descriptor(8300, 8400, 8500)>>, <<Descriptor(0, 8400, 0), NullDescriptor>>,
      <<Descriptor(0, 8400, 8500), Descriptor(8300, 20000, 0), NullDescriptor>>,
      <<Descriptor(20000, 8400, 8500), Descriptor(8300, 8500, 8500), NullDescriptor>>,
      [k \in 1..4 |-> Descriptor(8300, 8400, 8500)]}} \cup
  {[Pe64 EXCEPT !.thunks[3180] = t] : t \in
     {<<8600, 0>>, <<8600, 9000, 9004, 9008, 0>>, <<20000, 9000, 0>>, <<8600, 8600>>,
      <<9000, 9004, 9008, W + 1, 0>>}} \cup
  \* Imports in the tail of the code, whose bytes are those of the next section's file part.
  {[Pe64 EXCEPT !.dir["imports"] = D(4096 + 2048 + 512, 60)],
   \* A first descriptor that reaches past the bytes of its section.
   [Pe64 EXCEPT !.length = 6000, !.dir["imports"] = D(10232, 60),
                !.imports = 5112 :> <<Descriptor(20000, 8400, 8500), NullDescriptor>>]}

Tables64 ==
  {[Pe64 EXCEPT !.dir["delay imports"] = D(rva, 64)] : rva \in {0, 20000}} \cup
  {[Pe64 EXCEPT !.delay[1].attributes = 2], [Pe64 EXCEPT !.delay[1].names = 0, !.delay[1].addresses = 0],
   [Pe64 EXCEPT !.delay[1].name = 20000], [Pe64 EXCEPT !.delay[1].names = 20000],
   [Pe64 EXCEPT !.delay = [k \in 1..4 |-> Pe64.delay[1]]]} \cup
  {[Pe64 EXCEPT !.dir["bound imports"] = d] : d \in {D(0, 0), D(20000, 24)}} \cup
  {[Pe64 EXCEPT !.bound[1].name = 30], [Pe64 EXCEPT !.bound[1].forwarders = 2]} \cup
  {[Pe64 EXCEPT !.dir["addresses"] = D(12280, 16)]} \cup
  {[Pe64 EXCEPT !.dir["load config"] = d] : d \in {D(0, 0), D(9400, 90), D(20000, 112)}} \cup
  {[Pe64 EXCEPT !.config.cookie = c] : c \in {5, Base + 20000, Base + W + 5}}

Tls64 ==
  {[Pe64 EXCEPT !.dir["tls"] = d] : d \in {D(0, 0), D(9100, 24), D(20000, 40)}} \cup
  {[Pe64 EXCEPT !.tls[k] = v] : k \in {1, 4}, v \in {0, 5, Base + 20000}} \cup
  {[Pe64 EXCEPT !.thunks[4080] = t] : t \in
     {<<Base + 8192, 5, Base + 20000, Base + 4096, 0>>, <<Base + 4096>>,
      <<5, 5, Base + W + 4, 5, Base + 4096, 0>>, <<5, 5, 5>>, [k \in 1..7 |-> Base + 4096]}}

Relocations64 ==
  {[Pe64 EXCEPT !.blocks = b, !.dir["relocations"] = D(9000, n)] : <<b, n>> \in
     {<<<<Block(4096, <<11, 12, 10>>)>>, 14>>, <<<<Block(4097, <<11, 12>>), Block(20000, <<10, 0>>)>>, 24>>,
      <<<<Block(12280, <<10, 10>>), [Block(4096, <<>>) EXCEPT !.size = 6]>>, 20>>,
      <<<<Block(4096, <<10>>)>>, 12>>,
      <<<<Block(4096, <<10>>), [Block(8192, <<10, 0>>) EXCEPT !.size = 13]>>, 23>>,
      <<<<Block(4096, <<11, 12, 13>>), Block(20000, <<11>>), Block(20000, <<10, 0>>)>>, 36>>,
      <<[k \in 1..5 |-> Block(4096, <<10, 0>>)], 60>>,
      <<<<Block(4096, <<10, 0>>), [Block(8192, <<10, 0>>) EXCEPT !.size = 40]>>, 24>>}} \cup
  {[Pe64 EXCEPT !.dir["relocations"] = d] : d \in {D(9000, 0), D(20000, 12)}}

Exceptions64 ==
  {[Pe64 EXCEPT !.functions = f, !.dir["exceptions"] = D(9300, n)] : <<f, n>> \in
     {<<<<Function(4100, 4096, 0), Function(20000, 20001, 20000)>>, 24>>,
      <<<<Function(4100, 4096, 0), Function(4096, 4100, 20000), Function(9, 5, 0)>>, 36>>,
      <<<<Function(4096, 4100, 0)>>, 13>>}} \cup
  {[Pe64 EXCEPT !.dir["exceptions"] = D(12000, 24)]}

Narrow ==
  {Pe32, [Pe32 EXCEPT !.dir["tls"] = D(0, 0)], [Pe32 EXCEPT !.config.cookie = 5],
   [Pe32 EXCEPT !.dir["exceptions"] = D(9300, 16)]}

\* A sound 32-bit directory: the third pointer the code reads is the size of the zero fill.
Narrow32Tls == {[Pe32 EXCEPT !.tls[5] = 64]}

ClrImages ==
  {Clr, [Clr EXCEPT !.cb = 0], [Clr EXCEPT !.dir["clr"] = D(20000, 72)], [Clr EXCEPT !.clr.rva = 0],
   [Clr EXCEPT !.clr.rva = 20000], [Clr EXCEPT !.clr.signed = FALSE], [Clr EXCEPT !.clr.size = 60],
   [Clr EXCEPT !.clr.version = 300], [Clr EXCEPT !.clr.count = 7], [Clr EXCEPT !.clr.rva = 10228],
   [Clr EXCEPT !.clr.streams[1].name = "#-"], [Clr EXCEPT !.clr.streams[1].name = "#x"],
   [Clr EXCEPT !.clr.streams[2].length = 40], [Clr EXCEPT !.clr.streams[3].size = 200],
   [Clr EXCEPT !.clr.streams[4].name = ""], [Clr EXCEPT !.clr.tables.rows = 30],
   [Clr EXCEPT !.clr.tables.heaps = 9, !.clr.tables.major = 1, !.clr.tables.undefined = TRUE],
   [Clr EXCEPT !.clr.streams[1].offset = 190]}

-----------------------------------------------------------------------------
Segment(offset, va, file, memory, flags) ==
  [offset |-> offset, va |-> va, file |-> file, memory |-> memory, flags |-> flags, align |-> 16]
Sec(name, va, size, flags) ==
  [name |-> name, type |-> "bits", flags |-> {"alloc"} \cup flags, va |-> va, size |-> size, entry |-> 24]
Tag(tag, value) == [tag |-> tag, value |-> value]
R(at, kind, symbol) == [at |-> at, kind |-> kind, symbol |-> symbol]

Elf ==
  [kind |-> "elf", length |-> 1600, named |-> TRUE, programs |-> <<"load", "other", "load">>,
   segments |-> <<Segment(0, 0, 800, 800, {"r", "x"}), Segment(800, 1600, 800, 960, {"r", "w"})>>,
   sections |-> <<Sec(".dynsym", 100, 96, {}), Sec(".rela.dyn", 200, 72, {}), Sec(".rela.plt", 300, 24, {}),
                  Sec(".hash", 400, 40, {}), Sec(".gnu.hash", 500, 48, {}), Sec(".text", 600, 40, {"exec"}),
                  Sec(".dynamic", 1600, 320, {"write"}), Sec(".init_array", 2000, 16, {"write"}),
                  Sec(".dynstr", 700, 50, {})>>,
   dynamic |-> <<Tag("SYMTAB", 100), Tag("STRTAB", 700), Tag("STRSZ", 50), Tag("RELA", 200), Tag("RELASZ", 72),
                 Tag("RELACOUNT", 2), Tag("JMPREL", 300), Tag("PLTRELSZ", 24), Tag("HASH", 400),
                 Tag("GNU_HASH", 500), Tag("INIT_ARRAY", 2000), Tag("INIT_ARRAYSZ", 16), Tag("null", 0)>>,
   relas |-> (".rela.dyn" :> <<R(2000, "RELATIVE", 0), R(2008, "RELATIVE", 0), R(1920, "GLOB_DAT", 3)>>) @@
             (".rela.plt" :> <<R(1928, "JUMP_SLOT", 2)>>),
   hash |-> [buckets |-> 4, chains |-> 4],
   gnu |-> [bucket |-> <<1, 3>>, symoffset |-> 1, bloom |-> 1, shift |-> 6],
   slots |-> (".init_array" :> <<600, 0>>) @@ (".fini_array" :> <<>>)]

Segments2 ==
  {[Elf EXCEPT !.segments = s] : s \in
     {<<>>, <<[Elf.segments[1] EXCEPT !.memory = 1610], Elf.segments[2]>>, <<Segment(800, 790, 800, 960, {"r", "w"}), Segment(0, 0, 800, 800, {"r", "x"})>>,
      <<Segment(0, 0, 800, 2000, {"r"}), Segment(800, 1600, 800, 16, {"r", "w"}), Segment(800, 1700, 300, 300, {"x"})>>,
      <<Segment(0, 0, 800, 2000, {"r", "x"}), Segment(0, 3000, 10, 16, {"r"}), Segment(800, 1600, 800, 960, {"r", "w"})>>,
      <<[Segment(0, 0, 800, 700, {"r", "x"}) EXCEPT !.align = 12], Segment(801, 1600, 1000, 65000, {"r", "w"})>>}} \cup
  {[Elf EXCEPT !.programs[2] = p] : p \in {"unbacked", "truncated"}} \cup {[Elf EXCEPT !.named = FALSE]}

Relas2 ==
  {[Elf EXCEPT !.relas[".rela.dyn"][3] = r] : r \in
     {R(1920, "GLOB_DAT", 4), R(1920, "JUMP_SLOT", 3), R(9000, "ABS64", 1), R(1920, "RELATIVE", 2)}} \cup
  {[Elf EXCEPT !.relas[".rela.dyn"][1] = R(9000, "ABS64", 7), !.relas[".rela.dyn"][2] = R(9000, "COPY", 7)],
   \* The first table has no file bytes, and what is wrong with the second goes unnoticed.
   [Elf EXCEPT !.sections[2].size = 20000, !.relas[".rela.plt"][1].symbol = 7],
   [Elf EXCEPT !.relas[".rela.plt"] = <<>>], [Elf EXCEPT !.relas[".rela.dyn"] = <<R(2000, "RELATIVE", 0)>>],
   [Elf EXCEPT !.sections[3].size = 20000], [Elf EXCEPT !.sections[2].entry = 16]}

Tags2 ==
  {[Elf EXCEPT !.dynamic[k] = t] : <<k, t>> \in
     {<<1, Tag("SYMTAB", 0)>>, <<3, Tag("STRSZ", 51)>>, <<6, Tag("RELACOUNT", 3)>>, <<6, Tag("RELACOUNT", 4)>>,
      <<2, Tag("SYMTAB", 100)>>, <<1, Tag("null", 0)>>, <<12, Tag("FINI_ARRAY", 0)>>, <<12, Tag("INIT_ARRAYSZ", 8)>>,
      <<11, Tag("INIT_ARRAY", 2008)>>}} \cup
  {[Elf EXCEPT !.slots[".init_array"] = <<9000, 600>>], [Elf EXCEPT !.sections[8].size = 12],
   [Elf EXCEPT !.sections[7].name = ".dynsym"], [Elf EXCEPT !.sections[1].type = "nobits"]}

Hashes2 ==
  {[Elf EXCEPT !.hash.chains = 3], [Elf EXCEPT !.hash.buckets = 9], [Elf EXCEPT !.gnu.bucket = <<1, 4>>],
   [Elf EXCEPT !.gnu.bucket = <<1, 2, 3>>], [Elf EXCEPT !.gnu.bloom = 0], [Elf EXCEPT !.gnu.shift = 64],
   [Elf EXCEPT !.gnu.symoffset = 5], [Elf EXCEPT !.gnu.symoffset = 0], [Elf EXCEPT !.sections[5].size = 30],
   [Elf EXCEPT !.sections[5].size = 40], [Elf EXCEPT !.length = 410], [Elf EXCEPT !.length = 510]}

MCSound == {Pe64, Pe32, Clr, Elf}

MCImages ==
  MCSound \cup Headers64 \cup Imports64 \cup Tables64 \cup Tls64 \cup Relocations64 \cup Exceptions64
    \cup Narrow \cup Narrow32Tls \cup ClrImages
    \cup Segments2 \cup Relas2 \cup Tags2 \cup Hashes2
===============================================================================
