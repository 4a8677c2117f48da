------------------------------ MODULE ElfVerify ------------------------------
(***************************************************************************)
(* The cross-table check of a restored ELF:                                *)
(*   senbei-engine/src/android/restore/verify.rs                           *)
(* Nothing here asks the sink for room: every table is walked to its end   *)
(* or to its cap.                                                          *)
(***************************************************************************)
EXTENDS Directories

CONSTANTS MaxRelocations, MaxDynamic, MaxSlots, MaxBuckets

ASSUME TableAssumption == {MaxRelocations, MaxDynamic, MaxSlots, MaxBuckets} \subseteq Nat

Top(n) == Smaller(n, Word - 1)

Covers(s, address, size) ==
  /\ s.va <= address /\ address + size < Word
  /\ address + size <= Top(s.va + s.memory)

SegmentsFor(address, size) == {k \in DOMAIN image.segments : Covers(image.segments[k], address, size)}

\* File bytes of a range: in the file part of a segment.
OffsetOf(address, size) ==
  LET holds(s) == address >= s.va /\ address + size <= s.va + s.file /\ s.va + s.file < Word
      holding == {k \in DOMAIN image.segments : holds(image.segments[k])}
      first == image.segments[Least(holding)]
  IN IF holding = {} THEN None ELSE first.offset + address - first.va

\* The section of that name, if it is the only one.
SectionsOf(name) == {k \in DOMAIN image.sections : image.sections[k].name = name}
Has(name) == Cardinality(SectionsOf(name)) = 1
Section(name) == image.sections[CHOOSE k \in SectionsOf(name) : TRUE]

SymbolCount == IF Has(".dynsym") THEN Section(".dynsym").size \div 24 ELSE 0

Say(bad, message) == IF bad THEN <<message>> ELSE <<>>

PowerOfTwo(n) == \E k \in 0..n : n = 2^k

-----------------------------------------------------------------------------
\* Messages of collect itself: they are not counted against any sink.
Programs ==
  LET unread == {k \in DOMAIN image.programs : image.programs[k] = "unbacked"}
      read == SubSeq(image.programs, 1, Least({k - 1 : k \in unread} \cup {Len(image.programs)}))
      short == FlattenSeq([k \in DOMAIN read |-> Say(read[k] = "truncated", "truncated")])
      stop == IF unread # {} THEN <<"program header">>
              ELSE IF image.segments = <<>> THEN <<"no segment">>
              ELSE IF ~ image.named THEN <<"no section names">> ELSE <<>>
  IN /\ table = "programs"
     /\ Finish(Holding(short \o stop), IF stop = <<>> THEN "segments" ELSE "end")

SegmentDefects(k) ==
  LET s == image.segments[k] IN
  Say(s.align # 0 /\ ~ PowerOfTwo(s.align), <<"segment", k, "alignment">>)
    \o Say(s.align > 1 /\ s.offset % s.align # s.va % s.align, <<"segment", k, "not congruent">>)
    \o Say(s.file > s.memory, <<"segment", k, "more file than memory">>)
    \o Say(s.offset + s.file >= Word \/ s.offset + s.file > image.length, <<"segment", k, "past the file">>)
    \o Say(s.va + s.memory >= Word, <<"segment", k, "overflows">>)
    \o Say("r" \notin s.flags, <<"segment", k, "not readable">>)

\* Neighbours in the order of their addresses; equal ones stay as they come.
Before(i, j) ==
  LET s == image.segments IN s[i].va < s[j].va \/ (s[i].va = s[j].va /\ i < j)

Place(j) == Cardinality({i \in DOMAIN image.segments : Before(i, j)}) + 1

Sorted ==
  [k \in DOMAIN image.segments |->
     image.segments[CHOOSE j \in DOMAIN image.segments : Place(j) = k]]

Neighbours(k) == <<Sorted[k], Sorted[k + 1]>>

\* A mutant of OverlapDefects: a mapping ends where its file bytes do.
OverlapOfFile(k) ==
  LET low == Neighbours(k)[1] IN Say(low.va + low.file > Neighbours(k)[2].va, <<"overlap", k>>)

OverlapDefects(k) ==
  LET low == Neighbours(k)[1]
      high == Neighbours(k)[2]
  IN Say(low.va + low.memory < Word /\ low.va + low.memory > high.va, <<"overlap", k>>)

\* A section with file contents has to be reachable with its own permissions.
SectionDefects(k) ==
  LET s == image.sections[k]
      covering == SegmentsFor(s.va, s.size)
      segment == image.segments[Least(covering)]
  IN IF s.type # "bits" \/ "alloc" \notin s.flags \/ s.size = 0 THEN <<>>
     ELSE IF covering = {} THEN <<<<"section", k, "not covered">>>>
     ELSE Say("r" \notin segment.flags, <<"section", k, "not readable">>)
            \o Say("write" \in s.flags /\ "w" \notin segment.flags, <<"section", k, "read-only">>)
            \o Say("exec" \in s.flags /\ "x" \notin segment.flags, <<"section", k, "not executable">>)
            \o Say(OffsetOf(s.va, s.size) = None, <<"section", k, "no file bytes">>)

\* The table as far as its null entry, and never more than the cap.
Dynamic ==
  LET count == Smaller(Section(".dynamic").size \div 16, Smaller(MaxDynamic, Len(image.dynamic)))
      nulls == {k \in 1..count : image.dynamic[k].tag = "null"}
  IN IF ~ Has(".dynamic") THEN <<>>
     ELSE IF OffsetOf(Section(".dynamic").va, 0) = None THEN <<>>
     ELSE SubSeq(image.dynamic, 1, Least({k - 1 : k \in nulls} \cup {count}))

Segments ==
  /\ table = "segments"
  /\ Finish(Push(sink, FlattenSeq([k \in DOMAIN image.segments |-> SegmentDefects(k)])
                         \o FlattenSeq([k \in 1..Len(image.segments) - 1 |-> OverlapDefects(k)])
                         \o FlattenSeq([k \in DOMAIN image.sections |-> SectionDefects(k)])),
            IF Dynamic = <<>> THEN "end" ELSE "dynamic")

-----------------------------------------------------------------------------
Tagged(tag) == {k \in DOMAIN Dynamic : Dynamic[k].tag = tag}

Twice(tag) == Say(Cardinality(Tagged(tag)) > 1, <<tag, "twice">>)

Value(tag) == Dynamic[Least(Tagged(tag))].value

\* A tag that is there names its own section's address, another the size.
Agrees(tag, name, size) ==
  Twice(tag) \o
  (IF Tagged(tag) = {} \/ ~ Has(name) THEN <<>>
   ELSE Say(Value(tag) # Section(name).va, <<tag, "address">>) \o
        (IF size = None THEN <<>>
         ELSE Twice(size) \o Say(Tagged(size) # {} /\ Value(size) # Section(name).size, <<size, "size">>)))

TagsOf == <<<<"SYMTAB", ".dynsym", None>>, <<"STRTAB", ".dynstr", "STRSZ">>, <<"RELA", ".rela.dyn", "RELASZ">>,
            <<"JMPREL", ".rela.plt", "PLTRELSZ">>, <<"VERSYM", ".gnu.version", None>>,
            <<"VERNEED", ".gnu.version_r", None>>, <<"GNU_HASH", ".gnu.hash", None>>, <<"HASH", ".hash", None>>>>

\* Records of a table that can be walked; reading ends where the file does.
Records(name) == Smaller(Section(name).size \div 24, MaxRelocations)
BackedSection(name) == OffsetOf(Section(name).va, Section(name).size) # None
Rela(name, k) == image.relas[name][k]

\* The prefix that RELACOUNT promises is relative.
PrefixDefects ==
  LET count == Value("RELACOUNT")
      walked == Smaller(count, Records(".rela.dyn"))
      other == {k \in 1..Smaller(walked, Len(image.relas[".rela.dyn"])) : Rela(".rela.dyn", k).kind # "RELATIVE"}
  IN IF Tagged("RELACOUNT") = {} \/ ~ Has(".rela.dyn") THEN <<>>
     ELSE IF count > Section(".rela.dyn").size \div 24 THEN <<<<"RELACOUNT", "too large">>>>
     ELSE IF ~ BackedSection(".rela.dyn") THEN <<>>
     ELSE IF other # {} THEN <<<<"prefix", Least(other)>>>>
     ELSE Say(walked > Len(image.relas[".rela.dyn"]), <<"RELACOUNT", "past the file">>)

DynamicTable ==
  /\ table = "dynamic"
  /\ Finish(Push(sink, FlattenSeq([k \in DOMAIN TagsOf |-> Agrees(TagsOf[k][1], TagsOf[k][2], TagsOf[k][3])])
                         \o Twice("RELACOUNT") \o PrefixDefects),
            "arrays")

\* A pointer that is not zero has to land in the image.
ArrayDefects(name, at, size) ==
  LET section == Section(name)
      slots == SubSeq(image.slots[name], 1, Smaller(section.size \div 8, MaxSlots))
      there == Tagged(at) # {}
  IN Twice(at) \o Twice(size) \o
     (IF ~ Has(name) THEN Say(there, <<name, "no section">>)
      ELSE Say(there /\ Value(at) # section.va, <<name, "address">>)
             \o Say(section.size % 8 # 0, <<name, "odd size">>)
             \o Say(Tagged(size) # {} /\ section.size # 0 /\ Value(size) # section.size, <<name, "size">>)
             \o (IF ~ BackedSection(name) THEN <<>>
                 ELSE FlattenSeq([k \in DOMAIN slots |->
                        Say(slots[k] # 0 /\ SegmentsFor(slots[k], 1) = {}, <<name, k, "unmapped">>)])))

Arrays ==
  /\ table = "arrays"
  /\ Finish(Push(sink, ArrayDefects(".init_array", "INIT_ARRAY", "INIT_ARRAYSZ")
                         \o ArrayDefects(".fini_array", "FINI_ARRAY", "FINI_ARRAYSZ")),
            "relas")

\* A mutant of BadRela: the last symbol is one too many.
BadRelaOneOff(name, allowed, k) ==
  Say(Rela(name, k).kind # "RELATIVE" /\ Rela(name, k).symbol > SymbolCount, <<name, k, "symbol">>)

BadRela(name, allowed, k) ==
  LET r == Rela(name, k) IN
  Say(r.kind \notin allowed, <<name, k, "kind">>)
    \o Say(SegmentsFor(r.at, 8) = {}, <<name, k, "unmapped">>)
    \o Say(IF r.kind = "RELATIVE" THEN r.symbol # 0 ELSE r.symbol >= SymbolCount, <<name, k, "symbol">>)

Unread(name) == Has(name) /\ Records(name) > 0 /\ (~ BackedSection(name) \/ Records(name) > Len(image.relas[name]))

RelaDefects(name, allowed) ==
  IF ~ Has(name) THEN <<>>
  ELSE Say(Section(name).entry \notin {0, 24}, <<name, "entry size">>) \o
       (IF ~ BackedSection(name) THEN <<>>
        ELSE FlattenSeq([k \in 1..Smaller(Records(name), Len(image.relas[name])) |-> BadRela(name, allowed, k)])
               \o Say(Unread(name), <<name, "past the file">>))

\* A table that cannot be read to its end ends the check of both.
Relas ==
  /\ table = "relas"
  /\ Finish(Push(sink, RelaDefects(".rela.dyn", {"RELATIVE", "GLOB_DAT", "ABS64"}) \o
                       (IF Unread(".rela.dyn") THEN <<>>
                        ELSE RelaDefects(".rela.plt", {"JUMP_SLOT", "RELATIVE"}))),
            "hashes")

\* The header of a hash table lies in the file.
HeaderHeld(name, size) ==
  OffsetOf(Section(name).va, Section(name).size) + size <= image.length

HashDefects ==
  LET h == image.hash
      section == Section(".hash")
  IN IF ~ Has(".hash") \/ ~ BackedSection(".hash") THEN <<>>
     ELSE Say(h.chains # SymbolCount, <<".hash", "chains">>)
            \o Say(8 + 4 * h.buckets + 4 * h.chains > section.size, <<".hash", "too small">>)

\* A bucket is held against the end of the symbols alone.
GnuHashDefects ==
  LET h == image.gnu
      size == Section(".gnu.hash").size
      header == 16 + 8 * h.bloom + 4 * Len(h.bucket)
      shape == Say(~ PowerOfTwo(Len(h.bucket)), <<".gnu.hash", "buckets">>)
                 \o Say(~ PowerOfTwo(h.bloom), <<".gnu.hash", "bloom">>)
                 \o Say(h.shift >= 64, <<".gnu.hash", "shift">>)
      chains == SymbolCount - h.symoffset
  IN IF ~ Has(".gnu.hash") \/ ~ BackedSection(".gnu.hash") THEN <<>>
     ELSE IF ~ HeaderHeld(".gnu.hash", 16) THEN <<<<".gnu.hash", "header truncated">>>>
     ELSE IF header > size THEN Append(shape, <<".gnu.hash", "header too large">>)
     ELSE IF h.symoffset > SymbolCount THEN Append(shape, <<".gnu.hash", "symbol offset">>)
     ELSE shape \o Say(header + 4 * chains > size, <<".gnu.hash", "too small">>)
            \o FlattenSeq([k \in 1..Smaller(Len(h.bucket), MaxBuckets) |->
                 Say(h.bucket[k] # 0 /\ h.bucket[k] >= SymbolCount, <<".gnu.hash", k, "bucket">>)])

\* A header that cannot be read ends the check of both.
Hashes ==
  /\ table = "hashes"
  /\ Finish(Push(sink, IF Has(".hash") /\ BackedSection(".hash") /\ ~ HeaderHeld(".hash", 8)
                       THEN <<<<".hash", "header truncated">>>>
                       ELSE HashDefects \o GnuHashDefects),
            "end")

VerifyNext ==
  Programs \/ Segments \/ DynamicTable \/ Arrays \/ Relas \/ Hashes
===============================================================================
