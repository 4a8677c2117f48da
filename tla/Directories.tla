----------------------------- MODULE Directories -----------------------------
(***************************************************************************)
(* The data directories of an unpacked native PE image:                    *)
(*   senbei-engine/src/windows/integrity/directories.rs                    *)
(* A directory is given by its entry and by the rows the file holds at its *)
(* place, up to the end of the file; a string by whether it is readable.   *)
(***************************************************************************)
EXTENDS Findings, TLC

CONSTANTS
  Word,            \* 2^32
  None,
  MaxDescriptors, MaxThunks, MaxDelay, MaxCallbacks, MaxBlocks, MaxExceptions, MaxBound

ASSUME WalkAssumption == {Word, MaxDescriptors, MaxThunks, MaxCallbacks, MaxBlocks, MaxExceptions} \subseteq Nat

Larger(a, b) == IF a >= b THEN a ELSE b
Smaller(a, b) == IF a <= b THEN a ELSE b
Least(S) == CHOOSE x \in S : \A y \in S : x <= y

\* Where rows of these sizes start that follow one another, and where the last one ends.
Running(sizes) ==
  LET at[k \in 0..Len(sizes)] == IF k = 0 THEN 0 ELSE at[k - 1] + sizes[k] IN at

Dir(name) == image.dir[name]

Pointer == IF image.is64 THEN 8 ELSE 4

Backs(s, rva, size) ==
  /\ s.va <= rva /\ rva - s.va < s.raw /\ size <= s.raw - (rva - s.va)
  /\ s.offset + rva - s.va < Word

\* The headers, or one section, hold every byte of the range.
FileRange(rva, size) ==
  LET backing == {k \in DOMAIN image.sections : Backs(image.sections[k], rva, size)}
      first == image.sections[Least(backing)]
      offset == IF rva < image.headers /\ size <= image.headers - rva THEN rva
                ELSE IF backing = {} THEN image.length + 1
                ELSE first.offset + rva - first.va
  IN IF offset + size <= image.length THEN offset ELSE None

Backed(rva, size) == FileRange(rva, size) # None

\* Inside the loader's image, with or without file bytes.
Mapped(rva, size) ==
  LET end == rva + size
      first == Least({s.va : s \in ToSet(image.sections)} \cup {Word - 1})
  IN /\ end < Word /\ end <= image.size
     /\ \/ end <= first
        \/ \E s \in ToSet(image.sections) :
             /\ rva >= s.va
             /\ end <= Smaller((s.va + Larger(s.virtual, s.raw)) % Word, image.size)

Executable(rva, size) ==
  \E s \in ToSet(image.sections) :
    /\ s.exec /\ rva >= s.va /\ rva + size < Word
    /\ rva + size <= (s.va + Larger(s.virtual, s.raw)) % Word

\* The messages of a value that has to be an address above the image base.
BadAddress(value, what) ==
  IF value = 0 THEN <<>>
  ELSE IF value < image.base THEN <<<<what, "below the base">>>>
  ELSE IF value - image.base >= Word THEN <<>>
  ELSE IF ~ Mapped(value - image.base, 1) THEN <<<<what, "unmapped">>>>
  ELSE <<>>

-----------------------------------------------------------------------------
\* A printable string, after a hint of this many bytes.
BadString(rva, hint, what) ==
  IF ~ Backed(rva, Larger(hint, 1)) THEN <<<<what, "unmapped">>>>
  ELSE IF FileRange(rva, Larger(hint, 1)) + hint \notin image.text THEN <<<<what, "unreadable">>>>
  ELSE <<>>

\* What the file holds from an offset to its end.
HeldAt(content, offset) == IF offset \in DOMAIN content THEN content[offset] ELSE <<>>

Words(rva) == HeldAt(image.thunks, FileRange(rva, Pointer))

IsOrdinal(thunk) == thunk >= Word

\* Entries before the first null, or as many as are walked.
Upto(rva, max) ==
  LET slots == Smaller(Len(Words(rva)), max) IN
  Least({k \in 0..slots : k = slots \/ Words(rva)[k + 1] = 0})

Terminated(rva, max) == Upto(rva, max) < Smaller(Len(Words(rva)), max)

BadThunk(rva, k, label) ==
  IF IsOrdinal(Words(rva)[k]) THEN <<>> ELSE BadString(Words(rva)[k], 2, <<label, k>>)

WalkThunks(s, rva, label, checkNames) ==
  LET rows == [k \in 1..Upto(rva, MaxThunks) |-> BadThunk(rva, k, label)]
      walked == IF checkNames THEN Asking(s, rows) ELSE s
      why == IF Len(Words(rva)) >= MaxThunks THEN "too long" ELSE "runs off the file"
  IN IF Terminated(rva, MaxThunks) THEN walked ELSE Push(walked, <<<<label, why>>>>)

-----------------------------------------------------------------------------
\* A mutant of ImportDescriptor: only the address table is walked.
ImportAddressesOnly(s, d, i) ==
  WalkThunks(s, d.first, <<"address table", i>>, TRUE)

\* One descriptor with a name in the file. The address table is only counted: in a
\* bound image it holds addresses.
ImportDescriptor(s, d, i) ==
  LET lookup == IF d.original # 0 THEN d.original ELSE d.first
      named == WalkThunks(s, lookup, <<"lookup table", i>>, d.original # 0)
  IN IF ~ Backed(d.name, 1) THEN s
     ELSE IF lookup = 0 THEN Push(s, <<<<"no table", i>>>>)
     ELSE IF ~ Backed(lookup, Pointer) THEN Push(s, <<<<"lookup table unmapped", i>>>>)
     ELSE IF /\ d.original # 0 /\ d.first # 0 /\ Backed(d.first, Pointer)
             /\ Upto(d.first, MaxThunks) # Upto(lookup, MaxThunks)
     THEN Push(named, <<<<"tables differ", i>>>>)
     ELSE named

\* The rows of a table of descriptors: what is left when there is no next row.
DescriptorsEnd(rows, max, pastEnd) ==
  IF row > max THEN Push(sink, <<<<table, "too many">>>>)
  ELSE IF row > Len(rows) THEN Push(sink, pastEnd)
  ELSE sink

DescriptorsLeft(rows, max, terminator(_)) ==
  row <= max /\ row <= Len(rows) /\ ~ terminator(rows[row])

Imports ==
  LET present == Dir("imports").rva # 0 /\ Backed(Dir("imports").rva, 20)
      rows == HeldAt(image.imports, FileRange(Dir("imports").rva, 20))
      last(d) == d.name = 0
      more == present /\ DescriptorsLeft(rows, MaxDescriptors, last)
  IN /\ table = "imports"
     /\ \/ /\ ~ present /\ Finish(sink, "delay imports")
        \/ /\ more /\ Continue(ImportDescriptor(sink, rows[row], row))
        \/ /\ present /\ ~ more
           /\ Finish(DescriptorsEnd(rows, MaxDescriptors, <<<<table, "runs off the file">>>>),
                     "delay imports")

\* One delay-load descriptor; one with virtual addresses is only mentioned.
DelayDescriptor(s, d, i) ==
  LET lookup == IF d.names # 0 THEN d.names ELSE d.addresses
      named == IF d.name = 0 THEN s ELSE Push(s, BadString(d.name, 0, <<"module name", i>>))
  IN IF d.attributes % 2 = 0 THEN Push(s, <<<<"legacy form", i>>>>)
     ELSE IF lookup = 0 THEN Push(named, <<<<"no table", i>>>>)
     ELSE IF ~ Backed(lookup, Pointer) THEN Push(named, <<<<"name table unmapped", i>>>>)
     ELSE WalkThunks(named, lookup, <<"name table", i>>, TRUE)

DelayImports ==
  LET rva == Dir("delay imports").rva
      present == rva # 0 /\ Backed(rva, 32)
      last(d) == d.attributes = 0 /\ d.name = 0
      more == present /\ DescriptorsLeft(image.delay, MaxDelay, last)
  IN /\ table = "delay imports"
     /\ \/ /\ rva = 0 /\ Finish(sink, "bound imports")
        \/ /\ rva # 0 /\ ~ present
           /\ Finish(Push(sink, <<<<table, "unmapped">>>>), "bound imports")
        \/ /\ more /\ Continue(DelayDescriptor(sink, image.delay[row], row))
        \/ /\ present /\ ~ more
           /\ Finish(DescriptorsEnd(image.delay, MaxDelay, <<>>), "bound imports")

\* An entry and its forwarders count as one row; the name has to lie in the directory.
BoundImports ==
  LET dir == Dir("bound imports")
      present == dir.rva # 0 /\ dir.size >= 8
      from == FileRange(dir.rva, dir.size)
      last(b) == b.stamp = 0 /\ b.name = 0 /\ b.forwarders = 0
      at == Running([k \in DOMAIN image.bound |-> 8 + 8 * image.bound[k].forwarders])[row - 1]
      more == /\ DescriptorsLeft(image.bound, MaxBound, last)
              /\ at + 8 <= dir.size
      entry == image.bound[row]
      bad == IF entry.name >= dir.size THEN <<<<"name outside the directory", row>>>>
             ELSE IF from + entry.name + 4 > image.length THEN <<<<"name not in the file", row>>>>
             ELSE <<>>
  IN /\ table = "bound imports"
     /\ \/ /\ ~ present /\ Finish(sink, "addresses")
        \/ /\ present /\ from = None
           /\ Finish(Push(sink, <<<<table, "unmapped">>>>), "addresses")
        \/ /\ present /\ from # None /\ more /\ Continue(Push(sink, bad))
        \/ /\ present /\ from # None /\ ~ more
           /\ Finish(DescriptorsEnd(image.bound, MaxBound, <<>>), "addresses")

\* The directory of the import addresses.
Addresses ==
  LET dir == Dir("addresses") IN
  /\ table = "addresses"
  /\ Finish(IF dir.rva = 0 \/ Mapped(dir.rva, Larger(dir.size, 1)) THEN sink
            ELSE Push(sink, <<<<table, "unmapped">>>>),
            "tls")
-----------------------------------------------------------------------------
\* The words the file holds from the directory on; a field is read at its offset in
\* the 64-bit form.
TlsField(offset) == image.tls[offset \div Pointer + 1]

TlsFields == <<<<"start", 0>>, <<"end", 8>>, <<"index", 16>>, <<"callbacks", 24>>>>

BadTlsField(name, offset) ==
  IF offset \div Pointer >= Len(image.tls) THEN <<<<name, "truncated">>>>
  ELSE BadAddress(TlsField(offset), name)

\* The RVA of the array of callbacks; 0 when there is none to walk.
CallbackArray ==
  LET value == TlsField(24) IN
  IF /\ \E k \in DOMAIN TlsFields : TlsFields[k][1] = "callbacks"
     /\ 24 \div Pointer < Len(image.tls)
     /\ value >= image.base /\ value - image.base < Word
  THEN value - image.base ELSE 0

BadCallback(array, k) ==
  LET callback == Words(array)[k] IN
  IF /\ callback >= image.base /\ callback - image.base < Word
     /\ Mapped(callback - image.base, 1) /\ ~ Executable(callback - image.base, 1)
  THEN <<<<"callback", k, "not executable">>>>
  ELSE BadAddress(callback, <<"callback", k>>)

\* Callbacks are walked to the null, to the cap, or until the sink is full.
Callbacks(s) ==
  LET array == CallbackArray
      walked == Asking(s, [k \in 1..Upto(array, MaxCallbacks) |-> BadCallback(array, k)])
  IN IF array = 0 THEN s
     ELSE IF ~ Backed(array, Pointer) THEN Push(s, <<<<"callbacks", "array unmapped">>>>)
     ELSE IF Terminated(array, MaxCallbacks) \/ walked.unseen THEN walked
     ELSE Push(walked, <<<<"callbacks", "not terminated">>>>)

Tls ==
  LET dir == Dir("tls")
      header == IF image.is64 THEN 40 ELSE 24
      sized == IF dir.size < header THEN Push(sink, <<<<table, "too small">>>>) ELSE sink
      fields == FlattenSeq([k \in DOMAIN TlsFields |-> BadTlsField(TlsFields[k][1], TlsFields[k][2])])
  IN /\ table = "tls"
     /\ \/ /\ dir.rva = 0 /\ Finish(sink, "relocations")
        \/ /\ dir.rva # 0 /\ ~ Backed(dir.rva, header)
           /\ Finish(Push(sized, <<<<table, "unmapped">>>>), "relocations")
        \/ /\ dir.rva # 0 /\ Backed(dir.rva, header)
           /\ Finish(Callbacks(Push(sized, fields)), "relocations")

-----------------------------------------------------------------------------
BadEntry(block, i, k) ==
  LET entry == block.entries[k] IN
  IF entry.kind > 10 THEN <<<<"entry", i, k, "kind">>>>
  ELSE IF entry.kind # 0 /\ block.page + entry.offset >= image.size THEN <<<<"entry", i, k, "beyond the image">>>>
  ELSE <<>>

BadBlock(block) ==
  (IF block.page % 4096 # 0 THEN <<<<"block", row, "not aligned">>>> ELSE <<>>)
    \o (IF block.page >= image.size THEN <<<<"block", row, "beyond the image">>>> ELSE <<>>)

\* Where each block starts in the directory, and where the last one ends.
Starts(blocks) == Running([k \in DOMAIN blocks |-> blocks[k].size])

BlocksBefore(k) == Starts(image.blocks)[k - 1]

BlockFits(block, at, size) ==
  block.size >= 8 /\ block.size % 2 = 0 /\ at + block.size <= size

\* Defects of a block are pushed unasked, those of its entries asked for one by one.
Relocations ==
  LET dir == Dir("relocations")
      at == BlocksBefore(row)
      block == image.blocks[row]
      walked == Asking(Push(sink, BadBlock(block)),
                       [k \in DOMAIN block.entries |-> BadEntry(block, row, k)])
      next == "exceptions"
  IN /\ table = "relocations"
     /\ \/ /\ dir.rva = 0 /\ Finish(sink, next)
        \/ /\ dir.rva # 0 /\ dir.size = 0
           /\ Finish(Push(sink, <<<<table, "empty">>>>), next)
        \/ /\ dir.rva # 0 /\ dir.size # 0 /\ ~ Backed(dir.rva, dir.size)
           /\ Finish(Push(sink, <<<<table, "unmapped">>>>), next)
        \/ /\ dir.rva # 0 /\ dir.size # 0 /\ Backed(dir.rva, dir.size)
           /\ \/ /\ at + 8 <= dir.size /\ ~ BlockFits(block, at, dir.size)
                 /\ Finish(Push(sink, <<<<"block", row, "does not fit">>>>), next)
              \/ /\ at + 8 <= dir.size /\ BlockFits(block, at, dir.size)
                 /\ \/ row < MaxBlocks /\ Continue(walked)
                    \/ row >= MaxBlocks /\ Finish(Push(walked, <<<<table, "too many">>>>), next)
              \/ /\ at + 8 > dir.size
                 /\ Finish(IF at = dir.size THEN sink ELSE Push(sink, <<<<table, "trailing bytes">>>>), next)

BadFunction(k) ==
  LET f == image.functions[k]
      bad(rva, what) == IF Mapped(rva, 1) THEN <<>> ELSE <<<<"function", k, what>>>>
  IN IF f.begin >= f.end THEN <<<<"function", k, "empty">>>>
     ELSE bad(f.begin, "begin") \o bad(f.end - 1, "end")
            \o (IF image.is64 /\ f.unwind # 0 THEN bad((f.unwind \div 4) * 4, "unwind") ELSE <<>>)

\* No more than MaxExceptions are looked at, and nothing says so.
Exceptions ==
  LET dir == Dir("exceptions")
      entry == IF image.is64 THEN 12 ELSE 8
      sized == IF dir.size % entry # 0 THEN Push(sink, <<<<table, "odd size">>>>) ELSE sink
      count == Smaller(dir.size \div entry, MaxExceptions)
  IN /\ table = "exceptions"
     /\ \/ /\ dir.rva = 0 \/ dir.size = 0
           /\ Finish(sink, "load config")
        \/ /\ dir.rva # 0 /\ dir.size # 0
           /\ Finish(IF Backed(dir.rva, (dir.size \div entry) * entry)
                     THEN Asking(sized, [k \in 1..count |-> BadFunction(k)])
                     ELSE Push(sized, <<<<table, "unmapped">>>>),
                     "load config")

\* A field beyond the readable part is left alone: that of the guard table always is.
LoadConfig ==
  LET dir == Dir("load config")
      minimum == IF image.is64 THEN 112 ELSE 64
      readable == Smaller(minimum, dir.size)
      sized == IF dir.size < minimum THEN Push(sink, <<<<table, "too small">>>>) ELSE sink
      fields == IF image.is64 THEN <<<<"cookie", 88>>, <<"guard", 112>>>>
                ELSE <<<<"cookie", 60>>, <<"guard", 72>>>>
      bad(name, offset) == IF offset + Pointer > readable THEN <<>>
                           ELSE BadAddress(image.config[name], name)
  IN /\ table = "load config"
     /\ \/ /\ dir.rva = 0 \/ dir.size = 0
           /\ Finish(sink, "done")
        \/ /\ dir.rva # 0 /\ dir.size # 0
           /\ Finish(IF Backed(dir.rva, readable)
                     THEN Push(sized, FlattenSeq([k \in 1..2 |-> bad(fields[k][1], fields[k][2])]))
                     ELSE Push(sized, <<<<table, "unmapped">>>>),
                     "done")

WalkDirectories ==
  \/ Imports \/ DelayImports \/ BoundImports \/ Addresses
  \/ Tls \/ Relocations \/ Exceptions \/ LoadConfig
===============================================================================
