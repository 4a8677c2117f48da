------------------------------ MODULE Integrity ------------------------------
(***************************************************************************)
(* The static check of an unpacked PE image:                               *)
(*   senbei-engine/src/windows/integrity/mod.rs                            *)
(* Headers, sections, entry point, import names and the header of the      *)
(* runtime come first and may be fatal; then the tables, as warnings.      *)
(***************************************************************************)
EXTENDS ClrMetadata

CONSTANT MaxSections

VARIABLE issues   \* the IntegrityReport

checking == <<walking, issues>>

Fatal(what) == [severity |-> "fatal", what |-> what]
Warning(what) == [severity |-> "warning", what |-> what]

When(bad, issue) == IF bad THEN <<issue>> ELSE <<>>

HasFatal == \E k \in DOMAIN issues : issues[k].severity = "fatal"

\* The check goes on with these issues added.
Note(found, next) ==
  /\ issues' = issues \o found
  /\ table' = next /\ row' = 1
  /\ UNCHANGED <<image, sink, report>>

Managed == Dir("clr").rva # 0

\* rva_to_offset: by virtual size, whatever the file holds there.
InSection(s, rva) ==
  /\ rva >= s.va /\ rva < Smaller(s.va + Larger(s.virtual, s.raw), Word - 1)
  /\ s.offset + rva - s.va < image.length

Offset(rva, size) ==
  LET holding == {k \in DOMAIN image.sections : InSection(image.sections[k], rva)}
      first == image.sections[Least(holding)]
      offset == IF rva < image.table THEN rva
                ELSE IF holding = {} THEN image.length
                ELSE first.offset + rva - first.va
  IN IF offset + size <= image.length THEN offset ELSE None

ExecutableRva(rva) ==
  \E s \in ToSet(image.sections) :
    s.exec /\ rva >= s.va /\ rva < (s.va + Larger(s.virtual, s.raw)) % Word

-----------------------------------------------------------------------------
\* Nothing is meaningful below a broken header; a section table past the end ends the
\* check after the other two.
Headers ==
  /\ table = "headers"
  /\ LET implausible == When(image.count = 0 \/ image.count > MaxSections, Fatal("section count"))
                          \o When(image.size = 0, Fatal("image size"))
     IN CASE image.header = "good" -> Note(implausible, "sections")
          [] image.header = "section table" -> Note(Append(implausible, Fatal("section table")), "end")
          [] OTHER -> Note(<<Fatal(image.header)>>, "end")

\* A native DLL without relocations is only suspect.
Sections ==
  /\ table = "sections"
  /\ LET past(s) == s.raw # 0 /\ (s.offset + s.raw) % Word > image.length
     IN Note(FlattenSeq([k \in DOMAIN image.sections |-> When(past(image.sections[k]), Fatal(<<"section", k>>))])
               \o When(image.dll /\ ~ Managed /\ Dir("relocations").rva = 0, Warning("no relocations")),
             "entry")

\* Where the call and the jump of the common entry stub go.
EntryBranches(offset) ==
  LET stub == image.stub IN
  IF stub.code = "branches" /\ offset + 18 <= image.length
  THEN When(~ ExecutableRva(stub.call), Fatal("call target"))
         \o When(~ ExecutableRva(stub.jump), Fatal("jump target"))
  ELSE <<>>

EntryDefects ==
  LET offset == Offset(image.entry, 16)
      code == IF offset = image.stub.at THEN image.stub.code ELSE "other"
  IN IF image.entry = 0 THEN When(~ image.dll, Fatal("no entry"))
     ELSE IF Managed THEN <<>>
     ELSE IF offset = None THEN <<Fatal("entry unmapped")>>
     ELSE When(code \in {"zeros", "int3"}, Warning("entry not recovered"))
            \o When(~ ExecutableRva(image.entry), Fatal("entry not executable"))
            \o (IF offset = image.stub.at THEN EntryBranches(offset) ELSE <<>>)

Entry ==
  /\ table = "entry"
  /\ Note(EntryDefects, IF Managed THEN "runtime" ELSE "names")

\* One import descriptor's module name. The walk ends at a name that is zero or past
\* the end of the file.
Names ==
  LET dir == Dir("imports").rva
      rows == HeldAt(image.imports, Offset(dir, 20))
      present == dir # 0 /\ Offset(dir, 20) # None
      more == present /\ row <= MaxDescriptors /\ row <= Len(rows) /\ rows[row].name # 0
      at == Offset(rows[row].name, 1)
      bad == IF at = None THEN <<Fatal(<<"name unmapped", row>>)>>
             ELSE When(at \notin image.text, Warning(<<"name unreadable", row>>))
  IN /\ table = "names"
     /\ \/ /\ more /\ issues' = issues \o bad /\ row' = row + 1
           /\ UNCHANGED <<image, table, sink, report>>
        \/ /\ ~ more
           /\ Note(When(dir # 0 /\ Offset(dir, 20) = None, Fatal("imports unmapped")), "imports")

\* The header of the runtime and the signature of its metadata.
RuntimeDefects ==
  LET at == Offset(Dir("clr").rva, 72)
      blob == image.clr
  IN IF at = None THEN <<Fatal("runtime header unmapped")>>
     ELSE IF image.cb # 72 THEN <<Fatal("runtime header")>>
     ELSE IF blob.rva = 0 THEN <<>>
     ELSE IF Offset(blob.rva, 4) = None THEN <<Fatal("metadata unmapped")>>
     ELSE When(~ blob.signed, Fatal("metadata signature"))

Runtime ==
  /\ table = "runtime"
  /\ Note(RuntimeDefects, "metadata")

Walk ==
  /\ WalkDirectories \/ Metadata
  /\ UNCHANGED issues

Advisory(line) == Warning(line)

\* What the tables reported is added, never as fatal.
Conclude ==
  /\ table = "done"
  /\ LET lines == FlattenSeq([k \in DOMAIN report |-> Lines(report[k].sink)])
     IN Note([k \in DOMAIN lines |-> Advisory(lines[k])], "end")

IntegrityNext ==
  \/ Headers \/ Sections \/ Entry \/ Names \/ Runtime
  \/ Walk \/ Conclude
===============================================================================
