-------------------------------- MODULE Exe64 --------------------------------
(***************************************************************************)
(* Unpacking a PE32+ image: Unpacker::run of exe/pipeline.rs. The marker   *)
(* of stage 5 tells the old layout from the new one.                       *)
(***************************************************************************)
EXTENDS PeImage

\* Rounds of the accumulator, those of the newest builds first.
Rounds(first) == <<first>> \o [k \in 1..8 |-> IF k <= first THEN k - 1 ELSE k]

-----------------------------------------------------------------------------
\* The import directory and the resources of the shell go to the header first.
Locate ==
  /\ stage = "locate"
  /\ IF shell["payload"] # <<>> THEN Decline("no anchor")
     ELSE IF packed.anchor # "found" THEN Decline(packed.anchor)
     ELSE /\ dirs' = [dirs EXCEPT !.imports = packed.anchored, !.relocations = FALSE]
          /\ UNCHANGED <<shell, program, search>> /\ Go("stage1")

Stage1 == stage = "stage1" /\ Unlock("stage1", "stage2", "stage 2 not found")

\* Its own key, then the operations and the key offsets of its tables.
Stage2 == stage = "stage2" /\ Unlock("stage2", "stage3", "table start not found")

\* A large section is tried with the default key only: there is no copy to go back to.
Stage3 ==
  /\ stage = "stage3"
  /\ Try("stage3", IF packed.small THEN Rounds(4) ELSE <<4>>, "stage4", "stage 3")

Stage4 == stage = "stage4" /\ Unlock("stage4", "stage5", "stage 4")

Stage5 == stage = "stage5" /\ Try("stage5", Rounds(3), "discover", "stage 5")

Discover ==
  /\ stage = "discover"
  /\ IF packed.new /\ ~ packed.slots THEN Decline("stage 5 marker not found")
     ELSE Quiet /\ Go("chain")

\* The checksums are walked on copies of the descriptors, and the result is not used.
Chain == stage = "chain" /\ Quiet /\ Go("file operations")

\* The first compressed block is decoded on a copy before the operations are believed.
FileOperations ==
  /\ stage = "file operations"
  /\ IF ~ packed.operations THEN Decline("bytecode")
     ELSE IF packed.new /\ packed.blocks = "section decompression" THEN Decline("file decryptor validation")
     ELSE Quiet /\ Go("blocks")

FileBlocks == stage = "blocks" /\ Blocks("zero")

\* None of the regions here is in the list of those to be cleared.
Zero == stage = "zero" /\ Quiet /\ Go(IF packed.new THEN "sections" ELSE "names")

\* Each thunk of the table the shell keeps: whatever is there is decoded.
OldNames ==
  /\ stage = "names"
  /\ program' = IF packed.table THEN AllNames(program) ELSE program
  /\ UNCHANGED <<shell, dirs, search>> /\ Go("sections")

\* The header page of the file replaces what was written to it so far.
Sections64 ==
  /\ stage = "sections"
  /\ program' = Exports(program)
  /\ dirs' = [dirs EXCEPT !.imports = packed.listed, !.relocations = packed.relocatable,
                          !.flags = packed.flags, !.entry = "stub"]
  /\ UNCHANGED <<shell, search>> /\ Go(IF packed.new THEN "metadata" ELSE "pages")

OldPages ==
  /\ stage = "pages" /\ ~ packed.new
  /\ program' = Paged(program)
  /\ UNCHANGED <<shell, dirs, search>> /\ Go("metadata")

\* What the metadata block says when its bytes are still those of the file.
Reading(field) == IF program["meta"] = <<"meta">> THEN field ELSE "garbled"

\* The block is decoded for the reading and put back. The entry of managed code is zero.
Metadata64 ==
  LET read == Reading(packed.entry)
      listed == Reading(packed.listed)
      imports == IF packed.new /\ listed # "table" /\ packed.anchored # "none" THEN packed.anchored ELSE listed
  IN /\ stage = "metadata"
     /\ dirs' = [dirs EXCEPT !.entry = IF ~ packed.new /\ read = "zero" THEN @ ELSE read,
                             !.imports = imports, !.tls = packed.tls # "none", !.clr = packed.clr # "none",
                             !.relocations = packed.relocatable]
     /\ UNCHANGED <<shell, program, search>> /\ Go(IF packed.new THEN "late pages" ELSE "clr")

\* The new layout decodes the code section now, when the entry lies in it.
LatePages ==
  /\ stage = "late pages"
  /\ program' = IF dirs.entry = "text" THEN Paged(program) ELSE program
  /\ UNCHANGED <<shell, dirs, search>> /\ Go("imports")

\* A mutant of Decode: a readable name is decoded like any other.
DecodeAnyway(covers, refs) == Referenced(covers, refs)

\* A name that reads as text is left alone, so a second reference does no harm.
Decode(covers, refs) ==
  LET once(c) == IF c = <<>> THEN c ELSE Remove("name", c) IN
  IF refs = 1 THEN once(covers) ELSE once(once(covers))

\* The address table is the hull of the tables the descriptors name.
NewImports ==
  /\ stage = "imports"
  /\ program' = IF dirs.imports # "table" THEN program
              ELSE [r \in DOMAIN program |-> IF r \in Names THEN Decode(program[r], packed.names[r]) ELSE program[r]]
  /\ dirs' = [dirs EXCEPT !.addresses = @ \/ dirs.imports = "table"]
  /\ UNCHANGED <<shell, search>> /\ Go("clr")

\* Regions of managed code the file holds as they were.
Managed ==
  {"clr"} \cup (IF packed.clr = "whole" THEN {"metadata"} ELSE {})
          \cup (IF ~ packed.new /\ packed.resources THEN {"resources"} ELSE {})

\* Managed code is taken from the file after every pass over the code section.
Clr64 ==
  /\ stage = "clr"
  /\ program' = IF packed.clr \in {"whole", "no signature"} THEN FromStub(program, Managed) ELSE program
  /\ UNCHANGED <<shell, dirs, search>> /\ Go("tls")

\* A blank TLS directory is taken from the file, or the header entry is cleared.
Tls64 ==
  LET blank == packed.tls \in {"stub", "lost"}
      restored == blank /\ ~ packed.new /\ packed.tls = "stub"
  IN /\ stage = "tls"
     /\ program' = IF restored THEN FromStub(program, {"tls"}) ELSE program
     /\ dirs' = [dirs EXCEPT !.tls = @ /\ (~ blank \/ restored)]
     /\ UNCHANGED <<shell, search>> /\ Go("flags")

\* A header whose first word is zero has its directory cleared: the image is native
\* then. What is neither the header nor the packer's zeros may begin with anything.
KeepsClr(kept) == (program["clr"] = <<>> => kept) /\ (program["clr"] = <<"lost">> => ~ kept)

\* A program of the old layout is fixed: without relocations and characteristics. A
\* library keeps both.
Flags64 ==
  LET fixed == ~ packed.new /\ ~ packed.dll IN
  /\ stage = "flags"
  /\ \E kept \in BOOLEAN :
       /\ KeepsClr(kept)
       /\ dirs' = [dirs EXCEPT !.clr = @ /\ kept,
                               !.relocations = @ /\ ~ fixed,
                               !.flags = IF fixed THEN "zero" ELSE IF packed.new THEN @ ELSE Ensured(@)]
  /\ result' = <<"image">> /\ stage' = "end"
  /\ UNCHANGED <<packed, shell, program, search>>

Exe64Next ==
  \/ Locate \/ Stage1 \/ Stage2 \/ Stage3 \/ Stage4 \/ Stage5 \/ Discover \/ Chain \/ FileOperations
  \/ FileBlocks \/ Zero \/ OldNames \/ Sections64 \/ OldPages \/ Metadata64 \/ LatePages \/ NewImports
  \/ Clr64 \/ Tls64 \/ Flags64
===============================================================================
