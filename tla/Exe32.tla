-------------------------------- MODULE Exe32 --------------------------------
(***************************************************************************)
(* Unpacking a PE32 image, program or library: load_payload of             *)
(* exe/pipeline.rs, exe/pipeline/pe32.rs and layout/image.rs.              *)
(***************************************************************************)
EXTENDS PeImage

\* Rotations of the third stage, in the order they are tried.
Shifts == <<19, 21, 17, 23, 15, 25, 13, 11>>

-----------------------------------------------------------------------------
\* The key of the second stage is made of the header as the packer saw it, with its
\* relocation directory or without.
OpensSecond(table) ==
  /\ shell["second"] = <<table>>
  /\ packed.counted => dirs.relocations

\* Tables of the decoded payload that look like the packer's. A payload of the wrong
\* length shows none. A candidate is tried on the image: ciphertext and header page
\* are put back, whatever comes of it.
TablesSeen == IF shell["payload"] = <<>> THEN packed.tables ELSE <<>>

AllTried == Len(search.tried) >= Len(TablesSeen)

TryTable ==
  LET table == TablesSeen[Len(search.tried) + 1] IN
  IF OpensSecond(table)
  THEN search' = NoSearch /\ Go("second") /\ UNCHANGED <<shell, program, dirs>>
  ELSE /\ search' = [search EXCEPT !.tried = Append(@, table)]
       /\ Go(stage) /\ UNCHANGED <<shell, program, dirs>>

PrefixTables ==
  /\ stage = "tables"
  /\ IF ~ AllTried THEN TryTable
     ELSE IF packed.longer THEN Quiet /\ Go("whole payload")
     ELSE Decline("table not found")

\* Older loaders encrypt the payload to its end: it is read from the file again.
WholePayload ==
  /\ stage = "whole payload"
  /\ shell' = [shell EXCEPT !["payload"] = Open(2, <<packed.payload>>)]
  /\ search' = NoSearch /\ UNCHANGED <<program, dirs>> /\ Go("all tables")

AllTables == stage = "all tables" /\ IF AllTried THEN Decline("table not found") ELSE TryTable

\* The stage that was tried is decoded for good, and the header takes its directories.
Second ==
  /\ stage = "second"
  /\ shell' = [shell EXCEPT !["second"] = <<>>]
  /\ dirs' = [dirs EXCEPT !.imports = packed.anchored, !.relocations = packed.counted]
  /\ UNCHANGED <<program, search>> /\ Go("third")

Third == stage = "third" /\ Try("third", Shifts, "fourth", "third stage")

\* The operations and key offsets of the third stage, then its sections one by one.
Fourth == stage = "fourth" /\ Unlock("fourth", "fifth", "fourth stage")

Fifth == stage = "fifth" /\ Unlock("fifth", "seventh", "fifth stage")

Seventh == stage = "seventh" /\ Unlock("seventh", "custom decryptor", "seventh stage")

\* The decryptor of the eighth stage lies in the seventh, its operations are made there.
CustomDecryptor ==
  /\ stage = "custom decryptor"
  /\ IF packed.custom # "found" THEN Decline(packed.custom) ELSE Quiet /\ Go("eighth")

\* The key offset is guessed: gaps before the end, gaps before the decryptor, a scan.
Eighth ==
  /\ stage = "eighth"
  /\ Try("eighth", [k \in 1..MaxCandidates |-> k], "file decryptor", "eighth key not found")

\* The first compressed block is decoded on the image and put back.
Validates(block) == block = packed.decryptor /\ packed.compressed

\* The decryptor is where it is expected (block 0), or the first of those that look
\* like one and that a compressed block bears out.
FileDecryptor ==
  LET k == Len(search.tried) + 1 IN
  /\ stage = "file decryptor"
  /\ IF packed.decryptor = 0 \/ (k <= 2 /\ Validates(k))
     THEN IF packed.operations THEN search' = NoSearch /\ Go("reading") /\ UNCHANGED <<shell, program, dirs>>
          ELSE Decline("bytecode")
     ELSE IF k > 2 THEN Decline("file decryptor not found")
     ELSE /\ search' = [search EXCEPT !.tried = Append(@, k)]
          /\ Go(stage) /\ UNCHANGED <<shell, program, dirs>>

\* A mutant of Reading32: the block is read after the list is walked.
ReadingAfterZero ==
  /\ stage = "reading"
  /\ dirs' = [dirs EXCEPT !.held = ~ packed.wiped]
  /\ UNCHANGED <<shell, program, search>> /\ Go("zero list")

\* Entry point and directories are read from the metadata block, which is put back.
Reading32 ==
  /\ stage = "reading"
  /\ dirs' = [dirs EXCEPT !.held = program["meta"] = <<"meta">>]
  /\ UNCHANGED <<shell, program, search>> /\ Go("zero list")

\* The list may name the metadata block itself.
ZeroList ==
  /\ stage = "zero list"
  /\ program' = IF packed.wiped THEN [program EXCEPT !["meta"] = <<"zero">>] ELSE program
  /\ UNCHANGED <<shell, dirs, search>> /\ Go("file blocks")

FileBlocks32 == stage = "file blocks" /\ Blocks("fix sections")

\* The header page of the file replaces what the second stage wrote to it.
Sections32 ==
  /\ stage = "fix sections"
  /\ program' = Exports(program)
  /\ dirs' = [dirs EXCEPT !.imports = "stub", !.relocations = packed.relocatable,
                          !.flags = packed.flags, !.entry = "stub"]
  /\ UNCHANGED <<shell, search>> /\ Go("text pages")

Pages32 ==
  /\ stage = "text pages"
  /\ program' = Paged(program)
  /\ UNCHANGED <<shell, dirs, search>> /\ Go("directories")

\* The directories read; a program is fixed, a library must stay relocatable.
Directories32 ==
  /\ stage = "directories"
  /\ dirs' = [dirs EXCEPT !.imports = IF dirs.held THEN packed.listed ELSE "garbled",
                          !.tls = dirs.held /\ packed.tls # "none",
                          !.clr = dirs.held /\ packed.clr # "none",
                          !.relocations = packed.dll /\ dirs.held /\ packed.relocatable,
                          !.flags = IF packed.dll THEN Ensured(@) ELSE "zero"]
  /\ UNCHANGED <<shell, program, search>> /\ Go("tls directory")

\* A directory without a template needs the sections .tls and .data.
Placeholder == packed.sections

\* A blank directory is taken from the file, else made up, else its entry is cleared.
Tls32 ==
  /\ stage = "tls directory"
  /\ IF dirs.tls /\ program["tls"] # <<>>
     THEN /\ program' = [program EXCEPT !["tls"] = IF packed.tls = "stub" THEN <<>>
                                               ELSE IF packed.sections THEN <<"placeholder">> ELSE @]
          /\ dirs' = [dirs EXCEPT !.tls = packed.tls = "stub" \/ Placeholder]
     ELSE UNCHANGED <<program, dirs>>
  /\ UNCHANGED <<shell, search>> /\ Go("rearm")

\* The relocations of the TLS directory were made padding; a library needs them.
Rearm ==
  /\ stage = "rearm"
  /\ program' = IF packed.dll /\ dirs.held /\ packed.tls # "none" /\ dirs.relocations
              THEN [program EXCEPT !["fixups"] = Remove("disarmed", @)] ELSE program
  /\ UNCHANGED <<shell, dirs, search>> /\ Go("import names")

\* The table of the metadata when its first descriptor is plausible, else that of the
\* eighth stage. Every reference decodes the name it leads to. A zero entry leaves that
\* of the protected file.
Imports32 ==
  LET table == IF dirs.imports = "table" THEN "table" ELSE packed.anchored
      entry == IF dirs.held THEN packed.entry ELSE "garbled"
  IN
  /\ stage = "import names"
  /\ program' = IF table = "table" THEN AllNames(program) ELSE program
  /\ dirs' = [dirs EXCEPT !.imports = table, !.addresses = FALSE,
                          !.entry = IF entry = "zero" THEN "stub" ELSE entry]
  /\ UNCHANGED <<shell, search>> /\ Go("idata")

\* The table, its lookup and its address tables all lie in the section .idata.
InIdata == packed.idata /\ dirs.imports = "table"

\* A program whose table is not in its .idata section gets a new one, in place of the
\* last section; that is wiped before the new table is known to fit.
Kmiat ==
  LET moved == ~ packed.dll /\ ~ InIdata /\ dirs.imports = "table" IN
  /\ stage = "idata"
  /\ program' = IF moved /\ packed.tableLast THEN [program EXCEPT !["table"] = <<"zero">>] ELSE program
  /\ dirs' = [dirs EXCEPT !.imports = IF moved /\ packed.room THEN "kmiat" ELSE @,
                          !.addresses = ~ packed.dll /\ InIdata]
  /\ UNCHANGED <<shell, search>> /\ Go("compact")

\* What the sections hold, up to their last byte that is not zero, is too much.
Oversize == packed.oversize

\* The sections are laid out again, each to the end of what it holds.
Compact ==
  /\ stage = "compact"
  /\ IF Oversize THEN Decline("output layout")
     ELSE /\ stage' = "end" /\ result' = <<"image">>
          /\ UNCHANGED <<packed, shell, program, dirs, search>>

Exe32Next ==
  \/ PrefixTables \/ WholePayload \/ AllTables \/ Second \/ Third \/ Fourth \/ Fifth \/ Seventh \/ CustomDecryptor
  \/ Eighth \/ FileDecryptor \/ Reading32 \/ ZeroList \/ FileBlocks32 \/ Sections32 \/ Pages32 \/ Directories32
  \/ Tls32 \/ Rearm \/ Imports32 \/ Kmiat \/ Compact
===============================================================================
