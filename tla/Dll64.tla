-------------------------------- MODULE Dll64 --------------------------------
(***************************************************************************)
(* Unpacking a PE32+ library with a companion: unpack_dll_inner of         *)
(* dll/pipeline.rs. Every section has one key, nothing is searched for.    *)
(***************************************************************************)
EXTENDS PeImage

\* The import directory and the resources of the shell go to the header, for its checksum.
DllDirectories ==
  /\ stage = "dll directories"
  /\ dirs' = [dirs EXCEPT !.imports = packed.anchored, !.relocations = FALSE]
  /\ UNCHANGED <<shell, program, search>> /\ Go("descriptor")

\* A descriptor that does not lie in the payload is the sign of a wrong key.
Descriptor ==
  /\ stage = "descriptor"
  /\ IF shell["payload"] # <<>> THEN Decline("primary descriptor")
     ELSE Unlock("descriptor", "code block 1", "primary descriptor")

CodeBlock1 == stage = "code block 1" /\ Unlock("block1", "code block 2", "code block 1")

CodeBlock2 == stage = "code block 2" /\ Unlock("block2", "code block 3", "code block 2")

CodeBlock3 == stage = "code block 3" /\ Unlock("block3", "code block 4", "code block 3")

\* The section decryptor follows the fourth block.
CodeBlock4 ==
  /\ stage = "code block 4"
  /\ IF packed.operations THEN Unlock("block4", "prefill", "code block 4") ELSE Decline("bytecode")

\* The section that holds the CLR header is copied first: the blocks leave gaps in it.
Prefill ==
  /\ stage = "prefill"
  /\ program' = IF packed.clr = "none" THEN program ELSE FromStub(program, {"clr", "metadata", "resources"})
  /\ UNCHANGED <<shell, dirs, search>> /\ Go("dll blocks")

DllBlocks == stage = "dll blocks" /\ Blocks("dll names")

DllNames ==
  /\ stage = "dll names"
  /\ program' = IF packed.anchored = "table" THEN AllNames(program) ELSE program
  /\ UNCHANGED <<shell, dirs, search>> /\ Go("dll header")

\* The export range is copied also when no section holds it: from the start of the file.
DllExports(regions) ==
  IF packed.exports = "unheld" THEN [regions EXCEPT !["exports"] = <<"dos stub">>] ELSE Exports(regions)

\* The header page, the sections, the exports and the CLR header.
DllHeader ==
  LET copied == DllExports(program) IN
  /\ stage = "dll header"
  /\ program' = IF packed.clr = "none" THEN copied ELSE FromStub(copied, {"clr"})
  /\ dirs' = [dirs EXCEPT !.imports = "stub", !.relocations = packed.relocatable,
                          !.flags = packed.flags, !.entry = "stub"]
  /\ UNCHANGED <<shell, search>> /\ Go("dll metadata")

\* Entry point and directories; the block stays decoded.
DllMetadata ==
  LET read == program["meta"] = <<"meta">> IN
  /\ stage = "dll metadata"
  /\ program' = [program EXCEPT !["meta"] = Remove("meta", @)]
  /\ dirs' = [dirs EXCEPT !.entry = IF read THEN packed.entry ELSE "garbled",
                          !.imports = IF read THEN packed.listed ELSE "garbled",
                          !.tls = packed.tls # "none", !.clr = packed.clr # "none"]
  /\ stage' = "end" /\ result' = <<"image">> /\ UNCHANGED <<packed, shell, search>>

Dll64Next ==
  \/ DllDirectories \/ Descriptor \/ CodeBlock1 \/ CodeBlock2 \/ CodeBlock3 \/ CodeBlock4 \/ Prefill
  \/ DllBlocks \/ DllNames \/ DllHeader \/ DllMetadata
===============================================================================
