------------------------------ MODULE PeRebuild ------------------------------
(***************************************************************************)
(* The three pipelines that rebuild a protected PE file in memory, over    *)
(* one working image. The packer itself is not in the repository: what it  *)
(* did to a file is the record `packed', the layers its loader takes off.  *)
(***************************************************************************)
EXTENDS Exe64, Exe32, Dll64

Areas == {"code", "meta", "clr", "metadata", "resources", "exports", "tls", "fixups", "table"}

Regions(p) == Areas \cup DOMAIN p.names

Sections ==
  {"payload", "second", "third", "fourth", "fifth", "seventh", "eighth", "stage1", "stage2", "stage3", "stage4",
   "stage5", "descriptor", "block1", "block2", "block3", "block4"}

\* The candidate each section of the shell was made with; a damaged one has none.
Shell(p) ==
  LET key == [payload |-> p.payload, second |-> p.second, third |-> p.third, eighth |-> p.eighth,
              stage3 |-> p.stage3, stage5 |-> p.stage5]
  IN [s \in Sections |-> IF s = p.damaged THEN <<NoCandidate>> ELSE IF s \in DOMAIN key THEN <<key[s]>> ELSE <<0>>]

\* The words of the pipelines for a search that gave up.
Searches ==
  {"table not found", "third stage", "eighth key not found", "stage 3", "stage 5", "file decryptor not found"}

\* A library's flag that lets it move, alone in its field, or whatever else is there.
Characteristics == {"zero", "movable", "other"}

\* The CLR header as the protected file has it: whole, with metadata that has no
\* signature, or blank; a foreign one comes with the program's own sections.
ClrHeaders == {"none", "whole", "no signature", "blank", "foreign"}

Early(p) == p.kind = "exe64" /\ ~ p.new

(* A protected file. The packer chose a key for each section that is       *)
(* searched for; a section without one has NoCandidate as its key. The     *)
(* tables lie outside the code section, which the early layout also holds  *)
(* of its names and its metadata (pipeline.rs 1545-1549, 1564 and 1688),   *)
(* and nothing the blocks fill is left out of them. PE32 reads the         *)
(* metadata before the blocks (pe32.rs 797).                               *)
IsPacked(p) ==
  /\ p.kind \in {"exe64", "exe32", "dll64"}
  /\ {p.new, p.small, p.longer, p.counted, p.compressed, p.relocatable, p.dll, p.resources, p.table,
      p.tableLast, p.room, p.idata, p.wiped, p.oracle, p.sections} \subseteq BOOLEAN
  /\ {p.payload, p.second, p.third, p.eighth, p.stage3, p.stage5, p.decryptor, p.pages, p.padding} \subseteq Nat
  /\ p.tables \in Seq(Nat)
  /\ p.damaged \notin {"payload", "second", "third", "eighth", "stage3", "stage5"}
  /\ {p.header, p.anchor, p.blocks, p.custom} \cap Searches = {}
  /\ {p.anchored, p.listed} \subseteq {"none", "table"} /\ p.entry \in {"text", "data", "zero"}
  /\ p.page \in {"none"} \cup PageLayers /\ p.flags \in Characteristics
  /\ p.clr \in ClrHeaders
  /\ p.names \in [DOMAIN p.names -> Nat] /\ DOMAIN p.names \cap Areas = {}
  /\ "code" \in p.inText /\ p.inText \cap {"exports", "tls", "fixups", "table"} = {}
  /\ Early(p) => p.inText \cap ({"meta"} \cup DOMAIN p.names) = {}
  /\ p.clr = "whole" => p.inBlocks \cap {"clr", "metadata"} = {}
  /\ p.resources => "resources" \notin p.inBlocks
  /\ p.kind = "exe32" => "meta" \notin p.inBlocks

ASSUME FilesAssumption == MaxCandidates \in Nat /\ \A p \in Files : IsPacked(p)

RebuildInit ==
  /\ packed \in Files
  /\ stage = "header"
  /\ shell = Shell(packed)
  /\ program = [r \in Regions(packed) |-> Cover(r)]
  /\ dirs = [imports |-> "stub", relocations |-> TRUE, flags |-> packed.flags, entry |-> "stub",
             tls |-> FALSE, clr |-> FALSE, addresses |-> FALSE, held |-> FALSE]
  /\ search = NoSearch
  /\ result = <<"running">>

RebuildDone == stage = "end" /\ UNCHANGED pipeline

RebuildNext == Header \/ Payload \/ Exe64Next \/ Exe32Next \/ Dll64Next \/ RebuildDone

RebuildSpec == RebuildInit /\ [][RebuildNext]_pipeline

-----------------------------------------------------------------------------
Restored == result = <<"image">>

\* What shows whether the code section is encrypted: a page and more of it, with
\* padding or an entry stub to judge by; a single page is always decoded.
CodeShows ==
  IF packed.kind = "dll64" THEN packed.page = "none"
  ELSE /\ packed.pages = 1 => packed.page = "page0" \/ (packed.oracle /\ packed.kind = "exe64")
       /\ packed.pages > 1 => \/ packed.padding >= MinPadding
                              \/ packed.oracle /\ packed.kind = "exe64"
                              \/ packed.page = "none"
       /\ packed.kind = "exe64" /\ packed.new => packed.entry = "text" \/ packed.page = "none"

\* Names the header leads to, each of them led to once unless the pipeline looks first.
NamesShow ==
  /\ \A n \in DOMAIN packed.names : packed.names[n] = 1 \/ (packed.kind = "exe64" /\ packed.new)
  /\ CASE packed.kind = "exe32" -> TRUE
       [] Early(packed) -> packed.table
       [] packed.kind = "dll64" -> packed.anchored = "table"
       [] OTHER -> TRUE

(* What the loader will use is what the packer was given: code, import     *)
(* names and the import table the header leads to, exports a section of    *)
(* the file holds, managed code that is whole, and for a library the       *)
(* relocations of its TLS directory. The passes over the code section, the *)
(* names and the regions copied from the file undo each other when one of  *)
(* them runs in another order (exe/pipeline.rs 1700-1756, pe32.rs 880-1100 *)
(* and dll/pipeline.rs 1190-1400).                                         *)
OutputIsPlain ==
  Restored =>
    /\ CodeShows => program["code"] = <<>>
    /\ CodeShows /\ NamesShow /\ dirs.imports \in {"table", "kmiat"} => \A n \in DOMAIN packed.names : program[n] = <<>>
    /\ dirs.imports = "table" /\ ~ (packed.tableLast /\ ~ packed.room) => program["table"] = <<>>
    /\ packed.exports = "held" => program["exports"] = <<>>
    /\ packed.clr = "whole" /\ packed.kind # "exe32" => program["clr"] = <<>> /\ program["metadata"] = <<>>
    /\ packed.clr = "whole" /\ packed.resources /\ (Early(packed) \/ packed.kind = "dll64") => program["resources"] = <<>>
    /\ packed.kind = "exe32" /\ packed.dll /\ packed.relocatable /\ packed.tls # "none" => program["fixups"] = <<>>

(* A search that gives up did not meet the packer's key: no candidate      *)
(* decodes what an earlier one left behind (restores in pipeline.rs        *)
(* 818-864, pe32.rs 41-58, 283-320 and 560-585).                           *)
RightCandidateIsFound ==
  result[1] = "refused" =>
    CASE result[2] = "table not found" ->
           ~ \E k \in DOMAIN packed.tables :
               packed.tables[k] = packed.second /\ (packed.payload = 1 \/ (packed.payload = 2 /\ packed.longer))
      [] result[2] = "third stage" -> \A k \in DOMAIN Shifts : Shifts[k] # packed.third
      [] result[2] = "eighth key not found" -> packed.eighth \notin 1..MaxCandidates
      [] result[2] = "stage 3" -> packed.stage3 \notin (IF packed.small THEN 0..8 ELSE {4})
      [] result[2] = "stage 5" -> packed.stage5 \notin 0..8
      [] result[2] = "file decryptor not found" -> packed.decryptor \notin 1..2 \/ ~ packed.compressed
      [] OTHER -> TRUE

\* Layouts whose programs load at their own base only.
OldLayout == packed.kind = "exe32" \/ Early(packed)

Fixed == OldLayout /\ ~ packed.dll

(* The header promises the loader what the image has: a TLS directory and  *)
(* a CLR header that are not blank, an address table only with the imports *)
(* it serves. A fixed image has neither relocations nor characteristics;   *)
(* another one has those relocations its metadata tells of, and the        *)
(* characteristics of the protected file, with the flag that lets it move  *)
(* only where they were zero (pipeline.rs 1853-1948, pe32.rs 990-1195).    *)
(* The entry point is one that was read before the block it is read from   *)
(* was overwritten. The DLL pipeline leaves TLS to its caller.             *)
HeaderMatchesImage ==
  Restored =>
    /\ dirs.tls /\ packed.kind # "dll64" => program["tls"] \in {<<>>, <<"placeholder">>}
    /\ dirs.clr /\ packed.kind = "exe64" /\ (packed.clr \in {"foreign", "blank"} => CodeShows) => program["clr"] = <<>>
    /\ Fixed => ~ dirs.relocations /\ dirs.flags = "zero"
    /\ ~ Fixed => /\ dirs.relocations = packed.relocatable
                  /\ dirs.flags = IF OldLayout /\ packed.flags = "zero" THEN "movable" ELSE packed.flags
    /\ dirs.entry # "garbled"
    /\ packed.kind # "exe32" => dirs.imports # "garbled"
    /\ dirs.addresses => dirs.imports = "table"
===============================================================================
