------------------------------- MODULE PeImage -------------------------------
(***************************************************************************)
(* What the PE pipelines share: the working image they restore in place,   *)
(* the search for a key by trial, and the steps that are the same in the   *)
(* PE32+, PE32 and DLL pipelines of senbei-engine/src/windows.             *)
(*                                                                         *)
(* A region of the image is the sequence of layers that still cover it:    *)
(* <<>> is what the packer was given. Removing a layer that is not the     *)
(* outermost one garbles the region. A section of the shell is covered by  *)
(* one layer, the candidate its key was made with.                         *)
(***************************************************************************)
EXTENDS Naturals, Sequences

CONSTANTS
  Files,        \* the protected files a run considers
  MaxCandidates \* keys tried for the eighth stage of a PE32 image

NoCandidate == 99   \* a section no candidate opens
Garbled == 100

VARIABLES
  packed,   \* the protected file: what the packer did, and what the loader needs
  stage,    \* the step that is next
  shell,    \* the sections of the shell
  program,  \* the regions of the program
  dirs,     \* entry point, directories and flags of the header
  search,   \* candidates tried, and the bytes saved before the first
  result    \* <<"running">>, <<"refused", why>> or <<"image">>

pipeline == <<packed, stage, shell, program, dirs, search, result>>

NoSearch == [tried |-> <<>>, saved |-> <<>>]

Names == DOMAIN packed.names

-----------------------------------------------------------------------------
(* What the packer did to a region, the last layer first. *)
Lost ==
  (IF packed.exports = "none" THEN {} ELSE {"exports"})
    \cup (IF packed.tls \in {"stub", "lost"} THEN {"tls"} ELSE {})
    \cup (IF packed.clr \in {"none", "foreign"} THEN {} ELSE {"clr", "metadata"})
    \cup (IF packed.resources THEN {"resources"} ELSE {})

\* The metadata block has no page layer, also where it lies in the code section.
Under(r) ==
  (IF r \in packed.inText \ {"meta"} /\ packed.page # "none" /\ packed.pages > 0 THEN <<packed.page>> ELSE <<>>)
    \o (IF r \in Names THEN <<"name">> ELSE <<>>)
    \o (IF r \in Lost THEN <<"lost">> ELSE <<>>)
    \o (IF r = "meta" THEN <<"meta">> ELSE <<>>)
    \o (IF r = "fixups" /\ packed.tls # "none" THEN <<"disarmed">> ELSE <<>>)

Cover(r) == IF r \in packed.inBlocks THEN <<"block">> \o Under(r) ELSE Under(r)

Remove(layer, covers) ==
  IF covers # <<>> /\ Head(covers) = layer THEN Tail(covers) ELSE <<"garbled">> \o covers

Open(candidate, covers) ==
  IF covers = <<candidate>> THEN <<>> ELSE <<Garbled>> \o covers

Go(next) == stage' = next /\ UNCHANGED <<packed, result>>

Decline(why) ==
  /\ stage' = "end" /\ result' = <<"refused", why>>
  /\ UNCHANGED <<packed, shell, program, dirs, search>>

Quiet == UNCHANGED <<shell, program, dirs, search>>

\* A mutant of Before: a candidate decodes what the last one left.
BeforeAsLeft(section) == shell[section]

\* The bytes the next candidate decodes: those of before the first.
Before(section) == IF search.tried = <<>> THEN shell[section] ELSE search.saved

\* Candidates in their order until one opens the section.
Try(section, candidates, next, why) ==
  LET k == Len(search.tried) + 1
      opened == Open(candidates[k], Before(section))
  IN IF k > Len(candidates) THEN Decline(why)
     ELSE /\ shell' = [shell EXCEPT ![section] = opened]
          /\ UNCHANGED <<program, dirs>>
          /\ IF opened = <<>> THEN search' = NoSearch /\ Go(next)
             ELSE /\ search' = [tried |-> Append(search.tried, candidates[k]), saved |-> Before(section)]
                  /\ Go(stage)

\* Sections that one key opens, or the pipeline refuses the file.
Unlock(section, next, why) ==
  IF Open(0, shell[section]) = <<>>
  THEN /\ shell' = [shell EXCEPT ![section] = <<>>]
       /\ UNCHANGED <<program, dirs, search>> /\ Go(next)
  ELSE Decline(why)

-----------------------------------------------------------------------------
\* The header, the magic, the PE offset and the image size.
Header ==
  /\ stage = "header"
  /\ IF packed.header # "good" THEN Decline(packed.header) ELSE Quiet /\ Go("payload")

\* The prefix of the payload is decoded, the rest is copied as it is.
Payload ==
  /\ stage = "payload"
  /\ shell' = [shell EXCEPT !["payload"] = Open(1, @)]
  /\ UNCHANGED <<program, dirs, search>>
  /\ Go(CASE packed.kind = "exe64" -> "locate" [] packed.kind = "exe32" -> "tables" [] OTHER -> "dll directories")

-----------------------------------------------------------------------------
\* Every block is copied from the file and decoded over what was there, or none counts.
Blocks(next) ==
  IF packed.blocks = "good"
  THEN /\ program' = [r \in DOMAIN program |-> IF r \in packed.inBlocks THEN Under(r) ELSE program[r]]
       /\ UNCHANGED <<shell, dirs, search>> /\ Go(next)
  ELSE Decline(packed.blocks)

PageLayers == {"page0", "page15"}

\* Padding bytes the sampled pages must gain.
MinPadding == IF packed.kind = "exe32" THEN 32 ELSE 8

\* An entry stub whose branches land decides in PE32+; else the padding a formula
\* brings out. A short section has none to show.
Selected(covers) ==
  LET shown == (packed.oracle /\ packed.kind = "exe64") \/ packed.padding >= MinPadding IN
  IF packed.pages < 2 /\ ~ (packed.oracle /\ packed.kind = "exe64") THEN "page0"
  ELSE IF shown /\ covers # <<>> /\ Head(covers) \in PageLayers THEN Head(covers)
  ELSE "skip"

\* Every region of the code section goes through the formula, whatever it is.
Paged(regions) ==
  LET layer == Selected(regions["code"]) IN
  [r \in DOMAIN regions |->
     IF layer # "skip" /\ packed.pages > 0 /\ r \in packed.inText THEN Remove(layer, regions[r]) ELSE regions[r]]

\* Each region that the protected file holds as it was.
FromStub(regions, S) == [r \in DOMAIN regions |-> IF r \in S THEN <<>> ELSE regions[r]]

\* A name is decoded once for each reference to it.
Referenced(covers, refs) == IF refs = 1 THEN Remove("name", covers) ELSE Remove("name", Remove("name", covers))

AllNames(regions) ==
  [r \in DOMAIN regions |-> IF r \in Names THEN Referenced(regions[r], packed.names[r]) ELSE regions[r]]

\* The characteristics of a library that must be able to move: the flag is only set in
\* a field that is zero, any other value stays.
Ensured(flags) == IF flags = "zero" THEN "movable" ELSE flags

\* The exports of the header page, when a section holds them.
Exports(regions) == IF packed.exports = "held" THEN FromStub(regions, {"exports"}) ELSE regions
===============================================================================
