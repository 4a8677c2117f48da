---------------------------- MODULE AndroidLibrary ----------------------------
(***************************************************************************)
(* One protected library, from its file to the restored one:               *)
(*   senbei-io/src/android/mod.rs, restore_so_with_engine_limits           *)
(* extraction into a temporary workspace, the module 0x0C images, the      *)
(* restoration from the workspace's index, and what the caller is told.    *)
(***************************************************************************)
EXTENDS Restore

VARIABLES
  research,  \* the run keeps research reports
  module,    \* the module 0x0C bytes, once they were looked for
  answer     \* NoAnswer, then what the call returns

NoAnswer == <<>>

calling == <<research, module, answer>>

LibraryInit ==
  /\ Init /\ RestoreInit
  /\ research \in BOOLEAN /\ module = None /\ answer = NoAnswer

Extraction == Next /\ UNCHANGED <<restoring, calling>>

Images == {files[registry[id].path] : id \in {12} \cap DOMAIN registry}

\* Two distinct images would be refused; the registry holds one for each id.
CollectModules ==
  /\ step = "done" /\ stage = "idle" /\ module = None /\ answer = NoAnswer
  /\ module' = Images
  /\ UNCHANGED <<vars, restoring, research, answer>>

Restoration ==
  /\ module # None
  /\ RestoreNext
  /\ UNCHANGED calling

\* Only a restore that failed carries what the extraction found.
Refused(captured) ==
  [ok |-> FALSE, module |-> {}, research |-> IF captured /\ research THEN {"extraction"} ELSE {}]

\* The workspace goes with the call, however it ends.
Answer(result) ==
  /\ answer = NoAnswer /\ answer' = result
  /\ files' = <<>>
  /\ UNCHANGED <<elf, limits, step, stack, config, used, counted, seen, registry, streams,
                 artifacts, index, restoring, research, module>>

ExtractionFails == step = "failed" /\ Answer(Refused(FALSE))

\* The decoded image of 0x0C cannot be read back.
CollectionFails == step = "done" /\ stage = "idle" /\ module = None /\ Answer(Refused(FALSE))

RestorationFails == stage = "failed" /\ Answer(Refused(TRUE))

\* The output is there and cannot be opened again.
ReopenFails == stage = "written" /\ Answer(Refused(FALSE))

Succeed ==
  /\ stage = "written"
  /\ Answer([ok |-> TRUE, module |-> module,
             research |-> IF research THEN {"extraction", "restoration"} ELSE {}])

LibraryNext ==
  \/ Extraction \/ CollectModules \/ Restoration
  \/ ExtractionFails \/ CollectionFails \/ RestorationFails \/ ReopenFails \/ Succeed

LibrarySpec == LibraryInit /\ [][LibraryNext]_<<vars, restoring, calling>>

-----------------------------------------------------------------------------
LibraryTypeOK ==
  /\ TypeOK /\ RestoreTypeOK
  /\ module # None => module \subseteq {registry[id].content : id \in DOMAIN registry}
=============================================================================
