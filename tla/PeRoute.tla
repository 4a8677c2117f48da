------------------------------- MODULE PeRoute -------------------------------
(***************************************************************************)
(* One Windows PE on its way to an image: the companion, the choice        *)
(* between the DLL and the EXE layout, the overlays from the loader stub,  *)
(* the checks, and the profile and trace that report them.                 *)
(*   senbei-engine/src/windows/mod.rs, profile.rs, panic_capture.rs        *)
(*   senbei-io/src/windows/mod.rs, windows/companion.rs, job.rs            *)
(* Three callers: "file" (`unpack_one_v`), "report" (`unpack_one_          *)
(* researched`, with the research trace) and "page" (the browser's worker, *)
(* where a panic is a trap nobody catches and the page may try again).     *)
(***************************************************************************)
EXTENDS Sequences

CONSTANTS
  Calls,    \* which of the callers
  Inputs    \* the files, each with what its bytes will do to every stage

Layouts == {"dll", "exe"}
Reports == {"clean", "warnings", "fatal"}
Fates == Reports \cup {"error", "panic"}
TlsParts == {"directory", "template", "relocations"}

\* kind: what `detect` says; companion: the `._` sibling; declares: the stub
\* names a companion; fate: how each pipeline ends; tls: the parts of the TLS
\* directory that can be restored; managed: the CLR regions can be restored;
\* overlaid: the check of the image after the overlays; writable: the output.
InputType ==
  [kind : {"none", "exe", "dll"}, companion : {"absent", "unreadable", "pairs", "other"},
   declares : BOOLEAN, fate : [Layouts -> Fates], tls : SUBSET TlsParts,
   managed : BOOLEAN, overlaid : Reports, writable : BOOLEAN]

ASSUME RouteAssumption ==
  /\ Calls \subseteq {"file", "report", "page"}
  /\ Inputs \subseteq InputType
  /\ \A i \in Inputs : i.declares => i.kind # "none"

VerdictType == Layouts \X {"accepted", "rejected", "failed"}

Outcomes == {"absent", "not_attempted", "succeeded", "rejected", "failed"}

ProfileType ==
  [outcome : [Layouts -> Outcomes], selected : Layouts \cup {"none"},
   recovery : {"not_attempted", "succeeded", "failed", "blocked"},
   validation : Reports \cup {"not_run"}, unresolved : BOOLEAN, external : BOOLEAN]

\* overlaid: the stub's exports, TLS and CLR regions have been put into it.
ImageType == [layout : Layouts \cup {"none"}, overlaid : BOOLEAN, tls : SUBSET TlsParts]

VARIABLES
  call, input,  \* chosen once
  pc,           \* the next stage
  forced,       \* the page's second job: EXE layout only
  trying,       \* the layout being tried
  errors,       \* layout |-> why it was refused
  place,        \* layout |-> where the panic of its error says it was
  image,        \* the accepted image: its layout and what the overlays did
  answer,       \* what the caller gets
  profile,      \* ProtectionProfile
  trace,        \* verdicts the research sink collected
  capture,      \* the thread's active panic capture
  captured      \* capture |-> the first panic it recorded

vars == <<call, input, pc, forced, trying, errors, place, image, answer, profile,
          trace, capture, captured>>

NoImage == [layout |-> "none", overlaid |-> FALSE, tls |-> {}]

Blank ==
  [outcome |-> [l \in Layouts |-> "absent"], selected |-> "none",
   recovery |-> "not_attempted", validation |-> "not_run",
   unresolved |-> FALSE, external |-> FALSE]

Spliced == input.companion = "pairs"

\* The older DLL layout comes first, and whatever is accepted must not be fatal.
DllFirst == input.kind = "dll" /\ ~ Spliced /\ ~ forced

\* The capture of the whole call: `catch_unwind_quiet` around every file.
Outer == IF call = "page" THEN "none" ELSE "call"

-----------------------------------------------------------------------------
Init ==
  /\ call \in Calls /\ input \in Inputs
  /\ call = "page" => input.companion # "unreadable" /\ input.kind # "none"
  /\ pc = "read" /\ forced = FALSE /\ trying = "none"
  /\ errors = [l \in Layouts |-> "none"]
  /\ place = [l \in Layouts |-> "none"]
  /\ image = NoImage /\ answer = "none" /\ profile = Blank /\ trace = <<>>
  /\ capture = Outer
  /\ captured = [c \in Layouts \cup {"call", "none"} |-> "none"]

\* Only a reporting call has a profile.
Report(p) == profile' = IF call = "file" THEN Blank ELSE p

Answer(a) == answer' = a /\ pc' = "done"

\* The routes `inspect_profile` lists; an EXE-only call keeps just that one.
Planned(kind, exeOnly) ==
  [l \in Layouts |->
     IF kind # "none" /\ (l = "exe" \/ (kind = "dll" /\ ~ exeOnly)) THEN "not_attempted" ELSE "absent"]

Inspected(exeOnly) == [Blank EXCEPT !.outcome = Planned(input.kind, exeOnly)]

\* A sibling that is there but cannot be read is an error, not an absence.
ReadInput ==
  /\ pc = "read"
  /\ IF input.companion = "unreadable"
     THEN /\ Answer("unreadable")
          /\ Report([Inspected(FALSE) EXCEPT !.recovery = "blocked", !.unresolved = TRUE])
     ELSE pc' = "prepare" /\ UNCHANGED <<answer, profile>>
  /\ UNCHANGED <<call, input, forced, trying, errors, place, image, trace, capture, captured>>

\* `prepare_companion`: a payload that pairs is spliced in; a stub that names a
\* companion and got none, or another's, goes no further.
Prepare ==
  /\ pc = "prepare"
  /\ IF input.declares /\ ~ Spliced
     THEN /\ Answer("companion")
          /\ Report([Inspected(TRUE) EXCEPT !.recovery = "blocked", !.unresolved = TRUE])
     ELSE pc' = "route" /\ UNCHANGED <<answer, profile>>
  /\ UNCHANGED <<call, input, forced, trying, errors, place, image, trace, capture, captured>>

\* What a splice adds to the profile, whatever the recovery came to.
MarkSpliced(p) ==
  IF ~ Spliced THEN p
  ELSE [p EXCEPT !.external = TRUE,
                 !.outcome["exe"] = IF @ = "absent" THEN "not_attempted" ELSE @]

Route ==
  /\ pc = "route"
  /\ IF input.kind = "none"
     THEN /\ Answer("not_crackproof")
          /\ Report(MarkSpliced([Blank EXCEPT !.unresolved = TRUE]))
          /\ UNCHANGED trying
     ELSE /\ pc' = "enter" /\ UNCHANGED answer
          /\ trying' = IF DllFirst THEN "dll" ELSE "exe"
          /\ Report(Inspected(Spliced \/ forced))
  /\ UNCHANGED <<call, input, forced, errors, place, image, trace, capture, captured>>

-----------------------------------------------------------------------------
\* A mutant of Enter: the attempt shares the capture of the whole call.
EnterShared ==
  /\ pc = "enter"
  /\ pc' = "run"
  /\ UNCHANGED <<call, input, forced, trying, errors, place, image, answer, profile, trace,
                 capture, captured>>

\* `catch_unpack` gives every attempt a capture of its own.
Enter ==
  /\ pc = "enter"
  /\ capture' = trying
  /\ pc' = "run"
  /\ UNCHANGED <<call, input, forced, trying, errors, place, image, answer, profile, trace,
                 captured>>

Fate == input.fate[trying]

\* The hook: a capture keeps the first panic it is shown.
Hook == captured' = [captured EXCEPT ![capture] = IF @ = "none" THEN trying ELSE @]

\* The pipeline returns, or panics under `catch_unpack`, whose guard puts the
\* enclosing capture back.
Run ==
  /\ pc = "run" /\ ~ (Fate = "panic" /\ call = "page")
  /\ pc' = "judge"
  /\ IF Fate = "panic"
     THEN Hook /\ place' = [place EXCEPT ![trying] = captured'[capture]]
     ELSE UNCHANGED <<captured, place>>
  /\ capture' = Outer
  /\ UNCHANGED <<call, input, forced, trying, errors, image, answer, profile, trace>>

\* In the browser a panic takes the worker with it.  Once, unless the file is an
\* EXE, the page hands it to a new worker with the DLL layout left out.
Trap ==
  /\ pc = "run" /\ Fate = "panic" /\ call = "page"
  /\ IF input.kind = "dll" /\ ~ forced
     THEN forced' = TRUE /\ pc' = "prepare" /\ UNCHANGED answer
     ELSE Answer("trap") /\ UNCHANGED forced
  /\ errors' = [l \in Layouts |-> "none"]
  /\ capture' = Outer /\ profile' = Blank /\ trace' = <<>>
  /\ UNCHANGED <<call, input, trying, place, image, captured>>

-----------------------------------------------------------------------------
\* A mutant of Acceptable: any image will do.
AnyImage == Fate \in Reports

\* The layout gate is for inputs that start with the DLL layout.
Acceptable == Fate \in Reports /\ (DllFirst => Fate # "fatal")

Reason ==
  CASE Fate = "panic" -> "panic" [] Fate = "error" -> "error" [] OTHER -> "invalid"

\* Only a reporting call has the research sink installed.
Emit(verdict) ==
  trace' = IF call = "report" THEN Append(trace, <<trying, verdict>>) ELSE trace

Refusal == IF DllFirst THEN "rejected" ELSE "failed"

RecordAccepted(p) ==
  [p EXCEPT !.outcome[trying] = "succeeded", !.selected = trying, !.recovery = "succeeded",
            !.validation = Fate, !.unresolved = (Fate = "fatal")]

\* An image a fatal finding rejected is not the same as no image.
RecordRefused(p) ==
  [p EXCEPT !.outcome[trying] = IF Fate = "fatal" THEN "rejected" ELSE "failed"]

GiveUp(p) == [p EXCEPT !.recovery = "failed", !.unresolved = TRUE]

Accept ==
  /\ pc = "judge" /\ Acceptable
  /\ image' = [NoImage EXCEPT !.layout = trying]
  /\ Emit("accepted")
  /\ Report(MarkSpliced(RecordAccepted(profile)))
  /\ pc' = IF Spliced THEN "overlay" ELSE "check"
  /\ UNCHANGED <<call, input, forced, trying, errors, place, answer, capture, captured>>

\* The EXE layout runs only after the DLL layout was refused.
Refuse ==
  /\ pc = "judge" /\ ~ Acceptable
  /\ errors' = [errors EXCEPT ![trying] = Reason]
  /\ Emit(Refusal)
  /\ IF trying = "dll"
     THEN /\ trying' = "exe" /\ pc' = "enter" /\ UNCHANGED answer
          /\ Report(RecordRefused(profile))
     ELSE /\ Answer("failed") /\ UNCHANGED trying
          /\ Report(MarkSpliced(GiveUp(RecordRefused(profile))))
  /\ UNCHANGED <<call, input, forced, place, image, capture, captured>>

-----------------------------------------------------------------------------
\* Exports, then the TLS directory: entry and struct, template, relocations;
\* each part is left out when it cannot be mapped or does not fit.
Overlay ==
  /\ pc = "overlay"
  /\ image' = [image EXCEPT !.overlaid = TRUE,
                            !.tls = IF "directory" \in input.tls THEN input.tls ELSE {}]
  /\ pc' = "managed"
  /\ UNCHANGED <<call, input, forced, trying, errors, place, answer, profile, trace, capture,
                 captured>>

\* A mutant of FailOverlay: the profile of the accepted candidate stands.
KeepAccepted(p) == p

FailOverlay(p) ==
  [p EXCEPT !.recovery = "failed", !.validation = "not_run", !.unresolved = TRUE]

\* All ranges are validated before any is written; one that is not there fails
\* the whole recovery and the image is dropped.
RestoreManaged ==
  /\ pc = "managed"
  /\ IF input.managed
     THEN pc' = "check" /\ UNCHANGED <<image, answer, profile>>
     ELSE Answer("managed") /\ image' = NoImage /\ Report(FailOverlay(profile))
  /\ UNCHANGED <<call, input, forced, trying, errors, place, trace, capture, captured>>

ReportOf(i) == IF i.overlaid THEN input.overlaid ELSE input.fate[i.layout]

\* A mutant of Checked: the check of the candidate, before the overlays.
CheckedBefore(p) == p

\* The profile describes the bytes returned.
Checked(p) ==
  [p EXCEPT !.validation = ReportOf(image), !.unresolved = (ReportOf(image) = "fatal")]

Check ==
  /\ pc = "check"
  /\ Report(Checked(profile))
  /\ IF call = "page" THEN Answer("ok") ELSE pc' = "write" /\ UNCHANGED answer
  /\ UNCHANGED <<call, input, forced, trying, errors, place, image, trace, capture, captured>>

Write ==
  /\ pc = "write"
  /\ Answer(IF input.writable THEN "ok" ELSE "write")
  /\ UNCHANGED <<call, input, forced, trying, errors, place, image, profile, trace, capture,
                 captured>>

Done == pc = "done" /\ UNCHANGED vars

Next ==
  \/ ReadInput \/ Prepare \/ Route
  \/ Enter \/ Run \/ Trap \/ Accept \/ Refuse
  \/ Overlay \/ RestoreManaged \/ Check \/ Write
  \/ Done

Spec == Init /\ [][Next]_vars

-----------------------------------------------------------------------------
TypeOK ==
  /\ call \in Calls /\ input \in Inputs
  /\ pc \in {"read", "prepare", "route", "enter", "run", "judge", "overlay", "managed",
             "check", "write", "done"}
  /\ forced \in BOOLEAN /\ trying \in Layouts \cup {"none"}
  /\ pc \in {"enter", "run", "judge"} => trying \in Layouts
  /\ errors \in [Layouts -> {"none", "error", "panic", "invalid"}]
  /\ place \in [Layouts -> Layouts \cup {"none"}]
  /\ image \in ImageType
  /\ pc \in {"overlay", "managed", "check", "write"} => image.layout \in Layouts
  /\ answer \in {"none", "ok", "unreadable", "companion", "not_crackproof", "failed",
                 "managed", "trap", "write"}
  /\ profile \in ProfileType
  /\ trace \in Seq(VerdictType)
  /\ capture \in Layouts \cup {"call", "none"}
  /\ captured \in [Layouts \cup {"call", "none"} -> Layouts \cup {"none"}]

\* The layout an input deserves: the DLL layout if nothing fatal was found in
\* it, else the EXE layout under the same gate; the EXE layout alone, ungated,
\* for an EXE or a spliced companion.
PromisedLayout ==
  LET dllFirst == input.kind = "dll" /\ ~ Spliced
      good == IF dllFirst THEN Reports \ {"fatal"} ELSE Reports
  IN  CASE dllFirst /\ input.fate["dll"] \in good -> "dll"
        [] OTHER -> IF input.fate["exe"] \in good THEN "exe" ELSE "none"

AsPromised ==
  /\ answer \in {"ok", "write"} => image.layout = PromisedLayout
  /\ answer \in {"failed", "trap"} => PromisedLayout = "none"

\* The plain, the reporting and the browser's call choose the same layout for the
\* same bytes, whatever fails or panics on the way: the one `select_dll_layout`
\* describes.  The one exception is a page's second job, which has no gate.
RouteIsAsPromised == (forced /\ input.fate["exe"] = "fatal") \/ AsPromised

Told(l) ==
  CASE errors[l] = "invalid" -> {"rejected"}
    [] errors[l] \in {"error", "panic"} -> {"failed"}
    [] image.layout = l -> {"succeeded"}
    [] answer = "managed" /\ l = "exe" -> {"succeeded"}
    [] OTHER -> {"absent", "not_attempted"}

\* The verdicts the research trace collected are those of the profile, one for
\* each route that ran, in the order they ran.
TraceMatchesProfile ==
  /\ \A i \in DOMAIN trace :
       trace[i][2] = "accepted" <=> profile.outcome[trace[i][1]] = "succeeded"
  /\ \A l \in Layouts :
       profile.outcome[l] \in {"absent", "not_attempted"} <=>
         \A i \in DOMAIN trace : trace[i][1] # l
  /\ Len(trace) = 2 => trace[1][1] = "dll" /\ trace[2][1] = "exe"

\* The profile of an answer says what happened to every route, as the trace does,
\* names the route of the image, and claims success exactly when there is an image.
ProfileTellsTheStory ==
  answer \notin {"none", "trap"} /\ call # "file" =>
    /\ \A l \in Layouts : profile.outcome[l] \in Told(l)
    /\ call = "report" => TraceMatchesProfile
    /\ image.layout # "none" => profile.selected = image.layout
    /\ profile.recovery = "succeeded" <=> image.layout # "none"
    /\ image.layout = "none" => profile.unresolved

\* The verdict in the profile is about the bytes returned, overlays included, and
\* an image with a fatal finding is never reported as free of errors.
ValidationIsOfTheReturned ==
  answer \in {"ok", "write"} /\ call # "file" =>
    /\ profile.validation = ReportOf(image)
    /\ profile.unresolved <=> ReportOf(image) = "fatal"

\* Each attempt's panic is reported at its own place, and the capture of the
\* enclosing call is active again as soon as the attempt is over.
PanicKeepsItsPlace ==
  /\ \A l \in Layouts : errors[l] = "panic" => place[l] = l
  /\ pc # "run" => capture = Outer

=============================================================================
