--------------------------- MODULE PeRoute_proofs ---------------------------
(***************************************************************************)
(* What the routing of a PE guarantees for every set of callers and every  *)
(* set of inputs, and what the pipelines it routes to guarantee for every  *)
(* set of protected files.                                                 *)
(***************************************************************************)
EXTENDS PeRoute, PeRebuild, Integers, SequenceTheorems, TLAPS

-----------------------------------------------------------------------------
(* The inductive invariant *)

DllGated == input.kind = "dll" /\ ~ Spliced
DllIsGood == input.fate["dll"] \in {"clean", "warnings"}

\* Why the image in hand is of this layout.
Deserved(l) ==
  /\ input.fate[l] \in Reports
  /\ l = "dll" => DllGated /\ DllIsGood
  /\ l = "exe" /\ DllGated => ~ DllIsGood /\ (input.fate["exe"] # "fatal" \/ forced)

\* Why there is none.
Exhausted ==
  /\ DllGated => ~ DllIsGood
  /\ \/ input.fate["exe"] \notin Reports
     \/ DllGated /\ input.fate["exe"] = "fatal"

\* RouteIsAsPromised speaks of answers only; this is what every stage knows of the
\* layouts already tried.  The page's second job has lost the record of the first,
\* but it would not run had the DLL layout been good.
RouteStory ==
  /\ pc \in {"enter", "run", "judge"} =>
       /\ input.kind # "none"
       /\ trying = "dll" => DllFirst
       /\ trying = "exe" /\ DllGated => ~ DllIsGood
  /\ forced /\ DllGated => ~ DllIsGood
  /\ image.layout # "none" => Deserved(image.layout)
  /\ answer \in {"failed", "trap"} => Exhausted
  /\ answer \in {"ok", "write"} => image.layout \in Layouts
  /\ pc # "done" => answer = "none"

\* An attempt's capture never holds another attempt's panic.
CaptureStory ==
  /\ capture = IF pc = "run" THEN trying ELSE Outer
  /\ \A l \in Layouts : captured[l] \in {"none", l}
  /\ \A l \in Layouts : errors[l] = "panic" => place[l] = l
  /\ pc = "judge" /\ Fate = "panic" => place[trying] = trying

\* From the check on, the profile has the verdict on the image as it is.
VerdictStory ==
  (pc = "write" \/ answer \in {"ok", "write"}) /\ call # "file" =>
      /\ profile.validation = ReportOf(image)
      /\ profile.unresolved <=> ReportOf(image) = "fatal"

IInv == TypeOK /\ RouteStory /\ CaptureStory /\ VerdictStory

-----------------------------------------------------------------------------
(* Types *)

LEMMA InputTyped ==
  ASSUME TypeOK
  PROVE  /\ input \in InputType /\ input.fate \in [Layouts -> Fates]
         /\ input.tls \in SUBSET TlsParts /\ input.overlaid \in Reports
         /\ input.kind \in {"none", "exe", "dll"}
         /\ call \in {"file", "report", "page"}
BY RouteAssumption DEF TypeOK, InputType

\* A field of a profile may be replaced by another value of its type.
LEMMA OutcomeUpdate ==
  ASSUME NEW p \in ProfileType, NEW l \in Layouts, NEW o \in Outcomes
  PROVE  [p EXCEPT !.outcome[l] = o] \in ProfileType
<1>1. p.outcome \in [Layouts -> Outcomes] /\ [p.outcome EXCEPT ![l] = o] \in [Layouts -> Outcomes]
      BY DEF ProfileType
<1> QED
      BY <1>1 DEF ProfileType

LEMMA EndUpdate ==
  ASSUME NEW p \in ProfileType, NEW rec \in {"not_attempted", "succeeded", "failed", "blocked"}
  PROVE  [p EXCEPT !.recovery = rec, !.unresolved = TRUE] \in ProfileType
BY DEF ProfileType

LEMMA VerdictUpdate ==
  ASSUME NEW p \in ProfileType, NEW val \in Reports
  PROVE  [p EXCEPT !.validation = val, !.unresolved = (val = "fatal")] \in ProfileType
BY DEF ProfileType

LEMMA BlankTyped == Blank \in ProfileType
BY DEF Blank, ProfileType, Outcomes, Layouts

LEMMA InspectedTyped ==
  ASSUME NEW exeOnly PROVE Inspected(exeOnly) \in ProfileType /\ Blank \in ProfileType
<1>1. Planned(input.kind, exeOnly) \in [Layouts -> Outcomes]
      BY DEF Planned, Outcomes
<1> QED
      BY <1>1, BlankTyped DEF Inspected, ProfileType

LEMMA MarkSplicedTyped == ASSUME NEW p \in ProfileType PROVE MarkSpliced(p) \in ProfileType
<1> DEFINE o == IF p.outcome["exe"] = "absent" THEN "not_attempted" ELSE p.outcome["exe"]
<1>1. "exe" \in Layouts /\ o \in Outcomes
      BY DEF ProfileType, Outcomes, Layouts
<1>2. [p EXCEPT !.external = TRUE, !.outcome["exe"] = o] \in ProfileType
    <2>1. [p.outcome EXCEPT !["exe"] = o] \in [Layouts -> Outcomes]
      BY <1>1 DEF ProfileType
    <2> QED
      BY <2>1 DEF ProfileType
<1>3. [p EXCEPT !.external = TRUE,
               !.outcome["exe"] = IF @ = "absent" THEN "not_attempted" ELSE @] \in ProfileType
      BY <1>2 DEF ProfileType
<1> QED
      BY <1>3 DEF MarkSpliced

LEMMA ReportTyped ==
  ASSUME NEW p \in ProfileType, Report(p)
  PROVE  profile' \in ProfileType
BY BlankTyped DEF Report

-----------------------------------------------------------------------------
(* Every step keeps the types *)

LEMMA TypeInit == ASSUME Init PROVE TypeOK
<1>1. Blank \in ProfileType /\ NoImage \in ImageType
      BY BlankTyped DEF NoImage, ImageType
<1>2. <<>> \in Seq(VerdictType)
      OBVIOUS
<1> QED
      BY <1>1, <1>2 DEF TypeOK, Init, Outer

LEMMA EmitTyped ==
  ASSUME TypeOK, trying \in Layouts, NEW v \in {"accepted", "rejected", "failed"}, Emit(v)
  PROVE  trace' \in Seq(VerdictType)
<1>1. trace \in Seq(VerdictType) /\ <<trying, v>> \in VerdictType
      BY DEF TypeOK, VerdictType
<1>2. Append(trace, <<trying, v>>) \in Seq(VerdictType)
      BY <1>1
<1> QED
      BY <1>1, <1>2 DEF Emit

LEMMA TypeKept == ASSUME TypeOK, RouteStory, Next PROVE TypeOK'
<1>0. /\ input.fate \in [Layouts -> Fates] /\ input.overlaid \in Reports
      /\ input.tls \in SUBSET TlsParts /\ profile \in ProfileType /\ image \in ImageType
      /\ Outer \in {"call", "none"}
      BY InputTyped DEF TypeOK, Outer
<1>1. CASE ReadInput
  <2>1. [Inspected(FALSE) EXCEPT !.recovery = "blocked", !.unresolved = TRUE] \in ProfileType
      BY InspectedTyped, EndUpdate
  <2>2. profile' \in ProfileType
      BY <1>0, <1>1, <2>1, ReportTyped DEF ReadInput
  <2> QED
      BY <1>1, <2>2 DEF TypeOK, ReadInput, Answer
<1>2. CASE Prepare
  <2>1. [Inspected(TRUE) EXCEPT !.recovery = "blocked", !.unresolved = TRUE] \in ProfileType
      BY InspectedTyped, EndUpdate
  <2>2. profile' \in ProfileType
      BY <1>0, <1>2, <2>1, ReportTyped DEF Prepare
  <2> QED
      BY <1>2, <2>2 DEF TypeOK, Prepare, Answer
<1>3. CASE Route
  <2>1. [Blank EXCEPT !.unresolved = TRUE] \in ProfileType
      BY BlankTyped DEF ProfileType
  <2>2. profile' \in ProfileType
      BY <1>3, <2>1, MarkSplicedTyped, InspectedTyped, ReportTyped DEF Route
  <2> QED
      BY <1>3, <2>2 DEF TypeOK, Route, Answer, Layouts
<1>4. CASE Enter
      BY <1>4 DEF TypeOK, Enter
<1>5. CASE Run
  <2>1. trying \in Layouts /\ capture \in Layouts \cup {"call", "none"}
      BY <1>5 DEF TypeOK, Run
  <2>2. captured' \in [Layouts \cup {"call", "none"} -> Layouts \cup {"none"}]
      BY <1>5, <2>1 DEF TypeOK, Run, Hook
  <2>3. place' \in [Layouts -> Layouts \cup {"none"}]
      BY <1>5, <2>1, <2>2 DEF TypeOK, Run
  <2> QED
      BY <1>0, <1>5, <2>1, <2>2, <2>3 DEF TypeOK, Run
<1>6. CASE Trap
  <2>1. trace' \in Seq(VerdictType)
      BY <1>6 DEF Trap
  <2> QED
      BY <1>0, <1>6, <2>1, BlankTyped DEF TypeOK, Trap, Answer
<1>7. CASE Accept
  <2>1. trying \in Layouts /\ Fate \in Reports
      BY <1>7 DEF TypeOK, Accept, Acceptable
  <2>2. RecordAccepted(profile) \in ProfileType
    <3>1. [profile EXCEPT !.outcome[trying] = "succeeded"] \in ProfileType
      BY <1>0, <2>1, OutcomeUpdate DEF Outcomes
    <3> QED
      BY <1>0, <2>1, <3>1 DEF RecordAccepted, ProfileType
  <2>3. profile' \in ProfileType
      BY <1>7, <2>2, MarkSplicedTyped, ReportTyped DEF Accept
  <2>4. image' \in ImageType /\ image'.layout = trying
      BY <1>7, <2>1 DEF Accept, NoImage, ImageType
  <2>5. trace' \in Seq(VerdictType)
      BY <1>7, <2>1, EmitTyped DEF Accept
  <2> QED
      BY <1>7, <2>1, <2>3, <2>4, <2>5 DEF TypeOK, Accept
<1>8. CASE Refuse
  <2>1. trying \in Layouts /\ Refusal \in {"rejected", "failed"}
      BY <1>8 DEF TypeOK, Refuse, Refusal
  <2>2. RecordRefused(profile) \in ProfileType
      BY <1>0, <2>1, OutcomeUpdate DEF RecordRefused, Outcomes
  <2>3. GiveUp(RecordRefused(profile)) \in ProfileType
      BY <2>2, EndUpdate DEF GiveUp
  <2>4. profile' \in ProfileType
      BY <1>8, <2>2, <2>3, MarkSplicedTyped, ReportTyped DEF Refuse
  <2>5. errors' \in [Layouts -> {"none", "error", "panic", "invalid"}]
      BY <1>8, <2>1 DEF TypeOK, Refuse, Reason
  <2>6. trace' \in Seq(VerdictType)
      BY <1>8, <2>1, EmitTyped DEF Refuse
  <2> QED
      BY <1>8, <2>1, <2>4, <2>5, <2>6 DEF TypeOK, Refuse, Answer, Layouts
<1>9. CASE Overlay
  <2>1. image' \in ImageType /\ image'.layout = image.layout
      BY <1>0, <1>9 DEF Overlay, ImageType
  <2> QED
      BY <1>9, <2>1 DEF TypeOK, Overlay
<1>10. CASE RestoreManaged
  <2>1. NoImage \in ImageType
      BY DEF NoImage, ImageType
  <2>2. FailOverlay(profile) \in ProfileType
      BY <1>0 DEF FailOverlay, ProfileType
  <2>3. profile' \in ProfileType
      BY <1>0, <1>10, <2>2, ReportTyped DEF RestoreManaged
  <2> QED
      BY <1>10, <2>1, <2>3 DEF TypeOK, RestoreManaged, Answer
<1>11. CASE Check
  <2>1. image.layout \in Layouts
      BY <1>11 DEF TypeOK, Check
  <2>2. Checked(profile) \in ProfileType
    <3>1. ReportOf(image) \in Reports
      BY <1>0, <2>1 DEF ReportOf, RouteStory, Deserved, Layouts
    <3> QED
      BY <1>0, <3>1, VerdictUpdate DEF Checked
  <2>3. profile' \in ProfileType
      BY <1>11, <2>2, ReportTyped DEF Check
  <2> QED
      BY <1>11, <2>3 DEF TypeOK, Check, Answer
<1>12. CASE Write
      BY <1>12 DEF TypeOK, Write, Answer
<1>13. CASE Done
      BY <1>13 DEF Done, vars, TypeOK
<1> QED
      BY <1>1, <1>2, <1>3, <1>4, <1>5, <1>6, <1>7, <1>8, <1>9, <1>10, <1>11, <1>12, <1>13
         DEF Next

-----------------------------------------------------------------------------
(* Every step keeps the story of the route *)

LEMMA RouteInit == ASSUME Init PROVE RouteStory
BY DEF Init, RouteStory, NoImage, DllGated

LEMMA RouteKept == ASSUME TypeOK, RouteStory, Next PROVE RouteStory'
<1> USE DEF RouteStory, Deserved, Exhausted, DllGated, DllIsGood, DllFirst, Spliced
<1>0. /\ input.fate \in [Layouts -> Fates] /\ trying \in Layouts \cup {"none"}
      /\ pc \in {"enter", "run", "judge"} => trying \in Layouts
      /\ pc \in {"overlay", "managed", "check", "write"} => image.layout \in Layouts
      /\ image \in ImageType /\ forced \in BOOLEAN /\ input.kind \in {"none", "exe", "dll"}
      BY InputTyped DEF TypeOK
<1>1. CASE ReadInput
      BY <1>1 DEF ReadInput, Answer
<1>2. CASE Prepare
      BY <1>2 DEF Prepare, Answer
<1>3. CASE Route
      BY <1>0, <1>3 DEF Route, Answer
<1>4. CASE Enter
      BY <1>4 DEF Enter
<1>5. CASE Run
      BY <1>5 DEF Run
<1>6. CASE Trap
  <2>1. input.fate[trying] = "panic" /\ trying \in {"dll", "exe"}
      BY <1>0, <1>6 DEF Trap, Fate, Layouts
  <2>2. DllGated => ~ DllIsGood
      BY <1>6, <2>1 DEF Trap
  <2>3. input.fate["exe"] \notin Reports \/ (input.kind = "dll" /\ ~ forced)
      BY <1>6, <2>1 DEF Trap, Reports
  <2> QED
      BY <1>0, <1>6, <2>2, <2>3 DEF Trap, Answer
<1>7. CASE Accept
  <2>1. trying \in {"dll", "exe"} /\ image'.layout = trying
      BY <1>0, <1>7 DEF Accept, NoImage, Layouts
  <2>2. /\ Fate = input.fate[trying] /\ Fate \in Reports
        /\ DllFirst => Fate # "fatal"
      BY <1>7 DEF Accept, Acceptable, Fate
  <2>3. Deserved(trying)
      BY <1>7, <2>1, <2>2 DEF Accept, Reports
  <2>4. /\ pc = "judge" /\ pc' \in {"overlay", "check"}
        /\ UNCHANGED <<call, input, forced, answer>>
      BY <1>7 DEF Accept
  <2> QED
      BY <2>1, <2>3, <2>4
<1>8. CASE Refuse
  <2>1. /\ trying \in {"dll", "exe"} /\ Fate = input.fate[trying]
        /\ Fate \notin Reports \/ (DllFirst /\ Fate = "fatal")
      BY <1>0, <1>8 DEF Refuse, Acceptable, Fate, Layouts
  <2>2. CASE trying = "dll"
    <3>1. ~ DllIsGood
      BY <2>1, <2>2 DEF Reports
    <3> QED
      BY <1>8, <2>2, <3>1 DEF Refuse
  <2>3. CASE trying = "exe"
    <3>1. Exhausted
      BY <1>8, <2>1, <2>3 DEF Refuse
    <3> QED
      BY <1>8, <2>3, <3>1 DEF Refuse, Answer
  <2> QED
      BY <2>1, <2>2, <2>3
<1>9. CASE Overlay
  <2>1. image'.layout = image.layout
      BY <1>0, <1>9 DEF Overlay, ImageType
  <2> QED
      BY <1>9, <2>1 DEF Overlay
<1>10. CASE RestoreManaged
      BY <1>10 DEF RestoreManaged, Answer, NoImage
<1>11. CASE Check
      BY <1>0, <1>11 DEF Check, Answer
<1>12. CASE Write
      BY <1>0, <1>12 DEF Write, Answer
<1>13. CASE Done
      BY <1>13 DEF Done, vars
<1> QED
      BY <1>1, <1>2, <1>3, <1>4, <1>5, <1>6, <1>7, <1>8, <1>9, <1>10, <1>11, <1>12, <1>13
         DEF Next

-----------------------------------------------------------------------------
(* Every step keeps the captures apart *)

LEMMA CaptureInit == ASSUME Init PROVE CaptureStory
BY DEF Init, CaptureStory, Layouts

LEMMA CaptureKept == ASSUME TypeOK, RouteStory, CaptureStory, Next PROVE CaptureStory'
<1>0. /\ pc \in {"enter", "run", "judge"} => trying \in Layouts
      /\ place \in [Layouts -> Layouts \cup {"none"}]
      /\ errors \in [Layouts -> {"none", "error", "panic", "invalid"}]
      /\ captured \in [Layouts \cup {"call", "none"} -> Layouts \cup {"none"}]
      BY DEF TypeOK
<1> USE DEF CaptureStory, Outer
<1>1. CASE ReadInput \/ Prepare \/ Overlay \/ RestoreManaged \/ Check \/ Write
      BY <1>1 DEF ReadInput, Prepare, Overlay, RestoreManaged, Check, Write, Answer
<1>2. CASE Route
      BY <1>2 DEF Route, Answer
<1>3. CASE Enter
      BY <1>3 DEF Enter
<1>4. CASE Run
  <2>1. capture = trying /\ trying \in Layouts
      BY <1>0, <1>4 DEF Run
  <2>2. Fate = "panic" => captured' = [captured EXCEPT ![trying] = trying]
      BY <1>0, <1>4, <2>1 DEF Run, Hook
  <2>3. \A l \in Layouts : captured'[l] \in {"none", l}
      BY <1>0, <1>4, <2>1, <2>2 DEF Run
  <2>4. Fate = "panic" => captured'[trying] = trying
      BY <1>0, <2>1, <2>2
  <2>5. Fate = "panic" => place' = [place EXCEPT ![trying] = trying]
      BY <1>4, <2>1, <2>4 DEF Run
  <2>6. \A l \in Layouts : errors[l] = "panic" => place'[l] = l
      BY <1>0, <1>4, <2>1, <2>5 DEF Run
  <2>7. Fate' = Fate
      BY <1>4 DEF Run, Fate
  <2> QED
      BY <1>0, <1>4, <2>1, <2>3, <2>5, <2>6, <2>7 DEF Run
<1>5. CASE Trap
      BY <1>5 DEF Trap, Answer
<1>6. CASE Accept
      BY <1>6 DEF Accept
<1>7. CASE Refuse
  <2>1. /\ pc = "judge" /\ trying \in Layouts /\ errors' = [errors EXCEPT ![trying] = Reason]
        /\ pc' \in {"enter", "done"} /\ UNCHANGED <<call, place, capture, captured>>
      BY <1>0, <1>7 DEF Refuse, Answer
  <2>2. Reason = "panic" => place[trying] = trying
      BY <2>1 DEF Reason
  <2>3. \A l \in Layouts : errors'[l] = "panic" => place[l] = l
      BY <1>0, <2>1, <2>2
  <2> QED
      BY <2>1, <2>3
<1>8. CASE Done
      BY <1>8 DEF Done, vars, Fate
<1> QED
      BY <1>1, <1>2, <1>3, <1>4, <1>5, <1>6, <1>7, <1>8 DEF Next

-----------------------------------------------------------------------------
(* Every step keeps the verdict *)

LEMMA VerdictKept ==
  ASSUME TypeOK, RouteStory, VerdictStory, Next PROVE VerdictStory'
<1> USE DEF VerdictStory
<1>0. profile \in ProfileType
      BY DEF TypeOK
<1>1. CASE Check
  <2>1. ReportOf(image)' = ReportOf(image)
      BY <1>1 DEF Check, ReportOf
  <2>2. call # "file" => /\ profile'.validation = ReportOf(image)
                         /\ profile'.unresolved = (ReportOf(image) = "fatal")
      BY <1>0, <1>1 DEF Check, Report, Checked, ProfileType
  <2> QED
      BY <1>1, <2>1, <2>2 DEF Check
<1>2. CASE Write
      BY <1>2 DEF Write, Answer, ReportOf
<1>3. CASE Done
      BY <1>3 DEF Done, vars, ReportOf
<1>4. CASE ReadInput \/ Prepare \/ Route \/ Enter \/ Run \/ Trap \/ Accept \/ Refuse
           \/ Overlay \/ RestoreManaged
  <2>1. pc' # "write" /\ answer' \notin {"ok", "write"}
      BY <1>4 DEF RouteStory, ReadInput, Prepare, Route, Enter, Run, Trap, Accept, Refuse, Overlay,
                  RestoreManaged, Answer
  <2> QED
      BY <2>1
<1> QED
      BY <1>1, <1>2, <1>3, <1>4 DEF Next

-----------------------------------------------------------------------------
(* The theorems *)

LEMMA StutterKeeps == ASSUME IInv, UNCHANGED vars PROVE IInv'
BY DEF IInv, TypeOK, RouteStory, Deserved, Exhausted, DllGated, DllIsGood, DllFirst, Spliced,
       CaptureStory, Outer, Fate, VerdictStory, ReportOf, vars

LEMMA InductiveInvariant == Spec => []IInv
<1>1. Init => IInv
  <2>1. Init => VerdictStory
      BY DEF Init, VerdictStory
  <2> QED
      BY <2>1, TypeInit, RouteInit, CaptureInit DEF IInv
<1>2. ASSUME IInv, [Next]_vars PROVE IInv'
      BY <1>2, StutterKeeps, TypeKept, RouteKept, CaptureKept, VerdictKept DEF IInv
<1> QED
      BY <1>1, <1>2, PTL DEF Spec

\* Every variable of the routing stays in its type, for every set of inputs.
THEOREM Typed == Spec => []TypeOK
<1>1. IInv => TypeOK
      BY DEF IInv
<1> QED
      BY <1>1, InductiveInvariant, PTL

\* Whatever the callers and inputs, an answered call has the layout that
\* select_dll_layout promises for the bytes, save a page's ungated second job.
THEOREM RoutesAsPromised == Spec => []RouteIsAsPromised
<1>1. ASSUME IInv PROVE RouteIsAsPromised
  <2> USE DEF DllGated, DllIsGood, Deserved, Exhausted, PromisedLayout
  <2>0. TypeOK /\ RouteStory /\ image.layout \in Layouts \cup {"none"}
      BY <1>1 DEF IInv, TypeOK, ImageType
  <2> SUFFICES ASSUME ~ (forced /\ input.fate["exe"] = "fatal") PROVE AsPromised
      BY DEF RouteIsAsPromised
  <2>1. ASSUME answer \in {"ok", "write"} PROVE image.layout = PromisedLayout
    <3>1. image.layout \in {"dll", "exe"} /\ Deserved(image.layout)
      BY <2>0, <2>1 DEF RouteStory, Layouts
    <3>2. CASE image.layout = "dll"
      BY <3>1, <3>2 DEF Reports
    <3>3. CASE image.layout = "exe"
      BY <3>1, <3>3 DEF Reports
    <3> QED
      BY <3>1, <3>2, <3>3
  <2>2. ASSUME answer \in {"failed", "trap"} PROVE PromisedLayout = "none"
    <3>1. Exhausted
      BY <2>0, <2>2 DEF RouteStory
    <3> QED
      BY <3>1 DEF Reports
  <2> QED
      BY <2>1, <2>2 DEF AsPromised
<1> QED
      BY <1>1, InductiveInvariant, PTL

\* Whatever panics, a refused layout carries its own panic, and the capture of
\* the enclosing call is back as soon as the attempt is over.
THEOREM PanicsKeepTheirPlace == Spec => []PanicKeepsItsPlace
<1>1. IInv => PanicKeepsItsPlace
      BY DEF IInv, CaptureStory, PanicKeepsItsPlace
<1> QED
      BY <1>1, InductiveInvariant, PTL

\* The profile of an image is the check of that image, overlays included.
THEOREM ValidatesWhatIsReturned == Spec => []ValidationIsOfTheReturned
<1>1. IInv => ValidationIsOfTheReturned
      BY DEF IInv, VerdictStory, ValidationIsOfTheReturned
<1> QED
      BY <1>1, InductiveInvariant, PTL

-----------------------------------------------------------------------------
(* The story of the profile *)

\* What is told of each route.
Tale == [l \in Layouts |-> Told(l)]

\* The routes that came to an end.
Ended ==
  {l \in Layouts : errors[l] # "none" \/ image.layout = l \/ (answer = "managed" /\ l = "exe")}

Verdicts == {"accepted", "rejected", "failed"}

\* The trace has a verdict for each of them, in the order they ran.
TraceStory ==
  call = "report" =>
    \/ trace = <<>> /\ Ended = {}
    \/ \E l \in Layouts, v \in Verdicts :
         /\ trace = <<<<l, v>>>> /\ (v = "accepted" <=> errors[l] = "none")
         /\ Ended = {l}
    \/ \E v, w \in Verdicts :
         /\ trace = <<<<"dll", v>>, <<"exe", w>>>>
         /\ v = "accepted" <=> errors["dll"] = "none"
         /\ w = "accepted" <=> errors["exe"] = "none"
         /\ Ended = Layouts

\* A profile under way says of each route what the finished one will.
ProfileStory ==
  /\ pc \in {"read", "prepare", "route"} =>
       /\ errors = [l \in Layouts |-> "none"] /\ image = NoImage
       /\ trace = <<>> /\ profile = Blank
  /\ pc \in {"enter", "run", "judge"} =>
       /\ image = NoImage /\ errors[trying] = "none"
       /\ trying = "dll" => errors["exe"] = "none"
  /\ pc \in {"overlay", "managed"} => image.layout = "exe"
  /\ image.layout # "none" => errors[image.layout] = "none"
  /\ answer = "managed" => errors["exe"] = "none"
  /\ answer # "none" => pc = "done"
  /\ call # "file" /\ answer # "trap" =>
       /\ \A l \in Layouts : profile.outcome[l] \in Tale[l]
       /\ image.layout # "none" => profile.selected = image.layout
       /\ profile.recovery = "succeeded" <=> image.layout # "none"
       /\ answer # "none" /\ image.layout = "none" => profile.unresolved
  /\ answer # "trap" => TraceStory

-----------------------------------------------------------------------------
(* Every step keeps the story of the profile *)

LEMMA ProfileInit == ASSUME Init PROVE ProfileStory
<1>1. /\ errors = [l \in Layouts |-> "none"] /\ image.layout = "none" /\ answer = "none"
      /\ pc = "read" /\ trace = <<>> /\ profile = Blank /\ image = NoImage
      BY DEF Init, NoImage
<1>2. \A l \in Layouts : profile.outcome[l] = "absent" /\ "absent" \in Tale[l]
      BY <1>1 DEF Blank, Tale, Told, Layouts
<1>3. profile.recovery # "succeeded"
      BY <1>1 DEF Blank
<1>4. TraceStory
      BY <1>1 DEF TraceStory, Ended, Layouts
<1> QED
      BY <1>1, <1>2, <1>3, <1>4 DEF ProfileStory

\* What a splice adds does not change the story.
LEMMA MarkKeepsStory ==
  ASSUME NEW p \in ProfileType
  PROVE  /\ MarkSpliced(p).selected = p.selected /\ MarkSpliced(p).recovery = p.recovery
         /\ MarkSpliced(p).unresolved = p.unresolved
         /\ \A l \in Layouts : \A T : {"absent", "not_attempted"} \subseteq T \/ "absent" \notin T =>
              (p.outcome[l] \in T => MarkSpliced(p).outcome[l] \in T)
BY DEF MarkSpliced, ProfileType, Layouts

\* Nothing told of a route depends on whether it was planned.
LEMMA ToldIsClosed ==
  ASSUME NEW l \in Layouts
  PROVE  {"absent", "not_attempted"} \subseteq Tale[l] \/ "absent" \notin Tale[l]
BY DEF Tale, Told

\* The trace and what is told of the routes depend on these alone.
LEMMA StoryFrame ==
  ASSUME UNCHANGED <<call, errors, trace>>, image'.layout = image.layout,
         answer' # "managed", answer # "managed"
  PROVE  /\ TraceStory => TraceStory'
         /\ \A l \in Layouts : Tale'[l] = Tale[l]
BY DEF TraceStory, Ended, Tale, Told

LEMMA BlankStory ==
  ASSUME NEW l \in Layouts, NEW kind, NEW exeOnly, errors = [k \in Layouts |-> "none"],
         image = NoImage, answer # "managed"
  PROVE  Planned(kind, exeOnly)[l] \in Tale[l] /\ Blank.outcome[l] \in Tale[l]
BY DEF Planned, Blank, Tale, Told, NoImage, Layouts

LEMMA InspectedFields ==
  ASSUME NEW exeOnly
  PROVE  /\ Inspected(exeOnly).outcome = Planned(input.kind, exeOnly)
         /\ Inspected(exeOnly).recovery = "not_attempted"
         /\ LET p == [Inspected(exeOnly) EXCEPT !.recovery = "blocked", !.unresolved = TRUE]
            IN  /\ p.outcome = Planned(input.kind, exeOnly)
                /\ p.recovery = "blocked" /\ p.unresolved
BY DEF Inspected, Blank

\* Until a route is entered there is nothing to tell.
LEMMA EarlyKept ==
  ASSUME TypeOK, RouteStory, ProfileStory, ReadInput \/ Prepare \/ Route PROVE ProfileStory'
<1>1. /\ pc \in {"read", "prepare", "route"} /\ errors = [l \in Layouts |-> "none"]
      /\ image = NoImage /\ trace = <<>> /\ profile = Blank /\ answer = "none"
      /\ UNCHANGED <<call, input, errors, image, trace>>
      /\ answer' \in {"none", "unreadable", "companion", "not_crackproof"}
      BY DEF ProfileStory, RouteStory, ReadInput, Prepare, Route, Answer
<1>2. image.layout = "none" /\ image'.layout = image.layout
      BY <1>1 DEF NoImage
<1>3. /\ \A l \in Layouts : Tale'[l] = Tale[l]
      /\ TraceStory'
      BY <1>1, <1>2, StoryFrame DEF ProfileStory
<1>4. ASSUME call # "file"
      PROVE  /\ \A l \in Layouts : profile'.outcome[l] \in Tale[l]
             /\ profile'.recovery # "succeeded"
             /\ answer' # "none" => profile'.unresolved
  <2>0. /\ \A l \in Layouts, exeOnly \in BOOLEAN : Planned(input.kind, exeOnly)[l] \in Tale[l]
        /\ \A l \in Layouts : Blank.outcome[l] \in Tale[l]
        /\ Blank.recovery # "succeeded"
    <3>1. Blank.recovery # "succeeded"
      BY DEF Blank
    <3>2. answer # "managed"
      BY <1>1
    <3> QED
      BY <1>1, <3>1, <3>2, BlankStory
  <2>1. CASE ReadInput
    <3>1. CASE input.companion = "unreadable"
      <4>1. profile' = [Inspected(FALSE) EXCEPT !.recovery = "blocked", !.unresolved = TRUE]
        BY <1>4, <2>1, <3>1 DEF ReadInput, Report
      <4>2. /\ profile'.outcome = Planned(input.kind, FALSE)
            /\ profile'.recovery = "blocked" /\ profile'.unresolved
        BY <4>1, InspectedFields
      <4> QED
        BY <2>0, <4>2
    <3>2. CASE input.companion # "unreadable"
      <4>1. profile' = Blank /\ answer' = "none"
        BY <1>1, <2>1, <3>2 DEF ReadInput
      <4> QED
        BY <2>0, <4>1
    <3> QED
      BY <3>1, <3>2
  <2>2. CASE Prepare
    <3>1. CASE input.declares /\ ~ Spliced
      <4>1. profile' = [Inspected(TRUE) EXCEPT !.recovery = "blocked", !.unresolved = TRUE]
        BY <1>4, <2>2, <3>1 DEF Prepare, Report
      <4>2. /\ profile'.outcome = Planned(input.kind, TRUE)
            /\ profile'.recovery = "blocked" /\ profile'.unresolved
        BY <4>1, InspectedFields
      <4> QED
        BY <2>0, <4>2
    <3>2. CASE ~ (input.declares /\ ~ Spliced)
      <4>1. profile' = Blank /\ answer' = "none"
        BY <1>1, <2>2, <3>2 DEF Prepare
      <4> QED
        BY <2>0, <4>1
    <3> QED
      BY <3>1, <3>2
  <2>3. CASE Route
    <3>1. CASE input.kind = "none"
      <4> DEFINE p == [Blank EXCEPT !.unresolved = TRUE]
      <4>1. p \in ProfileType /\ p.outcome = Blank.outcome /\ p.recovery = "not_attempted" /\ p.unresolved
        BY BlankTyped DEF ProfileType, Blank
      <4>2. profile' = MarkSpliced(p)
        BY <1>4, <2>3, <3>1 DEF Route, Report
      <4> HIDE DEF p
      <4>3. /\ MarkSpliced(p).recovery = "not_attempted" /\ MarkSpliced(p).unresolved
            /\ \A l \in Layouts : MarkSpliced(p).outcome[l] \in Tale[l]
        BY <2>0, <4>1, MarkKeepsStory, ToldIsClosed
      <4> QED
        BY <4>2, <4>3
    <3>2. CASE input.kind # "none"
      <4>1. profile' = Inspected(Spliced \/ forced) /\ answer' = "none"
        BY <1>1, <1>4, <2>3, <3>2 DEF Route, Report
      <4>2. (Spliced \/ forced) \in BOOLEAN
        BY DEF TypeOK
      <4> QED
        BY <2>0, <4>1, <4>2, InspectedFields
    <3> QED
      BY <3>1, <3>2
  <2> QED
      BY <2>1, <2>2, <2>3
<1>5. /\ pc' \in {"prepare", "route", "enter", "done"}
      /\ pc' \in {"prepare", "route"} => profile' = Blank
      /\ pc' = "enter" => trying' \in {"dll", "exe"}
      /\ answer' # "none" => pc' = "done"
      BY <1>1 DEF ReadInput, Prepare, Route, Answer
<1>6. pc' \in {"enter", "run", "judge"} => /\ errors'[trying'] = "none"
                                           /\ trying' = "dll" => errors'["exe"] = "none"
      BY <1>1, <1>5 DEF Layouts
<1> QED
      BY <1>1, <1>2, <1>3, <1>4, <1>5, <1>6 DEF ProfileStory

\* Entering and running a layout adds nothing to it yet.
LEMMA RunningKept ==
  ASSUME TypeOK, RouteStory, ProfileStory, Enter \/ Run PROVE ProfileStory'
<1>1. /\ pc \in {"enter", "run"} /\ pc' \in {"run", "judge"}
      /\ UNCHANGED <<call, input, trying, errors, image, trace, answer, profile>>
      BY DEF Enter, Run
<1>2. answer = "none"
      BY <1>1 DEF RouteStory
<1>3. (TraceStory => TraceStory') /\ \A l \in Layouts : Tale'[l] = Tale[l]
      BY <1>1, <1>2, StoryFrame
<1> QED
      BY <1>1, <1>2, <1>3 DEF ProfileStory

\* A trap leaves nothing, or the second job starts from nothing.
LEMMA TrapKept ==
  ASSUME TypeOK, RouteStory, ProfileStory, Trap PROVE ProfileStory'
<1>1. /\ pc = "run" /\ call = "page" /\ call' = call /\ image' = image /\ answer = "none"
      /\ errors' = [l \in Layouts |-> "none"] /\ profile' = Blank /\ trace' = <<>>
      /\ \/ pc' = "prepare" /\ answer' = answer
         \/ pc' = "done" /\ answer' = "trap"
      BY DEF Trap, RouteStory, Answer
<1>2. image = NoImage /\ image.layout = "none"
      BY <1>1 DEF ProfileStory, NoImage
<1>3. \A l \in Layouts : Tale'[l] = {"absent", "not_attempted"} /\ Blank.outcome[l] = "absent"
      BY <1>1, <1>2 DEF Tale, Told, Blank, Layouts
<1>4. Blank.recovery # "succeeded"
      BY DEF Blank
<1>5. TraceStory'
      BY <1>1 DEF TraceStory
<1> QED
      BY <1>1, <1>2, <1>3, <1>4, <1>5 DEF ProfileStory

LEMMA AppendOne == ASSUME NEW x, NEW y PROVE Append(<<x>>, y) = <<x, y>>
<1>1. ASSUME NEW S, NEW s \in Seq(S), NEW z \in S, Len(s) = 1
      PROVE  /\ Append(s, z) \in Seq(S) /\ Len(Append(s, z)) = 2
             /\ Append(s, z)[1] = s[1] /\ Append(s, z)[2] = z
  <2>1. 1 \in 1..Len(s) /\ 2 = Len(s) + 1
      BY <1>1
  <2>2. Append(s, z) \in Seq(S) /\ Len(Append(s, z)) = Len(s) + 1
      OBVIOUS
  <2>3. Append(s, z)[1] = s[1]
      BY <2>1
  <2>4. Append(s, z)[Len(s) + 1] = z
      OBVIOUS
  <2> QED
      BY <1>1, <2>1, <2>2, <2>3, <2>4
<1> DEFINE S == {x, y}
           s == <<x>>
<1>2. s \in Seq(S) /\ Len(s) = 1 /\ s[1] = x /\ y \in S
      OBVIOUS
<1>3. <<x, y>> \in Seq(S) /\ Len(<<x, y>>) = 2 /\ (<<x, y>>)[1] = x /\ (<<x, y>>)[2] = y
      OBVIOUS
<1> HIDE DEF s, S
<1>4. /\ Append(s, y) \in Seq(S) /\ Len(Append(s, y)) = 2
      /\ Append(s, y)[1] = x /\ Append(s, y)[2] = y
      BY <1>1, <1>2
<1>5. ASSUME NEW t \in Seq(S), NEW u \in Seq(S), Len(t) = 2, Len(u) = 2, t[1] = u[1], t[2] = u[2]
      PROVE  t = u
      BY <1>5
<1>6. Append(s, y) = <<x, y>>
      BY <1>3, <1>4, <1>5
<1> QED
      BY <1>6 DEF s

\* One more verdict in the trace, for the layout that was tried.
LEMMA TraceGrows ==
  ASSUME TypeOK, trying \in Layouts, TraceStory, NEW v \in Verdicts, Emit(v), call' = call,
         \A l \in Layouts : l # trying => errors'[l] = errors[l],
         trying \notin Ended, Ended' = Ended \cup {trying},
         v = "accepted" <=> errors'[trying] = "none",
         trying = "dll" => "exe" \notin Ended
  PROVE  TraceStory'
<1> SUFFICES ASSUME call = "report" PROVE TraceStory'
      BY DEF TraceStory
<1>1. trace' = Append(trace, <<trying, v>>)
      BY DEF Emit
<1>2. CASE trace = <<>> /\ Ended = {}
  <2>1. trace' = <<<<trying, v>>>>
      BY <1>1, <1>2
  <2>2. Ended' = {trying}
      BY <1>2
  <2> QED
      BY <2>1, <2>2 DEF TraceStory
<1>3. ASSUME NEW l \in Layouts, NEW u \in Verdicts,
             trace = <<<<l, u>>>>, u = "accepted" <=> errors[l] = "none", Ended = {l}
      PROVE  TraceStory'
  <2>1. l # trying /\ l = "dll" /\ trying = "exe"
      BY <1>3 DEF Layouts
  <2>2. trace' = <<<<"dll", u>>, <<"exe", v>>>>
    <3> DEFINE x == <<"dll", u>>
               y == <<"exe", v>>
    <3>1. trace = <<x>> /\ trace' = Append(trace, y)
      BY <1>1, <1>3, <2>1
    <3> HIDE DEF x, y
    <3>2. Append(<<x>>, y) = <<x, y>>
      BY AppendOne
    <3>3. trace' = <<x, y>>
      BY <3>1, <3>2
    <3> QED
      BY <3>3 DEF x, y
  <2>3. u = "accepted" <=> errors'["dll"] = "none"
      BY <1>3, <2>1 DEF Layouts
  <2>4. v = "accepted" <=> errors'["exe"] = "none"
      BY <2>1
  <2>5. Ended' = Layouts
      BY <1>3, <2>1 DEF Layouts
  <2> QED
      BY <2>2, <2>3, <2>4, <2>5 DEF TraceStory
<1>4. Ended # Layouts
      OBVIOUS
<1> QED
      BY <1>2, <1>3, <1>4 DEF TraceStory

LEMMA AcceptedTyped ==
  ASSUME TypeOK, trying \in Layouts, Acceptable PROVE RecordAccepted(profile) \in ProfileType
<1>1. profile \in ProfileType /\ Fate \in Reports
      BY DEF TypeOK, Acceptable
<1>2. [profile EXCEPT !.outcome[trying] = "succeeded"] \in ProfileType
      BY <1>1, OutcomeUpdate DEF Outcomes
<1> QED
      BY <1>1, <1>2 DEF RecordAccepted, ProfileType

LEMMA RefusedTyped ==
  ASSUME TypeOK, trying \in Layouts
  PROVE  /\ RecordRefused(profile) \in ProfileType
         /\ GiveUp(RecordRefused(profile)) \in ProfileType
<1>1. RecordRefused(profile) \in ProfileType
      BY OutcomeUpdate DEF RecordRefused, TypeOK, Outcomes
<1> QED
      BY <1>1, EndUpdate DEF GiveUp

LEMMA AcceptedFields ==
  ASSUME TypeOK, trying \in Layouts
  PROVE  LET p == RecordAccepted(profile)
         IN  /\ p.outcome = [profile.outcome EXCEPT ![trying] = "succeeded"]
             /\ p.selected = trying /\ p.recovery = "succeeded"
BY DEF RecordAccepted, TypeOK, ProfileType

\* An accepted image is told of as such, by profile and trace.
LEMMA AcceptKept ==
  ASSUME TypeOK, RouteStory, ProfileStory, Accept PROVE ProfileStory'
<1>1. /\ pc = "judge" /\ trying \in Layouts /\ answer = "none" /\ image = NoImage
      /\ errors[trying] = "none" /\ (trying = "dll" => errors["exe"] = "none")
      /\ TraceStory /\ (call # "file" => \A l \in Layouts : profile.outcome[l] \in Tale[l])
      /\ trying = "dll" => ~ Spliced
      BY DEF ProfileStory, RouteStory, TypeOK, Accept, DllFirst
<1>2. /\ UNCHANGED <<call, input, errors, trying, answer>> /\ image'.layout = trying
      /\ pc' \in {"overlay", "check"} /\ (pc' = "overlay" => Spliced) /\ Emit("accepted")
      BY DEF Accept, NoImage
<1>3. trying \notin Ended /\ (trying = "dll" => "exe" \notin Ended)
      BY <1>1 DEF Ended, NoImage, Layouts
<1>4. Ended' = Ended \cup {trying}
      BY <1>1, <1>2 DEF Ended, NoImage, Layouts
<1>5. TraceStory'
  <2>1. "accepted" \in Verdicts /\ \A l \in Layouts : l # trying => errors'[l] = errors[l]
      BY <1>2 DEF Verdicts
  <2>2. "accepted" = "accepted" <=> errors'[trying] = "none"
      BY <1>1, <1>2
  <2> QED
      BY <1>1, <1>2, <1>3, <1>4, <2>1, <2>2, TraceGrows
<1>6. Tale'[trying] = {"succeeded"} /\ \A l \in Layouts : l # trying => Tale'[l] = Tale[l]
      BY <1>1, <1>2 DEF Tale, Told, NoImage
<1>7. ASSUME call # "file"
      PROVE  /\ \A l \in Layouts : profile'.outcome[l] \in Tale'[l]
             /\ profile'.selected = trying /\ profile'.recovery = "succeeded"
  <2> DEFINE p == RecordAccepted(profile)
  <2>1. profile' = MarkSpliced(p)
      BY <1>7 DEF Accept, Report
  <2>2. /\ p.outcome = [profile.outcome EXCEPT ![trying] = "succeeded"]
        /\ p.selected = trying /\ p.recovery = "succeeded" /\ p \in ProfileType
      BY <1>1, AcceptedFields, AcceptedTyped DEF Accept
  <2> HIDE DEF p
  <2>3. profile.outcome \in [Layouts -> Outcomes]
      BY DEF TypeOK, ProfileType
  <2>4. \A l \in Layouts : p.outcome[l] \in Tale'[l]
      BY <1>1, <1>6, <1>7, <2>2, <2>3
  <2>5. \A l \in Layouts : {"absent", "not_attempted"} \subseteq Tale'[l] \/ "absent" \notin Tale'[l]
      BY <1>6, ToldIsClosed
  <2>6. \A l \in Layouts : MarkSpliced(p).outcome[l] \in Tale'[l]
      BY <2>2, <2>4, <2>5, MarkKeepsStory
  <2> QED
      BY <2>1, <2>2, <2>6, MarkKeepsStory
<1>8. trying = "exe" \/ ~ Spliced
      BY <1>1 DEF Layouts
<1>9. trying # "none"
      BY <1>1 DEF Layouts
<1> QED
      BY <1>1, <1>2, <1>5, <1>7, <1>8, <1>9 DEF ProfileStory

LEMMA RefusedFields ==
  ASSUME TypeOK, trying \in Layouts
  PROVE  LET p == RecordRefused(profile)
             o == IF Fate = "fatal" THEN "rejected" ELSE "failed"
         IN  /\ p.outcome = [profile.outcome EXCEPT ![trying] = o]
             /\ p.recovery = profile.recovery
             /\ GiveUp(p).outcome = p.outcome /\ GiveUp(p).recovery = "failed"
             /\ GiveUp(p).unresolved
BY DEF RecordRefused, GiveUp, TypeOK, ProfileType

\* A refused layout is told of by its reason; the other one is still to be told of.
LEMMA RefuseKept ==
  ASSUME TypeOK, RouteStory, ProfileStory, Refuse PROVE ProfileStory'
<1>1. /\ pc = "judge" /\ trying \in Layouts /\ answer = "none" /\ image = NoImage
      /\ errors[trying] = "none" /\ (trying = "dll" => errors["exe"] = "none")
      /\ TraceStory
      /\ call # "file" => /\ \A l \in Layouts : profile.outcome[l] \in Tale[l]
                          /\ profile.recovery # "succeeded"
      BY DEF ProfileStory, RouteStory, TypeOK, Refuse, NoImage
<1>2. /\ UNCHANGED <<call, input, image>> /\ Emit(Refusal)
      /\ errors' = [errors EXCEPT ![trying] = Reason]
      /\ \/ trying = "dll" /\ trying' = "exe" /\ pc' = "enter" /\ answer' = "none"
         \/ trying = "exe" /\ pc' = "done" /\ answer' = "failed"
      BY <1>1 DEF Refuse, Answer, Layouts
<1>3. /\ Reason # "none" /\ Refusal \in Verdicts /\ Refusal # "accepted"
      /\ errors \in [Layouts -> {"none", "error", "panic", "invalid"}]
      /\ profile.outcome \in [Layouts -> Outcomes]
      BY DEF Reason, Refusal, Verdicts, TypeOK, ProfileType
<1>4. errors'[trying] = Reason /\ \A l \in Layouts : l # trying => errors'[l] = errors[l]
      BY <1>1, <1>2, <1>3
<1>5. TraceStory'
  <2>1. trying \notin Ended /\ (trying = "dll" => "exe" \notin Ended)
      BY <1>1 DEF Ended, NoImage, Layouts
  <2>2. Ended' = Ended \cup {trying}
      BY <1>1, <1>2, <1>3, <1>4 DEF Ended
  <2>3. Refusal = "accepted" <=> errors'[trying] = "none"
      BY <1>3, <1>4
  <2> QED
      BY <1>1, <1>2, <1>3, <1>4, <2>1, <2>2, <2>3, TraceGrows
<1> DEFINE o == IF Fate = "fatal" THEN "rejected" ELSE "failed"
<1>6. Tale'[trying] = {o}
  <2>1. Fate \in Fates /\ (Fate \notin Reports \/ Fate = "fatal")
      BY <1>1, InputTyped DEF Refuse, Acceptable, Fate
  <2>2. Fate = "fatal" <=> Reason = "invalid"
      BY <2>1 DEF Fates, Reports, Reason
  <2>3. Reason = "invalid" \/ Reason \in {"error", "panic"}
      BY DEF Reason
  <2> QED
      BY <1>1, <1>2, <1>4, <2>2, <2>3 DEF Tale, Told, NoImage, Layouts
<1>7. \A l \in Layouts : l # trying => Tale'[l] = Tale[l]
      BY <1>1, <1>2, <1>4 DEF Tale, Told
<1>8. \A l \in Layouts : {"absent", "not_attempted"} \subseteq Tale'[l] \/ "absent" \notin Tale'[l]
      BY <1>6, <1>7, ToldIsClosed
<1>9. ASSUME call # "file"
      PROVE  /\ \A l \in Layouts : profile'.outcome[l] \in Tale'[l]
             /\ profile'.recovery # "succeeded" /\ (answer' # "none" => profile'.unresolved)
  <2> DEFINE p == RecordRefused(profile)
             q == GiveUp(p)
  <2>1. /\ p.outcome = [profile.outcome EXCEPT ![trying] = o]
        /\ p.recovery = profile.recovery
        /\ q.outcome = p.outcome /\ q.recovery = "failed" /\ q.unresolved
      BY <1>1, RefusedFields
  <2>2. q \in ProfileType
      BY <1>1, RefusedTyped
  <2>3. IF trying = "dll" THEN profile' = p ELSE profile' = MarkSpliced(q)
      BY <1>9 DEF Refuse, Report
  <2> HIDE DEF p, q, o
  <2>4. \A l \in Layouts : p.outcome[l] \in Tale'[l]
      BY <1>1, <1>3, <1>6, <1>7, <1>9, <2>1
  <2>5. /\ \A l \in Layouts : MarkSpliced(q).outcome[l] \in Tale'[l]
        /\ MarkSpliced(q).recovery = "failed" /\ MarkSpliced(q).unresolved
      BY <1>8, <2>1, <2>2, <2>4, MarkKeepsStory
  <2> QED
      BY <1>1, <1>2, <1>9, <2>1, <2>3, <2>4, <2>5
<1>10. image'.layout = "none"
      BY <1>1, <1>2 DEF NoImage
<1>11. errors'["exe"] = "none" \/ trying = "exe"
      BY <1>1, <1>2, <1>4 DEF Layouts
<1> QED
      BY <1>1, <1>2, <1>5, <1>9, <1>10, <1>11 DEF ProfileStory

LEMMA OverlayKept ==
  ASSUME TypeOK, RouteStory, ProfileStory, Overlay PROVE ProfileStory'
<1>1. /\ pc = "overlay" /\ pc' = "managed" /\ answer = "none"
      /\ UNCHANGED <<call, input, errors, trace, answer, profile>>
      /\ image'.layout = image.layout /\ image.layout = "exe"
      BY DEF Overlay, RouteStory, ProfileStory, TypeOK, ImageType
<1>2. (TraceStory => TraceStory') /\ \A l \in Layouts : Tale'[l] = Tale[l]
      BY <1>1, StoryFrame
<1> QED
      BY <1>1, <1>2 DEF ProfileStory

LEMMA FailedFields ==
  ASSUME TypeOK
  PROVE  /\ FailOverlay(profile).outcome = profile.outcome
         /\ FailOverlay(profile).recovery = "failed" /\ FailOverlay(profile).unresolved
BY DEF FailOverlay, TypeOK, ProfileType

\* An image that is dropped for its managed regions was still accepted.
LEMMA ManagedKept ==
  ASSUME TypeOK, RouteStory, ProfileStory, RestoreManaged PROVE ProfileStory'
<1>1. /\ pc = "managed" /\ answer = "none" /\ image.layout = "exe" /\ errors["exe"] = "none"
      /\ UNCHANGED <<call, input, errors, trace>> /\ TraceStory
      BY DEF RestoreManaged, RouteStory, ProfileStory
<1>2. CASE input.managed
  <2>1. pc' = "check" /\ UNCHANGED <<image, answer, profile>>
      BY <1>2 DEF RestoreManaged
  <2>2. (TraceStory => TraceStory') /\ \A l \in Layouts : Tale'[l] = Tale[l]
      BY <1>1, <2>1, StoryFrame
  <2> QED
      BY <1>1, <2>1, <2>2 DEF ProfileStory
<1>3. CASE ~ input.managed
  <2>1. pc' = "done" /\ answer' = "managed" /\ image'.layout = "none"
      BY <1>3 DEF RestoreManaged, Answer, NoImage
  <2>2. \A l \in Layouts : Tale'[l] = Tale[l]
      BY <1>1, <2>1 DEF Tale, Told, Layouts
  <2>3. Ended' = Ended
      BY <1>1, <2>1 DEF Ended, Layouts
  <2>4. TraceStory'
      BY <1>1, <2>3 DEF TraceStory
  <2>5. call # "file" => /\ profile'.outcome = profile.outcome
                         /\ profile'.recovery = "failed" /\ profile'.unresolved
      BY <1>3, FailedFields DEF RestoreManaged, Report
  <2>6. call # "file" => \A l \in Layouts : profile.outcome[l] \in Tale[l]
      BY <1>1 DEF ProfileStory
  <2> QED
      BY <1>1, <2>1, <2>2, <2>4, <2>5, <2>6 DEF ProfileStory
<1> QED
      BY <1>2, <1>3

LEMMA CheckedFields ==
  ASSUME TypeOK
  PROVE  /\ Checked(profile).outcome = profile.outcome
         /\ Checked(profile).selected = profile.selected
         /\ Checked(profile).recovery = profile.recovery
BY DEF Checked, TypeOK, ProfileType

\* The check and the write change nothing of what was told.
LEMMA EndKept ==
  ASSUME TypeOK, RouteStory, ProfileStory, Check \/ Write PROVE ProfileStory'
<1>1. /\ pc \in {"check", "write"} /\ answer = "none" /\ image.layout \in Layouts
      /\ pc' \in {"write", "done"} /\ (answer' # "none" => pc' = "done")
      /\ answer' \in {"none", "ok", "write"}
      /\ UNCHANGED <<call, input, errors, image, trace>>
      BY DEF Check, Write, Answer, RouteStory, TypeOK
<1>2. (TraceStory => TraceStory') /\ \A l \in Layouts : Tale'[l] = Tale[l]
      BY <1>1, StoryFrame
<1>3. call # "file" => /\ profile'.outcome = profile.outcome
                       /\ profile'.selected = profile.selected
                       /\ profile'.recovery = profile.recovery
      BY CheckedFields DEF Check, Write, Report
<1>4. image.layout # "none"
      BY <1>1 DEF Layouts
<1> QED
      BY <1>1, <1>2, <1>3, <1>4 DEF ProfileStory

LEMMA ProfileStutters == ASSUME ProfileStory, UNCHANGED vars PROVE ProfileStory'
BY DEF ProfileStory, TraceStory, Ended, Tale, Told, vars

LEMMA ProfileKept ==
  ASSUME TypeOK, RouteStory, ProfileStory, [Next]_vars PROVE ProfileStory'
BY EarlyKept, RunningKept, TrapKept, AcceptKept, RefuseKept, OverlayKept, ManagedKept, EndKept,
   ProfileStutters DEF Next, Done


\* What is told of a route says whether it ended, and how.
LEMMA ToldOfEnded ==
  ASSUME TypeOK, ProfileStory, NEW l \in Layouts, NEW o \in Tale[l]
  PROVE  /\ o \in {"absent", "not_attempted"} <=> l \notin Ended
         /\ l \in Ended => (o = "succeeded" <=> errors[l] = "none")
<1>1. errors[l] \in {"none", "error", "panic", "invalid"} /\ l # "none"
      BY DEF TypeOK, Layouts
<1>2. /\ image.layout = l => errors[l] = "none"
      /\ answer = "managed" => errors["exe"] = "none"
      BY <1>1 DEF ProfileStory
<1>3. CASE errors[l] # "none"
      BY <1>1, <1>2, <1>3 DEF Tale, Told, Ended
<1>4. CASE errors[l] = "none"
      BY <1>1, <1>2, <1>4 DEF Tale, Told, Ended
<1> QED
      BY <1>3, <1>4

LEMMA ProfileMatches ==
  ASSUME TypeOK, ProfileStory, TraceStory, call = "report",
         \A l \in Layouts : profile.outcome[l] \in Tale[l]
  PROVE  TraceMatchesProfile
<1>1. \A l \in Layouts : /\ profile.outcome[l] \in {"absent", "not_attempted"} <=> l \notin Ended
                         /\ l \in Ended => (profile.outcome[l] = "succeeded" <=> errors[l] = "none")
      BY ToldOfEnded
<1>2. CASE trace = <<>> /\ Ended = {}
      BY <1>1, <1>2 DEF TraceMatchesProfile
<1>3. ASSUME NEW l \in Layouts, NEW v \in Verdicts, trace = <<<<l, v>>>>,
             v = "accepted" <=> errors[l] = "none", Ended = {l}
      PROVE  TraceMatchesProfile
  <2>1. /\ DOMAIN trace = {1} /\ Len(trace) = 1 /\ trace[1][1] = l /\ trace[1][2] = v
      BY <1>3
  <2> QED
      BY <1>1, <1>3, <2>1 DEF TraceMatchesProfile
<1>4. ASSUME NEW v \in Verdicts, NEW w \in Verdicts,
             trace = <<<<"dll", v>>, <<"exe", w>>>>,
             v = "accepted" <=> errors["dll"] = "none",
             w = "accepted" <=> errors["exe"] = "none", Ended = Layouts
      PROVE  TraceMatchesProfile
  <2>1. /\ DOMAIN trace = {1, 2} /\ trace[1][1] = "dll" /\ trace[1][2] = v
        /\ trace[2][1] = "exe" /\ trace[2][2] = w
      BY <1>4
  <2> QED
      BY <1>1, <1>4, <2>1 DEF TraceMatchesProfile, Layouts
<1> QED
      BY <1>2, <1>3, <1>4 DEF TraceStory

\* Whatever the callers and inputs, the profile of an answer tells of each route
\* what became of it, and the research trace agrees with it.
THEOREM ProfilesTellTheStory == Spec => []ProfileTellsTheStory
<1>1. Init => ProfileStory
      BY ProfileInit
<1>2. IInv /\ ProfileStory /\ [Next]_vars => ProfileStory'
      BY ProfileKept DEF IInv
<1>3. ASSUME IInv, ProfileStory PROVE ProfileTellsTheStory
  <2> SUFFICES ASSUME answer \notin {"none", "trap"}, call # "file"
               PROVE  ProfileTellsTheStory
      BY DEF ProfileTellsTheStory
  <2>1. /\ \A l \in Layouts : profile.outcome[l] \in Tale[l] /\ Tale[l] = Told(l)
        /\ image.layout # "none" => profile.selected = image.layout
        /\ profile.recovery = "succeeded" <=> image.layout # "none"
        /\ image.layout = "none" => profile.unresolved
        /\ TraceStory
      BY <1>3 DEF ProfileStory, Tale
  <2>2. ASSUME call = "report" PROVE TraceMatchesProfile
      BY <1>3, <2>1, <2>2, ProfileMatches DEF IInv
  <2> QED
      BY <2>1, <2>2 DEF ProfileTellsTheStory
<1> QED
      BY <1>1, <1>2, <1>3, InductiveInvariant, PTL DEF Spec

-----------------------------------------------------------------------------
(* The pipelines: layers, and what lies under the blocks *)

\* Layers that are not there leave no trace.
LEMMA NoLayer ==
  ASSUME NEW x, NEW y
  PROVE  /\ <<>> \o <<>> = <<>> /\ <<x>> \o <<>> = <<x>> /\ <<>> \o <<x>> = <<x>>
         /\ <<x>> \o <<y>> = <<x, y>> /\ <<x, y>> \o <<>> = <<x, y>>
  <1>1. <<>> \in Seq({x, y}) /\ <<x>> \in Seq({x, y}) /\ <<x, y>> \in Seq({x, y})
    OBVIOUS
  <1>2. <<>> \o <<>> = <<>> /\ <<x>> \o <<>> = <<x>> /\ <<>> \o <<x>> = <<x>> /\ <<x, y>> \o <<>> = <<x, y>>
    BY <1>1, ConcatEmptySeq
  <1>3. <<x>> \o <<y>> = <<x, y>>
    <2> DEFINE both == <<x>> \o <<y>>
    <2>1. <<x>> \in Seq({x, y}) /\ <<y>> \in Seq({x, y}) /\ Len(<<x>>) = 1 /\ Len(<<y>>) = 1 /\ Len(<<x, y>>) = 2
      OBVIOUS
    <2>2. both \in Seq({x, y}) /\ Len(both) = 2 /\ both[1] = x /\ both[2] = y
      BY <2>1, ConcatProperties
    <2>3. \A i \in 1..Len(both) : both[i] = <<x, y>>[i]
      BY <2>2
    <2> QED BY <1>1, <2>1, <2>2, <2>3, SeqEqual
  <1> QED BY <1>2, <1>3

\* A layer that is the outermost one comes off.
LEMMA ComesOff ==
  ASSUME NEW x, NEW y
  PROVE  Remove(x, <<x>>) = <<>> /\ Remove(x, <<x, y>>) = <<y>>
  BY DEF Remove

\* Bytes of before the first candidate open for their key, and for no other.
LEMMA OpensForItsKey ==
  ASSUME NEW candidate \in Nat, NEW key \in Nat
  PROVE  (Open(candidate, <<key>>) = <<>>) <=> candidate = key
  BY DEF Open, Garbled

Encrypted == packed.page # "none" /\ packed.pages > 0

LEMMA PackedIs ==
  ASSUME packed \in Files
  PROVE  IsPacked(packed)
  BY FilesAssumption

\* What lies under the blocks, for the regions the loader uses.
LEMMA UnderIs ==
  ASSUME IsPacked(packed)
  PROVE  /\ Under("code") = IF Encrypted THEN <<packed.page>> ELSE <<>>
         /\ Under("table") = <<>>
         /\ Under("meta") = <<"meta">>
         /\ Under("fixups") = IF packed.tls = "none" THEN <<>> ELSE <<"disarmed">>
         /\ packed.tls \notin {"stub", "lost"} => Under("tls") = <<>>
         /\ packed.clr = "foreign" =>
              Under("clr") = IF "clr" \in packed.inText /\ Encrypted THEN <<packed.page>> ELSE <<>>
         /\ packed.clr = "blank" =>
              Under("clr") = IF "clr" \in packed.inText /\ Encrypted THEN <<packed.page, "lost">> ELSE <<"lost">>
         /\ \A n \in Names :
              Under(n) = IF n \in packed.inText /\ Encrypted THEN <<packed.page, "name">> ELSE <<"name">>
  <1> USE DEF IsPacked, Encrypted
  <1>1. Names \cap Areas = {}
    BY DEF Names
  <1>2. Lost \subseteq Areas /\ "code" \notin Lost /\ "table" \notin Lost /\ "meta" \notin Lost /\ "fixups" \notin Lost
        /\ (packed.tls \notin {"stub", "lost"} => "tls" \notin Lost)
        /\ (packed.clr = "foreign" => "clr" \notin Lost) /\ (packed.clr = "blank" => "clr" \in Lost)
    BY DEF Lost, Areas
  <1>3. ASSUME NEW r, r \notin Lost, r \notin Names, r # "meta", r # "fixups"
        PROVE  Under(r) = IF r \in packed.inText /\ Encrypted THEN <<packed.page>> ELSE <<>>
    <2>1. CASE r \in packed.inText /\ Encrypted
      <3>1. Under(r) = <<packed.page>> \o <<>> \o <<>> \o <<>> \o <<>>
        BY <1>3, <2>1 DEF Under
      <3> QED BY <3>1, <2>1, NoLayer
    <2>2. CASE ~ (r \in packed.inText /\ Encrypted)
      <3>1. Under(r) = <<>> \o <<>> \o <<>> \o <<>> \o <<>>
        BY <1>3, <2>2 DEF Under
      <3> QED BY <3>1, <2>2, NoLayer
    <2> QED BY <2>1, <2>2
  <1>4. Under("meta") = <<"meta">>
    <2>1. Under("meta") = <<>> \o <<>> \o <<>> \o <<"meta">> \o <<>>
      BY <1>1, <1>2 DEF Under, Areas
    <2> QED BY <2>1, NoLayer
  <1>5. Under("fixups") = IF packed.tls = "none" THEN <<>> ELSE <<"disarmed">>
    <2>1. "fixups" \notin Names /\ "fixups" \notin packed.inText
      BY <1>1 DEF Areas
    <2>2. CASE packed.tls = "none"
      <3>1. Under("fixups") = <<>> \o <<>> \o <<>> \o <<>> \o <<>>
        BY <1>2, <2>1, <2>2 DEF Under
      <3> QED BY <3>1, <2>2, NoLayer
    <2>3. CASE packed.tls # "none"
      <3>1. Under("fixups") = <<>> \o <<>> \o <<>> \o <<>> \o <<"disarmed">>
        BY <1>2, <2>1, <2>3 DEF Under
      <3> QED BY <3>1, <2>3, NoLayer
    <2> QED BY <2>2, <2>3
  <1>6. ASSUME NEW n \in Names
        PROVE  Under(n) = IF n \in packed.inText /\ Encrypted THEN <<packed.page, "name">> ELSE <<"name">>
    <2>1. n # "meta" /\ n # "fixups" /\ n \notin Lost
      BY <1>1, <1>2 DEF Areas
    <2>2. CASE n \in packed.inText /\ Encrypted
      <3>1. Under(n) = <<packed.page>> \o <<"name">> \o <<>> \o <<>> \o <<>>
        BY <2>1, <2>2 DEF Under
      <3> QED BY <3>1, <2>2, NoLayer
    <2>3. CASE ~ (n \in packed.inText /\ Encrypted)
      <3>1. Under(n) = <<>> \o <<"name">> \o <<>> \o <<>> \o <<>>
        BY <2>1, <2>3 DEF Under
      <3> QED BY <3>1, <2>3, NoLayer
    <2> QED BY <2>2, <2>3
  <1>7. "code" \notin Names /\ "table" \notin Names /\ "tls" \notin Names /\ "clr" \notin Names
    BY <1>1 DEF Areas
  <1>8. Under("code") = IF Encrypted THEN <<packed.page>> ELSE <<>>
    <2>1. "code" \in packed.inText
      OBVIOUS
    <2> QED BY <1>2, <1>3, <1>7, <2>1
  <1>9. Under("table") = <<>>
    BY <1>2, <1>3, <1>7
  <1>10. packed.tls \notin {"stub", "lost"} => Under("tls") = <<>>
    BY <1>2, <1>3, <1>7
  <1>11. packed.clr = "foreign" =>
              Under("clr") = IF "clr" \in packed.inText /\ Encrypted THEN <<packed.page>> ELSE <<>>
    BY <1>2, <1>3, <1>7
  <1>12. ASSUME packed.clr = "blank"
         PROVE  Under("clr") = IF "clr" \in packed.inText /\ Encrypted THEN <<packed.page, "lost">> ELSE <<"lost">>
    <2>1. CASE "clr" \in packed.inText /\ Encrypted
      <3>1. Under("clr") = <<packed.page>> \o <<>> \o <<"lost">> \o <<>> \o <<>>
        BY <1>2, <1>7, <1>12, <2>1 DEF Under
      <3> QED BY <3>1, <2>1, NoLayer
    <2>2. CASE ~ ("clr" \in packed.inText /\ Encrypted)
      <3>1. Under("clr") = <<>> \o <<>> \o <<"lost">> \o <<>> \o <<>>
        BY <1>2, <1>7, <1>12, <2>2 DEF Under
      <3> QED BY <3>1, <2>2, NoLayer
    <2> QED BY <2>1, <2>2
  <1> QED BY <1>4, <1>5, <1>6, <1>8, <1>9, <1>10, <1>11, <1>12

\* The layer the pass over the code section takes off.
Layer == Selected(Under("code"))

\* When the code shows what it is, the pass takes the page layer off every region of
\* the section that has one, and leaves a section without one alone.
LEMMA PagesComeOff ==
  ASSUME IsPacked(packed), packed.kind # "dll64", CodeShows
  PROVE  /\ Encrypted => Layer = packed.page
         /\ ~ Encrypted => Layer = "skip" \/ packed.pages = 0
  <1> USE DEF IsPacked
  <1>1. Under("code") = IF Encrypted THEN <<packed.page>> ELSE <<>>
    BY UnderIs
  <1>2. CASE Encrypted
    <2>1. Under("code") = <<packed.page>> /\ packed.page \in PageLayers /\ packed.pages \in Nat /\ packed.pages > 0
      BY <1>1, <1>2 DEF Encrypted
    <2>2. Under("code") # <<>> /\ Head(Under("code")) = packed.page
      BY <2>1
    <2>3. packed.pages > 1 => packed.padding >= MinPadding \/ (packed.oracle /\ packed.kind = "exe64")
      BY <1>2 DEF CodeShows, Encrypted, MinPadding
    <2>4. packed.pages = 1 => packed.page = "page0" \/ (packed.oracle /\ packed.kind = "exe64")
      BY <1>2 DEF CodeShows, Encrypted
    <2>5. packed.page # "skip"
      BY <2>1 DEF PageLayers
    <2>6. Layer = packed.page
      <3>1. CASE packed.pages < 2 /\ ~ (packed.oracle /\ packed.kind = "exe64")
        BY <3>1, <2>1, <2>4 DEF Layer, Selected
      <3>2. CASE ~ (packed.pages < 2 /\ ~ (packed.oracle /\ packed.kind = "exe64"))
        <4>1. packed.padding >= MinPadding \/ (packed.oracle /\ packed.kind = "exe64")
          BY <3>2, <2>1, <2>3
        <4> QED BY <3>2, <4>1, <2>1, <2>2 DEF Layer, Selected
      <3> QED BY <3>1, <3>2
    <2> QED BY <2>6, <1>2
  <1>3. CASE ~ Encrypted
    <2>1. Under("code") = <<>> /\ packed.pages \in Nat
      BY <1>1, <1>3
    <2>2. packed.pages = 1 /\ packed.page = "none" => packed.oracle /\ packed.kind = "exe64"
      BY DEF CodeShows
    <2> QED BY <1>3, <2>1, <2>2 DEF Encrypted, Layer, Selected
  <1> QED BY <1>2, <1>3
-----------------------------------------------------------------------------
\* The program as it is packed, under its blocks, and with its metadata wiped.
Covered == [r \in Regions(packed) |-> Cover(r)]
Bare == [r \in Regions(packed) |-> Under(r)]
Wiped(regions) == IF packed.wiped THEN [regions EXCEPT !["meta"] = <<"zero">>] ELSE regions

\* What the passes over the code section leave for the loader.
Loadable(regions) ==
  /\ regions = [r \in Regions(packed) |-> regions[r]]
  /\ CodeShows => regions["code"] = <<>>
  /\ regions["table"] = <<>>
  /\ packed.exports = "held" => regions["exports"] = <<>>
  /\ packed.tls \notin {"stub", "lost"} => regions["tls"] = <<>>
  /\ packed.clr = "foreign" /\ CodeShows => regions["clr"] = <<>>
  /\ packed.clr = "blank" /\ CodeShows => regions["clr"] = <<"lost">>

NamesPlain(regions) == \A n \in Names : regions[n] = <<>>

\* The regions before the pass over the code section.
Unpaged(regions) ==
  /\ regions = [r \in Regions(packed) |-> regions[r]]
  /\ regions["code"] = Under("code") /\ regions["table"] = <<>>
  /\ packed.exports = "held" => regions["exports"] = <<>>
  /\ regions["tls"] = Under("tls") /\ regions["clr"] = Under("clr") /\ regions["fixups"] = Under("fixups")

LEMMA RegionsApart ==
  ASSUME IsPacked(packed)
  PROVE  /\ Areas \subseteq Regions(packed) /\ Names \subseteq Regions(packed) /\ Names \cap Areas = {}
         /\ "code" \notin Names /\ "table" \notin Names /\ "exports" \notin Names /\ "tls" \notin Names
         /\ "clr" \notin Names /\ "fixups" \notin Names /\ "meta" \notin Names
         /\ "metadata" \notin Names /\ "resources" \notin Names
         /\ {"code", "meta", "clr", "metadata", "resources", "exports", "tls", "fixups", "table"} \subseteq Regions(packed)
  BY DEF IsPacked, Regions, Names, Areas

\* The pass decodes what the code section holds and leaves the rest.
LEMMA PassPlain ==
  ASSUME IsPacked(packed), packed.kind # "dll64", NEW regions, Unpaged(regions)
  PROVE  /\ Loadable(Paged(regions))
         /\ Paged(regions)["fixups"] = Under("fixups")
         /\ CodeShows => \A n \in Names : regions[n] = Under(n) => Paged(regions)[n] = <<"name">>
         /\ \A r \in Regions(packed) \ packed.inText : Paged(regions)[r] = regions[r]
  <1> DEFINE after == Paged(regions)
  <1>1. DOMAIN regions = Regions(packed)
    BY DEF Unpaged
  <1>2. after = [r \in Regions(packed) |->
                   IF Layer # "skip" /\ packed.pages > 0 /\ r \in packed.inText
                   THEN Remove(Layer, regions[r]) ELSE regions[r]]
    BY <1>1 DEF Paged, Unpaged, Layer
  <1> HIDE DEF after
  <1>3. \A r \in Regions(packed) \ packed.inText : after[r] = regions[r]
    BY <1>2
  <1>4. "exports" \notin packed.inText /\ "tls" \notin packed.inText /\ "fixups" \notin packed.inText
        /\ "table" \notin packed.inText /\ "code" \in packed.inText /\ packed.pages \in Nat
    BY DEF IsPacked
  <1>5. after["table"] = <<>> /\ (packed.exports = "held" => after["exports"] = <<>>)
        /\ after["tls"] = Under("tls") /\ after["fixups"] = Under("fixups")
    BY <1>3, <1>4, RegionsApart DEF Unpaged
  <1>6. packed.tls \notin {"stub", "lost"} => after["tls"] = <<>>
    BY <1>5, UnderIs
  <1>7. ASSUME CodeShows, NEW r \in Regions(packed), NEW rest, r \in packed.inText,
               regions[r] = IF Encrypted THEN <<packed.page>> \o rest ELSE rest,
               rest \in {<<>>, <<"name">>, <<"lost">>}
        PROVE  after[r] = rest
    <2>1. CASE Encrypted
      <3>1. Layer = packed.page /\ packed.page # "skip" /\ packed.pages > 0
        BY <2>1, <1>7, PagesComeOff DEF Encrypted, IsPacked, PageLayers
      <3>2. after[r] = Remove(packed.page, <<packed.page>> \o rest)
        BY <3>1, <2>1, <1>7, <1>2
      <3>3. CASE rest = <<>>
        BY <3>2, <3>3, NoLayer, ComesOff
      <3>4. ASSUME NEW x, rest = <<x>> PROVE after[r] = rest
        <4>1. <<packed.page>> \o rest = <<packed.page, x>>
          BY <3>4, NoLayer
        <4>2. Remove(packed.page, <<packed.page, x>>) = <<x>>
          BY ComesOff
        <4> QED BY <3>2, <3>4, <4>1, <4>2
      <3> QED BY <3>3, <3>4, <1>7
    <2>2. CASE ~ Encrypted
      <3>1. Layer = "skip" \/ ~ packed.pages > 0
        BY <2>2, <1>4, <1>7, PagesComeOff
      <3> QED BY <3>1, <2>2, <1>7, <1>2
    <2> QED BY <2>1, <2>2
  <1>8. CodeShows => after["code"] = <<>>
    <2>1. "code" \in Regions(packed) /\ regions["code"] = IF Encrypted THEN <<packed.page>> \o <<>> ELSE <<>>
      BY UnderIs, RegionsApart, NoLayer DEF Unpaged
    <2> QED BY <2>1, <1>4, <1>7
  <1>9. packed.clr = "foreign" /\ CodeShows => after["clr"] = <<>>
    <2>1. CASE "clr" \in packed.inText
      <3>1. packed.clr = "foreign" =>
              "clr" \in Regions(packed) /\ regions["clr"] = IF Encrypted THEN <<packed.page>> \o <<>> ELSE <<>>
        BY <2>1, UnderIs, RegionsApart, NoLayer DEF Unpaged
      <3> QED BY <2>1, <3>1, <1>7
    <2>2. CASE "clr" \notin packed.inText
      BY <2>2, <1>3, UnderIs, RegionsApart DEF Unpaged
    <2> QED BY <2>1, <2>2
  <1>10. ASSUME CodeShows, NEW n \in Names, regions[n] = Under(n)
         PROVE  after[n] = <<"name">>
    <2>1. CASE n \in packed.inText
      <3>1. n \in Regions(packed) /\ regions[n] = IF Encrypted THEN <<packed.page>> \o <<"name">> ELSE <<"name">>
        BY <2>1, <1>10, UnderIs, RegionsApart, NoLayer
      <3> QED BY <2>1, <3>1, <1>7, <1>10
    <2>2. CASE n \notin packed.inText
      BY <2>2, <1>3, <1>10, UnderIs, RegionsApart
    <2> QED BY <2>1, <2>2
  <1>11. after = [r \in Regions(packed) |-> after[r]]
    BY <1>2
  <1>12. packed.clr = "blank" /\ CodeShows => after["clr"] = <<"lost">>
    <2>1. CASE "clr" \in packed.inText
      <3>1. packed.clr = "blank" =>
              "clr" \in Regions(packed) /\ regions["clr"] = IF Encrypted THEN <<packed.page>> \o <<"lost">> ELSE <<"lost">>
        BY <2>1, UnderIs, RegionsApart, NoLayer DEF Unpaged
      <3> QED BY <2>1, <3>1, <1>7
    <2>2. CASE "clr" \notin packed.inText
      BY <2>2, <1>3, UnderIs, RegionsApart DEF Unpaged
    <2> QED BY <2>1, <2>2
  <1>13. Loadable(after)
    BY <1>5, <1>6, <1>8, <1>9, <1>11, <1>12 DEF Loadable
  <1> QED BY <1>3, <1>5, <1>10, <1>13 DEF after
-----------------------------------------------------------------------------
\* The stages of each pipeline.
Opening64 ==
  {"locate", "stage1", "stage2", "stage3", "stage4", "stage5", "discover", "chain", "file operations", "blocks"}
Rebuilt64 == {"late pages", "imports", "clr", "tls", "flags"}
Stages64 == Opening64 \cup {"zero", "names", "sections", "pages", "metadata"} \cup Rebuilt64

Opening32 ==
  {"tables", "whole payload", "all tables", "second", "third", "fourth", "fifth", "seventh",
   "custom decryptor", "eighth", "file decryptor", "reading"}
Paged32 == {"directories", "tls directory", "rearm", "import names", "idata", "compact"}
Rebuilt32 == {"tls directory", "rearm", "import names", "idata", "compact"}
Held32 == {"zero list", "file blocks", "fix sections", "text pages"} \cup Paged32
Stages32 == Opening32 \cup Held32

OpeningDll ==
  {"dll directories", "descriptor", "code block 1", "code block 2", "code block 3", "code block 4", "prefill"}
StagesDll == OpeningDll \cup {"dll blocks", "dll names", "dll header", "dll metadata"}

Places == {"none", "table", "stub", "kmiat", "garbled"}
Entries == {"stub", "text", "data", "zero", "garbled"}

HeaderType ==
  [imports : Places, relocations : BOOLEAN, flags : Characteristics, entry : Entries,
   tls : BOOLEAN, clr : BOOLEAN, addresses : BOOLEAN, held : BOOLEAN]

ShellShaped == shell = [s \in Sections |-> shell[s]]
SearchShaped == search = [tried |-> search.tried, saved |-> search.saved] /\ search.tried \in Seq(Nat)

Shaped ==
  /\ packed \in Files
  /\ stage \in {"header", "payload", "end"} \cup Stages64 \cup Stages32 \cup StagesDll
  /\ stage \in Stages64 => packed.kind = "exe64"
  /\ stage \in Stages32 => packed.kind = "exe32"
  /\ stage \in StagesDll => packed.kind = "dll64"
  /\ ShellShaped /\ SearchShaped /\ dirs \in HeaderType
  /\ stage # "end" => result = <<"running">>

\* A search under way: what was tried is not the key, and what is tried next are the
\* bytes the packer left.
Trying(section, key, candidates) ==
  /\ Len(search.tried) <= Len(candidates)
  /\ \A k \in 1..Len(search.tried) : candidates[k] # key
  /\ Before(section) = <<key>>

Candidates3 == IF packed.small THEN Rounds(4) ELSE <<4>>
Candidates8 == [k \in 1..MaxCandidates |-> k]

Searching == {"tables", "whole payload", "all tables", "third", "eighth", "file decryptor", "stage3", "stage5", "end"}

Searches64 ==
  /\ stage \in {"header", "payload", "locate", "stage1", "stage2"} => shell["stage3"] = <<packed.stage3>>
  /\ stage \in {"header", "payload", "locate", "stage1", "stage2", "stage3", "stage4"} => shell["stage5"] = <<packed.stage5>>
  /\ stage = "stage3" => Trying("stage3", packed.stage3, Candidates3)
  /\ stage = "stage5" => Trying("stage5", packed.stage5, Rounds(3))

\* No table so far was the one the second stage was made with.
TablesTried == \A k \in DOMAIN packed.tables : k <= Len(search.tried) => packed.tables[k] # packed.second
PrefixPassed == packed.payload = 1 => \A k \in DOMAIN packed.tables : packed.tables[k] # packed.second

\* No block so far bears the decryptor out.
BlocksTried == \A k \in 1..2 : k <= Len(search.tried) => ~ Validates(k)

Searches32 ==
  /\ stage \in {"header", "payload", "tables", "whole payload", "all tables"} =>
       shell["second"] = <<packed.second>> /\ dirs.relocations
  /\ stage \in {"header", "payload", "tables", "whole payload", "all tables", "second"} =>
       shell["third"] = <<packed.third>>
  /\ stage \in {"header", "payload", "tables", "whole payload", "all tables", "second", "third", "fourth", "fifth", "seventh",
                "custom decryptor"} =>
       shell["eighth"] = <<packed.eighth>>
  /\ stage \in {"header", "payload"} => shell["payload"] = <<packed.payload>>
  /\ stage = "tables" =>
       ((shell["payload"] = <<>>) <=> packed.payload = 1) /\ (packed.payload = 1 => TablesTried)
  /\ stage \in {"whole payload", "all tables"} => PrefixPassed /\ packed.longer
  /\ stage = "all tables" =>
       ((shell["payload"] = <<>>) <=> packed.payload = 2) /\ (packed.payload = 2 => TablesTried)
  /\ stage = "third" => Trying("third", packed.third, Shifts)
  /\ stage = "eighth" => Trying("eighth", packed.eighth, Candidates8)
  /\ stage = "file decryptor" => BlocksTried

Searched ==
  /\ stage \notin Searching => search = NoSearch
  /\ Searches64 /\ Searches32
  /\ RightCandidateIsFound

\* The inductive invariant of the searches.
SInv == Shaped /\ Searched

-----------------------------------------------------------------------------
\* The candidates of every search are numbers, and the rounds are tried from 0 to 8.
LEMMA RoundsAre ==
  ASSUME NEW first \in 3..4
  PROVE  /\ Rounds(first) \in Seq(Nat) /\ Len(Rounds(first)) = 9
         /\ \A v \in 0..8 : \E k \in 1..9 : Rounds(first)[k] = v
  <1> DEFINE others == [k \in 1..8 |-> IF k <= first THEN k - 1 ELSE k]
  <1>1. <<first>> \in Seq(Nat) /\ Len(<<first>>) = 1 /\ others \in Seq(Nat) /\ Len(others) = 8
    OBVIOUS
  <1>2. Rounds(first) = <<first>> \o others
    BY DEF Rounds
  <1>3. /\ Rounds(first) \in Seq(Nat) /\ Len(Rounds(first)) = 9
        /\ \A k \in 1..9 : Rounds(first)[k] = IF k <= 1 THEN <<first>>[k] ELSE others[k - 1]
    BY <1>1, <1>2, ConcatProperties
  <1>4. ASSUME NEW v \in 0..8
        PROVE  \E k \in 1..9 : Rounds(first)[k] = v
    <2>1. CASE v = first
      <3>1. Rounds(first)[1] = first
        BY <1>3
      <3> QED BY <2>1, <3>1
    <2>2. CASE v < first
      <3>1. v + 2 \in 1..9 /\ v + 1 \in 1..8 /\ others[v + 1] = v
        BY <2>2
      <3>2. Rounds(first)[v + 2] = v
        BY <1>3, <3>1
      <3> QED BY <3>1, <3>2
    <2>3. CASE v > first
      <3>1. v + 1 \in 1..9 /\ v \in 1..8 /\ others[v] = v
        BY <2>3
      <3>2. Rounds(first)[v + 1] = v
        BY <1>3, <3>1
      <3> QED BY <3>1, <3>2
    <2> QED BY <2>1, <2>2, <2>3
  <1> QED BY <1>3, <1>4

LEMMA CandidatesAre ==
  /\ Candidates3 \in Seq(Nat) /\ Rounds(3) \in Seq(Nat) /\ Shifts \in Seq(Nat)
  /\ Candidates8 \in Seq(Nat) /\ Len(Candidates8) = MaxCandidates
  BY RoundsAre, FilesAssumption DEF Candidates3, Candidates8, Shifts

\* A step of a search: it gives up when no candidate was the key, opens the section, or
\* goes on with the bytes the packer left.
GivesUp(candidates, why, key) ==
  Decline(why) /\ \A k \in 1..Len(candidates) : candidates[k] # key

Opens(section, next) ==
  /\ Go(next) /\ UNCHANGED <<program, dirs>> /\ search' = NoSearch
  /\ shell' = [shell EXCEPT ![section] = <<>>]

GoesOn(section, candidates, key) ==
  /\ Go(stage) /\ UNCHANGED <<program, dirs>>
  /\ shell' = [shell EXCEPT ![section] = shell'[section]]
  /\ search' = [tried |-> search'.tried, saved |-> search'.saved] /\ search'.tried \in Seq(Nat)
  /\ Len(search'.tried) <= Len(candidates)
  /\ \A k \in 1..Len(search'.tried) : candidates[k] # key
  /\ (IF search'.tried = <<>> THEN shell'[section] ELSE search'.saved) = <<key>>

LEMMA TryStep ==
  ASSUME NEW section, NEW candidates \in Seq(Nat), NEW next, NEW why, NEW key \in Nat,
         Try(section, candidates, next, why), Trying(section, key, candidates), search.tried \in Seq(Nat),
         shell = [s \in Sections |-> shell[s]], section \in Sections
  PROVE  GivesUp(candidates, why, key) \/ Opens(section, next) \/ GoesOn(section, candidates, key)
  <1> DEFINE k == Len(search.tried) + 1
             opened == Open(candidates[k], Before(section))
  <1>1. k \in Nat /\ k >= 1 /\ Len(candidates) \in Nat /\ Len(search.tried) \in Nat
    OBVIOUS
  <1>2. CASE k > Len(candidates)
    <2>1. Len(search.tried) = Len(candidates)
      BY <1>1, <1>2 DEF Trying
    <2> QED BY <1>2, <2>1 DEF Try, Trying, GivesUp
  <1>3. CASE ~ (k > Len(candidates)) /\ opened = <<>>
    <2>1. shell' = [shell EXCEPT ![section] = opened] /\ UNCHANGED <<program, dirs>> /\ search' = NoSearch /\ Go(next)
      BY <1>3 DEF Try
    <2> QED BY <2>1, <1>3 DEF Opens
  <1>4. CASE ~ (k > Len(candidates)) /\ opened # <<>>
    <2>1. /\ shell' = [shell EXCEPT ![section] = opened] /\ UNCHANGED <<program, dirs>> /\ Go(stage)
          /\ search' = [tried |-> Append(search.tried, candidates[k]), saved |-> Before(section)]
      BY <1>4 DEF Try
    <2>2. candidates[k] \in Nat /\ Before(section) = <<key>>
      BY <1>1, <1>4 DEF Trying
    <2>3. candidates[k] # key
      BY <2>2, <1>4, OpensForItsKey
    <2>4. search'.tried = Append(search.tried, candidates[k]) /\ search'.saved = <<key>>
      BY <2>1, <2>2
    <2>5. search'.tried \in Seq(Nat) /\ search'.tried # <<>> /\ Len(search'.tried) = k
      <3>1. \A c \in Nat : /\ Append(search.tried, c) \in Seq(Nat) /\ Append(search.tried, c) # <<>>
                           /\ Len(Append(search.tried, c)) = Len(search.tried) + 1
        BY AppendProperties
      <3> QED BY <2>2, <2>4, <3>1
    <2>6. \A j \in 1..k : candidates[j] # key
      BY <2>3, <1>1 DEF Trying
    <2>7. shell' = [shell EXCEPT ![section] = shell'[section]]
      BY <2>1
    <2>8. search' = [tried |-> search'.tried, saved |-> search'.saved]
      BY <2>1
    <2>9. Go(stage) /\ UNCHANGED <<program, dirs>>
      BY <2>1
    <2>10. Len(search'.tried) <= Len(candidates) /\ \A j \in 1..Len(search'.tried) : candidates[j] # key
      BY <2>5, <2>6, <1>4, <1>1
    <2>11. (IF search'.tried = <<>> THEN shell'[section] ELSE search'.saved) = <<key>>
      BY <2>4, <2>5
    <2> HIDE DEF k, opened
    <2> QED BY <2>5, <2>7, <2>8, <2>9, <2>10, <2>11 DEF GoesOn
  <1> QED BY <1>2, <1>3, <1>4

\* A search that gives up for another reason than its candidates.
LEMMA OtherReason ==
  ASSUME NEW why, Decline(why), why \notin Searches
  PROVE  RightCandidateIsFound'
  <1>1. result'[2] = why
    BY DEF Decline
  <1> QED BY <1>1 DEF RightCandidateIsFound, Searches

LEMMA NotRefused ==
  ASSUME result' = <<"running">> \/ result' = <<"image">>
  PROVE  RightCandidateIsFound'
  <1>1. result'[1] # "refused"
    OBVIOUS
  <1> QED BY <1>1 DEF RightCandidateIsFound

LEMMA TypesOf ==
  ASSUME Shaped
  PROVE  /\ IsPacked(packed)
         /\ packed.payload \in Nat /\ packed.second \in Nat /\ packed.third \in Nat /\ packed.eighth \in Nat
         /\ packed.stage3 \in Nat /\ packed.stage5 \in Nat /\ packed.tables \in Seq(Nat)
         /\ packed.relocatable \in BOOLEAN /\ packed.dll \in BOOLEAN /\ packed.new \in BOOLEAN
         /\ packed.counted \in BOOLEAN /\ packed.room \in BOOLEAN /\ packed.idata \in BOOLEAN
         /\ packed.sections \in BOOLEAN /\ packed.table \in BOOLEAN /\ packed.wiped \in BOOLEAN
         /\ packed.longer \in BOOLEAN /\ packed.small \in BOOLEAN
         /\ packed.anchored \in {"none", "table"} /\ packed.listed \in {"none", "table"}
         /\ packed.entry \in {"text", "data", "zero"} /\ packed.kind \in {"exe64", "exe32", "dll64"}
         /\ packed.header \notin Searches /\ packed.anchor \notin Searches /\ packed.blocks \notin Searches
         /\ packed.custom \notin Searches /\ packed.flags \in Characteristics
         /\ packed.clr \in ClrHeaders
         /\ packed.damaged \notin {"payload", "second", "third", "eighth", "stage3", "stage5"}
  BY FilesAssumption DEF Shaped, IsPacked

-----------------------------------------------------------------------------
\* The stages of the pipelines are apart, so a stage tells the kind of file.
LEMMA StagesApart ==
  /\ \A s \in Stages64 \cup {"end"} : s \notin Stages32 /\ s \notin StagesDll
  /\ \A s \in Stages32 \cup {"end"} : s \notin Stages64 /\ s \notin StagesDll
  /\ \A s \in StagesDll \cup {"end"} : s \notin Stages64 /\ s \notin Stages32
  /\ \A s \in Stages64 \cup Stages32 \cup StagesDll : s \notin {"header", "payload", "end"}
  BY DEF Opening64, Rebuilt64, Stages64, Opening32, Paged32, Rebuilt32, Held32, Stages32, OpeningDll, StagesDll

\* A step within a pipeline, to its end or to a later stage.
Within(S) == stage \in S /\ stage' \in S \cup {"end"} /\ packed' = packed /\ (stage' = "end" \/ result' = result)

LEMMA KeepsShape ==
  ASSUME Shaped, Within(Stages64) \/ Within(Stages32) \/ Within(StagesDll),
         ShellShaped', SearchShaped', dirs' \in HeaderType
  PROVE  Shaped'
  <1>1. stage # "end"
    BY StagesApart DEF Within
  <1>2. CASE Within(Stages64)
    BY <1>1, <1>2, StagesApart DEF Within, Shaped
  <1>3. CASE Within(Stages32)
    BY <1>1, <1>3, StagesApart DEF Within, Shaped
  <1>4. CASE Within(StagesDll)
    BY <1>1, <1>4, StagesApart DEF Within, Shaped
  <1> QED BY <1>2, <1>3, <1>4

LEMMA OneSection ==
  ASSUME ShellShaped, NEW section, NEW covers, shell' = [shell EXCEPT ![section] = covers]
  PROVE  ShellShaped' /\ \A s \in Sections \ {section} : shell'[s] = shell[s]
  BY DEF ShellShaped

\* Stages that neither search nor wait for a section that is searched.
Past ==
  {"end", "discover", "chain", "file operations", "blocks", "zero", "names", "sections", "pages", "metadata",
   "late pages", "imports", "clr", "tls", "flags", "reading"} \cup Held32 \cup StagesDll

LEMMA PastSearches ==
  ASSUME stage' \in Past, stage' # "end" => search' = NoSearch, RightCandidateIsFound'
  PROVE  Searched'
  <1> USE DEF Past, Held32, Paged32, OpeningDll, StagesDll, Searching
  <1>1. stage' \notin Searching => search' = NoSearch
    OBVIOUS
  <1>2. Searches64'
    BY DEF Searches64
  <1>3. Searches32'
    BY DEF Searches32
  <1> QED BY <1>1, <1>2, <1>3 DEF Searched, NoSearch

\* A step past the searches.
LEMMA LateStep ==
  ASSUME SInv, Within(Stages64) \/ Within(Stages32) \/ Within(StagesDll), stage \notin Searching, stage' \in Past,
         ShellShaped', search' = search, dirs' \in HeaderType,
         \/ result' = <<"running">> \/ result' = <<"image">>
         \/ \E why : Decline(why) /\ why \notin Searches
  PROVE  SInv'
  <1>1. RightCandidateIsFound'
    BY OtherReason, NotRefused
  <1>2. search' = NoSearch
    BY DEF SInv, Searched
  <1>3. SearchShaped'
    BY DEF SInv, Shaped, SearchShaped
  <1>4. Shaped'
    BY <1>3, KeepsShape DEF SInv
  <1>5. Searched'
    BY <1>1, <1>2, PastSearches
  <1> QED BY <1>4, <1>5 DEF SInv

LEMMA Running ==
  ASSUME Shaped, stage # "end"
  PROVE  result = <<"running">>
  BY DEF Shaped

LEMMA LateActions64 ==
  ASSUME SInv, Discover \/ Chain \/ FileOperations \/ FileBlocks \/ Zero \/ OldNames \/ Sections64 \/ OldPages
         \/ Metadata64 \/ LatePages \/ NewImports \/ Clr64 \/ Tls64 \/ Flags64
  PROVE  SInv'
  <1> DEFINE late == {"discover", "chain", "file operations", "blocks", "zero", "names", "sections", "pages",
                      "metadata", "late pages", "imports", "clr", "tls", "flags"}
  <1>1. stage \in late /\ stage \in Stages64 /\ stage \notin Searching /\ stage # "end"
    BY DEF Discover, Chain, FileOperations, FileBlocks, Zero, OldNames, Sections64, OldPages, Metadata64, LatePages,
           NewImports, Clr64, Tls64, Flags64, Stages64, Opening64, Rebuilt64, Searching
  <1>2. stage' \in late \cup {"end"}
    BY DEF Discover, Chain, FileOperations, FileBlocks, Zero, OldNames, Sections64, OldPages, Metadata64, LatePages,
           NewImports, Clr64, Tls64, Flags64, Blocks, Go, Decline
  <1>3. stage' \in Past /\ stage' \in Stages64 \cup {"end"}
    BY <1>2 DEF Past, Stages64, Opening64, Rebuilt64
  <1> HIDE DEF late
  <1>4. packed' = packed /\ shell' = shell /\ search' = search
    BY DEF Discover, Chain, FileOperations, FileBlocks, Zero, OldNames, Sections64, OldPages, Metadata64, LatePages,
           NewImports, Clr64, Tls64, Flags64, Blocks, Go, Decline, Quiet
  <1>5. Shaped /\ result = <<"running">>
    BY <1>1, Running DEF SInv
  <1>6. \/ result' = <<"running">> \/ result' = <<"image">>
        \/ \E why : Decline(why) /\ why \notin Searches
    <2>1. CASE Discover
      <3>1. "stage 5 marker not found" \notin Searches
        BY DEF Searches
      <3>2. Decline("stage 5 marker not found") \/ result' = result
        BY <2>1 DEF Discover, Go
      <3> QED BY <3>1, <3>2, <1>5
    <2>2. CASE FileOperations
      <3>1. "bytecode" \notin Searches /\ "file decryptor validation" \notin Searches
        BY DEF Searches
      <3>2. Decline("bytecode") \/ Decline("file decryptor validation") \/ result' = result
        BY <2>2 DEF FileOperations, Go
      <3> QED BY <3>1, <3>2, <1>5
    <2>3. CASE FileBlocks
      <3>1. packed.blocks \notin Searches
        BY <1>5, TypesOf
      <3>2. Decline(packed.blocks) \/ result' = result
        BY <2>3 DEF FileBlocks, Blocks, Go
      <3> QED BY <3>1, <3>2, <1>5
    <2> QED BY <2>1, <2>2, <2>3, <1>5
            DEF Chain, Zero, OldNames, Sections64, OldPages, Metadata64, LatePages, NewImports, Clr64, Tls64, Flags64,
                Go, Quiet
  <1>7. dirs' \in HeaderType
    <2>1. dirs \in HeaderType
      BY <1>5 DEF Shaped
    <2>2. CASE Sections64
      BY <2>1, <2>2, <1>5, TypesOf DEF Sections64, HeaderType, Places, Entries
    <2>3. CASE Metadata64
      <3> DEFINE read == Reading(packed.entry)
                 entry == IF ~ packed.new /\ read = "zero" THEN dirs.entry ELSE read
                 listed == Reading(packed.listed)
                 imports == IF packed.new /\ listed # "table" /\ packed.anchored # "none" THEN packed.anchored ELSE listed
                 tls == packed.tls # "none"
                 clr == packed.clr # "none"
      <3>1. entry \in Entries /\ imports \in Places
        BY <2>1, <1>5, TypesOf DEF Reading, HeaderType, Places, Entries
      <3>2. dirs' = [dirs EXCEPT !.entry = entry, !.imports = imports, !.tls = tls, !.clr = clr,
                                 !.relocations = packed.relocatable]
        BY <2>3 DEF Metadata64
      <3>3. tls \in BOOLEAN /\ clr \in BOOLEAN /\ packed.relocatable \in BOOLEAN
        BY <1>5, TypesOf
      <3> HIDE DEF read, entry, listed, imports, tls, clr
      <3> QED BY <2>1, <3>1, <3>2, <3>3 DEF HeaderType
    <2>4. CASE NewImports
      BY <2>1, <2>4 DEF NewImports, HeaderType
    <2>5. CASE Tls64
      BY <2>1, <2>5 DEF Tls64, HeaderType
    <2>6. CASE Flags64
      <3> DEFINE fixed == ~ packed.new /\ ~ packed.dll
                 relocations == dirs.relocations /\ ~ fixed
                 flags == IF fixed THEN "zero" ELSE IF packed.new THEN dirs.flags ELSE Ensured(dirs.flags)
      <3>1. PICK kept \in BOOLEAN : dirs' = [dirs EXCEPT !.clr = dirs.clr /\ kept, !.relocations = relocations, !.flags = flags]
        BY <2>6 DEF Flags64
      <3> DEFINE clr == dirs.clr /\ kept
      <3>2. clr \in BOOLEAN /\ relocations \in BOOLEAN
        BY <2>1, <1>5, TypesOf DEF HeaderType
      <3>3. flags \in Characteristics
        BY <2>1 DEF HeaderType, Characteristics, Ensured
      <3> HIDE DEF clr, relocations, flags, fixed
      <3> QED BY <2>1, <3>1, <3>2, <3>3 DEF HeaderType, clr
    <2>7. CASE Discover \/ Chain \/ FileOperations \/ FileBlocks \/ Zero \/ OldNames \/ OldPages \/ LatePages \/ Clr64
      <3>1. dirs' = dirs
        BY <2>7 DEF Discover, Chain, FileOperations, FileBlocks, Zero, OldNames, OldPages, LatePages, Clr64, Blocks,
                    Decline, Quiet
      <3> QED BY <2>1, <3>1
    <2> QED BY <2>2, <2>3, <2>4, <2>5, <2>6, <2>7
  <1>8. Within(Stages64)
    <2>1. stage' = "end" \/ result' = result
      BY DEF Discover, Chain, FileOperations, FileBlocks, Zero, OldNames, Sections64, OldPages, Metadata64, LatePages,
             NewImports, Clr64, Tls64, Flags64, Blocks, Go, Decline
    <2> QED BY <1>1, <1>3, <1>4, <2>1 DEF Within
  <1>9. ShellShaped'
    BY <1>4, <1>5 DEF Shaped, ShellShaped
  <1> QED BY <1>1, <1>3, <1>4, <1>6, <1>7, <1>8, <1>9, LateStep

LEMMA LateActions32 ==
  ASSUME SInv, Reading32 \/ ZeroList \/ FileBlocks32 \/ Sections32 \/ Pages32 \/ Directories32 \/ Tls32 \/ Rearm
         \/ Imports32 \/ Kmiat \/ Compact
  PROVE  SInv'
  <1> DEFINE late == {"reading", "zero list", "file blocks", "fix sections", "text pages", "directories",
                      "tls directory", "rearm", "import names", "idata", "compact"}
  <1>1. stage \in late /\ stage \in Stages32 /\ stage \notin Searching /\ stage # "end"
    BY DEF Reading32, ZeroList, FileBlocks32, Sections32, Pages32, Directories32, Tls32, Rearm, Imports32, Kmiat, Compact, Stages32, Opening32, Held32, Paged32, Searching
  <1>2. stage' \in late \cup {"end"}
    BY DEF Reading32, ZeroList, FileBlocks32, Sections32, Pages32, Directories32, Tls32, Rearm, Imports32, Kmiat, Compact, Blocks, Go, Decline
  <1>3. stage' \in Past /\ stage' \in Stages32 \cup {"end"}
    BY <1>2 DEF Past, Stages32, Opening32, Held32, Paged32
  <1> HIDE DEF late
  <1>4. packed' = packed /\ shell' = shell /\ search' = search /\ (stage' = "end" \/ result' = result)
    BY DEF Reading32, ZeroList, FileBlocks32, Sections32, Pages32, Directories32, Tls32, Rearm, Imports32, Kmiat, Compact, Blocks, Go, Decline
  <1>5. Shaped /\ result = <<"running">>
    BY <1>1, Running DEF SInv
  <1>6. \/ result' = <<"running">> \/ result' = <<"image">>
        \/ \E why : Decline(why) /\ why \notin Searches
    <2>1. CASE FileBlocks32
      <3>1. packed.blocks \notin Searches
        BY <1>5, TypesOf
      <3>2. Decline(packed.blocks) \/ result' = result
        BY <2>1 DEF FileBlocks32, Blocks, Go
      <3> QED BY <3>1, <3>2, <1>5
    <2>2. CASE Compact
      <3>1. "output layout" \notin Searches
        BY DEF Searches
      <3>2. Decline("output layout") \/ result' = <<"image">>
        BY <2>2 DEF Compact
      <3> QED BY <3>1, <3>2
    <2> QED BY <2>1, <2>2, <1>5
            DEF Reading32, ZeroList, Sections32, Pages32, Directories32, Tls32, Rearm, Imports32, Kmiat, Go
  <1>7. dirs' \in HeaderType
    <2>1. dirs \in HeaderType
      BY <1>5 DEF Shaped
    <2>2. CASE Reading32
      <3> DEFINE held == program["meta"] = <<"meta">>
      <3>1. dirs' = [dirs EXCEPT !.held = held] /\ held \in BOOLEAN
        BY <2>2 DEF Reading32
      <3> HIDE DEF held
      <3> QED BY <2>1, <3>1 DEF HeaderType
    <2>3. CASE Sections32
      BY <2>1, <2>3, <1>5, TypesOf DEF Sections32, HeaderType, Places, Entries
    <2>4. CASE Directories32
      <3> DEFINE imports == IF dirs.held THEN packed.listed ELSE "garbled"
                 tls == dirs.held /\ packed.tls # "none"
                 clr == dirs.held /\ packed.clr # "none"
                 relocations == packed.dll /\ dirs.held /\ packed.relocatable
                 flags == IF packed.dll THEN Ensured(dirs.flags) ELSE "zero"
      <3>1. dirs' = [dirs EXCEPT !.imports = imports, !.tls = tls, !.clr = clr, !.relocations = relocations,
                                 !.flags = flags]
        BY <2>4 DEF Directories32
      <3>2. imports \in Places /\ flags \in Characteristics
        BY <2>1, <1>5, TypesOf DEF HeaderType, Places, Characteristics, Ensured
      <3>3. tls \in BOOLEAN /\ clr \in BOOLEAN /\ relocations \in BOOLEAN
        BY <2>1, <1>5, TypesOf DEF HeaderType
      <3> HIDE DEF imports, tls, clr, relocations, flags
      <3> QED BY <2>1, <3>1, <3>2, <3>3 DEF HeaderType
    <2>5. CASE Tls32
      <3> DEFINE tls == packed.tls = "stub" \/ Placeholder
      <3>1. dirs' = dirs \/ dirs' = [dirs EXCEPT !.tls = tls]
        BY <2>5 DEF Tls32
      <3>2. tls \in BOOLEAN
        BY <1>5, TypesOf DEF Placeholder
      <3> HIDE DEF tls
      <3> QED BY <2>1, <3>1, <3>2 DEF HeaderType
    <2>6. CASE Imports32
      <3> DEFINE table == IF dirs.imports = "table" THEN "table" ELSE packed.anchored
                 read == IF dirs.held THEN packed.entry ELSE "garbled"
                 entry == IF read = "zero" THEN "stub" ELSE read
      <3>1. dirs' = [dirs EXCEPT !.imports = table, !.addresses = FALSE, !.entry = entry]
        BY <2>6 DEF Imports32
      <3>2. table \in Places /\ entry \in Entries
        BY <1>5, TypesOf DEF Places, Entries
      <3> HIDE DEF table, read, entry
      <3> QED BY <2>1, <3>1, <3>2 DEF HeaderType
    <2>7. CASE Kmiat
      <3> DEFINE moved == ~ packed.dll /\ ~ InIdata /\ dirs.imports = "table"
                 imports == IF moved /\ packed.room THEN "kmiat" ELSE dirs.imports
                 addresses == ~ packed.dll /\ InIdata
      <3>1. dirs' = [dirs EXCEPT !.imports = imports, !.addresses = addresses]
        BY <2>7 DEF Kmiat
      <3>2. imports \in Places
        BY <2>1 DEF HeaderType, Places
      <3>3. addresses \in BOOLEAN
        BY <1>5, TypesOf DEF InIdata
      <3> HIDE DEF moved, imports, addresses
      <3> QED BY <2>1, <3>1, <3>2, <3>3 DEF HeaderType
    <2>8. CASE ZeroList \/ FileBlocks32 \/ Pages32 \/ Rearm \/ Compact
      <3>1. dirs' = dirs
        BY <2>8 DEF ZeroList, FileBlocks32, Pages32, Rearm, Compact, Blocks, Decline
      <3> QED BY <2>1, <3>1
    <2> QED BY <2>2, <2>3, <2>4, <2>5, <2>6, <2>7, <2>8
  <1>8. Within(Stages32)
    BY <1>1, <1>3, <1>4 DEF Within
  <1>9. ShellShaped'
    BY <1>4, <1>5 DEF Shaped, ShellShaped
  <1> QED BY <1>1, <1>3, <1>4, <1>6, <1>7, <1>8, <1>9, LateStep

LEMMA ActionsDll ==
  ASSUME SInv, Dll64Next
  PROVE  SInv'
  <1> USE DEF Dll64Next
  <1> DEFINE late == {"dll directories", "descriptor", "code block 1", "code block 2", "code block 3", "code block 4",
                      "prefill", "dll blocks", "dll names", "dll header", "dll metadata"}
             keys == Descriptor \/ CodeBlock1 \/ CodeBlock2 \/ CodeBlock3 \/ CodeBlock4
  <1>1. stage \in late /\ stage \in StagesDll /\ stage \notin Searching /\ stage # "end"
    BY DEF DllDirectories, Descriptor, CodeBlock1, CodeBlock2, CodeBlock3, CodeBlock4, Prefill, DllBlocks, DllNames,
           DllHeader, DllMetadata, StagesDll, OpeningDll, Searching
  <1>2. stage' \in late \cup {"end"}
    BY DEF DllDirectories, Descriptor, CodeBlock1, CodeBlock2, CodeBlock3, CodeBlock4, Prefill, DllBlocks, DllNames,
           DllHeader, DllMetadata, Unlock, Blocks, Go, Decline
  <1>3. stage' \in Past /\ stage' \in StagesDll \cup {"end"}
    BY <1>2 DEF Past, StagesDll, OpeningDll
  <1> HIDE DEF late
  <1>4. packed' = packed /\ search' = search /\ (stage' = "end" \/ result' = result)
    BY DEF DllDirectories, Descriptor, CodeBlock1, CodeBlock2, CodeBlock3, CodeBlock4, Prefill, DllBlocks, DllNames,
           DllHeader, DllMetadata, Unlock, Blocks, Go, Decline
  <1>5. Shaped /\ result = <<"running">>
    BY <1>1, Running DEF SInv
  <1>6. \/ result' = <<"running">> \/ result' = <<"image">>
        \/ \E why : Decline(why) /\ why \notin Searches
    <2>1. CASE DllBlocks
      <3>1. packed.blocks \notin Searches
        BY <1>5, TypesOf
      <3>2. Decline(packed.blocks) \/ result' = result
        BY <2>1 DEF DllBlocks, Blocks, Go
      <3> QED BY <3>1, <3>2, <1>5
    <2>2. CASE keys
      <3>1. \A why \in {"primary descriptor", "code block 1", "code block 2", "code block 3", "code block 4", "bytecode"} :
              why \notin Searches
        BY DEF Searches
      <3>2. \/ result' = result
            \/ \E why \in {"primary descriptor", "code block 1", "code block 2", "code block 3", "code block 4", "bytecode"} :
                  Decline(why)
        BY <2>2 DEF Descriptor, CodeBlock1, CodeBlock2, CodeBlock3, CodeBlock4, Unlock, Go
      <3> QED BY <3>1, <3>2, <1>5
    <2> QED BY <2>1, <2>2, <1>5 DEF DllDirectories, Prefill, DllNames, DllHeader, DllMetadata, Go
  <1>7. dirs' \in HeaderType
    <2>1. dirs \in HeaderType
      BY <1>5 DEF Shaped
    <2>2. CASE DllDirectories
      BY <2>1, <2>2, <1>5, TypesOf DEF DllDirectories, HeaderType, Places
    <2>3. CASE DllHeader
      BY <2>1, <2>3, <1>5, TypesOf DEF DllHeader, HeaderType, Places, Entries
    <2>4. CASE DllMetadata
      <3> DEFINE read == program["meta"] = <<"meta">>
                 entry == IF read THEN packed.entry ELSE "garbled"
                 imports == IF read THEN packed.listed ELSE "garbled"
                 tls == packed.tls # "none"
                 clr == packed.clr # "none"
      <3>1. dirs' = [dirs EXCEPT !.entry = entry, !.imports = imports, !.tls = tls, !.clr = clr]
        BY <2>4 DEF DllMetadata
      <3>2. entry \in Entries /\ imports \in Places
        BY <1>5, TypesOf DEF Places, Entries
      <3>3. tls \in BOOLEAN /\ clr \in BOOLEAN
        OBVIOUS
      <3> HIDE DEF read, entry, imports, tls, clr
      <3> QED BY <2>1, <3>1, <3>2, <3>3 DEF HeaderType
    <2>5. CASE keys \/ Prefill \/ DllBlocks \/ DllNames
      <3>1. dirs' = dirs
        BY <2>5 DEF Descriptor, CodeBlock1, CodeBlock2, CodeBlock3, CodeBlock4, Prefill, DllBlocks, DllNames, Unlock,
                    Blocks, Decline
      <3> QED BY <2>1, <3>1
    <2> QED BY <2>2, <2>3, <2>4, <2>5
  <1>8. Within(StagesDll)
    BY <1>1, <1>3, <1>4 DEF Within
  <1>9. ShellShaped'
    <2>1. CASE keys
      <3>1. \/ shell' = shell
            \/ \E section \in {"descriptor", "block1", "block2", "block3", "block4"} : shell' = [shell EXCEPT ![section] = <<>>]
        BY <2>1 DEF Descriptor, CodeBlock1, CodeBlock2, CodeBlock3, CodeBlock4, Unlock, Decline
      <3> QED BY <3>1, <1>5, OneSection DEF Shaped, ShellShaped
    <2>2. CASE ~ keys
      <3>1. shell' = shell
        BY <2>2 DEF DllDirectories, Prefill, DllBlocks, DllNames, DllHeader, DllMetadata, Blocks, Decline
      <3> QED BY <3>1, <1>5 DEF Shaped, ShellShaped
    <2> QED BY <2>1, <2>2
  <1> QED BY <1>1, <1>3, <1>4, <1>6, <1>7, <1>8, <1>9, LateStep

-----------------------------------------------------------------------------
\* A file that is refused.
LEMMA DeclineStep ==
  ASSUME SInv, stage # "end", NEW why, Decline(why), why \notin Searches \/ RightCandidateIsFound'
  PROVE  SInv'
  <1>1. RightCandidateIsFound'
    BY OtherReason
  <1>2. stage' = "end" /\ UNCHANGED <<packed, shell, program, dirs, search>>
    BY DEF Decline
  <1>3. Shaped'
    BY <1>2, StagesApart DEF SInv, Shaped, ShellShaped, SearchShaped, HeaderType
  <1>4. Searched'
    BY <1>1, <1>2, PastSearches DEF Past
  <1> QED BY <1>3, <1>4 DEF SInv

LEMMA HeaderSearches ==
  ASSUME SInv, Header
  PROVE  SInv'
  <1>1. stage = "header" /\ Shaped /\ result = <<"running">>
    BY Running DEF Header, SInv
  <1>2. CASE packed.header # "good"
    BY <1>1, <1>2, TypesOf, DeclineStep DEF Header
  <1>3. CASE packed.header = "good"
    <2>1. stage' = "payload" /\ packed' = packed /\ result' = result /\ UNCHANGED <<shell, program, dirs, search>>
      BY <1>3 DEF Header, Quiet, Go
    <2>2. Shaped'
      BY <2>1, <1>1, StagesApart DEF Shaped, ShellShaped, SearchShaped
    <2>3. search' = NoSearch
      BY <1>1, <2>1 DEF SInv, Searched, Searching
    <2>4. Searches64'
      BY <1>1, <2>1 DEF SInv, Searched, Searches64
    <2>5. Searches32'
      BY <1>1, <2>1 DEF SInv, Searched, Searches32
    <2>6. RightCandidateIsFound'
      BY <1>1, <2>1, NotRefused
    <2> QED BY <2>2, <2>3, <2>4, <2>5, <2>6 DEF SInv, Searched, NoSearch
  <1> QED BY <1>2, <1>3

LEMMA PayloadSearches ==
  ASSUME SInv, Payload
  PROVE  SInv'
  <1>1. stage = "payload" /\ Shaped /\ result = <<"running">> /\ search = NoSearch
    BY Running DEF Payload, SInv, Searched, Searching
  <1>2. /\ packed' = packed /\ result' = result /\ UNCHANGED <<program, dirs, search>>
        /\ shell' = [shell EXCEPT !["payload"] = Open(1, shell["payload"])]
        /\ stage' = CASE packed.kind = "exe64" -> "locate" [] packed.kind = "exe32" -> "tables" [] OTHER -> "dll directories"
    BY DEF Payload, Go
  <1>3. ShellShaped' /\ \A s \in Sections \ {"payload"} : shell'[s] = shell[s]
    BY <1>1, <1>2, OneSection DEF Shaped
  <1>4. shell'["payload"] = Open(1, shell["payload"])
    BY <1>1, <1>2 DEF Shaped, ShellShaped, Sections
  <1>5. shell["payload"] = <<packed.payload>>
    BY <1>1 DEF SInv, Searched, Searches32
  <1>6. (shell'["payload"] = <<>>) <=> packed.payload = 1
    BY <1>1, <1>4, <1>5, OpensForItsKey, TypesOf
  <1>7. /\ shell'["stage3"] = shell["stage3"] /\ shell'["stage5"] = shell["stage5"] /\ shell'["second"] = shell["second"]
        /\ shell'["third"] = shell["third"] /\ shell'["eighth"] = shell["eighth"]
    BY <1>3 DEF Sections
  <1>8. RightCandidateIsFound' /\ SearchShaped' /\ dirs' \in HeaderType /\ packed' \in Files
    BY <1>1, <1>2, NotRefused DEF Shaped, SearchShaped
  <1>9. CASE packed.kind = "exe64"
    <2>1. stage' = "locate"
      BY <1>2, <1>9
    <2>2. Shaped'
      BY <2>1, <1>1, <1>2, <1>3, <1>8, <1>9, StagesApart DEF Shaped, Stages64, Opening64
    <2>3. Searches64'
      BY <2>1, <1>1, <1>2, <1>7 DEF SInv, Searched, Searches64
    <2>4. Searches32'
      BY <2>1 DEF Searches32
    <2> QED BY <2>1, <2>2, <2>3, <2>4, <1>1, <1>2, <1>8 DEF SInv, Searched, NoSearch
  <1>10. CASE packed.kind = "exe32"
    <2>1. stage' = "tables"
      BY <1>2, <1>10
    <2>2. Shaped'
      BY <2>1, <1>1, <1>2, <1>3, <1>8, <1>10, StagesApart DEF Shaped, Stages32, Opening32
    <2>3. Searches64'
      BY <2>1 DEF Searches64
    <2>4. TablesTried'
      <3>1. Len(search'.tried) = 0 /\ packed.tables \in Seq(Nat)
        BY <1>1, <1>2, TypesOf DEF NoSearch
      <3>2. \A k \in DOMAIN packed.tables : ~ (k <= Len(search'.tried))
        BY <3>1
      <3> QED BY <3>2, <1>2 DEF TablesTried
    <2>5. Searches32'
      BY <2>1, <2>4, <1>1, <1>2, <1>6, <1>7 DEF SInv, Searched, Searches32
    <2> QED BY <2>1, <2>2, <2>3, <2>5, <1>1, <1>2, <1>8 DEF SInv, Searched, NoSearch
  <1>11. CASE packed.kind = "dll64"
    <2>1. stage' = "dll directories"
      BY <1>2, <1>11
    <2>2. Shaped'
      BY <2>1, <1>1, <1>2, <1>3, <1>8, <1>11, StagesApart DEF Shaped, StagesDll, OpeningDll
    <2>3. Searched'
      BY <2>1, <1>1, <1>2, <1>8, PastSearches DEF Past, StagesDll, OpeningDll
    <2> QED BY <2>2, <2>3 DEF SInv
  <1> QED BY <1>9, <1>10, <1>11, <1>1, TypesOf

\* The sections of PE32+ that have one key.
LEMMA Locate64Searches ==
  ASSUME SInv, Locate \/ Stage1 \/ Stage2 \/ Stage4
  PROVE  SInv'
  <1>1. stage \in {"locate", "stage1", "stage2", "stage4"} /\ Shaped /\ result = <<"running">> /\ search = NoSearch
    BY Running DEF Locate, Stage1, Stage2, Stage4, SInv, Searched, Searching
  <1>2. CASE Decline("no anchor") \/ Decline(packed.anchor) \/ Decline("stage 2 not found")
             \/ Decline("table start not found") \/ Decline("stage 4")
    <2>1. \A why \in {"no anchor", "stage 2 not found", "table start not found", "stage 4"} : why \notin Searches
      BY DEF Searches
    <2> QED BY <1>1, <1>2, <2>1, TypesOf, DeclineStep
  <1>3. ASSUME /\ packed' = packed /\ result' = result /\ search' = search /\ dirs' \in HeaderType /\ ShellShaped'
               /\ stage' \in Opening64
               /\ \/ stage = "locate" /\ stage' = "stage1"
                  \/ stage = "stage1" /\ stage' = "stage2"
                  \/ stage = "stage2" /\ stage' = "stage3"
                  \/ stage = "stage4" /\ stage' = "stage5"
               /\ shell'["stage3"] = shell["stage3"] /\ shell'["stage5"] = shell["stage5"]
        PROVE  SInv'
    <2>1. Within(Stages64)
      BY <1>1, <1>3 DEF Within, Stages64, Opening64
    <2>2. Shaped'
      BY <2>1, <1>1, <1>3, KeepsShape DEF Shaped, SearchShaped
    <2>3. RightCandidateIsFound'
      BY <1>1, <1>3, NotRefused
    <2>5. stage' = "stage3" => Trying("stage3", packed.stage3, Candidates3)'
      <3>1. Candidates3' = Candidates3 /\ Len(Candidates3) \in Nat
        BY <1>3, CandidatesAre DEF Candidates3, Rounds
      <3>2. stage' = "stage3" => shell'["stage3"] = <<packed'.stage3>>
        BY <1>1, <1>3 DEF SInv, Searched, Searches64
      <3>3. search'.tried = <<>> /\ Len(search'.tried) = 0
        BY <1>1, <1>3 DEF NoSearch
      <3> QED BY <3>1, <3>2, <3>3 DEF Trying, Before
    <2>6. stage' = "stage5" => Trying("stage5", packed.stage5, Rounds(3))'
      <3>1. Rounds(3)' = Rounds(3) /\ Len(Rounds(3)) \in Nat
        BY CandidatesAre DEF Rounds
      <3>2. stage' = "stage5" => shell'["stage5"] = <<packed'.stage5>>
        BY <1>1, <1>3 DEF SInv, Searched, Searches64
      <3>3. search'.tried = <<>> /\ Len(search'.tried) = 0
        BY <1>1, <1>3 DEF NoSearch
      <3> QED BY <3>1, <3>2, <3>3 DEF Trying, Before
    <2>7. Searches64'
      BY <1>1, <1>3, <2>5, <2>6 DEF SInv, Searched, Searches64
    <2>8. Searches32'
      BY <1>3 DEF Searches32
    <2> QED BY <2>2, <2>3, <2>7, <2>8, <1>1, <1>3 DEF SInv, Searched, NoSearch
  <1>4. CASE ~ (Decline("no anchor") \/ Decline(packed.anchor) \/ Decline("stage 2 not found")
                \/ Decline("table start not found") \/ Decline("stage 4"))
    <2>1. CASE Locate
      <3>1. /\ packed' = packed /\ result' = result /\ UNCHANGED <<shell, search>> /\ stage = "locate" /\ stage' = "stage1"
            /\ dirs' = [dirs EXCEPT !.imports = packed.anchored, !.relocations = FALSE]
        BY <2>1, <1>4 DEF Locate, Go
      <3>2. dirs' \in HeaderType
        BY <3>1, <1>1, TypesOf DEF Shaped, HeaderType, Places
      <3>3. ShellShaped'
        BY <3>1, <1>1 DEF Shaped, ShellShaped
      <3> QED BY <3>1, <3>2, <3>3, <1>3 DEF Opening64
    <2>2. CASE Stage1
      <3>1. stage = "stage1" /\ Unlock("stage1", "stage2", "stage 2 not found")
        BY <2>2 DEF Stage1
      <3>2. /\ packed' = packed /\ UNCHANGED <<dirs, search>> /\ ShellShaped' /\ stage' = "stage2" /\ result' = result
            /\ shell'["stage3"] = shell["stage3"] /\ shell'["stage5"] = shell["stage5"]
        BY <3>1, <1>4, <1>1, OneSection DEF Unlock, Go, Shaped, Sections
      <3> QED BY <3>1, <3>2, <1>1, <1>3 DEF Opening64, Shaped
    <2>3. CASE Stage2
      <3>1. stage = "stage2" /\ Unlock("stage2", "stage3", "table start not found")
        BY <2>3 DEF Stage2
      <3>2. /\ packed' = packed /\ UNCHANGED <<dirs, search>> /\ ShellShaped' /\ stage' = "stage3" /\ result' = result
            /\ shell'["stage3"] = shell["stage3"] /\ shell'["stage5"] = shell["stage5"]
        BY <3>1, <1>4, <1>1, OneSection DEF Unlock, Go, Shaped, Sections
      <3> QED BY <3>1, <3>2, <1>1, <1>3 DEF Opening64, Shaped
    <2>4. CASE Stage4
      <3>1. stage = "stage4" /\ Unlock("stage4", "stage5", "stage 4")
        BY <2>4 DEF Stage4
      <3>2. /\ packed' = packed /\ UNCHANGED <<dirs, search>> /\ ShellShaped' /\ stage' = "stage5" /\ result' = result
            /\ shell'["stage3"] = shell["stage3"] /\ shell'["stage5"] = shell["stage5"]
        BY <3>1, <1>4, <1>1, OneSection DEF Unlock, Go, Shaped, Sections
      <3> QED BY <3>1, <3>2, <1>1, <1>3 DEF Opening64, Shaped
    <2> QED BY <2>1, <2>2, <2>3, <2>4
  <1> QED BY <1>2, <1>4

-----------------------------------------------------------------------------
\* The searches by trial.
LEMMA NothingTried ==
  ASSUME search' = NoSearch
  PROVE  SearchShaped' /\ search'.tried = <<>> /\ Len(search'.tried) = 0
  <1>1. search'.tried = <<>> /\ search' = [tried |-> search'.tried, saved |-> search'.saved]
    BY DEF NoSearch
  <1>2. <<>> \in Seq(Nat) /\ Len(<<>>) = 0
    OBVIOUS
  <1> QED BY <1>1, <1>2 DEF SearchShaped

LEMMA Stage3Searches ==
  ASSUME SInv, Stage3
  PROVE  SInv'
  <1>1. stage = "stage3" /\ Shaped /\ result = <<"running">> /\ Trying("stage3", packed.stage3, Candidates3)
    BY Running DEF Stage3, SInv, Searched, Searches64
  <1>2. Try("stage3", Candidates3, "stage4", "stage 3")
    BY DEF Stage3, Candidates3
  <1>3. Candidates3 \in Seq(Nat) /\ packed.stage3 \in Nat /\ search.tried \in Seq(Nat) /\ ShellShaped /\ "stage3" \in Sections
    BY <1>1, CandidatesAre, TypesOf DEF Shaped, SearchShaped, Sections
  <1>4. CASE GivesUp(Candidates3, "stage 3", packed.stage3)
    <2>1. \A k \in 1..Len(Candidates3) : Candidates3[k] # packed.stage3
      BY <1>4 DEF GivesUp
    <2>2. packed.stage3 \notin (IF packed.small THEN 0..8 ELSE {4})
      <3>1. CASE packed.small
        <4>1. Candidates3 = Rounds(4) /\ 4 \in 3..4
          BY <3>1 DEF Candidates3
        <4>2. Len(Rounds(4)) = 9 /\ \A v \in 0..8 : \E k \in 1..9 : Rounds(4)[k] = v
          BY RoundsAre, <4>1
        <4> QED BY <2>1, <3>1, <4>1, <4>2
      <3>2. CASE ~ packed.small
        <4>1. Candidates3 = <<4>> /\ Len(Candidates3) = 1 /\ Candidates3[1] = 4
          BY <3>2 DEF Candidates3
        <4>2. 1 \in 1..Len(Candidates3)
          BY <4>1
        <4> QED BY <2>1, <3>2, <4>1, <4>2
      <3> QED BY <3>1, <3>2
    <2>3. Decline("stage 3") /\ result' = <<"refused", "stage 3">> /\ packed' = packed
      BY <1>4 DEF GivesUp, Decline
    <2>4. RightCandidateIsFound'
      BY <2>2, <2>3 DEF RightCandidateIsFound
    <2> QED BY <1>1, <2>3, <2>4, DeclineStep
  <1>5. CASE Opens("stage3", "stage4")
    <2>1. /\ stage' = "stage4" /\ packed' = packed /\ result' = result /\ dirs' = dirs /\ search' = NoSearch
          /\ ShellShaped' /\ \A s \in Sections \ {"stage3"} : shell'[s] = shell[s]
      BY <1>3, <1>5, OneSection DEF Opens, Go
    <2>2. Within(Stages64) /\ SearchShaped' /\ RightCandidateIsFound' /\ dirs' \in HeaderType
      <3>1. stage \in Stages64 /\ stage' \in Stages64 \cup {"end"}
        BY <1>1, <2>1 DEF Stages64, Opening64
      <3>2. Within(Stages64)
        BY <2>1, <3>1 DEF Within
      <3>3. SearchShaped'
        BY <2>1, NothingTried
      <3>4. RightCandidateIsFound' /\ dirs' \in HeaderType
        BY <1>1, <2>1, NotRefused DEF Shaped
      <3> QED BY <3>2, <3>3, <3>4
    <2>3. Shaped'
      BY <1>1, <2>1, <2>2, KeepsShape
    <2>4. Searches64'
      BY <1>1, <2>1 DEF SInv, Searched, Searches64, Sections
    <2>5. Searches32'
      BY <2>1 DEF Searches32
    <2> QED BY <2>1, <2>2, <2>3, <2>4, <2>5 DEF SInv, Searched, NoSearch
  <1>6. CASE GoesOn("stage3", Candidates3, packed.stage3)
    <2>1. /\ stage' = stage /\ packed' = packed /\ result' = result /\ dirs' = dirs
          /\ ShellShaped' /\ \A s \in Sections \ {"stage3"} : shell'[s] = shell[s]
      BY <1>3, <1>6, OneSection DEF GoesOn, Go
    <2>2. SearchShaped'
      BY <1>6 DEF GoesOn, SearchShaped
    <2>3. Within(Stages64) /\ RightCandidateIsFound' /\ dirs' \in HeaderType
      BY <1>1, <2>1, NotRefused DEF Within, Stages64, Opening64, Shaped
    <2>4. Shaped'
      BY <1>1, <2>1, <2>2, <2>3, KeepsShape
    <2>5. (Candidates3)' = Candidates3
      BY <2>1 DEF Candidates3, Rounds
    <2>6. Trying("stage3", packed.stage3, Candidates3)'
      BY <1>6, <2>1, <2>5 DEF GoesOn, Trying, Before
    <2>7. Searches64'
      BY <1>1, <2>1, <2>6 DEF SInv, Searched, Searches64, Sections
    <2>8. Searches32'
      BY <1>1, <2>1 DEF Searches32
    <2> QED BY <1>1, <2>1, <2>3, <2>4, <2>7, <2>8 DEF SInv, Searched, Searching
  <1>7. GivesUp(Candidates3, "stage 3", packed.stage3) \/ Opens("stage3", "stage4") \/ GoesOn("stage3", Candidates3, packed.stage3)
    <2>1. shell = [s \in Sections |-> shell[s]]
      BY <1>3 DEF ShellShaped
    <2> QED BY <1>1, <1>2, <1>3, <2>1, TryStep
  <1> QED BY <1>4, <1>5, <1>6, <1>7

LEMMA Stage5Searches ==
  ASSUME SInv, Stage5
  PROVE  SInv'
  <1>1. stage = "stage5" /\ Shaped /\ result = <<"running">> /\ Trying("stage5", packed.stage5, Rounds(3))
    BY Running DEF Stage5, SInv, Searched, Searches64
  <1>2. Try("stage5", Rounds(3), "discover", "stage 5")
    BY DEF Stage5
  <1>3. Rounds(3) \in Seq(Nat) /\ packed.stage5 \in Nat /\ search.tried \in Seq(Nat) /\ ShellShaped /\ "stage5" \in Sections
    BY <1>1, CandidatesAre, TypesOf DEF Shaped, SearchShaped, Sections
  <1>4. CASE GivesUp(Rounds(3), "stage 5", packed.stage5)
    <2>1. \A k \in 1..Len(Rounds(3)) : Rounds(3)[k] # packed.stage5
      BY <1>4 DEF GivesUp
    <2>2. packed.stage5 \notin 0..8
      <3>1. 3 \in 3..4
        OBVIOUS
      <3>2. Len(Rounds(3)) = 9 /\ \A v \in 0..8 : \E k \in 1..9 : Rounds(3)[k] = v
        BY RoundsAre, <3>1
      <3> QED BY <2>1, <3>2
    <2>3. Decline("stage 5") /\ result' = <<"refused", "stage 5">> /\ packed' = packed
      BY <1>4 DEF GivesUp, Decline
    <2>4. RightCandidateIsFound'
      BY <2>2, <2>3 DEF RightCandidateIsFound
    <2> QED BY <1>1, <2>3, <2>4, DeclineStep
  <1>5. CASE Opens("stage5", "discover")
    <2>1. /\ stage' = "discover" /\ packed' = packed /\ result' = result /\ dirs' = dirs /\ search' = NoSearch
          /\ ShellShaped' /\ \A s \in Sections \ {"stage5"} : shell'[s] = shell[s]
      BY <1>3, <1>5, OneSection DEF Opens, Go
    <2>2. Within(Stages64) /\ SearchShaped' /\ RightCandidateIsFound' /\ dirs' \in HeaderType
      <3>1. stage \in Stages64 /\ stage' \in Stages64 \cup {"end"}
        BY <1>1, <2>1 DEF Stages64, Opening64
      <3>2. Within(Stages64)
        BY <2>1, <3>1 DEF Within
      <3>3. SearchShaped'
        BY <2>1, NothingTried
      <3>4. RightCandidateIsFound' /\ dirs' \in HeaderType
        BY <1>1, <2>1, NotRefused DEF Shaped
      <3> QED BY <3>2, <3>3, <3>4
    <2>3. Shaped'
      BY <1>1, <2>1, <2>2, KeepsShape
    <2>4. Searched'
      BY <2>1, <2>2, PastSearches DEF Past
    <2> QED BY <2>3, <2>4 DEF SInv
  <1>6. CASE GoesOn("stage5", Rounds(3), packed.stage5)
    <2>1. /\ stage' = stage /\ packed' = packed /\ result' = result /\ dirs' = dirs
          /\ ShellShaped' /\ \A s \in Sections \ {"stage5"} : shell'[s] = shell[s]
      BY <1>3, <1>6, OneSection DEF GoesOn, Go
    <2>2. SearchShaped'
      BY <1>6 DEF GoesOn, SearchShaped
    <2>3. Within(Stages64) /\ RightCandidateIsFound' /\ dirs' \in HeaderType
      BY <1>1, <2>1, NotRefused DEF Within, Stages64, Opening64, Shaped
    <2>4. Shaped'
      BY <1>1, <2>1, <2>2, <2>3, KeepsShape
    <2>5. (Rounds(3))' = Rounds(3)
      BY <2>1 DEF Rounds
    <2>6. Trying("stage5", packed.stage5, Rounds(3))'
      BY <1>6, <2>1, <2>5 DEF GoesOn, Trying, Before
    <2>7. Searches64'
      BY <1>1, <2>1, <2>6 DEF SInv, Searched, Searches64, Sections
    <2>8. Searches32'
      BY <1>1, <2>1 DEF Searches32
    <2> QED BY <1>1, <2>1, <2>3, <2>4, <2>7, <2>8 DEF SInv, Searched, Searching
  <1>7. GivesUp(Rounds(3), "stage 5", packed.stage5) \/ Opens("stage5", "discover") \/ GoesOn("stage5", Rounds(3), packed.stage5)
    <2>1. shell = [s \in Sections |-> shell[s]]
      BY <1>3 DEF ShellShaped
    <2> QED BY <1>1, <1>2, <1>3, <2>1, TryStep
  <1> QED BY <1>4, <1>5, <1>6, <1>7

LEMMA ThirdSearches ==
  ASSUME SInv, Third
  PROVE  SInv'
  <1>1. stage = "third" /\ Shaped /\ result = <<"running">> /\ Trying("third", packed.third, Shifts)
    BY Running DEF Third, SInv, Searched, Searches32
  <1>2. Try("third", Shifts, "fourth", "third stage")
    BY DEF Third
  <1>3. Shifts \in Seq(Nat) /\ packed.third \in Nat /\ search.tried \in Seq(Nat) /\ ShellShaped /\ "third" \in Sections
    BY <1>1, CandidatesAre, TypesOf DEF Shaped, SearchShaped, Sections
  <1>4. CASE GivesUp(Shifts, "third stage", packed.third)
    <2>1. \A k \in 1..Len(Shifts) : Shifts[k] # packed.third
      BY <1>4 DEF GivesUp
    <2>2. \A k \in DOMAIN Shifts : Shifts[k] # packed.third
      <3>1. DOMAIN Shifts = 1..Len(Shifts)
        BY <1>3
      <3> QED BY <2>1, <3>1
    <2>3. Decline("third stage") /\ result' = <<"refused", "third stage">> /\ packed' = packed
      BY <1>4 DEF GivesUp, Decline
    <2>4. RightCandidateIsFound'
      BY <2>2, <2>3 DEF RightCandidateIsFound
    <2> QED BY <1>1, <2>3, <2>4, DeclineStep
  <1>5. CASE Opens("third", "fourth")
    <2>1. /\ stage' = "fourth" /\ packed' = packed /\ result' = result /\ dirs' = dirs /\ search' = NoSearch
          /\ ShellShaped' /\ \A s \in Sections \ {"third"} : shell'[s] = shell[s]
      BY <1>3, <1>5, OneSection DEF Opens, Go
    <2>2. Within(Stages32) /\ SearchShaped' /\ RightCandidateIsFound' /\ dirs' \in HeaderType
      <3>1. stage \in Stages32 /\ stage' \in Stages32 \cup {"end"}
        BY <1>1, <2>1 DEF Stages32, Opening32
      <3>2. Within(Stages32)
        BY <2>1, <3>1 DEF Within
      <3>3. SearchShaped'
        BY <2>1, NothingTried
      <3>4. RightCandidateIsFound' /\ dirs' \in HeaderType
        BY <1>1, <2>1, NotRefused DEF Shaped
      <3> QED BY <3>2, <3>3, <3>4
    <2>3. Shaped'
      BY <1>1, <2>1, <2>2, KeepsShape
    <2>4. Searches32'
      BY <1>1, <2>1 DEF SInv, Searched, Searches32, Sections
    <2>5. Searches64'
      BY <2>1 DEF Searches64
    <2> QED BY <2>1, <2>2, <2>3, <2>4, <2>5 DEF SInv, Searched, NoSearch
  <1>6. CASE GoesOn("third", Shifts, packed.third)
    <2>1. /\ stage' = stage /\ packed' = packed /\ result' = result /\ dirs' = dirs
          /\ ShellShaped' /\ \A s \in Sections \ {"third"} : shell'[s] = shell[s]
      BY <1>3, <1>6, OneSection DEF GoesOn, Go
    <2>2. SearchShaped'
      BY <1>6 DEF GoesOn, SearchShaped
    <2>3. Within(Stages32) /\ RightCandidateIsFound' /\ dirs' \in HeaderType
      BY <1>1, <2>1, NotRefused DEF Within, Stages32, Opening32, Shaped
    <2>4. Shaped'
      BY <1>1, <2>1, <2>2, <2>3, KeepsShape
    <2>5. (Shifts)' = Shifts
      BY <2>1 DEF Shifts
    <2>6. Trying("third", packed.third, Shifts)'
      BY <1>6, <2>1, <2>5 DEF GoesOn, Trying, Before
    <2>7. Searches32'
      BY <1>1, <2>1, <2>6 DEF SInv, Searched, Searches32, Sections
    <2>8. Searches64'
      BY <1>1, <2>1 DEF Searches64
    <2> QED BY <1>1, <2>1, <2>3, <2>4, <2>7, <2>8 DEF SInv, Searched, Searching
  <1>7. GivesUp(Shifts, "third stage", packed.third) \/ Opens("third", "fourth") \/ GoesOn("third", Shifts, packed.third)
    <2>1. shell = [s \in Sections |-> shell[s]]
      BY <1>3 DEF ShellShaped
    <2> QED BY <1>1, <1>2, <1>3, <2>1, TryStep
  <1> QED BY <1>4, <1>5, <1>6, <1>7

LEMMA EighthSearches ==
  ASSUME SInv, Eighth
  PROVE  SInv'
  <1>1. stage = "eighth" /\ Shaped /\ result = <<"running">> /\ Trying("eighth", packed.eighth, Candidates8)
    BY Running DEF Eighth, SInv, Searched, Searches32
  <1>2. Try("eighth", Candidates8, "file decryptor", "eighth key not found")
    BY DEF Eighth, Candidates8
  <1>3. Candidates8 \in Seq(Nat) /\ packed.eighth \in Nat /\ search.tried \in Seq(Nat) /\ ShellShaped /\ "eighth" \in Sections
    BY <1>1, CandidatesAre, TypesOf DEF Shaped, SearchShaped, Sections
  <1>4. CASE GivesUp(Candidates8, "eighth key not found", packed.eighth)
    <2>1. \A k \in 1..Len(Candidates8) : Candidates8[k] # packed.eighth
      BY <1>4 DEF GivesUp
    <2>2. packed.eighth \notin 1..MaxCandidates
      <3>1. Len(Candidates8) = MaxCandidates /\ MaxCandidates \in Nat
        BY CandidatesAre, FilesAssumption
      <3>2. \A k \in 1..MaxCandidates : Candidates8[k] = k
        BY DEF Candidates8
      <3> QED BY <2>1, <3>1, <3>2
    <2>3. Decline("eighth key not found") /\ result' = <<"refused", "eighth key not found">> /\ packed' = packed
      BY <1>4 DEF GivesUp, Decline
    <2>4. RightCandidateIsFound'
      BY <2>2, <2>3 DEF RightCandidateIsFound
    <2> QED BY <1>1, <2>3, <2>4, DeclineStep
  <1>5. CASE Opens("eighth", "file decryptor")
    <2>1. /\ stage' = "file decryptor" /\ packed' = packed /\ result' = result /\ dirs' = dirs /\ search' = NoSearch
          /\ ShellShaped' /\ \A s \in Sections \ {"eighth"} : shell'[s] = shell[s]
      BY <1>3, <1>5, OneSection DEF Opens, Go
    <2>2. Within(Stages32) /\ SearchShaped' /\ RightCandidateIsFound' /\ dirs' \in HeaderType
      <3>1. stage \in Stages32 /\ stage' \in Stages32 \cup {"end"}
        BY <1>1, <2>1 DEF Stages32, Opening32
      <3>2. Within(Stages32)
        BY <2>1, <3>1 DEF Within
      <3>3. SearchShaped'
        BY <2>1, NothingTried
      <3>4. RightCandidateIsFound' /\ dirs' \in HeaderType
        BY <1>1, <2>1, NotRefused DEF Shaped
      <3> QED BY <3>2, <3>3, <3>4
    <2>3. Shaped'
      BY <1>1, <2>1, <2>2, KeepsShape
    <2>4. Searches64'
      BY <2>1 DEF Searches64
    <2>5. BlocksTried'
      <3>1. Len(search'.tried) = 0
        BY <2>1, NothingTried
      <3> QED BY <3>1 DEF BlocksTried
    <2>6. Searches32'
      BY <2>1, <2>5 DEF Searches32
    <2> QED BY <2>1, <2>2, <2>3, <2>4, <2>6 DEF SInv, Searched, Searching
  <1>6. CASE GoesOn("eighth", Candidates8, packed.eighth)
    <2>1. /\ stage' = stage /\ packed' = packed /\ result' = result /\ dirs' = dirs
          /\ ShellShaped' /\ \A s \in Sections \ {"eighth"} : shell'[s] = shell[s]
      BY <1>3, <1>6, OneSection DEF GoesOn, Go
    <2>2. SearchShaped'
      BY <1>6 DEF GoesOn, SearchShaped
    <2>3. Within(Stages32) /\ RightCandidateIsFound' /\ dirs' \in HeaderType
      BY <1>1, <2>1, NotRefused DEF Within, Stages32, Opening32, Shaped
    <2>4. Shaped'
      BY <1>1, <2>1, <2>2, <2>3, KeepsShape
    <2>5. (Candidates8)' = Candidates8
      BY <2>1 DEF Candidates8
    <2>6. Trying("eighth", packed.eighth, Candidates8)'
      BY <1>6, <2>1, <2>5 DEF GoesOn, Trying, Before
    <2>7. Searches32'
      BY <1>1, <2>1, <2>6 DEF SInv, Searched, Searches32, Sections
    <2>8. Searches64'
      BY <1>1, <2>1 DEF Searches64
    <2> QED BY <1>1, <2>1, <2>3, <2>4, <2>7, <2>8 DEF SInv, Searched, Searching
  <1>7. GivesUp(Candidates8, "eighth key not found", packed.eighth) \/ Opens("eighth", "file decryptor") \/ GoesOn("eighth", Candidates8, packed.eighth)
    <2>1. shell = [s \in Sections |-> shell[s]]
      BY <1>3 DEF ShellShaped
    <2> QED BY <1>1, <1>2, <1>3, <2>1, TryStep
  <1> QED BY <1>4, <1>5, <1>6, <1>7

-----------------------------------------------------------------------------
LEMMA TriedIs ==
  ASSUME Shaped
  PROVE  search.tried \in Seq(Nat) /\ Len(search.tried) \in Nat
  <1>1. search.tried \in Seq(Nat)
    BY DEF Shaped, SearchShaped
  <1> QED BY <1>1

LEMMA TablesAre ==
  ASSUME Shaped
  PROVE  /\ packed.tables \in Seq(Nat) /\ Len(packed.tables) \in Nat /\ DOMAIN packed.tables = 1..Len(packed.tables)
         /\ \A k \in 1..Len(packed.tables) : packed.tables[k] \in Nat
  <1>1. packed.tables \in Seq(Nat)
    BY TypesOf
  <1> QED BY <1>1

\* The sections of PE32 that have one key.
LEMMA Unlocks32 ==
  ASSUME SInv, Fourth \/ Fifth \/ Seventh
  PROVE  SInv'
  <1>1. stage \in {"fourth", "fifth", "seventh"} /\ Shaped /\ result = <<"running">> /\ search = NoSearch
    BY Running DEF Fourth, Fifth, Seventh, SInv, Searched, Searching
  <1>2. CASE Decline("fourth stage") \/ Decline("fifth stage") \/ Decline("seventh stage")
    <2>1. \A why \in {"fourth stage", "fifth stage", "seventh stage"} : why \notin Searches
      BY DEF Searches
    <2> QED BY <1>1, <1>2, <2>1, DeclineStep
  <1>3. CASE ~ (Decline("fourth stage") \/ Decline("fifth stage") \/ Decline("seventh stage"))
    <2>1. \E section \in {"fourth", "fifth", "seventh"} : shell' = [shell EXCEPT ![section] = <<>>]
      BY <1>3 DEF Fourth, Fifth, Seventh, Unlock
    <2>2. ShellShaped' /\ shell'["eighth"] = shell["eighth"]
      BY <2>1, <1>1, OneSection DEF Shaped, Sections
    <2>3. /\ packed' = packed /\ result' = result /\ dirs' = dirs /\ search' = NoSearch
          /\ stage' \in {"fifth", "seventh", "custom decryptor"}
      BY <1>1, <1>3 DEF Fourth, Fifth, Seventh, Unlock, Go
    <2>4. Within(Stages32)
      BY <1>1, <2>3 DEF Within, Stages32, Opening32
    <2>5. SearchShaped' /\ search'.tried = <<>> /\ Len(search'.tried) = 0
      BY <2>3, NothingTried
    <2>6. Shaped'
      BY <1>1, <2>2, <2>3, <2>4, <2>5, KeepsShape DEF Shaped
    <2>7. shell'["eighth"] = <<packed'.eighth>>
      BY <1>1, <2>2, <2>3 DEF SInv, Searched, Searches32
    <2>8. Searches32'
      BY <2>3, <2>7 DEF Searches32
    <2>9. Searches64'
      BY <2>3 DEF Searches64
    <2>10. RightCandidateIsFound'
      BY <1>1, <2>3, NotRefused
    <2> QED BY <2>3, <2>6, <2>8, <2>9, <2>10 DEF SInv, Searched, Searching
  <1> QED BY <1>2, <1>3

\* The eighth stage is still as the packer left it when its search begins.
LEMMA CustomSearches ==
  ASSUME SInv, CustomDecryptor
  PROVE  SInv'
  <1>1. stage = "custom decryptor" /\ Shaped /\ result = <<"running">> /\ search = NoSearch
    BY Running DEF CustomDecryptor, SInv, Searched, Searching
  <1>2. CASE packed.custom # "found"
    BY <1>1, <1>2, TypesOf, DeclineStep DEF CustomDecryptor
  <1>3. CASE packed.custom = "found"
    <2>1. /\ stage' = "eighth" /\ packed' = packed /\ result' = result
          /\ shell' = shell /\ dirs' = dirs /\ search' = NoSearch
      BY <1>1, <1>3 DEF CustomDecryptor, Quiet, Go
    <2>2. Within(Stages32)
      BY <1>1, <2>1 DEF Within, Stages32, Opening32
    <2>3. SearchShaped' /\ search'.tried = <<>> /\ Len(search'.tried) = 0
      BY <2>1, NothingTried
    <2>4. Shaped'
      BY <1>1, <2>1, <2>2, <2>3, KeepsShape DEF Shaped, ShellShaped
    <2>5. shell'["eighth"] = <<packed'.eighth>>
      BY <1>1, <2>1 DEF SInv, Searched, Searches32
    <2>6. Trying("eighth", packed.eighth, Candidates8)'
      <3>1. Candidates8' = Candidates8
        BY DEF Candidates8
      <3>2. Len(Candidates8) \in Nat
        BY CandidatesAre
      <3> QED BY <3>1, <3>2, <2>3, <2>5 DEF Trying, Before
    <2>7. Searches32'
      BY <2>1, <2>6 DEF Searches32
    <2>8. Searches64'
      BY <2>1 DEF Searches64
    <2>9. RightCandidateIsFound'
      BY <1>1, <2>1, NotRefused
    <2> QED BY <2>1, <2>4, <2>7, <2>8, <2>9 DEF SInv, Searched, Searching
  <1> QED BY <1>2, <1>3

LEMMA SecondSearches ==
  ASSUME SInv, Second
  PROVE  SInv'
  <1>1. stage = "second" /\ Shaped /\ result = <<"running">> /\ search = NoSearch
    BY Running DEF Second, SInv, Searched, Searching
  <1>2. /\ packed' = packed /\ result' = result /\ stage' = "third" /\ search' = NoSearch
        /\ shell' = [shell EXCEPT !["second"] = <<>>]
        /\ dirs' = [dirs EXCEPT !.imports = packed.anchored, !.relocations = packed.counted]
    BY <1>1 DEF Second, Go
  <1>3. ShellShaped' /\ shell'["third"] = shell["third"] /\ shell'["eighth"] = shell["eighth"]
    <2>1. ShellShaped' /\ \A s \in Sections \ {"second"} : shell'[s] = shell[s]
      BY <1>1, <1>2, OneSection DEF Shaped
    <2> QED BY <2>1 DEF Sections
  <1>4. dirs' \in HeaderType
    <2>1. dirs \in HeaderType /\ packed.anchored \in Places /\ packed.counted \in BOOLEAN
      BY <1>1, TypesOf DEF Shaped, Places
    <2> QED BY <1>2, <2>1 DEF HeaderType
  <1>5. SearchShaped' /\ search'.tried = <<>> /\ Len(search'.tried) = 0
    BY <1>2, NothingTried
  <1>6. Shaped'
    <2>1. Within(Stages32)
      BY <1>1, <1>2 DEF Within, Stages32, Opening32
    <2> QED BY <1>1, <1>3, <1>4, <1>5, <2>1, KeepsShape
  <1>7. shell'["third"] = <<packed'.third>> /\ shell'["eighth"] = <<packed'.eighth>>
    BY <1>1, <1>2, <1>3 DEF SInv, Searched, Searches32
  <1>8. Trying("third", packed.third, Shifts)'
    <2>1. Shifts' = Shifts /\ Len(Shifts) \in Nat
      BY CandidatesAre DEF Shifts
    <2> QED BY <2>1, <1>5, <1>7 DEF Trying, Before
  <1>9. Searches32'
    BY <1>2, <1>7, <1>8 DEF Searches32
  <1>10. Searches64'
    BY <1>2 DEF Searches64
  <1>11. RightCandidateIsFound'
    BY <1>1, <1>2, NotRefused
  <1> QED BY <1>2, <1>6, <1>9, <1>10, <1>11 DEF SInv, Searched, Searching

\* What the searches for a table know of the payload.
SeesTables(key) == ((shell["payload"] = <<>>) <=> packed.payload = key) /\ (packed.payload = key => TablesTried)

LooksForTable == stage \in {"tables", "all tables"}

\* A table is tried, and the second stage opens or the next one follows.
LEMMA TableStep ==
  ASSUME SInv, LooksForTable, ~ AllTried, TryTable
  PROVE  SInv'
  <1> DEFINE table == TablesSeen[Len(search.tried) + 1]
             key == IF stage = "tables" THEN 1 ELSE 2
  <1> HIDE DEF table
  <1>1. Shaped /\ result = <<"running">> /\ search.tried \in Seq(Nat) /\ Len(search.tried) \in Nat
    <2>1. Shaped
      BY DEF SInv
    <2>2. stage # "end"
      BY DEF LooksForTable
    <2>3. result = <<"running">>
      BY <2>1, <2>2, Running
    <2> QED BY <2>1, <2>3, TriedIs
  <1>2. /\ shell["second"] = <<packed.second>> /\ dirs.relocations
        /\ shell["third"] = <<packed.third>> /\ shell["eighth"] = <<packed.eighth>>
    BY DEF SInv, Searched, Searches32, LooksForTable
  <1>3. SeesTables(key)
    BY DEF SInv, Searched, Searches32, SeesTables, LooksForTable
  <1>4. stage = "all tables" => PrefixPassed /\ packed.longer
    BY DEF SInv, Searched, Searches32, LooksForTable
  <1>5. shell["payload"] = <<>> /\ TablesSeen = packed.tables
    <2>1. ASSUME shell["payload"] # <<>>
          PROVE  FALSE
      <3>1. TablesSeen = <<>>
        BY <2>1 DEF TablesSeen
      <3>2. Len(TablesSeen) = 0
        BY <3>1
      <3>3. Len(search.tried) >= 0
        BY <1>1
      <3> QED BY <3>2, <3>3 DEF AllTried
    <2> QED BY <2>1 DEF TablesSeen
  <1>6. packed.payload = key /\ TablesTried
    BY <1>3, <1>5 DEF SeesTables
  <1>7. /\ packed.tables \in Seq(Nat) /\ Len(search.tried) + 1 \in 1..Len(packed.tables)
        /\ table = packed.tables[Len(search.tried) + 1] /\ table \in Nat
    <2>1. ~ (Len(search.tried) >= Len(packed.tables))
      BY <1>5 DEF AllTried
    <2>2. Len(search.tried) + 1 \in 1..Len(packed.tables)
      <3>1. Len(search.tried) \in Nat /\ Len(packed.tables) \in Nat
        BY <1>1, TablesAre
      <3> QED BY <2>1, <3>1
    <2>3. table = packed.tables[Len(search.tried) + 1]
      BY <1>5 DEF table
    <2>4. packed.tables \in Seq(Nat) /\ packed.tables[Len(search.tried) + 1] \in Nat
      BY <1>1, <2>2, TablesAre
    <2> QED BY <2>2, <2>3, <2>4
  <1> HIDE DEF key
  <1>8. UNCHANGED <<packed, result, shell, program, dirs>>
    BY DEF TryTable, Go
  <1>9. ShellShaped' /\ dirs' \in HeaderType /\ RightCandidateIsFound'
    BY <1>1, <1>8, NotRefused DEF Shaped, ShellShaped
  <1>10. CASE OpensSecond(table)
    <2>1. stage' = "second" /\ search' = NoSearch
      BY <1>10 DEF TryTable, Go, table
    <2>2. SearchShaped'
      BY <2>1, NothingTried
    <2>3. Shaped'
      <3>1. Within(Stages32)
        BY <1>8, <2>1 DEF Within, Stages32, Opening32, LooksForTable
      <3> QED BY <1>1, <1>9, <2>2, <3>1, KeepsShape
    <2>4. Searches32'
      BY <1>2, <1>8, <2>1 DEF Searches32
    <2>5. Searches64'
      BY <2>1 DEF Searches64
    <2> QED BY <1>9, <2>1, <2>3, <2>4, <2>5 DEF SInv, Searched, Searching
  <1>11. CASE ~ OpensSecond(table)
    <2>1. stage' = stage /\ search' = [search EXCEPT !.tried = Append(search.tried, table)]
      BY <1>11 DEF TryTable, Go, table
    <2>2. table # packed.second
      BY <1>2, <1>11 DEF OpensSecond
    <2>3. /\ search'.tried = Append(search.tried, table)
          /\ search' = [tried |-> search'.tried, saved |-> search'.saved]
      BY <1>1, <2>1 DEF Shaped, SearchShaped
    <2>4. search'.tried \in Seq(Nat) /\ Len(search'.tried) = Len(search.tried) + 1
      <3>1. \A c \in Nat : Append(search.tried, c) \in Seq(Nat) /\ Len(Append(search.tried, c)) = Len(search.tried) + 1
        BY <1>1, AppendProperties
      <3> QED BY <1>7, <2>3, <3>1
    <2>5. SearchShaped'
      BY <2>3, <2>4 DEF SearchShaped
    <2>6. Shaped'
      <3>1. Within(Stages32)
        BY <1>8, <2>1 DEF Within, Stages32, Opening32, LooksForTable
      <3> QED BY <1>1, <1>9, <2>5, <3>1, KeepsShape
    <2>7. TablesTried'
      <3>1. ASSUME NEW k \in DOMAIN packed.tables, k <= Len(search'.tried)
            PROVE  packed.tables[k] # packed.second
        <4>1. k \in Nat
          <5>1. DOMAIN packed.tables = 1..Len(packed.tables) /\ Len(packed.tables) \in Nat
            BY <1>1, TablesAre
          <5>2. k \in 1..Len(packed.tables)
            BY <3>1, <5>1
          <5> QED BY <5>1, <5>2
        <4>2. CASE k <= Len(search.tried)
          BY <4>2, <1>6 DEF TablesTried
        <4>3. CASE k = Len(search.tried) + 1
          <5>1. packed.tables[k] = table
            BY <4>3, <1>7
          <5> QED BY <5>1, <2>2
        <4>4. k <= Len(search.tried) \/ k = Len(search.tried) + 1
          <5>1. Len(search.tried) \in Nat
            BY <1>1
          <5>2. k <= Len(search.tried) + 1
            BY <3>1, <2>4
          <5> QED BY <4>1, <5>1, <5>2
        <4> QED BY <4>2, <4>3, <4>4
      <3> QED BY <3>1, <1>8 DEF TablesTried
    <2>8. stage' = "all tables" => PrefixPassed' /\ packed'.longer
      BY <1>4, <1>8, <2>1 DEF PrefixPassed
    <2>9. Searches32'
      BY <1>2, <1>3, <1>8, <2>1, <2>7, <2>8 DEF Searches32, SeesTables, key, LooksForTable
    <2>10. Searches64'
      BY <2>1 DEF Searches64, LooksForTable
    <2> QED BY <1>9, <2>1, <2>6, <2>9, <2>10 DEF SInv, Searched, Searching, LooksForTable
  <1> QED BY <1>10, <1>11

\* Every table that is seen was tried.
LEMMA TablesPassed ==
  ASSUME Shaped, TablesTried, AllTried, shell["payload"] = <<>>
  PROVE  \A k \in DOMAIN packed.tables : packed.tables[k] # packed.second
  <1>1. packed.tables \in Seq(Nat) /\ Len(search.tried) \in Nat /\ Len(search.tried) >= Len(packed.tables)
    BY TypesOf DEF Shaped, SearchShaped, AllTried, TablesSeen
  <1>2. \A k \in DOMAIN packed.tables : k <= Len(search.tried)
    BY <1>1
  <1> QED BY <1>2 DEF TablesTried

LEMMA PrefixSearches ==
  ASSUME SInv, PrefixTables
  PROVE  SInv'
  <1>1. stage = "tables" /\ Shaped /\ result = <<"running">>
    BY Running DEF PrefixTables, SInv
  <1>2. CASE ~ AllTried
    BY <1>1, <1>2, TableStep DEF PrefixTables, LooksForTable
  <1>3. CASE AllTried
    <2>1. PrefixPassed
      <3>1. packed.payload = 1 => TablesTried /\ shell["payload"] = <<>>
        BY <1>1 DEF SInv, Searched, Searches32
      <3> QED BY <3>1, <1>1, <1>3, TablesPassed DEF PrefixPassed
    <2>2. CASE packed.longer
      <3>1. stage' = "whole payload" /\ UNCHANGED <<packed, result, shell, program, dirs, search>>
        BY <1>3, <2>2 DEF PrefixTables, Quiet, Go
      <3>2. Shaped'
        <4>1. Within(Stages32)
          BY <1>1, <3>1 DEF Within, Stages32, Opening32
        <4> QED BY <1>1, <3>1, <4>1, KeepsShape DEF Shaped, ShellShaped, SearchShaped
      <3>3. PrefixPassed' /\ packed'.longer
        BY <2>1, <2>2, <3>1 DEF PrefixPassed
      <3>4. Searches32'
        BY <1>1, <3>1, <3>3 DEF SInv, Searched, Searches32
      <3>5. Searches64'
        BY <3>1 DEF Searches64
      <3>6. RightCandidateIsFound'
        BY <1>1, <3>1, NotRefused
      <3> QED BY <3>1, <3>2, <3>4, <3>5, <3>6 DEF SInv, Searched, Searching
    <2>3. CASE ~ packed.longer
      <3>1. Decline("table not found") /\ result' = <<"refused", "table not found">> /\ packed' = packed
        BY <1>3, <2>3 DEF PrefixTables, Decline
      <3>2. RightCandidateIsFound'
        BY <2>1, <2>3, <3>1 DEF RightCandidateIsFound, PrefixPassed
      <3> QED BY <1>1, <3>1, <3>2, DeclineStep
    <2> QED BY <2>2, <2>3
  <1> QED BY <1>2, <1>3

LEMMA WholeSearches ==
  ASSUME SInv, WholePayload
  PROVE  SInv'
  <1>1. stage = "whole payload" /\ Shaped /\ result = <<"running">> /\ PrefixPassed /\ packed.longer
    BY Running DEF WholePayload, SInv, Searched, Searches32
  <1>2. /\ packed' = packed /\ result' = result /\ dirs' = dirs /\ stage' = "all tables" /\ search' = NoSearch
        /\ shell' = [shell EXCEPT !["payload"] = Open(2, <<packed.payload>>)]
    BY DEF WholePayload, Go
  <1>3. ShellShaped' /\ \A s \in Sections \ {"payload"} : shell'[s] = shell[s]
    BY <1>1, <1>2, OneSection DEF Shaped
  <1>4. (shell'["payload"] = <<>>) <=> packed.payload = 2
    <2>1. shell'["payload"] = Open(2, <<packed.payload>>)
      BY <1>1, <1>2 DEF Shaped, ShellShaped, Sections
    <2>2. 2 \in Nat /\ packed.payload \in Nat
      BY <1>1, TypesOf
    <2> QED BY <2>1, <2>2, OpensForItsKey
  <1>5. SearchShaped' /\ search'.tried = <<>> /\ Len(search'.tried) = 0
    BY <1>2, NothingTried
  <1>6. Shaped'
    <2>1. Within(Stages32)
      BY <1>1, <1>2 DEF Within, Stages32, Opening32
    <2> QED BY <1>1, <1>2, <1>3, <1>5, <2>1, KeepsShape DEF Shaped
  <1>7. TablesTried'
    <2>1. packed.tables \in Seq(Nat)
      BY <1>1, TypesOf
    <2>2. \A k \in DOMAIN packed.tables : ~ (k <= Len(search'.tried))
      BY <1>5, <2>1
    <2> QED BY <2>2, <1>2 DEF TablesTried
  <1>8. /\ shell'["second"] = <<packed'.second>> /\ dirs'.relocations
        /\ shell'["third"] = <<packed'.third>> /\ shell'["eighth"] = <<packed'.eighth>>
    BY <1>1, <1>2, <1>3 DEF SInv, Searched, Searches32, Sections
  <1>9. PrefixPassed' /\ packed'.longer
    BY <1>1, <1>2 DEF PrefixPassed
  <1>10. Searches32'
    BY <1>2, <1>4, <1>7, <1>8, <1>9 DEF Searches32
  <1>11. Searches64'
    BY <1>2 DEF Searches64
  <1>12. RightCandidateIsFound'
    BY <1>1, <1>2, NotRefused
  <1> QED BY <1>2, <1>6, <1>10, <1>11, <1>12 DEF SInv, Searched, Searching

LEMMA AllTablesSearches ==
  ASSUME SInv, AllTables
  PROVE  SInv'
  <1>1. stage = "all tables" /\ Shaped /\ result = <<"running">> /\ PrefixPassed
    BY Running DEF AllTables, SInv, Searched, Searches32
  <1>2. CASE ~ AllTried
    BY <1>1, <1>2, TableStep DEF AllTables, LooksForTable
  <1>3. CASE AllTried
    <2>1. Decline("table not found") /\ result' = <<"refused", "table not found">> /\ packed' = packed
      BY <1>3 DEF AllTables, Decline
    <2>2. packed.payload = 2 => \A k \in DOMAIN packed.tables : packed.tables[k] # packed.second
      <3>1. packed.payload = 2 => TablesTried /\ shell["payload"] = <<>>
        BY <1>1 DEF SInv, Searched, Searches32
      <3> QED BY <3>1, <1>1, <1>3, TablesPassed
    <2>3. RightCandidateIsFound'
      BY <1>1, <2>1, <2>2 DEF RightCandidateIsFound, PrefixPassed
    <2> QED BY <1>1, <2>1, <2>3, DeclineStep
  <1> QED BY <1>2, <1>3

LEMMA DecryptorSearches ==
  ASSUME SInv, FileDecryptor
  PROVE  SInv'
  <1> DEFINE k == Len(search.tried) + 1
  <1>1. stage = "file decryptor" /\ Shaped /\ result = <<"running">> /\ BlocksTried
    BY Running DEF FileDecryptor, SInv, Searched, Searches32
  <1>2. search.tried \in Seq(Nat) /\ Len(search.tried) \in Nat /\ k \in Nat /\ k >= 1
    <2>1. search.tried \in Seq(Nat) /\ Len(search.tried) \in Nat
      BY <1>1, TriedIs
    <2> QED BY <2>1
  <1> DEFINE here == packed.decryptor = 0 \/ (k <= 2 /\ Validates(k))
  <1> HIDE DEF k
  <1>3. CASE here
    <2>1. CASE packed.operations
      <3>1. stage' = "reading" /\ search' = NoSearch /\ UNCHANGED <<packed, result, shell, dirs>>
        BY <1>3, <2>1 DEF FileDecryptor, Go, k
      <3>2. SearchShaped'
        BY <3>1, NothingTried
      <3>3. Shaped'
        <4>1. Within(Stages32)
          BY <1>1, <3>1 DEF Within, Stages32, Opening32
        <4> QED BY <1>1, <3>1, <3>2, <4>1, KeepsShape DEF Shaped, ShellShaped
      <3>4. RightCandidateIsFound'
        BY <1>1, <3>1, NotRefused
      <3>5. Searched'
        BY <3>1, <3>4, PastSearches DEF Past
      <3> QED BY <3>3, <3>5 DEF SInv
    <2>2. CASE ~ packed.operations
      <3>1. Decline("bytecode") /\ "bytecode" \notin Searches
        BY <1>3, <2>2 DEF FileDecryptor, Searches, k
      <3> QED BY <1>1, <3>1, DeclineStep
    <2> QED BY <2>1, <2>2
  <1>4. CASE ~ here /\ k > 2
    <2>1. /\ Decline("file decryptor not found") /\ packed' = packed
          /\ result' = <<"refused", "file decryptor not found">>
      BY <1>4 DEF FileDecryptor, Decline, k
    <2>2. ~ Validates(1) /\ ~ Validates(2)
      <3>1. 1 \in 1..2 /\ 2 \in 1..2 /\ 1 <= Len(search.tried) /\ 2 <= Len(search.tried)
        BY <1>2, <1>4 DEF k
      <3> QED BY <1>1, <3>1 DEF BlocksTried
    <2>3. packed.decryptor \notin 1..2 \/ ~ packed.compressed
      BY <2>2 DEF Validates
    <2>4. RightCandidateIsFound'
      BY <2>1, <2>3 DEF RightCandidateIsFound
    <2> QED BY <1>1, <2>1, <2>4, DeclineStep
  <1>5. CASE ~ here /\ ~ (k > 2)
    <2>1. /\ stage' = stage /\ UNCHANGED <<packed, result, shell, dirs>>
          /\ search' = [search EXCEPT !.tried = Append(search.tried, k)]
      BY <1>5 DEF FileDecryptor, Go, k
    <2>2. /\ search'.tried = Append(search.tried, k)
          /\ search' = [tried |-> search'.tried, saved |-> search'.saved]
      BY <1>1, <2>1 DEF Shaped, SearchShaped
    <2>3. search'.tried \in Seq(Nat) /\ Len(search'.tried) = k
      <3>1. \A c \in Nat : Append(search.tried, c) \in Seq(Nat) /\ Len(Append(search.tried, c)) = Len(search.tried) + 1
        BY <1>2, AppendProperties
      <3> QED BY <1>2, <2>2, <3>1 DEF k
    <2>4. Shaped'
      <3>1. Within(Stages32)
        BY <1>1, <2>1 DEF Within, Stages32, Opening32
      <3> QED BY <1>1, <2>1, <2>2, <2>3, <3>1, KeepsShape DEF Shaped, ShellShaped, SearchShaped
    <2>5. BlocksTried'
      <3>1. ASSUME NEW j \in 1..2, j <= k
            PROVE  ~ Validates(j)
        <4>1. CASE j = k
          BY <4>1, <1>5
        <4>2. CASE j <= Len(search.tried)
          BY <4>2, <1>1 DEF BlocksTried
        <4> QED BY <4>1, <4>2, <3>1, <1>2 DEF k
      <3> QED BY <3>1, <2>1, <2>3 DEF BlocksTried, Validates
    <2>6. Searches32'
      BY <1>1, <2>1, <2>5 DEF Searches32
    <2>7. Searches64'
      BY <1>1, <2>1 DEF Searches64
    <2>8. RightCandidateIsFound'
      BY <1>1, <2>1, NotRefused
    <2> QED BY <1>1, <2>1, <2>4, <2>6, <2>7, <2>8 DEF SInv, Searched, Searching
  <1> QED BY <1>3, <1>4, <1>5

-----------------------------------------------------------------------------
LEMMA ShellIs ==
  ASSUME IsPacked(packed), shell = Shell(packed)
  PROVE  /\ ShellShaped
         /\ shell["payload"] = <<packed.payload>> /\ shell["second"] = <<packed.second>>
         /\ shell["third"] = <<packed.third>> /\ shell["eighth"] = <<packed.eighth>>
         /\ shell["stage3"] = <<packed.stage3>> /\ shell["stage5"] = <<packed.stage5>>
  <1> DEFINE key == [payload |-> packed.payload, second |-> packed.second, third |-> packed.third,
                     eighth |-> packed.eighth, stage3 |-> packed.stage3, stage5 |-> packed.stage5]
             searched == {"payload", "second", "third", "eighth", "stage3", "stage5"}
  <1>1. shell = [s \in Sections |-> IF s = packed.damaged THEN <<NoCandidate>>
                                    ELSE IF s \in DOMAIN key THEN <<key[s]>> ELSE <<0>>]
    BY DEF Shell
  <1>2. packed.damaged \notin searched
    BY DEF IsPacked
  <1>3. DOMAIN key = searched
    OBVIOUS
  <1>4. searched \subseteq Sections
    BY DEF Sections
  <1>5. ASSUME NEW s \in searched
        PROVE  shell[s] = <<key[s]>>
    <2>1. s \in Sections /\ s # packed.damaged /\ s \in DOMAIN key
      BY <1>2, <1>3, <1>4
    <2> HIDE DEF key, searched
    <2> QED BY <1>1, <2>1
  <1>6. ShellShaped
    BY <1>1 DEF ShellShaped
  <1> QED BY <1>5, <1>6

LEMMA InitSearches ==
  ASSUME RebuildInit
  PROVE  SInv
  <1>1. /\ packed \in Files /\ stage = "header" /\ shell = Shell(packed) /\ search = NoSearch /\ result = <<"running">>
        /\ dirs = [imports |-> "stub", relocations |-> TRUE, flags |-> packed.flags, entry |-> "stub",
                   tls |-> FALSE, clr |-> FALSE, addresses |-> FALSE, held |-> FALSE]
    BY DEF RebuildInit
  <1>2. IsPacked(packed)
    BY <1>1, PackedIs
  <1>3. dirs \in HeaderType
    <2>1. packed.flags \in Characteristics
      BY <1>2 DEF IsPacked
    <2> QED BY <1>1, <2>1 DEF HeaderType, Places, Entries
  <1>4. SearchShaped
    <2>1. search.tried = <<>> /\ search = [tried |-> search.tried, saved |-> search.saved]
      BY <1>1 DEF NoSearch
    <2> QED BY <2>1 DEF SearchShaped
  <1>5. Shaped
    BY <1>1, <1>2, <1>3, <1>4, ShellIs, StagesApart DEF Shaped
  <1>6. dirs.relocations
    BY <1>1
  <1>7. Searches64 /\ Searches32
    BY <1>1, <1>2, <1>6, ShellIs DEF Searches64, Searches32
  <1>8. result[1] # "refused"
    BY <1>1
  <1>9. RightCandidateIsFound
    BY <1>8 DEF RightCandidateIsFound
  <1> QED BY <1>1, <1>5, <1>7, <1>9 DEF SInv, Searched

LEMMA StuttersSearched ==
  ASSUME SInv, UNCHANGED pipeline
  PROVE  SInv'
  <1>1. UNCHANGED <<packed, stage, shell, program, dirs, search, result>>
    BY DEF pipeline
  <1>2. Shaped'
    BY <1>1 DEF SInv, Shaped, ShellShaped, SearchShaped
  <1>3. Searches64'
    <2>1. Trying("stage3", packed.stage3, Candidates3)' = Trying("stage3", packed.stage3, Candidates3)
          /\ Trying("stage5", packed.stage5, Rounds(3))' = Trying("stage5", packed.stage5, Rounds(3))
      BY <1>1 DEF Trying, Before, Candidates3, Rounds
    <2> QED BY <1>1, <2>1 DEF SInv, Searched, Searches64
  <1>4. Searches32'
    <2>1. Trying("third", packed.third, Shifts)' = Trying("third", packed.third, Shifts)
          /\ Trying("eighth", packed.eighth, Candidates8)' = Trying("eighth", packed.eighth, Candidates8)
      BY <1>1 DEF Trying, Before, Candidates8, Shifts
    <2>2. TablesTried' = TablesTried /\ PrefixPassed' = PrefixPassed /\ BlocksTried' = BlocksTried
      BY <1>1 DEF TablesTried, PrefixPassed, BlocksTried, Validates
    <2> QED BY <1>1, <2>1, <2>2 DEF SInv, Searched, Searches32
  <1>5. RightCandidateIsFound'
    BY <1>1 DEF SInv, Searched, RightCandidateIsFound
  <1> QED BY <1>1, <1>2, <1>3, <1>4, <1>5 DEF SInv, Searched, NoSearch

LEMMA NextSearches ==
  ASSUME SInv, [RebuildNext]_pipeline
  PROVE  SInv'
  <1>1. CASE Header
    BY <1>1, HeaderSearches
  <1>2. CASE Payload
    BY <1>2, PayloadSearches
  <1>3. CASE Exe64Next
    BY <1>3, Locate64Searches, Stage3Searches, Stage5Searches, LateActions64 DEF Exe64Next
  <1>4. CASE Exe32Next
    BY <1>4, PrefixSearches, WholeSearches, AllTablesSearches, SecondSearches, ThirdSearches, Unlocks32, CustomSearches, EighthSearches,
       DecryptorSearches, LateActions32 DEF Exe32Next
  <1>5. CASE Dll64Next
    BY <1>5, ActionsDll
  <1>6. CASE UNCHANGED pipeline
    BY <1>6, StuttersSearched
  <1> QED BY <1>1, <1>2, <1>3, <1>4, <1>5, <1>6 DEF RebuildNext, RebuildDone

\* A search that gives up did not meet the packer's key: no candidate decodes what an
\* earlier one left behind (restores in pipeline.rs 818-864, pe32.rs 41-58, 283-320 and
\* 560-585).
THEOREM RightCandidates == RebuildSpec => []RightCandidateIsFound
  <1>1. RebuildInit => SInv
    BY InitSearches
  <1>2. SInv /\ [RebuildNext]_pipeline => SInv'
    BY NextSearches
  <1>3. SInv => RightCandidateIsFound
    BY DEF SInv, Searched
  <1> QED BY <1>1, <1>2, <1>3, PTL DEF RebuildSpec

-----------------------------------------------------------------------------
\* The program under its blocks, with its names decoded from the table of the shell, and
\* with the exports of the header page.
Named == IF packed.table THEN AllNames(Bare) ELSE Bare
Copied == Exports(Bare)
CopiedNamed == Exports(Named)
WipedCovered == Wiped(Covered)
WipedBare == Wiped(Bare)
CopiedWiped == Exports(WipedBare)

\* A formula took the page layer off.
PagedNamed == Paged(CopiedNamed)
PagedNew == IF packed.entry = "text" THEN Paged(Copied) ELSE Copied

NamesCovered(regions) == \A n \in Names : regions[n] = <<"name">>
ImageLoads == Loadable(program)
NamesOpen == NamesPlain(program)
NamesWait == NamesCovered(program)

\* The PE32+ pipeline.
Image64 ==
  /\ stage \in Opening64 => program = Covered
  /\ stage \in {"zero", "names"} => program = Bare
  /\ stage \in {"names", "pages"} => ~ packed.new
  /\ stage \in {"late pages", "imports"} => packed.new
  /\ stage = "sections" => program = IF packed.new THEN Bare ELSE Named
  /\ stage = "pages" => program = CopiedNamed
  /\ stage = "metadata" => program = IF packed.new THEN Copied ELSE PagedNamed
  /\ stage = "late pages" => program = Copied
  /\ stage = "imports" => program = PagedNew
  /\ stage \in {"clr", "tls", "flags"} =>
       ImageLoads /\ (CodeShows /\ NamesShow /\ dirs.imports = "table" => NamesOpen)
  /\ stage \in {"tls", "flags"} =>
       /\ packed.clr \in {"whole", "no signature"} => program["clr"] = <<>>
       /\ packed.clr = "whole" => program["metadata"] = <<>>
       /\ packed.clr = "whole" /\ packed.resources /\ ~ packed.new => program["resources"] = <<>>
  /\ stage = "flags" => (dirs.tls => program["tls"] = <<>>)

Header64 ==
  /\ stage \in Stages64 \ {"clr", "tls", "flags"} => ~ dirs.addresses
  /\ stage \in {"pages", "metadata"} => dirs.flags = packed.flags /\ dirs.entry = "stub"
  /\ stage \in Rebuilt64 =>
       /\ dirs.flags = packed.flags /\ dirs.relocations = packed.relocatable
       /\ dirs.imports \in {"none", "table"} /\ dirs.entry # "garbled"
       /\ dirs.addresses => dirs.imports = "table"
       /\ dirs.clr => packed.clr # "none"
  /\ stage = "late pages" => dirs.entry = packed.entry

\* The PE32 pipeline.
Image32 ==
  /\ stage \in Opening32 \cup {"zero list"} => program = Covered
  /\ stage = "file blocks" => program = WipedCovered
  /\ stage = "fix sections" => program = WipedBare
  /\ stage = "text pages" => program = CopiedWiped
  /\ stage \in Paged32 \ {"compact"} => ImageLoads
  /\ stage \in Paged32 \ {"idata", "compact"} => (CodeShows => NamesWait)
  /\ stage \in {"directories", "tls directory", "rearm"} => program["fixups"] = Under("fixups")
  /\ stage \in {"import names", "idata", "compact"} =>
       (packed.dll /\ packed.relocatable /\ packed.tls # "none" => program["fixups"] = <<>>)
  /\ stage \in {"rearm", "import names", "idata", "compact"} =>
       (dirs.tls => program["tls"] \in {<<>>, <<"placeholder">>})
  /\ stage = "idata" => (CodeShows /\ NamesShow /\ dirs.imports = "table" => NamesOpen)
  /\ stage = "compact" =>
       /\ CodeShows /\ NamesShow /\ dirs.imports \in {"table", "kmiat"} => NamesOpen
       /\ CodeShows => program["code"] = <<>>
       /\ packed.exports = "held" => program["exports"] = <<>>
       /\ dirs.imports = "table" /\ ~ (packed.tableLast /\ ~ packed.room) => program["table"] = <<>>

\* What the PE32 pipeline leaves of the characteristics and of the entry point.
Flags32 == IF packed.dll THEN Ensured(packed.flags) ELSE "zero"
Entry32 == IF packed.entry = "zero" THEN "stub" ELSE packed.entry

Header32 ==
  /\ stage \in Held32 => dirs.held
  /\ stage \in {"text pages", "directories"} => dirs.flags = packed.flags
  /\ stage \in Rebuilt32 => dirs.relocations = (packed.dll /\ packed.relocatable) /\ dirs.flags = Flags32
  /\ stage \in {"tls directory", "rearm", "import names"} => dirs.imports = packed.listed
  /\ stage \in {"idata", "compact"} => dirs.entry = Entry32
  /\ stage = "idata" => dirs.imports \in {"none", "table"}
  /\ stage = "compact" => dirs.imports \in {"none", "table", "kmiat"} /\ (dirs.addresses => dirs.imports = "table")

\* The DLL pipeline.
FromFile == {"clr", "metadata", "resources"}
Prefilled == IF packed.clr = "none" THEN Covered ELSE FromStub(Covered, FromFile)

ImageDll ==
  /\ stage \in OpeningDll => program = Covered
  /\ stage = "dll blocks" => program = Prefilled
  /\ stage \in {"dll names", "dll header", "dll metadata"} =>
       /\ program = [r \in Regions(packed) |-> program[r]]
       /\ CodeShows => program["code"] = <<>>
       /\ program["table"] = <<>> /\ program["meta"] = <<"meta">>
       /\ packed.clr = "whole" => program["clr"] = <<>> /\ program["metadata"] = <<>>
       /\ packed.clr = "whole" /\ packed.resources => program["resources"] = <<>>
  /\ stage = "dll names" => (CodeShows => NamesWait)
  /\ stage \in {"dll header", "dll metadata"} => (CodeShows /\ NamesShow => NamesOpen)
  /\ stage = "dll metadata" => (packed.exports = "held" => program["exports"] = <<>>)

HeaderDll ==
  /\ stage \in StagesDll => ~ dirs.addresses
  /\ stage = "dll metadata" => dirs.relocations = packed.relocatable /\ dirs.flags = packed.flags

Rebuilt ==
  /\ stage \in {"header", "payload"} => program = Covered /\ ~ dirs.addresses
  /\ Image64 /\ Header64 /\ Image32 /\ Header32 /\ ImageDll /\ HeaderDll
  /\ OutputIsPlain /\ HeaderMatchesImage

\* The inductive invariant of the image.
RInv == SInv /\ Rebuilt

-----------------------------------------------------------------------------
\* What only the protected file decides.
LEMMA SamePacked ==
  ASSUME packed' = packed
  PROVE  /\ Covered' = Covered /\ Bare' = Bare /\ Named' = Named /\ Copied' = Copied
         /\ CopiedNamed' = CopiedNamed /\ WipedCovered' = WipedCovered /\ WipedBare' = WipedBare
         /\ CopiedWiped' = CopiedWiped /\ PagedNamed' = PagedNamed /\ PagedNew' = PagedNew /\ Prefilled' = Prefilled
         /\ (CodeShows' <=> CodeShows) /\ (NamesShow' <=> NamesShow) /\ Names' = Names
         /\ Under("fixups")' = Under("fixups") /\ (OldLayout' <=> OldLayout) /\ (Fixed' <=> Fixed)
         /\ Flags32' = Flags32 /\ Entry32' = Entry32
  <1>1. Names' = Names /\ Lost' = Lost
    BY DEF Names, Lost
  <1>2. Covered' = Covered /\ Bare' = Bare /\ Under("fixups")' = Under("fixups")
    BY <1>1 DEF Covered, Bare, Cover, Under, Regions, Areas
  <1>3. Named' = Named
    BY <1>1, <1>2 DEF Named, AllNames, Referenced, Remove
  <1>4. Copied' = Copied /\ CopiedNamed' = CopiedNamed
    BY <1>2, <1>3 DEF Copied, CopiedNamed, Exports, FromStub
  <1>5. WipedCovered' = WipedCovered /\ WipedBare' = WipedBare
    BY <1>2 DEF WipedCovered, WipedBare, Wiped
  <1>6. CopiedWiped' = CopiedWiped
    BY <1>5 DEF CopiedWiped, Exports, FromStub
  <1>7. PagedNamed' = PagedNamed
    BY <1>4 DEF PagedNamed, Paged, Selected, MinPadding, Remove, PageLayers
  <1>8. PagedNew' = PagedNew
    BY <1>4 DEF PagedNew, Paged, Selected, MinPadding, Remove, PageLayers
  <1>9. Prefilled' = Prefilled
    BY <1>2 DEF Prefilled, FromStub
  <1>10. (CodeShows' <=> CodeShows) /\ (NamesShow' <=> NamesShow)
    BY DEF CodeShows, NamesShow, MinPadding, Early
  <1>11. (OldLayout' <=> OldLayout) /\ (Fixed' <=> Fixed) /\ Flags32' = Flags32 /\ Entry32' = Entry32
    BY DEF OldLayout, Fixed, Early, Flags32, Entry32, Ensured
  <1> QED BY <1>1, <1>2, <1>3, <1>4, <1>5, <1>6, <1>7, <1>8, <1>9, <1>10, <1>11

LEMMA StillLoads ==
  ASSUME packed' = packed, Loadable(program')
  PROVE  ImageLoads'
  BY SamePacked DEF ImageLoads, Loadable, Regions, Areas

LEMMA StillOpen ==
  ASSUME packed' = packed, NamesPlain(program')
  PROVE  NamesOpen'
  BY SamePacked DEF NamesOpen, NamesPlain

LEMMA StillWait ==
  ASSUME packed' = packed, NamesCovered(program')
  PROVE  NamesWait'
  BY SamePacked DEF NamesWait, NamesCovered

LEMMA Apart ==
  /\ \A s \in Stages32 \cup StagesDll \cup {"header", "payload", "end"} :
       s \notin Opening64 \cup Rebuilt64 \cup Stages64 \cup {"zero", "names", "sections", "pages", "metadata", "late pages",
                "imports", "clr", "tls", "flags"}
  /\ \A s \in Stages64 \cup StagesDll \cup {"header", "payload", "end"} :
       s \notin Opening32 \cup Held32 \cup Paged32 \cup Rebuilt32 \cup {"zero list", "file blocks", "fix sections",
                "text pages", "directories", "tls directory", "rearm", "import names", "idata", "compact"}
  /\ \A s \in Stages64 \cup Stages32 \cup {"header", "payload", "end"} :
       s \notin OpeningDll \cup StagesDll \cup {"dll blocks", "dll names", "dll header", "dll metadata"}
  BY DEF Opening64, Rebuilt64, Stages64, Opening32, Paged32, Rebuilt32, Held32, Stages32, OpeningDll, StagesDll

LEMMA Not64 ==
  ASSUME stage' \in Stages32 \cup StagesDll \cup {"header", "payload", "end"}
  PROVE  Image64' /\ Header64'
  BY Apart DEF Image64, Header64

LEMMA Not32 ==
  ASSUME stage' \in Stages64 \cup StagesDll \cup {"header", "payload", "end"}
  PROVE  Image32' /\ Header32'
  BY Apart DEF Image32, Header32

LEMMA NotDll ==
  ASSUME stage' \in Stages64 \cup Stages32 \cup {"header", "payload", "end"}
  PROVE  ImageDll' /\ HeaderDll'
  BY Apart DEF ImageDll, HeaderDll

LEMMA NotYet ==
  ASSUME result'[1] # "image"
  PROVE  OutputIsPlain' /\ HeaderMatchesImage'
  <1>1. ~ Restored'
    BY DEF Restored
  <1> QED BY <1>1 DEF OutputIsPlain, HeaderMatchesImage

\* The invariant of one pipeline is the whole of it while that pipeline runs.
LEMMA Keeps64 ==
  ASSUME stage' \in Stages64, result' = <<"running">>, Image64', Header64'
  PROVE  Rebuilt'
  <1>1. result'[1] # "image" /\ stage' \notin {"header", "payload"}
    BY StagesApart
  <1> QED BY <1>1, Not32, NotDll, NotYet DEF Rebuilt

LEMMA Keeps32 ==
  ASSUME stage' \in Stages32, result' = <<"running">>, Image32', Header32'
  PROVE  Rebuilt'
  <1>1. result'[1] # "image" /\ stage' \notin {"header", "payload"}
    BY StagesApart
  <1> QED BY <1>1, Not64, NotDll, NotYet DEF Rebuilt

LEMMA KeepsDll ==
  ASSUME stage' \in StagesDll, result' = <<"running">>, ImageDll', HeaderDll'
  PROVE  Rebuilt'
  <1>1. result'[1] # "image" /\ stage' \notin {"header", "payload"}
    BY StagesApart
  <1> QED BY <1>1, Not64, Not32, NotYet DEF Rebuilt

\* A file that is refused has no image, and an image is judged as it is.
LEMMA Ends ==
  ASSUME stage' = "end", OutputIsPlain', HeaderMatchesImage'
  PROVE  Rebuilt'
  BY Not64, Not32, NotDll DEF Rebuilt

LEMMA Declines ==
  ASSUME NEW why, Decline(why)
  PROVE  Rebuilt'
  <1>1. stage' = "end" /\ result'[1] # "image"
    BY DEF Decline
  <1> QED BY <1>1, NotYet, Ends

-----------------------------------------------------------------------------
\* Regions of which only names, exports and metadata are not as the packer made them.
Underlying(regions) ==
  /\ regions = [r \in Regions(packed) |-> regions[r]]
  /\ \A r \in {"code", "tls", "clr", "fixups", "table"} : regions[r] = Under(r)

\* The exports of the header page fill nothing else.
LEMMA CopiesExports ==
  ASSUME IsPacked(packed), NEW regions, Underlying(regions)
  PROVE  /\ Unpaged(Exports(regions))
         /\ \A r \in Regions(packed) \ {"exports"} : Exports(regions)[r] = regions[r]
  <1> DEFINE after == Exports(regions)
  <1>1. regions = [r \in Regions(packed) |-> regions[r]] /\ DOMAIN regions = Regions(packed)
    BY DEF Underlying
  <1>2. /\ after = [r \in Regions(packed) |-> after[r]]
        /\ \A r \in Regions(packed) \ {"exports"} : after[r] = regions[r]
        /\ packed.exports = "held" => after["exports"] = <<>>
    <2>1. CASE packed.exports = "held"
      <3>1. after = [r \in Regions(packed) |-> IF r \in {"exports"} THEN <<>> ELSE regions[r]]
        BY <1>1, <2>1 DEF Exports, FromStub
      <3>2. "exports" \in Regions(packed)
        BY RegionsApart
      <3> QED BY <3>1, <3>2
    <2>2. CASE packed.exports # "held"
      BY <1>1, <2>2 DEF Exports
    <2> QED BY <2>1, <2>2
  <1> HIDE DEF after
  <1>3. \A r \in {"code", "tls", "clr", "fixups", "table"} : r \in Regions(packed) \ {"exports"}
    BY RegionsApart
  <1>4. \A r \in {"code", "tls", "clr", "fixups", "table"} : after[r] = Under(r)
    BY <1>2, <1>3 DEF Underlying
  <1>5. Under("table") = <<>>
    BY UnderIs
  <1>6. Unpaged(after)
    BY <1>2, <1>4, <1>5 DEF Unpaged
  <1> QED BY <1>2, <1>6 DEF after

LEMMA BareUnderlies ==
  ASSUME IsPacked(packed)
  PROVE  Underlying(Bare) /\ \A r \in Regions(packed) : Bare[r] = Under(r)
  BY RegionsApart DEF Bare, Underlying

\* Names that are decoded from a table, once for each reference.
LEMMA DecodesNames ==
  ASSUME IsPacked(packed), NEW regions, regions = [r \in Regions(packed) |-> regions[r]]
  PROVE  /\ AllNames(regions) = [r \in Regions(packed) |-> AllNames(regions)[r]]
         /\ \A r \in Regions(packed) \ Names : AllNames(regions)[r] = regions[r]
         /\ \A n \in Names : regions[n] = <<"name">> /\ packed.names[n] = 1 => AllNames(regions)[n] = <<>>
  <1>1. AllNames(regions) =
          [r \in Regions(packed) |-> IF r \in Names THEN Referenced(regions[r], packed.names[r]) ELSE regions[r]]
    BY DEF AllNames
  <1>2. ASSUME NEW n \in Names, regions[n] = <<"name">>, packed.names[n] = 1
        PROVE  AllNames(regions)[n] = <<>>
    <2>1. AllNames(regions)[n] = Referenced(<<"name">>, 1)
      BY <1>1, <1>2, RegionsApart
    <2> QED BY <2>1, ComesOff DEF Referenced
  <1> QED BY <1>1, <1>2

LEMMA NamedUnderlies ==
  ASSUME IsPacked(packed)
  PROVE  /\ Underlying(Named)
         /\ \A r \in Regions(packed) \ Names : Named[r] = Under(r)
         /\ packed.kind = "exe64" /\ ~ packed.new /\ NamesShow => \A n \in Names : n \notin packed.inText /\ Named[n] = <<>>
  <1>1. Underlying(Bare) /\ \A r \in Regions(packed) : Bare[r] = Under(r)
    BY BareUnderlies
  <1>2. Bare = [r \in Regions(packed) |-> Bare[r]]
    BY DEF Bare
  <1>3. Named = [r \in Regions(packed) |-> Named[r]] /\ \A r \in Regions(packed) \ Names : Named[r] = Under(r)
    <2>1. CASE packed.table
      BY <1>1, <1>2, <2>1, DecodesNames DEF Named
    <2>2. CASE ~ packed.table
      BY <1>1, <1>2, <2>2 DEF Named
    <2> QED BY <2>1, <2>2
  <1>4. Underlying(Named)
    BY <1>3, RegionsApart DEF Underlying
  <1>5. ASSUME packed.kind = "exe64", ~ packed.new, NamesShow, NEW n \in Names
        PROVE  n \notin packed.inText /\ Named[n] = <<>>
    <2>1. Early(packed)
      BY <1>5 DEF Early
    <2>2. n \notin packed.inText
      BY <2>1, <1>5 DEF IsPacked, Names
    <2>3. packed.table
      BY <1>5, <2>1 DEF NamesShow
    <2>4. packed.names[n] = 1
      BY <1>5 DEF NamesShow, Names
    <2>5. Bare[n] = <<"name">>
      BY <1>1, <2>2, UnderIs, RegionsApart
    <2>6. AllNames(Bare)[n] = <<>>
      BY <1>2, <2>4, <2>5, <1>5, DecodesNames
    <2> QED BY <2>2, <2>3, <2>6 DEF Named
  <1> QED BY <1>3, <1>4, <1>5

LEMMA WipedUnderlies ==
  ASSUME IsPacked(packed)
  PROVE  Underlying(WipedBare) /\ \A r \in Regions(packed) \ {"meta"} : WipedBare[r] = Under(r)
  <1>1. \A r \in Regions(packed) : Bare[r] = Under(r)
    BY BareUnderlies
  <1>2. WipedBare = [r \in Regions(packed) |-> WipedBare[r]] /\ \A r \in Regions(packed) \ {"meta"} : WipedBare[r] = Under(r)
    <2>1. CASE packed.wiped
      <3>1. WipedBare = [r \in Regions(packed) |-> IF r = "meta" THEN <<"zero">> ELSE Bare[r]]
        BY <2>1 DEF WipedBare, Wiped, Bare
      <3> QED BY <3>1, <1>1
    <2>2. CASE ~ packed.wiped
      <3>1. WipedBare = Bare
        BY <2>2 DEF WipedBare, Wiped
      <3> QED BY <3>1, <1>1 DEF Bare
    <2> QED BY <2>1, <2>2
  <1>3. \A r \in {"code", "tls", "clr", "fixups", "table"} : r \in Regions(packed) \ {"meta"}
    BY RegionsApart
  <1> QED BY <1>2, <1>3 DEF Underlying

\* Every block is decoded to what lies under it.
LEMMA BlocksUncover ==
  ASSUME IsPacked(packed)
  PROVE  /\ [r \in DOMAIN Covered |-> IF r \in packed.inBlocks THEN Under(r) ELSE Covered[r]] = Bare
         /\ packed.kind = "exe32" =>
              /\ Covered["meta"] = <<"meta">>
              /\ [r \in DOMAIN WipedCovered |-> IF r \in packed.inBlocks THEN Under(r) ELSE WipedCovered[r]] = WipedBare
  <1>1. Covered = [r \in Regions(packed) |-> Cover(r)] /\ Bare = [r \in Regions(packed) |-> Under(r)]
    BY DEF Covered, Bare
  <1>2. \A r \in Regions(packed) : r \notin packed.inBlocks => Cover(r) = Under(r)
    BY DEF Cover
  <1>3. [r \in DOMAIN Covered |-> IF r \in packed.inBlocks THEN Under(r) ELSE Covered[r]] = Bare
    BY <1>1, <1>2
  <1>4. ASSUME packed.kind = "exe32"
        PROVE  /\ Covered["meta"] = <<"meta">>
               /\ [r \in DOMAIN WipedCovered |-> IF r \in packed.inBlocks THEN Under(r) ELSE WipedCovered[r]] = WipedBare
    <2>1. "meta" \notin packed.inBlocks
      BY <1>4 DEF IsPacked
    <2>2. Covered["meta"] = <<"meta">>
      BY <1>1, <1>2, <2>1, UnderIs, RegionsApart
    <2>3. CASE packed.wiped
      <3>1. /\ WipedCovered = [r \in Regions(packed) |-> IF r = "meta" THEN <<"zero">> ELSE Cover(r)]
            /\ WipedBare = [r \in Regions(packed) |-> IF r = "meta" THEN <<"zero">> ELSE Under(r)]
        BY <2>3, <1>1 DEF WipedCovered, WipedBare, Wiped
      <3> QED BY <3>1, <1>2, <2>1, <2>2
    <2>4. CASE ~ packed.wiped
      BY <2>4, <1>3, <2>2 DEF WipedCovered, WipedBare, Wiped
    <2> QED BY <2>3, <2>4
  <1> QED BY <1>3, <1>4

\* What each pipeline has once its pass over the code section is done.
LEMMA OldPath ==
  ASSUME IsPacked(packed), packed.kind = "exe64", ~ packed.new
  PROVE  /\ Loadable(PagedNamed) /\ PagedNamed["meta"] = <<"meta">>
         /\ CodeShows /\ NamesShow => NamesPlain(PagedNamed)
  <1>1. /\ Underlying(Named) /\ \A r \in Regions(packed) \ Names : Named[r] = Under(r)
        /\ NamesShow => \A n \in Names : n \notin packed.inText /\ Named[n] = <<>>
    BY NamedUnderlies
  <1>2. Unpaged(CopiedNamed) /\ \A r \in Regions(packed) \ {"exports"} : CopiedNamed[r] = Named[r]
    BY <1>1, CopiesExports DEF CopiedNamed
  <1>3. Loadable(PagedNamed) /\ \A r \in Regions(packed) \ packed.inText : PagedNamed[r] = CopiedNamed[r]
    BY <1>2, PassPlain DEF PagedNamed
  <1>4. PagedNamed["meta"] = <<"meta">>
    <2>1. "meta" \notin packed.inText
      BY DEF IsPacked, Early
    <2> QED BY <2>1, <1>1, <1>2, <1>3, UnderIs, RegionsApart
  <1>5. ASSUME NamesShow, NEW n \in Names
        PROVE  PagedNamed[n] = <<>>
    BY <1>1, <1>2, <1>3, <1>5, RegionsApart
  <1> QED BY <1>3, <1>4, <1>5 DEF NamesPlain

LEMMA NewPath ==
  ASSUME IsPacked(packed), packed.kind = "exe64", packed.new
  PROVE  /\ Copied["meta"] = <<"meta">>
         /\ Loadable(PagedNew) /\ (CodeShows => NamesCovered(PagedNew))
  <1>1. Underlying(Bare) /\ \A r \in Regions(packed) : Bare[r] = Under(r)
    BY BareUnderlies
  <1>2. Unpaged(Copied) /\ \A r \in Regions(packed) \ {"exports"} : Copied[r] = Under(r)
    BY <1>1, CopiesExports DEF Copied
  <1>3. Copied["meta"] = <<"meta">>
    BY <1>2, UnderIs, RegionsApart
  <1>4. \A n \in Names : Copied[n] = Under(n)
    BY <1>2, RegionsApart
  <1>5. CASE packed.entry = "text"
    <2>1. PagedNew = Paged(Copied)
      BY <1>5 DEF PagedNew
    <2> QED BY <2>1, <1>2, <1>3, <1>4, PassPlain DEF NamesCovered
  <1>6. CASE packed.entry # "text"
    <2>1. PagedNew = Copied
      BY <1>6 DEF PagedNew
    <2>2. CodeShows => ~ Encrypted
      BY <1>6 DEF CodeShows, Encrypted
    <2>3. packed.tls \notin {"stub", "lost"} => Copied["tls"] = <<>>
      BY <1>2, UnderIs, RegionsApart
    <2>4. CodeShows => Copied["code"] = <<>>
      BY <2>2, <1>2, UnderIs, RegionsApart
    <2>5. packed.clr = "foreign" /\ CodeShows => Copied["clr"] = <<>>
      BY <2>2, <1>2, UnderIs, RegionsApart
    <2>6. packed.clr = "blank" /\ CodeShows => Copied["clr"] = <<"lost">>
      BY <2>2, <1>2, UnderIs, RegionsApart
    <2>7. Loadable(Copied)
      BY <1>2, <2>3, <2>4, <2>5, <2>6 DEF Loadable, Unpaged
    <2>8. CodeShows => NamesCovered(Copied)
      BY <2>2, <1>4, UnderIs DEF NamesCovered
    <2> QED BY <2>1, <2>7, <2>8, <1>3
  <1> QED BY <1>5, <1>6

LEMMA Path32 ==
  ASSUME IsPacked(packed), packed.kind = "exe32"
  PROVE  /\ Loadable(Paged(CopiedWiped)) /\ Paged(CopiedWiped)["fixups"] = Under("fixups")
         /\ CodeShows => NamesCovered(Paged(CopiedWiped))
  <1>1. Underlying(WipedBare) /\ \A r \in Regions(packed) \ {"meta"} : WipedBare[r] = Under(r)
    BY WipedUnderlies
  <1>2. Unpaged(CopiedWiped) /\ \A r \in Regions(packed) \ {"exports"} : CopiedWiped[r] = WipedBare[r]
    BY <1>1, CopiesExports DEF CopiedWiped
  <1>3. \A n \in Names : CopiedWiped[n] = Under(n)
    BY <1>1, <1>2, RegionsApart
  <1>4. packed.kind # "dll64"
    OBVIOUS
  <1> QED BY <1>2, <1>3, <1>4, PassPlain DEF NamesCovered

-----------------------------------------------------------------------------
\* The steps of the PE32+ pipeline.
LEMMA Known ==
  ASSUME RInv, stage # "end"
  PROVE  Shaped /\ IsPacked(packed) /\ result = <<"running">> /\ dirs \in HeaderType
         /\ Image64 /\ Header64 /\ Image32 /\ Header32 /\ ImageDll /\ HeaderDll
         /\ (stage \in Stages64 => packed.kind = "exe64")
         /\ (stage \in Stages32 => packed.kind = "exe32")
         /\ (stage \in StagesDll => packed.kind = "dll64")
  BY PackedIs DEF RInv, SInv, Rebuilt, Shaped

LEMMA Opens64 ==
  ASSUME RInv, stage \in Opening64, stage' \in Opening64, packed' = packed, result' = result,
         program' = program, dirs'.addresses = dirs.addresses
  PROVE  Rebuilt'
  <1>1. stage \in Stages64 /\ stage' \in Stages64 /\ stage # "end"
    BY StagesApart DEF Stages64
  <1>2. program' = Covered' /\ ~ dirs'.addresses /\ result' = <<"running">>
    <2>1. program = Covered /\ result = <<"running">>
      BY <1>1, Known DEF Image64
    <2>2. ~ dirs.addresses
      BY <1>1, Known DEF Header64, Opening64
    <2> QED BY <2>1, <2>2, SamePacked
  <1>3. Image64'
    BY <1>2 DEF Image64, Opening64
  <1>4. Header64'
    BY <1>2 DEF Header64, Opening64, Rebuilt64
  <1> QED BY <1>1, <1>2, <1>3, <1>4, Keeps64

LEMMA OpeningImage64 ==
  ASSUME RInv, Locate \/ Stage1 \/ Stage2 \/ Stage3 \/ Stage4 \/ Stage5 \/ Discover \/ Chain \/ FileOperations
  PROVE  Rebuilt'
  <1>1. stage \in Opening64
    BY DEF Locate, Stage1, Stage2, Stage3, Stage4, Stage5, Discover, Chain, FileOperations, Opening64
  <1>2. ASSUME ~ \E why : Decline(why)
        PROVE  packed' = packed /\ result' = result /\ stage' \in Opening64
               /\ program' = program /\ dirs'.addresses = dirs.addresses
    <2>1. stage # "end" /\ dirs \in HeaderType
      BY <1>1, Known, StagesApart DEF Stages64
    <2>2. CASE Locate
      <3>1. packed' = packed /\ result' = result /\ stage' = "stage1" /\ program' = program
            /\ dirs' = [dirs EXCEPT !.imports = packed.anchored, !.relocations = FALSE]
        BY <1>2, <2>2 DEF Locate, Go
      <3> QED BY <2>1, <3>1 DEF HeaderType, Opening64
    <2>3. CASE Stage1 \/ Stage2 \/ Stage4
      BY <1>2, <2>3 DEF Stage1, Stage2, Stage4, Unlock, Go, Opening64
    <2>4. CASE Stage3 \/ Stage5
      BY <1>1, <1>2, <2>4 DEF Stage3, Stage5, Try, Go, Opening64
    <2>5. CASE Discover \/ Chain \/ FileOperations
      BY <1>2, <2>5 DEF Discover, Chain, FileOperations, Go, Quiet, Opening64
    <2> QED BY <2>2, <2>3, <2>4, <2>5
  <1> QED BY <1>1, <1>2, Opens64, Declines

LEMMA BlocksImage64 ==
  ASSUME RInv, FileBlocks
  PROVE  Rebuilt'
  <1>1. stage = "blocks" /\ stage \in Opening64 /\ stage # "end"
    BY DEF FileBlocks, Opening64
  <1>2. IsPacked(packed) /\ result = <<"running">> /\ program = Covered /\ ~ dirs.addresses
    BY <1>1, Known DEF Image64, Header64, Stages64
  <1>3. CASE packed.blocks = "good"
    <2>1. stage' = "zero" /\ packed' = packed /\ result' = result /\ dirs' = dirs /\ program' = Bare
      BY <1>2, <1>3, BlocksUncover DEF FileBlocks, Blocks, Go
    <2>2. Image64'
      BY <2>1, SamePacked DEF Image64, Opening64
    <2>3. Header64'
      BY <1>2, <2>1 DEF Header64, Rebuilt64
    <2> QED BY <1>2, <2>1, <2>2, <2>3, Keeps64 DEF Stages64
  <1>4. CASE packed.blocks # "good"
    BY <1>4, Declines DEF FileBlocks, Blocks
  <1> QED BY <1>3, <1>4

LEMMA ZeroImage ==
  ASSUME RInv, Zero
  PROVE  Rebuilt'
  <1>1. stage = "zero" /\ stage \in Stages64 /\ stage # "end"
    BY DEF Zero, Stages64
  <1>2. result = <<"running">> /\ program = Bare /\ ~ dirs.addresses
    BY <1>1, Known DEF Image64, Header64
  <1>3. /\ packed' = packed /\ result' = result /\ dirs' = dirs /\ program' = program
        /\ stage' = IF packed.new THEN "sections" ELSE "names"
    BY DEF Zero, Go, Quiet
  <1>4. Image64'
    BY <1>2, <1>3, SamePacked DEF Image64, Opening64
  <1>5. Header64'
    BY <1>2, <1>3 DEF Header64, Rebuilt64
  <1> QED BY <1>2, <1>3, <1>4, <1>5, Keeps64 DEF Stages64

LEMMA OldNamesImage ==
  ASSUME RInv, OldNames
  PROVE  Rebuilt'
  <1>1. stage = "names" /\ stage \in Stages64 /\ stage # "end"
    BY DEF OldNames, Stages64
  <1>2. result = <<"running">> /\ program = Bare /\ ~ dirs.addresses /\ ~ packed.new
    BY <1>1, Known DEF Image64, Header64
  <1>3. packed' = packed /\ result' = result /\ dirs' = dirs /\ stage' = "sections" /\ program' = Named
    BY <1>2 DEF OldNames, Go, Named
  <1>4. Image64'
    BY <1>2, <1>3, SamePacked DEF Image64, Opening64
  <1>5. Header64'
    BY <1>2, <1>3 DEF Header64, Rebuilt64
  <1> QED BY <1>2, <1>3, <1>4, <1>5, Keeps64 DEF Stages64

LEMMA SectionsImage64 ==
  ASSUME RInv, Sections64
  PROVE  Rebuilt'
  <1>1. stage = "sections" /\ stage \in Stages64 /\ stage # "end"
    BY DEF Sections64, Stages64
  <1>2. /\ result = <<"running">> /\ program = (IF packed.new THEN Bare ELSE Named) /\ ~ dirs.addresses
        /\ dirs \in HeaderType
    BY <1>1, Known DEF Image64, Header64
  <1>3. /\ packed' = packed /\ result' = result /\ stage' = IF packed.new THEN "metadata" ELSE "pages"
        /\ program' = IF packed.new THEN Copied ELSE CopiedNamed
        /\ dirs' = [dirs EXCEPT !.imports = packed.listed, !.relocations = packed.relocatable,
                                !.flags = packed.flags, !.entry = "stub"]
    BY <1>2 DEF Sections64, Go, Copied, CopiedNamed
  <1>4. ~ dirs'.addresses /\ dirs'.flags = packed.flags /\ dirs'.entry = "stub"
    BY <1>2, <1>3 DEF HeaderType
  <1>5. Image64'
    BY <1>3, SamePacked DEF Image64, Opening64
  <1>6. Header64'
    BY <1>3, <1>4 DEF Header64, Rebuilt64
  <1> QED BY <1>2, <1>3, <1>5, <1>6, Keeps64 DEF Stages64

LEMMA PagesImage64 ==
  ASSUME RInv, OldPages
  PROVE  Rebuilt'
  <1>1. stage = "pages" /\ stage \in Stages64 /\ stage # "end"
    BY DEF OldPages, Stages64
  <1>2. /\ result = <<"running">> /\ program = CopiedNamed /\ ~ dirs.addresses /\ ~ packed.new
        /\ dirs.flags = packed.flags /\ dirs.entry = "stub"
    BY <1>1, Known DEF Image64, Header64
  <1>3. packed' = packed /\ result' = result /\ dirs' = dirs /\ stage' = "metadata" /\ program' = PagedNamed
    BY <1>2 DEF OldPages, Go, PagedNamed
  <1>4. Image64'
    BY <1>2, <1>3, SamePacked DEF Image64, Opening64
  <1>5. Header64'
    BY <1>2, <1>3 DEF Header64, Rebuilt64
  <1> QED BY <1>2, <1>3, <1>4, <1>5, Keeps64 DEF Stages64

LEMMA PackedTypes ==
  ASSUME IsPacked(packed)
  PROVE  /\ packed.relocatable \in BOOLEAN /\ packed.dll \in BOOLEAN /\ packed.new \in BOOLEAN
         /\ packed.anchored \in {"none", "table"} /\ packed.listed \in {"none", "table"}
         /\ packed.entry \in {"text", "data", "zero"}
  BY DEF IsPacked

LEMMA MetadataImage64 ==
  ASSUME RInv, Metadata64
  PROVE  Rebuilt'
  <1> DEFINE entry == IF ~ packed.new /\ packed.entry = "zero" THEN dirs.entry ELSE packed.entry
             imports == IF packed.new /\ packed.listed # "table" /\ packed.anchored # "none"
                        THEN packed.anchored ELSE packed.listed
             tls == packed.tls # "none"
             clr == packed.clr # "none"
  <1>1. stage = "metadata" /\ stage \in Stages64 /\ stage # "end"
    BY DEF Metadata64, Stages64
  <1>2. /\ result = <<"running">> /\ program = (IF packed.new THEN Copied ELSE PagedNamed) /\ ~ dirs.addresses
        /\ dirs.flags = packed.flags /\ dirs.entry = "stub" /\ dirs \in HeaderType
        /\ IsPacked(packed) /\ packed.kind = "exe64"
    BY <1>1, Known DEF Image64, Header64
  <1>3. program["meta"] = <<"meta">>
    BY <1>2, OldPath, NewPath
  <1>4. Reading(packed.entry) = packed.entry /\ Reading(packed.listed) = packed.listed
    BY <1>3 DEF Reading
  <1>5. dirs' = [dirs EXCEPT !.entry = entry, !.imports = imports, !.tls = tls, !.clr = clr,
                             !.relocations = packed.relocatable]
    BY <1>4 DEF Metadata64
  <1>6. /\ packed' = packed /\ result' = result /\ program' = program
        /\ stage' = IF packed.new THEN "late pages" ELSE "clr"
    BY DEF Metadata64, Go
  <1>7. entry # "garbled" /\ imports \in {"none", "table"} /\ (packed.new => entry = packed.entry)
    BY <1>2, PackedTypes
  <1>8. clr => packed.clr # "none"
    OBVIOUS
  <1> HIDE DEF entry, imports, tls, clr
  <1>9. /\ dirs'.entry = entry /\ dirs'.imports = imports /\ dirs'.clr = clr /\ dirs'.relocations = packed.relocatable
        /\ dirs'.flags = packed.flags /\ ~ dirs'.addresses
    BY <1>2, <1>5 DEF HeaderType
  <1>10. Header64'
    BY <1>6, <1>7, <1>8, <1>9 DEF Header64
  <1>11. Image64'
    <2>1. CASE packed.new
      BY <2>1, <1>2, <1>6, SamePacked DEF Image64, Opening64
    <2>2. CASE ~ packed.new
      <3>1. Loadable(program) /\ (CodeShows /\ NamesShow => NamesPlain(program))
        BY <2>2, <1>2, OldPath
      <3>2. Loadable(program') /\ (CodeShows /\ NamesShow => NamesPlain(program'))
        BY <3>1, <1>6
      <3>3. ImageLoads' /\ (CodeShows' /\ NamesShow' => NamesOpen')
        BY <3>2, <1>6, SamePacked, StillLoads, StillOpen
      <3> QED BY <2>2, <3>3, <1>6 DEF Image64, Opening64
    <2> QED BY <2>1, <2>2
  <1> QED BY <1>2, <1>6, <1>10, <1>11, Keeps64 DEF Stages64, Rebuilt64

LEMMA LatePagesImage ==
  ASSUME RInv, LatePages
  PROVE  Rebuilt'
  <1>1. stage = "late pages" /\ stage \in Stages64 /\ stage \in Rebuilt64 /\ stage # "end"
    BY DEF LatePages, Stages64, Rebuilt64
  <1>2. /\ result = <<"running">> /\ program = Copied /\ packed.new /\ dirs.entry = packed.entry /\ ~ dirs.addresses
        /\ dirs.flags = packed.flags /\ dirs.relocations = packed.relocatable
        /\ dirs.imports \in {"none", "table"} /\ dirs.entry # "garbled" /\ (dirs.clr => packed.clr # "none")
    BY <1>1, Known DEF Image64, Header64
  <1>3. packed' = packed /\ result' = result /\ dirs' = dirs /\ stage' = "imports" /\ program' = PagedNew
    BY <1>2 DEF LatePages, Go, PagedNew
  <1>4. Image64'
    BY <1>2, <1>3, SamePacked DEF Image64, Opening64
  <1>5. /\ packed'.relocatable = packed.relocatable /\ packed'.flags = packed.flags /\ dirs'.flags = packed'.flags
        /\ dirs'.relocations = packed'.relocatable /\ dirs'.imports \in {"none", "table"} /\ dirs'.entry # "garbled"
        /\ (dirs'.clr => packed'.clr # "none") /\ ~ dirs'.addresses
    BY <1>2, <1>3
  <1>6. Header64'
    BY <1>3, <1>5 DEF Header64
  <1> QED BY <1>2, <1>3, <1>4, <1>6, Keeps64 DEF Stages64, Rebuilt64

\* A name that reads as text is left alone, however often it is met.
LEMMA DecodesOnce ==
  ASSUME NEW refs
  PROVE  Decode(<<"name">>, refs) = <<>>
  BY ComesOff DEF Decode

LEMMA ImportsImage64 ==
  ASSUME RInv, NewImports
  PROVE  Rebuilt'
  <1>1. stage = "imports" /\ stage \in Stages64 /\ stage \in Rebuilt64 /\ stage # "end"
    BY DEF NewImports, Stages64, Rebuilt64
  <1>2. /\ result = <<"running">> /\ program = PagedNew /\ packed.new /\ dirs \in HeaderType
        /\ dirs.flags = packed.flags /\ dirs.relocations = packed.relocatable
        /\ dirs.imports \in {"none", "table"} /\ dirs.entry # "garbled" /\ (dirs.clr => packed.clr # "none")
        /\ IsPacked(packed) /\ packed.kind = "exe64" /\ (dirs.addresses => dirs.imports = "table")
    BY <1>1, Known DEF Image64, Header64
  <1> DEFINE addresses == dirs.addresses \/ dirs.imports = "table"
  <1>3. /\ packed' = packed /\ result' = result /\ stage' = "clr" /\ dirs' = [dirs EXCEPT !.addresses = addresses]
        /\ program' = IF dirs.imports # "table" THEN program
                      ELSE [r \in DOMAIN program |-> IF r \in Names THEN Decode(program[r], packed.names[r]) ELSE program[r]]
    BY DEF NewImports, Go
  <1>4. addresses => dirs.imports = "table"
    BY <1>2
  <1> HIDE DEF addresses
  <1>5. /\ dirs'.entry = dirs.entry /\ dirs'.imports = dirs.imports /\ dirs'.clr = dirs.clr
        /\ dirs'.relocations = dirs.relocations /\ dirs'.flags = dirs.flags /\ dirs'.addresses = addresses
    BY <1>2, <1>3 DEF HeaderType
  <1>6. Header64'
    BY <1>2, <1>3, <1>4, <1>5 DEF Header64
  <1>7. Loadable(program) /\ (CodeShows => NamesCovered(program))
    BY <1>2, NewPath
  <1>8. DOMAIN program = Regions(packed)
    BY <1>7 DEF Loadable
  <1>9. /\ program' = [r \in Regions(packed) |-> program'[r]]
        /\ \A r \in Regions(packed) \ Names : program'[r] = program[r]
    BY <1>3, <1>7, <1>8 DEF Loadable
  <1>10. Loadable(program')
    BY <1>7, <1>9, <1>2, RegionsApart DEF Loadable
  <1>11. ASSUME CodeShows, dirs.imports = "table", NEW n \in Names
         PROVE  program'[n] = <<>>
    <2>1. program[n] = <<"name">> /\ n \in Regions(packed)
      BY <1>2, <1>7, <1>11, RegionsApart DEF NamesCovered
    <2>2. program'[n] = Decode(<<"name">>, packed.names[n])
      BY <1>3, <1>8, <1>11, <2>1
    <2> QED BY <2>2, DecodesOnce
  <1>12. ImageLoads'
    BY <1>10, <1>3, StillLoads
  <1>13. CodeShows' /\ dirs'.imports = "table" => NamesOpen'
    <2>1. CodeShows /\ dirs.imports = "table" => NamesPlain(program')
      BY <1>11 DEF NamesPlain
    <2> QED BY <2>1, <1>3, <1>5, SamePacked, StillOpen
  <1>14. Image64'
    BY <1>3, <1>12, <1>13 DEF Image64, Opening64
  <1> QED BY <1>2, <1>3, <1>6, <1>14, Keeps64 DEF Stages64, Rebuilt64

\* What the last steps of the PE32+ pipeline find.
LEMMA Built64 ==
  ASSUME RInv, stage \in {"clr", "tls", "flags"}
  PROVE  /\ result = <<"running">> /\ dirs \in HeaderType /\ IsPacked(packed) /\ packed.kind = "exe64"
         /\ Loadable(program) /\ (CodeShows /\ NamesShow /\ dirs.imports = "table" => NamesPlain(program))
         /\ dirs.flags = packed.flags /\ dirs.relocations = packed.relocatable
         /\ dirs.imports \in {"none", "table"} /\ dirs.entry # "garbled"
         /\ (dirs.addresses => dirs.imports = "table") /\ (dirs.clr => packed.clr # "none")
  <1>1. stage \in Stages64 /\ stage \in Rebuilt64 /\ stage # "end"
    BY DEF Stages64, Rebuilt64
  <1>2. /\ ImageLoads /\ (CodeShows /\ NamesShow /\ dirs.imports = "table" => NamesOpen)
    BY <1>1, Known DEF Image64
  <1>3. /\ dirs.flags = packed.flags /\ dirs.relocations = packed.relocatable
        /\ dirs.imports \in {"none", "table"} /\ dirs.entry # "garbled"
        /\ (dirs.addresses => dirs.imports = "table") /\ (dirs.clr => packed.clr # "none")
    BY <1>1, Known DEF Header64
  <1>4. result = <<"running">> /\ dirs \in HeaderType /\ IsPacked(packed) /\ packed.kind = "exe64"
    BY <1>1, Known
  <1> QED BY <1>2, <1>3, <1>4 DEF ImageLoads, NamesOpen

\* Areas that are copied from the file are plain, and the others are as they were.
LEMMA CopiesAreas ==
  ASSUME IsPacked(packed), NEW regions, regions = [r \in Regions(packed) |-> regions[r]], NEW S \in SUBSET Areas
  PROVE  /\ FromStub(regions, S) = [r \in Regions(packed) |-> FromStub(regions, S)[r]]
         /\ \A r \in S : FromStub(regions, S)[r] = <<>>
         /\ \A r \in Regions(packed) \ S : FromStub(regions, S)[r] = regions[r]
         /\ \A n \in Names : FromStub(regions, S)[n] = regions[n]
         /\ Loadable(regions) /\ ("clr" \in S => packed.clr # "blank") => Loadable(FromStub(regions, S))
  <1> DEFINE after == FromStub(regions, S)
  <1>1. after = [r \in Regions(packed) |-> IF r \in S THEN <<>> ELSE regions[r]]
    BY DEF FromStub
  <1>2. S \subseteq Regions(packed)
    BY RegionsApart
  <1>3. \A r \in Regions(packed) : after[r] = <<>> \/ after[r] = regions[r]
    BY <1>1
  <1>4. /\ after = [r \in Regions(packed) |-> after[r]] /\ (\A r \in S : after[r] = <<>>)
        /\ \A r \in Regions(packed) \ S : after[r] = regions[r]
    BY <1>1, <1>2
  <1>5. \A n \in Names : after[n] = regions[n]
    BY <1>4, RegionsApart
  <1> HIDE DEF after
  <1>6. Loadable(regions) /\ ("clr" \in S => packed.clr # "blank") => Loadable(after)
    BY <1>3, <1>4, RegionsApart DEF Loadable
  <1> QED BY <1>4, <1>5, <1>6 DEF after

LEMMA ClrImage64 ==
  ASSUME RInv, Clr64
  PROVE  Rebuilt'
  <1>1. stage = "clr"
    BY DEF Clr64
  <1>2. /\ packed' = packed /\ result' = result /\ dirs' = dirs /\ stage' = "tls"
        /\ program' = IF packed.clr \in {"whole", "no signature"} THEN FromStub(program, Managed) ELSE program
    BY DEF Clr64, Go
  <1>3. /\ result = <<"running">> /\ IsPacked(packed) /\ Loadable(program)
        /\ (CodeShows /\ NamesShow /\ dirs.imports = "table" => NamesPlain(program))
    BY <1>1, Built64
  <1>4. /\ Loadable(program') /\ \A n \in Names : program'[n] = program[n]
        /\ packed.clr \in {"whole", "no signature"} => program'["clr"] = <<>>
        /\ packed.clr = "whole" => program'["metadata"] = <<>>
        /\ packed.clr = "whole" /\ packed.resources /\ ~ packed.new => program'["resources"] = <<>>
    <2>1. CASE packed.clr \in {"whole", "no signature"}
      <3>1. Managed \in SUBSET Areas
        BY DEF Managed, Areas
      <3>2. program = [r \in Regions(packed) |-> program[r]]
        BY <1>3 DEF Loadable
      <3>3. program' = FromStub(program, Managed)
        BY <2>1, <1>2
      <3>4. packed.clr # "blank"
        BY <2>1
      <3>8. Loadable(program') /\ (\A n \in Names : program'[n] = program[n]) /\ \A r \in Managed : program'[r] = <<>>
        BY <1>3, <3>1, <3>2, <3>3, <3>4, CopiesAreas
      <3>5. "clr" \in Managed
        BY DEF Managed
      <3>6. packed.clr = "whole" => "metadata" \in Managed
        BY DEF Managed
      <3>7. packed.clr = "whole" /\ packed.resources /\ ~ packed.new => "resources" \in Managed
        BY DEF Managed
      <3> QED BY <3>5, <3>6, <3>7, <3>8
    <2>2. CASE packed.clr \notin {"whole", "no signature"}
      BY <2>2, <1>2, <1>3
    <2> QED BY <2>1, <2>2
  <1>5. CodeShows /\ NamesShow /\ dirs.imports = "table" => NamesPlain(program')
    BY <1>3, <1>4 DEF NamesPlain
  <1>6. ImageLoads' /\ (CodeShows' /\ NamesShow' /\ dirs'.imports = "table" => NamesOpen')
    BY <1>2, <1>4, <1>5, SamePacked, StillLoads, StillOpen
  <1>7. Image64'
    BY <1>2, <1>4, <1>6 DEF Image64, Opening64
  <1>8. /\ packed'.relocatable = packed.relocatable /\ packed'.flags = packed.flags /\ dirs'.flags = packed'.flags
        /\ dirs'.relocations = packed'.relocatable /\ dirs'.imports \in {"none", "table"} /\ dirs'.entry # "garbled"
        /\ (dirs'.clr => packed'.clr # "none") /\ (dirs'.addresses => dirs'.imports = "table")
    BY <1>1, <1>2, Built64
  <1>9. Header64'
    BY <1>2, <1>8 DEF Header64
  <1> QED BY <1>2, <1>3, <1>7, <1>9, Keeps64 DEF Stages64, Rebuilt64

LEMMA TlsImage64 ==
  ASSUME RInv, Tls64
  PROVE  Rebuilt'
  <1> DEFINE blank == packed.tls \in {"stub", "lost"}
             restored == blank /\ ~ packed.new /\ packed.tls = "stub"
             tls == dirs.tls /\ (~ blank \/ restored)
  <1>1. stage = "tls"
    BY DEF Tls64
  <1>2. /\ packed' = packed /\ result' = result /\ dirs' = [dirs EXCEPT !.tls = tls] /\ stage' = "flags"
        /\ program' = IF restored THEN FromStub(program, {"tls"}) ELSE program
    BY DEF Tls64, Go
  <1>3. /\ result = <<"running">> /\ IsPacked(packed) /\ Loadable(program) /\ dirs \in HeaderType
        /\ (CodeShows /\ NamesShow /\ dirs.imports = "table" => NamesPlain(program))
    BY <1>1, Built64
  <1>4. /\ packed.clr \in {"whole", "no signature"} => program["clr"] = <<>>
        /\ packed.clr = "whole" => program["metadata"] = <<>>
        /\ packed.clr = "whole" /\ packed.resources /\ ~ packed.new => program["resources"] = <<>>
    <2>1. Image64
      BY <1>1, Known
    <2> QED BY <2>1, <1>1 DEF Image64
  <1>5. /\ Loadable(program') /\ (\A n \in Names : program'[n] = program[n])
        /\ \A r \in {"clr", "metadata", "resources"} : program'[r] = program[r]
        /\ restored => program'["tls"] = <<>>
    <2>1. CASE restored
      <3>1. {"tls"} \in SUBSET Areas
        BY DEF Areas
      <3>2. program = [r \in Regions(packed) |-> program[r]]
        BY <1>3 DEF Loadable
      <3>3. program' = FromStub(program, {"tls"})
        BY <2>1, <1>2
      <3>4. /\ Loadable(program') /\ (\A n \in Names : program'[n] = program[n])
            /\ (\A r \in {"tls"} : program'[r] = <<>>) /\ \A r \in Regions(packed) \ {"tls"} : program'[r] = program[r]
        BY <1>3, <3>1, <3>2, <3>3, CopiesAreas
      <3> QED BY <1>3, <3>4, RegionsApart
    <2>2. CASE ~ restored
      BY <2>2, <1>2, <1>3
    <2> QED BY <2>1, <2>2
  <1>6. tls => program'["tls"] = <<>>
    BY <1>5 DEF Loadable
  <1>7. CodeShows /\ NamesShow /\ dirs.imports = "table" => NamesPlain(program')
    BY <1>3, <1>5 DEF NamesPlain
  <1> HIDE DEF tls, restored, blank
  <1>8. /\ dirs'.entry = dirs.entry /\ dirs'.imports = dirs.imports /\ dirs'.clr = dirs.clr /\ dirs'.tls = tls
        /\ dirs'.relocations = dirs.relocations /\ dirs'.flags = dirs.flags /\ dirs'.addresses = dirs.addresses
    BY <1>2, <1>3 DEF HeaderType
  <1>9. ImageLoads' /\ (CodeShows' /\ NamesShow' /\ dirs'.imports = "table" => NamesOpen')
    BY <1>2, <1>5, <1>7, <1>8, SamePacked, StillLoads, StillOpen
  <1>10. /\ packed'.clr \in {"whole", "no signature"} => program'["clr"] = <<>>
         /\ packed'.clr = "whole" => program'["metadata"] = <<>>
         /\ packed'.clr = "whole" /\ packed'.resources /\ ~ packed'.new => program'["resources"] = <<>>
         /\ dirs'.tls => program'["tls"] = <<>>
    BY <1>2, <1>4, <1>5, <1>6, <1>8
  <1>11. Image64'
    BY <1>2, <1>9, <1>10 DEF Image64, Opening64
  <1>12. /\ packed'.relocatable = packed.relocatable /\ packed'.flags = packed.flags /\ dirs'.flags = packed'.flags
         /\ dirs'.relocations = packed'.relocatable /\ dirs'.imports \in {"none", "table"} /\ dirs'.entry # "garbled"
         /\ (dirs'.clr => packed'.clr # "none") /\ (dirs'.addresses => dirs'.imports = "table")
    BY <1>1, <1>2, <1>8, Built64
  <1>13. Header64'
    BY <1>2, <1>12 DEF Header64
  <1> QED BY <1>2, <1>3, <1>11, <1>13, Keeps64 DEF Stages64, Rebuilt64

LEMMA FlagsImage64 ==
  ASSUME RInv, Flags64
  PROVE  Rebuilt'
  <1> DEFINE fixed == ~ packed.new /\ ~ packed.dll
             relocations == dirs.relocations /\ ~ fixed
             flags == IF fixed THEN "zero" ELSE IF packed.new THEN dirs.flags ELSE Ensured(dirs.flags)
  <1>1. stage = "flags" /\ packed' = packed /\ program' = program /\ stage' = "end"
    BY DEF Flags64
  <1>2. PICK kept \in BOOLEAN :
          /\ KeepsClr(kept)
          /\ dirs' = [dirs EXCEPT !.clr = dirs.clr /\ kept, !.relocations = relocations, !.flags = flags]
    BY DEF Flags64
  <1> DEFINE clr == dirs.clr /\ kept
  <1>3. /\ result = <<"running">> /\ IsPacked(packed) /\ packed.kind = "exe64" /\ Loadable(program) /\ dirs \in HeaderType
        /\ (CodeShows /\ NamesShow /\ dirs.imports = "table" => NamesPlain(program))
        /\ dirs.flags = packed.flags /\ dirs.relocations = packed.relocatable
        /\ dirs.imports \in {"none", "table"} /\ dirs.entry # "garbled"
        /\ (dirs.addresses => dirs.imports = "table") /\ (dirs.clr => packed.clr # "none")
    BY <1>1, Built64
  <1>4. /\ packed.clr \in {"whole", "no signature"} => program["clr"] = <<>>
        /\ packed.clr = "whole" => program["metadata"] = <<>>
        /\ packed.clr = "whole" /\ packed.resources /\ ~ packed.new => program["resources"] = <<>>
        /\ dirs.tls => program["tls"] = <<>>
    <2>1. Image64
      BY <1>1, Known
    <2> QED BY <2>1, <1>1 DEF Image64
  <1>5. ASSUME clr, packed.clr \in {"foreign", "blank"} => CodeShows
        PROVE  program["clr"] = <<>>
    <2>1. packed.clr \in {"whole", "no signature", "blank", "foreign"}
      BY <1>3, <1>5 DEF IsPacked, ClrHeaders
    <2>2. packed.clr # "blank"
      <3>1. program["clr"] # <<"lost">>
        BY <1>2, <1>5 DEF KeepsClr
      <3> QED BY <3>1, <1>3, <1>5 DEF Loadable
    <2>3. packed.clr = "foreign" => program["clr"] = <<>>
      BY <1>3, <1>5 DEF Loadable
    <2> QED BY <2>1, <2>2, <2>3, <1>4
  <1>6. /\ Fixed => ~ relocations /\ flags = "zero"
        /\ ~ Fixed => /\ relocations = packed.relocatable
                      /\ flags = IF OldLayout THEN Ensured(packed.flags) ELSE packed.flags
    <2>1. (OldLayout <=> ~ packed.new) /\ (Fixed <=> fixed)
      BY <1>3 DEF OldLayout, Early, Fixed
    <2>2. packed.relocatable \in BOOLEAN
      BY <1>3, PackedTypes
    <2> QED BY <2>1, <2>2, <1>3
  <1> HIDE DEF clr, relocations, flags, fixed
  <1>7. /\ dirs'.entry = dirs.entry /\ dirs'.imports = dirs.imports /\ dirs'.clr = clr /\ dirs'.tls = dirs.tls
        /\ dirs'.relocations = relocations /\ dirs'.flags = flags /\ dirs'.addresses = dirs.addresses
    BY <1>2, <1>3 DEF HeaderType, clr
  <1>8. OutputIsPlain'
    <2>1. packed'.kind # "exe32" /\ packed'.kind # "dll64" /\ (Early(packed)' => ~ packed.new)
      BY <1>1, <1>3 DEF Early
    <2>2. /\ CodeShows => program["code"] = <<>>
          /\ program["table"] = <<>> /\ (packed.exports = "held" => program["exports"] = <<>>)
      BY <1>3 DEF Loadable
    <2>3. CodeShows' /\ NamesShow' /\ dirs'.imports \in {"table", "kmiat"} => \A n \in DOMAIN packed'.names : program'[n] = <<>>
      BY <1>1, <1>3, <1>7, SamePacked DEF NamesPlain, Names
    <2>4. CodeShows' => program'["code"] = <<>>
      BY <1>1, <2>2, SamePacked
    <2> QED BY <1>1, <1>4, <2>1, <2>2, <2>3, <2>4 DEF OutputIsPlain
  <1>9. HeaderMatchesImage'
    <2>1. packed'.kind = "exe64" /\ packed'.clr = packed.clr /\ packed'.relocatable = packed.relocatable
          /\ packed'.flags = packed.flags
      BY <1>1, <1>3
    <2>2. dirs'.clr /\ (packed'.clr \in {"foreign", "blank"} => CodeShows') => program'["clr"] = <<>>
      BY <1>1, <1>5, <1>7, <2>1, SamePacked
    <2>3. dirs'.tls => program'["tls"] \in {<<>>, <<"placeholder">>}
      BY <1>1, <1>4, <1>7
    <2>4. dirs'.imports # "garbled" /\ dirs'.entry # "garbled" /\ (dirs'.addresses => dirs'.imports = "table")
      BY <1>3, <1>7
    <2>5. /\ Fixed' => ~ dirs'.relocations /\ dirs'.flags = "zero"
          /\ ~ Fixed' => /\ dirs'.relocations = packed'.relocatable
                         /\ dirs'.flags = IF OldLayout' THEN Ensured(packed'.flags) ELSE packed'.flags
      BY <1>1, <1>6, <1>7, <2>1, SamePacked
    <2> QED BY <2>1, <2>2, <2>3, <2>4, <2>5 DEF HeaderMatchesImage, Ensured
  <1> QED BY <1>1, <1>8, <1>9, Ends

LEMMA Image64Next ==
  ASSUME RInv, Exe64Next
  PROVE  Rebuilt'
  BY OpeningImage64, BlocksImage64, ZeroImage, OldNamesImage, SectionsImage64, PagesImage64, MetadataImage64,
     LatePagesImage, ImportsImage64, ClrImage64, TlsImage64, FlagsImage64 DEF Exe64Next

-----------------------------------------------------------------------------
\* The steps of the PE32 pipeline.
LEMMA Opens32 ==
  ASSUME RInv, stage \in Opening32, stage' \in Opening32, packed' = packed, result' = result, program' = program
  PROVE  Rebuilt'
  <1>1. stage \in Stages32 /\ stage' \in Stages32 /\ stage # "end"
    BY StagesApart DEF Stages32
  <1>2. program' = Covered' /\ result' = <<"running">>
    <2>1. program = Covered /\ result = <<"running">>
      BY <1>1, Known DEF Image32
    <2> QED BY <2>1, SamePacked
  <1>3. Image32'
    BY <1>2 DEF Image32, Opening32, Paged32
  <1>4. Header32'
    BY DEF Header32, Opening32, Held32, Paged32, Rebuilt32
  <1> QED BY <1>1, <1>2, <1>3, <1>4, Keeps32

LEMMA OpeningImage32 ==
  ASSUME RInv, PrefixTables \/ WholePayload \/ AllTables \/ Second \/ Third \/ Fourth \/ Fifth \/ Seventh
               \/ CustomDecryptor \/ Eighth \/ FileDecryptor
  PROVE  Rebuilt'
  <1>1. stage \in Opening32
    BY DEF PrefixTables, WholePayload, AllTables, Second, Third, Fourth, Fifth, Seventh, CustomDecryptor, Eighth,
           FileDecryptor, Opening32
  <1>2. ASSUME ~ \E why : Decline(why)
        PROVE  packed' = packed /\ result' = result /\ stage' \in Opening32 /\ program' = program
    <2>1. CASE PrefixTables \/ AllTables
      <3>1. TryTable \/ (Quiet /\ Go("whole payload"))
        BY <1>2, <2>1 DEF PrefixTables, AllTables
      <3>2. CASE TryTable
        BY <1>1, <3>2 DEF TryTable, Go, Opening32
      <3>3. CASE Quiet /\ Go("whole payload")
        BY <3>3 DEF Quiet, Go, Opening32
      <3> QED BY <3>1, <3>2, <3>3
    <2>2. CASE WholePayload \/ Second
      BY <2>2 DEF WholePayload, Second, Go, Opening32
    <2>3. CASE Fourth \/ Fifth \/ Seventh
      BY <1>2, <2>3 DEF Fourth, Fifth, Seventh, Unlock, Go, Opening32
    <2>4. CASE Third \/ Eighth
      BY <1>1, <1>2, <2>4 DEF Third, Eighth, Try, Go, Opening32
    <2>5. CASE FileDecryptor
      BY <1>1, <1>2, <2>5 DEF FileDecryptor, Go, Opening32
    <2>6. CASE CustomDecryptor
      BY <1>2, <2>6 DEF CustomDecryptor, Quiet, Go, Opening32
    <2> QED BY <2>1, <2>2, <2>3, <2>4, <2>5, <2>6
  <1> QED BY <1>1, <1>2, Opens32, Declines

LEMMA ReadingImage ==
  ASSUME RInv, Reading32
  PROVE  Rebuilt'
  <1>1. stage = "reading" /\ stage \in Stages32 /\ stage # "end" /\ stage \in Opening32
    BY DEF Reading32, Stages32, Opening32
  <1>2. result = <<"running">> /\ program = Covered /\ IsPacked(packed) /\ packed.kind = "exe32" /\ dirs \in HeaderType
    BY <1>1, Known DEF Image32
  <1>3. program["meta"] = <<"meta">>
    BY <1>2, BlocksUncover
  <1>4. /\ packed' = packed /\ result' = result /\ program' = program /\ stage' = "zero list"
        /\ dirs' = [dirs EXCEPT !.held = TRUE]
    BY <1>3 DEF Reading32, Go
  <1>5. dirs'.held
    BY <1>2, <1>4 DEF HeaderType
  <1>6. Image32'
    BY <1>2, <1>4, SamePacked DEF Image32, Opening32, Paged32
  <1>7. Header32'
    BY <1>4, <1>5 DEF Header32, Rebuilt32
  <1> QED BY <1>2, <1>4, <1>6, <1>7, Keeps32 DEF Stages32, Held32

LEMMA ZeroImage32 ==
  ASSUME RInv, ZeroList
  PROVE  Rebuilt'
  <1>1. stage = "zero list" /\ stage \in Stages32 /\ stage # "end" /\ stage \in Held32
    BY DEF ZeroList, Stages32, Held32
  <1>2. result = <<"running">> /\ program = Covered /\ dirs.held
    BY <1>1, Known DEF Image32, Header32
  <1>3. packed' = packed /\ result' = result /\ program' = WipedCovered /\ stage' = "file blocks" /\ dirs' = dirs
    BY <1>2 DEF ZeroList, Go, WipedCovered, Wiped
  <1>4. Image32'
    BY <1>3, SamePacked DEF Image32, Opening32, Paged32
  <1>5. Header32'
    BY <1>2, <1>3 DEF Header32, Rebuilt32
  <1> QED BY <1>2, <1>3, <1>4, <1>5, Keeps32 DEF Stages32, Held32

LEMMA BlocksImage32 ==
  ASSUME RInv, FileBlocks32
  PROVE  Rebuilt'
  <1>1. stage = "file blocks" /\ stage \in Stages32 /\ stage # "end" /\ stage \in Held32
    BY DEF FileBlocks32, Stages32, Held32
  <1>2. result = <<"running">> /\ program = WipedCovered /\ dirs.held /\ IsPacked(packed) /\ packed.kind = "exe32"
    BY <1>1, Known DEF Image32, Header32
  <1>3. CASE packed.blocks = "good"
    <2>1. packed' = packed /\ result' = result /\ program' = WipedBare /\ stage' = "fix sections" /\ dirs' = dirs
      BY <1>2, <1>3, BlocksUncover DEF FileBlocks32, Blocks, Go
    <2>2. Image32'
      BY <2>1, SamePacked DEF Image32, Opening32, Paged32
    <2>3. Header32'
      BY <1>2, <2>1 DEF Header32, Rebuilt32
    <2> QED BY <1>2, <2>1, <2>2, <2>3, Keeps32 DEF Stages32, Held32
  <1>4. CASE packed.blocks # "good"
    BY <1>4, Declines DEF FileBlocks32, Blocks
  <1> QED BY <1>3, <1>4

LEMMA SectionsImage32 ==
  ASSUME RInv, Sections32
  PROVE  Rebuilt'
  <1>1. stage = "fix sections" /\ stage \in Stages32 /\ stage # "end" /\ stage \in Held32
    BY DEF Sections32, Stages32, Held32
  <1>2. result = <<"running">> /\ program = WipedBare /\ dirs.held /\ dirs \in HeaderType
    BY <1>1, Known DEF Image32, Header32
  <1>3. /\ packed' = packed /\ result' = result /\ program' = CopiedWiped /\ stage' = "text pages"
        /\ dirs' = [dirs EXCEPT !.imports = "stub", !.relocations = packed.relocatable,
                                !.flags = packed.flags, !.entry = "stub"]
    BY <1>2 DEF Sections32, Go, CopiedWiped
  <1>4. dirs'.held /\ dirs'.flags = packed.flags
    BY <1>2, <1>3 DEF HeaderType
  <1>5. Image32'
    BY <1>3, SamePacked DEF Image32, Opening32, Paged32
  <1>6. Header32'
    BY <1>3, <1>4 DEF Header32, Rebuilt32
  <1> QED BY <1>2, <1>3, <1>5, <1>6, Keeps32 DEF Stages32, Held32

LEMMA StillFixups ==
  ASSUME packed' = packed, program'["fixups"] = Under("fixups")
  PROVE  program'["fixups"] = Under("fixups")'
  BY SamePacked

LEMMA PagesImage32 ==
  ASSUME RInv, Pages32
  PROVE  Rebuilt'
  <1>1. stage = "text pages" /\ stage \in Stages32 /\ stage # "end" /\ stage \in Held32
    BY DEF Pages32, Stages32, Held32
  <1>2. result = <<"running">> /\ program = CopiedWiped /\ dirs.held /\ IsPacked(packed) /\ packed.kind = "exe32"
        /\ dirs.flags = packed.flags
    BY <1>1, Known DEF Image32, Header32
  <1>3. packed' = packed /\ result' = result /\ program' = Paged(CopiedWiped) /\ stage' = "directories" /\ dirs' = dirs
    BY <1>2 DEF Pages32, Go
  <1>4. /\ Loadable(program') /\ program'["fixups"] = Under("fixups")
        /\ CodeShows => NamesCovered(program')
    BY <1>2, <1>3, Path32
  <1>5. ImageLoads' /\ program'["fixups"] = Under("fixups")' /\ (CodeShows' => NamesWait')
    BY <1>3, <1>4, StillLoads, StillWait, StillFixups, SamePacked
  <1>6. Image32'
    BY <1>3, <1>5 DEF Image32, Opening32
  <1>7. Header32'
    BY <1>2, <1>3 DEF Header32, Rebuilt32
  <1> QED BY <1>2, <1>3, <1>6, <1>7, Keeps32 DEF Stages32, Held32, Paged32

\* What the last steps of the PE32 pipeline find.
LEMMA Built32 ==
  ASSUME RInv, stage \in Paged32
  PROVE  /\ stage \in Stages32 /\ stage # "end"
         /\ result = <<"running">> /\ dirs \in HeaderType /\ IsPacked(packed) /\ packed.kind = "exe32"
         /\ packed.relocatable \in BOOLEAN /\ packed.dll \in BOOLEAN
         /\ Image32 /\ Header32 /\ dirs.held
         /\ stage # "compact" => Loadable(program)
         /\ stage \notin {"idata", "compact"} => (CodeShows => NamesCovered(program))
         /\ stage \in Rebuilt32 => dirs.relocations = (packed.dll /\ packed.relocatable) /\ dirs.flags = Flags32
  <1>1. stage \in Stages32 /\ stage \in Held32 /\ stage # "end"
    BY DEF Paged32, Stages32, Held32
  <1>2. /\ result = <<"running">> /\ dirs \in HeaderType /\ IsPacked(packed) /\ packed.kind = "exe32"
        /\ Image32 /\ Header32
    BY <1>1, Known
  <1>3. stage # "compact" => ImageLoads
    BY <1>2 DEF Image32
  <1>4. stage \notin {"idata", "compact"} => (CodeShows => NamesWait)
    BY <1>2 DEF Image32
  <1>5. /\ dirs.held
        /\ stage \in Rebuilt32 => dirs.relocations = (packed.dll /\ packed.relocatable) /\ dirs.flags = Flags32
    BY <1>1, <1>2 DEF Header32
  <1> QED BY <1>1, <1>2, <1>3, <1>4, <1>5, PackedTypes DEF ImageLoads, NamesWait

LEMMA DirectoriesImage ==
  ASSUME RInv, Directories32
  PROVE  Rebuilt'
  <1> DEFINE tls == packed.tls # "none"
             clr == packed.clr # "none"
             relocations == packed.dll /\ packed.relocatable
             flags == IF packed.dll THEN Ensured(dirs.flags) ELSE "zero"
  <1>1. stage = "directories" /\ stage \in Paged32
    BY DEF Directories32, Paged32
  <1>2. /\ result = <<"running">> /\ dirs \in HeaderType /\ dirs.held /\ Loadable(program)
        /\ (CodeShows => NamesCovered(program)) /\ program["fixups"] = Under("fixups") /\ IsPacked(packed)
        /\ dirs.flags = packed.flags
    BY <1>1, Built32 DEF Image32, Header32
  <1>3. /\ packed' = packed /\ result' = result /\ program' = program /\ stage' = "tls directory"
        /\ dirs' = [dirs EXCEPT !.imports = packed.listed, !.tls = tls, !.clr = clr,
                                !.relocations = relocations, !.flags = flags]
    BY <1>1, <1>2, PackedTypes DEF Directories32, Go
  <1>8. relocations = (packed.dll /\ packed.relocatable) /\ flags = Flags32
    BY <1>2 DEF Flags32
  <1> HIDE DEF tls, clr, relocations, flags
  <1>4. /\ dirs'.imports = packed.listed /\ dirs'.relocations = relocations /\ dirs'.flags = Flags32
        /\ dirs'.held
    BY <1>2, <1>3, <1>8 DEF HeaderType
  <1>5. ImageLoads' /\ program'["fixups"] = Under("fixups")' /\ (CodeShows' => NamesWait')
    BY <1>2, <1>3, StillLoads, StillWait, StillFixups, SamePacked
  <1>6. Image32'
    BY <1>3, <1>5 DEF Image32, Opening32
  <1>7. Header32'
    <2>1. packed'.listed = packed.listed /\ packed'.dll = packed.dll /\ packed'.relocatable = packed.relocatable
      BY <1>3
    <2>2. dirs'.relocations = (packed'.dll /\ packed'.relocatable)
      BY <1>4, <1>8, <2>1
    <2>3. stage' = "tls directory" /\ dirs'.held /\ dirs'.imports = packed'.listed /\ dirs'.flags = Flags32'
      BY <1>3, <1>4, <2>1, SamePacked
    <2> QED BY <2>2, <2>3 DEF Header32
  <1> QED BY <1>2, <1>3, <1>6, <1>7, Keeps32 DEF Stages32, Held32, Paged32

LEMMA TlsImage32 ==
  ASSUME RInv, Tls32
  PROVE  Rebuilt'
  <1> DEFINE blank == dirs.tls /\ program["tls"] # <<>>
             covers == IF packed.tls = "stub" THEN <<>>
                       ELSE IF packed.sections THEN <<"placeholder">> ELSE program["tls"]
             tls == packed.tls = "stub" \/ Placeholder
  <1>1. stage = "tls directory" /\ stage \in Paged32 /\ stage \in Rebuilt32
    BY DEF Tls32, Paged32, Rebuilt32
  <1>2. /\ result = <<"running">> /\ dirs \in HeaderType /\ dirs.held /\ Loadable(program) /\ IsPacked(packed)
        /\ (CodeShows => NamesCovered(program)) /\ program["fixups"] = Under("fixups")
        /\ dirs.relocations = (packed.dll /\ packed.relocatable) /\ dirs.flags = Flags32
    BY <1>1, Built32 DEF Image32
  <1>3. dirs.imports = packed.listed
    BY <1>1, Built32 DEF Header32
  <1>4. packed' = packed /\ result' = result /\ stage' = "rearm"
    BY DEF Tls32, Go
  <1>5. /\ blank => program' = [program EXCEPT !["tls"] = covers] /\ dirs' = [dirs EXCEPT !.tls = tls]
        /\ ~ blank => program' = program /\ dirs' = dirs
    BY DEF Tls32
  <1>6. tls \in BOOLEAN /\ (tls => covers \in {<<>>, <<"placeholder">>})
    BY DEF Placeholder
  <1>7. blank => packed.tls \in {"stub", "lost"}
    BY <1>2 DEF Loadable
  <1>8. ~ blank => (dirs.tls => program["tls"] = <<>>)
    OBVIOUS
  <1> HIDE DEF tls, covers, blank
  <1>9. /\ dirs'.imports = dirs.imports /\ dirs'.relocations = dirs.relocations /\ dirs'.flags = dirs.flags
        /\ dirs'.held = dirs.held /\ (blank => dirs'.tls = tls)
    BY <1>2, <1>5 DEF HeaderType
  <1>10. /\ program' = [r \in Regions(packed) |-> program'[r]]
         /\ (blank => program'["tls"] = covers)
         /\ \A r \in Regions(packed) \ {"tls"} : program'[r] = program[r]
         /\ \A n \in Names : program'[n] = program[n]
    <2>1. program = [r \in Regions(packed) |-> program[r]]
      BY <1>2 DEF Loadable
    <2>2. CASE blank
      <3>1. program' = [r \in Regions(packed) |-> IF r = "tls" THEN covers ELSE program[r]]
        BY <1>5, <2>1, <2>2
      <3> QED BY <1>2, <3>1, RegionsApart
    <2>3. CASE ~ blank
      BY <1>5, <2>1, <2>3
    <2> QED BY <2>2, <2>3
  <1>11. dirs'.tls => program'["tls"] \in {<<>>, <<"placeholder">>}
    BY <1>5, <1>6, <1>8, <1>9, <1>10
  <1>12. packed.tls \notin {"stub", "lost"} => program' = program
    BY <1>5, <1>7
  <1>13. Loadable(program')
    <2>1. \A r \in {"code", "table", "exports", "clr"} : r \in Regions(packed) \ {"tls"}
      BY <1>2, RegionsApart
    <2> QED BY <1>2, <1>10, <1>12, <2>1 DEF Loadable
  <1>14. program'["fixups"] = Under("fixups")
    BY <1>2, <1>10, RegionsApart
  <1>15. CodeShows => NamesCovered(program')
    BY <1>2, <1>10 DEF NamesCovered
  <1>16. ImageLoads' /\ program'["fixups"] = Under("fixups")' /\ (CodeShows' => NamesWait')
    BY <1>4, <1>13, <1>14, <1>15, StillLoads, StillWait, StillFixups, SamePacked
  <1>17. Image32'
    BY <1>4, <1>11, <1>16 DEF Image32, Opening32
  <1>18. Header32'
    BY <1>2, <1>3, <1>4, <1>9, SamePacked DEF Header32
  <1> QED BY <1>2, <1>4, <1>17, <1>18, Keeps32 DEF Stages32, Held32, Paged32

LEMMA RearmImage ==
  ASSUME RInv, Rearm
  PROVE  Rebuilt'
  <1> DEFINE rearms == packed.dll /\ dirs.held /\ packed.tls # "none" /\ dirs.relocations
  <1>1. stage = "rearm" /\ stage \in Paged32 /\ stage \in Rebuilt32
    BY DEF Rearm, Paged32, Rebuilt32
  <1>2. /\ result = <<"running">> /\ dirs \in HeaderType /\ dirs.held /\ Loadable(program) /\ IsPacked(packed)
        /\ (CodeShows => NamesCovered(program)) /\ program["fixups"] = Under("fixups")
        /\ (dirs.tls => program["tls"] \in {<<>>, <<"placeholder">>})
        /\ dirs.relocations = (packed.dll /\ packed.relocatable) /\ dirs.flags = Flags32
    BY <1>1, Built32 DEF Image32
  <1>3. dirs.imports = packed.listed
    BY <1>1, Built32 DEF Header32
  <1>4. /\ packed' = packed /\ result' = result /\ stage' = "import names" /\ dirs' = dirs
        /\ program' = IF rearms THEN [program EXCEPT !["fixups"] = Remove("disarmed", @)] ELSE program
    BY DEF Rearm, Go
  <1>5. rearms = (packed.dll /\ packed.relocatable /\ packed.tls # "none")
    BY <1>2
  <1>6. rearms => Remove("disarmed", program["fixups"]) = <<>>
    BY <1>2, UnderIs, ComesOff
  <1> HIDE DEF rearms
  <1>7. /\ program' = [r \in Regions(packed) |-> program'[r]] /\ (rearms => program'["fixups"] = <<>>)
        /\ \A r \in Regions(packed) \ {"fixups"} : program'[r] = program[r]
        /\ \A n \in Names : program'[n] = program[n]
    <2>1. program = [r \in Regions(packed) |-> program[r]]
      BY <1>2 DEF Loadable
    <2>2. CASE rearms
      <3>1. program' = [r \in Regions(packed) |-> IF r = "fixups" THEN <<>> ELSE program[r]]
        BY <1>4, <1>6, <2>1, <2>2
      <3> QED BY <1>2, <3>1, RegionsApart
    <2>3. CASE ~ rearms
      BY <1>4, <2>1, <2>3
    <2> QED BY <2>2, <2>3
  <1>8. \A r \in {"code", "table", "exports", "clr", "tls"} : r \in Regions(packed) \ {"fixups"}
    BY <1>2, RegionsApart
  <1>9. Loadable(program')
    BY <1>2, <1>7, <1>8 DEF Loadable
  <1>10. CodeShows => NamesCovered(program')
    BY <1>2, <1>7 DEF NamesCovered
  <1>11. ImageLoads' /\ (CodeShows' => NamesWait')
    BY <1>4, <1>9, <1>10, StillLoads, StillWait, SamePacked
  <1>12. /\ packed'.dll /\ packed'.relocatable /\ packed'.tls # "none" => program'["fixups"] = <<>>
         /\ dirs'.tls => program'["tls"] \in {<<>>, <<"placeholder">>}
    BY <1>2, <1>4, <1>5, <1>7, <1>8
  <1>13. Image32'
    BY <1>4, <1>11, <1>12 DEF Image32, Opening32
  <1>14. Header32'
    BY <1>2, <1>3, <1>4, SamePacked DEF Header32
  <1> QED BY <1>2, <1>4, <1>13, <1>14, Keeps32 DEF Stages32, Held32, Paged32

LEMMA ImportsImage32 ==
  ASSUME RInv, Imports32
  PROVE  Rebuilt'
  <1> DEFINE table == IF dirs.imports = "table" THEN "table" ELSE packed.anchored
  <1>1. stage = "import names" /\ stage \in Paged32 /\ stage \in Rebuilt32
    BY DEF Imports32, Paged32, Rebuilt32
  <1>2. /\ result = <<"running">> /\ dirs \in HeaderType /\ dirs.held /\ Loadable(program)
        /\ IsPacked(packed) /\ packed.kind = "exe32" /\ (CodeShows => NamesCovered(program))
        /\ (packed.dll /\ packed.relocatable /\ packed.tls # "none" => program["fixups"] = <<>>)
        /\ (dirs.tls => program["tls"] \in {<<>>, <<"placeholder">>})
        /\ dirs.relocations = (packed.dll /\ packed.relocatable) /\ dirs.flags = Flags32
    BY <1>1, Built32 DEF Image32
  <1>3. packed' = packed /\ result' = result /\ stage' = "idata"
    BY DEF Imports32, Go
  <1>4. /\ program' = IF table = "table" THEN AllNames(program) ELSE program
        /\ dirs' = [dirs EXCEPT !.imports = table, !.addresses = FALSE, !.entry = Entry32]
    BY <1>2 DEF Imports32, Entry32
  <1>5. table \in {"none", "table"}
    BY <1>2, PackedTypes
  <1> HIDE DEF table
  <1>6. /\ dirs'.imports = table /\ dirs'.entry = Entry32 /\ dirs'.held /\ dirs'.tls = dirs.tls
        /\ dirs'.relocations = dirs.relocations /\ dirs'.flags = dirs.flags
    BY <1>2, <1>4 DEF HeaderType
  <1>7. program = [r \in Regions(packed) |-> program[r]]
    BY <1>2 DEF Loadable
  <1>8. /\ program' = [r \in Regions(packed) |-> program'[r]]
        /\ \A r \in Regions(packed) \ Names : program'[r] = program[r]
    <2>1. CASE table = "table"
      BY <1>2, <1>4, <1>7, <2>1, DecodesNames
    <2>2. CASE table # "table"
      BY <1>4, <1>7, <2>2
    <2> QED BY <2>1, <2>2
  <1>9. \A r \in {"code", "table", "exports", "clr", "tls", "fixups"} : program'[r] = program[r]
    BY <1>2, <1>8, RegionsApart
  <1>10. Loadable(program')
    BY <1>2, <1>8, <1>9 DEF Loadable
  <1>11. ASSUME CodeShows, NamesShow, table = "table"
         PROVE  NamesPlain(program')
    <2>1. \A n \in Names : packed.names[n] = 1
      BY <1>2, <1>11 DEF NamesShow, Names
    <2>2. \A n \in Names : program[n] = <<"name">>
      BY <1>2, <1>11 DEF NamesCovered
    <2>3. program' = AllNames(program)
      BY <1>4, <1>11
    <2> QED BY <1>2, <1>7, <2>1, <2>2, <2>3, DecodesNames DEF NamesPlain
  <1>12. ImageLoads' /\ (CodeShows' /\ NamesShow' /\ dirs'.imports = "table" => NamesOpen')
    BY <1>3, <1>6, <1>10, <1>11, StillLoads, StillOpen, SamePacked
  <1>13. /\ packed'.dll /\ packed'.relocatable /\ packed'.tls # "none" => program'["fixups"] = <<>>
         /\ dirs'.tls => program'["tls"] \in {<<>>, <<"placeholder">>}
    BY <1>2, <1>3, <1>6, <1>9
  <1>14. Image32'
    BY <1>3, <1>12, <1>13 DEF Image32, Opening32
  <1>15. Header32'
    <2>1. packed'.dll = packed.dll /\ packed'.relocatable = packed.relocatable
      BY <1>3
    <2>2. dirs'.relocations = (packed'.dll /\ packed'.relocatable)
      BY <1>2, <1>6, <2>1
    <2>3. /\ stage' = "idata" /\ dirs'.held /\ dirs'.entry = Entry32' /\ dirs'.imports \in {"none", "table"}
          /\ dirs'.flags = Flags32'
      BY <1>2, <1>3, <1>5, <1>6, SamePacked
    <2> QED BY <2>2, <2>3 DEF Header32
  <1> QED BY <1>2, <1>3, <1>14, <1>15, Keeps32 DEF Stages32, Held32, Paged32

LEMMA KmiatImage ==
  ASSUME RInv, Kmiat
  PROVE  Rebuilt'
  <1> DEFINE moved == ~ packed.dll /\ ~ InIdata /\ dirs.imports = "table"
             wiped == moved /\ packed.tableLast
             imports == IF moved /\ packed.room THEN "kmiat" ELSE dirs.imports
             addresses == ~ packed.dll /\ InIdata
  <1>1. stage = "idata" /\ stage \in Paged32 /\ stage \in Rebuilt32
    BY DEF Kmiat, Paged32, Rebuilt32
  <1>2. /\ result = <<"running">> /\ dirs \in HeaderType /\ dirs.held /\ Loadable(program) /\ IsPacked(packed)
        /\ (CodeShows /\ NamesShow /\ dirs.imports = "table" => NamesPlain(program))
        /\ (packed.dll /\ packed.relocatable /\ packed.tls # "none" => program["fixups"] = <<>>)
        /\ (dirs.tls => program["tls"] \in {<<>>, <<"placeholder">>})
        /\ dirs.relocations = (packed.dll /\ packed.relocatable) /\ dirs.flags = Flags32
    BY <1>1, Built32 DEF Image32, NamesOpen
  <1>3. dirs.imports \in {"none", "table"} /\ dirs.entry = Entry32
    BY <1>1, Built32 DEF Header32
  <1>4. /\ packed' = packed /\ result' = result /\ stage' = "compact"
        /\ program' = IF wiped THEN [program EXCEPT !["table"] = <<"zero">>] ELSE program
        /\ dirs' = [dirs EXCEPT !.imports = imports, !.addresses = addresses]
    BY DEF Kmiat, Go
  <1>5. /\ imports \in {"none", "table", "kmiat"} /\ (addresses => imports = "table")
        /\ imports \in {"table", "kmiat"} => dirs.imports = "table"
        /\ imports = "table" /\ wiped => packed.tableLast /\ ~ packed.room
    BY <1>3 DEF InIdata
  <1> HIDE DEF moved, wiped, imports, addresses
  <1>6. /\ dirs'.imports = imports /\ dirs'.entry = Entry32 /\ dirs'.held /\ dirs'.tls = dirs.tls
        /\ dirs'.relocations = dirs.relocations /\ dirs'.flags = dirs.flags /\ dirs'.addresses = addresses
    BY <1>2, <1>3, <1>4 DEF HeaderType
  <1>7. program = [r \in Regions(packed) |-> program[r]]
    BY <1>2 DEF Loadable
  <1>8. /\ (~ wiped => program'["table"] = program["table"])
        /\ \A r \in {"code", "exports", "tls", "fixups"} : program'[r] = program[r]
        /\ \A n \in Names : program'[n] = program[n]
    <2>1. CASE wiped
      <3>1. program' = [r \in Regions(packed) |-> IF r = "table" THEN <<"zero">> ELSE program[r]]
        BY <1>4, <1>7, <2>1
      <3> QED BY <1>2, <2>1, <3>1, RegionsApart
    <2>2. CASE ~ wiped
      BY <1>4, <2>2
    <2> QED BY <2>1, <2>2
  <1>9. /\ CodeShows => program'["code"] = <<>>
        /\ packed.exports = "held" => program'["exports"] = <<>>
        /\ imports = "table" /\ ~ (packed.tableLast /\ ~ packed.room) => program'["table"] = <<>>
    BY <1>2, <1>5, <1>8 DEF Loadable
  <1>10. CodeShows /\ NamesShow /\ imports \in {"table", "kmiat"} => NamesPlain(program')
    BY <1>2, <1>5, <1>8 DEF NamesPlain
  <1>11. /\ CodeShows' => program'["code"] = <<>>
         /\ packed'.exports = "held" => program'["exports"] = <<>>
         /\ dirs'.imports = "table" /\ ~ (packed'.tableLast /\ ~ packed'.room) => program'["table"] = <<>>
         /\ CodeShows' /\ NamesShow' /\ dirs'.imports \in {"table", "kmiat"} => NamesOpen'
    BY <1>4, <1>6, <1>9, <1>10, StillOpen, SamePacked
  <1>12. /\ packed'.dll /\ packed'.relocatable /\ packed'.tls # "none" => program'["fixups"] = <<>>
         /\ dirs'.tls => program'["tls"] \in {<<>>, <<"placeholder">>}
    BY <1>2, <1>4, <1>6, <1>8
  <1>13. Image32'
    BY <1>4, <1>11, <1>12 DEF Image32, Opening32
  <1>14. Header32'
    <2>1. packed'.dll = packed.dll /\ packed'.relocatable = packed.relocatable
      BY <1>4
    <2>2. dirs'.relocations = (packed'.dll /\ packed'.relocatable)
      BY <1>2, <1>6, <2>1
    <2>3. /\ stage' = "compact" /\ dirs'.held /\ dirs'.entry = Entry32' /\ dirs'.imports \in {"none", "table", "kmiat"}
          /\ dirs'.flags = Flags32' /\ (dirs'.addresses => dirs'.imports = "table")
      BY <1>2, <1>4, <1>5, <1>6, SamePacked
    <2> QED BY <2>2, <2>3 DEF Header32
  <1> QED BY <1>2, <1>4, <1>13, <1>14, Keeps32 DEF Stages32, Held32, Paged32

LEMMA CompactImage ==
  ASSUME RInv, Compact
  PROVE  Rebuilt'
  <1>1. stage = "compact" /\ stage \in Paged32 /\ stage \in Rebuilt32
    BY DEF Compact, Paged32, Rebuilt32
  <1>2. /\ IsPacked(packed) /\ packed.kind = "exe32" /\ packed.relocatable \in BOOLEAN /\ packed.dll \in BOOLEAN
        /\ dirs.relocations = (packed.dll /\ packed.relocatable) /\ dirs.flags = Flags32
        /\ Image32 /\ Header32
    BY <1>1, Built32
  <1>3. /\ CodeShows /\ NamesShow /\ dirs.imports \in {"table", "kmiat"} => NamesPlain(program)
        /\ CodeShows => program["code"] = <<>>
        /\ packed.exports = "held" => program["exports"] = <<>>
        /\ dirs.imports = "table" /\ ~ (packed.tableLast /\ ~ packed.room) => program["table"] = <<>>
        /\ packed.dll /\ packed.relocatable /\ packed.tls # "none" => program["fixups"] = <<>>
        /\ dirs.tls => program["tls"] \in {<<>>, <<"placeholder">>}
    BY <1>1, <1>2 DEF Image32, NamesOpen
  <1>4. /\ dirs.entry = Entry32 /\ dirs.imports \in {"none", "table", "kmiat"}
        /\ dirs.addresses => dirs.imports = "table"
    BY <1>1, <1>2 DEF Header32
  <1>5. CASE Oversize
    BY <1>5, Declines DEF Compact
  <1>6. CASE ~ Oversize
    <2>1. stage' = "end" /\ packed' = packed /\ program' = program /\ dirs' = dirs
      BY <1>6 DEF Compact
    <2>2. packed'.kind = "exe32" /\ ~ Early(packed)'
      BY <1>2, <2>1 DEF Early
    <2>3. CodeShows' /\ NamesShow' /\ dirs'.imports \in {"table", "kmiat"} => \A n \in DOMAIN packed'.names : program'[n] = <<>>
      BY <1>3, <2>1, SamePacked DEF NamesPlain, Names
    <2>4. CodeShows' => program'["code"] = <<>>
      BY <1>3, <2>1, SamePacked
    <2>5. OutputIsPlain'
      BY <1>3, <2>1, <2>2, <2>3, <2>4 DEF OutputIsPlain
    <2>6. /\ dirs'.entry # "garbled" /\ (dirs'.addresses => dirs'.imports = "table")
          /\ dirs'.tls => program'["tls"] \in {<<>>, <<"placeholder">>}
      BY <1>2, <1>3, <1>4, <2>1, PackedTypes DEF Entry32
    <2>7. /\ Fixed' => ~ dirs'.relocations /\ dirs'.flags = "zero"
          /\ ~ Fixed' => /\ dirs'.relocations = packed'.relocatable
                         /\ dirs'.flags = IF OldLayout' THEN Ensured(packed'.flags) ELSE packed'.flags
      <3>1. OldLayout /\ (Fixed <=> ~ packed.dll)
        BY <1>2 DEF OldLayout, Fixed
      <3>2. packed'.relocatable = packed.relocatable /\ packed'.flags = packed.flags
        BY <2>1
      <3>3. dirs.flags = IF packed.dll THEN Ensured(packed.flags) ELSE "zero"
        BY <1>2 DEF Flags32
      <3> QED BY <1>2, <2>1, <3>1, <3>2, <3>3, SamePacked
    <2>8. HeaderMatchesImage'
      BY <2>2, <2>6, <2>7 DEF HeaderMatchesImage, Ensured
    <2> QED BY <2>1, <2>5, <2>8, Ends
  <1> QED BY <1>5, <1>6

LEMMA Image32Next ==
  ASSUME RInv, Exe32Next
  PROVE  Rebuilt'
  BY OpeningImage32, ReadingImage, ZeroImage32, BlocksImage32, SectionsImage32, PagesImage32, DirectoriesImage,
     TlsImage32, RearmImage, ImportsImage32, KmiatImage, CompactImage DEF Exe32Next

-----------------------------------------------------------------------------
\* The steps of the DLL pipeline.
LEMMA OpeningImageDll ==
  ASSUME RInv, DllDirectories \/ Descriptor \/ CodeBlock1 \/ CodeBlock2 \/ CodeBlock3 \/ CodeBlock4
  PROVE  Rebuilt'
  <1>1. stage \in OpeningDll /\ stage \in StagesDll /\ stage # "end"
    BY DEF DllDirectories, Descriptor, CodeBlock1, CodeBlock2, CodeBlock3, CodeBlock4, OpeningDll, StagesDll
  <1>2. result = <<"running">> /\ program = Covered /\ ~ dirs.addresses /\ dirs \in HeaderType
    BY <1>1, Known DEF ImageDll, HeaderDll
  <1>3. ASSUME ~ \E why : Decline(why)
        PROVE  packed' = packed /\ result' = result /\ stage' \in OpeningDll /\ program' = program /\ ~ dirs'.addresses
    <2>1. CASE DllDirectories
      <3>1. packed' = packed /\ result' = result /\ stage' = "descriptor" /\ program' = program
            /\ dirs' = [dirs EXCEPT !.imports = packed.anchored, !.relocations = FALSE]
        BY <2>1 DEF DllDirectories, Go
      <3> QED BY <1>2, <3>1 DEF HeaderType, OpeningDll
    <2>2. CASE Descriptor \/ CodeBlock1 \/ CodeBlock2 \/ CodeBlock3 \/ CodeBlock4
      BY <1>2, <1>3, <2>2 DEF Descriptor, CodeBlock1, CodeBlock2, CodeBlock3, CodeBlock4, Unlock, Go, OpeningDll
    <2> QED BY <2>1, <2>2
  <1>4. ASSUME packed' = packed, result' = result, stage' \in OpeningDll, program' = program, ~ dirs'.addresses
        PROVE  Rebuilt'
    <2>1. program' = Covered' /\ stage' \in StagesDll
      BY <1>2, <1>4, SamePacked DEF StagesDll
    <2>2. ImageDll'
      BY <1>4, <2>1 DEF ImageDll, OpeningDll
    <2>3. HeaderDll'
      BY <1>4 DEF HeaderDll, OpeningDll
    <2> QED BY <1>2, <1>4, <2>1, <2>2, <2>3, KeepsDll
  <1> QED BY <1>3, <1>4, Declines

LEMMA PrefillImage ==
  ASSUME RInv, Prefill
  PROVE  Rebuilt'
  <1>1. stage = "prefill" /\ stage \in OpeningDll /\ stage \in StagesDll /\ stage # "end"
    BY DEF Prefill, OpeningDll, StagesDll
  <1>2. result = <<"running">> /\ program = Covered /\ ~ dirs.addresses
    BY <1>1, Known DEF ImageDll, HeaderDll
  <1>3. packed' = packed /\ result' = result /\ stage' = "dll blocks" /\ dirs' = dirs /\ program' = Prefilled
    BY <1>2 DEF Prefill, Go, Prefilled, FromFile
  <1>4. ImageDll'
    BY <1>3, SamePacked DEF ImageDll, OpeningDll
  <1>5. HeaderDll'
    BY <1>2, <1>3 DEF HeaderDll
  <1> QED BY <1>2, <1>3, <1>4, <1>5, KeepsDll DEF StagesDll

\* What the later steps of the DLL pipeline must not lose.
Kept(regions) ==
  /\ regions = [r \in Regions(packed) |-> regions[r]]
  /\ CodeShows => regions["code"] = <<>>
  /\ regions["table"] = <<>> /\ regions["meta"] = <<"meta">>
  /\ packed.clr = "whole" => regions["clr"] = <<>> /\ regions["metadata"] = <<>>
  /\ packed.clr = "whole" /\ packed.resources => regions["resources"] = <<>>

ImageKept == Kept(program)

LEMMA StillKept ==
  ASSUME packed' = packed, Kept(program')
  PROVE  ImageKept'
  BY SamePacked DEF ImageKept, Kept, Regions, Areas

LEMMA KeptDll ==
  /\ ImageDll /\ stage \in {"dll names", "dll header", "dll metadata"} => ImageKept
  /\ /\ stage' \in {"dll names", "dll header", "dll metadata"}
     /\ ImageKept'
     /\ stage' = "dll names" => (CodeShows' => NamesWait')
     /\ stage' \in {"dll header", "dll metadata"} => (CodeShows' /\ NamesShow' => NamesOpen')
     /\ stage' = "dll metadata" => (packed'.exports = "held" => program'["exports"] = <<>>)
     => ImageDll'
  <1>1. ImageDll /\ stage \in {"dll names", "dll header", "dll metadata"} => ImageKept
    BY DEF ImageDll, ImageKept, Kept
  <1>2. ASSUME stage' \in {"dll names", "dll header", "dll metadata"}, ImageKept',
               stage' = "dll names" => (CodeShows' => NamesWait'),
               stage' \in {"dll header", "dll metadata"} => (CodeShows' /\ NamesShow' => NamesOpen'),
               stage' = "dll metadata" => (packed'.exports = "held" => program'["exports"] = <<>>)
        PROVE  ImageDll'
    BY <1>2 DEF ImageDll, ImageKept, Kept, OpeningDll
  <1> QED BY <1>1, <1>2

\* The blocks leave what was copied from the file for them.
LEMMA PrefilledBlocks ==
  ASSUME IsPacked(packed), packed.kind = "dll64",
         NEW regions, regions = [r \in DOMAIN Prefilled |-> IF r \in packed.inBlocks THEN Under(r) ELSE Prefilled[r]]
  PROVE  Kept(regions) /\ (CodeShows => NamesCovered(regions))
  <1>1. Covered = [r \in Regions(packed) |-> Cover(r)]
    BY DEF Covered
  <1>2. Prefilled = [r \in Regions(packed) |-> IF packed.clr # "none" /\ r \in FromFile THEN <<>> ELSE Cover(r)]
    BY <1>1 DEF Prefilled, FromStub, FromFile
  <1>3. \A r \in Regions(packed) : r \notin packed.inBlocks => Cover(r) = Under(r)
    BY DEF Cover
  <1>4. regions = [r \in Regions(packed) |-> regions[r]]
    BY <1>2
  <1>5. \A r \in Regions(packed) \ FromFile : regions[r] = Under(r)
    BY <1>2, <1>3
  <1>6. {"code", "table", "meta"} \cup Names \subseteq Regions(packed) \ FromFile
    BY RegionsApart DEF FromFile
  <1>7. CodeShows => ~ Encrypted
    BY DEF CodeShows, Encrypted
  <1>8. regions["table"] = <<>> /\ regions["meta"] = <<"meta">> /\ (CodeShows => regions["code"] = <<>>)
    BY <1>5, <1>6, <1>7, UnderIs
  <1>9. CodeShows => \A n \in Names : regions[n] = <<"name">>
    BY <1>5, <1>6, <1>7, UnderIs
  <1>10. \A r \in FromFile : r \in Regions(packed)
    BY RegionsApart DEF FromFile
  <1>11. packed.clr = "whole" => \A r \in FromFile \ packed.inBlocks : regions[r] = <<>>
    BY <1>2, <1>10
  <1>12. /\ packed.clr = "whole" => "clr" \notin packed.inBlocks /\ "metadata" \notin packed.inBlocks
         /\ packed.resources => "resources" \notin packed.inBlocks
    BY DEF IsPacked
  <1>13. packed.clr = "whole" => regions["clr"] = <<>> /\ regions["metadata"] = <<>>
    BY <1>11, <1>12 DEF FromFile
  <1>14. packed.clr = "whole" /\ packed.resources => regions["resources"] = <<>>
    BY <1>11, <1>12 DEF FromFile
  <1> QED BY <1>4, <1>8, <1>9, <1>13, <1>14 DEF Kept, NamesCovered

LEMMA BlocksImageDll ==
  ASSUME RInv, DllBlocks
  PROVE  Rebuilt'
  <1>1. stage = "dll blocks" /\ stage \in StagesDll /\ stage # "end"
    BY DEF DllBlocks, StagesDll
  <1>2. /\ result = <<"running">> /\ program = Prefilled /\ ~ dirs.addresses
        /\ IsPacked(packed) /\ packed.kind = "dll64"
    BY <1>1, Known DEF ImageDll, HeaderDll
  <1>3. CASE packed.blocks = "good"
    <2>1. /\ packed' = packed /\ result' = result /\ stage' = "dll names" /\ dirs' = dirs
          /\ program' = [r \in DOMAIN Prefilled |-> IF r \in packed.inBlocks THEN Under(r) ELSE Prefilled[r]]
      BY <1>2, <1>3 DEF DllBlocks, Blocks, Go
    <2>2. Kept(program') /\ (CodeShows => NamesCovered(program'))
      BY <1>2, <2>1, PrefilledBlocks
    <2>3. ImageKept' /\ (CodeShows' => NamesWait')
      BY <2>1, <2>2, StillKept, StillWait, SamePacked
    <2>4. ImageDll'
      BY <2>1, <2>3, KeptDll
    <2>5. HeaderDll'
      BY <1>2, <2>1 DEF HeaderDll
    <2> QED BY <1>2, <2>1, <2>4, <2>5, KeepsDll DEF StagesDll
  <1>4. CASE packed.blocks # "good"
    BY <1>4, Declines DEF DllBlocks, Blocks
  <1> QED BY <1>3, <1>4

LEMMA NamesImageDll ==
  ASSUME RInv, DllNames
  PROVE  Rebuilt'
  <1>1. stage = "dll names" /\ stage \in StagesDll /\ stage # "end"
    BY DEF DllNames, StagesDll
  <1>2. /\ result = <<"running">> /\ ~ dirs.addresses /\ IsPacked(packed) /\ packed.kind = "dll64"
        /\ Kept(program) /\ (CodeShows => NamesCovered(program))
    BY <1>1, Known, KeptDll DEF ImageDll, HeaderDll, ImageKept, NamesWait
  <1>3. /\ packed' = packed /\ result' = result /\ stage' = "dll header" /\ dirs' = dirs
        /\ program' = IF packed.anchored = "table" THEN AllNames(program) ELSE program
    BY DEF DllNames, Go
  <1>4. program = [r \in Regions(packed) |-> program[r]]
    BY <1>2 DEF Kept
  <1>5. /\ program' = [r \in Regions(packed) |-> program'[r]]
        /\ \A r \in Regions(packed) \ Names : program'[r] = program[r]
    <2>1. CASE packed.anchored = "table"
      BY <1>2, <1>3, <1>4, <2>1, DecodesNames
    <2>2. CASE packed.anchored # "table"
      BY <1>3, <1>4, <2>2
    <2> QED BY <2>1, <2>2
  <1>6. \A r \in {"code", "table", "meta", "clr", "metadata", "resources"} : program'[r] = program[r]
    BY <1>2, <1>5, RegionsApart
  <1>7. Kept(program')
    BY <1>2, <1>5, <1>6 DEF Kept
  <1>8. ASSUME CodeShows, NamesShow
        PROVE  NamesPlain(program')
    <2>1. (\A n \in Names : packed.names[n] = 1) /\ packed.anchored = "table"
      BY <1>2, <1>8 DEF NamesShow, Names, Early
    <2>2. \A n \in Names : program[n] = <<"name">>
      BY <1>2, <1>8 DEF NamesCovered
    <2>3. program' = AllNames(program)
      BY <1>3, <2>1
    <2> QED BY <1>2, <1>4, <2>1, <2>2, <2>3, DecodesNames DEF NamesPlain
  <1>9. ImageKept' /\ (CodeShows' /\ NamesShow' => NamesOpen')
    BY <1>3, <1>7, <1>8, StillKept, StillOpen, SamePacked
  <1>10. ImageDll'
    BY <1>3, <1>9, KeptDll
  <1>11. HeaderDll'
    BY <1>2, <1>3 DEF HeaderDll
  <1> QED BY <1>2, <1>3, <1>10, <1>11, KeepsDll DEF StagesDll

LEMMA HeaderImageDll ==
  ASSUME RInv, DllHeader
  PROVE  Rebuilt'
  <1> DEFINE copied == DllExports(program)
  <1>1. stage = "dll header" /\ stage \in StagesDll /\ stage # "end"
    BY DEF DllHeader, StagesDll
  <1>2. /\ result = <<"running">> /\ ~ dirs.addresses /\ dirs \in HeaderType /\ IsPacked(packed)
        /\ Kept(program) /\ (CodeShows /\ NamesShow => NamesPlain(program))
    BY <1>1, Known, KeptDll DEF ImageDll, HeaderDll, ImageKept, NamesOpen
  <1>3. /\ packed' = packed /\ result' = result /\ stage' = "dll metadata"
        /\ program' = IF packed.clr = "none" THEN copied ELSE FromStub(copied, {"clr"})
        /\ dirs' = [dirs EXCEPT !.imports = "stub", !.relocations = packed.relocatable,
                                !.flags = packed.flags, !.entry = "stub"]
    BY DEF DllHeader, Go
  <1>4. ~ dirs'.addresses /\ dirs'.relocations = packed.relocatable /\ dirs'.flags = packed.flags
    BY <1>2, <1>3 DEF HeaderType
  <1>5. program = [r \in Regions(packed) |-> program[r]]
    BY <1>2 DEF Kept
  <1>6. copied = [r \in Regions(packed) |->
                    IF r = "exports" /\ packed.exports = "unheld" THEN <<"dos stub">>
                    ELSE IF r = "exports" /\ packed.exports = "held" THEN <<>> ELSE program[r]]
    <2>1. CASE packed.exports = "unheld"
      BY <1>5, <2>1 DEF DllExports
    <2>2. CASE packed.exports = "held"
      BY <1>5, <2>2 DEF DllExports, Exports, FromStub
    <2>3. CASE packed.exports \notin {"unheld", "held"}
      BY <1>5, <2>3 DEF DllExports, Exports
    <2> QED BY <2>1, <2>2, <2>3
  <1> HIDE DEF copied
  <1>7. program' = [r \in Regions(packed) |-> IF packed.clr # "none" /\ r = "clr" THEN <<>> ELSE copied[r]]
    <2>1. CASE packed.clr = "none"
      BY <1>3, <1>6, <2>1
    <2>2. CASE packed.clr # "none"
      BY <1>3, <1>6, <2>2 DEF FromStub
    <2> QED BY <2>1, <2>2
  <1>8. /\ program' = [r \in Regions(packed) |-> program'[r]]
        /\ \A r \in Regions(packed) \ {"exports", "clr"} : program'[r] = program[r]
        /\ program'["clr"] = program["clr"] \/ program'["clr"] = <<>>
        /\ packed.exports = "held" => program'["exports"] = <<>>
    <2>1. "clr" \in Regions(packed) /\ "exports" \in Regions(packed)
      BY <1>2, RegionsApart
    <2> QED BY <1>6, <1>7, <2>1
  <1>9. /\ \A r \in {"code", "table", "meta", "metadata", "resources"} : program'[r] = program[r]
        /\ \A n \in Names : program'[n] = program[n]
    BY <1>2, <1>8, RegionsApart
  <1>10. Kept(program')
    BY <1>2, <1>8, <1>9 DEF Kept
  <1>11. CodeShows /\ NamesShow => NamesPlain(program')
    BY <1>2, <1>9 DEF NamesPlain
  <1>12. ImageKept' /\ (CodeShows' /\ NamesShow' => NamesOpen')
    BY <1>3, <1>10, <1>11, StillKept, StillOpen, SamePacked
  <1>13. ImageDll'
    BY <1>3, <1>8, <1>12, KeptDll
  <1>14. HeaderDll'
    BY <1>3, <1>4 DEF HeaderDll
  <1> QED BY <1>2, <1>3, <1>13, <1>14, KeepsDll DEF StagesDll

LEMMA MetadataImageDll ==
  ASSUME RInv, DllMetadata
  PROVE  Rebuilt'
  <1> DEFINE tls == packed.tls # "none"
             clr == packed.clr # "none"
  <1>1. stage = "dll metadata" /\ stage \in StagesDll /\ stage # "end"
    BY DEF DllMetadata, StagesDll
  <1>2. /\ ~ dirs.addresses /\ dirs \in HeaderType /\ IsPacked(packed) /\ packed.kind = "dll64"
        /\ Kept(program) /\ (CodeShows /\ NamesShow => NamesPlain(program))
        /\ packed.exports = "held" => program["exports"] = <<>>
        /\ dirs.relocations = packed.relocatable /\ dirs.flags = packed.flags
    BY <1>1, Known, KeptDll DEF ImageDll, HeaderDll, ImageKept, NamesOpen
  <1>3. program["meta"] = <<"meta">> /\ program = [r \in Regions(packed) |-> program[r]]
    BY <1>2 DEF Kept
  <1>4. /\ packed' = packed /\ stage' = "end"
        /\ program' = [program EXCEPT !["meta"] = Remove("meta", @)]
        /\ dirs' = [dirs EXCEPT !.entry = packed.entry, !.imports = packed.listed, !.tls = tls, !.clr = clr]
    BY <1>3 DEF DllMetadata
  <1> HIDE DEF tls, clr
  <1>5. /\ dirs'.entry = packed.entry /\ dirs'.imports = packed.listed /\ ~ dirs'.addresses
        /\ dirs'.relocations = packed.relocatable /\ dirs'.flags = packed.flags
    BY <1>2, <1>4 DEF HeaderType
  <1>6. \A r \in Regions(packed) \ {"meta"} : program'[r] = program[r]
    BY <1>3, <1>4
  <1>7. /\ \A r \in {"code", "table", "clr", "metadata", "resources", "exports"} : program'[r] = program[r]
        /\ \A n \in Names : program'[n] = program[n]
    BY <1>2, <1>6, RegionsApart
  <1>8. packed'.kind = "dll64"
    BY <1>2, <1>4
  <1>9. OutputIsPlain'
    <2>1. CodeShows' => program'["code"] = <<>>
      BY <1>2, <1>4, <1>7, SamePacked DEF Kept
    <2>2. CodeShows' /\ NamesShow' => \A n \in DOMAIN packed'.names : program'[n] = <<>>
      BY <1>2, <1>4, <1>7, SamePacked DEF NamesPlain, Names
    <2>3. /\ program'["table"] = <<>> /\ (packed'.exports = "held" => program'["exports"] = <<>>)
          /\ packed'.clr = "whole" => program'["clr"] = <<>> /\ program'["metadata"] = <<>>
          /\ packed'.clr = "whole" /\ packed'.resources => program'["resources"] = <<>>
      BY <1>2, <1>4, <1>7 DEF Kept
    <2> QED BY <1>8, <2>1, <2>2, <2>3 DEF OutputIsPlain
  <1>10. HeaderMatchesImage'
    <2>1. dirs'.entry # "garbled" /\ dirs'.imports # "garbled"
      BY <1>2, <1>5, PackedTypes
    <2>2. ~ OldLayout' /\ ~ Fixed' /\ dirs'.relocations = packed'.relocatable /\ dirs'.flags = packed'.flags
      <3>1. ~ OldLayout /\ ~ Fixed
        BY <1>2 DEF OldLayout, Fixed, Early
      <3>2. packed'.relocatable = packed.relocatable /\ packed'.flags = packed.flags
        BY <1>4
      <3> QED BY <1>4, <1>5, <3>1, <3>2, SamePacked
    <2> QED BY <1>5, <1>8, <2>1, <2>2 DEF HeaderMatchesImage, Ensured
  <1> QED BY <1>4, <1>9, <1>10, Ends

LEMMA ImageDllNext ==
  ASSUME RInv, Dll64Next
  PROVE  Rebuilt'
  BY OpeningImageDll, PrefillImage, BlocksImageDll, NamesImageDll, HeaderImageDll, MetadataImageDll DEF Dll64Next

-----------------------------------------------------------------------------
LEMMA InitRebuilt ==
  ASSUME RebuildInit
  PROVE  RInv
  <1>1. stage = "header" /\ program = Covered /\ ~ dirs.addresses /\ result[1] # "image"
    BY DEF RebuildInit, Covered
  <1>2. ~ Restored
    BY <1>1 DEF Restored
  <1>3. Image64 /\ Header64 /\ Image32 /\ Header32 /\ ImageDll /\ HeaderDll
    BY <1>1, Apart DEF Image64, Header64, Image32, Header32, ImageDll, HeaderDll
  <1>4. OutputIsPlain /\ HeaderMatchesImage
    BY <1>2 DEF OutputIsPlain, HeaderMatchesImage
  <1> QED BY <1>1, <1>3, <1>4, InitSearches DEF RInv, Rebuilt

LEMMA HeaderRebuilt ==
  ASSUME RInv, Header
  PROVE  Rebuilt'
  <1>1. stage = "header" /\ stage # "end"
    BY DEF Header
  <1>2. result = <<"running">> /\ program = Covered /\ ~ dirs.addresses
    BY <1>1, Known DEF RInv, Rebuilt
  <1>3. CASE packed.header # "good"
    BY <1>3, Declines DEF Header
  <1>4. CASE packed.header = "good"
    <2>1. packed' = packed /\ result' = result /\ stage' = "payload" /\ program' = program /\ dirs' = dirs
      BY <1>4 DEF Header, Quiet, Go
    <2>2. program' = Covered' /\ ~ dirs'.addresses /\ result'[1] # "image"
      BY <1>2, <2>1, SamePacked
    <2> QED BY <2>1, <2>2, Not64, Not32, NotDll, NotYet DEF Rebuilt
  <1> QED BY <1>3, <1>4

LEMMA PayloadRebuilt ==
  ASSUME RInv, Payload
  PROVE  Rebuilt'
  <1>1. stage = "payload" /\ stage # "end"
    BY DEF Payload
  <1>2. result = <<"running">> /\ program = Covered /\ ~ dirs.addresses
    BY <1>1, Known DEF RInv, Rebuilt
  <1>3. /\ packed' = packed /\ result' = result /\ program' = program /\ dirs' = dirs
        /\ stage' \in {"locate", "tables", "dll directories"}
    BY DEF Payload, Go
  <1>4. program' = Covered' /\ ~ dirs'.addresses /\ result' = <<"running">>
    BY <1>2, <1>3, SamePacked
  <1>5. CASE stage' = "locate"
    <2>1. stage' \in Stages64
      BY <1>5 DEF Stages64, Opening64
    <2>2. Image64'
      BY <1>4, <1>5 DEF Image64
    <2>3. Header64'
      BY <1>4, <1>5 DEF Header64, Rebuilt64
    <2> QED BY <1>4, <2>1, <2>2, <2>3, Keeps64
  <1>6. CASE stage' = "tables"
    <2>1. stage' \in Stages32
      BY <1>6 DEF Stages32, Opening32
    <2>2. Image32'
      BY <1>4, <1>6 DEF Image32, Paged32
    <2>3. Header32'
      BY <1>6 DEF Header32, Held32, Paged32, Rebuilt32
    <2> QED BY <1>4, <2>1, <2>2, <2>3, Keeps32
  <1>7. CASE stage' = "dll directories"
    <2>1. stage' \in StagesDll
      BY <1>7 DEF StagesDll, OpeningDll
    <2>2. ImageDll'
      BY <1>4, <1>7 DEF ImageDll
    <2>3. HeaderDll'
      BY <1>4, <1>7 DEF HeaderDll
    <2> QED BY <1>4, <2>1, <2>2, <2>3, KeepsDll
  <1> QED BY <1>3, <1>5, <1>6, <1>7

LEMMA StuttersRebuilt ==
  ASSUME RInv, UNCHANGED pipeline
  PROVE  Rebuilt'
  <1>1. packed' = packed /\ stage' = stage /\ program' = program /\ dirs' = dirs /\ result' = result
    BY DEF pipeline
  <1>2. /\ Covered' = Covered /\ Bare' = Bare /\ Named' = Named /\ Copied' = Copied
        /\ CopiedNamed' = CopiedNamed /\ WipedCovered' = WipedCovered /\ WipedBare' = WipedBare
        /\ CopiedWiped' = CopiedWiped /\ PagedNamed' = PagedNamed /\ PagedNew' = PagedNew /\ Prefilled' = Prefilled
        /\ (CodeShows' <=> CodeShows) /\ (NamesShow' <=> NamesShow) /\ Names' = Names
        /\ Under("fixups")' = Under("fixups") /\ Regions(packed)' = Regions(packed)
        /\ (OldLayout' <=> OldLayout) /\ (Fixed' <=> Fixed) /\ Flags32' = Flags32 /\ Entry32' = Entry32
    BY <1>1, SamePacked DEF Regions, Areas
  <1>3. /\ ImageLoads => ImageLoads'
        /\ NamesOpen => NamesOpen'
        /\ NamesWait => NamesWait'
    BY <1>1, StillLoads, StillOpen, StillWait DEF ImageLoads, NamesOpen, NamesWait
  <1>4. Image64'
    <2>1. Image64
      BY DEF RInv, Rebuilt
    <2>2. /\ stage \in Opening64 => program = Covered
          /\ stage \in {"zero", "names"} => program = Bare
          /\ stage \in {"names", "pages"} => ~ packed.new
          /\ stage \in {"late pages", "imports"} => packed.new
          /\ stage = "sections" => program = IF packed.new THEN Bare ELSE Named
          /\ stage = "pages" => program = CopiedNamed
          /\ stage = "metadata" => program = IF packed.new THEN Copied ELSE PagedNamed
          /\ stage = "late pages" => program = Copied
          /\ stage = "imports" => program = PagedNew
      BY <2>1 DEF Image64
    <2>3. /\ stage' \in Opening64 => program' = Covered'
          /\ stage' \in {"zero", "names"} => program' = Bare'
          /\ stage' \in {"names", "pages"} => ~ packed'.new
          /\ stage' \in {"late pages", "imports"} => packed'.new
          /\ stage' = "sections" => program' = IF packed'.new THEN Bare' ELSE Named'
          /\ stage' = "pages" => program' = CopiedNamed'
          /\ stage' = "metadata" => program' = IF packed'.new THEN Copied' ELSE PagedNamed'
          /\ stage' = "late pages" => program' = Copied'
          /\ stage' = "imports" => program' = PagedNew'
      BY <1>1, <1>2, <2>2
    <2>4. stage' \in {"clr", "tls", "flags"} =>
            ImageLoads' /\ (CodeShows' /\ NamesShow' /\ dirs'.imports = "table" => NamesOpen')
      BY <1>1, <1>2, <1>3, <2>1 DEF Image64
    <2>5. /\ stage' \in {"tls", "flags"} =>
               /\ packed'.clr \in {"whole", "no signature"} => program'["clr"] = <<>>
               /\ packed'.clr = "whole" => program'["metadata"] = <<>>
               /\ packed'.clr = "whole" /\ packed'.resources /\ ~ packed'.new => program'["resources"] = <<>>
          /\ stage' = "flags" => (dirs'.tls => program'["tls"] = <<>>)
      BY <1>1, <2>1 DEF Image64
    <2> QED BY <2>3, <2>4, <2>5 DEF Image64
  <1>5. Header64' /\ Header32' /\ HeaderDll'
    BY <1>1, <1>2 DEF RInv, Rebuilt, Header64, Header32, HeaderDll
  <1>6. Image32'
    <2>1. Image32
      BY DEF RInv, Rebuilt
    <2>2. /\ stage' \in Opening32 \cup {"zero list"} => program' = Covered'
          /\ stage' = "file blocks" => program' = WipedCovered'
          /\ stage' = "fix sections" => program' = WipedBare'
          /\ stage' = "text pages" => program' = CopiedWiped'
      BY <1>1, <1>2, <2>1 DEF Image32
    <2>3. /\ stage' \in Paged32 \ {"compact"} => ImageLoads'
          /\ stage' \in Paged32 \ {"idata", "compact"} => (CodeShows' => NamesWait')
          /\ stage' = "idata" => (CodeShows' /\ NamesShow' /\ dirs'.imports = "table" => NamesOpen')
      BY <1>1, <1>2, <1>3, <2>1 DEF Image32
    <2>4. /\ stage' \in {"directories", "tls directory", "rearm"} => program'["fixups"] = Under("fixups")'
          /\ stage' \in {"import names", "idata", "compact"} =>
               (packed'.dll /\ packed'.relocatable /\ packed'.tls # "none" => program'["fixups"] = <<>>)
          /\ stage' \in {"rearm", "import names", "idata", "compact"} =>
               (dirs'.tls => program'["tls"] \in {<<>>, <<"placeholder">>})
      BY <1>1, <1>2, <2>1 DEF Image32
    <2>5. stage' = "compact" =>
            /\ CodeShows' /\ NamesShow' /\ dirs'.imports \in {"table", "kmiat"} => NamesOpen'
            /\ CodeShows' => program'["code"] = <<>>
            /\ packed'.exports = "held" => program'["exports"] = <<>>
            /\ dirs'.imports = "table" /\ ~ (packed'.tableLast /\ ~ packed'.room) => program'["table"] = <<>>
      BY <1>1, <1>2, <1>3, <2>1 DEF Image32
    <2> QED BY <2>2, <2>3, <2>4, <2>5 DEF Image32
  <1>7. ImageDll'
    BY <1>1, <1>2, <1>3 DEF RInv, Rebuilt, ImageDll
  <1>8. OutputIsPlain' /\ HeaderMatchesImage'
    <2>1. OutputIsPlain'
      BY <1>1, <1>2 DEF RInv, Rebuilt, OutputIsPlain, Restored, Early
    <2>2. HeaderMatchesImage'
      BY <1>1, <1>2 DEF RInv, Rebuilt, HeaderMatchesImage, Restored
    <2> QED BY <2>1, <2>2
  <1> QED BY <1>1, <1>2, <1>4, <1>5, <1>6, <1>7, <1>8 DEF RInv, Rebuilt

LEMMA NextRebuilt ==
  ASSUME RInv, [RebuildNext]_pipeline
  PROVE  RInv'
  <1>1. Rebuilt'
    BY HeaderRebuilt, PayloadRebuilt, Image64Next, Image32Next, ImageDllNext, StuttersRebuilt DEF RebuildNext, RebuildDone
  <1>2. SInv'
    BY NextSearches DEF RInv
  <1> QED BY <1>1, <1>2 DEF RInv

LEMMA RebuiltAlways == RebuildSpec => []RInv
  <1>1. RebuildInit => RInv
    BY InitRebuilt
  <1>2. RInv /\ [RebuildNext]_pipeline => RInv'
    BY NextRebuilt
  <1> QED BY <1>1, <1>2, PTL DEF RebuildSpec

\* What the loader will use of a rebuilt image is what the packer was given: the passes
\* over the code section, the names and the regions copied from the file run in an order
\* in which none of them undoes another (exe/pipeline.rs 1700-1756, pe32.rs 880-1100 and
\* dll/pipeline.rs 1190-1400).
THEOREM OutputsArePlain == RebuildSpec => []OutputIsPlain
  <1>1. RInv => OutputIsPlain
    BY DEF RInv, Rebuilt
  <1> QED BY <1>1, RebuiltAlways, PTL

\* The header of a rebuilt image promises the loader what the image has: directories that
\* are not blank, an entry point that was read in time, no relocations and no
\* characteristics in a fixed image, those of the protected file in any other, with the
\* flag that lets it move only where the field was zero (pipeline.rs 1853-1948 and
\* pe32.rs 990-1195).
THEOREM HeadersMatch == RebuildSpec => []HeaderMatchesImage
  <1>1. RInv => HeaderMatchesImage
    BY DEF RInv, Rebuilt
  <1> QED BY <1>1, RebuiltAlways, PTL
=============================================================================
