------------------------------- MODULE Extract -------------------------------
(***************************************************************************)
(* Stage 1 and stage 2 extraction of a protected Android library:          *)
(*   senbei-engine/src/android/extract/{pipeline,stage1,stream}.rs         *)
(* Record streams nest: a direct record is either raw data or, when its    *)
(* own level decoded the interpreter it names, a child stream encrypted    *)
(* for that interpreter.  The recursion is a stack of frames here.         *)
(***************************************************************************)
EXTENDS Integers, Sequences, SequencesExt

CONSTANTS
  Elfs,      \* the libraries: what stage 1 and the embedded decoder say of each
  Streams,   \* name |-> [table, records]; the name stands for its bytes
  ConfigOf,  \* image content |-> the decoder configuration parsed from it
  Ceilings,  \* the ResourceLimits a caller may pass
  Boot,      \* the bootstrap stream, 0xe2
  Ids,       \* command ids wrap at this (2^32)
  None

ASSUME ExtractAssumption ==
  /\ Ids \in Nat \ {0} /\ Boot \in 0..Ids - 1
  /\ \A l \in Ceilings : {l.entry, l.total, l.entries, l.depth} \subseteq Nat
  /\ \A e \in Elfs : e.size \in Nat
  /\ \A s \in DOMAIN Streams : \A i \in 1..Len(Streams[s].records) :
       LET r == Streams[s].records[i] IN r.id \in 0..Ids - 1 /\ {r.size, r.metasize} \subseteq Nat

\* A direct record's interpreter has its command id less 0x10, wrapping.
Interpreter(id) == (id - 16) % Ids

VARIABLES
  elf, limits,  \* chosen once
  step,         \* "start", "stage1", "streams", "done" or "failed"
  stack,        \* the calls of `extract_stream`, the running one last
  config,       \* budget.config
  used,         \* budget.bytes
  counted,      \* budget.records
  seen,         \* seen_streams: <<id, stream>>
  registry,     \* command id |-> its module
  streams,      \* the stream reports, a parent before its children
  artifacts,    \* the artifact reports
  files,        \* the output directory: name |-> content
  index         \* index.json

vars == <<elf, limits, step, stack, config, used, counted, seen, registry, streams,
          artifacts, files, index>>
budget == <<used, counted>>
output == <<registry, streams, artifacts, files>>

Call(stream, id, depth, parent, saved) ==
  [stream |-> stream, id |-> id, depth |-> depth, parent |-> parent, saved |-> saved,
   phase |-> "enter", at |-> 1, held |-> None, meta |-> FALSE, report |-> <<>>,
   directs |-> <<>>, level |-> {}, children |-> <<>>]

Top == Last(stack)
Records == Streams[Top.stream].records
Rec == Records[Top.at]
InPhase(p) == step = "streams" /\ stack # <<>> /\ Top.phase = p
ToTop(frame) == stack' = Append(Front(stack), frame)

Fits(size) == size <= limits.entry /\ used + size <= limits.total

Fail == step' = "failed"

SumOf(sizes) ==
  LET sum[i \in 0..Len(sizes)] == IF i = 0 THEN 0 ELSE sum[i - 1] + sizes[i]
  IN sum[Len(sizes)]

Put(f, key, value) == [x \in DOMAIN f \cup {key} |-> IF x = key THEN value ELSE f[x]]

-----------------------------------------------------------------------------
Init ==
  /\ elf \in Elfs /\ limits \in Ceilings
  /\ step = "start" /\ stack = <<>> /\ config = None
  /\ used = 0 /\ counted = 0 /\ seen = {}
  /\ registry = <<>> /\ streams = <<>> /\ artifacts = <<>> /\ files = <<>>
  /\ index = None

\* What stage 1 checks of the ELF, its private section and its header, and the
\* ceilings of the first copy the task keeps.
Inspected ==
  /\ elf.stage1
  /\ elf.size <= limits.entry /\ elf.size <= limits.total

\* The requested copy of stage 2 is there even when its decoder is not.
Inspect ==
  /\ step = "start"
  /\ IF elf.file /\ elf.stage2 # "input" /\ Inspected
     THEN /\ step' = "stage1"
          /\ files' = IF elf.stage2 = "none" THEN files ELSE Put(files, <<"stage2">>, elf.stream)
     ELSE Fail /\ UNCHANGED files
  /\ UNCHANGED <<elf, limits, stack, config, used, counted, seen, registry, streams,
                 artifacts, index>>

\* The plaintext is the first thing charged; the bootstrap stream is depth 0.
Configure ==
  /\ step = "stage1"
  /\ IF elf.core # None /\ Fits(elf.size)
     THEN /\ step' = "streams"
          /\ config' = elf.core
          /\ used' = used + elf.size
          /\ stack' = <<Call(elf.stream, Boot, 0, None, None)>>
     ELSE Fail /\ UNCHANGED <<config, used, stack>>
  /\ UNCHANGED <<elf, limits, counted, seen, registry, streams, artifacts, files, index>>

\* Back in the caller, which decodes under its own configuration again.
Return == stack' = Front(stack) /\ config' = Top.saved

\* The descriptor table ends exactly where the first payload begins.
Tabled(s) == s \in DOMAIN Streams /\ Streams[s].table /\ Len(Streams[s].records) \in 1..256

\* A mutant of Known: a stream that was read is taken for a new one.
NeverKnown(key) == FALSE

\* The same bytes under the same id.
Known(key) == key \in seen

\* A stream that was read before is not read again.
Enter ==
  /\ InPhase("enter")
  /\ LET key == <<Top.id, Top.stream>>
         known == Known(key)
         ready == Tabled(Top.stream) /\ counted + Len(Records) <= limits.entries
     IN IF Top.depth > limits.depth
        THEN Fail /\ UNCHANGED <<stack, config, counted, seen>>
        ELSE /\ seen' = seen \cup {key}
             /\ \/ known /\ Return /\ UNCHANGED <<step, counted>>
                \/ /\ ~ known /\ ready
                   /\ counted' = counted + Len(Records)
                   /\ ToTop([Top EXCEPT !.phase = "image"])
                   /\ UNCHANGED <<step, config>>
                \/ ~ known /\ ~ ready /\ Fail /\ UNCHANGED <<stack, config, counted>>
  /\ UNCHANGED <<elf, limits, used, output, index>>

-----------------------------------------------------------------------------
\* A mutant of FileName: without the digest of its content.
FileNameAlone(rec, content, suffix) == <<Top.depth, Top.id, rec.index, rec.id, suffix>>

\* d<depth>_s<stream>_r<record>_id<command>_<digest>.<suffix>
FileName(rec, content, suffix) == <<Top.depth, Top.id, rec.index, rec.id, content, suffix>>

Artifact(rec, content, size, suffix) ==
  [path |-> FileName(rec, content, suffix), content |-> content, size |-> size, suffix |-> suffix]

\* `write_artifact`: the file first, then its report.
WriteArtifact(a) ==
  /\ files' = Put(files, a.path, a.content)
  /\ artifacts' = Append(artifacts, a)

\* A container opens under the configuration it was encrypted with, and holds
\* as many bytes as its record declares.
Decodes(rec) == rec.inside /\ rec.key = config /\ rec.honest

\* A mutant of Payable: a metadata part is not charged.
PayableImage(size, part) == part = "image" => Fits(size)

\* The declared size is charged before the decoder reserves it.
Payable(size, part) == Fits(size)

Part(part, size, content, suffix, next) ==
  /\ IF size = 0 \/ (part = "image" /\ Rec.direct)
     THEN /\ ToTop([Top EXCEPT !.phase = next])
          /\ UNCHANGED <<step, used, artifacts, files>>
     ELSE IF Payable(size, part) /\ Decodes(Rec)
     THEN /\ used' = IF Fits(size) THEN used + size ELSE used
          /\ WriteArtifact(Artifact(Rec, content, size, suffix))
          /\ ToTop([Top EXCEPT !.phase = next,
                      !.held = IF part = "image" THEN Artifact(Rec, content, size, suffix) ELSE @,
                      !.meta = part = "metadata"])
          /\ UNCHANGED step
     ELSE Fail /\ UNCHANGED <<stack, used, artifacts, files>>
  /\ UNCHANGED <<elf, limits, config, counted, seen, registry, streams, index>>

DecodeImage ==
  /\ InPhase("image") /\ Top.at <= Len(Records)
  /\ Part("image", Rec.size, Rec.content, "module.bin", "metadata")

DecodeMetadata ==
  /\ InPhase("metadata")
  /\ Part("metadata", Rec.metasize, Rec.metadata, "metadata.bin", "register")

\* A mutant of Conflicting: the first image of an id is kept in silence.
FirstImageStays(id, content) == FALSE

Conflicting(id, content) == id \in DOMAIN registry /\ registry[id].content # content

Module(rec, held, meta) ==
  [content |-> held.content, path |-> held.path, size |-> held.size, depth |-> Top.depth,
   entry |-> rec.entry, kind |-> IF meta THEN "module_image" ELSE "decoded_data"]

RecordReport(rec, held) == [id |-> rec.id, entry |-> rec.entry, image |-> held, nested |-> None]

\* The end of a record's turn: its module is registered, once per command id,
\* and a direct payload waits until the whole level is decoded.
Register ==
  /\ InPhase("register")
  /\ LET held == Top.held IN
     IF held # None /\ Conflicting(Rec.id, held.content)
     THEN Fail /\ UNCHANGED <<stack, registry>>
     ELSE /\ registry' = IF held = None \/ Rec.id \in DOMAIN registry THEN registry
                         ELSE Put(registry, Rec.id, Module(Rec, held, Top.meta))
          /\ ToTop([Top EXCEPT !.phase = "image", !.at = @ + 1, !.held = None, !.meta = FALSE,
                      !.level = IF held = None THEN @ ELSE @ \cup {Rec.id},
                      !.directs = IF Rec.direct /\ Rec.size # 0 THEN Append(@, Top.at) ELSE @,
                      !.report = Append(@, RecordReport(Rec, held))])
          /\ UNCHANGED step
  /\ UNCHANGED <<elf, limits, config, budget, seen, streams, artifacts, files, index>>

Decoded ==
  /\ InPhase("image") /\ Top.at > Len(Records)
  /\ ToTop([Top EXCEPT !.phase = "directs"])
  /\ UNCHANGED <<elf, limits, step, config, budget, seen, output, index>>

-----------------------------------------------------------------------------
\* The level's direct payloads in order: a child stream, or data written as it is.
Direct ==
  /\ InPhase("directs") /\ Top.directs # <<>>
  /\ LET at == Head(Top.directs)
         rec == Records[at]
         next == Interpreter(rec.id)
         raw == Artifact(rec, rec.content, rec.size, "direct.bin")
     IN \/ /\ next \in Top.level
           /\ ToTop([Top EXCEPT !.directs = Tail(@), !.children = Append(@, at),
                       !.report[at].nested = next])
           /\ UNCHANGED <<step, artifacts, files>>
        \/ /\ next \notin Top.level /\ rec.inside
           /\ WriteArtifact(raw)
           /\ ToTop([Top EXCEPT !.directs = Tail(@), !.report[at].image = raw])
           /\ UNCHANGED step
        \/ /\ next \notin Top.level /\ ~ rec.inside
           /\ Fail /\ UNCHANGED <<stack, artifacts, files>>
  /\ UNCHANGED <<elf, limits, config, budget, seen, registry, streams, index>>

StreamReport ==
  [stream |-> Top.stream, id |-> Top.id, depth |-> Top.depth, parent |-> Top.parent,
   config |-> config, records |-> Top.report]

Report ==
  /\ InPhase("directs") /\ Top.directs = <<>>
  /\ streams' = Append(streams, StreamReport)
  /\ ToTop([Top EXCEPT !.phase = "children"])
  /\ UNCHANGED <<elf, limits, step, config, budget, seen, registry, artifacts, files, index>>

\* The configuration is parsed from the registered image of that id.
ChildConfig(id) == ConfigOf[registry[id].content]

Child ==
  /\ InPhase("children") /\ Top.children # <<>>
  /\ LET at == Head(Top.children)
         rec == Records[at]
         id == Interpreter(rec.id)
     IN IF rec.inside /\ ChildConfig(id) # None /\ Top.depth + 1 <= limits.depth
        THEN /\ config' = ChildConfig(id)
             /\ stack' = Append(Append(Front(stack), [Top EXCEPT !.children = Tail(@)]),
                                Call(rec.child, id, Top.depth + 1,
                                     [stream |-> Top.id, record |-> at, id |-> rec.id], config))
             /\ UNCHANGED step
        ELSE Fail /\ UNCHANGED <<config, stack>>
  /\ UNCHANGED <<elf, limits, budget, seen, output, index>>

Leave ==
  /\ InPhase("children") /\ Top.children = <<>>
  /\ Return
  /\ UNCHANGED <<elf, limits, step, budget, seen, output, index>>

\* A write or a reservation fails, and with it the whole extraction.
Abort ==
  /\ step \in {"start", "stage1", "streams"}
  /\ Fail
  /\ UNCHANGED <<elf, limits, stack, config, budget, seen, output, index>>

\* index.json is the last file written.
WriteIndex ==
  /\ step = "streams" /\ stack = <<>>
  /\ index' = [registry |-> registry, streams |-> streams, artifacts |-> artifacts]
  /\ step' = "done"
  /\ UNCHANGED <<elf, limits, stack, config, budget, seen, output>>

Next ==
  \/ Inspect \/ Configure \/ Enter
  \/ DecodeImage \/ DecodeMetadata \/ Register \/ Decoded
  \/ Direct \/ Report \/ Child \/ Leave
  \/ Abort \/ WriteIndex

Spec == Init /\ [][Next]_vars

-----------------------------------------------------------------------------
Names ==
  DOMAIN Streams \cup {e.stream : e \in Elfs}
  \cup UNION {{Streams[s].records[i].child : i \in 1..Len(Streams[s].records)} : s \in DOMAIN Streams}

TypeOK ==
  /\ elf \in Elfs /\ limits \in Ceilings
  /\ step \in {"start", "stage1", "streams", "done", "failed"}
  /\ used \in 0..limits.total /\ counted \in 0..limits.entries
  /\ seen \subseteq (0..Ids - 1) \X Names
  /\ Len(stack) <= limits.depth + 1
  /\ DOMAIN registry \subseteq 0..Ids - 1
  /\ index = IF step = "done"
             THEN [registry |-> registry, streams |-> streams, artifacts |-> artifacts] ELSE None

\* The parents of a stream report: an earlier report, one level up, whose record
\* nests this stream.
Parents(k) ==
  {p \in 1..k - 1 :
     /\ streams[p].id = streams[k].parent.stream
     /\ streams[p].depth + 1 = streams[k].depth
     /\ LET r == streams[k].parent.record IN
          r \in DOMAIN streams[p].records /\ streams[p].records[r].nested = streams[k].id}

\* A nested stream is decoded by the interpreter its own parent level carried,
\* whatever other levels registered under that id before (extract_stream 352-398,
\* register_module 412-424).
ChildrenUseTheirInterpreter ==
  \A k \in DOMAIN streams : streams[k].depth > 0 =>
    \E p \in Parents(k) : \E r \in ToSet(streams[p].records) :
       /\ r.id = streams[k].id /\ r.image # None
       /\ ConfigOf[r.image.content] = streams[k].config

\* The streams that were read, and those some running call is reading.
Reports == {<<"report", k>> : k \in DOMAIN streams}
Readers == {<<"call", k>> : k \in {c \in DOMAIN stack : stack[c].phase \notin {"enter", "children"}}}

Key(reading) ==
  LET s == IF reading[1] = "report" THEN streams[reading[2]] ELSE stack[reading[2]]
  IN <<s.id, s.stream>>

\* The streams the reports say are nested in others.
Nestings ==
  UNION {{<<streams[k].records[at].nested, Streams[streams[k].stream].records[at].child>> :
            at \in {r \in DOMAIN streams[k].records : streams[k].records[r].nested # None}} :
         k \in DOMAIN streams}

\* A stream is read once however often and wherever it is nested, in a level that
\* repeats it or in one of its own children, and one that was found nested is
\* not left out: at the end all were read (extract_stream 202-232, 378-410).
StreamsAreReadOnce ==
  /\ \A a, b \in Reports \cup Readers : Key(a) = Key(b) => a = b
  /\ step = "done" => Nestings \subseteq {Key(a) : a \in Reports}

\* Every artifact a report names is in the directory with the content it was
\* reported with: no later record has written over it (write_artifact 426-461).
ReportedFilesStay ==
  files # <<>> => \A a \in ToSet(artifacts) : files[a.path] = a.content

\* What was decoded; direct payloads are parts of what is there already.
IsPaid(a) == a.suffix # "direct.bin"

Paid == SumOf([i \in DOMAIN artifacts |-> IF IsPaid(artifacts[i]) THEN artifacts[i].size ELSE 0])

\* Everything decoded, and the stage 2 plaintext before it, fits the ceilings the
\* caller passed, one by one and in sum (extract_stage2_with_limits 92-165).
DecodedWithinLimits ==
  /\ step \in {"streams", "done"} => elf.size + Paid <= limits.total
  /\ \A a \in ToSet(artifacts) : IsPaid(a) => a.size <= limits.entry
  /\ SumOf([k \in DOMAIN streams |-> Len(streams[k].records)]) <= limits.entries
  /\ \A s \in ToSet(streams) : s.depth <= limits.depth
=============================================================================
