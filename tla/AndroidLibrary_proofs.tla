------------------------ MODULE AndroidLibrary_proofs ------------------------
(***************************************************************************)
(* Theorems about one protected library, for any streams, ceilings, depth  *)
(* of nesting and decoded image: a child stream is decoded by the          *)
(* interpreter its own parent level carried, each stream is read once, no  *)
(* artifact is written over, what is decoded stays within the ceilings of  *)
(* the input, only a finished library is published, and nothing but its    *)
(* tables is written over.                                                 *)
(***************************************************************************)
EXTENDS AndroidLibrary, SequenceTheorems, FiniteSetTheorems, WellFoundedInduction, TLAPS

all == <<vars, restoring, calling>>

IsSeq(s) == s \in Seq({s[i] : i \in DOMAIN s})

Fields ==
  {"stream", "id", "depth", "parent", "saved", "phase", "at", "held", "meta", "report",
   "directs", "level", "children"}

IsFrame(f) == f = [x \in Fields |-> f[x]]

IsReport(r) == r = [x \in {"id", "entry", "image", "nested"} |-> r[x]]

Row(f, i) == Streams[f.stream].records[i]

-----------------------------------------------------------------------------
\* What a frame has of its own stream.
Shape(f) ==
  /\ IsFrame(f) /\ IsSeq(f.report) /\ IsSeq(f.directs) /\ IsSeq(f.children)
  /\ \A i \in DOMAIN f.report : IsReport(f.report[i])
  /\ f.at = Len(f.report) + 1
  /\ f.held # None => f.phase \in {"metadata", "register"} /\ ~ Row(f, f.at).direct
  /\ \A i \in DOMAIN f.directs :
       f.directs[i] \in DOMAIN f.report /\ Row(f, f.directs[i]).direct
  /\ \A i \in DOMAIN f.children :
       LET c == f.children[i] IN
       /\ c \in DOMAIN f.report
       /\ Interpreter(Row(f, c).id) \in f.level
       /\ f.report[c].nested = Interpreter(Row(f, c).id)

\* An id of the level has an image of this level, the one registered; a direct
\* record, whose image is set later, is never the witness.
Level(f, modules) ==
  \A id \in f.level :
    /\ id \in DOMAIN modules
    /\ \E r \in DOMAIN f.report :
         /\ ~ Row(f, r).direct
         /\ f.report[r].id = id /\ f.report[r].image # None
         /\ f.report[r].image.content = modules[id].content

\* A level whose children are being read has its report among the streams.
Reported(f, reports) ==
  f.phase = "children" =>
    \E q \in DOMAIN reports :
      reports[q].id = f.id /\ reports[q].depth = f.depth /\ reports[q].records = f.report

\* This report is that of the level that nests stream id at this depth, and it
\* carries the interpreter that was parsed into this configuration.
IsParent(up, parent, id, depth, cfg) ==
  /\ up.id = parent.stream /\ up.depth + 1 = depth
  /\ parent.record \in DOMAIN up.records
  /\ up.records[parent.record].nested = id
  /\ \E r \in DOMAIN up.records :
       /\ up.records[r].id = id /\ up.records[r].image # None
       /\ ConfigOf[up.records[r].image.content] = cfg

HasParent(f, cfg, reports) ==
  \E p \in DOMAIN reports : IsParent(reports[p], f.parent, f.id, f.depth, cfg)

\* The configuration frame n decodes under: what the frame above it saved.
ConfigAt(n) == IF n = Len(stack) THEN config ELSE stack[n + 1].saved

Sound(f) == Shape(f) /\ Level(f, registry) /\ Reported(f, streams)

Stacked ==
  /\ IsSeq(stack) /\ IsSeq(streams)
  /\ \A n \in DOMAIN stack : Sound(stack[n])
  /\ \A n \in DOMAIN stack :
       IF n = 1 THEN stack[n].depth = 0 ELSE HasParent(stack[n], ConfigAt(n), streams)

Parented ==
  \A k \in DOMAIN streams : streams[k].depth > 0 =>
    \E p \in 1..k - 1 :
      IsParent(streams[p], streams[k].parent, streams[k].id, streams[k].depth, streams[k].config)

(***************************************************************************)
(* The inductive invariant: the stack and the reports together.  The goal  *)
(* speaks of the reports alone, which say nothing of the levels still      *)
(* being read: that their ids are their own, and under which configuration *)
(* each is read again when the level above it returns.                     *)
(***************************************************************************)
Nested == Stacked /\ Parented

-----------------------------------------------------------------------------
\* A sequence is one over what it holds.
LEMMA SeqOverItself ==
  ASSUME NEW T, NEW s \in Seq(T)
  PROVE  IsSeq(s)
  <1>1. Len(s) \in Nat /\ DOMAIN s = 1..Len(s) /\ s = [i \in 1..Len(s) |-> s[i]]
    OBVIOUS
  <1>2. \A i \in 1..Len(s) : s[i] \in {s[j] : j \in DOMAIN s}
    BY <1>1
  <1>3. s \in [1..Len(s) -> {s[j] : j \in DOMAIN s}]
    BY <1>1, <1>2
  <1> QED BY <1>1, <1>3, SeqDef DEF IsSeq

LEMMA AppendFacts ==
  ASSUME NEW s, NEW x, IsSeq(s)
  PROVE  /\ IsSeq(Append(s, x)) /\ Len(s) \in Nat /\ DOMAIN s = 1..Len(s)
         /\ Len(Append(s, x)) = Len(s) + 1
         /\ DOMAIN Append(s, x) = 1..Len(s) + 1
         /\ \A i \in 1..Len(s) : Append(s, x)[i] = s[i]
         /\ Append(s, x)[Len(s) + 1] = x
  <1> DEFINE T == {s[i] : i \in DOMAIN s} \cup {x}
  <1>1. s \in Seq(T) /\ x \in T
    BY SeqMonotonic DEF IsSeq
  <1> HIDE DEF T
  <1>2. /\ Append(s, x) \in Seq(T) /\ Len(Append(s, x)) = Len(s) + 1
        /\ DOMAIN Append(s, x) = 1..Len(s) + 1
        /\ Len(s) \in Nat /\ DOMAIN s = 1..Len(s)
        /\ \A i \in 1..Len(s) : Append(s, x)[i] = s[i]
        /\ Append(s, x)[Len(s) + 1] = x
    BY <1>1
  <1> QED BY <1>2, SeqOverItself

LEMMA FrontFacts ==
  ASSUME NEW s, IsSeq(s), s # <<>>
  PROVE  /\ IsSeq(Front(s)) /\ Len(s) \in Nat \ {0} /\ DOMAIN s = 1..Len(s)
         /\ Len(Front(s)) = Len(s) - 1
         /\ DOMAIN Front(s) = 1..Len(s) - 1
         /\ \A i \in 1..Len(s) - 1 : Front(s)[i] = s[i]
         /\ Last(s) = s[Len(s)]
  <1> DEFINE T == {s[i] : i \in DOMAIN s}
  <1>1. s \in Seq(T)
    BY DEF IsSeq
  <1> HIDE DEF T
  <1>2. Len(s) \in Nat \ {0} /\ DOMAIN s = 1..Len(s) /\ \A i \in 1..Len(s) : s[i] \in T
    BY <1>1, EmptySeq
  <1>3. /\ Front(s) \in Seq(T) /\ Len(Front(s)) = Len(s) - 1
        /\ \A i \in 1..Len(s) - 1 : Front(s)[i] = s[i]
    <2>1. \A i \in 1..Len(s) - 1 : s[i] \in T
      BY <1>2
    <2>2. /\ SubSeq(s, 1, Len(s) - 1) \in Seq(T)
          /\ Len(SubSeq(s, 1, Len(s) - 1)) = IF 1 <= Len(s) - 1 THEN Len(s) - 1 - 1 + 1 ELSE 0
          /\ \A i \in 1..Len(s) - 1 - 1 + 1 : SubSeq(s, 1, Len(s) - 1)[i] = s[1 + i - 1]
      BY <1>2, <2>1, SubSeqProperties, Len(s) - 1 \in Int
    <2> QED BY <1>2, <2>2 DEF Front
  <1>4. DOMAIN Front(s) = 1..Len(s) - 1
    BY <1>3
  <1> QED BY <1>2, <1>3, <1>4, SeqOverItself DEF Last

\* The last element replaced.
LEMMA ReplaceFacts ==
  ASSUME NEW s, NEW x, IsSeq(s), s # <<>>
  PROVE  LET t == Append(Front(s), x) IN
         /\ IsSeq(t) /\ Len(t) = Len(s) /\ DOMAIN t = 1..Len(s)
         /\ \A i \in 1..Len(s) - 1 : t[i] = s[i]
         /\ t[Len(s)] = x
  <1>1. /\ IsSeq(Front(s)) /\ Len(Front(s)) = Len(s) - 1 /\ Len(s) \in Nat \ {0}
        /\ \A i \in 1..Len(s) - 1 : Front(s)[i] = s[i]
    BY FrontFacts
  <1>2. LET t == Append(Front(s), x) IN
        /\ IsSeq(t) /\ Len(t) = Len(Front(s)) + 1 /\ DOMAIN t = 1..Len(Front(s)) + 1
        /\ \A i \in 1..Len(Front(s)) : t[i] = Front(s)[i]
        /\ t[Len(Front(s)) + 1] = x
    BY <1>1, AppendFacts
  <1> QED BY <1>1, <1>2

LEMMA TailFacts ==
  ASSUME NEW s, IsSeq(s), s # <<>>
  PROVE  /\ IsSeq(Tail(s)) /\ Head(s) = s[1] /\ 1 \in DOMAIN s
         /\ \A i \in DOMAIN Tail(s) : i + 1 \in DOMAIN s /\ Tail(s)[i] = s[i + 1]
  <1> DEFINE T == {s[i] : i \in DOMAIN s}
  <1>1. s \in Seq(T)
    BY DEF IsSeq
  <1> HIDE DEF T
  <1>2. Len(s) \in Nat \ {0} /\ DOMAIN s = 1..Len(s)
    BY <1>1, EmptySeq
  <1>3. /\ Tail(s) \in Seq(T) /\ Len(Tail(s)) = Len(s) - 1
        /\ \A i \in 1..Len(Tail(s)) : Tail(s)[i] = s[i + 1]
    BY <1>1, HeadTailProperties
  <1>4. DOMAIN Tail(s) = 1..Len(s) - 1
    BY <1>3
  <1>5. Head(s) = s[1]
    BY <1>1, <1>2
  <1>6. \A i \in DOMAIN Tail(s) : i + 1 \in DOMAIN s /\ Tail(s)[i] = s[i + 1]
    BY <1>2, <1>3, <1>4
  <1>7. IsSeq(Tail(s))
    BY <1>3, SeqOverItself
  <1> QED BY <1>2, <1>5, <1>6, <1>7

LEMMA TailCovers ==
  ASSUME NEW s, IsSeq(s), s # <<>>
  PROVE  \A i \in DOMAIN s : i # 1 => i - 1 \in DOMAIN Tail(s) /\ Tail(s)[i - 1] = s[i]
  <1> DEFINE T == {s[i] : i \in DOMAIN s}
  <1>1. s \in Seq(T)
    BY DEF IsSeq
  <1> HIDE DEF T
  <1>2. Len(s) \in Nat \ {0} /\ DOMAIN s = 1..Len(s)
    BY <1>1, EmptySeq
  <1>3. /\ Tail(s) \in Seq(T) /\ Len(Tail(s)) = Len(s) - 1
        /\ \A i \in 1..Len(Tail(s)) : Tail(s)[i] = s[i + 1]
    BY <1>1, HeadTailProperties
  <1>4. DOMAIN Tail(s) = 1..Len(s) - 1
    BY <1>3
  <1>5. ASSUME NEW i \in 1..Len(s), i # 1
        PROVE  i - 1 \in 1..Len(s) - 1 /\ i - 1 + 1 = i
    BY <1>2, <1>5
  <1> QED BY <1>2, <1>3, <1>4, <1>5

-----------------------------------------------------------------------------
\* What is registered stays, and so does what is reported.
Extends(f, g) == \A x \in DOMAIN f : x \in DOMAIN g /\ g[x] = f[x]

LEMMA SoundStays ==
  ASSUME NEW f, Sound(f), Extends(registry, registry'), Extends(streams, streams')
  PROVE  Shape(f) /\ Level(f, registry') /\ Reported(f, streams')
  <1>1. Level(f, registry')
    BY DEF Sound, Level, Extends
  <1>2. Reported(f, streams')
    BY DEF Sound, Reported, Extends
  <1> QED BY <1>1, <1>2 DEF Sound

LEMMA ParentStays ==
  ASSUME NEW f, NEW cfg, HasParent(f, cfg, streams), Extends(streams, streams')
  PROVE  HasParent(f, cfg, streams')
  BY DEF HasParent, Extends

\* The same call, further on.
SameCall(f, g) ==
  g.stream = f.stream /\ g.id = f.id /\ g.depth = f.depth /\ g.parent = f.parent /\ g.saved = f.saved

LEMMA TopStep ==
  ASSUME Stacked, stack # <<>>, NEW g,
         stack' = Append(Front(stack), g), config' = config, SameCall(Top, g),
         Extends(registry, registry'), Extends(streams, streams'), IsSeq(streams'),
         Shape(g), Level(g, registry'), Reported(g, streams')
  PROVE  Stacked'
  <1>1. /\ IsSeq(stack') /\ Len(stack') = Len(stack) /\ DOMAIN stack' = 1..Len(stack)
        /\ \A i \in 1..Len(stack) - 1 : stack'[i] = stack[i]
        /\ stack'[Len(stack)] = g
        /\ DOMAIN stack = 1..Len(stack) /\ Len(stack) \in Nat \ {0} /\ Top = stack[Len(stack)]
    BY ReplaceFacts, FrontFacts DEF Stacked, Top
  <1>2. ASSUME NEW n \in 1..Len(stack)
        PROVE  Shape(stack'[n]) /\ Level(stack'[n], registry') /\ Reported(stack'[n], streams')
    BY <1>1, SoundStays DEF Stacked
  <1>3. ASSUME NEW n \in 1..Len(stack)
        PROVE  ConfigAt(n)' = ConfigAt(n)
    BY <1>1 DEF ConfigAt, SameCall
  <1>4. ASSUME NEW n \in 1..Len(stack)
        PROVE  IF n = 1 THEN stack'[n].depth = 0 ELSE HasParent(stack'[n], ConfigAt(n)', streams')
    <2>1. IF n = 1 THEN stack[n].depth = 0 ELSE HasParent(stack[n], ConfigAt(n), streams')
      BY <1>1, ParentStays DEF Stacked
    <2>2. stack'[n].depth = stack[n].depth /\ stack'[n].id = stack[n].id /\ stack'[n].parent = stack[n].parent
      BY <1>1 DEF SameCall
    <2> QED BY <1>3, <2>1, <2>2 DEF HasParent
  <1> QED BY <1>1, <1>2, <1>4 DEF Stacked, Sound

LEMMA PopStep ==
  ASSUME Stacked, stack # <<>>, Return, UNCHANGED <<registry, streams>>
  PROVE  Stacked'
  <1>1. /\ IsSeq(stack') /\ Len(stack') = Len(stack) - 1 /\ DOMAIN stack' = 1..Len(stack) - 1
        /\ \A i \in 1..Len(stack) - 1 : stack'[i] = stack[i]
        /\ DOMAIN stack = 1..Len(stack) /\ Len(stack) \in Nat \ {0} /\ Top = stack[Len(stack)]
    BY FrontFacts DEF Stacked, Top, Return
  <1>2. ASSUME NEW n \in 1..Len(stack) - 1
        PROVE  ConfigAt(n)' = ConfigAt(n)
    BY <1>1 DEF ConfigAt, Return
  <1>3. ASSUME NEW n \in 1..Len(stack) - 1
        PROVE  Sound(stack[n])'
    BY <1>1 DEF Stacked, Sound
  <1> QED BY <1>1, <1>2, <1>3 DEF Stacked

LEMMA PushStep ==
  ASSUME Stacked, stack # <<>>, NEW g, NEW h, NEW t, t = Append(Front(stack), g),
         stack' = Append(t, h), SameCall(Top, g), h.saved = config,
         UNCHANGED <<registry, streams>>,
         Shape(g), Level(g, registry), Reported(g, streams),
         Shape(h), Level(h, registry), Reported(h, streams), HasParent(h, config', streams)
  PROVE  Stacked'
  <1>1. /\ IsSeq(t) /\ Len(t) = Len(stack) /\ DOMAIN t = 1..Len(stack)
        /\ \A i \in 1..Len(stack) - 1 : t[i] = stack[i]
        /\ t[Len(stack)] = g
        /\ DOMAIN stack = 1..Len(stack) /\ Len(stack) \in Nat \ {0} /\ Top = stack[Len(stack)]
    BY ReplaceFacts, FrontFacts DEF Stacked, Top
  <1>2. /\ IsSeq(stack') /\ Len(stack') = Len(stack) + 1 /\ DOMAIN stack' = 1..Len(stack) + 1
        /\ \A i \in 1..Len(stack) : stack'[i] = t[i]
        /\ stack'[Len(stack) + 1] = h
    BY <1>1, AppendFacts
  <1>3. ASSUME NEW n \in 1..Len(stack)
        PROVE  ConfigAt(n)' = ConfigAt(n)
    <2>1. CASE n = Len(stack)
      BY <1>1, <1>2, <2>1 DEF ConfigAt
    <2>2. CASE n < Len(stack)
      <3>1. n + 1 \in 1..Len(stack) /\ n # Len(stack) /\ n # Len(stack')
        BY <1>1, <1>2, <2>2
      <3>2. stack'[n + 1] = t[n + 1] /\ t[n + 1].saved = stack[n + 1].saved
        BY <1>1, <1>2, <3>1 DEF SameCall
      <3> QED BY <3>1, <3>2 DEF ConfigAt
    <2> QED BY <1>1, <2>1, <2>2
  <1>4. ASSUME NEW n \in 1..Len(stack) + 1
        PROVE  Sound(stack[n])'
    BY <1>1, <1>2 DEF Stacked, Sound
  <1>5. ASSUME NEW n \in 1..Len(stack)
        PROVE  IF n = 1 THEN stack'[n].depth = 0 ELSE HasParent(stack'[n], ConfigAt(n)', streams')
    <2>1. IF n = 1 THEN stack[n].depth = 0 ELSE HasParent(stack[n], ConfigAt(n), streams')
      BY <1>1 DEF Stacked
    <2>2. stack'[n].depth = stack[n].depth /\ stack'[n].id = stack[n].id /\ stack'[n].parent = stack[n].parent
      BY <1>1, <1>2 DEF SameCall
    <2> QED BY <1>3, <2>1, <2>2 DEF HasParent
  <1>6. ASSUME NEW n \in 1..Len(stack) + 1, n = Len(stack) + 1
        PROVE  HasParent(stack'[n], ConfigAt(n)', streams')
    <2>1. ConfigAt(n)' = config' /\ stack'[n] = h
      BY <1>2, <1>6 DEF ConfigAt
    <2> QED BY <2>1
  <1>7. ASSUME NEW n \in 1..Len(stack) + 1
        PROVE  IF n = 1 THEN stack'[n].depth = 0 ELSE HasParent(stack'[n], ConfigAt(n)', streams')
    <2>1. CASE n = Len(stack) + 1
      BY <1>1, <1>6, <2>1
    <2>2. CASE n # Len(stack) + 1
      <3>1. n \in 1..Len(stack)
        BY <1>1, <2>2
      <3> QED BY <1>5, <3>1
    <2> QED BY <2>1, <2>2
  <1> QED BY <1>2, <1>4, <1>7 DEF Stacked

-----------------------------------------------------------------------------
LEMMA TopIsSound ==
  ASSUME Stacked, stack # <<>>
  PROVE  Sound(Top)
  <1>1. Len(stack) \in DOMAIN stack /\ Top = stack[Len(stack)]
    BY FrontFacts DEF Stacked, Top
  <1> QED BY <1>1 DEF Stacked

LEMMA Still ==
  ASSUME Nested, UNCHANGED <<stack, config, registry, streams>>
  PROVE  Nested'
  <1>1. \A n : ConfigAt(n)' = ConfigAt(n)
    BY DEF ConfigAt
  <1> QED BY <1>1 DEF Nested, Stacked, Parented, Sound

LEMMA FreshCall ==
  ASSUME NEW s, NEW id, NEW depth, NEW parent, NEW saved
  PROVE  LET f == Call(s, id, depth, parent, saved) IN
         /\ Shape(f) /\ Level(f, registry) /\ Reported(f, streams)
         /\ f.id = id /\ f.depth = depth /\ f.parent = parent /\ f.saved = saved
  <1> DEFINE f == Call(s, id, depth, parent, saved)
  <1>1. IsSeq(<<>>) /\ Len(<<>>) = 0 /\ DOMAIN <<>> = {}
    <2>1. <<>> \in Seq({}) /\ Len(<<>>) = 0 /\ DOMAIN <<>> = {}
      OBVIOUS
    <2> QED BY <2>1, SeqOverItself
  <1>2. /\ IsFrame(f) /\ f.report = <<>> /\ f.directs = <<>> /\ f.children = <<>> /\ f.level = {}
        /\ f.at = 1 /\ f.held = None /\ f.phase = "enter"
        /\ f.id = id /\ f.depth = depth /\ f.parent = parent /\ f.saved = saved
    BY DEF Call, IsFrame, Fields
  <1> HIDE DEF f
  <1>3. Shape(f) /\ Level(f, registry) /\ Reported(f, streams)
    BY <1>1, <1>2 DEF Shape, Level, Reported
  <1> QED BY <1>2, <1>3 DEF f

\* The next phase of the same record, with what was decoded of it.
LEMMA NextPhase ==
  ASSUME Stacked, stack # <<>>, NEW g, NEW phase, NEW held, NEW meta,
         g = [Top EXCEPT !.phase = phase, !.held = held, !.meta = meta], ToTop(g),
         phase # "children",
         held # None => phase \in {"metadata", "register"} /\ ~ Row(Top, Top.at).direct,
         UNCHANGED <<config, registry, streams>>
  PROVE  Stacked'
  <1>1. Sound(Top)
    BY TopIsSound
  <1>2. IsFrame(Top)
    BY <1>1 DEF Sound, Shape
  <1>3. /\ IsFrame(g) /\ SameCall(Top, g) /\ g.report = Top.report /\ g.directs = Top.directs
        /\ g.level = Top.level /\ g.children = Top.children /\ g.at = Top.at
        /\ g.held = held /\ g.phase = phase
    BY <1>2 DEF IsFrame, Fields, SameCall
  <1>4. g.stream = Top.stream
    BY <1>3 DEF SameCall
  <1>5. Shape(g)
    BY <1>1, <1>3, <1>4 DEF Sound, Shape, Row
  <1>6. Level(g, registry)
    BY <1>1, <1>3, <1>4 DEF Sound, Level, Row
  <1>7. Reported(g, streams)
    BY <1>3 DEF Reported
  <1> QED BY <1>3, <1>5, <1>6, <1>7, TopStep DEF ToTop, Extends, Stacked

LEMMA ParentedStays ==
  ASSUME Parented, UNCHANGED streams
  PROVE  Parented'
  BY DEF Parented

-----------------------------------------------------------------------------
LEMMA ConfigureNested == Nested /\ Configure => Nested'
  <1> SUFFICES ASSUME Nested, Configure
               PROVE  Nested'
    OBVIOUS
  <1>1. CASE UNCHANGED <<config, stack>>
    BY <1>1, Still DEF Configure
  <1>2. CASE stack' = <<Call(elf.stream, Boot, 0, None, None)>>
    <2> DEFINE f == Call(elf.stream, Boot, 0, None, None)
    <2>1. Shape(f) /\ Level(f, registry) /\ Reported(f, streams) /\ f.depth = 0
      BY FreshCall
    <2> HIDE DEF f
    <2>2. UNCHANGED <<registry, streams>>
      BY DEF Configure
    <2>3. stack' = <<f>>
      BY <1>2 DEF f
    <2>4. IsSeq(stack') /\ DOMAIN stack' = {1} /\ stack'[1] = f
      <3>1. <<f>> \in Seq({f})
        OBVIOUS
      <3>2. IsSeq(<<f>>)
        BY <3>1, SeqOverItself
      <3>3. DOMAIN <<f>> = 1..1 /\ <<f>>[1] = f
        OBVIOUS
      <3>4. 1..1 = {1}
        OBVIOUS
      <3> QED BY <2>3, <3>2, <3>3, <3>4
    <2>5. Stacked'
      BY <2>1, <2>2, <2>4 DEF Stacked, Nested, Sound
    <2> QED BY <2>2, <2>5, ParentedStays DEF Nested
  <1> QED BY <1>1, <1>2 DEF Configure

LEMMA EnterNested == Nested /\ Enter => Nested'
  <1> SUFFICES ASSUME Nested, Enter
               PROVE  Nested'
    OBVIOUS
  <1>1. /\ UNCHANGED <<registry, streams>> /\ stack # <<>> /\ Top.phase = "enter"
        /\ Stacked /\ Parented
    BY DEF Enter, InPhase, output, Nested
  <1>2. \/ UNCHANGED <<stack, config>>
        \/ Return
        \/ ToTop([Top EXCEPT !.phase = "image"]) /\ UNCHANGED config
    BY DEF Enter
  <1>3. CASE UNCHANGED <<stack, config>>
    BY <1>1, <1>3, Still
  <1>4. CASE Return
    BY <1>1, <1>4, PopStep, ParentedStays DEF Nested
  <1>5. CASE ToTop([Top EXCEPT !.phase = "image"]) /\ UNCHANGED config
    <2>1. IsFrame(Top) /\ Top.held = None
      BY <1>1, TopIsSound DEF Sound, Shape
    <2>2. [Top EXCEPT !.phase = "image"]
            = [Top EXCEPT !.phase = "image", !.held = Top.held, !.meta = Top.meta]
      BY <2>1 DEF IsFrame, Fields
    <2>3. Stacked'
      BY <1>1, <1>5, <2>1, <2>2, NextPhase
    <2> QED BY <1>1, <2>3, ParentedStays DEF Nested
  <1> QED BY <1>2, <1>3, <1>4, <1>5

LEMMA PartNested ==
  ASSUME Nested, stack # <<>>, NEW part, NEW size, NEW content, NEW suffix, NEW next,
         \/ part = "image" /\ Top.phase = "image" /\ next = "metadata"
         \/ part = "metadata" /\ Top.phase = "metadata" /\ next = "register",
         Part(part, size, content, suffix, next)
  PROVE  Nested'
  <1> DEFINE a == Artifact(Rec, content, size, suffix)
             held == IF part = "image" THEN a ELSE Top.held
  <1>1. UNCHANGED <<config, registry, streams>> /\ Stacked /\ Parented
    BY DEF Part, Nested
  <1>2. \/ UNCHANGED stack
        \/ ToTop([Top EXCEPT !.phase = next])
        \/ /\ ~ (part = "image" /\ Rec.direct)
           /\ ToTop([Top EXCEPT !.phase = next, !.held = held, !.meta = part = "metadata"])
    BY DEF Part
  <1> HIDE DEF a
  <1>3. Shape(Top) /\ IsFrame(Top) /\ Rec = Row(Top, Top.at)
    BY <1>1, TopIsSound DEF Sound, Shape, Rec, Records, Row
  <1>4. CASE UNCHANGED stack
    BY <1>1, <1>4, Still
  <1>5. CASE ToTop([Top EXCEPT !.phase = next])
    <2>1. [Top EXCEPT !.phase = next]
            = [Top EXCEPT !.phase = next, !.held = Top.held, !.meta = Top.meta]
      BY <1>3 DEF IsFrame, Fields
    <2>2. Top.held # None => next \in {"metadata", "register"} /\ ~ Row(Top, Top.at).direct
      BY <1>3 DEF Shape
    <2>3. next # "children"
      OBVIOUS
    <2>4. Stacked'
      BY <1>1, <1>5, <2>1, <2>2, <2>3, NextPhase
    <2> QED BY <1>1, <2>4, ParentedStays DEF Nested
  <1>6. CASE /\ ~ (part = "image" /\ Rec.direct)
             /\ ToTop([Top EXCEPT !.phase = next, !.held = held, !.meta = part = "metadata"])
    <2>1. held # None => next \in {"metadata", "register"} /\ ~ Row(Top, Top.at).direct
      BY <1>3, <1>6 DEF Shape
    <2> HIDE DEF held
    <2>2. next # "children"
      OBVIOUS
    <2>3. Stacked'
      BY <1>1, <1>6, <2>1, <2>2, NextPhase
    <2> QED BY <1>1, <2>3, ParentedStays DEF Nested
  <1> QED BY <1>2, <1>4, <1>5, <1>6

LEMMA RegisterNested == Nested /\ Register => Nested'
  <1> SUFFICES ASSUME Nested, Register
               PROVE  Nested'
    OBVIOUS
  <1> DEFINE held == Top.held
             r == RecordReport(Rec, held)
             level == IF held = None THEN Top.level ELSE Top.level \cup {Rec.id}
             directs == IF Rec.direct /\ Rec.size # 0 THEN Append(Top.directs, Top.at) ELSE Top.directs
             report == Append(Top.report, r)
             g == [Top EXCEPT !.phase = "image", !.at = @ + 1, !.held = None, !.meta = FALSE,
                     !.level = level, !.directs = directs, !.report = report]
  <1>1. /\ UNCHANGED <<config, streams>> /\ stack # <<>> /\ Top.phase = "register"
        /\ Stacked /\ Parented
    BY DEF Register, InPhase, Nested
  <1>2. Sound(Top) /\ Rec = Row(Top, Top.at)
    BY <1>1, TopIsSound DEF Rec, Records, Row
  <1>3. CASE UNCHANGED <<stack, registry>>
    BY <1>1, <1>3, Still
  <1>4. CASE /\ ~ (held # None /\ Conflicting(Rec.id, held.content))
             /\ registry' = IF held = None \/ Rec.id \in DOMAIN registry THEN registry
                            ELSE Put(registry, Rec.id, Module(Rec, held, Top.meta))
             /\ ToTop(g)
    <2>1. /\ IsFrame(Top) /\ IsSeq(Top.report) /\ IsSeq(Top.directs) /\ Top.at = Len(Top.report) + 1
      BY <1>2 DEF Sound, Shape
    <2>2. /\ IsFrame(g) /\ SameCall(Top, g) /\ g.stream = Top.stream /\ g.children = Top.children
          /\ g.phase = "image" /\ g.held = None /\ g.at = Top.at + 1
          /\ g.report = Append(Top.report, r)
          /\ g.directs = IF Rec.direct /\ Rec.size # 0 THEN Append(Top.directs, Top.at) ELSE Top.directs
          /\ g.level = IF held = None THEN Top.level ELSE Top.level \cup {Rec.id}
      <3> HIDE DEF level, directs, report
      <3>1. /\ IsFrame(g) /\ SameCall(Top, g) /\ g.stream = Top.stream /\ g.children = Top.children
            /\ g.phase = "image" /\ g.held = None /\ g.at = Top.at + 1
            /\ g.report = report /\ g.directs = directs /\ g.level = level
        BY <2>1 DEF IsFrame, Fields, SameCall
      <3> QED BY <3>1 DEF level, directs, report
    <2>3. r.id = Rec.id /\ r.image = held /\ IsReport(r)
      BY DEF RecordReport, IsReport
    <2> HIDE DEF g, r, level, directs, report
    <2>4. /\ IsSeq(g.report) /\ DOMAIN g.report = 1..Top.at /\ Len(g.report) = Top.at
          /\ DOMAIN Top.report = 1..Top.at - 1 /\ Top.at \in Nat \ {0}
          /\ \A i \in 1..Top.at - 1 : g.report[i] = Top.report[i]
          /\ g.report[Top.at] = r
      BY <2>1, <2>2, AppendFacts
    <2>5. IsSeq(g.directs) /\ \A i \in DOMAIN g.directs :
            g.directs[i] \in DOMAIN g.report /\ Row(g, g.directs[i]).direct
      <3>1. \A i \in DOMAIN Top.directs :
              Top.directs[i] \in DOMAIN g.report /\ Row(g, Top.directs[i]).direct
        <4>1. \A i \in DOMAIN Top.directs :
                Top.directs[i] \in DOMAIN Top.report /\ Row(Top, Top.directs[i]).direct
          BY <1>2 DEF Sound, Shape
        <4> QED BY <2>2, <2>4, <4>1 DEF Row
      <3>2. Rec.direct => Top.at \in DOMAIN g.report /\ Row(g, Top.at).direct
        BY <1>2, <2>2, <2>4 DEF Row
      <3>3. CASE Rec.direct /\ Rec.size # 0
        <4>1. IsSeq(g.directs) /\ DOMAIN g.directs = 1..Len(Top.directs) + 1
              /\ DOMAIN Top.directs = 1..Len(Top.directs) /\ Len(Top.directs) \in Nat
              /\ (\A i \in 1..Len(Top.directs) : g.directs[i] = Top.directs[i])
              /\ g.directs[Len(Top.directs) + 1] = Top.at
          BY <2>1, <2>2, <3>3, AppendFacts
        <4> QED BY <3>1, <3>2, <3>3, <4>1
      <3>4. CASE ~ (Rec.direct /\ Rec.size # 0)
        BY <2>1, <2>2, <3>1, <3>4
      <3> QED BY <3>3, <3>4
    <2>6. \A i \in DOMAIN g.children :
            LET c == g.children[i] IN
            /\ c \in DOMAIN g.report
            /\ Interpreter(Row(g, c).id) \in g.level
            /\ g.report[c].nested = Interpreter(Row(g, c).id)
      <3> SUFFICES ASSUME NEW i \in DOMAIN Top.children, NEW c, c = Top.children[i]
                   PROVE  /\ c \in DOMAIN g.report
                          /\ Interpreter(Row(g, c).id) \in g.level
                          /\ g.report[c].nested = Interpreter(Row(g, c).id)
        BY <2>2
      <3>1. /\ c \in DOMAIN Top.report
            /\ Interpreter(Row(Top, c).id) \in Top.level
            /\ Top.report[c].nested = Interpreter(Row(Top, c).id)
        BY <1>2 DEF Sound, Shape
      <3>2. c \in DOMAIN g.report /\ g.report[c] = Top.report[c] /\ Top.level \subseteq g.level
        BY <2>2, <2>4, <3>1
      <3>3. Row(g, c) = Row(Top, c)
        BY <2>2 DEF Row
      <3> QED BY <3>1, <3>2, <3>3
    <2>7. \A i \in DOMAIN g.report : IsReport(g.report[i])
      BY <1>2, <2>3, <2>4 DEF Sound, Shape
    <2>8. Shape(g)
      <3>1. IsSeq(g.children)
        BY <1>2, <2>2 DEF Sound, Shape
      <3> QED BY <2>2, <2>4, <2>5, <2>6, <2>7, <3>1 DEF Shape
    <2>9. Extends(registry, registry')
      <3>1. \A id \in DOMAIN registry :
              id \in DOMAIN registry' /\ registry'[id] = registry[id]
        BY <1>4 DEF Put
      <3> QED BY <3>1 DEF Extends
    <2>10. held # None => Rec.id \in DOMAIN registry' /\ registry'[Rec.id].content = held.content
      <3> SUFFICES ASSUME held # None
                   PROVE  Rec.id \in DOMAIN registry' /\ registry'[Rec.id].content = held.content
        OBVIOUS
      <3>2. Module(Rec, held, Top.meta).content = held.content
        BY DEF Module
      <3>3. CASE Rec.id \in DOMAIN registry
        BY <1>4, <2>9, <3>3 DEF Extends, Conflicting
      <3>4. CASE Rec.id \notin DOMAIN registry
        BY <1>4, <3>2, <3>4 DEF Put
      <3> QED BY <3>3, <3>4
    <2>11. Level(g, registry')
      <3> SUFFICES ASSUME NEW id \in g.level
                   PROVE  /\ id \in DOMAIN registry'
                          /\ \E k \in DOMAIN g.report :
                               /\ ~ Row(g, k).direct
                               /\ g.report[k].id = id /\ g.report[k].image # None
                               /\ g.report[k].image.content = registry'[id].content
        BY DEF Level
      <3>1. CASE id \in Top.level
        <4>1. id \in DOMAIN registry /\ id \in DOMAIN registry' /\ registry'[id] = registry[id]
          BY <1>2, <2>9, <3>1 DEF Sound, Level, Extends
        <4>2. PICK k \in DOMAIN Top.report :
                /\ ~ Row(Top, k).direct
                /\ Top.report[k].id = id /\ Top.report[k].image # None
                /\ Top.report[k].image.content = registry[id].content
          BY <1>2, <3>1 DEF Sound, Level
        <4>3. k \in DOMAIN g.report /\ g.report[k] = Top.report[k] /\ Row(g, k) = Row(Top, k)
          BY <2>2, <2>4 DEF Row
        <4> QED BY <4>1, <4>2, <4>3
      <3>2. CASE held # None /\ id = Rec.id
        <4>1. ~ Row(g, Top.at).direct
          BY <1>2, <2>2, <3>2 DEF Sound, Shape, Row
        <4>2. g.report[Top.at] = r /\ Top.at \in DOMAIN g.report
          BY <2>4
        <4> QED BY <2>3, <2>10, <3>2, <4>1, <4>2
      <3> QED BY <2>2, <3>1, <3>2
    <2>12. Reported(g, streams')
      BY <2>2 DEF Reported
    <2>13. stack' = Append(Front(stack), g)
      BY <1>4 DEF ToTop
    <2>14. Extends(streams, streams') /\ IsSeq(streams')
      BY <1>1 DEF Extends, Stacked
    <2>15. Stacked'
      BY <1>1, <2>2, <2>8, <2>9, <2>11, <2>12, <2>13, <2>14, TopStep
    <2> QED BY <1>1, <2>15, ParentedStays DEF Nested
  <1> QED BY <1>3, <1>4 DEF Register

LEMMA DecodedNested == Nested /\ Decoded => Nested'
  <1> SUFFICES ASSUME Nested, Decoded
               PROVE  Nested'
    OBVIOUS
  <1>1. /\ UNCHANGED <<config, registry, streams>> /\ stack # <<>> /\ Top.phase = "image"
        /\ Stacked /\ Parented /\ ToTop([Top EXCEPT !.phase = "directs"])
    BY DEF Decoded, InPhase, output, Nested
  <1>2. IsFrame(Top) /\ Top.held = None
    BY <1>1, TopIsSound DEF Sound, Shape
  <1>3. [Top EXCEPT !.phase = "directs"]
          = [Top EXCEPT !.phase = "directs", !.held = Top.held, !.meta = Top.meta]
    BY <1>2 DEF IsFrame, Fields
  <1>4. Stacked'
    BY <1>1, <1>2, <1>3, NextPhase
  <1> QED BY <1>1, <1>4, ParentedStays DEF Nested

\* The frame a direct payload leaves: its report is about this record alone.
LEMMA DirectStep ==
  ASSUME Nested, stack # <<>>, Top.phase = "directs", Top.directs # <<>>,
         NEW g, IsFrame(g), SameCall(Top, g), ToTop(g), UNCHANGED <<config, registry, streams>>,
         g.phase = Top.phase, g.at = Top.at, g.held = Top.held, g.level = Top.level,
         g.directs = Tail(Top.directs),
         IsSeq(g.report), DOMAIN g.report = DOMAIN Top.report, Len(g.report) = Len(Top.report),
         \A i \in DOMAIN Top.report \ {Head(Top.directs)} : g.report[i] = Top.report[i],
         IsReport(g.report[Head(Top.directs)]),
         \A i \in DOMAIN Top.children :
           g.report[Top.children[i]].nested = Top.report[Top.children[i]].nested,
         IsSeq(g.children),
         \A i \in DOMAIN g.children :
           \/ \E k \in DOMAIN Top.children : g.children[i] = Top.children[k]
           \/ /\ g.children[i] = Head(Top.directs)
              /\ Interpreter(Row(Top, Head(Top.directs)).id) \in Top.level
              /\ g.report[Head(Top.directs)].nested = Interpreter(Row(Top, Head(Top.directs)).id)
  PROVE  Nested'
  <1> DEFINE at == Head(Top.directs)
  <1>1. Stacked /\ Parented /\ Sound(Top) /\ Shape(Top)
    BY TopIsSound DEF Nested, Sound
  <1>2. IsSeq(Top.directs) /\ g.stream = Top.stream
    BY <1>1 DEF Shape, SameCall
  <1>3. /\ IsSeq(Tail(Top.directs)) /\ at = Top.directs[1] /\ 1 \in DOMAIN Top.directs
        /\ \A i \in DOMAIN Tail(Top.directs) :
             i + 1 \in DOMAIN Top.directs /\ Tail(Top.directs)[i] = Top.directs[i + 1]
    BY <1>2, TailFacts
  <1>4. at \in DOMAIN Top.report /\ Row(Top, at).direct
    BY <1>1, <1>3 DEF Shape
  <1> HIDE DEF at
  <1>5. \A i \in DOMAIN g.directs : g.directs[i] \in DOMAIN g.report /\ Row(g, g.directs[i]).direct
    <2>1. \A i \in DOMAIN Top.directs :
            Top.directs[i] \in DOMAIN Top.report /\ Row(Top, Top.directs[i]).direct
      BY <1>1 DEF Shape
    <2>2. \A i \in DOMAIN g.directs : \E k \in DOMAIN Top.directs : g.directs[i] = Top.directs[k]
      BY <1>3
    <2> QED BY <1>2, <2>1, <2>2 DEF Row
  <1>6. ASSUME NEW i \in DOMAIN g.children
        PROVE  LET c == g.children[i] IN
               /\ c \in DOMAIN g.report
               /\ Interpreter(Row(g, c).id) \in g.level
               /\ g.report[c].nested = Interpreter(Row(g, c).id)
    <2>1. CASE \E k \in DOMAIN Top.children : g.children[i] = Top.children[k]
      <3>1. PICK k \in DOMAIN Top.children : g.children[i] = Top.children[k]
        BY <2>1
      <3>2. /\ Top.children[k] \in DOMAIN Top.report
            /\ Interpreter(Row(Top, Top.children[k]).id) \in Top.level
            /\ Top.report[Top.children[k]].nested = Interpreter(Row(Top, Top.children[k]).id)
        BY <1>1 DEF Shape
      <3> QED BY <1>2, <3>1, <3>2 DEF Row
    <2>2. CASE ~ \E k \in DOMAIN Top.children : g.children[i] = Top.children[k]
      BY <1>2, <1>4, <2>2 DEF Row, at
    <2> QED BY <2>1, <2>2
  <1>7. \A i \in DOMAIN g.report : IsReport(g.report[i])
    BY <1>1 DEF Shape
  <1>8. Shape(g)
    <2>1. g.held = None
      BY <1>1 DEF Shape
    <2>2. g.at = Len(g.report) + 1 /\ IsSeq(g.directs)
      BY <1>1, <1>3 DEF Shape
    <2> QED BY <1>5, <1>6, <1>7, <2>1, <2>2 DEF Shape
  <1>9. Level(g, registry)
    <2> SUFFICES ASSUME NEW id \in g.level
                 PROVE  /\ id \in DOMAIN registry
                        /\ \E k \in DOMAIN g.report :
                             /\ ~ Row(g, k).direct
                             /\ g.report[k].id = id /\ g.report[k].image # None
                             /\ g.report[k].image.content = registry[id].content
      BY DEF Level
    <2>1. id \in DOMAIN registry
      BY <1>1 DEF Sound, Level
    <2>2. PICK k \in DOMAIN Top.report :
            /\ ~ Row(Top, k).direct
            /\ Top.report[k].id = id /\ Top.report[k].image # None
            /\ Top.report[k].image.content = registry[id].content
      BY <1>1 DEF Sound, Level
    <2>3. k \in DOMAIN g.report /\ g.report[k] = Top.report[k] /\ ~ Row(g, k).direct
      BY <1>2, <1>4, <2>2 DEF Row, at
    <2> QED BY <2>1, <2>2, <2>3
  <1>10. Reported(g, streams)
    BY DEF Reported
  <1>11. Stacked'
    BY <1>1, <1>8, <1>9, <1>10, TopStep DEF ToTop, Extends, Stacked
  <1> QED BY <1>1, <1>11, ParentedStays DEF Nested

\* One record of a sequence of reports changed.
LEMMA ReportFacts ==
  ASSUME NEW s, IsSeq(s), NEW at \in DOMAIN s, NEW x
  PROVE  LET t == [s EXCEPT ![at] = x] IN
         /\ IsSeq(t) /\ DOMAIN t = DOMAIN s /\ Len(t) = Len(s) /\ t[at] = x
         /\ \A i \in DOMAIN s \ {at} : t[i] = s[i]
  <1> DEFINE T == {s[i] : i \in DOMAIN s} \cup {x}
             t == [s EXCEPT ![at] = x]
  <1>1. s \in Seq(T) /\ x \in T
    BY SeqMonotonic DEF IsSeq
  <1> HIDE DEF T
  <1>2. at \in 1..Len(s) /\ DOMAIN s = 1..Len(s)
    BY <1>1
  <1>3. t \in Seq(T) /\ Len(t) = Len(s)
    BY <1>1, <1>2, ExceptSeq
  <1>4. DOMAIN t = DOMAIN s /\ t[at] = x /\ \A i \in DOMAIN s \ {at} : t[i] = s[i]
    BY <1>1
  <1> QED BY <1>3, <1>4, SeqOverItself

LEMMA DirectNested == Nested /\ Direct => Nested'
  <1> SUFFICES ASSUME Nested, Direct
               PROVE  Nested'
    OBVIOUS
  <1> DEFINE at == Head(Top.directs)
             rec == Records[at]
             next == Interpreter(rec.id)
             raw == Artifact(rec, rec.content, rec.size, "direct.bin")
  <1>1. /\ UNCHANGED <<config, registry, streams>> /\ stack # <<>> /\ Top.phase = "directs"
        /\ Top.directs # <<>>
    BY DEF Direct, InPhase
  <1>2. Shape(Top) /\ IsFrame(Top) /\ IsSeq(Top.report) /\ IsSeq(Top.children) /\ IsSeq(Top.directs)
    BY <1>1, TopIsSound DEF Nested, Sound, Shape
  <1>3. at \in DOMAIN Top.report /\ IsReport(Top.report[at])
    BY <1>1, <1>2, TailFacts DEF Shape
  <1>4. rec = Row(Top, at)
    BY DEF Records, Row
  <1> HIDE DEF at, rec, next, raw
  <1>5. CASE /\ next \in Top.level
             /\ ToTop([Top EXCEPT !.directs = Tail(@), !.children = Append(@, at),
                         !.report[at].nested = next])
    <2> DEFINE row == [Top.report[at] EXCEPT !.nested = next]
               report == [Top.report EXCEPT ![at] = row]
               children == Append(Top.children, at)
               directs == Tail(Top.directs)
               g == [Top EXCEPT !.directs = directs, !.children = children, !.report = report]
    <2>1. ToTop(g)
      BY <1>5
    <2>2. IsReport(row) /\ row.nested = next
      BY <1>3 DEF IsReport
    <2> HIDE DEF row
    <2>3. /\ IsSeq(report) /\ DOMAIN report = DOMAIN Top.report /\ Len(report) = Len(Top.report)
          /\ report[at] = row /\ \A i \in DOMAIN Top.report \ {at} : report[i] = Top.report[i]
      BY <1>2, <1>3, ReportFacts
    <2>4. /\ IsSeq(children) /\ DOMAIN children = 1..Len(Top.children) + 1 /\ Len(Top.children) \in Nat
          /\ DOMAIN Top.children = 1..Len(Top.children)
          /\ (\A i \in 1..Len(Top.children) : children[i] = Top.children[i])
          /\ children[Len(Top.children) + 1] = at
      BY <1>2, AppendFacts
    <2> HIDE DEF report, children, directs
    <2>5. /\ IsFrame(g) /\ SameCall(Top, g) /\ g.phase = Top.phase /\ g.at = Top.at
          /\ g.held = Top.held /\ g.level = Top.level
          /\ g.directs = directs /\ g.children = children /\ g.report = report
      BY <1>2 DEF IsFrame, Fields, SameCall
    <2> HIDE DEF g
    <2>6. \A i \in DOMAIN Top.children :
            g.report[Top.children[i]].nested = Top.report[Top.children[i]].nested
      <3> SUFFICES ASSUME NEW i \in DOMAIN Top.children
                   PROVE  report[Top.children[i]].nested = Top.report[Top.children[i]].nested
        BY <2>5
      <3>1. /\ Top.children[i] \in DOMAIN Top.report
            /\ Top.report[Top.children[i]].nested = Interpreter(Row(Top, Top.children[i]).id)
        BY <1>2 DEF Shape
      <3>2. CASE Top.children[i] = at
        BY <1>4, <2>2, <2>3, <3>1, <3>2 DEF next
      <3>3. CASE Top.children[i] # at
        BY <2>3, <3>1, <3>3
      <3> QED BY <3>2, <3>3
    <2>7. \A i \in DOMAIN g.children :
            \/ \E k \in DOMAIN Top.children : g.children[i] = Top.children[k]
            \/ /\ g.children[i] = at
               /\ Interpreter(Row(Top, at).id) \in Top.level
               /\ g.report[at].nested = Interpreter(Row(Top, at).id)
      <3> SUFFICES ASSUME NEW i \in 1..Len(Top.children) + 1
                   PROVE  \/ \E k \in DOMAIN Top.children : children[i] = Top.children[k]
                          \/ /\ children[i] = at
                             /\ Interpreter(Row(Top, at).id) \in Top.level
                             /\ report[at].nested = Interpreter(Row(Top, at).id)
        BY <2>4, <2>5
      <3>1. CASE i \in 1..Len(Top.children)
        BY <2>4, <3>1
      <3>2. CASE i = Len(Top.children) + 1
        BY <1>4, <1>5, <2>2, <2>3, <2>4, <3>2 DEF next
      <3> QED BY <2>4, <3>1, <3>2
    <2> QED BY <1>1, <1>2, <2>1, <2>2, <2>3, <2>4, <2>5, <2>6, <2>7, DirectStep DEF at, directs
  <1>6. CASE ToTop([Top EXCEPT !.directs = Tail(@), !.report[at].image = raw])
    <2> DEFINE row == [Top.report[at] EXCEPT !.image = raw]
               report == [Top.report EXCEPT ![at] = row]
               directs == Tail(Top.directs)
               g == [Top EXCEPT !.directs = directs, !.report = report]
    <2>1. ToTop(g)
      BY <1>6
    <2>2. IsReport(row) /\ row.nested = Top.report[at].nested
      BY <1>3 DEF IsReport
    <2> HIDE DEF row
    <2>3. /\ IsSeq(report) /\ DOMAIN report = DOMAIN Top.report /\ Len(report) = Len(Top.report)
          /\ report[at] = row /\ \A i \in DOMAIN Top.report \ {at} : report[i] = Top.report[i]
      BY <1>2, <1>3, ReportFacts
    <2> HIDE DEF report, directs
    <2>4. /\ IsFrame(g) /\ SameCall(Top, g) /\ g.phase = Top.phase /\ g.at = Top.at
          /\ g.held = Top.held /\ g.level = Top.level
          /\ g.directs = directs /\ g.children = Top.children /\ g.report = report
      BY <1>2 DEF IsFrame, Fields, SameCall
    <2> HIDE DEF g
    <2>5. \A i \in DOMAIN Top.children :
            g.report[Top.children[i]].nested = Top.report[Top.children[i]].nested
      BY <1>2, <2>2, <2>3, <2>4 DEF Shape
    <2> QED BY <1>1, <1>2, <2>1, <2>2, <2>3, <2>4, <2>5, DirectStep DEF at, directs
  <1>7. CASE UNCHANGED stack
    BY <1>1, <1>7, Still
  <1> QED BY <1>5, <1>6, <1>7 DEF Direct, at, rec, next, raw

LEMMA ReportNested == Nested /\ Report => Nested'
  <1> SUFFICES ASSUME Nested, Report
               PROVE  Nested'
    OBVIOUS
  <1> DEFINE g == [Top EXCEPT !.phase = "children"]
             new == Len(streams) + 1
  <1>1. /\ UNCHANGED <<config, registry>> /\ stack # <<>> /\ Top.phase = "directs"
        /\ ToTop(g) /\ streams' = Append(streams, StreamReport)
        /\ Stacked /\ Parented
    BY DEF Report, InPhase, Nested
  <1>2. Sound(Top) /\ Shape(Top) /\ IsFrame(Top) /\ Level(Top, registry)
    BY <1>1, TopIsSound DEF Sound, Shape
  <1>3. /\ IsSeq(streams') /\ DOMAIN streams' = 1..new /\ DOMAIN streams = 1..new - 1
        /\ new \in Nat \ {0} /\ streams'[new] = StreamReport
        /\ \A q \in 1..new - 1 : streams'[q] = streams[q]
    BY <1>1, AppendFacts DEF Stacked
  <1>4. /\ StreamReport.id = Top.id /\ StreamReport.depth = Top.depth
        /\ StreamReport.records = Top.report /\ StreamReport.parent = Top.parent
        /\ StreamReport.config = config
    BY DEF StreamReport
  <1>5. /\ IsFrame(g) /\ SameCall(Top, g) /\ g.stream = Top.stream /\ g.phase = "children"
        /\ g.report = Top.report /\ g.directs = Top.directs /\ g.level = Top.level
        /\ g.children = Top.children /\ g.at = Top.at /\ g.held = Top.held
    BY <1>2 DEF IsFrame, Fields, SameCall
  <1> HIDE DEF g, new
  <1>6. Shape(g)
    <2>1. g.held = None
      BY <1>1, <1>2, <1>5 DEF Shape
    <2> QED BY <1>2, <1>5, <2>1 DEF Shape, Row
  <1>7. Level(g, registry')
    BY <1>1, <1>2, <1>5 DEF Level, Row
  <1>8. Reported(g, streams')
    BY <1>3, <1>4, <1>5 DEF Reported, SameCall
  <1>9. Extends(registry, registry') /\ Extends(streams, streams')
    BY <1>1, <1>3 DEF Extends
  <1>10. Stacked'
    BY <1>1, <1>3, <1>5, <1>6, <1>7, <1>8, <1>9, TopStep DEF ToTop
  <1>11. Parented'
    <2> SUFFICES ASSUME NEW k \in 1..new, streams'[k].depth > 0
                 PROVE  \E p \in 1..k - 1 :
                          IsParent(streams'[p], streams'[k].parent, streams'[k].id,
                                   streams'[k].depth, streams'[k].config)
      BY <1>3 DEF Parented
    <2>1. CASE k \in 1..new - 1
      <3>1. PICK p \in 1..k - 1 :
              IsParent(streams[p], streams[k].parent, streams[k].id, streams[k].depth, streams[k].config)
        BY <1>1, <1>3, <2>1 DEF Parented
      <3>2. p \in 1..new - 1
        BY <1>3, <2>1
      <3> QED BY <1>3, <2>1, <3>1, <3>2
    <2>2. CASE k = new
      <3>1. Len(stack) \in DOMAIN stack /\ Top = stack[Len(stack)] /\ ConfigAt(Len(stack)) = config
        BY <1>1, FrontFacts DEF Stacked, Top, ConfigAt
      <3>2. Len(stack) # 1
        BY <1>1, <1>3, <1>4, <2>2, <3>1 DEF Stacked
      <3>3. HasParent(Top, config, streams)
        BY <1>1, <3>1, <3>2 DEF Stacked
      <3>4. PICK p \in 1..new - 1 : IsParent(streams[p], Top.parent, Top.id, Top.depth, config)
        BY <1>3, <3>3 DEF HasParent
      <3> QED BY <1>3, <1>4, <2>2, <3>4
    <2> QED BY <1>3, <2>1, <2>2
  <1> QED BY <1>10, <1>11 DEF Nested

LEMMA ChildNested == Nested /\ Child => Nested'
  <1> SUFFICES ASSUME Nested, Child
               PROVE  Nested'
    OBVIOUS
  <1> DEFINE at == Head(Top.children)
             rec == Records[at]
             id == Interpreter(rec.id)
             parent == [stream |-> Top.id, record |-> at, id |-> rec.id]
             children == Tail(Top.children)
             g == [Top EXCEPT !.children = children]
             h == Call(rec.child, id, Top.depth + 1, parent, config)
             below == Append(Front(stack), g)
  <1>1. /\ UNCHANGED <<registry, streams>> /\ stack # <<>> /\ Top.phase = "children"
        /\ Top.children # <<>> /\ Stacked /\ Parented
    BY DEF Child, InPhase, output, Nested
  <1>2. Sound(Top) /\ Shape(Top) /\ IsFrame(Top) /\ Level(Top, registry) /\ Reported(Top, streams)
    BY <1>1, TopIsSound DEF Sound, Shape
  <1>3. CASE UNCHANGED <<config, stack>>
    BY <1>1, <1>3, Still
  <1>4. CASE config' = ChildConfig(id) /\ stack' = Append(below, h)
    <2>1. /\ IsSeq(children) /\ at = Top.children[1] /\ 1 \in DOMAIN Top.children
          /\ \A i \in DOMAIN children : i + 1 \in DOMAIN Top.children /\ children[i] = Top.children[i + 1]
      BY <1>1, <1>2, TailFacts DEF Shape
    <2>2. /\ Shape(h) /\ Level(h, registry) /\ Reported(h, streams)
          /\ h.id = id /\ h.depth = Top.depth + 1 /\ h.parent = parent /\ h.saved = config
      BY FreshCall
    <2>3. /\ at \in DOMAIN Top.report /\ id \in Top.level /\ Top.report[at].nested = id
      <3>1. rec = Row(Top, at)
        BY DEF Records, Row
      <3> QED BY <1>2, <2>1, <3>1 DEF Shape
    <2>4. parent.stream = Top.id /\ parent.record = at
      OBVIOUS
    <2> HIDE DEF children
    <2>5. /\ IsFrame(g) /\ SameCall(Top, g) /\ g.stream = Top.stream /\ g.phase = Top.phase
          /\ g.report = Top.report /\ g.directs = Top.directs /\ g.level = Top.level
          /\ g.children = children /\ g.at = Top.at /\ g.held = Top.held
      BY <1>2 DEF IsFrame, Fields, SameCall
    <2> HIDE DEF g, h, at, rec, id, parent
    <2>6. Shape(g)
      <3>1. \A i \in DOMAIN g.children :
              LET c == g.children[i] IN
              /\ c \in DOMAIN g.report
              /\ Interpreter(Row(g, c).id) \in g.level
              /\ g.report[c].nested = Interpreter(Row(g, c).id)
        BY <1>2, <2>1, <2>5 DEF Shape, Row
      <3>2. \A i \in DOMAIN g.directs :
              g.directs[i] \in DOMAIN g.report /\ Row(g, g.directs[i]).direct
        BY <1>2, <2>5 DEF Shape, Row
      <3>3. g.held # None => g.phase \in {"metadata", "register"} /\ ~ Row(g, g.at).direct
        BY <1>2, <2>5 DEF Shape, Row
      <3> QED BY <1>2, <2>1, <2>5, <3>1, <3>2, <3>3 DEF Shape
    <2>7. Level(g, registry) /\ Reported(g, streams)
      BY <1>2, <2>5 DEF Level, Reported, Row, SameCall
    <2>8. PICK q \in DOMAIN streams :
            streams[q].id = Top.id /\ streams[q].depth = Top.depth /\ streams[q].records = Top.report
      BY <1>1, <1>2 DEF Reported
    <2>9. PICK r \in DOMAIN Top.report :
            /\ Top.report[r].id = id /\ Top.report[r].image # None
            /\ Top.report[r].image.content = registry[id].content
      BY <1>2, <2>3 DEF Level
    <2>10. HasParent(h, config', streams)
      <3>1. ConfigOf[Top.report[r].image.content] = config'
        BY <1>4, <2>9 DEF ChildConfig
      <3>2. IsParent(streams[q], parent, id, Top.depth + 1, config')
        BY <2>3, <2>4, <2>8, <2>9, <3>1 DEF IsParent
      <3> QED BY <2>2, <3>2 DEF HasParent
    <2> HIDE DEF below
    <2>11. below = Append(Front(stack), g)
      BY DEF below
    <2>12. Stacked'
      BY <1>1, <1>4, <2>2, <2>5, <2>6, <2>7, <2>10, <2>11, PushStep
    <2> QED BY <1>1, <2>12, ParentedStays DEF Nested
  <1> QED BY <1>3, <1>4 DEF Child

LEMMA LeaveNested == Nested /\ Leave => Nested'
  <1> SUFFICES ASSUME Nested, Leave
               PROVE  Nested'
    OBVIOUS
  <1>1. /\ UNCHANGED <<registry, streams>> /\ stack # <<>> /\ Return /\ Stacked /\ Parented
    BY DEF Leave, InPhase, output, Nested
  <1> QED BY <1>1, PopStep, ParentedStays DEF Nested

LEMMA NextNested == Nested /\ Next => Nested'
  <1> SUFFICES ASSUME Nested, Next
               PROVE  Nested'
    OBVIOUS
  <1>1. CASE Inspect
    BY <1>1, Still DEF Inspect
  <1>2. CASE DecodeImage
    <2>1. /\ stack # <<>> /\ Top.phase = "image"
          /\ Part("image", Rec.size, Rec.content, "module.bin", "metadata")
      BY <1>2 DEF DecodeImage, InPhase
    <2> QED BY <2>1, PartNested
  <1>3. CASE DecodeMetadata
    <2>1. /\ stack # <<>> /\ Top.phase = "metadata"
          /\ Part("metadata", Rec.metasize, Rec.metadata, "metadata.bin", "register")
      BY <1>3 DEF DecodeMetadata, InPhase
    <2> QED BY <2>1, PartNested
  <1>4. CASE Abort
    BY <1>4, Still DEF Abort, output
  <1>5. CASE WriteIndex
    BY <1>5, Still DEF WriteIndex, output
  <1> QED BY <1>1, <1>2, <1>3, <1>4, <1>5, ConfigureNested, EnterNested, RegisterNested,
             DecodedNested, DirectNested, ReportNested, ChildNested, LeaveNested DEF Next

\* The rest of the call reads what was extracted and takes the workspace away.
LEMMA RestoreReads == RestoreNext => UNCHANGED vars
  BY DEF RestoreNext, LoadArtifacts, ReadArtifact, CreateTemporary, DecodePrimary, DecodeAuxiliary,
         Extend, MergeSymbols, AddImports, ProfileConstructors, BindPlt, RelocateDyn, Redirect,
         Place, PatchTags, Finalize, Validate, Persist, Hash, BreakOff, Proceed

LEMMA LibraryNested == Nested /\ [LibraryNext]_all => Nested'
  <1> SUFFICES ASSUME Nested, [LibraryNext]_all
               PROVE  Nested'
    OBVIOUS
  <1>1. CASE Extraction
    BY <1>1, NextNested DEF Extraction
  <1>2. CASE CollectModules
    BY <1>2, Still DEF CollectModules, vars
  <1>3. CASE Restoration
    BY <1>3, RestoreReads, Still DEF Restoration, vars
  <1>4. CASE ExtractionFails \/ CollectionFails \/ RestorationFails \/ ReopenFails \/ Succeed
    BY <1>4, Still DEF ExtractionFails, CollectionFails, RestorationFails, ReopenFails, Succeed, Answer
  <1>5. CASE UNCHANGED all
    BY <1>5, Still DEF all, vars
  <1> QED BY <1>1, <1>2, <1>3, <1>4, <1>5 DEF LibraryNext

LEMMA InitNested == LibraryInit => Nested
  <1> SUFFICES ASSUME LibraryInit
               PROVE  Nested
    OBVIOUS
  <1>1. stack = <<>> /\ streams = <<>>
    BY DEF LibraryInit, Init
  <1>2. <<>> \in Seq({}) /\ DOMAIN <<>> = {}
    OBVIOUS
  <1>3. IsSeq(<<>>)
    BY <1>2, SeqOverItself
  <1> QED BY <1>1, <1>2, <1>3 DEF Nested, Stacked, Parented

\* For any streams, configurations and ceilings: however deep the streams nest, one
\* that another level registered under the same id, or read before, never lends its
\* interpreter to a child of this level (extract_stream 352-398).
THEOREM InterpretersAreTheirOwn == LibrarySpec => []ChildrenUseTheirInterpreter
  <1>1. Nested => ChildrenUseTheirInterpreter
    <2> SUFFICES ASSUME Nested, NEW k \in DOMAIN streams, streams[k].depth > 0
                 PROVE  \E p \in Parents(k) : \E r \in ToSet(streams[p].records) :
                          /\ r.id = streams[k].id /\ r.image # None
                          /\ ConfigOf[r.image.content] = streams[k].config
      BY DEF ChildrenUseTheirInterpreter
    <2>1. PICK p \in 1..k - 1 :
            IsParent(streams[p], streams[k].parent, streams[k].id, streams[k].depth, streams[k].config)
      BY DEF Nested, Parented
    <2>2. p \in Parents(k)
      BY <2>1 DEF IsParent, Parents
    <2>3. PICK i \in DOMAIN streams[p].records :
            /\ streams[p].records[i].id = streams[k].id /\ streams[p].records[i].image # None
            /\ ConfigOf[streams[p].records[i].image.content] = streams[k].config
      BY <2>1 DEF IsParent
    <2>4. streams[p].records[i] \in ToSet(streams[p].records)
      BY DEF ToSet
    <2> QED BY <2>2, <2>3, <2>4
  <1> QED BY <1>1, InitNested, LibraryNested, PTL DEF LibrarySpec, all

-----------------------------------------------------------------------------
(***************************************************************************)
(* Each stream is read once.  Of the calls on the stack only the last is   *)
(* still reading its own records; a stream that was found nested is known, *)
(* or the next to be entered, or among the children some level has left.   *)
(***************************************************************************)
KeyOf(s) == <<s.id, s.stream>>

IsReading(f) == f.phase \notin {"enter", "children"}

\* The nested streams of a level that is not reported yet are its children.
Collected(f) ==
  f.phase # "children" =>
    \A r \in DOMAIN f.report : f.report[r].nested # None =>
      \E i \in DOMAIN f.children : f.children[i] = r

Awaits(f, key) ==
  \/ f.phase = "enter" /\ key = KeyOf(f)
  \/ /\ f.phase = "children"
     /\ \E i \in DOMAIN f.children :
          key = <<Interpreter(Row(f, f.children[i]).id), Row(f, f.children[i]).child>>

NestedKey(k, r) ==
  <<streams[k].records[r].nested, Streams[streams[k].stream].records[r].child>>

IsRead(key) ==
  \/ \E k \in DOMAIN streams : KeyOf(streams[k]) = key
  \/ \E n \in DOMAIN stack : IsReading(stack[n]) /\ KeyOf(stack[n]) = key

LastReads ==
  /\ \A n \in DOMAIN stack : n # Len(stack) => stack[n].phase = "children"
  /\ \A n \in DOMAIN stack : Collected(stack[n])

Apart ==
  /\ \A k, l \in DOMAIN streams : KeyOf(streams[k]) = KeyOf(streams[l]) => k = l
  /\ \A k \in DOMAIN streams : KeyOf(streams[k]) \in seen
  /\ \A n \in DOMAIN stack : IsReading(stack[n]) =>
       /\ KeyOf(stack[n]) \in seen
       /\ \A k \in DOMAIN streams : KeyOf(streams[k]) # KeyOf(stack[n])

Found ==
  step # "failed" =>
    /\ \A key \in seen : IsRead(key)
    /\ \A k \in DOMAIN streams : \A r \in DOMAIN streams[k].records :
         streams[k].records[r].nested # None =>
           NestedKey(k, r) \in seen \/ \E n \in DOMAIN stack : Awaits(stack[n], NestedKey(k, r))

Outset ==
  /\ step \in {"start", "stage1"} => stack = <<>> /\ streams = <<>>
  /\ step = "done" => stack = <<>>

Reading == LastReads /\ Apart /\ Found /\ Outset

-----------------------------------------------------------------------------
LEMMA BelowLast == \A m \in Nat : \A n \in 1..m : n # m => n \in 1..m - 1
  OBVIOUS

\* The last frame replaced.
LEMMA NewTop ==
  ASSUME Stacked, stack # <<>>, NEW g, ToTop(g)
  PROVE  /\ Len(stack') = Len(stack) /\ DOMAIN stack' = DOMAIN stack
         /\ \A n \in DOMAIN stack : n # Len(stack) => stack'[n] = stack[n]
         /\ stack'[Len(stack)] = g
         /\ Len(stack) \in DOMAIN stack /\ Top = stack[Len(stack)]
  <1>1. /\ Len(stack') = Len(stack) /\ DOMAIN stack' = 1..Len(stack)
        /\ \A i \in 1..Len(stack) - 1 : stack'[i] = stack[i]
        /\ stack'[Len(stack)] = g
        /\ DOMAIN stack = 1..Len(stack) /\ Len(stack) \in Nat \ {0} /\ Top = stack[Len(stack)]
    BY ReplaceFacts, FrontFacts DEF Stacked, Top, ToTop
  <1>2. \A n \in 1..Len(stack) : n # Len(stack) => n \in 1..Len(stack) - 1
    <2>1. Len(stack) \in Nat
      BY <1>1
    <2> QED BY <2>1, BelowLast
  <1>3. DOMAIN stack' = DOMAIN stack
    BY <1>1
  <1>4. \A n \in DOMAIN stack : n # Len(stack) => stack'[n] = stack[n]
    <2> SUFFICES ASSUME NEW n \in DOMAIN stack, n # Len(stack)
                 PROVE  stack'[n] = stack[n]
      OBVIOUS
    <2>1. n \in 1..Len(stack) - 1
      BY <1>1, <1>2
    <2> QED BY <1>1, <2>1
  <1>5. Len(stack) \in DOMAIN stack
    BY <1>1
  <1> QED BY <1>1, <1>3, <1>4, <1>5

LEMMA SameReading ==
  ASSUME Reading, UNCHANGED <<stack, streams, seen>>, step = "failed" => step' = "failed",
         step' \in {"start", "stage1", "done"} => stack = <<>>,
         step' \in {"start", "stage1"} => streams = <<>>
  PROVE  Reading'
  <1>1. LastReads' /\ Apart' /\ Outset'
    BY DEF Reading, LastReads, Apart, Outset
  <1>2. \A key : IsRead(key)' = IsRead(key)
    BY DEF IsRead
  <1>3. \A k, r : NestedKey(k, r)' = NestedKey(k, r)
    BY DEF NestedKey
  <1>4. Found'
    BY <1>2, <1>3 DEF Reading, Found
  <1> QED BY <1>1, <1>4 DEF Reading

\* The call that reads goes on reading.
LEMMA StillReading ==
  ASSUME Stacked, Reading, stack # <<>>, step = "streams", IsReading(Top), NEW g,
         ToTop(g), g.id = Top.id, g.stream = Top.stream, IsReading(g), Collected(g),
         UNCHANGED <<step, streams, seen>>
  PROVE  Reading'
  <1>1. /\ Len(stack') = Len(stack) /\ DOMAIN stack' = DOMAIN stack /\ stack'[Len(stack)] = g
        /\ Len(stack) \in DOMAIN stack /\ Top = stack[Len(stack)]
    BY NewTop
  <1>2. \A n \in DOMAIN stack : n # Len(stack) => stack'[n] = stack[n]
    BY NewTop
  <1>3. KeyOf(g) = KeyOf(Top)
    BY DEF KeyOf
  <1>4. LastReads'
    BY <1>1, <1>2 DEF Reading, LastReads
  <1>5. Apart'
    BY <1>1, <1>2, <1>3 DEF Reading, Apart
  <1>6. \A key : IsRead(key) => IsRead(key)'
    <2> SUFFICES ASSUME NEW key, IsRead(key)
                 PROVE  IsRead(key)'
      OBVIOUS
    <2>1. CASE \E k \in DOMAIN streams : KeyOf(streams[k]) = key
      BY <2>1 DEF IsRead
    <2>2. ASSUME NEW n \in DOMAIN stack, IsReading(stack[n]) /\ KeyOf(stack[n]) = key
          PROVE  IsRead(key)'
      <3>1. n \in DOMAIN stack' /\ IsReading(stack'[n]) /\ KeyOf(stack'[n]) = key
        BY <1>1, <1>2, <1>3, <2>2
      <3> QED BY <3>1 DEF IsRead
    <2> QED BY <2>1, <2>2 DEF IsRead
  <1>7. \A key : \A n \in DOMAIN stack : Awaits(stack[n], key) => Awaits(stack'[n], key)
    <2>1. \A key : ~ Awaits(Top, key)
      BY DEF Awaits, IsReading
    <2> QED BY <1>1, <1>2, <2>1
  <1>8. \A k, r : NestedKey(k, r)' = NestedKey(k, r)
    BY DEF NestedKey
  <1>9. Found'
    BY <1>1, <1>6, <1>7, <1>8 DEF Reading, Found
  <1>10. Outset'
    BY DEF Outset
  <1> QED BY <1>4, <1>5, <1>9, <1>10 DEF Reading

LEMMA ConfigureReading == Reading /\ Configure => Reading'
  <1> SUFFICES ASSUME Reading, Configure
               PROVE  Reading'
    OBVIOUS
  <1>1. UNCHANGED <<streams, seen>> /\ step = "stage1" /\ stack = <<>> /\ streams = <<>>
    BY DEF Configure, output, Reading, Outset
  <1>2. CASE Fail /\ UNCHANGED stack
    BY <1>1, <1>2, SameReading DEF Fail
  <1>3. CASE step' = "streams" /\ stack' = <<Call(elf.stream, Boot, 0, None, None)>>
    <2> DEFINE f == Call(elf.stream, Boot, 0, None, None)
    <2>1. f.phase = "enter" /\ f.report = <<>>
      BY DEF Call
    <2> HIDE DEF f
    <2>2. DOMAIN stack' = {1} /\ Len(stack') = 1 /\ stack'[1] = f
      <3>1. stack' = <<f>>
        BY <1>3 DEF f
      <3>2. DOMAIN <<f>> = 1..1 /\ Len(<<f>>) = 1 /\ <<f>>[1] = f
        OBVIOUS
      <3> QED BY <3>1, <3>2
    <2>3. DOMAIN <<>> = {}
      OBVIOUS
    <2>4. Collected(f)
      BY <2>1, <2>3 DEF Collected
    <2>5. seen = {}
      <3>1. \A key : ~ IsRead(key)
        BY <1>1, <2>3 DEF IsRead
      <3> QED BY <1>1, <3>1 DEF Reading, Found
    <2>6. ~ IsReading(f)
      BY <2>1 DEF IsReading
    <2>7. LastReads' /\ Apart'
      BY <1>1, <2>2, <2>3, <2>4, <2>6 DEF LastReads, Apart
    <2>8. Found' /\ Outset'
      BY <1>1, <1>3, <2>3, <2>5 DEF Found, Outset
    <2> QED BY <2>7, <2>8 DEF Reading
  <1> QED BY <1>2, <1>3 DEF Configure

\* A call that ends: its stream is known, or all its children were read.
LEMMA ReturnReading ==
  ASSUME Stacked, Reading, stack # <<>>, step = "streams", Return, ~ IsReading(Top),
         \A key : Awaits(Top, key) => key \in seen,
         UNCHANGED <<step, streams, seen>>
  PROVE  Reading'
  <1>1. /\ Len(stack') = Len(stack) - 1 /\ DOMAIN stack' = 1..Len(stack) - 1
        /\ \A i \in 1..Len(stack) - 1 : stack'[i] = stack[i]
        /\ DOMAIN stack = 1..Len(stack) /\ Len(stack) \in Nat \ {0} /\ Top = stack[Len(stack)]
    BY FrontFacts DEF Stacked, Top, Return
  <1>2. \A n \in DOMAIN stack : n # Len(stack) => n \in DOMAIN stack' /\ stack'[n] = stack[n]
    <2>1. \A n \in 1..Len(stack) : n # Len(stack) => n \in 1..Len(stack) - 1
      <3>1. Len(stack) \in Nat
        BY <1>1
      <3> QED BY <3>1, BelowLast
    <2> QED BY <1>1, <2>1
  <1>3. \A n \in DOMAIN stack' : n \in DOMAIN stack /\ n # Len(stack) /\ stack'[n] = stack[n]
    BY <1>1
  <1>4. LastReads' /\ Apart'
    BY <1>3 DEF Reading, LastReads, Apart
  <1>5. \A key : IsRead(key) => IsRead(key)'
    BY <1>1, <1>2 DEF IsRead
  <1>6. \A k, r : NestedKey(k, r)' = NestedKey(k, r)
    BY DEF NestedKey
  <1>7. \A key : (\E n \in DOMAIN stack : Awaits(stack[n], key)) =>
          key \in seen \/ \E n \in DOMAIN stack' : Awaits(stack'[n], key)
    BY <1>1, <1>2
  <1>8. Found' /\ Outset'
    BY <1>5, <1>6, <1>7 DEF Reading, Found, Outset
  <1> QED BY <1>4, <1>8 DEF Reading

LEMMA EnterReading == Nested /\ Reading /\ Enter => Reading'
  <1> SUFFICES ASSUME Nested, Reading, Enter
               PROVE  Reading'
    OBVIOUS
  <1> DEFINE g == [Top EXCEPT !.phase = "image"]
  <1>0. PICK key : key = KeyOf(Top)
    OBVIOUS
  <1>1. /\ UNCHANGED streams /\ stack # <<>> /\ Top.phase = "enter" /\ step = "streams" /\ Stacked
    BY DEF Enter, InPhase, output, Nested
  <1>2. /\ Len(stack) \in DOMAIN stack /\ Top = stack[Len(stack)] /\ Shape(Top)
        /\ Collected(Top) /\ Len(stack) \in Nat \ {0} /\ DOMAIN stack = 1..Len(stack)
    BY <1>1, FrontFacts, TopIsSound DEF Stacked, Top, Sound, Reading, LastReads
  <1>3. CASE Fail /\ UNCHANGED <<stack, seen>>
    BY <1>1, <1>3, SameReading DEF Fail
  <1>4. CASE key \in seen /\ seen' = seen /\ Return /\ UNCHANGED step
    <2>1. \A x : Awaits(Top, x) => x \in seen
      BY <1>0, <1>1, <1>4 DEF Awaits
    <2>2. ~ IsReading(Top)
      BY <1>1 DEF IsReading
    <2> QED BY <1>1, <1>4, <2>1, <2>2, ReturnReading
  <1>5. CASE key \notin seen /\ seen' = seen \cup {key} /\ ToTop(g) /\ UNCHANGED step
    <2>1. /\ g.id = Top.id /\ g.stream = Top.stream /\ g.phase = "image"
          /\ g.report = Top.report /\ g.children = Top.children
      BY <1>2 DEF Shape, IsFrame, Fields
    <2> HIDE DEF g
    <2>2. /\ Len(stack') = Len(stack) /\ DOMAIN stack' = DOMAIN stack
          /\ \A n \in DOMAIN stack : n # Len(stack) => stack'[n] = stack[n]
          /\ stack'[Len(stack)] = g
      <3>1. ToTop(g)
        BY <1>5
      <3> QED BY <1>1, <3>1, NewTop
    <2>3. KeyOf(g) = key /\ IsReading(g) /\ Collected(g)
      BY <1>0, <1>1, <1>2, <2>1 DEF KeyOf, IsReading, Collected
    <2>4. LastReads'
      BY <2>2, <2>3 DEF Reading, LastReads
    <2>5. \A n \in DOMAIN stack : IsReading(stack'[n]) => n = Len(stack)
      BY <2>2 DEF Reading, LastReads, IsReading
    <2>6. Apart'
      BY <1>1, <1>5, <2>2, <2>3, <2>5 DEF Reading, Apart
    <2>7. \A x : IsRead(x) => IsRead(x)'
      <3>1. \A n \in DOMAIN stack : IsReading(stack[n]) => n # Len(stack)
        BY <1>1, <1>2 DEF IsReading
      <3> QED BY <1>1, <2>2, <3>1 DEF IsRead
    <2>8. IsRead(key)'
      <3>1. Len(stack) \in DOMAIN stack' /\ stack'[Len(stack)] = g
        BY <1>2, <2>2
      <3>2. IsReading(stack'[Len(stack)]) /\ KeyOf(stack'[Len(stack)]) = key
        BY <2>3, <3>1
      <3> QED BY <3>1, <3>2 DEF IsRead
    <2>9. \A k, r : NestedKey(k, r)' = NestedKey(k, r)
      BY <1>1 DEF NestedKey
    <2>10. \A x : \A n \in DOMAIN stack : Awaits(stack[n], x) => x = key \/ Awaits(stack'[n], x)
      <3>1. \A x : Awaits(Top, x) => x = key
        BY <1>0, <1>1 DEF Awaits
      <3> QED BY <1>2, <2>2, <3>1
    <2>11. \A x \in seen' : IsRead(x)'
      <3> SUFFICES ASSUME NEW x \in seen'
                   PROVE  IsRead(x)'
        OBVIOUS
      <3>1. CASE x = key
        BY <2>8, <3>1
      <3>2. CASE x \in seen
        <4>1. IsRead(x)
          BY <1>1, <3>2 DEF Reading, Found
        <4> QED BY <2>7, <4>1
      <3> QED BY <1>5, <3>1, <3>2
    <2>12. Found'
      <3> SUFFICES ASSUME NEW k \in DOMAIN streams, NEW r \in DOMAIN streams[k].records,
                          streams[k].records[r].nested # None
                   PROVE  \/ NestedKey(k, r) \in seen'
                          \/ \E n \in DOMAIN stack' : Awaits(stack'[n], NestedKey(k, r))
        BY <1>1, <2>9, <2>11 DEF Found
      <3>1. \/ NestedKey(k, r) \in seen
            \/ \E n \in DOMAIN stack : Awaits(stack[n], NestedKey(k, r))
        BY <1>1 DEF Reading, Found
      <3> QED BY <1>5, <2>2, <2>10, <3>1
    <2>13. Outset'
      BY <1>1, <1>5 DEF Outset
    <2> QED BY <2>4, <2>6, <2>12, <2>13 DEF Reading
  <1>6. CASE key \notin seen /\ seen' = seen \cup {key} /\ Fail /\ UNCHANGED stack
    <2>1. ~ IsReading(Top)
      BY <1>1 DEF IsReading
    <2>2. LastReads' /\ Apart' /\ Found' /\ Outset'
      BY <1>1, <1>6 DEF Reading, LastReads, Apart, Found, Outset, Fail
    <2> QED BY <2>2 DEF Reading
  <1>7. key \in seen => seen \cup {key} = seen
    OBVIOUS
  <1>8. key = <<Top.id, Top.stream>>
    BY <1>0 DEF KeyOf
  <1> HIDE DEF g
  <1> QED BY <1>3, <1>4, <1>5, <1>6, <1>7, <1>8 DEF Enter, Known, g

LEMMA PartReading ==
  ASSUME Nested, Reading, stack # <<>>, step = "streams", NEW part, NEW size, NEW content,
         NEW suffix, NEW next, IsReading(Top), next \in {"metadata", "register"},
         Part(part, size, content, suffix, next)
  PROVE  Reading'
  <1>1. UNCHANGED <<streams, seen>> /\ Stacked
    BY DEF Part, Nested
  <1>2. \/ UNCHANGED stack /\ step' \in {step, "failed"}
        \/ \E held, meta : /\ ToTop([Top EXCEPT !.phase = next, !.held = held, !.meta = meta])
                           /\ UNCHANGED step
    <2>1. IsFrame(Top)
      BY <1>1, TopIsSound DEF Sound, Shape
    <2>2. [Top EXCEPT !.phase = next]
            = [Top EXCEPT !.phase = next, !.held = Top.held, !.meta = Top.meta]
      BY <2>1 DEF IsFrame, Fields
    <2>3. CASE size = 0 \/ (part = "image" /\ Rec.direct)
      BY <2>2, <2>3 DEF Part
    <2>4. CASE ~ (size = 0 \/ (part = "image" /\ Rec.direct))
      BY <2>4 DEF Part, Fail
    <2> QED BY <2>3, <2>4
  <1>3. CASE UNCHANGED stack /\ step' \in {step, "failed"}
    BY <1>1, <1>3, SameReading
  <1>4. ASSUME NEW held, NEW meta, UNCHANGED step,
               ToTop([Top EXCEPT !.phase = next, !.held = held, !.meta = meta])
        PROVE  Reading'
    <2> DEFINE g == [Top EXCEPT !.phase = next, !.held = held, !.meta = meta]
    <2>1. Shape(Top) /\ Len(stack) \in DOMAIN stack /\ Top = stack[Len(stack)]
      BY <1>1, TopIsSound, FrontFacts DEF Sound, Stacked, Top
    <2>2. /\ g.id = Top.id /\ g.stream = Top.stream /\ g.phase = next
          /\ g.report = Top.report /\ g.children = Top.children
      BY <2>1 DEF Shape, IsFrame, Fields
    <2>3. ToTop(g)
      BY <1>4
    <2> HIDE DEF g
    <2>4. IsReading(g) /\ Collected(g)
      BY <2>1, <2>2 DEF IsReading, Collected, Reading, LastReads
    <2> QED BY <1>1, <1>4, <2>2, <2>3, <2>4, StillReading
  <1> QED BY <1>2, <1>3, <1>4

LEMMA RegisterReading == Nested /\ Reading /\ Register => Reading'
  <1> SUFFICES ASSUME Nested, Reading, Register
               PROVE  Reading'
    OBVIOUS
  <1> DEFINE held == Top.held
             r == RecordReport(Rec, held)
             level == IF held = None THEN Top.level ELSE Top.level \cup {Rec.id}
             directs == IF Rec.direct /\ Rec.size # 0 THEN Append(Top.directs, Top.at) ELSE Top.directs
             report == Append(Top.report, r)
             g == [Top EXCEPT !.phase = "image", !.at = @ + 1, !.held = None, !.meta = FALSE,
                     !.level = level, !.directs = directs, !.report = report]
  <1>1. /\ UNCHANGED <<streams, seen>> /\ stack # <<>> /\ Top.phase = "register"
        /\ step = "streams" /\ Stacked
    BY DEF Register, InPhase, Nested
  <1>2. Shape(Top) /\ Len(stack) \in DOMAIN stack /\ Top = stack[Len(stack)]
    BY <1>1, TopIsSound, FrontFacts DEF Sound, Stacked, Top
  <1>3. CASE Fail /\ UNCHANGED stack
    BY <1>1, <1>3, SameReading DEF Fail
  <1>4. CASE ToTop(g) /\ UNCHANGED step
    <2>1. r.nested = None
      BY DEF RecordReport
    <2> HIDE DEF r, level, directs
    <2>2. /\ g.id = Top.id /\ g.stream = Top.stream /\ g.phase = "image"
          /\ g.report = Append(Top.report, r) /\ g.children = Top.children
      <3> HIDE DEF report
      <3>1. /\ g.id = Top.id /\ g.stream = Top.stream /\ g.phase = "image"
            /\ g.report = report /\ g.children = Top.children
        BY <1>2 DEF Shape, IsFrame, Fields
      <3> QED BY <3>1 DEF report
    <2> HIDE DEF g, report
    <2>3. /\ DOMAIN g.report = 1..Len(Top.report) + 1 /\ DOMAIN Top.report = 1..Len(Top.report)
          /\ Len(Top.report) \in Nat
          /\ (\A i \in 1..Len(Top.report) : g.report[i] = Top.report[i])
          /\ g.report[Len(Top.report) + 1] = r
      BY <1>2, <2>2, AppendFacts DEF Shape
    <2>4. Collected(Top)
      BY <1>2 DEF Reading, LastReads
    <2>5. \A i \in DOMAIN g.report : g.report[i].nested # None =>
            i \in DOMAIN Top.report /\ g.report[i] = Top.report[i]
      BY <2>1, <2>3
    <2>6. Collected(g)
      BY <1>1, <2>2, <2>4, <2>5 DEF Collected
    <2>7. IsReading(g) /\ IsReading(Top)
      BY <1>1, <2>2 DEF IsReading
    <2> QED BY <1>1, <1>4, <2>2, <2>6, <2>7, StillReading
  <1> HIDE DEF g
  <1>5. (Fail /\ UNCHANGED stack) \/ (ToTop(g) /\ UNCHANGED step)
    BY DEF Register, g
  <1> QED BY <1>3, <1>4, <1>5

LEMMA DecodedReading == Nested /\ Reading /\ Decoded => Reading'
  <1> SUFFICES ASSUME Nested, Reading, Decoded
               PROVE  Reading'
    OBVIOUS
  <1> DEFINE g == [Top EXCEPT !.phase = "directs"]
  <1>1. /\ UNCHANGED <<step, streams, seen>> /\ stack # <<>> /\ Top.phase = "image"
        /\ step = "streams" /\ Stacked /\ ToTop(g)
    BY DEF Decoded, InPhase, output, Nested
  <1>2. Shape(Top) /\ Len(stack) \in DOMAIN stack /\ Top = stack[Len(stack)]
    BY <1>1, TopIsSound, FrontFacts DEF Sound, Stacked, Top
  <1>3. /\ g.id = Top.id /\ g.stream = Top.stream /\ g.phase = "directs"
        /\ g.report = Top.report /\ g.children = Top.children
    BY <1>2 DEF Shape, IsFrame, Fields
  <1> HIDE DEF g
  <1>4. IsReading(g) /\ IsReading(Top) /\ Collected(g)
    BY <1>1, <1>2, <1>3 DEF IsReading, Collected, Reading, LastReads
  <1> QED BY <1>1, <1>3, <1>4, StillReading

LEMMA DirectReading == Nested /\ Reading /\ Direct => Reading'
  <1> SUFFICES ASSUME Nested, Reading, Direct
               PROVE  Reading'
    OBVIOUS
  <1> DEFINE at == Head(Top.directs)
             rec == Records[at]
             next == Interpreter(rec.id)
             raw == Artifact(rec, rec.content, rec.size, "direct.bin")
  <1>1. /\ UNCHANGED <<streams, seen>> /\ stack # <<>> /\ Top.phase = "directs"
        /\ Top.directs # <<>> /\ step = "streams" /\ Stacked
    BY DEF Direct, InPhase, Nested
  <1>2. Shape(Top) /\ Len(stack) \in DOMAIN stack /\ Top = stack[Len(stack)]
    BY <1>1, TopIsSound, FrontFacts DEF Sound, Stacked, Top
  <1>3. IsFrame(Top) /\ IsSeq(Top.report) /\ IsSeq(Top.children) /\ IsSeq(Top.directs)
    BY <1>2 DEF Shape
  <1>4. at \in DOMAIN Top.report /\ IsReport(Top.report[at])
    BY <1>1, <1>2, <1>3, TailFacts DEF Shape
  <1>5. Collected(Top) /\ IsReading(Top)
    BY <1>1, <1>2 DEF Reading, LastReads, IsReading
  <1> HIDE DEF at, rec, next, raw
  <1>6. CASE UNCHANGED step /\
             ToTop([Top EXCEPT !.directs = Tail(@), !.children = Append(@, at),
                      !.report[at].nested = next])
    <2> DEFINE row == [Top.report[at] EXCEPT !.nested = next]
               report == [Top.report EXCEPT ![at] = row]
               children == Append(Top.children, at)
               directs == Tail(Top.directs)
               g == [Top EXCEPT !.directs = directs, !.children = children, !.report = report]
    <2>1. ToTop(g)
      BY <1>6
    <2> HIDE DEF row
    <2>2. DOMAIN report = DOMAIN Top.report /\ \A i \in DOMAIN Top.report \ {at} : report[i] = Top.report[i]
      BY <1>3, <1>4, ReportFacts
    <2>3. /\ DOMAIN children = 1..Len(Top.children) + 1 /\ Len(Top.children) \in Nat
          /\ DOMAIN Top.children = 1..Len(Top.children)
          /\ (\A i \in 1..Len(Top.children) : children[i] = Top.children[i])
          /\ children[Len(Top.children) + 1] = at
      BY <1>3, AppendFacts
    <2> HIDE DEF report, children, directs
    <2>4. /\ g.id = Top.id /\ g.stream = Top.stream /\ g.phase = Top.phase
          /\ g.children = children /\ g.report = report
      BY <1>3 DEF IsFrame, Fields
    <2> HIDE DEF g
    <2>5. \A c : (\E i \in DOMAIN Top.children : Top.children[i] = c) =>
                 \E i \in DOMAIN children : children[i] = c
      BY <2>3
    <2>6. \E i \in DOMAIN children : children[i] = at
      <3>1. Len(Top.children) + 1 \in DOMAIN children
        BY <2>3
      <3> QED BY <2>3, <3>1
    <2>7. Collected(g)
      BY <1>1, <1>5, <2>2, <2>4, <2>5, <2>6 DEF Collected
    <2>8. IsReading(g)
      BY <1>1, <2>4 DEF IsReading
    <2> QED BY <1>1, <1>5, <1>6, <2>1, <2>4, <2>7, <2>8, StillReading
  <1>7. CASE UNCHANGED step /\ ToTop([Top EXCEPT !.directs = Tail(@), !.report[at].image = raw])
    <2> DEFINE row == [Top.report[at] EXCEPT !.image = raw]
               report == [Top.report EXCEPT ![at] = row]
               directs == Tail(Top.directs)
               g == [Top EXCEPT !.directs = directs, !.report = report]
    <2>1. ToTop(g)
      BY <1>7
    <2>2. row.nested = Top.report[at].nested
      BY <1>4 DEF IsReport
    <2> HIDE DEF row
    <2>3. /\ DOMAIN report = DOMAIN Top.report /\ report[at] = row
          /\ \A i \in DOMAIN Top.report \ {at} : report[i] = Top.report[i]
      BY <1>3, <1>4, ReportFacts
    <2> HIDE DEF report, directs
    <2>4. /\ g.id = Top.id /\ g.stream = Top.stream /\ g.phase = Top.phase
          /\ g.children = Top.children /\ g.report = report
      BY <1>3 DEF IsFrame, Fields
    <2> HIDE DEF g
    <2>5. \A i \in DOMAIN Top.report : report[i].nested = Top.report[i].nested
      BY <2>2, <2>3
    <2>6. Collected(g)
      BY <1>1, <1>5, <2>3, <2>4, <2>5 DEF Collected
    <2>7. IsReading(g)
      BY <1>1, <2>4 DEF IsReading
    <2> QED BY <1>1, <1>5, <1>7, <2>1, <2>4, <2>6, <2>7, StillReading
  <1>8. CASE Fail /\ UNCHANGED stack
    BY <1>1, <1>8, SameReading DEF Fail
  <1> QED BY <1>6, <1>7, <1>8 DEF Direct, at, rec, next, raw

LEMMA ReportReading == Nested /\ Reading /\ Report => Reading'
  <1> SUFFICES ASSUME Nested, Reading, Report
               PROVE  Reading'
    OBVIOUS
  <1> DEFINE g == [Top EXCEPT !.phase = "children"]
             new == Len(streams) + 1
             top == Len(stack)
  <1>1. /\ UNCHANGED <<step, seen>> /\ stack # <<>> /\ Top.phase = "directs" /\ step = "streams"
        /\ ToTop(g) /\ streams' = Append(streams, StreamReport) /\ Stacked
    BY DEF Report, InPhase, Nested
  <1>2. Shape(Top) /\ IsFrame(Top) /\ IsReading(Top)
    BY <1>1, TopIsSound DEF Sound, Shape, IsReading
  <1>3. /\ DOMAIN streams' = 1..new /\ DOMAIN streams = 1..new - 1 /\ new \in Nat \ {0}
        /\ streams'[new] = StreamReport /\ \A q \in 1..new - 1 : streams'[q] = streams[q]
    BY <1>1, AppendFacts DEF Stacked
  <1>4. /\ StreamReport.id = Top.id /\ StreamReport.stream = Top.stream
        /\ StreamReport.records = Top.report
    BY DEF StreamReport
  <1>5. /\ g.id = Top.id /\ g.stream = Top.stream /\ g.phase = "children"
        /\ g.report = Top.report /\ g.children = Top.children
    BY <1>2 DEF IsFrame, Fields
  <1> HIDE DEF g
  <1>6. /\ DOMAIN stack' = DOMAIN stack /\ Len(stack') = top /\ top \in DOMAIN stack
        /\ stack'[top] = g /\ Top = stack[top]
        /\ \A n \in DOMAIN stack : n # top => stack'[n] = stack[n]
    BY <1>1, NewTop
  <1> HIDE DEF new, top
  <1>7. DOMAIN streams' = DOMAIN streams \cup {new} /\ new \notin DOMAIN streams
    BY <1>3
  <1>8. \A k \in DOMAIN streams : streams'[k] = streams[k]
    BY <1>3
  <1>9. KeyOf(streams'[new]) = KeyOf(Top)
    BY <1>3, <1>4 DEF KeyOf
  <1>10. \A n \in DOMAIN stack : n # top => stack[n].phase = "children"
    BY DEF Reading, LastReads, top
  <1>11. LastReads'
    BY <1>5, <1>6, <1>10 DEF Reading, LastReads, Collected
  <1>12. \A n \in DOMAIN stack' : ~ IsReading(stack'[n])
    BY <1>5, <1>6, <1>10 DEF IsReading
  <1>13. KeyOf(Top) \in seen /\ \A k \in DOMAIN streams : KeyOf(streams[k]) # KeyOf(Top)
    BY <1>2, <1>6 DEF Reading, Apart
  <1>14. Apart'
    <2>1. \A k, l \in DOMAIN streams' : KeyOf(streams'[k]) = KeyOf(streams'[l]) => k = l
      BY <1>7, <1>8, <1>9, <1>13 DEF Reading, Apart
    <2>2. \A k \in DOMAIN streams' : KeyOf(streams'[k]) \in seen'
      BY <1>1, <1>7, <1>8, <1>9, <1>13 DEF Reading, Apart
    <2> QED BY <1>12, <2>1, <2>2 DEF Apart
  <1>15. \A key \in seen' : IsRead(key)'
    <2> SUFFICES ASSUME NEW key \in seen
                 PROVE  IsRead(key)'
      BY <1>1
    <2>1. IsRead(key)
      BY <1>1 DEF Reading, Found
    <2>2. CASE \E k \in DOMAIN streams : KeyOf(streams[k]) = key
      <3>1. \E k \in DOMAIN streams' : KeyOf(streams'[k]) = key
        BY <1>7, <1>8, <2>2
      <3> QED BY <3>1 DEF IsRead
    <2>3. CASE \E n \in DOMAIN stack : IsReading(stack[n]) /\ KeyOf(stack[n]) = key
      <3>1. KeyOf(Top) = key
        BY <1>6, <1>10, <2>3 DEF IsReading
      <3>2. \E k \in DOMAIN streams' : KeyOf(streams'[k]) = key
        BY <1>7, <1>9, <3>1
      <3> QED BY <3>2 DEF IsRead
    <2> QED BY <2>1, <2>2, <2>3 DEF IsRead
  <1>16. ASSUME NEW k \in DOMAIN streams', NEW r \in DOMAIN streams'[k].records,
                streams'[k].records[r].nested # None
         PROVE  \/ NestedKey(k, r)' \in seen'
                \/ \E n \in DOMAIN stack' : Awaits(stack'[n], NestedKey(k, r)')
    <2>1. CASE k \in DOMAIN streams
      <3>1. NestedKey(k, r)' = NestedKey(k, r)
        BY <1>8, <2>1 DEF NestedKey
      <3>2. \/ NestedKey(k, r) \in seen
            \/ \E n \in DOMAIN stack : Awaits(stack[n], NestedKey(k, r))
        BY <1>1, <1>8, <1>16, <2>1 DEF Reading, Found
      <3>3. \A n \in DOMAIN stack : Awaits(stack[n], NestedKey(k, r)) => Awaits(stack'[n], NestedKey(k, r))
        <4>1. ~ Awaits(Top, NestedKey(k, r))
          BY <1>1 DEF Awaits
        <4> QED BY <1>6, <4>1
      <3> QED BY <1>1, <1>6, <3>1, <3>2, <3>3
    <2>2. CASE k = new
      <3>1. /\ r \in DOMAIN Top.report /\ Top.report[r].nested # None
            /\ NestedKey(k, r)' = <<Top.report[r].nested, Row(Top, r).child>>
        BY <1>3, <1>4, <1>16, <2>2 DEF NestedKey, Row
      <3>2. PICK i \in DOMAIN Top.children : Top.children[i] = r
        BY <1>1, <1>6, <3>1 DEF Reading, LastReads, Collected
      <3>3. Top.report[r].nested = Interpreter(Row(Top, r).id)
        BY <1>2, <3>2 DEF Shape
      <3>4. Awaits(g, NestedKey(k, r)')
        BY <1>5, <3>1, <3>2, <3>3 DEF Awaits, Row
      <3> QED BY <1>6, <3>4
    <2> QED BY <1>7, <2>1, <2>2
  <1>17. Found' /\ Outset'
    BY <1>1, <1>15, <1>16 DEF Found, Outset
  <1> QED BY <1>11, <1>14, <1>17 DEF Reading

LEMMA ChildReading == Nested /\ Reading /\ Child => Reading'
  <1> SUFFICES ASSUME Nested, Reading, Child
               PROVE  Reading'
    OBVIOUS
  <1> DEFINE at == Head(Top.children)
             rec == Records[at]
             id == Interpreter(rec.id)
             parent == [stream |-> Top.id, record |-> at, id |-> rec.id]
             children == Tail(Top.children)
             g == [Top EXCEPT !.children = children]
             h == Call(rec.child, id, Top.depth + 1, parent, config)
             below == Append(Front(stack), g)
             top == Len(stack)
  <1>1. /\ UNCHANGED <<streams, seen>> /\ stack # <<>> /\ Top.phase = "children"
        /\ Top.children # <<>> /\ step = "streams" /\ Stacked
    BY DEF Child, InPhase, output, Nested
  <1>2. Shape(Top) /\ IsFrame(Top)
    BY <1>1, TopIsSound DEF Sound, Shape
  <1>3. CASE Fail /\ UNCHANGED stack
    BY <1>1, <1>3, SameReading DEF Fail
  <1>4. CASE stack' = Append(below, h) /\ UNCHANGED step
    <2>1. /\ at = Top.children[1]
          /\ \A i \in DOMAIN Top.children :
               i # 1 => i - 1 \in DOMAIN children /\ children[i - 1] = Top.children[i]
      BY <1>1, <1>2, TailFacts, TailCovers DEF Shape
    <2>2. h.id = id /\ h.stream = rec.child /\ h.phase = "enter" /\ h.report = <<>>
      BY DEF Call
    <2>3. rec = Row(Top, at)
      BY DEF Records, Row
    <2> HIDE DEF children
    <2>4. /\ g.stream = Top.stream /\ g.phase = "children" /\ g.children = children
      BY <1>1, <1>2 DEF IsFrame, Fields
    <2> HIDE DEF g, h, at, rec, id, parent
    <2>5. /\ IsSeq(below) /\ Len(below) = top /\ DOMAIN below = 1..top
          /\ \A i \in 1..top - 1 : below[i] = stack[i]
          /\ below[top] = g
          /\ DOMAIN stack = 1..top /\ top \in Nat \ {0} /\ Top = stack[top]
      BY <1>1, ReplaceFacts, FrontFacts DEF Stacked, Top
    <2>6. /\ Len(stack') = top + 1 /\ DOMAIN stack' = 1..top + 1
          /\ \A i \in 1..top : stack'[i] = below[i]
          /\ stack'[top + 1] = h
      BY <1>4, <2>5, AppendFacts
    <2> HIDE DEF below, top
    <2>7. /\ DOMAIN stack' = DOMAIN stack \cup {top + 1} /\ top \in DOMAIN stack
          /\ stack'[top] = g
      BY <2>5, <2>6
    <2>8. \A n \in DOMAIN stack : n # top => stack'[n] = stack[n]
      <3> SUFFICES ASSUME NEW n \in 1..top, n # top
                   PROVE  stack'[n] = stack[n]
        BY <2>5
      <3>1. n \in 1..top - 1
        BY <2>5
      <3> QED BY <2>5, <2>6, <3>1
    <2>9. \A n \in DOMAIN stack : n # top => stack[n].phase = "children"
      BY DEF Reading, LastReads, top
    <2>10. \A n \in DOMAIN stack : stack[n].phase = "children" /\ stack'[n].phase = "children"
      BY <1>1, <2>4, <2>5, <2>7, <2>8, <2>9
    <2>11. Collected(h)
      <3>1. DOMAIN <<>> = {}
        OBVIOUS
      <3> QED BY <2>2, <3>1 DEF Collected
    <2>12. LastReads'
      BY <2>6, <2>7, <2>10, <2>11 DEF LastReads, Collected
    <2>13. \A n \in DOMAIN stack' : ~ IsReading(stack'[n])
      BY <2>2, <2>6, <2>7, <2>10 DEF IsReading
    <2>14. Apart'
      BY <1>1, <2>13 DEF Reading, Apart
    <2>15. \A key : IsRead(key) => IsRead(key)'
      <3>1. \A n \in DOMAIN stack : ~ IsReading(stack[n])
        BY <2>10 DEF IsReading
      <3> QED BY <1>1, <3>1 DEF IsRead
    <2>16. \A key : Awaits(Top, key) => Awaits(g, key) \/ Awaits(h, key)
      <3> SUFFICES ASSUME NEW key, Awaits(Top, key)
                   PROVE  Awaits(g, key) \/ Awaits(h, key)
        OBVIOUS
      <3>1. PICK i \in DOMAIN Top.children :
              key = <<Interpreter(Row(Top, Top.children[i]).id), Row(Top, Top.children[i]).child>>
        BY <1>1 DEF Awaits
      <3>2. CASE i = 1
        BY <2>1, <2>2, <2>3, <3>1, <3>2 DEF Awaits, KeyOf, id
      <3>3. CASE i # 1
        <4>1. i - 1 \in DOMAIN children /\ children[i - 1] = Top.children[i]
          BY <2>1, <3>3
        <4> QED BY <2>4, <3>1, <4>1 DEF Awaits, Row
      <3> QED BY <3>2, <3>3
    <2>17. \A key : (\E n \in DOMAIN stack : Awaits(stack[n], key)) =>
                   \E n \in DOMAIN stack' : Awaits(stack'[n], key)
      <3> SUFFICES ASSUME NEW key, NEW n \in DOMAIN stack, Awaits(stack[n], key)
                   PROVE  \E m \in DOMAIN stack' : Awaits(stack'[m], key)
        OBVIOUS
      <3>1. CASE n = top
        <4>1. Awaits(g, key) \/ Awaits(h, key)
          BY <2>5, <2>16, <3>1
        <4> QED BY <2>6, <2>7, <4>1
      <3>2. CASE n # top
        BY <2>7, <2>8, <3>2
      <3> QED BY <3>1, <3>2
    <2>18. \A k, r : NestedKey(k, r)' = NestedKey(k, r)
      BY <1>1 DEF NestedKey
    <2>19. Found' /\ Outset'
      BY <1>1, <1>4, <2>15, <2>17, <2>18 DEF Reading, Found, Outset
    <2> QED BY <2>12, <2>14, <2>19 DEF Reading
  <1> HIDE DEF h, below
  <1>5. (Fail /\ UNCHANGED stack) \/ (stack' = Append(below, h) /\ UNCHANGED step)
    BY DEF Child, h, below
  <1> QED BY <1>3, <1>4, <1>5

LEMMA LeaveReading == Nested /\ Reading /\ Leave => Reading'
  <1> SUFFICES ASSUME Nested, Reading, Leave
               PROVE  Reading'
    OBVIOUS
  <1>1. /\ UNCHANGED <<step, streams, seen>> /\ stack # <<>> /\ Top.phase = "children"
        /\ Top.children = <<>> /\ step = "streams" /\ Return /\ Stacked
    BY DEF Leave, InPhase, output, Nested
  <1>2. \A key : ~ Awaits(Top, key)
    <2>1. DOMAIN <<>> = {}
      OBVIOUS
    <2> QED BY <1>1, <2>1 DEF Awaits
  <1> QED BY <1>1, <1>2, ReturnReading DEF IsReading

LEMMA NextReading == Nested /\ Reading /\ Next => Reading'
  <1> SUFFICES ASSUME Nested, Reading, Next
               PROVE  Reading'
    OBVIOUS
  <1>1. CASE Inspect
    BY <1>1, SameReading DEF Inspect, Fail, Reading, Outset
  <1>2. CASE DecodeImage
    <2>1. /\ stack # <<>> /\ step = "streams" /\ IsReading(Top)
          /\ Part("image", Rec.size, Rec.content, "module.bin", "metadata")
      BY <1>2 DEF DecodeImage, InPhase, IsReading
    <2> QED BY <2>1, PartReading
  <1>3. CASE DecodeMetadata
    <2>1. /\ stack # <<>> /\ step = "streams" /\ IsReading(Top)
          /\ Part("metadata", Rec.metasize, Rec.metadata, "metadata.bin", "register")
      BY <1>3 DEF DecodeMetadata, InPhase, IsReading
    <2> QED BY <2>1, PartReading
  <1>4. CASE Abort
    BY <1>4, SameReading DEF Abort, output, Fail
  <1>5. CASE WriteIndex
    BY <1>5, SameReading DEF WriteIndex, output
  <1> QED BY <1>1, <1>2, <1>3, <1>4, <1>5, ConfigureReading, EnterReading, RegisterReading,
             DecodedReading, DirectReading, ReportReading, ChildReading, LeaveReading DEF Next

LEMMA StillRead == Reading /\ UNCHANGED <<step, stack, streams, seen>> => Reading'
  BY SameReading DEF Reading, Outset

LEMMA ReadingStays == Nested /\ Reading /\ [LibraryNext]_all => Reading'
  <1> SUFFICES ASSUME Nested, Reading, [LibraryNext]_all
               PROVE  Reading'
    OBVIOUS
  <1>1. CASE Extraction
    BY <1>1, NextReading DEF Extraction
  <1>2. CASE CollectModules
    BY <1>2, StillRead DEF CollectModules, vars
  <1>3. CASE Restoration
    BY <1>3, RestoreReads, StillRead DEF Restoration, vars
  <1>4. CASE ExtractionFails \/ CollectionFails \/ RestorationFails \/ ReopenFails \/ Succeed
    BY <1>4, StillRead
       DEF ExtractionFails, CollectionFails, RestorationFails, ReopenFails, Succeed, Answer
  <1>5. CASE UNCHANGED all
    BY <1>5, StillRead DEF all, vars
  <1> QED BY <1>1, <1>2, <1>3, <1>4, <1>5 DEF LibraryNext

LEMMA InitReading == LibraryInit => Reading
  <1> SUFFICES ASSUME LibraryInit
               PROVE  Reading
    OBVIOUS
  <1>1. stack = <<>> /\ streams = <<>> /\ seen = {} /\ step = "start"
    BY DEF LibraryInit, Init
  <1>2. DOMAIN <<>> = {}
    OBVIOUS
  <1> QED BY <1>1, <1>2 DEF Reading, LastReads, Apart, Found, Outset

\* For any streams and ceilings, nested as deep as they may be and in themselves:
\* no stream is read twice under one id, and a call that comes to its end has read
\* every stream it found nested (extract_stream 202-232, 378-410).
THEOREM StreamsReadOnce == LibrarySpec => []StreamsAreReadOnce
  <1>1. Reading => StreamsAreReadOnce
    <2> SUFFICES ASSUME Reading
                 PROVE  StreamsAreReadOnce
      OBVIOUS
    <2>1. ASSUME NEW a \in Reports \cup Readers, NEW b \in Reports \cup Readers, Key(a) = Key(b)
          PROVE  a = b
      <3>1. ASSUME NEW c \in Reports
            PROVE  /\ c[2] \in DOMAIN streams /\ c = <<"report", c[2]>>
                   /\ Key(c) = KeyOf(streams[c[2]])
        BY DEF Reports, Key, KeyOf
      <3>2. ASSUME NEW c \in Readers
            PROVE  /\ c[2] \in DOMAIN stack /\ IsReading(stack[c[2]]) /\ c = <<"call", c[2]>>
                   /\ Key(c) = KeyOf(stack[c[2]])
        BY DEF Readers, Key, KeyOf, IsReading
      <3>3. CASE a \in Reports /\ b \in Reports
        <4>1. a[2] = b[2]
          BY <2>1, <3>1, <3>3 DEF Reading, Apart
        <4> QED BY <3>1, <3>3, <4>1
      <3>4. CASE a \in Readers /\ b \in Readers
        <4>1. a[2] = Len(stack) /\ b[2] = Len(stack)
          BY <3>2, <3>4 DEF Reading, LastReads, IsReading
        <4> QED BY <3>2, <3>4, <4>1
      <3>5. CASE a \in Reports /\ b \in Readers
        BY <2>1, <3>1, <3>2, <3>5 DEF Reading, Apart
      <3>6. CASE a \in Readers /\ b \in Reports
        BY <2>1, <3>1, <3>2, <3>6 DEF Reading, Apart
      <3> QED BY <3>3, <3>4, <3>5, <3>6
    <2>2. ASSUME step = "done", NEW key \in Nestings
          PROVE  key \in {Key(a) : a \in Reports}
      <3>1. stack = <<>> /\ DOMAIN <<>> = {}
        BY <2>2 DEF Reading, Outset
      <3>2. PICK k \in DOMAIN streams : \E r \in DOMAIN streams[k].records :
              streams[k].records[r].nested # None /\ key = NestedKey(k, r)
        BY <2>2 DEF Nestings, NestedKey
      <3>3. key \in seen
        BY <2>2, <3>1, <3>2 DEF Reading, Found
      <3>4. PICK l \in DOMAIN streams : KeyOf(streams[l]) = key
        BY <2>2, <3>1, <3>3 DEF Reading, Found, IsRead
      <3>5. <<"report", l>> \in Reports
        BY DEF Reports
      <3>6. Key(<<"report", l>>) = KeyOf(streams[l])
        BY DEF Key, KeyOf
      <3> QED BY <3>4, <3>5, <3>6
    <2> QED BY <2>1, <2>2 DEF StreamsAreReadOnce
  <1>2. LibrarySpec => [](Nested /\ Reading)
    BY InitNested, InitReading, LibraryNested, ReadingStays, PTL DEF LibrarySpec, all
  <1> QED BY <1>1, <1>2, PTL

-----------------------------------------------------------------------------
Running == step \in {"start", "stage1", "streams"}

Held ==
  \A i \in DOMAIN artifacts :
    /\ artifacts[i].path \in DOMAIN files
    /\ files[artifacts[i].path] = artifacts[i].content
    /\ artifacts[i].path[5] = artifacts[i].content

(***************************************************************************)
(* The inductive invariant of the workspace: while it is there, a name     *)
(* carries the digest of what the file holds, so only the same content can *)
(* be written under it again; and it goes away only after the last write.  *)
(***************************************************************************)
Workspace ==
  /\ IsSeq(artifacts)
  /\ step \in {"start", "stage1"} => artifacts = <<>>
  /\ Running \/ files # <<>> => Held
  /\ module # None \/ stage # "idle" => step = "done"

LEMMA WriteHeld ==
  ASSUME IsSeq(artifacts), Held, NEW a, a.path[5] = a.content, WriteArtifact(a)
  PROVE  IsSeq(artifacts') /\ Held'
  <1>1. /\ IsSeq(artifacts') /\ DOMAIN artifacts' = 1..Len(artifacts) + 1
        /\ Len(artifacts) \in Nat /\ DOMAIN artifacts = 1..Len(artifacts)
        /\ \A i \in 1..Len(artifacts) : artifacts'[i] = artifacts[i]
        /\ artifacts'[Len(artifacts) + 1] = a
    BY AppendFacts DEF WriteArtifact
  <1>2. /\ DOMAIN files' = DOMAIN files \cup {a.path}
        /\ \A x \in DOMAIN files' : files'[x] = IF x = a.path THEN a.content ELSE files[x]
    BY DEF WriteArtifact, Put
  <1> SUFFICES ASSUME NEW i \in DOMAIN artifacts'
               PROVE  /\ artifacts'[i].path \in DOMAIN files'
                      /\ files'[artifacts'[i].path] = artifacts'[i].content
                      /\ artifacts'[i].path[5] = artifacts'[i].content
    BY <1>1 DEF Held
  <1>3. CASE i = Len(artifacts) + 1
    BY <1>1, <1>2, <1>3
  <1>4. CASE i # Len(artifacts) + 1
    <2>1. i \in DOMAIN artifacts /\ artifacts'[i] = artifacts[i]
      BY <1>1, <1>4
    <2>2. /\ artifacts[i].path \in DOMAIN files
          /\ files[artifacts[i].path] = artifacts[i].content
          /\ artifacts[i].path[5] = artifacts[i].content
      BY <2>1 DEF Held
    <2> QED BY <1>2, <2>1, <2>2
  <1> QED BY <1>3, <1>4

\* A file name holds the digest of the content at its fifth place.
LEMMA NamedByContent ==
  ASSUME NEW rec, NEW content, NEW size, NEW suffix
  PROVE  /\ Artifact(rec, content, size, suffix).path[5] = content
         /\ Artifact(rec, content, size, suffix).content = content
  BY DEF Artifact, FileName

\* What an extraction step does to the workspace.
LEMMA NextKeeps ==
  ASSUME Workspace, Next
  PROVE  /\ Running
         /\ IsSeq(artifacts') /\ Held'
         /\ step' \in {"start", "stage1"} => artifacts' = <<>>
  <1>1. IsSeq(artifacts) /\ (Running => Held) /\ (step \in {"start", "stage1"} => artifacts = <<>>)
    BY DEF Workspace
  <1>2. CASE Inspect
    <2>1. step = "start" /\ artifacts = <<>> /\ artifacts' = <<>>
      BY <1>1, <1>2 DEF Inspect
    <2> QED BY <1>1, <2>1 DEF Running, Held
  <1>3. CASE /\ step \in {"stage1", "streams"} /\ UNCHANGED <<artifacts, files>>
             /\ step' \notin {"start", "stage1"}
    BY <1>1, <1>3 DEF Running, Held
  <1>4. CASE Abort
    BY <1>1, <1>4 DEF Abort, Fail, output, Running, Held
  <1>5. ASSUME NEW part, NEW size, NEW content, NEW suffix, NEW next, step = "streams",
               Part(part, size, content, suffix, next)
        PROVE  /\ Running
               /\ IsSeq(artifacts') /\ Held'
               /\ step' \in {"start", "stage1"} => artifacts' = <<>>
    <2>1. Held
      BY <1>1, <1>5 DEF Running
    <2>2. step' \notin {"start", "stage1"}
      BY <1>5 DEF Part, Fail
    <2>3. CASE UNCHANGED <<artifacts, files>>
      BY <1>1, <1>5, <2>1, <2>2, <2>3 DEF Running, Held
    <2>4. CASE WriteArtifact(Artifact(Rec, content, size, suffix))
      BY <1>1, <1>5, <2>1, <2>2, <2>4, WriteHeld, NamedByContent DEF Running
    <2> QED BY <1>5, <2>3, <2>4 DEF Part
  <1>6. CASE DecodeImage
    BY <1>5, <1>6 DEF DecodeImage, InPhase
  <1>7. CASE DecodeMetadata
    BY <1>5, <1>7 DEF DecodeMetadata, InPhase
  <1>8. CASE Direct
    <2>1. step = "streams" /\ step' \notin {"start", "stage1"}
      BY <1>8 DEF Direct, InPhase, Fail
    <2>2. Held
      BY <1>1, <2>1 DEF Running
    <2>3. CASE UNCHANGED <<artifacts, files>>
      BY <1>1, <2>1, <2>2, <2>3 DEF Running, Held
    <2>4. CASE \E rec : WriteArtifact(Artifact(rec, rec.content, rec.size, "direct.bin"))
      BY <1>1, <2>1, <2>2, <2>4, WriteHeld, NamedByContent DEF Running
    <2> QED BY <1>8, <2>3, <2>4 DEF Direct
  <1>9. CASE Configure \/ Enter \/ Register \/ Decoded \/ Report \/ Child \/ Leave \/ WriteIndex
    BY <1>3, <1>9 DEF Configure, Enter, Register, Decoded, Report, Child, Leave, WriteIndex, InPhase,
                      Fail, output
  <1> QED BY <1>2, <1>4, <1>6, <1>7, <1>8, <1>9 DEF Next

LEMMA WorkspaceStays == Workspace /\ [LibraryNext]_all => Workspace'
  <1> SUFFICES ASSUME Workspace, [LibraryNext]_all
               PROVE  Workspace'
    OBVIOUS
  <1>1. CASE Extraction
    <2>1. Next /\ UNCHANGED <<restoring, calling>>
      BY <1>1 DEF Extraction
    <2>2. module' = module /\ stage' = stage
      BY <2>1 DEF restoring, calling
    <2>3. module = None /\ stage = "idle"
      BY <2>1, NextKeeps DEF Workspace, Running
    <2> QED BY <2>1, <2>2, <2>3, NextKeeps DEF Workspace
  <1>2. CASE CollectModules
    BY <1>2 DEF CollectModules, Workspace, vars, restoring, Running, Held
  <1>3. CASE Restoration
    <2>1. module # None /\ UNCHANGED vars /\ module' = module
      BY <1>3, RestoreReads DEF Restoration, calling
    <2> QED BY <2>1 DEF Workspace, vars, Running, Held
  <1>4. CASE ExtractionFails \/ CollectionFails \/ RestorationFails \/ ReopenFails \/ Succeed
    <2>1. /\ files' = <<>> /\ step' = step /\ artifacts' = artifacts
          /\ module' = module /\ stage' = stage
      BY <1>4 DEF ExtractionFails, CollectionFails, RestorationFails, ReopenFails, Succeed, Answer,
                  restoring
    <2>2. ~ Running
      BY <1>4 DEF ExtractionFails, CollectionFails, RestorationFails, ReopenFails, Succeed,
                  Workspace, Running
    <2> QED BY <2>1, <2>2 DEF Workspace, Running
  <1>5. CASE UNCHANGED all
    BY <1>5 DEF all, vars, restoring, calling, Workspace, Running, Held
  <1> QED BY <1>1, <1>2, <1>3, <1>4, <1>5 DEF LibraryNext

LEMMA InitWorkspace == LibraryInit => Workspace
  <1> SUFFICES ASSUME LibraryInit
               PROVE  Workspace
    OBVIOUS
  <1>1. artifacts = <<>> /\ files = <<>> /\ step = "start" /\ module = None /\ stage = "idle"
    BY DEF LibraryInit, Init, RestoreInit
  <1>2. <<>> \in Seq({}) /\ DOMAIN <<>> = {}
    OBVIOUS
  <1>3. IsSeq(<<>>)
    BY <1>2, SeqOverItself
  <1> QED BY <1>1, <1>2, <1>3 DEF Workspace, Held, Running

\* For any streams and whatever two records of one level share: while the workspace
\* is there, a file the reports name still holds what they say (write_artifact 426-461).
THEOREM ArtifactsStay == LibrarySpec => []ReportedFilesStay
  <1>1. Workspace => ReportedFilesStay
    BY DEF Workspace, Held, ReportedFilesStay, ToSet
  <1> QED BY <1>1, InitWorkspace, WorkspaceStays, PTL DEF LibrarySpec, all

-----------------------------------------------------------------------------
\* Less-than on the naturals, as the relation the library says is well-founded.
LEMMA NatIsWellFounded ==
  \E R : IsWellFoundedOn(R, Nat) /\ \A k, m \in Nat : k < m => <<k, m>> \in R
  <1>1. IsWellFoundedOn(OpToRel(<, Nat), Nat)
    BY NatLessThanWellFounded
  <1>2. \A k, m \in Nat : k < m => <<k, m>> \in OpToRel(<, Nat)
    BY DEF OpToRel
  <1> QED BY <1>1, <1>2

\* Every non-empty set of naturals has a least element.
LEMMA LeastOf ==
  ASSUME NEW T, T \subseteq Nat, T # {}
  PROVE  \E m \in T : \A k \in T : m <= k
  <1>1. PICK R : IsWellFoundedOn(R, Nat) /\ \A k, m \in Nat : k < m => <<k, m>> \in R
    BY NatIsWellFounded
  <1>2. PICK m \in T : \A k \in T : ~ (<<k, m>> \in R)
    <2>1. IsWellFoundedOn(R, Nat)
      BY <1>1
    <2> QED BY <2>1, WFMin
  <1>3. ASSUME NEW k \in T
        PROVE  m <= k
    <2>1. k \in Nat /\ m \in Nat /\ ~ (<<k, m>> \in R)
      BY <1>2
    <2>2. ~ (k < m)
      BY <1>1, <2>1
    <2> QED BY <2>1, <2>2
  <1> QED BY <1>3

\* A set with 0 and, with each number, the next one holds every number.
LEMMA NatByInduction ==
  ASSUME NEW T, 0 \in T, \A n \in Nat : n \in T => n + 1 \in T
  PROVE  Nat \subseteq T
  <1> SUFFICES ASSUME ~ Nat \subseteq T PROVE FALSE
    OBVIOUS
  <1>1. PICK m \in Nat \ T : \A k \in Nat \ T : m <= k
    BY LeastOf
  <1>2. m - 1 \in Nat /\ m - 1 \in T
    BY <1>1
  <1> QED BY <1>1, <1>2, m - 1 + 1 = m

\* A set with 0 and, with each number up to n, the next one holds those numbers.
LEMMA UpTo ==
  ASSUME NEW n \in Nat, NEW T, 0 \in T, \A i \in 1..n : i - 1 \in T => i \in T
  PROVE  0..n \subseteq T
  <1> DEFINE U == {i \in Nat : i <= n => i \in T}
  <1>1. 0 \in U
    OBVIOUS
  <1>2. ASSUME NEW i \in Nat, i \in U
        PROVE  i + 1 \in U
    <2>1. CASE i + 1 <= n
      <3>1. i + 1 \in 1..n /\ (i + 1) - 1 = i /\ i \in T
        BY <1>2, <2>1
      <3> QED BY <3>1
    <2> QED BY <2>1
  <1>3. Nat \subseteq U
    <2> HIDE DEF U
    <2> QED BY <1>1, <1>2, NatByInduction
  <1> QED BY <1>3

\* What a recursive function computes: it exists when every step stays in V.
Steps(f, n, base, go) == f = [i \in 0..n |-> IF i = 0 THEN base ELSE go[<<f[i - 1], i>>]]

\* Such a function exists, and all it gives is in V.
LEMMA StepsExist ==
  ASSUME NEW n \in Nat, NEW V, NEW base \in V, NEW go \in [V \X (1..n) -> V]
  PROVE  \E f \in [0..n -> V] : Steps(f, n, base, go)
  <1> DEFINE Good(m, f) == f = [i \in 0..m |-> IF i = 0 THEN base ELSE go[<<f[i - 1], i>>]]
             T == {m \in 0..n : \E f \in [0..m -> V] : Good(m, f)}
  <1>1. 0 \in T
    <2> DEFINE f == [i \in 0..0 |-> base]
    <2>1. f \in [0..0 -> V] /\ Good(0, f)
      OBVIOUS
    <2>2. 0 \in 0..n
      OBVIOUS
    <2> HIDE DEF f, Good
    <2> QED BY <2>1, <2>2
  <1>2. ASSUME NEW m \in 1..n, m - 1 \in T
        PROVE  m \in T
    <2>1. PICK f \in [0..m - 1 -> V] : Good(m - 1, f)
      BY <1>2
    <2> DEFINE v == go[<<f[m - 1], m>>]
               g == [i \in 0..m |-> IF i = m THEN v ELSE f[i]]
    <2>2. v \in V
      <3>1. m - 1 \in 0..m - 1
        OBVIOUS
      <3> QED BY <2>1, <3>1
    <2> HIDE DEF v
    <2>3. g \in [0..m -> V]
      BY <2>1, <2>2
    <2>4. ASSUME NEW i \in 0..m
          PROVE  g[i] = IF i = 0 THEN base ELSE go[<<g[i - 1], i>>]
      <3>1. CASE i = m
        <4>1. m # 0 /\ m - 1 \in 0..m /\ m - 1 # m /\ m \in 0..m
          OBVIOUS
        <4>2. g[m - 1] = f[m - 1] /\ g[m] = v
          BY <4>1
        <4> HIDE DEF g
        <4> QED BY <3>1, <4>1, <4>2 DEF v
      <3>2. CASE i # m
        <4>1. i \in 0..m - 1 /\ (i # 0 => i - 1 \in 0..m /\ i - 1 # m)
          BY <3>2
        <4>2. f[i] = IF i = 0 THEN base ELSE go[<<f[i - 1], i>>]
          BY <2>1, <4>1
        <4>3. g[i] = f[i] /\ (i # 0 => g[i - 1] = f[i - 1])
          BY <3>2, <4>1
        <4> HIDE DEF g
        <4> QED BY <4>2, <4>3
      <3> QED BY <3>1, <3>2
    <2> HIDE DEF g
    <2>5. Good(m, g)
      BY <2>3, <2>4
    <2> HIDE DEF Good
    <2> QED BY <2>3, <2>5
  <1>3. 0..n \subseteq T
    <2> HIDE DEF T
    <2> QED BY <1>1, <1>2, UpTo
  <1>4. n \in T
    BY <1>3
  <1> HIDE DEF Good
  <1>5. PICK f \in [0..n -> V] : Good(n, f)
    BY <1>4
  <1> QED BY <1>5 DEF Good, Steps

\* The sums of the first numbers: they exist, and are what the first numbers say.
SumsOf(s, f, n) == s = [i \in 0..n |-> IF i = 0 THEN 0 ELSE s[i - 1] + f[i]]

SameUpTo(f, g, k) == \A i \in 1..k : f[i] = g[i]

\* Two tables of sums agree as far as what they sum does.
LEMMA SumsAgree ==
  ASSUME NEW f, NEW g, NEW m \in Nat, NEW n \in Nat, NEW s, NEW t,
         SumsOf(s, f, m), SumsOf(t, g, n), NEW k \in Nat, k <= m, k <= n,
         SameUpTo(f, g, k)
  PROVE  s[k] = t[k]
  <1> DEFINE T == {i \in Nat : i <= k => s[i] = t[i]}
  <1>1. 0 \in T
    BY DEF SumsOf
  <1>2. ASSUME NEW i \in Nat, i \in T, i + 1 <= k
        PROVE  s[i + 1] = t[i + 1]
    <2>1. i \in 0..m /\ i + 1 \in 0..m /\ i \in 0..n /\ i + 1 \in 0..n /\ i + 1 \in 1..k
      BY <1>2
    <2>2. s[i] = t[i] /\ f[i + 1] = g[i + 1]
      BY <1>2, <2>1 DEF SameUpTo
    <2>3. s[i + 1] = s[i] + f[i + 1] /\ t[i + 1] = t[i] + g[i + 1]
      BY <2>1 DEF SumsOf
    <2> QED BY <2>2, <2>3
  <1>3. \A i \in Nat : i \in T => i + 1 \in T
    BY <1>2
  <1>4. Nat \subseteq T
    <2> HIDE DEF T
    <2> QED BY <1>1, <1>3, NatByInduction
  <1> QED BY <1>4

\* Any first numbers have a table of sums.
LEMMA SumsExist ==
  ASSUME NEW n \in Nat, NEW f \in [1..n -> Nat]
  PROVE  \E s \in [0..n -> Nat] : SumsOf(s, f, n)
  <1> DEFINE go == [p \in Nat \X (1..n) |-> p[1] + f[p[2]]]
  <1>1. go \in [Nat \X (1..n) -> Nat] /\ 0 \in Nat
    OBVIOUS
  <1>2. \A e \in Nat, i \in 1..n : go[<<e, i>>] = e + f[i]
    OBVIOUS
  <1> HIDE DEF go
  <1>3. PICK s \in [0..n -> Nat] : Steps(s, n, 0, go)
    BY <1>1, StepsExist
  <1>4. ASSUME NEW i \in 0..n
        PROVE  s[i] = IF i = 0 THEN 0 ELSE s[i - 1] + f[i]
    <2>1. i # 0 => i \in 1..n /\ i - 1 \in 0..n
      OBVIOUS
    <2>2. s[i] = IF i = 0 THEN 0 ELSE go[<<s[i - 1], i>>]
      BY <1>3 DEF Steps
    <2> QED BY <1>2, <2>1, <2>2
  <1>5. s = [i \in 0..n |-> s[i]]
    OBVIOUS
  <1> QED BY <1>4, <1>5 DEF SumsOf

\* The sum of a sequence is the last entry of its table.
LEMMA SumIsLast ==
  ASSUME NEW n \in Nat, NEW f \in [1..n -> Nat]
  PROVE  \E s \in [0..n -> Nat] : SumsOf(s, f, n) /\ SumOf(f) = s[n]
  <1>1. f \in Seq(Nat) /\ Len(f) = n
    <2>1. f \in Seq(Nat)
      BY SeqDef
    <2>2. DOMAIN f = 1..n /\ DOMAIN f = 1..Len(f) /\ Len(f) \in Nat
      BY <2>1
    <2> QED BY <2>1, <2>2
  <1>2. PICK s \in [0..n -> Nat] : SumsOf(s, f, n)
    BY SumsExist
  <1> DEFINE t == CHOOSE t : t = [i \in 0..Len(f) |-> IF i = 0 THEN 0 ELSE t[i - 1] + f[i]]
  <1>3. t = [i \in 0..Len(f) |-> IF i = 0 THEN 0 ELSE t[i - 1] + f[i]]
    <2>1. s = [i \in 0..Len(f) |-> IF i = 0 THEN 0 ELSE s[i - 1] + f[i]]
      BY <1>1, <1>2 DEF SumsOf
    <2> QED BY <2>1
  <1>4. SumOf(f) = t[Len(f)]
    BY DEF SumOf
  <1> HIDE DEF t
  <1>5. SumsOf(t, f, n)
    BY <1>1, <1>3 DEF SumsOf
  <1>6. t[n] = s[n]
    <2>1. n <= n /\ SameUpTo(f, f, n)
      BY DEF SameUpTo
    <2> QED BY <1>2, <1>5, <2>1, SumsAgree
  <1> QED BY <1>1, <1>2, <1>4, <1>6

\* Numbers sum to a number.
LEMMA SumIsNat ==
  ASSUME NEW n \in Nat, NEW f \in [1..n -> Nat]
  PROVE  SumOf(f) \in Nat
  <1>1. PICK s \in [0..n -> Nat] : SumsOf(s, f, n) /\ SumOf(f) = s[n]
    BY SumIsLast
  <1> QED BY <1>1

\* One number more.
LEMMA SumGrows ==
  ASSUME NEW n \in Nat, NEW f \in [1..n -> Nat], NEW g \in [1..n + 1 -> Nat],
         \A i \in 1..n : g[i] = f[i]
  PROVE  SumOf(g) = SumOf(f) + g[n + 1]
  <1>1. PICK s \in [0..n -> Nat] : SumsOf(s, f, n) /\ SumOf(f) = s[n]
    BY SumIsLast
  <1>2. n + 1 \in Nat
    OBVIOUS
  <1>3. PICK t \in [0..n + 1 -> Nat] : SumsOf(t, g, n + 1) /\ SumOf(g) = t[n + 1]
    BY <1>2, SumIsLast
  <1>4. s[n] = t[n]
    <2> DEFINE m == n + 1
    <2>1. m \in Nat /\ n <= n /\ n <= m /\ SameUpTo(f, g, n) /\ SumsOf(t, g, m)
      BY <1>3 DEF SameUpTo
    <2> HIDE DEF m
    <2> QED BY <1>1, <2>1, SumsAgree
  <1>5. t[n + 1] = t[n] + g[n + 1]
    BY <1>3 DEF SumsOf
  <1> QED BY <1>1, <1>3, <1>4, <1>5

\* Nothing sums to 0.
LEMMA SumOfNone == SumOf(<<>>) = 0
  <1>1. <<>> \in [1..0 -> Nat] /\ 0 \in Nat
    OBVIOUS
  <1>2. PICK s \in [0..0 -> Nat] : SumsOf(s, <<>>, 0) /\ SumOf(<<>>) = s[0]
    BY <1>1, SumIsLast
  <1> QED BY <1>2 DEF SumsOf

-----------------------------------------------------------------------------
Busy == {"image", "metadata", "register", "directs"}

Size(f) == Len(Streams[f.stream].records)

Stored(image, written) ==
  \E i \in DOMAIN written : written[i].path = image.path /\ written[i].content = image.content

\* How far a call is, and that what it holds and reports was written.
Ready(f, depth, written) ==
  /\ f.stream \in Names /\ f.id \in 0..Ids - 1 /\ f.depth \in 0..depth
  /\ f.phase \in Busy \cup {"enter", "children"}
  /\ f.phase # "enter" => Tabled(f.stream)
  /\ f.phase = "enter" => Len(f.report) = 0
  /\ f.phase = "image" => Len(f.report) <= Size(f)
  /\ f.phase \in {"metadata", "register"} => Len(f.report) < Size(f)
  /\ f.phase \in {"directs", "children"} => Len(f.report) = Size(f)
  /\ f.held # None => f.held.size \in Nat /\ Stored(f.held, written)
  /\ \A i \in DOMAIN f.report : f.report[i].image # None => f.report[i].image.size \in Nat

\* The calls below the running one wait for a child, one level deeper each.
Levels ==
  \A n \in DOMAIN stack :
    /\ Ready(stack[n], limits.depth, artifacts)
    /\ stack[n].depth = n - 1
    /\ n < Len(stack) => stack[n].phase = "children"

Booked ==
  /\ \A id \in DOMAIN registry :
       /\ id \in 0..Ids - 1 /\ registry[id].size \in Nat /\ Stored(registry[id], artifacts)
  /\ \A k \in DOMAIN streams :
       /\ streams[k].depth \in 0..limits.depth
       /\ IsSeq(streams[k].records) /\ Len(streams[k].records) \in Nat
       /\ \A i \in DOMAIN streams[k].records :
            streams[k].records[i].image # None => streams[k].records[i].image.size \in Nat

Reads == SumOf([k \in DOMAIN streams |-> Len(streams[k].records)])

\* The records of the stream being read are counted before it is reported.
Counted ==
  /\ counted \in 0..limits.entries
  /\ Reads + (IF stack # <<>> /\ Top.phase \in Busy THEN Size(Top) ELSE 0) <= counted

Charged ==
  /\ used \in 0..limits.total
  /\ step \in {"streams", "done"} => elf.size + Paid <= used
  /\ \A i \in DOMAIN artifacts :
       artifacts[i].size \in Nat /\ (IsPaid(artifacts[i]) => artifacts[i].size <= limits.entry)

Begun ==
  /\ elf \in Elfs /\ limits \in Ceilings
  /\ step \in {"start", "stage1", "streams", "done", "failed"}
  /\ step \in {"start", "stage1"} => stack = <<>> /\ artifacts = <<>>
  /\ seen \subseteq (0..Ids - 1) \X Names
  /\ index = IF step = "done"
             THEN [registry |-> registry, streams |-> streams, artifacts |-> artifacts] ELSE None
  /\ answer = NoAnswer => Held
  /\ module # None => module \subseteq {registry[id].content : id \in DOMAIN registry}

-----------------------------------------------------------------------------
\* What the streams say: ids, sizes and children, from the assumption on them.
LEMMA SizesAreNat ==
  /\ Ids \in Nat \ {0} /\ Boot \in 0..Ids - 1
  /\ \A s : Tabled(s) => \A i \in 1..Len(Streams[s].records) :
       LET r == Streams[s].records[i] IN
       r.id \in 0..Ids - 1 /\ r.size \in Nat /\ r.metasize \in Nat /\ r.child \in Names
  /\ \A s : Tabled(s) => Len(Streams[s].records) \in Nat
  <1>1. Ids \in Nat \ {0} /\ Boot \in 0..Ids - 1
    BY ExtractAssumption
  <1>2. ASSUME NEW s, Tabled(s)
        PROVE  Len(Streams[s].records) \in Nat
    BY <1>2 DEF Tabled
  <1>3. ASSUME NEW s, Tabled(s), NEW i \in 1..Len(Streams[s].records)
        PROVE  LET r == Streams[s].records[i] IN
               r.id \in 0..Ids - 1 /\ r.size \in Nat /\ r.metasize \in Nat /\ r.child \in Names
    <2>1. s \in DOMAIN Streams
      BY <1>3 DEF Tabled
    <2>2. Streams[s].records[i].child \in Names
      BY <2>1 DEF Names
    <2> QED BY <2>1, <2>2, ExtractAssumption
  <1> QED BY <1>1, <1>2, <1>3

\* The ceilings of an input are numbers, and so is its decoded size.
LEMMA CeilingsAreNat ==
  ASSUME limits \in Ceilings, elf \in Elfs
  PROVE  limits.entry \in Nat /\ limits.total \in Nat /\ limits.entries \in Nat /\ limits.depth \in Nat
         /\ elf.size \in Nat
  BY ExtractAssumption

\* An interpreter is one of the ids.
LEMMA InterpretersAreIds ==
  ASSUME NEW id \in Nat
  PROVE  Interpreter(id) \in 0..Ids - 1
  BY ExtractAssumption DEF Interpreter

\* A call stays ready when more is written.
LEMMA ReadyStays ==
  ASSUME NEW f, NEW depth, NEW before, NEW after, Ready(f, depth, before), Extends(before, after)
  PROVE  Ready(f, depth, after)
  BY DEF Ready, Stored, Extends

\* The running call replaced by one as deep.
LEMMA LevelsTop ==
  ASSUME IsSeq(stack), Levels, stack # <<>>, NEW g, ToTop(g), g.depth = Top.depth,
         limits' = limits, Extends(artifacts, artifacts'), Ready(g, limits.depth, artifacts')
  PROVE  Levels' /\ Top' = g /\ stack' # <<>>
  <1>1. /\ IsSeq(stack') /\ Len(stack') = Len(stack) /\ DOMAIN stack' = 1..Len(stack)
        /\ \A i \in 1..Len(stack) - 1 : stack'[i] = stack[i]
        /\ stack'[Len(stack)] = g
        /\ DOMAIN stack = 1..Len(stack) /\ Len(stack) \in Nat \ {0} /\ Top = stack[Len(stack)]
    BY ReplaceFacts, FrontFacts DEF Top, ToTop
  <1>2. Top' = g /\ stack' # <<>>
    BY <1>1, FrontFacts DEF Top, Last
  <1>3. ASSUME NEW n \in 1..Len(stack)
        PROVE  /\ Ready(stack'[n], limits.depth, artifacts')
               /\ stack'[n].depth = n - 1
               /\ n < Len(stack) => stack'[n].phase = "children"
    <2>1. CASE n = Len(stack)
      BY <1>1, <2>1 DEF Levels
    <2>2. CASE n # Len(stack)
      <3>1. n \in 1..Len(stack) - 1
        <4>1. Len(stack) \in Nat
          BY <1>1
        <4> QED BY <2>2, <4>1
      <3>2. stack'[n] = stack[n] /\ n \in DOMAIN stack
        BY <1>1, <3>1
      <3>3. Ready(stack[n], limits.depth, artifacts')
        BY <3>2, ReadyStays DEF Levels
      <3>4. n < Len(stack)
        BY <1>1, <3>1
      <3> QED BY <3>2, <3>3, <3>4 DEF Levels
    <2> QED BY <2>1, <2>2
  <1> QED BY <1>1, <1>2, <1>3 DEF Levels

\* A call returns to its caller, which waits for it.
LEMMA LevelsPop ==
  ASSUME IsSeq(stack), Levels, stack # <<>>, Return, limits' = limits, artifacts' = artifacts
  PROVE  Levels' /\ (stack' # <<>> => Top'.phase = "children")
  <1>1. /\ IsSeq(stack') /\ Len(stack') = Len(stack) - 1 /\ DOMAIN stack' = 1..Len(stack) - 1
        /\ \A i \in 1..Len(stack) - 1 : stack'[i] = stack[i]
        /\ DOMAIN stack = 1..Len(stack) /\ Len(stack) \in Nat \ {0}
    BY FrontFacts DEF Return
  <1>2. Levels'
    BY <1>1 DEF Levels
  <1>3. ASSUME stack' # <<>>
        PROVE  Top'.phase = "children"
    <2>1. Top' = stack'[Len(stack')] /\ Len(stack') \in Nat \ {0}
      BY <1>1, <1>3, FrontFacts DEF Top
    <2>2. Len(stack') \in DOMAIN stack /\ Len(stack') < Len(stack) /\ Top' = stack[Len(stack')]
      BY <1>1, <2>1
    <2> QED BY <2>2 DEF Levels
  <1> QED BY <1>2, <1>3

\* A child is called, one level below.
LEMMA LevelsPush ==
  ASSUME IsSeq(stack), Levels, stack # <<>>, NEW g, NEW h, NEW t, t = Append(Front(stack), g),
         stack' = Append(t, h), g.depth = Top.depth, g.phase = "children", h.depth = Top.depth + 1,
         limits' = limits, artifacts' = artifacts,
         Ready(g, limits.depth, artifacts), Ready(h, limits.depth, artifacts)
  PROVE  Levels' /\ Top' = h /\ stack' # <<>>
  <1>1. /\ IsSeq(t) /\ Len(t) = Len(stack) /\ DOMAIN t = 1..Len(stack)
        /\ \A i \in 1..Len(stack) - 1 : t[i] = stack[i]
        /\ t[Len(stack)] = g
        /\ DOMAIN stack = 1..Len(stack) /\ Len(stack) \in Nat \ {0} /\ Top = stack[Len(stack)]
    BY ReplaceFacts, FrontFacts DEF Top
  <1>2. /\ IsSeq(stack') /\ Len(stack') = Len(stack) + 1 /\ DOMAIN stack' = 1..Len(stack) + 1
        /\ \A i \in 1..Len(stack) : stack'[i] = t[i]
        /\ stack'[Len(stack) + 1] = h
    BY <1>1, AppendFacts
  <1>3. Top' = h /\ stack' # <<>>
    BY <1>1, <1>2, FrontFacts DEF Top, Last
  <1>4. ASSUME NEW n \in 1..Len(stack) + 1
        PROVE  /\ Ready(stack'[n], limits.depth, artifacts)
               /\ stack'[n].depth = n - 1
               /\ n < Len(stack) + 1 => stack'[n].phase = "children"
    <2>1. CASE n = Len(stack) + 1
      BY <1>1, <1>2, <2>1 DEF Levels
    <2>2. CASE n = Len(stack)
      BY <1>1, <1>2, <2>2 DEF Levels
    <2>3. CASE n \in 1..Len(stack) - 1
      BY <1>1, <1>2, <2>3 DEF Levels
    <2> QED BY <1>1, <2>1, <2>2, <2>3
  <1> QED BY <1>2, <1>3, <1>4 DEF Levels

\* The running call is as ready as any.
LEMMA TopIsReady ==
  ASSUME IsSeq(stack), Levels, stack # <<>>
  PROVE  Ready(Top, limits.depth, artifacts)
  <1>1. Len(stack) \in DOMAIN stack /\ Top = stack[Len(stack)]
    BY FrontFacts DEF Top
  <1> QED BY <1>1 DEF Levels

-----------------------------------------------------------------------------
\* Another artifact.
LEMMA PaidGrows ==
  ASSUME IsSeq(artifacts), \A i \in DOMAIN artifacts : artifacts[i].size \in Nat,
         NEW a, a.size \in Nat, artifacts' = Append(artifacts, a)
  PROVE  Paid \in Nat /\ Paid' = Paid + (IF IsPaid(a) THEN a.size ELSE 0)
  <1> DEFINE f == [i \in DOMAIN artifacts |-> IF IsPaid(artifacts[i]) THEN artifacts[i].size ELSE 0]
             g == [i \in DOMAIN artifacts' |-> IF IsPaid(artifacts'[i]) THEN artifacts'[i].size ELSE 0]
             n == Len(artifacts)
  <1>1. /\ n \in Nat /\ DOMAIN artifacts = 1..n /\ DOMAIN artifacts' = 1..n + 1
        /\ \A i \in 1..n : artifacts'[i] = artifacts[i]
        /\ artifacts'[n + 1] = a
    BY AppendFacts
  <1> HIDE DEF n
  <1>2. f \in [1..n -> Nat]
    BY <1>1
  <1>3. g \in [1..n + 1 -> Nat]
    <2>1. \A i \in 1..n + 1 : artifacts'[i].size \in Nat
      BY <1>1
    <2> QED BY <1>1, <2>1
  <1>4. \A i \in 1..n : g[i] = f[i]
    BY <1>1
  <1>5. g[n + 1] = IF IsPaid(a) THEN a.size ELSE 0
    BY <1>1
  <1>6. Paid = SumOf(f) /\ Paid' = SumOf(g)
    BY DEF Paid, IsPaid
  <1> HIDE DEF f, g
  <1> QED BY <1>1, <1>2, <1>3, <1>4, <1>5, <1>6, SumGrows, SumIsNat

\* What was paid for is a number.
LEMMA PaidIsNat ==
  ASSUME IsSeq(artifacts), \A i \in DOMAIN artifacts : artifacts[i].size \in Nat
  PROVE  Paid \in Nat
  <1> DEFINE f == [i \in DOMAIN artifacts |-> IF IsPaid(artifacts[i]) THEN artifacts[i].size ELSE 0]
  <1>1. Len(artifacts) \in Nat /\ DOMAIN artifacts = 1..Len(artifacts)
    BY AppendFacts
  <1>2. f \in [1..Len(artifacts) -> Nat]
    BY <1>1
  <1> QED BY <1>1, <1>2, SumIsNat DEF Paid

\* Another stream is reported.
LEMMA ReadsGrow ==
  ASSUME IsSeq(streams), \A k \in DOMAIN streams : Len(streams[k].records) \in Nat,
         NEW s, Len(s.records) \in Nat, streams' = Append(streams, s)
  PROVE  Reads \in Nat /\ Reads' = Reads + Len(s.records)
  <1> DEFINE f == [k \in DOMAIN streams |-> Len(streams[k].records)]
             g == [k \in DOMAIN streams' |-> Len(streams'[k].records)]
             n == Len(streams)
  <1>1. /\ n \in Nat /\ DOMAIN streams = 1..n /\ DOMAIN streams' = 1..n + 1
        /\ \A i \in 1..n : streams'[i] = streams[i]
        /\ streams'[n + 1] = s
    BY AppendFacts
  <1> HIDE DEF n
  <1>2. f \in [1..n -> Nat]
    BY <1>1
  <1>3. g \in [1..n + 1 -> Nat]
    <2>1. \A i \in 1..n + 1 : Len(streams'[i].records) \in Nat
      BY <1>1
    <2> QED BY <1>1, <2>1
  <1>4. \A i \in 1..n : g[i] = f[i]
    BY <1>1
  <1>5. g[n + 1] = Len(s.records)
    BY <1>1
  <1>6. Reads = SumOf(f) /\ Reads' = SumOf(g)
    BY DEF Reads
  <1> HIDE DEF f, g
  <1> QED BY <1>1, <1>2, <1>3, <1>4, <1>5, <1>6, SumGrows, SumIsNat

\* The records of the reported streams are a number.
LEMMA ReadsIsNat ==
  ASSUME IsSeq(streams), \A k \in DOMAIN streams : Len(streams[k].records) \in Nat
  PROVE  Reads \in Nat
  <1> DEFINE f == [k \in DOMAIN streams |-> Len(streams[k].records)]
  <1>1. Len(streams) \in Nat /\ DOMAIN streams = 1..Len(streams)
    BY AppendFacts
  <1>2. f \in [1..Len(streams) -> Nat]
    BY <1>1
  <1> QED BY <1>1, <1>2, SumIsNat DEF Reads

-----------------------------------------------------------------------------
Tally == Levels /\ Booked /\ Counted /\ Charged

\* What the proofs of the steps take from the other invariants.
Ground == Nested /\ Workspace /\ Begun

\* What the other invariants say, in one place.
LEMMA GroundFacts ==
  ASSUME Ground
  PROVE  /\ IsSeq(stack) /\ IsSeq(streams) /\ IsSeq(artifacts)
         /\ limits.entry \in Nat /\ limits.total \in Nat /\ limits.entries \in Nat
         /\ limits.depth \in Nat /\ elf.size \in Nat /\ elf \in Elfs
         /\ stack # <<>> => Shape(Top)
  <1>1. IsSeq(stack) /\ IsSeq(streams) /\ IsSeq(artifacts)
    BY DEF Ground, Nested, Stacked, Workspace
  <1>2. stack # <<>> => Shape(Top)
    BY TopIsSound DEF Ground, Nested, Sound
  <1> QED BY <1>1, <1>2, CeilingsAreNat DEF Ground, Begun

\* What is registered and reported stays booked when more is written.
LEMMA BookedStays ==
  ASSUME Booked, UNCHANGED <<registry, streams, limits>>, Extends(artifacts, artifacts')
  PROVE  Booked'
  BY DEF Booked, Stored, Extends

\* A step among the records of the stream being read counts nothing.
LEMMA CountedTop ==
  ASSUME Counted, stack # <<>>, stack' # <<>>, Top'.stream = Top.stream,
         Top.phase \in Busy, Top'.phase \in Busy, UNCHANGED <<streams, counted, limits>>
  PROVE  Counted'
  BY DEF Counted, Reads, Size

\* Between streams only the reported ones are counted.
LEMMA CountedIdle ==
  ASSUME Counted, Reads \in Nat, stack # <<>> => Top.phase \notin Busy,
         stack' # <<>> => Top'.phase \notin Busy, UNCHANGED <<streams, counted, limits>>
  PROVE  Counted'
  <1>1. Reads <= counted /\ Reads' = Reads
    BY DEF Counted, Reads
  <1> QED BY <1>1 DEF Counted

\* A step that writes and charges nothing.
LEMMA ChargedStays ==
  ASSUME Charged, UNCHANGED <<used, artifacts, limits, elf>>,
         step' \in {"streams", "done"} => step \in {"streams", "done"}
  PROVE  Charged'
  BY DEF Charged, Paid, IsPaid

\* A step that calls, reports, writes and charges nothing.
LEMMA TallyStill ==
  ASSUME Tally, UNCHANGED <<stack, registry, streams, artifacts, used, counted, limits, elf>>,
         step' \in {"streams", "done"} => step \in {"streams", "done"}
  PROVE  Tally'
  <1>1. Levels'
    BY DEF Tally, Levels
  <1>2. Booked'
    BY BookedStays DEF Tally, Extends
  <1>3. Counted'
    BY DEF Tally, Counted, Reads, Size, Top
  <1> QED BY <1>1, <1>2, <1>3, ChargedStays DEF Tally

\* A new call is ready for its stream.
LEMMA FreshReady ==
  ASSUME NEW s \in Names, NEW id \in 0..Ids - 1, NEW d \in Nat, NEW depth \in 0..d,
         NEW parent, NEW saved, NEW written
  PROVE  LET f == Call(s, id, depth, parent, saved) IN
         Ready(f, d, written) /\ f.depth = depth /\ f.phase = "enter"
  <1> DEFINE f == Call(s, id, depth, parent, saved)
  <1>1. /\ f.stream = s /\ f.id = id /\ f.depth = depth /\ f.phase = "enter" /\ f.report = <<>>
        /\ f.held = None
    BY DEF Call
  <1>2. Len(<<>>) = 0 /\ DOMAIN <<>> = {}
    OBVIOUS
  <1> HIDE DEF f
  <1>3. Ready(f, d, written)
    BY <1>1, <1>2 DEF Ready, Busy
  <1> QED BY <1>1, <1>3 DEF f

\* The bootstrap call starts with the plaintext of stage 1 charged (140-158).
LEMMA ConfigureTally == Ground /\ Tally /\ Configure => Tally'
  <1> SUFFICES ASSUME Ground, Tally, Configure
               PROVE  Tally'
    OBVIOUS
  <1>1. step = "stage1" /\ artifacts = <<>> /\ stack = <<>>
    BY DEF Configure, Ground, Begun
  <1>2. CASE Fail /\ UNCHANGED <<config, used, stack>>
    BY <1>2, TallyStill DEF Configure, output, Fail
  <1>3. CASE /\ Fits(elf.size) /\ step' = "streams" /\ used' = used + elf.size
             /\ stack' = <<Call(elf.stream, Boot, 0, None, None)>>
    <2> DEFINE f == Call(elf.stream, Boot, 0, None, None)
    <2>1. Ready(f, limits.depth, artifacts) /\ f.depth = 0 /\ f.phase = "enter"
      <3>1. elf.stream \in Names /\ Boot \in 0..Ids - 1 /\ 0 \in 0..limits.depth
        BY GroundFacts, SizesAreNat DEF Names
      <3>2. limits.depth \in Nat
        BY GroundFacts
      <3> QED BY <3>1, <3>2, FreshReady
    <2> HIDE DEF f
    <2>2. UNCHANGED <<registry, streams, artifacts, limits, elf, counted>>
      BY DEF Configure, output
    <2>3. Len(stack') = 1 /\ DOMAIN stack' = 1..1 /\ stack'[1] = f /\ stack' # <<>> /\ Top' = f
      <3>1. stack' = <<f>>
        BY <1>3 DEF f
      <3>2. Len(<<f>>) = 1 /\ DOMAIN <<f>> = 1..1 /\ (<<f>>)[1] = f /\ <<f>> # <<>>
        OBVIOUS
      <3> QED BY <3>1, <3>2 DEF Top, Last
    <2>4. Levels'
      <3>1. \A n \in 1..1 : n = 1 /\ ~ n < 1 /\ n - 1 = 0
        OBVIOUS
      <3> QED BY <2>1, <2>2, <2>3, <3>1 DEF Levels
    <2>5. Booked'
      BY <2>2, BookedStays DEF Tally, Extends
    <2>6. Counted'
      <3>1. Reads \in Nat
        BY GroundFacts, ReadsIsNat DEF Tally, Booked
      <3>2. stack' # <<>> => Top'.phase \notin Busy
        BY <2>1, <2>3 DEF Busy
      <3>3. Counted
        BY DEF Tally
      <3> QED BY <1>1, <2>2, <3>1, <3>2, <3>3, CountedIdle
    <2>7. Charged'
      <3>1. Paid' = 0
        <4>1. [i \in DOMAIN <<>> |-> IF IsPaid(artifacts[i]) THEN artifacts[i].size ELSE 0] = <<>>
          OBVIOUS
        <4>2. Paid = 0
          BY <1>1, <4>1, SumOfNone DEF Paid
        <4> QED BY <2>2, <4>2 DEF Paid, IsPaid
      <3>2. used \in Nat /\ elf.size \in Nat /\ limits.total \in Nat
        BY GroundFacts DEF Tally, Charged
      <3>3. used' \in 0..limits.total /\ elf.size + 0 <= used'
        BY <1>3, <3>2 DEF Fits
      <3>4. \A i \in DOMAIN artifacts' :
              artifacts'[i].size \in Nat /\ (IsPaid(artifacts'[i]) => artifacts'[i].size <= limits'.entry)
        BY <2>2 DEF Tally, Charged
      <3> QED BY <2>2, <3>1, <3>3, <3>4 DEF Charged, IsPaid
    <2> QED BY <2>4, <2>5, <2>6, <2>7 DEF Tally
  <1> QED BY <1>2, <1>3 DEF Configure

\* The records of a stream are counted before any is decoded, or the call fails.
LEMMA EnterTally == Ground /\ Tally /\ Enter => Tally'
  <1> SUFFICES ASSUME Ground, Tally, Enter
               PROVE  Tally'
    OBVIOUS
  <1>1. /\ UNCHANGED <<registry, streams, artifacts, limits, elf, used>> /\ stack # <<>>
        /\ Top.phase = "enter" /\ step = "streams"
        /\ Levels /\ Booked /\ Counted /\ Charged
    BY DEF Enter, InPhase, output, Tally
  <1>2. IsSeq(stack) /\ Ready(Top, limits.depth, artifacts) /\ Shape(Top)
    BY <1>1, TopIsReady, GroundFacts
  <1>3. Reads \in Nat /\ Top.phase \notin Busy
    BY <1>1, GroundFacts, ReadsIsNat DEF Booked, Busy
  <1>4. Booked' /\ Charged'
    BY <1>1, BookedStays, ChargedStays DEF Extends
  <1>5. CASE Fail /\ UNCHANGED <<stack, counted>>
    BY <1>1, <1>5, TallyStill DEF Fail
  <1>6. CASE Return /\ UNCHANGED <<step, counted>>
    <2>1. Levels' /\ (stack' # <<>> => Top'.phase = "children")
      BY <1>1, <1>2, <1>6, LevelsPop
    <2>2. Counted'
      BY <1>1, <1>3, <1>6, <2>1, CountedIdle DEF Busy
    <2> QED BY <1>4, <2>1, <2>2 DEF Tally
  <1>7. CASE /\ Tabled(Top.stream) /\ counted + Len(Records) <= limits.entries
             /\ counted' = counted + Len(Records)
             /\ ToTop([Top EXCEPT !.phase = "image"])
    <2> DEFINE g == [Top EXCEPT !.phase = "image"]
    <2>1. /\ g.phase = "image" /\ g.stream = Top.stream /\ g.id = Top.id /\ g.depth = Top.depth
          /\ g.report = Top.report /\ g.held = Top.held
      BY <1>2 DEF Shape, IsFrame, Fields
    <2> HIDE DEF g
    <2>2. Len(Records) \in Nat /\ Len(Records) = Size(Top)
      BY <1>7, SizesAreNat DEF Records, Size
    <2>3. Ready(g, limits.depth, artifacts)
      <3>1. Len(g.report) <= Size(g)
        BY <1>1, <1>2, <2>1, <2>2 DEF Ready, Size
      <3> QED BY <1>2, <1>7, <2>1, <3>1 DEF Ready, Busy
    <2>4. Levels' /\ Top' = g /\ stack' # <<>>
      BY <1>1, <1>2, <1>7, <2>1, <2>3, LevelsTop DEF Extends, g
    <2>5. Counted'
      <3>1. counted \in Nat /\ limits.entries \in Nat /\ Reads <= counted /\ Reads' = Reads
        BY <1>1, <1>3, GroundFacts DEF Counted, Reads
      <3>2. Size(Top') = Size(Top)
        BY <2>1, <2>4 DEF Size
      <3>3. counted' \in 0..limits'.entries /\ Reads' + Size(Top') <= counted'
        BY <1>1, <1>3, <1>7, <2>2, <3>1, <3>2
      <3> QED BY <2>1, <2>4, <3>3 DEF Counted, Busy, Size
    <2> QED BY <1>4, <2>4, <2>5 DEF Tally
  <1> QED BY <1>5, <1>6, <1>7 DEF Enter

-----------------------------------------------------------------------------
\* A step of the running call, which stays among its records.
LEMMA BusyStep ==
  ASSUME Ground, Tally, stack # <<>>, step = "streams", step' = step,
         NEW g, ToTop(g), g.stream = Top.stream, g.depth = Top.depth,
         Top.phase \in Busy, g.phase \in Busy,
         UNCHANGED <<elf, limits, counted, streams>>, Extends(artifacts, artifacts'),
         Ready(g, limits.depth, artifacts'), Booked', Charged'
  PROVE  Tally'
  <1>1. Levels' /\ Top' = g /\ stack' # <<>>
    BY GroundFacts, LevelsTop DEF Tally
  <1>2. Counted'
    BY <1>1, CountedTop DEF Tally
  <1> QED BY <1>1, <1>2 DEF Tally

\* An artifact that is written comes after those that were.
LEMMA ArtifactsGrow ==
  ASSUME IsSeq(artifacts), NEW a, WriteArtifact(a)
  PROVE  /\ Extends(artifacts, artifacts') /\ Stored(a, artifacts')
         /\ DOMAIN artifacts' = DOMAIN artifacts \cup {Len(artifacts) + 1}
         /\ artifacts'[Len(artifacts) + 1] = a
  <1>1. /\ DOMAIN artifacts' = 1..Len(artifacts) + 1 /\ Len(artifacts) \in Nat
        /\ DOMAIN artifacts = 1..Len(artifacts)
        /\ \A i \in 1..Len(artifacts) : artifacts'[i] = artifacts[i]
        /\ artifacts'[Len(artifacts) + 1] = a
    BY AppendFacts DEF WriteArtifact
  <1> QED BY <1>1 DEF Extends, Stored

\* An artifact is paid for before it is written, or is part of what was.
LEMMA ChargedGrows ==
  ASSUME Ground, Charged, step = "streams", step' \in {"streams", "failed"},
         NEW a, a.size \in Nat, WriteArtifact(a),
         UNCHANGED <<limits, elf>>,
         IF IsPaid(a) THEN Fits(a.size) /\ used' = used + a.size ELSE used' = used
  PROVE  Charged'
  <1>1. /\ IsSeq(artifacts) /\ limits.total \in Nat /\ limits.entry \in Nat /\ elf.size \in Nat
        /\ used \in 0..limits.total /\ elf.size + Paid <= used
        /\ \A i \in DOMAIN artifacts : artifacts[i].size \in Nat
    BY GroundFacts DEF Charged
  <1>2. Paid \in Nat /\ Paid' = Paid + (IF IsPaid(a) THEN a.size ELSE 0)
    BY <1>1, PaidGrows DEF WriteArtifact
  <1>3. used' \in 0..limits.total /\ elf.size + Paid' <= used'
    <2>1. CASE IsPaid(a)
      BY <1>1, <1>2, <2>1 DEF Fits
    <2>2. CASE ~ IsPaid(a)
      BY <1>1, <1>2, <2>2
    <2> QED BY <2>1, <2>2
  <1>4. \A i \in DOMAIN artifacts' :
          artifacts'[i].size \in Nat /\ (IsPaid(artifacts'[i]) => artifacts'[i].size <= limits.entry)
    <2>1. IsPaid(a) => a.size <= limits.entry
      BY DEF Fits
    <2> QED BY <1>1, <2>1, ArtifactsGrow DEF Charged, Extends
  <1> QED BY <1>3, <1>4 DEF Charged, IsPaid

\* A part of the running record is charged, and written when it fits.
LEMMA PartTally ==
  ASSUME Ground, Tally, stack # <<>>, step = "streams",
         NEW part, NEW size \in Nat, NEW content, NEW suffix, NEW next,
         suffix # "direct.bin", Top.phase = part, Len(Top.report) < Size(Top),
         \/ part = "image" /\ next = "metadata"
         \/ part = "metadata" /\ next = "register",
         Part(part, size, content, suffix, next)
  PROVE  Tally'
  <1> DEFINE a == Artifact(Rec, content, size, suffix)
             held == IF part = "image" THEN a ELSE Top.held
  <1>1. UNCHANGED <<elf, limits, counted, registry, streams>>
    BY DEF Part
  <1>2. /\ IsSeq(stack) /\ IsSeq(artifacts) /\ Ready(Top, limits.depth, artifacts)
        /\ IsFrame(Top) /\ Booked /\ Charged
    BY TopIsReady, GroundFacts DEF Tally, Shape
  <1>3. a.path = FileName(Rec, content, suffix) /\ a.content = content /\ a.size = size /\ a.suffix = suffix
    BY DEF Artifact
  <1> HIDE DEF a
  <1>4. \/ Fail /\ UNCHANGED <<stack, used, artifacts, files>>
        \/ ToTop([Top EXCEPT !.phase = next]) /\ UNCHANGED <<step, used, artifacts, files>>
        \/ /\ Payable(size, part) /\ used' = IF Fits(size) THEN used + size ELSE used
           /\ WriteArtifact(a) /\ UNCHANGED step
           /\ ToTop([Top EXCEPT !.phase = next, !.held = held, !.meta = part = "metadata"])
    BY DEF Part, a
  <1>5. CASE Fail /\ UNCHANGED <<stack, used, artifacts, files>>
    BY <1>1, <1>5, TallyStill DEF Fail
  <1>6. CASE ToTop([Top EXCEPT !.phase = next]) /\ UNCHANGED <<step, used, artifacts, files>>
    <2> DEFINE g == [Top EXCEPT !.phase = next]
    <2>1. /\ g.phase = next /\ g.stream = Top.stream /\ g.id = Top.id /\ g.depth = Top.depth
          /\ g.report = Top.report /\ g.held = Top.held
      BY <1>2 DEF IsFrame, Fields
    <2>2. ToTop(g)
      BY <1>6
    <2> HIDE DEF g
    <2>3. Ready(g, limits.depth, artifacts)
      BY <1>2, <2>1 DEF Ready, Size, Busy
    <2>4. Booked' /\ Charged' /\ Extends(artifacts, artifacts')
      BY <1>1, <1>2, <1>6, BookedStays, ChargedStays DEF Extends
    <2>5. Top.phase \in Busy /\ g.phase \in Busy
      BY <2>1 DEF Busy
    <2> QED BY <1>1, <1>6, <2>1, <2>2, <2>3, <2>4, <2>5, BusyStep
  <1>7. CASE /\ Payable(size, part) /\ used' = IF Fits(size) THEN used + size ELSE used
             /\ WriteArtifact(a) /\ UNCHANGED step
             /\ ToTop([Top EXCEPT !.phase = next, !.held = held, !.meta = part = "metadata"])
    <2> HIDE DEF held
    <2> DEFINE g == [Top EXCEPT !.phase = next, !.held = held, !.meta = part = "metadata"]
    <2>1. /\ g.phase = next /\ g.stream = Top.stream /\ g.id = Top.id /\ g.depth = Top.depth
          /\ g.report = Top.report /\ g.held = held
      BY <1>2 DEF IsFrame, Fields
    <2>2. ToTop(g)
      BY <1>7
    <2> HIDE DEF g
    <2>3. Extends(artifacts, artifacts') /\ Stored(a, artifacts')
      BY <1>2, <1>7, ArtifactsGrow
    <2>4. Ready(Top, limits.depth, artifacts')
      BY <1>2, <2>3, ReadyStays
    <2>5. held # None => held.size \in Nat /\ Stored(held, artifacts')
      BY <1>3, <2>3, <2>4 DEF held, Ready
    <2>6. Ready(g, limits.depth, artifacts')
      BY <2>1, <2>4, <2>5 DEF Ready, Size, Busy
    <2>7. Charged'
      <3>1. IsPaid(a) /\ Fits(size)
        BY <1>3, <1>7 DEF IsPaid, Payable
      <3> QED BY <1>1, <1>2, <1>3, <1>7, <3>1, ChargedGrows
    <2>8. Booked'
      BY <1>1, <1>2, <2>3, BookedStays
    <2>9. Top.phase \in Busy /\ g.phase \in Busy
      BY <2>1 DEF Busy
    <2> QED BY <1>1, <1>7, <2>1, <2>2, <2>3, <2>6, <2>7, <2>8, <2>9, BusyStep
  <1> QED BY <1>4, <1>5, <1>6, <1>7

\* The record whose turn it is.
LEMMA RecIsSized ==
  ASSUME Ground, Levels, stack # <<>>, Top.phase # "enter", Top.at <= Len(Records)
  PROVE  /\ Rec.id \in 0..Ids - 1 /\ Rec.size \in Nat /\ Rec.metasize \in Nat
         /\ Len(Top.report) < Size(Top)
  <1>1. /\ Tabled(Top.stream) /\ Top.at = Len(Top.report) + 1 /\ IsSeq(Top.report)
    BY TopIsReady, GroundFacts DEF Ready, Shape
  <1>2. Len(Records) \in Nat /\ Len(Top.report) \in Nat
    BY <1>1, SizesAreNat, AppendFacts DEF Records
  <1>3. Top.at \in 1..Len(Records)
    BY <1>1, <1>2
  <1>4. Rec.id \in 0..Ids - 1 /\ Rec.size \in Nat /\ Rec.metasize \in Nat
    BY <1>1, <1>3, SizesAreNat DEF Rec, Records
  <1> QED BY <1>1, <1>2, <1>3, <1>4 DEF Size, Records

\* An image or a method table is decoded.
LEMMA DecodeTally == Ground /\ Tally /\ (DecodeImage \/ DecodeMetadata) => Tally'
  <1> SUFFICES ASSUME Ground, Tally, DecodeImage \/ DecodeMetadata
               PROVE  Tally'
    OBVIOUS
  <1>1. CASE DecodeImage
    <2>1. /\ stack # <<>> /\ step = "streams" /\ Top.phase = "image" /\ Top.at <= Len(Records)
          /\ Part("image", Rec.size, Rec.content, "module.bin", "metadata")
      BY <1>1 DEF DecodeImage, InPhase
    <2>2. Rec.size \in Nat /\ Len(Top.report) < Size(Top)
      BY <2>1, RecIsSized DEF Tally
    <2> QED BY <2>1, <2>2, PartTally
  <1>2. CASE DecodeMetadata
    <2>1. /\ stack # <<>> /\ step = "streams" /\ Top.phase = "metadata"
          /\ Part("metadata", Rec.metasize, Rec.metadata, "metadata.bin", "register")
      BY <1>2 DEF DecodeMetadata, InPhase
    <2>2. Top.at <= Len(Records)
      <3>1. Len(Top.report) < Size(Top) /\ Top.at = Len(Top.report) + 1 /\ IsSeq(Top.report)
            /\ Tabled(Top.stream)
        BY <2>1, TopIsReady, GroundFacts DEF Tally, Ready, Shape
      <3>2. Len(Records) \in Nat /\ Len(Top.report) \in Nat /\ Size(Top) = Len(Records)
        BY <3>1, SizesAreNat, AppendFacts DEF Records, Size
      <3> QED BY <3>1, <3>2
    <2>3. Rec.metasize \in Nat /\ Len(Top.report) < Size(Top)
      BY <2>1, <2>2, RecIsSized DEF Tally
    <2> QED BY <2>1, <2>3, PartTally
  <1> QED BY <1>1, <1>2

\* The held image is registered and its record reported.
LEMMA RegisterTally == Ground /\ Tally /\ Register => Tally'
  <1> SUFFICES ASSUME Ground, Tally, Register
               PROVE  Tally'
    OBVIOUS
  <1> DEFINE held == Top.held
             r == RecordReport(Rec, held)
             level == IF held = None THEN Top.level ELSE Top.level \cup {Rec.id}
             directs == IF Rec.direct /\ Rec.size # 0 THEN Append(Top.directs, Top.at) ELSE Top.directs
             report == Append(Top.report, r)
             g == [Top EXCEPT !.phase = "image", !.at = @ + 1, !.held = None, !.meta = FALSE,
                     !.level = level, !.directs = directs, !.report = report]
  <1>1. /\ UNCHANGED <<elf, limits, used, counted, streams, artifacts>> /\ stack # <<>>
        /\ step = "streams" /\ Top.phase = "register" /\ Booked /\ Charged /\ Levels
    BY DEF Register, InPhase, budget, Tally
  <1>2. /\ Ready(Top, limits.depth, artifacts) /\ IsFrame(Top) /\ IsSeq(Top.report)
        /\ Top.at = Len(Top.report) + 1
    BY <1>1, TopIsReady, GroundFacts DEF Shape
  <1>3. Rec.id \in 0..Ids - 1 /\ Len(Top.report) < Size(Top) /\ Len(Top.report) \in Nat
        /\ Size(Top) \in Nat
    <2>1. Len(Top.report) < Size(Top) /\ Tabled(Top.stream)
      BY <1>1, <1>2 DEF Ready
    <2>2. Len(Records) \in Nat /\ Len(Top.report) \in Nat /\ Size(Top) = Len(Records)
      BY <1>2, <2>1, SizesAreNat, AppendFacts DEF Records, Size
    <2>3. Top.at <= Len(Records)
      BY <1>2, <2>1, <2>2
    <2> QED BY <1>1, <2>1, <2>2, <2>3, RecIsSized
  <1>4. CASE Fail /\ UNCHANGED <<stack, registry>>
    BY <1>1, <1>4, TallyStill DEF Fail
  <1>5. CASE /\ registry' = IF held = None \/ Rec.id \in DOMAIN registry THEN registry
                            ELSE Put(registry, Rec.id, Module(Rec, held, Top.meta))
             /\ ToTop(g) /\ UNCHANGED step
    <2> HIDE DEF level, directs, report
    <2>1. /\ g.phase = "image" /\ g.stream = Top.stream /\ g.id = Top.id /\ g.depth = Top.depth
          /\ g.report = report /\ g.held = None
      BY <1>2 DEF IsFrame, Fields
    <2>2. ToTop(g)
      BY <1>5
    <2> HIDE DEF g
    <2>3. r.image = held
      BY DEF RecordReport
    <2> HIDE DEF r
    <2>4. /\ Len(report) = Len(Top.report) + 1 /\ DOMAIN report = 1..Len(Top.report) + 1
          /\ DOMAIN Top.report = 1..Len(Top.report)
          /\ \A i \in 1..Len(Top.report) : report[i] = Top.report[i]
          /\ report[Len(Top.report) + 1] = r
      BY <1>2, AppendFacts DEF report
    <2>5. held # None => held.size \in Nat /\ Stored(held, artifacts)
      BY <1>2 DEF Ready
    <2>6. \A i \in DOMAIN report : report[i].image # None => report[i].image.size \in Nat
      BY <1>2, <1>3, <2>3, <2>4, <2>5 DEF Ready
    <2>7. Ready(g, limits.depth, artifacts)
      <3>1. Len(report) <= Size(g)
        BY <1>3, <2>1, <2>4 DEF Size
      <3>2. Tabled(g.stream)
        BY <1>1, <1>2, <2>1 DEF Ready
      <3> QED BY <1>2, <2>1, <2>6, <3>1, <3>2 DEF Ready, Busy
    <2>8. Booked'
      <3>1. CASE registry' = registry
        BY <1>1, <3>1, BookedStays DEF Extends
      <3>2. CASE held # None /\ registry' = Put(registry, Rec.id, Module(Rec, held, Top.meta))
        <4> DEFINE m == Module(Rec, held, Top.meta)
        <4>1. m.size = held.size /\ m.path = held.path /\ m.content = held.content
          BY DEF Module
        <4> HIDE DEF m
        <4>2. m.size \in Nat /\ Stored(m, artifacts)
          BY <2>5, <3>2, <4>1 DEF Stored
        <4>3. DOMAIN registry' = DOMAIN registry \cup {Rec.id}
              /\ \A id \in DOMAIN registry' : registry'[id] = IF id = Rec.id THEN m ELSE registry[id]
          BY <3>2 DEF Put, m
        <4> QED BY <1>1, <1>3, <4>2, <4>3 DEF Booked
      <3> QED BY <1>5, <3>1, <3>2
    <2>9. Charged' /\ Extends(artifacts, artifacts')
      BY <1>1, <1>5, ChargedStays DEF Extends
    <2>10. Top.phase \in Busy /\ g.phase \in Busy
      BY <1>1, <2>1 DEF Busy
    <2> QED BY <1>1, <1>5, <2>1, <2>2, <2>7, <2>8, <2>9, <2>10, BusyStep
  <1> QED BY <1>4, <1>5 DEF Register

\* The last record was decoded: the direct ones come next.
LEMMA DecodedTally == Ground /\ Tally /\ Decoded => Tally'
  <1> SUFFICES ASSUME Ground, Tally, Decoded
               PROVE  Tally'
    OBVIOUS
  <1> DEFINE g == [Top EXCEPT !.phase = "directs"]
  <1>1. /\ UNCHANGED <<elf, limits, step, used, counted, registry, streams, artifacts>> /\ stack # <<>>
        /\ step = "streams" /\ Top.phase = "image" /\ Top.at > Len(Records) /\ ToTop(g)
        /\ Booked /\ Charged /\ Levels
    BY DEF Decoded, InPhase, budget, output, Tally
  <1>2. /\ Ready(Top, limits.depth, artifacts) /\ IsFrame(Top) /\ IsSeq(Top.report)
        /\ Top.at = Len(Top.report) + 1 /\ Tabled(Top.stream)
    BY <1>1, TopIsReady, GroundFacts DEF Shape, Ready
  <1>3. /\ g.phase = "directs" /\ g.stream = Top.stream /\ g.id = Top.id /\ g.depth = Top.depth
        /\ g.report = Top.report /\ g.held = Top.held
    BY <1>2 DEF IsFrame, Fields
  <1> HIDE DEF g
  <1>4. Len(g.report) = Size(g)
    <2>1. Len(Records) \in Nat /\ Len(Top.report) \in Nat /\ Size(Top) = Len(Records)
      BY <1>2, SizesAreNat, AppendFacts DEF Records, Size
    <2>2. Len(Top.report) <= Size(Top)
      BY <1>1, <1>2 DEF Ready
    <2> QED BY <1>1, <1>2, <1>3, <2>1, <2>2 DEF Size
  <1>5. Ready(g, limits.depth, artifacts)
    BY <1>2, <1>3, <1>4 DEF Ready, Busy
  <1>6. Charged' /\ Booked' /\ Extends(artifacts, artifacts')
    BY <1>1, ChargedStays, BookedStays DEF Extends
  <1>7. Top.phase \in Busy /\ g.phase \in Busy
    BY <1>1, <1>3 DEF Busy
  <1> QED BY <1>1, <1>3, <1>5, <1>6, <1>7, BusyStep

-----------------------------------------------------------------------------
\* A direct record is decoded with the container of its level.
LEMMA DirectTally == Ground /\ Tally /\ Direct => Tally'
  <1> SUFFICES ASSUME Ground, Tally, Direct
               PROVE  Tally'
    OBVIOUS
  <1> DEFINE at == Head(Top.directs)
             rec == Records[at]
             next == Interpreter(rec.id)
             raw == Artifact(rec, rec.content, rec.size, "direct.bin")
  <1>1. /\ UNCHANGED <<elf, limits, used, counted, registry, streams>> /\ stack # <<>>
        /\ step = "streams" /\ Top.phase = "directs" /\ Top.directs # <<>>
        /\ Booked /\ Charged /\ Levels
    BY DEF Direct, InPhase, budget, Tally
  <1>2. /\ Ready(Top, limits.depth, artifacts) /\ Shape(Top) /\ IsFrame(Top) /\ IsSeq(Top.report)
        /\ IsSeq(Top.directs) /\ Tabled(Top.stream) /\ IsSeq(artifacts)
    BY <1>1, TopIsReady, GroundFacts DEF Shape, Ready
  <1>3. at \in DOMAIN Top.report /\ IsReport(Top.report[at])
    BY <1>1, <1>2, TailFacts DEF Shape
  <1>4. rec.size \in Nat
    <2>1. DOMAIN Top.report = 1..Len(Top.report) /\ Len(Top.report) = Size(Top)
      BY <1>1, <1>2, AppendFacts DEF Ready
    <2>2. at \in 1..Len(Records)
      BY <1>3, <2>1 DEF Records, Size
    <2> QED BY <1>2, <2>2, SizesAreNat DEF Records
  <1>5. raw.path = FileName(rec, rec.content, "direct.bin") /\ raw.size = rec.size /\ ~ IsPaid(raw)
    BY DEF Artifact, IsPaid
  <1>6. Top.phase \in Busy
    BY <1>1 DEF Busy
  <1> HIDE DEF at, rec, next, raw
  <1>7. CASE /\ ToTop([Top EXCEPT !.directs = Tail(@), !.children = Append(@, at),
                         !.report[at].nested = next])
             /\ UNCHANGED <<step, artifacts>>
    <2> DEFINE row == [Top.report[at] EXCEPT !.nested = next]
               report == [Top.report EXCEPT ![at] = row]
               children == Append(Top.children, at)
               directs == Tail(Top.directs)
               g == [Top EXCEPT !.directs = directs, !.children = children, !.report = report]
    <2>1. ToTop(g)
      BY <1>7
    <2>2. row.image = Top.report[at].image
      BY <1>3 DEF IsReport
    <2> HIDE DEF row
    <2>3. /\ DOMAIN report = DOMAIN Top.report /\ Len(report) = Len(Top.report)
          /\ report[at] = row /\ \A i \in DOMAIN Top.report \ {at} : report[i] = Top.report[i]
      BY <1>2, <1>3, ReportFacts
    <2> HIDE DEF report, children, directs
    <2>4. /\ g.stream = Top.stream /\ g.id = Top.id /\ g.depth = Top.depth /\ g.phase = Top.phase
          /\ g.held = Top.held /\ g.report = report
      BY <1>2 DEF IsFrame, Fields
    <2> HIDE DEF g
    <2>5. \A i \in DOMAIN report : report[i].image # None => report[i].image.size \in Nat
      BY <1>2, <2>2, <2>3 DEF Ready
    <2>6. Ready(g, limits.depth, artifacts)
      BY <1>2, <2>3, <2>4, <2>5 DEF Ready, Size
    <2>7. Charged' /\ Booked' /\ Extends(artifacts, artifacts')
      BY <1>1, <1>7, ChargedStays, BookedStays DEF Extends
    <2> QED BY <1>1, <1>6, <1>7, <2>1, <2>4, <2>6, <2>7, BusyStep
  <1>8. CASE /\ WriteArtifact(raw) /\ UNCHANGED step
             /\ ToTop([Top EXCEPT !.directs = Tail(@), !.report[at].image = raw])
    <2> DEFINE row == [Top.report[at] EXCEPT !.image = raw]
               report == [Top.report EXCEPT ![at] = row]
               directs == Tail(Top.directs)
               g == [Top EXCEPT !.directs = directs, !.report = report]
    <2>1. ToTop(g)
      BY <1>8
    <2>2. row.image = raw
      BY <1>3 DEF IsReport
    <2> HIDE DEF row
    <2>3. /\ DOMAIN report = DOMAIN Top.report /\ Len(report) = Len(Top.report)
          /\ report[at] = row /\ \A i \in DOMAIN Top.report \ {at} : report[i] = Top.report[i]
      BY <1>2, <1>3, ReportFacts
    <2> HIDE DEF report, directs
    <2>4. /\ g.stream = Top.stream /\ g.id = Top.id /\ g.depth = Top.depth /\ g.phase = Top.phase
          /\ g.held = Top.held /\ g.report = report
      BY <1>2 DEF IsFrame, Fields
    <2> HIDE DEF g
    <2>5. \A i \in DOMAIN report : report[i].image # None => report[i].image.size \in Nat
      BY <1>2, <1>4, <1>5, <2>2, <2>3 DEF Ready
    <2>6. Extends(artifacts, artifacts')
      BY <1>2, <1>8, ArtifactsGrow
    <2>7. Ready(g, limits.depth, artifacts')
      <3>1. Ready(Top, limits.depth, artifacts')
        BY <1>2, <2>6, ReadyStays
      <3> QED BY <2>3, <2>4, <2>5, <3>1 DEF Ready, Size
    <2>8. Charged'
      BY <1>1, <1>4, <1>5, <1>8, ChargedGrows
    <2>9. Booked'
      BY <1>1, <2>6, BookedStays
    <2> QED BY <1>1, <1>6, <1>8, <2>1, <2>4, <2>6, <2>7, <2>8, <2>9, BusyStep
  <1>9. CASE Fail /\ UNCHANGED <<stack, artifacts>>
    BY <1>1, <1>9, TallyStill DEF Fail
  <1> QED BY <1>7, <1>8, <1>9 DEF Direct, at, rec, next, raw

\* The stream is reported, with the records that were counted for it.
LEMMA ReportTally == Ground /\ Tally /\ Report => Tally'
  <1> SUFFICES ASSUME Ground, Tally, Report
               PROVE  Tally'
    OBVIOUS
  <1> DEFINE g == [Top EXCEPT !.phase = "children"]
  <1>1. /\ UNCHANGED <<elf, limits, step, used, counted, registry, artifacts>> /\ stack # <<>>
        /\ Top.phase = "directs" /\ ToTop(g) /\ streams' = Append(streams, StreamReport)
        /\ Booked /\ Charged /\ Levels /\ Counted
    BY DEF Report, InPhase, budget, Tally
  <1>2. /\ Ready(Top, limits.depth, artifacts) /\ IsFrame(Top) /\ IsSeq(Top.report)
        /\ IsSeq(stack) /\ IsSeq(streams)
    BY <1>1, TopIsReady, GroundFacts DEF Shape
  <1>3. Len(Top.report) = Size(Top) /\ Len(Top.report) \in Nat
    BY <1>1, <1>2, AppendFacts DEF Ready
  <1>4. StreamReport.records = Top.report /\ StreamReport.depth = Top.depth
    BY DEF StreamReport
  <1>5. /\ g.phase = "children" /\ g.stream = Top.stream /\ g.id = Top.id /\ g.depth = Top.depth
        /\ g.report = Top.report /\ g.held = Top.held
    BY <1>2 DEF IsFrame, Fields
  <1> HIDE DEF g
  <1>6. Ready(g, limits.depth, artifacts)
    <2>1. Tabled(g.stream)
      BY <1>1, <1>2, <1>5 DEF Ready
    <2> QED BY <1>2, <1>3, <1>5, <2>1 DEF Ready, Busy, Size
  <1>7. Levels' /\ Top' = g /\ stack' # <<>>
    BY <1>1, <1>2, <1>5, <1>6, LevelsTop DEF Extends
  <1>8. Reads \in Nat /\ Reads' = Reads + Size(Top)
    <2>1. \A k \in DOMAIN streams : Len(streams[k].records) \in Nat
      BY <1>1 DEF Booked
    <2> QED BY <1>1, <1>2, <1>3, <1>4, <2>1, ReadsGrow
  <1>9. Counted'
    <2>1. Reads + Size(Top) <= counted
      BY <1>1 DEF Counted, Busy
    <2>2. Size(Top) \in Nat /\ counted \in Nat /\ limits.entries \in Nat
      BY <1>1, <1>3, GroundFacts DEF Counted
    <2>3. Reads' <= counted' /\ Reads' \in Nat /\ counted' \in Nat
      BY <1>1, <1>8, <2>1, <2>2
    <2>4. Top'.phase \notin Busy
      BY <1>5, <1>7 DEF Busy
    <2>5. counted' \in 0..limits'.entries
      BY <1>1 DEF Counted
    <2>6. Reads' + 0 <= counted'
      <3>1. \A r, c \in Nat : r <= c => r + 0 <= c
        OBVIOUS
      <3> QED BY <2>3, <3>1
    <2> QED BY <2>4, <2>5, <2>6 DEF Counted
  <1>10. Booked'
    <2>1. \A k \in DOMAIN streams' :
            \/ k \in DOMAIN streams /\ streams'[k] = streams[k]
            \/ streams'[k] = StreamReport
      <3>1. /\ DOMAIN streams' = 1..Len(streams) + 1 /\ DOMAIN streams = 1..Len(streams)
            /\ Len(streams) \in Nat
            /\ \A i \in 1..Len(streams) : streams'[i] = streams[i]
            /\ streams'[Len(streams) + 1] = StreamReport
        BY <1>1, <1>2, AppendFacts
      <3> QED BY <3>1
    <2>2. /\ StreamReport.depth \in 0..limits.depth
          /\ IsSeq(StreamReport.records) /\ Len(StreamReport.records) \in Nat
          /\ \A i \in DOMAIN StreamReport.records :
               StreamReport.records[i].image # None => StreamReport.records[i].image.size \in Nat
      BY <1>2, <1>3, <1>4 DEF Ready
    <2> QED BY <1>1, <2>1, <2>2 DEF Booked
  <1>11. Charged'
    BY <1>1, ChargedStays
  <1> QED BY <1>7, <1>9, <1>10, <1>11 DEF Tally

\* The next child is called, or refused at the ceiling of depth.
LEMMA ChildTally == Ground /\ Tally /\ Child => Tally'
  <1> SUFFICES ASSUME Ground, Tally, Child
               PROVE  Tally'
    OBVIOUS
  <1> DEFINE at == Head(Top.children)
             rec == Records[at]
             id == Interpreter(rec.id)
             parent == [stream |-> Top.id, record |-> at, id |-> rec.id]
             children == Tail(Top.children)
             g == [Top EXCEPT !.children = children]
             h == Call(rec.child, id, Top.depth + 1, parent, config)
             below == Append(Front(stack), g)
  <1>1. /\ UNCHANGED <<elf, limits, used, counted, registry, streams, artifacts>> /\ stack # <<>>
        /\ Top.phase = "children" /\ Top.children # <<>> /\ step = "streams"
        /\ Booked /\ Charged /\ Levels /\ Counted
    BY DEF Child, InPhase, budget, output, Tally
  <1>2. /\ Ready(Top, limits.depth, artifacts) /\ Shape(Top) /\ IsFrame(Top) /\ IsSeq(Top.report)
        /\ IsSeq(Top.children) /\ Tabled(Top.stream) /\ IsSeq(stack) /\ limits.depth \in Nat
    BY <1>1, TopIsReady, GroundFacts DEF Shape, Ready
  <1>3. rec.id \in 0..Ids - 1 /\ rec.child \in Names
    <2>1. at \in DOMAIN Top.report
      BY <1>1, <1>2, TailFacts DEF Shape
    <2>2. DOMAIN Top.report = 1..Len(Top.report) /\ Len(Top.report) = Size(Top)
      BY <1>1, <1>2, AppendFacts DEF Ready
    <2>3. at \in 1..Len(Records)
      BY <2>1, <2>2 DEF Records, Size
    <2> QED BY <1>2, <2>3, SizesAreNat DEF Records
  <1>4. id \in 0..Ids - 1
    <2>1. rec.id \in Nat
      BY <1>3, SizesAreNat
    <2> QED BY <2>1, InterpretersAreIds
  <1>5. Top.depth \in Nat /\ Top.depth + 1 \in Nat
    BY <1>2 DEF Ready
  <1>6. CASE Fail /\ UNCHANGED <<config, stack>>
    BY <1>1, <1>6, TallyStill DEF Fail
  <1>7. CASE Top.depth + 1 <= limits.depth /\ stack' = Append(below, h) /\ UNCHANGED step
    <2>1. Top.depth + 1 \in 0..limits.depth
      BY <1>2, <1>5, <1>7
    <2> HIDE DEF children, at, rec, id, parent
    <2>2. Ready(h, limits.depth, artifacts) /\ h.depth = Top.depth + 1 /\ h.phase = "enter"
      <3> DEFINE depth == Top.depth + 1
                 s == rec.child
      <3>1. depth \in 0..limits.depth /\ s \in Names /\ id \in 0..Ids - 1 /\ limits.depth \in Nat
        BY <1>2, <1>3, <1>4, <2>1
      <3> HIDE DEF depth, s
      <3>2. LET f == Call(s, id, depth, parent, config) IN
            Ready(f, limits.depth, artifacts) /\ f.depth = depth /\ f.phase = "enter"
        BY <3>1, FreshReady
      <3> QED BY <3>2 DEF depth, s
    <2>3. /\ g.phase = "children" /\ g.stream = Top.stream /\ g.id = Top.id /\ g.depth = Top.depth
          /\ g.report = Top.report /\ g.held = Top.held
      BY <1>1, <1>2 DEF IsFrame, Fields
    <2> HIDE DEF g, h
    <2>4. Ready(g, limits.depth, artifacts)
      BY <1>1, <1>2, <2>3 DEF Ready, Size
    <2>5. below = Append(Front(stack), g) /\ limits' = limits /\ artifacts' = artifacts
      BY <1>1
    <2> HIDE DEF below
    <2>6. Levels' /\ Top' = h /\ stack' # <<>>
      BY <1>1, <1>2, <1>7, <2>2, <2>3, <2>4, <2>5, LevelsPush
    <2>7. Counted'
      <3>1. Reads \in Nat
        BY <1>1, GroundFacts, ReadsIsNat DEF Booked
      <3>2. Top.phase \notin Busy /\ Top'.phase \notin Busy
        BY <1>1, <2>2, <2>6 DEF Busy
      <3> QED BY <1>1, <3>1, <3>2, CountedIdle
    <2>8. Booked' /\ Charged'
      BY <1>1, <1>7, BookedStays, ChargedStays DEF Extends
    <2> QED BY <2>6, <2>7, <2>8 DEF Tally
  <1> QED BY <1>6, <1>7 DEF Child

\* The call returns.
LEMMA LeaveTally == Ground /\ Tally /\ Leave => Tally'
  <1> SUFFICES ASSUME Ground, Tally, Leave
               PROVE  Tally'
    OBVIOUS
  <1>1. /\ UNCHANGED <<elf, limits, step, used, counted, registry, streams, artifacts>> /\ stack # <<>>
        /\ Top.phase = "children" /\ Return
        /\ Booked /\ Charged /\ Levels /\ Counted
    BY DEF Leave, InPhase, budget, output, Tally
  <1>2. Levels' /\ (stack' # <<>> => Top'.phase = "children")
    BY <1>1, GroundFacts, LevelsPop
  <1>3. Counted'
    <2>1. Reads \in Nat
      BY <1>1, GroundFacts, ReadsIsNat DEF Booked
    <2>2. Top.phase \notin Busy /\ (stack' # <<>> => Top'.phase \notin Busy)
      BY <1>1, <1>2 DEF Busy
    <2> QED BY <1>1, <2>1, <2>2, CountedIdle
  <1>4. Booked' /\ Charged'
    BY <1>1, BookedStays, ChargedStays DEF Extends
  <1> QED BY <1>2, <1>3, <1>4 DEF Tally

\* Every step of the extraction keeps the tallies.
LEMMA NextTally == Ground /\ Tally /\ Next => Tally'
  <1> SUFFICES ASSUME Ground, Tally, Next
               PROVE  Tally'
    OBVIOUS
  <1>1. CASE Inspect
    BY <1>1, TallyStill DEF Inspect, Fail
  <1>2. CASE Abort
    BY <1>2, TallyStill DEF Abort, Fail, budget, output
  <1>3. CASE WriteIndex
    BY <1>3, TallyStill DEF WriteIndex, budget, output
  <1> QED BY <1>1, <1>2, <1>3, ConfigureTally, EnterTally, DecodeTally, RegisterTally,
             DecodedTally, DirectTally, ReportTally, ChildTally, LeaveTally DEF Next

\* So does every step of the library, whose other steps touch none of them.
LEMMA TallyStays == Ground /\ Tally /\ [LibraryNext]_all => Tally'
  <1> SUFFICES ASSUME Ground, Tally, [LibraryNext]_all
               PROVE  Tally'
    OBVIOUS
  <1>1. CASE Extraction
    BY <1>1, NextTally DEF Extraction
  <1>2. CASE CollectModules
    BY <1>2, TallyStill DEF CollectModules, vars
  <1>3. CASE Restoration
    BY <1>3, RestoreReads, TallyStill DEF Restoration, vars
  <1>4. CASE ExtractionFails \/ CollectionFails \/ RestorationFails \/ ReopenFails \/ Succeed
    BY <1>4, TallyStill DEF ExtractionFails, CollectionFails, RestorationFails, ReopenFails, Succeed, Answer
  <1>5. CASE UNCHANGED all
    BY <1>5, TallyStill DEF all, vars
  <1> QED BY <1>1, <1>2, <1>3, <1>4, <1>5 DEF LibraryNext

\* Neither the input nor its ceilings change.
LEMMA NextLimits == Next => elf' = elf /\ limits' = limits
  BY DEF Next, Inspect, Configure, Enter, DecodeImage, DecodeMetadata, Part, Register, Decoded,
         Direct, Report, Child, Leave, Abort, WriteIndex

-----------------------------------------------------------------------------
\* What an extraction began with stays, and its index is what it wrote.
LEMMA NextBegun == Ground /\ Tally /\ Next /\ UNCHANGED <<restoring, calling>> => Begun'
  <1> SUFFICES ASSUME Ground, Tally, Next, UNCHANGED <<restoring, calling>>
               PROVE  Begun'
    OBVIOUS
  <1>1. Workspace /\ Begun
    BY DEF Ground
  <1>2. /\ Running /\ Held' /\ (step' \in {"start", "stage1"} => artifacts' = <<>>)
        /\ module = None /\ module' = None
    BY <1>1, NextKeeps DEF Workspace, Running, calling
  <1>3. elf' = elf /\ limits' = limits
    BY NextLimits
  <1>4. /\ step' \in {"start", "stage1", "streams", "done", "failed"}
        /\ step' \in {"start", "stage1"} => stack' = <<>>
    <2>1. CASE Inspect
      BY <1>1, <2>1 DEF Inspect, Fail, Begun
    <2>2. CASE Configure \/ Abort \/ WriteIndex
      BY <1>1, <2>2 DEF Configure, Abort, WriteIndex, Fail, Begun
    <2>3. CASE Enter \/ DecodeImage \/ DecodeMetadata \/ Register \/ Decoded \/ Direct \/ Report
               \/ Child \/ Leave
      BY <2>3 DEF Enter, DecodeImage, DecodeMetadata, Part, Register, Decoded, Direct, Report, Child,
                  Leave, InPhase, Fail
    <2> QED BY <2>1, <2>2, <2>3 DEF Next
  <1>5. seen' \subseteq (0..Ids - 1) \X Names
    <2>1. CASE Enter
      <3>1. stack # <<>>
        BY <2>1 DEF Enter, InPhase
      <3>2. Top.id \in 0..Ids - 1 /\ Top.stream \in Names
        BY <3>1, GroundFacts, TopIsReady DEF Tally, Ready
      <3>3. seen' = seen \/ seen' = seen \cup {<<Top.id, Top.stream>>}
        BY <2>1 DEF Enter
      <3> QED BY <1>1, <3>2, <3>3 DEF Begun
    <2>2. CASE ~ Enter
      <3>1. seen' = seen
        BY <2>2 DEF Next, Inspect, Configure, DecodeImage, DecodeMetadata, Part, Register, Decoded,
                    Direct, Report, Child, Leave, Abort, WriteIndex
      <3> QED BY <1>1, <3>1 DEF Begun
    <2> QED BY <2>1, <2>2
  <1>6. index' = IF step' = "done"
                 THEN [registry |-> registry', streams |-> streams', artifacts |-> artifacts'] ELSE None
    <2>1. CASE WriteIndex
      BY <2>1 DEF WriteIndex, output
    <2>2. CASE ~ WriteIndex
      <3>1. index' = index /\ step' # "done"
        BY <1>2, <2>2 DEF Next, Inspect, Configure, Enter, DecodeImage, DecodeMetadata, Part, Register,
                    Decoded, Direct, Report, Child, Leave, Abort, InPhase, Fail, Running
      <3>2. step # "done"
        BY <1>2 DEF Running
      <3> QED BY <1>1, <3>1, <3>2 DEF Begun
    <2> QED BY <2>1, <2>2
  <1> QED BY <1>1, <1>2, <1>3, <1>4, <1>5, <1>6 DEF Begun

\* The other steps of the library keep that too.
LEMMA BegunStays == Ground /\ Tally /\ [LibraryNext]_all => Begun'
  <1> SUFFICES ASSUME Ground, Tally, [LibraryNext]_all
               PROVE  Begun'
    OBVIOUS
  <1>0. Begun
    BY DEF Ground
  <1>1. CASE Extraction
    BY <1>1, NextBegun DEF Extraction
  <1>2. CASE CollectModules
    <2>1. /\ answer = NoAnswer /\ module' = Images /\ UNCHANGED vars /\ answer' = answer
      BY <1>2 DEF CollectModules
    <2>2. Held /\ Booked
      BY <1>0, <2>1 DEF Begun, Tally
    <2>3. Images \subseteq {registry[id].content : id \in DOMAIN registry}
      <3> SUFFICES ASSUME NEW id \in {12} \cap DOMAIN registry
                   PROVE  files[registry[id].path] = registry[id].content
        BY DEF Images
      <3>1. PICK i \in DOMAIN artifacts :
              artifacts[i].path = registry[id].path /\ artifacts[i].content = registry[id].content
        BY <2>2 DEF Booked, Stored
      <3> QED BY <2>2, <3>1 DEF Held
    <2> QED BY <1>0, <2>1, <2>2, <2>3 DEF Begun, Held, vars
  <1>3. CASE Restoration
    <2>1. UNCHANGED <<vars, calling>>
      BY <1>3, RestoreReads DEF Restoration
    <2> QED BY <1>0, <2>1 DEF Begun, Held, vars, calling
  <1>4. CASE ExtractionFails \/ CollectionFails \/ RestorationFails \/ ReopenFails \/ Succeed
    <2>1. /\ UNCHANGED <<elf, limits, step, stack, seen, registry, streams, artifacts, index, module>>
          /\ answer' # NoAnswer
      <3>1. \A a, b, c : [ok |-> a, module |-> b, research |-> c] # <<>>
        OBVIOUS
      <3> QED BY <1>4, <3>1 DEF ExtractionFails, CollectionFails, RestorationFails, ReopenFails, Succeed,
                                Answer, Refused, NoAnswer
    <2> QED BY <1>0, <2>1 DEF Begun
  <1>5. CASE UNCHANGED all
    BY <1>0, <1>5 DEF all, vars, calling, Begun, Held
  <1> QED BY <1>1, <1>2, <1>3, <1>4, <1>5 DEF LibraryNext

Measured == Ground /\ Tally

\* The inductive invariant of the ceilings.
LEMMA MeasuredStays == Measured /\ [LibraryNext]_all => Measured'
  BY LibraryNested, WorkspaceStays, BegunStays, TallyStays DEF Measured, Ground

\* It holds before anything is decoded.
LEMMA InitMeasured == LibraryInit => Measured
  <1> SUFFICES ASSUME LibraryInit
               PROVE  Measured
    OBVIOUS
  <1>1. /\ elf \in Elfs /\ limits \in Ceilings /\ step = "start" /\ stack = <<>> /\ used = 0
        /\ counted = 0 /\ seen = {} /\ registry = <<>> /\ streams = <<>> /\ artifacts = <<>>
        /\ index = None /\ module = None
    BY DEF LibraryInit, Init
  <1>2. DOMAIN <<>> = {}
    OBVIOUS
  <1>3. Begun
    BY <1>1, <1>2 DEF Begun, Held
  <1>4. Levels /\ Booked
    BY <1>1, <1>2 DEF Levels, Booked
  <1>5. limits.entries \in Nat /\ limits.total \in Nat
    BY <1>1, CeilingsAreNat
  <1>6. Counted
    <2>1. [k \in DOMAIN <<>> |-> Len(streams[k].records)] = <<>>
      OBVIOUS
    <2>2. Reads = 0
      BY <1>1, <2>1, SumOfNone DEF Reads
    <2> QED BY <1>1, <1>5, <2>2 DEF Counted
  <1>7. Charged
    BY <1>1, <1>2, <1>5 DEF Charged
  <1> QED BY <1>3, <1>4, <1>6, <1>7, InitNested, InitWorkspace DEF Measured, Ground, Tally

\* For any streams, ceilings and nesting: the plaintext of stage 1 and what is decoded
\* and written fit the ceiling of the input, each part its own, no more records are read
\* than it allows and no stream is nested deeper (extract_stage2_with_limits 92-165).
THEOREM DecodingStaysWithinLimits == LibrarySpec => []DecodedWithinLimits
  <1>1. Measured => DecodedWithinLimits
    <2> SUFFICES ASSUME Measured
                 PROVE  DecodedWithinLimits
      OBVIOUS
    <2>0. Ground /\ Booked /\ Counted /\ Charged
      BY DEF Measured, Tally
    <2>1. /\ IsSeq(artifacts) /\ IsSeq(streams) /\ elf.size \in Nat /\ limits.total \in Nat
          /\ limits.entries \in Nat /\ limits.depth \in Nat
      BY <2>0, GroundFacts
    <2>2. step \in {"streams", "done"} => elf.size + Paid <= limits.total
      <3>1. Paid \in Nat
        BY <2>0, <2>1, PaidIsNat DEF Charged
      <3> QED BY <2>0, <2>1, <3>1 DEF Charged
    <2>3. \A a \in ToSet(artifacts) : IsPaid(a) => a.size <= limits.entry
      BY <2>0 DEF Charged, ToSet
    <2>4. Reads <= limits.entries
      <3>1. Reads \in Nat
        BY <2>0, <2>1, ReadsIsNat DEF Booked
      <3>2. CASE stack # <<>> /\ Top.phase \in Busy
        <4>1. Size(Top) \in Nat
          <5>1. Tabled(Top.stream)
            BY <2>0, <3>2, GroundFacts, TopIsReady DEF Measured, Tally, Ready, Busy
          <5> QED BY <5>1, SizesAreNat DEF Size
        <4> QED BY <2>0, <2>1, <3>1, <3>2, <4>1 DEF Counted
      <3>3. CASE ~ (stack # <<>> /\ Top.phase \in Busy)
        BY <2>0, <2>1, <3>1, <3>3 DEF Counted
      <3> QED BY <3>2, <3>3
    <2>5. \A s \in ToSet(streams) : s.depth <= limits.depth
      BY <2>0, <2>1 DEF Booked, ToSet
    <2> QED BY <2>2, <2>3, <2>4, <2>5 DEF DecodedWithinLimits, Reads
  <1> QED BY <1>1, InitMeasured, MeasuredStays, PTL DEF LibrarySpec, all

-----------------------------------------------------------------------------
\* Aligning never goes down.
LEMMA AlignIsAbove ==
  ASSUME NEW n \in Nat, NEW a \in Nat \ {0}
  PROVE  Align(n, a) \in Nat /\ n <= Align(n, a)
  <1> DEFINE q == (n + a - 1) \div a
             r == (n + a - 1) % a
  <1>1. n + a - 1 \in Nat
    OBVIOUS
  <1>2. q \in Int /\ r \in 0..a - 1 /\ n + a - 1 = q * a + r
    BY <1>1, Z3
  <1>3. Align(n, a) = q * a
    BY DEF Align
  <1> HIDE DEF q, r
  <1>4. q * a \in Int
    BY <1>2
  <1> QED BY <1>2, <1>3, <1>4

LaidEnds(tables, start, ends) ==
  /\ ends \in [0..Len(tables) -> Nat] /\ ends[0] = start
  /\ \A i \in 1..Len(tables) :
       /\ Laid(tables, start).at[i].offset \in Nat
       /\ ends[i - 1] <= Laid(tables, start).at[i].offset
       /\ Laid(tables, start).at[i].offset + tables[i].size = ends[i]
  /\ Laid(tables, start).end = ends[Len(tables)]

\* Tables laid one after another: where each is, and where the last ends.
LEMMA LaidFacts ==
  ASSUME NEW tables, IsSeq(tables), NEW start \in Nat,
         \A i \in DOMAIN tables : tables[i].align \in Nat \ {0} /\ tables[i].size \in Nat
  PROVE  /\ DOMAIN Laid(tables, start).at = DOMAIN tables
         /\ \A i \in DOMAIN tables : /\ Laid(tables, start).at[i].name = tables[i].name
                                    /\ Laid(tables, start).at[i].size = tables[i].size
         /\ \E ends : LaidEnds(tables, start, ends)
  <1> DEFINE n == Len(tables)
             G(e, i) == Align(e, tables[i].align) + tables[i].size
             go == [p \in Nat \X (1..n) |-> G(p[1], p[2])]
             Ends(f) == f = [i \in 0..n |-> IF i = 0 THEN start ELSE G(f[i - 1], i)]
             end == CHOOSE f : Ends(f)
  <1>1. n \in Nat /\ DOMAIN tables = 1..n
    BY AppendFacts
  <1> HIDE DEF n
  <1>2. \A e \in Nat, i \in 1..n : G(e, i) \in Nat
    <2> SUFFICES ASSUME NEW e \in Nat, NEW i \in 1..n
                 PROVE  G(e, i) \in Nat
      OBVIOUS
    <2>1. tables[i].align \in Nat \ {0} /\ tables[i].size \in Nat
      BY <1>1
    <2>2. Align(e, tables[i].align) \in Nat
      BY <2>1, AlignIsAbove
    <2> QED BY <2>1, <2>2
  <1> HIDE DEF G
  <1>3. go \in [Nat \X (1..n) -> Nat]
    BY <1>2
  <1>4. \A e \in Nat, i \in 1..n : go[<<e, i>>] = G(e, i)
    OBVIOUS
  <1> HIDE DEF go
  <1>5. PICK f \in [0..n -> Nat] : Steps(f, n, start, go)
    BY <1>1, <1>3, StepsExist
  <1>6. Ends(f)
    <2>1. ASSUME NEW i \in 0..n
          PROVE  f[i] = IF i = 0 THEN start ELSE G(f[i - 1], i)
      <3>1. i # 0 => i \in 1..n /\ i - 1 \in 0..n
        BY <1>1
      <3>2. f[i] = IF i = 0 THEN start ELSE go[<<f[i - 1], i>>]
        BY <1>5 DEF Steps
      <3> QED BY <1>4, <1>5, <3>1, <3>2
    <2>2. f = [i \in 0..n |-> f[i]]
      BY <1>5
    <2> QED BY <2>1, <2>2
  <1> HIDE DEF Ends
  <1>7. Ends(end)
    BY <1>6
  <1>8. /\ Laid(tables, start).end = end[n]
        /\ Laid(tables, start).at =
             [i \in DOMAIN tables |->
                [name |-> tables[i].name, offset |-> Align(end[i - 1], tables[i].align),
                 size |-> tables[i].size]]
    BY DEF Laid, Ends, G, n
  <1> HIDE DEF end
  <1>9. /\ end[0] = start /\ DOMAIN end = 0..n
        /\ \A i \in 1..n : end[i] = G(end[i - 1], i)
    <2>1. 0 \in 0..n /\ \A i \in 1..n : i \in 0..n /\ i # 0
      BY <1>1
    <2>2. end = [i \in 0..n |-> IF i = 0 THEN start ELSE G(end[i - 1], i)]
      BY <1>7 DEF Ends
    <2> QED BY <2>1, <2>2
  <1>10. 0..n \subseteq {i \in 0..n : end[i] \in Nat}
    <2> DEFINE T == {i \in 0..n : end[i] \in Nat}
    <2>1. 0 \in T
      BY <1>1, <1>9
    <2>2. \A i \in 1..n : i - 1 \in T => i \in T
      BY <1>1, <1>2, <1>9
    <2> HIDE DEF T
    <2>3. 0..n \subseteq T
      BY <1>1, <2>1, <2>2, UpTo
    <2> QED BY <2>3 DEF T
  <1>11. end = [i \in 0..n |-> end[i]]
    BY <1>7 DEF Ends
  <1>12. end \in [0..n -> Nat]
    BY <1>10, <1>11
  <1>13. ASSUME NEW i \in 1..n
         PROVE  /\ Laid(tables, start).at[i].offset \in Nat
                /\ end[i - 1] <= Laid(tables, start).at[i].offset
                /\ Laid(tables, start).at[i].offset + tables[i].size = end[i]
    <2>1. end[i - 1] \in Nat
      <3>1. i - 1 \in 0..n
        BY <1>1
      <3> QED BY <1>12, <3>1
    <2>2. Laid(tables, start).at[i].offset = Align(end[i - 1], tables[i].align)
      BY <1>1, <1>8
    <2>3. /\ Align(end[i - 1], tables[i].align) \in Nat
          /\ end[i - 1] <= Align(end[i - 1], tables[i].align)
      BY <1>1, <2>1, AlignIsAbove
    <2> QED BY <1>9, <2>2, <2>3 DEF G
  <1>14. LaidEnds(tables, start, end)
    BY <1>8, <1>9, <1>12, <1>13 DEF LaidEnds, n
  <1> QED BY <1>8, <1>14

\* One end after another.
LEMMA EndsRise ==
  ASSUME NEW tables, IsSeq(tables), NEW start, NEW ends, LaidEnds(tables, start, ends),
         \A i \in DOMAIN tables : tables[i].size \in Nat,
         NEW i \in 0..Len(tables), NEW j \in 0..Len(tables), i <= j
  PROVE  ends[i] <= ends[j]
  <1> DEFINE n == Len(tables)
             T == {k \in 0..n : i <= k => ends[i] <= ends[k]}
  <1>1. n \in Nat /\ DOMAIN tables = 1..n
    BY AppendFacts
  <1> HIDE DEF n
  <1>2. ends \in [0..n -> Nat]
    BY DEF LaidEnds, n
  <1>3. ASSUME NEW k \in 1..n
        PROVE  ends[k - 1] <= ends[k]
    <2> DEFINE o == Laid(tables, start).at[k].offset
    <2>1. o \in Nat /\ ends[k - 1] <= o /\ o + tables[k].size = ends[k] /\ tables[k].size \in Nat
      BY <1>1 DEF LaidEnds, n
    <2> HIDE DEF o
    <2>2. ends[k - 1] \in Nat /\ ends[k] \in Nat
      <3>1. k - 1 \in 0..n /\ k \in 0..n
        BY <1>1
      <3> QED BY <1>2, <3>1
    <2> QED BY <2>1, <2>2
  <1>4. i \in 0..n /\ j \in 0..n
    BY DEF n
  <1>5. 0 \in T
    BY <1>1, <1>2, <1>4
  <1>6. ASSUME NEW k \in 1..n, k - 1 \in T
        PROVE  k \in T
    <2>1. CASE i = k
      BY <1>2, <1>4, <2>1
    <2>2. CASE i # k
      <3>1. i <= k => i <= k - 1
        BY <1>4, <2>2
      <3>2. k - 1 \in 0..n /\ k \in 0..n
        BY <1>1
      <3>3. ends[i] \in Nat /\ ends[k - 1] \in Nat /\ ends[k] \in Nat
        BY <1>2, <1>4, <3>2
      <3> QED BY <1>3, <1>6, <3>1, <3>2, <3>3
    <2> QED BY <2>1, <2>2
  <1>7. 0..n \subseteq T
    <2> HIDE DEF T
    <2> QED BY <1>1, <1>5, <1>6, UpTo
  <1> QED BY <1>4, <1>7
-----------------------------------------------------------------------------

\* What is built entry by entry from a set stays in it.
LEMMA StepsStay ==
  ASSUME NEW n \in Nat, NEW V, NEW f, f[0] \in V, \A i \in 1..n : f[i - 1] \in V => f[i] \in V
  PROVE  f[n] \in V
  <1> DEFINE T == {i \in 0..n : f[i] \in V}
  <1>1. 0 \in T /\ \A i \in 1..n : i - 1 \in T => i \in T
    OBVIOUS
  <1>2. 0..n \subseteq T
    <2> HIDE DEF T
    <2> QED BY <1>1, UpTo
  <1> QED BY <1>2

\* Picking goes through the rows one by one.
LEMMA PickedUnfolds ==
  ASSUME NEW rows, IsSeq(rows), NEW places
  PROVE  \E first : /\ Picked(rows, places) = first[Len(rows)] /\ first[0] = <<>>
                    /\ \A i \in 1..Len(rows) :
                         first[i] = IF i \in places THEN Append(first[i - 1], rows[i]) ELSE first[i - 1]
  <1> DEFINE n == Len(rows)
             R == {rows[i] : i \in DOMAIN rows}
             V == Seq(R)
             G(e, i) == IF i \in places THEN Append(e, rows[i]) ELSE e
             go == [p \in V \X (1..n) |-> G(p[1], p[2])]
             First(f) == f = [i \in 0..n |-> IF i = 0 THEN <<>> ELSE G(f[i - 1], i)]
             first == CHOOSE f : First(f)
  <1>1. n \in Nat /\ DOMAIN rows = 1..n
    BY AppendFacts
  <1> HIDE DEF n
  <1>2. \A i \in 1..n : rows[i] \in R
    BY <1>1
  <1> HIDE DEF R
  <1>3. \A e \in V, i \in 1..n : G(e, i) \in V
    BY <1>2
  <1>4. <<>> \in V
    OBVIOUS
  <1> HIDE DEF G, V
  <1>5. go \in [V \X (1..n) -> V]
    BY <1>3
  <1>6. \A e \in V, i \in 1..n : go[<<e, i>>] = G(e, i)
    OBVIOUS
  <1> HIDE DEF go
  <1>7. PICK f \in [0..n -> V] : Steps(f, n, <<>>, go)
    BY <1>1, <1>4, <1>5, StepsExist
  <1>8. First(f)
    <2>1. ASSUME NEW i \in 0..n
          PROVE  f[i] = IF i = 0 THEN <<>> ELSE G(f[i - 1], i)
      <3>1. i # 0 => i \in 1..n /\ i - 1 \in 0..n
        BY <1>1
      <3>2. f[i] = IF i = 0 THEN <<>> ELSE go[<<f[i - 1], i>>]
        BY <1>7 DEF Steps
      <3> QED BY <1>6, <1>7, <3>1, <3>2
    <2>2. f = [i \in 0..n |-> f[i]]
      BY <1>7
    <2> QED BY <2>1, <2>2
  <1> HIDE DEF First
  <1>9. First(first)
    BY <1>8
  <1>10. Picked(rows, places) = first[n]
    BY DEF Picked, First, G, n
  <1> HIDE DEF first
  <1>11. first[0] = <<>> /\ \A i \in 1..n : first[i] = G(first[i - 1], i)
    <2>1. 0 \in 0..n /\ \A i \in 1..n : i \in 0..n /\ i # 0
      BY <1>1
    <2> QED BY <1>9, <2>1 DEF First
  <1> QED BY <1>10, <1>11 DEF G, n

\* Rows picked from a table are a sequence.
LEMMA PickedIsSeq ==
  ASSUME NEW rows, IsSeq(rows), NEW places
  PROVE  IsSeq(Picked(rows, places))
  <1> DEFINE n == Len(rows)
             R == {rows[i] : i \in DOMAIN rows}
             V == Seq(R)
  <1>1. PICK first : /\ Picked(rows, places) = first[n] /\ first[0] = <<>>
                     /\ \A i \in 1..n :
                          first[i] = IF i \in places THEN Append(first[i - 1], rows[i]) ELSE first[i - 1]
    BY PickedUnfolds
  <1>2. n \in Nat /\ DOMAIN rows = 1..n
    BY AppendFacts
  <1> HIDE DEF n
  <1>3. first[0] \in V
    BY <1>1
  <1>4. ASSUME NEW i \in 1..n, first[i - 1] \in V
        PROVE  first[i] \in V
    <2>1. rows[i] \in R
      BY <1>2
    <2> HIDE DEF R
    <2>2. first[i - 1] \in Seq(R)
      BY <1>4
    <2>3. Append(first[i - 1], rows[i]) \in Seq(R)
      BY <2>1, <2>2, AppendProperties
    <2>4. first[i] \in {first[i - 1], Append(first[i - 1], rows[i])}
      BY <1>1
    <2> QED BY <2>2, <2>3, <2>4
  <1>5. first[n] \in V
    <2> HIDE DEF V
    <2> QED BY <1>2, <1>3, <1>4, StepsStay
  <1> QED BY <1>1, <1>5, SeqOverItself

\* A row inserted into a sequence over a set.
LEMMA InsertedStays ==
  ASSUME NEW R, NEW rows \in Seq(R), NEW row \in R, NEW before
  PROVE  Inserted(rows, row, before) \in Seq(R)
  <1> DEFINE behind == {i \in DOMAIN rows : <<row, rows[i]>> \notin before}
             k == Cardinality(behind)
  <1>1. Len(rows) \in Nat /\ DOMAIN rows = 1..Len(rows)
    OBVIOUS
  <1>2. IsFiniteSet(1..Len(rows)) /\ Cardinality(1..Len(rows)) = Len(rows)
    BY <1>1, FS_Interval
  <1>3. behind \subseteq 1..Len(rows)
    BY <1>1
  <1> HIDE DEF behind
  <1>4. k \in Nat /\ k <= Len(rows)
    <2>1. IsFiniteSet(behind) /\ Cardinality(behind) <= Cardinality(1..Len(rows))
      BY <1>2, <1>3, FS_Subset
    <2> QED BY <1>2, <2>1, FS_CardinalityType
  <1>5. Inserted(rows, row, before) = SubSeq(rows, 1, k) \o <<row>> \o SubSeq(rows, k + 1, Len(rows))
    BY DEF Inserted, behind
  <1> HIDE DEF k
  <1>6. SubSeq(rows, 1, k) \in Seq(R)
    <2>1. \A i \in 1..k : rows[i] \in R
      BY <1>1, <1>4
    <2> QED BY <1>4, <2>1, SubSeqProperties
  <1>7. SubSeq(rows, k + 1, Len(rows)) \in Seq(R)
    <2>1. \A i \in k + 1..Len(rows) : rows[i] \in R
      BY <1>1, <1>4
    <2>2. k + 1 \in Int /\ Len(rows) \in Int
      BY <1>1, <1>4
    <2> QED BY <2>1, <2>2, SubSeqProperties
  <1>8. <<row>> \in Seq(R)
    OBVIOUS
  <1>9. SubSeq(rows, 1, k) \o <<row>> \in Seq(R)
    BY <1>6, <1>8, ConcatProperties
  <1> QED BY <1>5, <1>7, <1>9, ConcatProperties

\* Sorting inserts the rows one by one.
LEMMA ArrangedUnfolds ==
  ASSUME NEW rows, IsSeq(rows), NEW before
  PROVE  \E first : /\ Arranged(rows, before) = first[Len(rows)] /\ first[0] = <<>>
                    /\ \A i \in 1..Len(rows) : first[i] = Inserted(first[i - 1], rows[i], before)
  <1> DEFINE n == Len(rows)
             R == {rows[i] : i \in DOMAIN rows}
             V == Seq(R)
             G(e, i) == Inserted(e, rows[i], before)
             go == [p \in V \X (1..n) |-> G(p[1], p[2])]
             First(f) == f = [i \in 0..n |-> IF i = 0 THEN <<>> ELSE G(f[i - 1], i)]
             first == CHOOSE f : First(f)
  <1>1. n \in Nat /\ DOMAIN rows = 1..n
    BY AppendFacts
  <1> HIDE DEF n
  <1>2. \A i \in 1..n : rows[i] \in R
    BY <1>1
  <1> HIDE DEF R
  <1>3. \A e \in V, i \in 1..n : G(e, i) \in V
    BY <1>2, InsertedStays
  <1>4. <<>> \in V
    OBVIOUS
  <1> HIDE DEF G, V
  <1>5. go \in [V \X (1..n) -> V]
    BY <1>3
  <1>6. \A e \in V, i \in 1..n : go[<<e, i>>] = G(e, i)
    OBVIOUS
  <1> HIDE DEF go
  <1>7. PICK f \in [0..n -> V] : Steps(f, n, <<>>, go)
    BY <1>1, <1>4, <1>5, StepsExist
  <1>8. First(f)
    <2>1. ASSUME NEW i \in 0..n
          PROVE  f[i] = IF i = 0 THEN <<>> ELSE G(f[i - 1], i)
      <3>1. i # 0 => i \in 1..n /\ i - 1 \in 0..n
        BY <1>1
      <3>2. f[i] = IF i = 0 THEN <<>> ELSE go[<<f[i - 1], i>>]
        BY <1>7 DEF Steps
      <3> QED BY <1>6, <1>7, <3>1, <3>2
    <2>2. f = [i \in 0..n |-> f[i]]
      BY <1>7
    <2> QED BY <2>1, <2>2
  <1> HIDE DEF First
  <1>9. First(first)
    BY <1>8
  <1>10. Arranged(rows, before) = first[n]
    BY DEF Arranged, First, G, n
  <1> HIDE DEF first
  <1>11. first[0] = <<>> /\ \A i \in 1..n : first[i] = G(first[i - 1], i)
    <2>1. 0 \in 0..n /\ \A i \in 1..n : i \in 0..n /\ i # 0
      BY <1>1
    <2> QED BY <1>9, <2>1 DEF First
  <1> QED BY <1>10, <1>11 DEF G, n

\* A sorted table is a sequence.
LEMMA ArrangedIsSeq ==
  ASSUME NEW rows, IsSeq(rows), NEW before
  PROVE  IsSeq(Arranged(rows, before))
  <1> DEFINE n == Len(rows)
             V == Seq({rows[i] : i \in DOMAIN rows})
  <1>1. PICK first : /\ Arranged(rows, before) = first[n] /\ first[0] = <<>>
                     /\ \A i \in 1..n : first[i] = Inserted(first[i - 1], rows[i], before)
    BY ArrangedUnfolds
  <1>2. n \in Nat /\ DOMAIN rows = 1..n
    BY AppendFacts
  <1> HIDE DEF n
  <1>3. first[0] \in V
    BY <1>1
  <1>4. ASSUME NEW i \in 1..n, first[i - 1] \in V
        PROVE  first[i] \in V
    <2>1. rows[i] \in {rows[k] : k \in DOMAIN rows}
      BY <1>2
    <2> QED BY <1>1, <1>4, <2>1, InsertedStays
  <1>5. first[n] \in V
    <2> HIDE DEF V
    <2> QED BY <1>2, <1>3, <1>4, StepsStay
  <1> QED BY <1>1, <1>5, SeqOverItself

\* A table the parsers hand over is a sequence.
LEMMA ListedIsSeq ==
  ASSUME NEW rows, Listed(rows)
  PROVE  IsSeq(rows) /\ Len(rows) \in Nat /\ DOMAIN rows = 1..Len(rows)
  <1>1. IsSeq(rows)
    BY SeqOverItself DEF Listed
  <1> QED BY <1>1, AppendFacts

\* Two tables, one behind the other.
LEMMA ConcatIsSeq ==
  ASSUME NEW s, NEW t, IsSeq(s), IsSeq(t)
  PROVE  IsSeq(s \o t) /\ Len(s \o t) = Len(s) + Len(t) /\ Len(s) \in Nat /\ Len(t) \in Nat
  <1> DEFINE T == {s[i] : i \in DOMAIN s} \cup {t[i] : i \in DOMAIN t}
  <1>1. s \in Seq(T) /\ t \in Seq(T)
    BY SeqMonotonic DEF IsSeq
  <1> HIDE DEF T
  <1>2. s \o t \in Seq(T) /\ Len(s \o t) = Len(s) + Len(t)
    BY <1>1, ConcatProperties
  <1>3. IsSeq(s \o t)
    BY <1>2, SeqOverItself
  <1>4. Len(s) \in Nat /\ Len(t) \in Nat
    BY <1>1
  <1> QED BY <1>2, <1>3, <1>4

\* As long as another sequence.
LEMMA AsLong ==
  ASSUME NEW s, IsSeq(s), NEW t, t = [i \in DOMAIN s |-> t[i]]
  PROVE  IsSeq(t) /\ Len(t) = Len(s)
  <1> DEFINE T == {t[i] : i \in DOMAIN s}
  <1>1. Len(s) \in Nat /\ DOMAIN s = 1..Len(s)
    BY AppendFacts
  <1>2. t \in [1..Len(s) -> T]
    BY <1>1
  <1>3. t \in Seq(T)
    BY <1>1, <1>2, SeqDef
  <1> HIDE DEF T
  <1>4. Len(t) \in Nat /\ DOMAIN t = 1..Len(t)
    BY <1>3
  <1>5. 1..Len(t) = 1..Len(s)
    <2>1. DOMAIN t = DOMAIN s
      OBVIOUS
    <2> QED BY <1>1, <1>4, <2>1
  <1>6. Len(t) = Len(s)
    BY <1>1, <1>4, <1>5
  <1>7. IsSeq(t)
    BY <1>3, SeqOverItself
  <1> QED BY <1>6, <1>7

\* The first rows of a table.
LEMMA SliceIsSeq ==
  ASSUME NEW s, IsSeq(s), NEW k \in Nat, k <= Len(s)
  PROVE  IsSeq(SubSeq(s, 1, k))
  <1> DEFINE T == {s[i] : i \in DOMAIN s}
  <1>1. Len(s) \in Nat /\ DOMAIN s = 1..Len(s)
    BY AppendFacts
  <1>2. \A i \in 1..k : s[i] \in T
    BY <1>1
  <1> HIDE DEF T
  <1>3. SubSeq(s, 1, k) \in Seq(T)
    BY <1>2, SubSeqProperties
  <1> QED BY <1>3, SeqOverItself

\* The largest of finitely many numbers is one of them.
LEMMA LargestIsIn ==
  ASSUME NEW n \in Nat, NEW T, T \subseteq 0..n, T # {}
  PROVE  Largest(T) \in T /\ \A x \in T : x <= Largest(T)
  <1> DEFINE U == {n - x : x \in T}
  <1>1. U \subseteq Nat /\ U # {}
    <2>1. \A x \in T : n - x \in Nat
      OBVIOUS
    <2>2. PICK x \in T : TRUE
      OBVIOUS
    <2>3. n - x \in U
      OBVIOUS
    <2> QED BY <2>1, <2>3
  <1>2. PICK m \in U : \A k \in U : m <= k
    BY <1>1, LeastOf
  <1>3. n - m \in T /\ \A x \in T : x <= n - m
    <2>1. PICK x \in T : m = n - x
      BY <1>2
    <2>2. n - m = x
      BY <2>1
    <2>3. ASSUME NEW y \in T
          PROVE  y <= x
      <3>1. n - x <= n - y /\ y \in 0..n /\ x \in 0..n
        BY <1>2, <2>1
      <3> QED BY <3>1
    <2> QED BY <2>2, <2>3
  <1>4. \E x \in T : \A y \in T : y <= x
    BY <1>3
  <1> QED BY <1>4 DEF Largest

-----------------------------------------------------------------------------
\* The tables of a parsed library.
LEMMA ParsedRows ==
  ASSUME NEW l, Parsed(l)
  PROVE  /\ IsSeq(l.symbols) /\ IsSeq(l.patch) /\ IsSeq(l.dyn) /\ IsSeq(l.plt) /\ IsSeq(l.loose)
         /\ IsSeq(l.aux.symbols) /\ IsSeq(l.aux.first) /\ IsSeq(l.aux.second)
  BY ListedIsSeq DEF Parsed

\* The old table, patched and cut.
LEMMA OldSymbolsIsSeq ==
  ASSUME NEW l, Parsed(l), PatchFits(l)
  PROVE  IsSeq(OldSymbols(l))
  <1>1. /\ IsSeq(l.symbols) /\ Len(l.symbols) \in Nat
        /\ IsSeq(l.patch) /\ l.patch # <<>>
    BY ParsedRows, AppendFacts DEF PatchFits
  <1>2. IsSeq(Patched(l)) /\ Len(Patched(l)) = Len(l.symbols)
    <2>1. Patched(l) = [i \in DOMAIN l.symbols |-> Patched(l)[i]]
      BY DEF Patched
    <2> QED BY <1>1, <2>1, AsLong
  <1>3. TailStart(l) \in Nat /\ TailStart(l) <= Len(l.symbols)
    <2>1. l.patch[1].at \in Targets(l)
      BY <1>1, TailFacts DEF Targets
    <2>2. Targets(l) \subseteq 1..Len(l.symbols) - 1
      BY DEF PatchFits
    <2>3. Targets(l) \subseteq 0..Len(l.symbols)
      BY <1>1, <2>2
    <2>4. Largest(Targets(l)) \in Targets(l)
      BY <1>1, <2>1, <2>3, LargestIsIn
    <2>5. Largest(Targets(l)) \in 1..Len(l.symbols) - 1
      BY <2>2, <2>4
    <2> QED BY <1>1, <2>5 DEF TailStart
  <1>4. OldCount(l) \in Nat /\ OldCount(l) <= Len(Patched(l))
    BY <1>1, <1>2, <1>3 DEF OldCount
  <1> QED BY <1>2, <1>4, SliceIsSeq DEF OldSymbols

\* The merged table before the special imports.
LEMMA SymbolsIsSeq ==
  ASSUME NEW l, Parsed(l), PatchFits(l), AuxiliaryFits(l)
  PROVE  IsSeq(Symbols(l))
  <1>1. IsSeq(l.aux.symbols) /\ l.aux.symbols # <<>>
    BY ParsedRows DEF AuxiliaryFits
  <1>2. IsSeq(Tail(l.aux.symbols))
    BY <1>1, TailFacts
  <1>3. IsSeq(OldSymbols(l))
    BY OldSymbolsIsSeq
  <1> QED BY <1>2, <1>3, ConcatIsSeq DEF Symbols

\* The missing slots in their order.
LEMMA SpecialOrderIsSeq ==
  ASSUME NEW l, Parsed(l)
  PROVE  IsSeq(SpecialOrder(l))
  <1> DEFINE slots == [i \in 1..l.slots |-> l.got + 8 * (i - 1)]
             left == {i \in 1..l.slots : slots[i] \in Missing(l)}
  <1>1. l.slots \in Nat
    BY DEF Parsed
  <1>2. IsSeq(slots)
    <2> DEFINE T == {slots[i] : i \in 1..l.slots}
    <2>1. slots \in [1..l.slots -> T]
      OBVIOUS
    <2>2. slots \in Seq(T)
      <3> HIDE DEF T, slots
      <3> QED BY <1>1, <2>1, SeqDef
    <2> HIDE DEF T, slots
    <2> QED BY <2>2, SeqOverItself
  <1>3. SpecialOrder(l) = Picked(slots, left)
    BY DEF SpecialOrder
  <1> HIDE DEF slots, left
  <1> QED BY <1>2, <1>3, PickedIsSeq

\* The special imports come behind the other symbols.
LEMMA MergedIsLonger ==
  ASSUME NEW l, Parsed(l), PatchFits(l), AuxiliaryFits(l)
  PROVE  /\ IsSeq(Merged(l)) /\ Len(Symbols(l)) \in Nat /\ Len(Merged(l)) \in Nat
         /\ Len(Symbols(l)) <= Len(Merged(l))
  <1> DEFINE order == SpecialOrder(l)
             specials == [i \in DOMAIN order |-> Special(Told(l, order[i]))]
  <1>1. IsSeq(order)
    BY SpecialOrderIsSeq
  <1>2. Merged(l) = Symbols(l) \o specials
    BY DEF Merged
  <1> HIDE DEF order
  <1>3. specials = [i \in DOMAIN order |-> specials[i]]
    OBVIOUS
  <1> HIDE DEF specials
  <1>4. IsSeq(specials)
    BY <1>1, <1>3, AsLong
  <1>5. IsSeq(Symbols(l))
    BY SymbolsIsSeq
  <1>6. /\ IsSeq(Symbols(l) \o specials)
        /\ Len(Symbols(l) \o specials) = Len(Symbols(l)) + Len(specials)
        /\ Len(Symbols(l)) \in Nat /\ Len(specials) \in Nat
    BY <1>4, <1>5, ConcatIsSeq
  <1> QED BY <1>2, <1>6

\* Auxiliary rows keep their number.
LEMMA RemappedIsSeq ==
  ASSUME NEW l, NEW rows, IsSeq(rows)
  PROVE  IsSeq(Remapped(l, rows))
  <1>1. Remapped(l, rows) = [i \in DOMAIN rows |-> Remapped(l, rows)[i]]
    BY DEF Remapped
  <1> QED BY <1>1, AsLong

\* The rows of .rela.plt are a table.
LEMMA PltRowsIsSeq ==
  ASSUME NEW l, Parsed(l)
  PROVE  IsSeq(PltRows(l))
  <1>1. IsSeq(Inside(l, OldPlt(l)))
    BY ParsedRows, PickedIsSeq DEF Inside, OldPlt, Kept
  <1>2. IsSeq(AuxPlt(l))
    BY ParsedRows, RemappedIsSeq DEF AuxPlt
  <1>3. IsSeq(Inside(l, AuxPlt(l)))
    BY <1>2, PickedIsSeq DEF Inside
  <1>4. IsSeq(SpecialRows(l))
    <2>1. SpecialRows(l) = [i \in DOMAIN SpecialOrder(l) |-> SpecialRows(l)[i]]
      BY DEF SpecialRows
    <2> QED BY <2>1, SpecialOrderIsSeq, AsLong
  <1>5. IsSeq(Inside(l, OldPlt(l)) \o Inside(l, AuxPlt(l)))
    BY <1>1, <1>3, ConcatIsSeq
  <1>6. IsSeq(Inside(l, OldPlt(l)) \o Inside(l, AuxPlt(l)) \o SpecialRows(l))
    BY <1>4, <1>5, ConcatIsSeq
  <1> QED BY <1>6, ArrangedIsSeq DEF PltRows, ByPlace

\* So are those of .rela.dyn, converted and sorted.
LEMMA DynRowsIsSeq ==
  ASSUME NEW l, Parsed(l), NEW symbols
  PROVE  IsSeq(InOrder(Converted(DynRows(l), symbols)))
  <1>1. IsSeq(Kept(l, l.dyn))
    BY ParsedRows, PickedIsSeq DEF Kept
  <1>2. IsSeq(Remapped(l, l.aux.first)) /\ IsSeq(AuxPlt(l))
    BY ParsedRows, RemappedIsSeq DEF AuxPlt
  <1>3. IsSeq(Outside(l, AuxPlt(l)))
    BY <1>2, PickedIsSeq DEF Outside
  <1>4. IsSeq(Kept(l, l.dyn) \o Remapped(l, l.aux.first))
    BY <1>1, <1>2, ConcatIsSeq
  <1>5. IsSeq(DynRows(l))
    BY <1>3, <1>4, ConcatIsSeq DEF DynRows
  <1>6. IsSeq(Converted(DynRows(l), symbols))
    <2> DEFINE t == Converted(DynRows(l), symbols)
    <2>1. t = [i \in DOMAIN DynRows(l) |-> t[i]]
      BY DEF Converted
    <2> HIDE DEF t
    <2>2. IsSeq(t)
      BY <1>5, <2>1, AsLong
    <2> QED BY <2>2 DEF t
  <1> QED BY <1>6, ArrangedIsSeq DEF InOrder

\* Redirecting keeps the number of rows.
LEMMA RedirectedIsSeq ==
  ASSUME NEW l, NEW rows, IsSeq(rows)
  PROVE  IsSeq(Redirected(l, rows))
  <1>1. Redirected(l, rows) = [i \in DOMAIN rows |-> Redirected(l, rows)[i]]
    BY DEF Redirected
  <1> QED BY <1>1, AsLong

-----------------------------------------------------------------------------
\* What is laid out ends after its start.
LEMMA LaidAfter ==
  ASSUME NEW tables, IsSeq(tables), NEW start \in Nat,
         \A i \in DOMAIN tables : tables[i].align \in Nat \ {0} /\ tables[i].size \in Nat
  PROVE  Laid(tables, start).end \in Nat /\ start <= Laid(tables, start).end
  <1>1. PICK ends : LaidEnds(tables, start, ends)
    BY LaidFacts
  <1>2. Len(tables) \in Nat /\ 0 \in 0..Len(tables) /\ Len(tables) \in 0..Len(tables) /\ 0 <= Len(tables)
    BY AppendFacts
  <1>3. ends[0] <= ends[Len(tables)]
    BY <1>1, <1>2, EndsRise
  <1>4. ends[0] = start /\ ends[Len(tables)] \in Nat /\ Laid(tables, start).end = ends[Len(tables)]
    BY <1>1, <1>2 DEF LaidEnds
  <1> QED BY <1>3, <1>4

\* There are special names, and finitely many.
LEMMA FiveSpecials == Cardinality(Specials) \in Nat \ {0}
  <1>1. IsFiniteSet({"strlen"} \cup {"strcmp"} \cup {"memset"} \cup {"strcpy"} \cup {"strchr"})
    BY FS_Singleton, FS_Union
  <1>2. Specials = {"strlen"} \cup {"strcmp"} \cup {"memset"} \cup {"strcpy"} \cup {"strchr"}
    BY DEF Specials
  <1>3. IsFiniteSet(Specials) /\ Specials # {}
    BY <1>1, <1>2
  <1> QED BY <1>3, FS_EmptySet, FS_CardinalityType

TableKinds == {".dynsym", ".gnu.version", ".gnu.version_r", ".gnu.hash", ".hash", ".dynstr", ".rela.dyn",
           ".rela.plt"}

Measures == [name : TableKinds, align : Nat \ {0}, size : Nat]

\* A table with an alignment and a size.
LEMMA IsMeasure ==
  ASSUME NEW name \in TableKinds, NEW align \in Nat \ {0}, NEW size \in Nat
  PROVE  [name |-> name, align |-> align, size |-> size] \in Measures
  BY DEF Measures

\* The hash tables have sizes.
LEMMA HashesSized ==
  ASSUME NEW l, NEW count \in Nat
  PROVE  GnuHash(l, count) \in Measures /\ SysvHash(l, count) \in Measures
         /\ HashTables(l, count) \in Seq(Measures)
  <1>1. GnuHash(l, count) \in Measures
    <2> DEFINE size == IF l.gnu THEN 28 + 4 * (count - 1) ELSE 0
    <2>1. size \in Nat /\ 8 \in Nat \ {0}
      OBVIOUS
    <2>2. GnuHash(l, count) = [name |-> ".gnu.hash", align |-> 8, size |-> size]
      BY DEF GnuHash
    <2> HIDE DEF size
    <2> QED BY <2>1, <2>2, IsMeasure DEF TableKinds
  <1>2. SysvHash(l, count) \in Measures
    <2> DEFINE size == IF l.sysv THEN 4 * (2 * count + 2) ELSE 0
    <2>1. size \in Nat /\ 4 \in Nat \ {0}
      OBVIOUS
    <2>2. SysvHash(l, count) = [name |-> ".hash", align |-> 4, size |-> size]
      BY DEF SysvHash
    <2> HIDE DEF size
    <2> QED BY <2>1, <2>2, IsMeasure DEF TableKinds
  <1>3. (IF l.gnu THEN <<GnuHash(l, count)>> ELSE <<>>) \in Seq(Measures)
    BY <1>1
  <1>4. (IF l.sysv THEN <<SysvHash(l, count)>> ELSE <<>>) \in Seq(Measures)
    BY <1>2
  <1>5. HashTables(l, count) \in Seq(Measures)
    BY <1>3, <1>4, ConcatProperties DEF HashTables
  <1> QED BY <1>1, <1>2, <1>5

\* Every table has a size and an alignment.
LEMMA TablesSized ==
  ASSUME NEW l, l.verneed \in Nat, NEW hashes \in Seq(Measures), NEW count \in Nat,
         NEW versions \in Nat, NEW strings \in Nat, NEW dyn \in Nat, NEW plt \in Nat
  PROVE  TableList(l, hashes, count, versions, strings, dyn, plt) \in Seq(Measures)
  <1> DEFINE a == <<[name |-> ".dynsym", align |-> 8, size |-> SymbolSize * count],
                    [name |-> ".gnu.version", align |-> 2, size |-> 2 * versions],
                    [name |-> ".gnu.version_r", align |-> 4, size |-> l.verneed]>>
             b == <<[name |-> ".dynstr", align |-> 1, size |-> strings],
                    [name |-> ".rela.dyn", align |-> 8, size |-> RelaSize * dyn],
                    [name |-> ".rela.plt", align |-> 8, size |-> RelaSize * plt]>>
  <1>0. /\ SymbolSize * count \in Nat /\ 2 * versions \in Nat
        /\ RelaSize * dyn \in Nat /\ RelaSize * plt \in Nat
    BY DEF SymbolSize, RelaSize
  <1>1. a \in Seq(Measures)
    <2>1. \A x, y, z \in Measures : <<x, y, z>> \in Seq(Measures)
      OBVIOUS
    <2>2. [name |-> ".dynsym", align |-> 8, size |-> SymbolSize * count] \in Measures
      BY <1>0, IsMeasure DEF TableKinds
    <2>3. [name |-> ".gnu.version", align |-> 2, size |-> 2 * versions] \in Measures
      BY <1>0, IsMeasure DEF TableKinds
    <2>4. [name |-> ".gnu.version_r", align |-> 4, size |-> l.verneed] \in Measures
      BY IsMeasure DEF TableKinds
    <2> QED BY <2>1, <2>2, <2>3, <2>4
  <1>2. b \in Seq(Measures)
    <2>1. \A x, y, z \in Measures : <<x, y, z>> \in Seq(Measures)
      OBVIOUS
    <2>2. [name |-> ".dynstr", align |-> 1, size |-> strings] \in Measures
      BY IsMeasure DEF TableKinds
    <2>3. [name |-> ".rela.dyn", align |-> 8, size |-> RelaSize * dyn] \in Measures
      BY <1>0, IsMeasure DEF TableKinds
    <2>4. [name |-> ".rela.plt", align |-> 8, size |-> RelaSize * plt] \in Measures
      BY <1>0, IsMeasure DEF TableKinds
    <2> QED BY <2>1, <2>2, <2>3, <2>4
  <1>3. TableList(l, hashes, count, versions, strings, dyn, plt) = a \o hashes \o b
    BY DEF TableList
  <1> HIDE DEF a, b
  <1>4. a \o hashes \in Seq(Measures)
    BY <1>1, ConcatProperties
  <1>5. (a \o hashes) \o b \in Seq(Measures)
    BY <1>2, <1>4, ConcatProperties
  <1> QED BY <1>3, <1>5

\* Such tables laid from a place on.
LEMMA MeasuresLaid ==
  ASSUME NEW tables \in Seq(Measures), NEW start \in Nat
  PROVE  Laid(tables, start).end \in Nat /\ start <= Laid(tables, start).end
  <1>1. IsSeq(tables) /\ Len(tables) \in Nat /\ DOMAIN tables = 1..Len(tables)
    BY SeqOverItself
  <1>2. \A i \in DOMAIN tables : tables[i] \in Measures
    BY <1>1
  <1>3. \A m \in Measures : m.align \in Nat \ {0} /\ m.size \in Nat
    BY DEF Measures
  <1>4. \A i \in DOMAIN tables : tables[i].align \in Nat \ {0} /\ tables[i].size \in Nat
    BY <1>2, <1>3
  <1> QED BY <1>1, <1>4, LaidAfter

-----------------------------------------------------------------------------
\* The room the tables may need is a number before any of them is built.
LEMMA RoomIsNat ==
  ASSUME NEW l, Parsed(l)
  PROVE  /\ HeaderRoom(l) \in Nat /\ ExtensionStart(l) \in Nat /\ MappingLength(l) \in Nat
         /\ l.private <= ExtensionStart(l)
  <1>1. HeaderRoom(l) \in Nat
    <2>1. l.phdrs.count \in Nat
      BY DEF Parsed
    <2>2. (l.phdrs.count + 1) * PhdrSize \in Nat
      BY <2>1 DEF PhdrSize
    <2> QED BY <2>2 DEF HeaderRoom
  <1>2. ExtensionStart(l) \in Nat /\ l.private <= ExtensionStart(l)
    <2>1. l.private \in Nat /\ l.align \in Nat \ {0}
      BY DEF Parsed
    <2> QED BY <2>1, AlignIsAbove DEF ExtensionStart
  <1> DEFINE count == Len(l.symbols) + Len(l.aux.symbols) - 1 + ReservedSpecials
             versions == l.versions + Len(l.aux.symbols) - 1 + ReservedSpecials
             strings == Strings(l) + NameSize * Cardinality(Specials)
             dyn == Len(l.dyn) + Len(l.aux.first) + Len(l.aux.second)
             plt == Len(l.plt) + Len(l.aux.second) + ReservedSpecials
             hashes == <<GnuHash(l, count), SysvHash(l, count)>>
  <1>3. /\ Len(l.symbols) \in Nat /\ Len(l.aux.symbols) \in Nat /\ Len(l.dyn) \in Nat
        /\ Len(l.plt) \in Nat /\ Len(l.aux.first) \in Nat /\ Len(l.aux.second) \in Nat
    BY ParsedRows, AppendFacts
  <1>4. ReservedSpecials \in Nat \ {0}
    BY FiveSpecials DEF ReservedSpecials
  <1>5. l.versions \in Nat /\ l.verneed \in Nat /\ l.strings \in Nat /\ l.aux.strings \in Nat
    BY DEF Parsed
  <1>6. count \in Nat /\ versions \in Nat /\ dyn \in Nat /\ plt \in Nat
    <2>1. \A x, y \in Nat, z \in Nat \ {0} : x + y - 1 + z \in Nat
      OBVIOUS
    <2>2. \A x, y, z \in Nat : x + y + z \in Nat
      OBVIOUS
    <2>3. count \in Nat /\ versions \in Nat
      BY <1>3, <1>4, <1>5, <2>1
    <2>4. dyn \in Nat /\ plt \in Nat
      BY <1>3, <1>4, <2>2
    <2> QED BY <2>3, <2>4
  <1>7. strings \in Nat
    <2>1. Cardinality(Specials) \in Nat
      BY FiveSpecials
    <2>2. NameSize * Cardinality(Specials) \in Nat
      BY <2>1 DEF NameSize
    <2> QED BY <1>5, <2>2 DEF Strings
  <1>8. Reserved(l) = TableList(l, hashes, count, versions, strings, dyn, plt)
    BY DEF Reserved
  <1> HIDE DEF count, versions, strings, dyn, plt
  <1>9. hashes \in Seq(Measures)
    <2>1. GnuHash(l, count) \in Measures /\ SysvHash(l, count) \in Measures
      BY <1>6, HashesSized
    <2> QED BY <2>1
  <1> HIDE DEF hashes
  <1>10. Reserved(l) \in Seq(Measures)
    BY <1>5, <1>6, <1>7, <1>8, <1>9, TablesSized
  <1>11. Laid(Reserved(l), HeaderRoom(l)).end \in Nat
    BY <1>1, <1>10, MeasuresLaid
  <1> QED BY <1>1, <1>2, <1>11 DEF MappingLength

\* The tables that are built have sizes: the merged symbols are no fewer than the old.
LEMMA BuiltSized ==
  ASSUME NEW l, Parsed(l), PatchFits(l), AuxiliaryFits(l), NEW dyn \in Nat, NEW plt \in Nat
  PROVE  Built(l, Len(Merged(l)), dyn, plt) \in Seq(Measures)
  <1> DEFINE count == Len(Merged(l))
             strings == Strings(l) + NameSize * (count - Len(Symbols(l)))
  <1>1. count \in Nat /\ Len(Symbols(l)) \in Nat /\ Len(Symbols(l)) <= count
    BY MergedIsLonger
  <1>2. l.verneed \in Nat /\ l.strings \in Nat /\ l.aux.strings \in Nat
    BY DEF Parsed
  <1> HIDE DEF count
  <1>3. strings \in Nat
    <2>1. count - Len(Symbols(l)) \in Nat
      BY <1>1
    <2>2. NameSize * (count - Len(Symbols(l))) \in Nat
      BY <2>1 DEF NameSize
    <2> QED BY <1>2, <2>2 DEF Strings
  <1>4. Built(l, count, dyn, plt)
          = TableList(l, HashTables(l, count), count, count, strings, dyn, plt)
    BY DEF Built
  <1> HIDE DEF strings
  <1>5. HashTables(l, count) \in Seq(Measures)
    BY <1>1, HashesSized
  <1>6. Built(l, count, dyn, plt) \in Seq(Measures)
    BY <1>1, <1>2, <1>3, <1>4, <1>5, TablesSized
  <1> QED BY <1>6 DEF count

\* In a segment of their own they have an end.
LEMMA MovedEnds ==
  ASSUME NEW l, Parsed(l), NEW tables \in Seq(Measures), Moved(l, tables)
  PROVE  Placed(l, tables).end \in Nat
  <1> DEFINE start == ExtensionStart(l) + HeaderRoom(l)
  <1>1. start \in Nat
    BY RoomIsNat
  <1>2. Placed(l, tables) = Laid(tables, start)
    BY DEF Placed, TablesStart
  <1> HIDE DEF start
  <1> QED BY <1>1, <1>2, MeasuresLaid

-----------------------------------------------------------------------------
\* What an id of the index stands for has a size.
LEMMA ArtifactSized ==
  ASSUME Booked, IsSeq(streams),
         index = [registry |-> registry, streams |-> streams, artifacts |-> artifacts],
         NEW id \in Indexed
  PROVE  ArtifactOf(id).size \in Nat
  <1>1. index.registry = registry /\ index.streams = streams
    OBVIOUS
  <1>2. CASE Shown(id) # {}
    <2> DEFINE k == Largest(Shown(id))
               rows == streams[k].records
               i == Largest(Showing(id, rows))
    <2>1. Len(streams) \in Nat /\ DOMAIN streams = 1..Len(streams)
      BY AppendFacts
    <2>2. k \in Shown(id)
      <3>1. Shown(id) \subseteq 0..Len(streams)
        BY <1>1, <2>1 DEF Shown
      <3> QED BY <1>2, <2>1, <3>1, LargestIsIn
    <2>3. k \in DOMAIN streams /\ Showing(id, rows) # {}
      BY <1>1, <2>2 DEF Shown
    <2> HIDE DEF k
    <2>4. IsSeq(rows) /\ \A j \in DOMAIN rows : rows[j].image # None => rows[j].image.size \in Nat
      BY <2>3 DEF Booked
    <2>5. Len(rows) \in Nat /\ DOMAIN rows = 1..Len(rows)
      BY <2>4, AppendFacts
    <2> HIDE DEF rows
    <2>6. i \in Showing(id, rows)
      <3>1. Showing(id, rows) \subseteq 0..Len(rows)
        BY <2>5 DEF Showing
      <3> QED BY <2>3, <2>5, <3>1, LargestIsIn
    <2>7. i \in DOMAIN rows /\ rows[i].image # None
      BY <2>6 DEF Showing
    <2> HIDE DEF i
    <2>8. ArtifactOf(id).size = rows[i].image.size
      BY <1>1, <1>2 DEF ArtifactOf, k, rows, i
    <2> QED BY <2>4, <2>7, <2>8
  <1>3. CASE Shown(id) = {}
    <2>1. id \in DOMAIN registry
      BY <1>1, <1>3 DEF Indexed
    <2>2. registry[id].size \in Nat
      BY <2>1 DEF Booked
    <2>3. ArtifactOf(id).size = registry[id].size
      BY <1>1, <1>3 DEF ArtifactOf
    <2> QED BY <2>2, <2>3
  <1> QED BY <1>2, <1>3

\* What a container unpacks to is a size.
LEMMA UnpackedIsNat ==
  ASSUME NEW container, SizedContainer(container)
  PROVE  /\ Unpacked(container) \in Nat /\ Len(container.writers) \in Nat
         /\ container.size \in Nat /\ container.segments \in Nat
  <1> DEFINE n == Len(container.writers)
             sizes == [i \in DOMAIN container.writers |->
                         IF Packed(container.writers[i]) THEN container.writers[i].size ELSE 0]
  <1>1. IsSeq(container.writers) /\ n \in Nat /\ DOMAIN container.writers = 1..n
    BY ListedIsSeq DEF SizedContainer
  <1> HIDE DEF n
  <1>2. \A i \in 1..n : container.writers[i].size \in Nat
    <2>1. \A i \in 1..n : container.writers[i] \in ToSet(container.writers)
      BY <1>1 DEF ToSet
    <2> QED BY <2>1 DEF SizedContainer
  <1>3. sizes \in [1..n -> Nat]
    BY <1>1, <1>2
  <1>4. Unpacked(container) = SumOf(sizes)
    BY DEF Unpacked
  <1> HIDE DEF sizes
  <1>5. Unpacked(container) \in Nat
    BY <1>1, <1>3, <1>4, SumIsNat
  <1> QED BY <1>1, <1>5 DEF SizedContainer, n

-----------------------------------------------------------------------------
\* The stages at which there is a temporary.
Opened ==
  {"primary", "auxiliary", "extend", "symbols", "imports", "constructors", "plt", "dyn", "redirect",
   "place", "tags", "finalize", "validate", "persist"}

\* The stages from which on the room for the tables is taken, the symbols are
\* merged, the constructors known, the tables placed, the file cut and closed.
Extended == Opened \ {"primary", "auxiliary", "extend"}
Named == Extended \ {"symbols", "imports"}
Profiled == Named \ {"constructors"}
Settled == {"tags", "finalize"}
Closed == {"validate", "persist"}

Bound(f) == "plt" \in DOMAIN f /\ IsSeq(f.plt)
Related(f) == "dyn" \in DOMAIN f /\ IsSeq(f.dyn)

\* What a file holds at each stage.
Holds(f, s) ==
  /\ "length" \in DOMAIN f
  /\ s # "primary" => "decoded" \in DOMAIN f /\ f.decoded
  /\ s \in Named => "symbols" \in DOMAIN f /\ f.symbols = Merged(lib)
  /\ s \in Profiled => "init" \in DOMAIN f
  /\ s \in {"dyn", "redirect", "place"} => Bound(f)
  /\ s \in {"redirect", "place"} => Related(f)
  /\ s \in Settled \cup Closed => {"tables", "finish"} \subseteq DOMAIN f
  /\ s \in Settled => f.finish \in 0..limits.total
  /\ s = "finalize" => f.length = f.finish
  /\ s \in Closed => "loose" \in DOMAIN f /\ f.finish < f.length
  /\ s \notin Closed => f.length <= limits.total

(***************************************************************************)
(* The inductive invariant of the restoration.  What is published is what  *)
(* the temporary held at the last stage, so the invariant says what the    *)
(* file holds at every stage before; and that the file ends behind the     *)
(* last table is known only where the section headers are appended, from   *)
(* the sizes of the tables, the symbols and rows they are made of and the  *)
(* room that was taken for them.                                           *)
(***************************************************************************)
Restored ==
  /\ stage \in Opened \cup {"idle", "read", "hash", "written", "failed"}
  /\ stage # "idle" => step = "done"
  /\ charged \in 0..limits.total /\ records \in 0..limits.entries
  /\ stage = "read" => IsSeq(pending) /\ \A i \in DOMAIN pending : pending[i] \in Indexed
  /\ stage \in Opened => Holds(temp, stage) /\ Parsed(lib) /\ lib.private <= limits.total
  /\ stage \in Extended => MappingLength(lib) <= limits.total
  /\ stage \in Extended \ {"symbols"} => PatchFits(lib) /\ AuxiliaryFits(lib)
  /\ stage \notin Opened => temp = NoFile
  /\ stage \in {"hash", "written"} => Published
  /\ Published => stage \in {"hash", "written", "failed"} /\ Holds(dest, "persist")

\* The temporary with parts written: what it has, and what it keeps.
LEMMA WithFacts ==
  ASSUME NEW parts
  PROVE  /\ DOMAIN With(parts) = DOMAIN temp \cup DOMAIN parts
         /\ \A x \in DOMAIN parts : With(parts)[x] = parts[x]
         /\ \A x \in DOMAIN temp : x \notin DOMAIN parts => With(parts)[x] = temp[x]
  BY DEF With

\* A step of a call that has a temporary: to the next stage, or the call fails.
LEMMA Works ==
  ASSUME Restored, NEW from \in Opened, NEW to \in Opened, NEW ok \in BOOLEAN, NEW f,
         Proceed(from, ok, to), Keep(ok, f), UNCHANGED <<lib, pending, dest>>,
         ok => /\ charged' \in 0..limits.total /\ records' \in 0..limits.entries
               /\ Holds(f, to)
               /\ to \in Extended => MappingLength(lib) <= limits.total
               /\ to \in Extended \ {"symbols"} => PatchFits(lib) /\ AuxiliaryFits(lib),
         ~ ok => UNCHANGED <<charged, records>>
  PROVE  Restored'
  <1>1. stage = from /\ UNCHANGED <<limits, step, index, lib, dest>> /\ step = "done"
    <2>1. stage = from /\ UNCHANGED <<limits, step, index>>
      BY DEF Proceed, vars
    <2>2. from # "idle"
      BY DEF Opened
    <2> QED BY <2>1, <2>2 DEF Restored
  <1>2. dest = NoFile /\ Parsed(lib) /\ lib.private <= limits.total
    BY <1>1 DEF Restored, Opened, Published
  <1>3. CASE ok
    <2>1. stage' = to /\ temp' = f
      BY <1>3 DEF Proceed, Keep
    <2>2. Holds(temp, stage)'
      <3>1. Holds(f, to)
        BY <1>3
      <3> QED BY <1>1, <2>1, <3>1 DEF Holds
    <2> QED BY <1>1, <1>2, <1>3, <2>1, <2>2 DEF Restored, Published, Opened
  <1>4. CASE ~ ok
    <2>1. stage' = "failed" /\ temp' = NoFile /\ UNCHANGED <<charged, records>>
      BY <1>4 DEF Proceed, Keep
    <2> QED BY <1>1, <1>2, <2>1 DEF Restored, Published, Opened, Extended
  <1> QED BY <1>3, <1>4

\* A library under a seed is as parsed as before.
LEMMA SeededParsed ==
  ASSUME NEW l, Parsed(l), NEW seeded
  PROVE  Parsed(Seeded(l, seeded)) /\ Seeded(l, seeded).private = l.private
  <1> DEFINE a == [l.aux EXCEPT !.permuted = seeded]
             m == Seeded(l, seeded)
  <1>1. /\ DOMAIN a = DOMAIN l.aux /\ a.symbols = l.aux.symbols /\ a.strings = l.aux.strings
        /\ a.first = l.aux.first /\ a.second = l.aux.second
    BY DEF Parsed
  <1>2. /\ DOMAIN m = DOMAIN l /\ m.aux = a
        /\ \A x \in ImageParts : x # "aux" => m[x] = l[x]
    BY DEF Parsed, Seeded, ImageParts
  <1> HIDE DEF a, m
  <1>3. /\ m.headers = l.headers /\ m.align = l.align /\ m.private = l.private
        /\ m.versions = l.versions /\ m.strings = l.strings /\ m.verneed = l.verneed
        /\ m.slots = l.slots /\ m.phdrs = l.phdrs
        /\ m.got = l.got /\ m.init = l.init /\ m.inits = l.inits /\ m.callbacks = l.callbacks
        /\ m.symbols = l.symbols /\ m.patch = l.patch /\ m.dyn = l.dyn /\ m.plt = l.plt /\ m.loose = l.loose
        /\ m.primary = l.primary /\ m.auxiliary = l.auxiliary
    BY <1>2 DEF ImageParts
  <1>4. Parsed(m)
    BY <1>1, <1>2, <1>3 DEF Parsed
  <1> QED BY <1>3, <1>4 DEF m

\* A step of another part of the call.
LEMMA RestoredStill ==
  ASSUME Restored, UNCHANGED restoring, limits' = limits,
         stage # "idle" => step' = "done" /\ index' = index
  PROVE  Restored'
  <1>1. UNCHANGED <<stage, lib, pending, charged, records, temp, dest>>
    BY DEF restoring
  <1>2. Holds(temp, stage) => Holds(temp, stage)'
    BY <1>1 DEF Holds
  <1>3. Holds(dest, "persist") => Holds(dest, "persist")'
    BY <1>1 DEF Holds
  <1>4. stage = "read" => Indexed' = Indexed
    BY DEF Indexed, Shown, Showing
  <1> QED BY <1>1, <1>2, <1>3, <1>4 DEF Restored, Published

-----------------------------------------------------------------------------
\* What the proofs of the steps take from the extraction.
Extracted ==
  /\ limits.total \in Nat /\ limits.entries \in Nat /\ limits.entry \in Nat
  /\ step = "done" => \A id \in Indexed : ArtifactOf(id).size \in Nat

\* What the restoration takes from the extraction.
LEMMA MeasuredExtracted == Measured => Extracted
  <1> SUFFICES ASSUME Measured
               PROVE  Extracted
    OBVIOUS
  <1>1. Ground /\ Booked
    BY DEF Measured, Tally
  <1>2. /\ limits.total \in Nat /\ limits.entries \in Nat /\ limits.entry \in Nat /\ IsSeq(streams)
    BY <1>1, GroundFacts
  <1>3. step = "done" => index = [registry |-> registry, streams |-> streams, artifacts |-> artifacts]
    BY <1>1 DEF Ground, Begun
  <1> QED BY <1>1, <1>2, <1>3, ArtifactSized DEF Extracted

\* An optional artifact is asked for when it is indexed.
LEMMA OptionalListed ==
  ASSUME NEW id
  PROVE  Optional(id) \in Seq(Indexed)
  <1> DEFINE S == Indexed
  <1>1. Optional(id) = IF id \in S THEN <<id>> ELSE <<>>
    BY DEF Optional
  <1> HIDE DEF S
  <1>2. \A x \in S : <<x>> \in Seq(S)
    OBVIOUS
  <1>3. <<>> \in Seq(S)
    OBVIOUS
  <1>4. Optional(id) \in Seq(S)
    BY <1>1, <1>2, <1>3, Zenon
  <1> QED BY <1>4 DEF S

\* Every artifact to be read is an indexed one.
LEMMA LoadRestored == Extracted /\ Restored /\ LoadArtifacts => Restored'
  <1> SUFFICES ASSUME Extracted, Restored, LoadArtifacts
               PROVE  Restored'
    OBVIOUS
  <1>1. /\ step = "done" /\ stage = "idle" /\ UNCHANGED <<limits, step, index>>
        /\ UNCHANGED <<lib, charged, records, temp, dest>>
        /\ stage' \in {"read", "failed"}
        /\ stage' = "read" =>
             /\ ArtifactsFit
             /\ pending' = <<155, 158>> \o Optional(Seed) \o Optional(Constructors)
    BY DEF LoadArtifacts, Proceed, vars
  <1>2. temp = NoFile /\ dest = NoFile /\ charged \in 0..limits.total /\ records \in 0..limits.entries
    BY <1>1 DEF Restored, Published, Opened
  <1>3. Indexed' = Indexed
    BY <1>1 DEF Indexed, Shown, Showing
  <1>4. ASSUME stage' = "read"
        PROVE  IsSeq(pending') /\ \A i \in DOMAIN pending' : pending'[i] \in Indexed
    <2> DEFINE first == <<155, 158>>
               second == Optional(Seed)
               third == Optional(Constructors)
    <2>1. 155 \in Indexed /\ 158 \in Indexed
      BY <1>1, <1>4 DEF ArtifactsFit, Required
    <2>2. first \in Seq(Indexed)
      BY <2>1
    <2>3. second \in Seq(Indexed) /\ third \in Seq(Indexed)
      BY OptionalListed
    <2>4. pending' = (first \o second) \o third
      BY <1>1, <1>4
    <2> HIDE DEF first, second, third
    <2>5. pending' \in Seq(Indexed)
      BY <2>2, <2>3, <2>4, ConcatProperties
    <2> QED BY <2>5, SeqOverItself
  <1> QED BY <1>1, <1>2, <1>3, <1>4 DEF Restored, Published, Opened, Extended

\* An artifact is charged before it is read.
LEMMA ReadRestored == Extracted /\ Restored /\ ReadArtifact => Restored'
  <1> SUFFICES ASSUME Extracted, Restored, ReadArtifact
               PROVE  Restored'
    OBVIOUS
  <1>1. /\ stage = "read" /\ pending # <<>> /\ UNCHANGED <<limits, step, index>>
        /\ UNCHANGED <<lib, records, temp, dest>> /\ stage' \in {"read", "failed"}
        /\ pending' = Tail(pending)
        /\ \/ charged' = charged
           \/ /\ Affordable(ArtifactOf(Head(pending)).size)
              /\ charged' = charged + ArtifactOf(Head(pending)).size
    <2>1. stage = "read" /\ pending # <<>> /\ pending' = Tail(pending)
      BY DEF ReadArtifact
    <2>2. UNCHANGED <<lib, records, temp, dest>>
      BY DEF ReadArtifact
    <2>3. UNCHANGED <<limits, step, index>> /\ stage' \in {"read", "failed"}
      BY DEF ReadArtifact, Proceed, vars
    <2>4. \/ charged' = charged
          \/ /\ Affordable(ArtifactOf(Head(pending)).size)
             /\ charged' = charged + ArtifactOf(Head(pending)).size
      BY DEF ReadArtifact
    <2> QED BY <2>1, <2>2, <2>3, <2>4
  <1>2. /\ temp = NoFile /\ dest = NoFile /\ charged \in 0..limits.total
        /\ records \in 0..limits.entries /\ step = "done"
        /\ IsSeq(pending) /\ \A i \in DOMAIN pending : pending[i] \in Indexed
    BY <1>1 DEF Restored, Published, Opened
  <1>3. Indexed' = Indexed
    BY <1>1 DEF Indexed, Shown, Showing
  <1>4. IsSeq(pending') /\ \A i \in DOMAIN pending' : pending'[i] \in Indexed
    BY <1>1, <1>2, TailFacts
  <1>5. charged' \in 0..limits.total
    <2>1. Head(pending) \in Indexed
      BY <1>1, <1>2, TailFacts
    <2>2. ArtifactOf(Head(pending)).size \in Nat /\ limits.total \in Nat
      BY <1>2, <2>1 DEF Extracted
    <2> QED BY <1>1, <1>2, <2>2 DEF Affordable
  <1> QED BY <1>1, <1>2, <1>3, <1>4, <1>5 DEF Restored, Published, Opened, Extended

\* The temporary begins no longer than the total.
LEMMA CreateRestored == Extracted /\ Restored /\ CreateTemporary => Restored'
  <1> SUFFICES ASSUME Extracted, Restored, CreateTemporary
               PROVE  Restored'
    OBVIOUS
  <1> DEFINE library == Seeded(Libraries[Image9d], Seed \in Indexed)
             ok == Image9d \in DOMAIN Libraries /\ HeadersFit(library)
  <1>1. /\ stage = "read" /\ UNCHANGED <<limits, step, index>>
        /\ UNCHANGED <<charged, records, dest>>
        /\ ok => stage' = "primary" /\ lib' = library
                 /\ temp' = [length |-> library.private, decoded |-> FALSE]
        /\ ~ ok => stage' = "failed" /\ lib' = lib /\ temp' = NoFile
    BY DEF CreateTemporary, Proceed, Keep, vars
  <1>2. /\ dest = NoFile /\ charged \in 0..limits.total /\ records \in 0..limits.entries
        /\ step = "done"
    BY <1>1 DEF Restored, Published, Opened
  <1>3. CASE ok
    <2>1. Parsed(library) /\ library.private <= limits.total
      <3>1. Parsed(Libraries[Image9d])
        BY <1>3, LibraryAssumption
      <3> QED BY <1>3, <3>1, SeededParsed DEF HeadersFit, Sizable
    <2>2. stage' = "primary" /\ lib' = library /\ temp' = [length |-> library.private, decoded |-> FALSE]
      BY <1>1, <1>3
    <2> HIDE DEF library, ok
    <2>3. Holds(temp, stage)'
      BY <1>1, <2>1, <2>2 DEF Holds, Named, Profiled, Settled, Closed, Extended, Opened
    <2> QED BY <1>1, <1>2, <2>1, <2>2, <2>3 DEF Restored, Published, Opened, Extended
  <1>4. CASE ~ ok
    <2> HIDE DEF ok, library
    <2> QED BY <1>1, <1>2, <1>4 DEF Restored, Published, Opened, Extended
  <1> QED BY <1>3, <1>4

-----------------------------------------------------------------------------
\* What the temporary holds at the running stage, and what the stage was let into for.
LEMMA AtWork ==
  ASSUME Restored, stage \in Opened
  PROVE  /\ Holds(temp, stage) /\ Parsed(lib) /\ lib.private <= limits.total
         /\ charged \in 0..limits.total /\ records \in 0..limits.entries
         /\ stage \in Extended => MappingLength(lib) <= limits.total
         /\ stage \in Extended \ {"symbols"} => PatchFits(lib) /\ AuxiliaryFits(lib)
  BY DEF Restored

\* The primary container is counted and charged within the ceilings.
LEMMA PrimaryRestored == Extracted /\ Restored /\ DecodePrimary => Restored'
  <1> SUFFICES ASSUME Extracted, Restored, DecodePrimary
               PROVE  Restored'
    OBVIOUS
  <1> DEFINE ok == /\ WritersFit(lib.primary, LoadEnd(lib), charged)
                   /\ \A w \in ToSet(lib.primary.writers) : Covered(w)
             f == With([decoded |-> TRUE])
  <1>1. /\ Proceed("primary", ok, "auxiliary") /\ Keep(ok, f) /\ UNCHANGED <<lib, pending, dest>>
        /\ charged' = IF ok THEN charged + Unpacked(lib.primary) ELSE charged
        /\ records' = IF ok THEN records + lib.primary.segments + Len(lib.primary.writers) ELSE records
    BY DEF DecodePrimary
  <1>2. ok \in BOOLEAN /\ (ok => WritersFit(lib.primary, LoadEnd(lib), charged))
    OBVIOUS
  <1> HIDE DEF ok
  <1>3. stage = "primary"
    BY <1>1 DEF Proceed
  <1>4. /\ Holds(temp, stage) /\ Parsed(lib)
        /\ charged \in 0..limits.total /\ records \in 0..limits.entries
    BY <1>3, AtWork DEF Opened
  <1>5. ok => charged' \in 0..limits.total /\ records' \in 0..limits.entries
    <2>1. /\ Unpacked(lib.primary) \in Nat /\ Len(lib.primary.writers) \in Nat
          /\ lib.primary.segments \in Nat
      BY <1>4, UnpackedIsNat DEF Parsed
    <2>2. limits.total \in Nat /\ limits.entries \in Nat
      BY DEF Extracted
    <2>3. ok => /\ records + lib.primary.segments + Len(lib.primary.writers) <= limits.entries
                /\ charged + Unpacked(lib.primary) <= limits.total
      BY <1>2 DEF WritersFit
    <2>4. SUFFICES ASSUME ok
                   PROVE  charged' \in 0..limits.total /\ records' \in 0..limits.entries
      OBVIOUS
    <2>5. charged' = charged + Unpacked(lib.primary)
      BY <1>1, <2>4
    <2>6. records' = records + lib.primary.segments + Len(lib.primary.writers)
      BY <1>1, <2>4
    <2>7. charged' \in 0..limits.total
      <3>1. charged + Unpacked(lib.primary) \in Nat
        BY <1>4, <2>1, <2>2
      <3>2. charged' \in Nat /\ charged' <= limits.total
        BY <2>3, <2>4, <2>5, <3>1
      <3> QED BY <2>2, <3>2
    <2>8. records' \in 0..limits.entries
      <3>1. records + lib.primary.segments + Len(lib.primary.writers) \in Nat
        BY <1>4, <2>1, <2>2
      <3>2. records' \in Nat /\ records' <= limits.entries
        BY <2>3, <2>4, <2>6, <3>1
      <3> QED BY <2>2, <3>2
    <2> QED BY <2>7, <2>8
  <1>6. Holds(f, "auxiliary")
    <2>1. /\ DOMAIN f = DOMAIN temp \cup {"decoded"} /\ f.decoded = TRUE
          /\ \A x \in DOMAIN temp : x # "decoded" => f[x] = temp[x]
      BY WithFacts, DOMAIN [decoded |-> TRUE] = {"decoded"}
    <2> HIDE DEF f
    <2> QED BY <1>3, <1>4, <2>1 DEF Holds, Named, Profiled, Settled, Closed, Extended, Opened
  <1>7. ~ ok => UNCHANGED <<charged, records>>
    BY <1>1
  <1>8. "primary" \in Opened /\ "auxiliary" \in Opened /\ "auxiliary" \notin Extended
    BY DEF Opened, Extended
  <1> HIDE DEF f
  <1> QED BY <1>1, <1>2, <1>5, <1>6, <1>7, <1>8, Works

-----------------------------------------------------------------------------
\* So is the auxiliary one, with the image it is decoded into.
LEMMA AuxiliaryRestored == Extracted /\ Restored /\ DecodeAuxiliary => Restored'
  <1> SUFFICES ASSUME Extracted, Restored, DecodeAuxiliary
               PROVE  Restored'
    OBVIOUS
  <1> DEFINE ok == /\ Affordable(lib.auxiliary.size)
                   /\ WritersFit(lib.auxiliary, lib.auxiliary.size, charged + lib.auxiliary.size)
  <1>1. /\ Proceed("auxiliary", ok, "extend") /\ Keep(ok, temp) /\ UNCHANGED <<lib, pending, dest>>
        /\ charged' = IF ok THEN charged + lib.auxiliary.size + Unpacked(lib.auxiliary) ELSE charged
        /\ records' = IF ok THEN records + lib.auxiliary.segments + Len(lib.auxiliary.writers)
                      ELSE records
    BY DEF DecodeAuxiliary
  <1>2. ok \in BOOLEAN
        /\ (ok => WritersFit(lib.auxiliary, lib.auxiliary.size, charged + lib.auxiliary.size))
    OBVIOUS
  <1> HIDE DEF ok
  <1>3. stage = "auxiliary"
    BY <1>1 DEF Proceed
  <1>4. /\ Holds(temp, stage) /\ Parsed(lib)
        /\ charged \in 0..limits.total /\ records \in 0..limits.entries
    BY <1>3, AtWork DEF Opened
  <1>5. ok => charged' \in 0..limits.total /\ records' \in 0..limits.entries
    <2>1. /\ Unpacked(lib.auxiliary) \in Nat /\ Len(lib.auxiliary.writers) \in Nat
          /\ lib.auxiliary.segments \in Nat /\ lib.auxiliary.size \in Nat
      BY <1>4, UnpackedIsNat DEF Parsed, SizedContainer
    <2>2. limits.total \in Nat /\ limits.entries \in Nat
      BY DEF Extracted
    <2>3. ok => /\ records + lib.auxiliary.segments + Len(lib.auxiliary.writers) <= limits.entries
                /\ charged + lib.auxiliary.size + Unpacked(lib.auxiliary) <= limits.total
      BY <1>2 DEF WritersFit
    <2>4. SUFFICES ASSUME ok
                   PROVE  charged' \in 0..limits.total /\ records' \in 0..limits.entries
      OBVIOUS
    <2>5. charged' = charged + lib.auxiliary.size + Unpacked(lib.auxiliary)
      BY <1>1, <2>4
    <2>6. records' = records + lib.auxiliary.segments + Len(lib.auxiliary.writers)
      BY <1>1, <2>4
    <2>7. charged' \in 0..limits.total
      <3>1. charged + lib.auxiliary.size + Unpacked(lib.auxiliary) \in Nat
        BY <1>4, <2>1, <2>2
      <3>2. charged' \in Nat /\ charged' <= limits.total
        BY <2>3, <2>4, <2>5, <3>1
      <3> QED BY <2>2, <3>2
    <2>8. records' \in 0..limits.entries
      <3>1. records + lib.auxiliary.segments + Len(lib.auxiliary.writers) \in Nat
        BY <1>4, <2>1, <2>2
      <3>2. records' \in Nat /\ records' <= limits.entries
        BY <2>3, <2>4, <2>6, <3>1
      <3> QED BY <2>2, <3>2
    <2> QED BY <2>7, <2>8
  <1>6. Holds(temp, "extend")
    BY <1>3, <1>4 DEF Holds, Named, Profiled, Settled, Closed, Extended, Opened
  <1>7. ~ ok => UNCHANGED <<charged, records>>
    BY <1>1
  <1>8. "auxiliary" \in Opened /\ "extend" \in Opened /\ "extend" \notin Extended
    BY DEF Opened, Extended
  <1> QED BY <1>1, <1>2, <1>5, <1>6, <1>7, <1>8, Works

\* The room for the tables is within the total.
LEMMA ExtendRestored == Extracted /\ Restored /\ Extend => Restored'
  <1> SUFFICES ASSUME Extracted, Restored, Extend
               PROVE  Restored'
    OBVIOUS
  <1> DEFINE ok == /\ lib.aux.symbols # <<>>
                   /\ MappingLength(lib) >= lib.private /\ Sizable(MappingLength(lib))
             f == With([length |-> MappingLength(lib)])
  <1>1. /\ Proceed("extend", ok, "symbols") /\ Keep(ok, f)
        /\ UNCHANGED <<lib, pending, charged, records, dest>>
    BY DEF Extend
  <1>2. ok \in BOOLEAN /\ (ok => MappingLength(lib) <= limits.total)
    BY DEF Sizable
  <1> HIDE DEF ok
  <1>3. stage = "extend"
    BY <1>1 DEF Proceed
  <1>4. /\ Holds(temp, stage)
        /\ charged \in 0..limits.total /\ records \in 0..limits.entries
    BY <1>3, AtWork DEF Opened
  <1>5. ok => Holds(f, "symbols")
    <2>1. /\ DOMAIN f = DOMAIN temp \cup {"length"} /\ f.length = MappingLength(lib)
          /\ \A x \in DOMAIN temp : x # "length" => f[x] = temp[x]
      BY WithFacts, DOMAIN [length |-> MappingLength(lib)] = {"length"}
    <2> HIDE DEF f
    <2> QED BY <1>2, <1>3, <1>4, <2>1 DEF Holds, Named, Profiled, Settled, Closed, Extended, Opened
  <1>6. "extend" \in Opened /\ "symbols" \in Opened
    BY DEF Opened
  <1> HIDE DEF f
  <1> QED BY <1>1, <1>2, <1>4, <1>5, <1>6, Works

\* The patch and the auxiliary symbols fit from here on.
LEMMA SymbolsRestored == Extracted /\ Restored /\ MergeSymbols => Restored'
  <1> SUFFICES ASSUME Extracted, Restored, MergeSymbols
               PROVE  Restored'
    OBVIOUS
  <1> DEFINE ok == /\ PatchFits(lib) /\ AuxiliaryFits(lib)
                   /\ Scratch(SymbolSize * Len(Symbols(lib))) /\ Scratch(Strings(lib) + 64)
             f == With([symbols |-> Symbols(lib)])
  <1>1. /\ Proceed("symbols", ok, "imports") /\ Keep(ok, f)
        /\ UNCHANGED <<lib, pending, charged, records, dest>>
    BY DEF MergeSymbols
  <1>2. ok \in BOOLEAN /\ (ok => PatchFits(lib) /\ AuxiliaryFits(lib))
    OBVIOUS
  <1> HIDE DEF ok
  <1>3. stage = "symbols"
    BY <1>1 DEF Proceed
  <1>4. /\ Holds(temp, stage) /\ MappingLength(lib) <= limits.total
        /\ charged \in 0..limits.total /\ records \in 0..limits.entries
    BY <1>3, AtWork DEF Opened, Extended
  <1>5. Holds(f, "imports")
    <2>1. /\ DOMAIN f = DOMAIN temp \cup {"symbols"}
          /\ \A x \in DOMAIN temp : x # "symbols" => f[x] = temp[x]
      BY WithFacts, DOMAIN [symbols |-> Symbols(lib)] = {"symbols"}
    <2> HIDE DEF f
    <2> QED BY <1>3, <1>4, <2>1 DEF Holds, Named, Profiled, Settled, Closed, Extended, Opened
  <1>6. "symbols" \in Opened /\ "imports" \in Opened
    BY DEF Opened
  <1> HIDE DEF f
  <1> QED BY <1>1, <1>2, <1>4, <1>5, <1>6, Works

\* The symbols of the file are the merged ones.
LEMMA ImportsRestored == Extracted /\ Restored /\ AddImports => Restored'
  <1> SUFFICES ASSUME Extracted, Restored, AddImports
               PROVE  Restored'
    OBVIOUS
  <1> DEFINE ok == RelocationsFit(lib) /\ MissingFits(lib) /\ SpecialsFit(lib)
             f == With([symbols |-> Merged(lib)])
  <1>1. /\ Proceed("imports", ok, "constructors") /\ Keep(ok, f)
        /\ UNCHANGED <<lib, pending, charged, records, dest>>
    BY DEF AddImports
  <1>2. ok \in BOOLEAN
    OBVIOUS
  <1> HIDE DEF ok
  <1>3. stage = "imports"
    BY <1>1 DEF Proceed
  <1>4. /\ Holds(temp, stage) /\ MappingLength(lib) <= limits.total
        /\ PatchFits(lib) /\ AuxiliaryFits(lib)
        /\ charged \in 0..limits.total /\ records \in 0..limits.entries
    BY <1>3, AtWork DEF Opened, Extended
  <1>5. Holds(f, "constructors")
    <2>1. /\ DOMAIN f = DOMAIN temp \cup {"symbols"} /\ f.symbols = Merged(lib)
          /\ \A x \in DOMAIN temp : x # "symbols" => f[x] = temp[x]
      BY WithFacts, DOMAIN [symbols |-> Merged(lib)] = {"symbols"}
    <2> HIDE DEF f
    <2> QED BY <1>3, <1>4, <2>1 DEF Holds, Named, Profiled, Settled, Closed, Extended, Opened
  <1>6. "imports" \in Opened /\ "constructors" \in Opened
    BY DEF Opened
  <1> HIDE DEF f
  <1> QED BY <1>1, <1>2, <1>4, <1>5, <1>6, Works

\* The constructors are known, with 0x98 or without.
LEMMA ConstructorsRestored == Extracted /\ Restored /\ ProfileConstructors => Restored'
  <1> SUFFICES ASSUME Extracted, Restored, ProfileConstructors
               PROVE  Restored'
    OBVIOUS
  <1> DEFINE ok == Constructors \in Indexed => ConstructorsFit(lib)
             init == IF Constructors \in Indexed THEN Addends(lib) ELSE <<>>
             f == With([init |-> init])
  <1>1. /\ Proceed("constructors", ok, "plt") /\ Keep(ok, f)
        /\ UNCHANGED <<lib, pending, charged, records, dest>>
    BY DEF ProfileConstructors
  <1>2. ok \in BOOLEAN
    OBVIOUS
  <1> HIDE DEF ok, init
  <1>3. stage = "constructors"
    BY <1>1 DEF Proceed
  <1>4. /\ Holds(temp, stage) /\ MappingLength(lib) <= limits.total
        /\ PatchFits(lib) /\ AuxiliaryFits(lib)
        /\ charged \in 0..limits.total /\ records \in 0..limits.entries
    BY <1>3, AtWork DEF Opened, Extended
  <1>5. Holds(f, "plt")
    <2>1. /\ DOMAIN f = DOMAIN temp \cup {"init"}
          /\ \A x \in DOMAIN temp : x # "init" => f[x] = temp[x]
      BY WithFacts, DOMAIN [init |-> init] = {"init"}
    <2> HIDE DEF f
    <2> QED BY <1>3, <1>4, <2>1 DEF Holds, Named, Profiled, Settled, Closed, Extended, Opened
  <1>6. "constructors" \in Opened /\ "plt" \in Opened
    BY DEF Opened
  <1> HIDE DEF f
  <1> QED BY <1>1, <1>2, <1>4, <1>5, <1>6, Works

\* The rows of .rela.plt are in the file.
LEMMA PltRestored == Extracted /\ Restored /\ BindPlt => Restored'
  <1> SUFFICES ASSUME Extracted, Restored, BindPlt
               PROVE  Restored'
    OBVIOUS
  <1> DEFINE ok == PltFits(lib)
             f == With([plt |-> PltRows(lib)])
  <1>1. /\ Proceed("plt", ok, "dyn") /\ Keep(ok, f)
        /\ UNCHANGED <<lib, pending, charged, records, dest>>
    BY DEF BindPlt
  <1>2. ok \in BOOLEAN
    BY DEF PltFits
  <1> HIDE DEF ok
  <1>3. stage = "plt"
    BY <1>1 DEF Proceed
  <1>4. /\ Holds(temp, stage) /\ MappingLength(lib) <= limits.total /\ Parsed(lib)
        /\ PatchFits(lib) /\ AuxiliaryFits(lib)
        /\ charged \in 0..limits.total /\ records \in 0..limits.entries
    BY <1>3, AtWork DEF Opened, Extended
  <1>5. Holds(f, "dyn")
    <2>1. /\ DOMAIN f = DOMAIN temp \cup {"plt"} /\ f.plt = PltRows(lib)
          /\ \A x \in DOMAIN temp : x # "plt" => f[x] = temp[x]
      BY WithFacts, DOMAIN [plt |-> PltRows(lib)] = {"plt"}
    <2>2. IsSeq(PltRows(lib))
      BY <1>4, PltRowsIsSeq
    <2> HIDE DEF f
    <2> QED BY <1>3, <1>4, <2>1, <2>2 DEF Holds, Bound, Named, Profiled, Settled, Closed, Extended, Opened
  <1>6. "plt" \in Opened /\ "dyn" \in Opened
    BY DEF Opened
  <1> HIDE DEF f
  <1> QED BY <1>1, <1>2, <1>4, <1>5, <1>6, Works

-----------------------------------------------------------------------------
\* The rows of .rela.dyn are in the file.
LEMMA DynRestored == Extracted /\ Restored /\ RelocateDyn => Restored'
  <1> SUFFICES ASSUME Extracted, Restored, RelocateDyn
               PROVE  Restored'
    OBVIOUS
  <1> DEFINE ok == SymbolsExist(DynRows(lib), temp.symbols)
             dyn == InOrder(Converted(DynRows(lib), temp.symbols))
             f == With([dyn |-> dyn])
  <1>1. /\ Proceed("dyn", ok, "redirect") /\ Keep(ok, f)
        /\ UNCHANGED <<lib, pending, charged, records, dest>>
    BY DEF RelocateDyn
  <1>2. ok \in BOOLEAN
    BY DEF SymbolsExist
  <1> HIDE DEF ok
  <1>3. stage = "dyn"
    BY <1>1 DEF Proceed
  <1>4. /\ Holds(temp, stage) /\ MappingLength(lib) <= limits.total /\ Parsed(lib)
        /\ PatchFits(lib) /\ AuxiliaryFits(lib)
        /\ charged \in 0..limits.total /\ records \in 0..limits.entries
    BY <1>3, AtWork DEF Opened, Extended
  <1>5. Holds(f, "redirect")
    <2>1. IsSeq(dyn)
      BY <1>4, DynRowsIsSeq
    <2> HIDE DEF dyn
    <2>2. /\ DOMAIN f = DOMAIN temp \cup {"dyn"} /\ f.dyn = dyn
          /\ \A x \in DOMAIN temp : x # "dyn" => f[x] = temp[x]
      BY WithFacts, DOMAIN [dyn |-> dyn] = {"dyn"}
    <2> HIDE DEF f
    <2> QED BY <1>3, <1>4, <2>1, <2>2
            DEF Holds, Bound, Related, Named, Profiled, Settled, Closed, Extended, Opened
  <1>6. "dyn" \in Opened /\ "redirect" \in Opened
    BY DEF Opened
  <1> HIDE DEF f
  <1> QED BY <1>1, <1>2, <1>4, <1>5, <1>6, Works

\* Redirected or not, they are as many.
LEMMA RedirectRestored == Extracted /\ Restored /\ Redirect => Restored'
  <1> SUFFICES ASSUME Extracted, Restored, Redirect
               PROVE  Restored'
    OBVIOUS
  <1> DEFINE redirected == Constructors \in Indexed
             ok == /\ redirected => RedirectFits(lib, temp.dyn)
                   /\ Scratch(RelaSize * Len(temp.dyn)) /\ Scratch(RelaSize * Len(temp.plt))
             dyn == IF redirected THEN Redirected(lib, temp.dyn) ELSE temp.dyn
             relative == RelativePrefix(temp.dyn)
             f == With([dyn |-> dyn, relative |-> relative])
  <1>1. /\ Proceed("redirect", ok, "place") /\ Keep(ok, f)
        /\ UNCHANGED <<lib, pending, charged, records, dest>>
    BY DEF Redirect
  <1>2. ok \in BOOLEAN
    OBVIOUS
  <1> HIDE DEF ok, relative
  <1>3. stage = "redirect"
    BY <1>1 DEF Proceed
  <1>4. /\ Holds(temp, stage) /\ MappingLength(lib) <= limits.total /\ Parsed(lib)
        /\ PatchFits(lib) /\ AuxiliaryFits(lib)
        /\ charged \in 0..limits.total /\ records \in 0..limits.entries
    BY <1>3, AtWork DEF Opened, Extended
  <1>5. Holds(f, "place")
    <2>1. IsSeq(dyn)
      BY <1>3, <1>4, RedirectedIsSeq DEF Holds, Related
    <2> HIDE DEF dyn
    <2>2. /\ DOMAIN f = DOMAIN temp \cup {"dyn", "relative"} /\ f.dyn = dyn
          /\ \A x \in DOMAIN temp : x \notin {"dyn", "relative"} => f[x] = temp[x]
      BY WithFacts, DOMAIN [dyn |-> dyn, relative |-> relative] = {"dyn", "relative"}
    <2> HIDE DEF f
    <2> QED BY <1>3, <1>4, <2>1, <2>2
            DEF Holds, Bound, Related, Named, Profiled, Settled, Closed, Extended, Opened
  <1>6. "redirect" \in Opened /\ "place" \in Opened
    BY DEF Opened
  <1> HIDE DEF f
  <1> QED BY <1>1, <1>2, <1>4, <1>5, <1>6, Works

\* The tables end within the room that was taken, or where the private section began.
LEMMA PlaceRestored == Extracted /\ Restored /\ Place => Restored'
  <1> SUFFICES ASSUME Extracted, Restored, Place
               PROVE  Restored'
    OBVIOUS
  <1> DEFINE tables == Built(lib, Len(temp.symbols), Len(temp.dyn), Len(temp.plt))
             moved == Moved(lib, tables)
             placed == Placed(lib, tables)
             ok == IF moved THEN Extensible(lib, placed) ELSE Mapped(lib, placed)
             finish == IF moved THEN placed.end ELSE lib.private
             parts == [tables |-> placed.at, cleared |-> Window(lib),
                       header |-> HeaderPlace(lib, moved), finish |-> finish]
             f == With(parts)
  <1>1. /\ Proceed("place", ok, "tags") /\ Keep(ok, f)
        /\ UNCHANGED <<lib, pending, charged, records, dest>>
    BY DEF Place
  <1>2. /\ ok \in BOOLEAN
        /\ ok /\ moved => placed.end <= MappingLength(lib)
    BY DEF Mapped, Extensible
  <1> HIDE DEF ok
  <1>3. stage = "place"
    BY <1>1 DEF Proceed
  <1>4. /\ Holds(temp, stage) /\ MappingLength(lib) <= limits.total /\ Parsed(lib)
        /\ PatchFits(lib) /\ AuxiliaryFits(lib) /\ lib.private <= limits.total
        /\ charged \in 0..limits.total /\ records \in 0..limits.entries
    BY <1>3, AtWork DEF Opened, Extended
  <1>5. ok => finish \in 0..limits.total
    <2> HIDE DEF placed, moved
    <2>1. moved => placed.end \in Nat
      <3>1. temp.symbols = Merged(lib) /\ IsSeq(temp.dyn) /\ IsSeq(temp.plt)
        BY <1>3, <1>4 DEF Holds, Bound, Related, Named, Extended, Opened
      <3>2. Len(temp.dyn) \in Nat /\ Len(temp.plt) \in Nat
        BY <3>1 DEF IsSeq
      <3>3. tables \in Seq(Measures)
        BY <1>4, <3>1, <3>2, BuiltSized
      <3> HIDE DEF tables
      <3> QED BY <1>4, <3>3, MovedEnds DEF placed, moved
    <2>2. MappingLength(lib) \in Nat /\ lib.private \in Nat /\ limits.total \in Nat
      BY <1>4, RoomIsNat DEF Parsed, Extracted
    <2>3. CASE moved
      BY <1>2, <1>4, <2>1, <2>2, <2>3
    <2>4. CASE ~ moved
      BY <1>4, <2>2, <2>4
    <2> QED BY <2>3, <2>4
  <1> HIDE DEF finish
  <1>6. ok => Holds(f, "tags")
    <2>1. DOMAIN parts = {"tables", "cleared", "header", "finish"} /\ parts.finish = finish
      OBVIOUS
    <2> HIDE DEF parts
    <2>2. /\ DOMAIN f = DOMAIN temp \cup {"tables", "cleared", "header", "finish"} /\ f.finish = finish
          /\ \A x \in DOMAIN temp : x \notin {"tables", "cleared", "header", "finish"} => f[x] = temp[x]
      BY <2>1, WithFacts
    <2> HIDE DEF f
    <2> QED BY <1>3, <1>4, <1>5, <2>2
            DEF Holds, Bound, Related, Named, Profiled, Settled, Closed, Extended, Opened
  <1>7. "place" \in Opened /\ "tags" \in Opened
    BY DEF Opened
  <1> HIDE DEF f
  <1> QED BY <1>1, <1>2, <1>4, <1>6, <1>7, Works

\* The file is cut there.
LEMMA TagsRestored == Extracted /\ Restored /\ PatchTags => Restored'
  <1> SUFFICES ASSUME Extracted, Restored, PatchTags
               PROVE  Restored'
    OBVIOUS
  <1> DEFINE ok == lib.tags /\ Disjoint(SectionAt(lib, ".dynamic"), Window(lib))
             f == With([length |-> temp.finish])
  <1>1. /\ Proceed("tags", ok, "finalize") /\ Keep(ok, f)
        /\ UNCHANGED <<lib, pending, charged, records, dest>>
    BY DEF PatchTags, TagsFit
  <1>2. ok \in BOOLEAN
    OBVIOUS
  <1> HIDE DEF ok
  <1>3. stage = "tags"
    BY <1>1 DEF Proceed
  <1>4. /\ Holds(temp, stage) /\ MappingLength(lib) <= limits.total /\ Parsed(lib)
        /\ PatchFits(lib) /\ AuxiliaryFits(lib)
        /\ charged \in 0..limits.total /\ records \in 0..limits.entries
    BY <1>3, AtWork DEF Opened, Extended
  <1>5. Holds(f, "finalize")
    <2>1. /\ DOMAIN f = DOMAIN temp \cup {"length"} /\ f.length = temp.finish
          /\ \A x \in DOMAIN temp : x # "length" => f[x] = temp[x]
      BY WithFacts, DOMAIN [length |-> temp.finish] = {"length"}
    <2> HIDE DEF f
    <2>2. limits.total \in Nat
      BY DEF Extracted
    <2> QED BY <1>3, <1>4, <2>1, <2>2
            DEF Holds, Bound, Related, Named, Profiled, Settled, Closed, Extended, Opened
  <1>6. "tags" \in Opened /\ "finalize" \in Opened
    BY DEF Opened
  <1> HIDE DEF f
  <1> QED BY <1>1, <1>2, <1>4, <1>5, <1>6, Works

\* The section headers come behind the last table, and there are some.
LEMMA FinalizeRestored == Extracted /\ Restored /\ Finalize => Restored'
  <1> SUFFICES ASSUME Extracted, Restored, Finalize
               PROVE  Restored'
    OBVIOUS
  <1> DEFINE ok == lib.last /\ temp.length >= lib.private
             ends == Appended.end
             headers == Align(ends, 8)
             parts == [length |-> headers + lib.headers, loose |-> Appended.at]
             f == With(parts)
  <1>1. /\ Proceed("finalize", ok, "validate") /\ Keep(ok, f)
        /\ UNCHANGED <<lib, pending, charged, records, dest>>
    BY DEF Finalize
  <1>2. ok \in BOOLEAN
    OBVIOUS
  <1> HIDE DEF ok
  <1>3. stage = "finalize"
    BY <1>1 DEF Proceed
  <1>4. /\ Holds(temp, stage) /\ MappingLength(lib) <= limits.total /\ Parsed(lib)
        /\ PatchFits(lib) /\ AuxiliaryFits(lib)
        /\ charged \in 0..limits.total /\ records \in 0..limits.entries
    BY <1>3, AtWork DEF Opened, Extended
  <1>5. temp.finish \in Nat /\ temp.length = temp.finish
    <2>1. limits.total \in Nat
      BY DEF Extracted
    <2> QED BY <1>3, <1>4, <2>1 DEF Holds, Settled
  <1>6. ends \in Nat /\ temp.finish <= ends
    <2>1. IsSeq(lib.loose)
      BY <1>4, ParsedRows
    <2>2. \A i \in DOMAIN lib.loose : lib.loose[i].align \in Nat \ {0} /\ lib.loose[i].size \in Nat
      BY <1>4 DEF Parsed, ToSet
    <2> QED BY <1>5, <2>1, <2>2, LaidAfter DEF Appended
  <1> HIDE DEF ends
  <1>7. headers \in Nat /\ ends <= headers
    BY <1>6, AlignIsAbove
  <1> HIDE DEF headers
  <1>8. temp.finish < headers + lib.headers
    BY <1>4, <1>5, <1>6, <1>7 DEF Parsed
  <1>9. Holds(f, "validate")
    <2>1. DOMAIN parts = {"length", "loose"} /\ parts.length = headers + lib.headers
      OBVIOUS
    <2> HIDE DEF parts
    <2>2. /\ DOMAIN f = DOMAIN temp \cup {"length", "loose"} /\ f.length = headers + lib.headers
          /\ \A x \in DOMAIN temp : x \notin {"length", "loose"} => f[x] = temp[x]
      BY <2>1, WithFacts
    <2> HIDE DEF f
    <2> QED BY <1>3, <1>4, <1>8, <2>2
            DEF Holds, Named, Profiled, Settled, Closed, Extended, Opened
  <1>10. "finalize" \in Opened /\ "validate" \in Opened
    BY DEF Opened
  <1> HIDE DEF f
  <1> QED BY <1>1, <1>2, <1>4, <1>9, <1>10, Works

\* Nothing is changed by a parse.
LEMMA ValidateRestored == Extracted /\ Restored /\ Validate => Restored'
  <1> SUFFICES ASSUME Extracted, Restored, Validate
               PROVE  Restored'
    OBVIOUS
  <1> DEFINE ok == /\ TableSize(".dynsym") \div SymbolSize = Len(temp.symbols)
                   /\ TableSize(".rela.dyn") \div RelaSize = Len(temp.dyn)
                   /\ TableSize(".rela.plt") \div RelaSize = Len(temp.plt)
  <1>1. /\ Proceed("validate", ok, "persist") /\ Keep(ok, temp)
        /\ UNCHANGED <<lib, pending, charged, records, dest>>
    BY DEF Validate, CountsAgree
  <1>2. ok \in BOOLEAN
    OBVIOUS
  <1> HIDE DEF ok
  <1>3. stage = "validate"
    BY <1>1 DEF Proceed
  <1>4. /\ Holds(temp, stage) /\ MappingLength(lib) <= limits.total
        /\ PatchFits(lib) /\ AuxiliaryFits(lib)
        /\ charged \in 0..limits.total /\ records \in 0..limits.entries
    BY <1>3, AtWork DEF Opened, Extended
  <1>5. Holds(temp, "persist")
    BY <1>3, <1>4 DEF Holds, Named, Profiled, Settled, Closed, Extended, Opened
  <1>6. "validate" \in Opened /\ "persist" \in Opened
    BY DEF Opened
  <1> QED BY <1>1, <1>2, <1>4, <1>5, <1>6, Works

\* What is published is the temporary.
LEMMA PersistRestored == Extracted /\ Restored /\ Persist => Restored'
  <1> SUFFICES ASSUME Extracted, Restored, Persist
               PROVE  Restored'
    OBVIOUS
  <1>1. /\ stage = "persist" /\ stage' = "hash" /\ UNCHANGED vars
        /\ dest' = temp /\ temp' = NoFile /\ UNCHANGED <<lib, pending, charged, records>>
    BY DEF Persist, Proceed
  <1>2. Holds(temp, "persist") /\ step = "done"
        /\ charged \in 0..limits.total /\ records \in 0..limits.entries
    BY <1>1 DEF Restored, Opened
  <1>3. UNCHANGED <<limits, step>>
    BY <1>1 DEF vars
  <1>4. Holds(dest, "persist")'
    BY <1>1, <1>2, <1>3 DEF Holds
  <1>5. temp # NoFile
    <2>1. "length" \in DOMAIN temp
      BY <1>2 DEF Holds
    <2>2. DOMAIN NoFile = {}
      BY DEF NoFile
    <2> QED BY <2>1, <2>2
  <1> QED BY <1>1, <1>2, <1>3, <1>4, <1>5 DEF Restored, Published, Opened, Extended

\* The report is written with the output in place.
LEMMA HashRestored == Extracted /\ Restored /\ Hash => Restored'
  <1> SUFFICES ASSUME Extracted, Restored, Hash
               PROVE  Restored'
    OBVIOUS
  <1>1. /\ stage = "hash" /\ stage' = "written" /\ UNCHANGED vars
        /\ UNCHANGED <<lib, pending, charged, records, temp, dest>>
    BY DEF Hash, Proceed
  <1>2. step = "done" /\ temp = NoFile /\ Published
        /\ charged \in 0..limits.total /\ records \in 0..limits.entries
    BY <1>1 DEF Restored, Opened
  <1>3. UNCHANGED <<limits, step>>
    BY <1>1 DEF vars
  <1>4. Holds(dest, "persist")'
    BY <1>1, <1>2, <1>3 DEF Restored, Holds
  <1> QED BY <1>1, <1>2, <1>3, <1>4 DEF Restored, Published, Opened, Extended

\* A call that breaks off takes its temporary with it.
LEMMA BreakOffRestored == Extracted /\ Restored /\ BreakOff => Restored'
  <1> SUFFICES ASSUME Extracted, Restored, BreakOff
               PROVE  Restored'
    OBVIOUS
  <1>1. /\ step = "done" /\ stage' = "failed" /\ UNCHANGED vars /\ temp' = NoFile
        
        /\ UNCHANGED <<lib, pending, charged, records, dest>>
    BY DEF BreakOff, Proceed
  <1>2. charged \in 0..limits.total /\ records \in 0..limits.entries
    BY DEF Restored
  <1>3. UNCHANGED <<limits, step>>
    BY <1>1 DEF vars
  <1>4. Published => Holds(dest, "persist")'
    BY <1>1, <1>3 DEF Restored, Holds
  <1> QED BY <1>1, <1>2, <1>3, <1>4 DEF Restored, Published, Opened, Extended

-----------------------------------------------------------------------------
\* Every step of the restoration.
LEMMA RestoreRestored == Extracted /\ Restored /\ RestoreNext => Restored'
  <1> SUFFICES ASSUME Extracted, Restored, RestoreNext
               PROVE  Restored'
    OBVIOUS
  <1>1. CASE BreakOff
    BY <1>1, BreakOffRestored
  <1>2. CASE LoadArtifacts \/ ReadArtifact \/ CreateTemporary
    BY <1>2, LoadRestored, ReadRestored, CreateRestored
  <1>3. CASE DecodePrimary \/ DecodeAuxiliary \/ Extend
    BY <1>3, PrimaryRestored, AuxiliaryRestored, ExtendRestored
  <1>4. CASE MergeSymbols \/ AddImports \/ ProfileConstructors
    BY <1>4, SymbolsRestored, ImportsRestored, ConstructorsRestored
  <1>5. CASE BindPlt \/ RelocateDyn \/ Redirect
    BY <1>5, PltRestored, DynRestored, RedirectRestored
  <1>6. CASE Place \/ PatchTags \/ Finalize
    BY <1>6, PlaceRestored, TagsRestored, FinalizeRestored
  <1>7. CASE Validate \/ Persist \/ Hash
    BY <1>7, ValidateRestored, PersistRestored, HashRestored
  <1> QED BY <1>1, <1>2, <1>3, <1>4, <1>5, <1>6, <1>7 DEF RestoreNext

\* The inductive invariant of the restoration: the extraction is over before it begins.
LEMMA RestoredStays == Measured /\ Restored /\ [LibraryNext]_all => Restored'
  <1> SUFFICES ASSUME Measured, Restored, [LibraryNext]_all
               PROVE  Restored'
    OBVIOUS
  <1>1. CASE Extraction
    <2>1. Next /\ UNCHANGED restoring
      BY <1>1 DEF Extraction
    <2>2. stage = "idle"
      BY <2>1, NextKeeps DEF Measured, Ground, Workspace, Running
    <2>3. limits' = limits
      BY <2>1, NextLimits
    <2> QED BY <2>1, <2>2, <2>3, RestoredStill
  <1>2. CASE CollectModules
    BY <1>2, RestoredStill DEF CollectModules, vars, Restored
  <1>3. CASE Restoration
    BY <1>3, MeasuredExtracted, RestoreRestored DEF Restoration
  <1>4. CASE ExtractionFails \/ CollectionFails \/ RestorationFails \/ ReopenFails \/ Succeed
    <2>1. UNCHANGED <<limits, step, index, restoring>>
      BY <1>4 DEF ExtractionFails, CollectionFails, RestorationFails, ReopenFails, Succeed, Answer
    <2>2. stage # "idle" => step = "done"
      BY DEF Restored
    <2> QED BY <2>1, <2>2, RestoredStill
  <1>5. CASE UNCHANGED all
    BY <1>5, RestoredStill DEF all, vars, Restored
  <1> QED BY <1>1, <1>2, <1>3, <1>4, <1>5 DEF LibraryNext

\* It holds before anything is restored.
LEMMA InitRestored == LibraryInit => Restored
  <1> SUFFICES ASSUME LibraryInit
               PROVE  Restored
    OBVIOUS
  <1>1. /\ stage = "idle" /\ charged = 0 /\ records = 0 /\ temp = NoFile /\ dest = NoFile
        /\ limits \in Ceilings /\ elf \in Elfs
    BY DEF LibraryInit, Init, RestoreInit
  <1>2. limits.total \in Nat /\ limits.entries \in Nat
    BY <1>1, CeilingsAreNat
  <1> QED BY <1>1, <1>2 DEF Restored, Published, Opened, Extended

\* For any library and artifacts: what is at the destination is a finished image with
\* the decoded containers and every table, longer than the tables reach and with as many
\* symbols as were merged; a failed call leaves no temporary, one that wrote has published
\* (restore 2528-2817).
THEOREM OnlyWholeIsPublished == LibrarySpec => []PublishedOnlyWhole
  <1>1. Restored => PublishedOnlyWhole
    <2> SUFFICES ASSUME Restored
                 PROVE  PublishedOnlyWhole
      OBVIOUS
    <2>1. Published => Holds(dest, "persist")
      BY DEF Restored
    <2>2. Published =>
            /\ dest.decoded /\ {"tables", "loose", "init"} \subseteq DOMAIN dest
            /\ dest.symbols = Merged(lib) /\ dest.finish < dest.length
      BY <2>1 DEF Holds, Named, Profiled, Settled, Closed, Extended, Opened
    <2>3. Published => dest.length > dest.finish
      BY <2>2
    <2>4. stage = "failed" => temp = NoFile
      BY DEF Restored, Opened
    <2>5. stage = "written" => Published
      BY DEF Restored
    <2> QED BY <2>2, <2>3, <2>4, <2>5 DEF PublishedOnlyWhole
  <1> QED BY <1>1, InitMeasured, MeasuredStays, InitRestored, RestoredStays, PTL DEF LibrarySpec, all

\* For any streams, ceilings, artifacts and library: what both halves of the call have
\* charged and counted stays within the ceiling, the stack within the depth, the temporary
\* within the total until its sections are appended, and the module 0x0C bytes are those
\* of a registered module (extract_stage2_with_limits 92-165, restore 2528-2817).
THEOREM LibraryIsTyped == LibrarySpec => []LibraryTypeOK
  <1>1. Measured /\ Restored => LibraryTypeOK
    <2> SUFFICES ASSUME Measured, Restored
                 PROVE  LibraryTypeOK
      OBVIOUS
    <2>1. Ground /\ Levels /\ Booked /\ Counted /\ Charged
      BY DEF Measured, Tally
    <2>2. Len(stack) <= limits.depth + 1
      <3>1. IsSeq(stack) /\ limits.depth \in Nat
        BY <2>1, GroundFacts
      <3>2. CASE stack = <<>>
        BY <3>1, <3>2
      <3>3. CASE stack # <<>>
        <4> DEFINE n == Len(stack)
        <4>1. n \in Nat /\ n \in DOMAIN stack
          BY <3>1, <3>3 DEF IsSeq
        <4> HIDE DEF n
        <4>2. stack[n].depth \in 0..limits.depth /\ stack[n].depth = n - 1
          BY <2>1, <4>1 DEF Levels, Ready
        <4>3. n <= limits.depth + 1
          BY <3>1, <4>1, <4>2
        <4> QED BY <4>3 DEF n
      <3> QED BY <3>2, <3>3
    <2>3. TypeOK
      BY <2>1, <2>2 DEF TypeOK, Ground, Begun, Booked, Counted, Charged
    <2>4. temp # NoFile /\ stage \notin {"validate", "persist"} => temp.length <= limits.total
      BY DEF Restored, Holds, Closed
    <2>5. RestoreTypeOK
      BY <2>4 DEF RestoreTypeOK, Restored, Opened
    <2>6. module # None => module \subseteq {registry[id].content : id \in DOMAIN registry}
      BY <2>1 DEF Ground, Begun
    <2> QED BY <2>3, <2>5, <2>6 DEF LibraryTypeOK
  <1> QED BY <1>1, InitMeasured, MeasuredStays, InitRestored, RestoredStays, PTL DEF LibrarySpec, all

-----------------------------------------------------------------------------
\* Tables laid one after another are apart, and between the start and the end.
LEMMA LaidApart ==
  ASSUME NEW tables, IsSeq(tables), NEW start \in Nat,
         \A i \in DOMAIN tables : tables[i].align \in Nat \ {0} /\ tables[i].size \in Nat,
         NEW laid, laid = Laid(tables, start)
  PROVE  /\ laid.end \in Nat
         /\ \A i \in DOMAIN laid.at :
              /\ laid.at[i].offset \in Nat /\ laid.at[i].size \in Nat
              /\ start <= laid.at[i].offset
              /\ laid.at[i].offset + laid.at[i].size <= laid.end
         /\ \A i, j \in DOMAIN laid.at : i # j => Disjoint(laid.at[i], laid.at[j])
  <1> DEFINE n == Len(tables)
  <1>1. PICK ends : LaidEnds(tables, start, ends)
    BY LaidFacts
  <1>2. /\ n \in Nat /\ DOMAIN laid.at = 1..n
        /\ \A i \in 1..n : laid.at[i].size = tables[i].size /\ laid.at[i].size \in Nat
    BY LaidFacts, AppendFacts
  <1>3. /\ ends \in [0..n -> Nat] /\ ends[0] = start /\ laid.end = ends[n]
        /\ \A i \in 1..n : /\ laid.at[i].offset \in Nat
                           /\ ends[i - 1] <= laid.at[i].offset
                           /\ laid.at[i].offset + tables[i].size = ends[i]
    BY <1>1 DEF LaidEnds
  <1> HIDE DEF n
  <1>4. \A i, j \in 0..n : i <= j => ends[i] <= ends[j]
    BY <1>1, EndsRise DEF n
  <1>5. \A i \in 0..n : ends[i] \in Nat
    BY <1>3
  <1>6. ASSUME NEW i \in 1..n
        PROVE  /\ i - 1 \in 0..n /\ i \in 0..n /\ 0 \in 0..n /\ n \in 0..n
               /\ start <= ends[i - 1] /\ ends[i] <= ends[n]
    <2>1. i - 1 \in 0..n /\ i \in 0..n /\ 0 \in 0..n /\ n \in 0..n /\ 0 <= i - 1 /\ i <= n
      BY <1>2
    <2> QED BY <1>3, <1>4, <2>1
  <1>7. ASSUME NEW i \in 1..n, NEW j \in 1..n, i < j
        PROVE  laid.at[i].offset + laid.at[i].size <= laid.at[j].offset
    <2>1. i \in 0..n /\ j - 1 \in 0..n /\ i <= j - 1
      BY <1>2, <1>7
    <2>2. ends[i] <= ends[j - 1]
      BY <1>4, <2>1
    <2>3. ends[i] \in Nat /\ ends[j - 1] \in Nat
      BY <1>5, <2>1
    <2>4. /\ laid.at[i].offset + laid.at[i].size = ends[i]
          /\ ends[j - 1] <= laid.at[j].offset /\ laid.at[j].offset \in Nat
      BY <1>2, <1>3
    <2> QED BY <2>2, <2>3, <2>4
  <1>8. ASSUME NEW i \in 1..n
        PROVE  /\ laid.at[i].offset \in Nat /\ laid.at[i].size \in Nat
               /\ start <= laid.at[i].offset
               /\ laid.at[i].offset + laid.at[i].size <= laid.end
    <2>1. laid.at[i].offset \in Nat /\ laid.at[i].size \in Nat
      BY <1>2, <1>3
    <2>2. ends[i - 1] \in Nat /\ ends[i] \in Nat /\ ends[n] \in Nat
      BY <1>5, <1>6
    <2>3. start <= laid.at[i].offset
      <3>1. start <= ends[i - 1] /\ ends[i - 1] <= laid.at[i].offset
        BY <1>3, <1>6
      <3> QED BY <2>1, <2>2, <3>1
    <2>4. laid.at[i].offset + laid.at[i].size = ends[i]
      BY <1>2, <1>3
    <2>5. laid.at[i].offset + laid.at[i].size <= laid.end
      BY <1>3, <1>6, <2>4
    <2> QED BY <2>1, <2>3, <2>5
  <1>9. laid.end \in Nat
    BY <1>2, <1>3
  <1>10. ASSUME NEW i \in 1..n, NEW j \in 1..n, i # j
         PROVE  Disjoint(laid.at[i], laid.at[j])
    <2>1. i < j \/ j < i
      BY <1>2, <1>10
    <2> QED BY <1>7, <2>1 DEF Disjoint
  <1> QED BY <1>2, <1>8, <1>9, <1>10

\* Where the linker left .dynsym and .dynamic.
LEMMA LinkedFacts ==
  ASSUME NEW l, Linked(l), Parsed(l), NEW name \in {".dynsym", ".dynamic"}
  PROVE  /\ SectionAt(l, name) \in Filed(l)
         /\ \A s \in Filed(l) : s.name = name => s = SectionAt(l, name)
  <1>1. PICK s \in Filed(l) : \A t \in l.sections : t.name = name <=> t = s
    BY DEF Linked
  <1>2. s \in l.sections /\ s.name = name
    BY <1>1 DEF Filed
  <1>3. SectionAt(l, name) = s
    BY <1>1, <1>2 DEF SectionAt
  <1> QED BY <1>1, <1>3 DEF Filed

\* Sections are before the private one.
LEMMA FiledFacts ==
  ASSUME NEW l, Linked(l), Parsed(l), NEW s \in Filed(l)
  PROVE  /\ s.offset \in Nat /\ s.size \in Nat \ {0} /\ s.offset + s.size <= l.private
         /\ l.private \in Nat /\ s \in l.sections
  <1>1. s \in l.sections /\ s.size # 0
    BY DEF Filed
  <1> QED BY <1>1 DEF Linked, Parsed

\* The capacity ends before the next section that stays, and before the private one.
LEMMA CapacityFacts ==
  ASSUME NEW l, Linked(l), Parsed(l)
  PROVE  /\ SectionAt(l, ".dynsym").offset \in Nat /\ CapacityEnd(l) \in Nat
         /\ SectionAt(l, ".dynsym").offset <= CapacityEnd(l)
         /\ CapacityEnd(l) <= l.private
         /\ \A s \in Filed(l) :
              s.name \notin TableNames(l) /\ s.offset >= SectionAt(l, ".dynsym").offset
                => CapacityEnd(l) <= s.offset
  <1> DEFINE start == SectionAt(l, ".dynsym").offset
             next == {s.offset : s \in {x \in Filed(l) : x.name \notin TableNames(l) /\ x.offset >= start}}
             ends == next \cup {l.private}
             end == Smallest(ends)
  <1>1. /\ start \in Nat /\ start <= l.private /\ l.private \in Nat
    <2>1. SectionAt(l, ".dynsym") \in Filed(l)
      BY LinkedFacts
    <2>2. /\ start \in Nat /\ SectionAt(l, ".dynsym").size \in Nat /\ l.private \in Nat
          /\ start + SectionAt(l, ".dynsym").size <= l.private
      BY <2>1, FiledFacts
    <2> HIDE DEF start
    <2> QED BY <2>2
  <1>2. CapacityEnd(l) = IF end < start THEN start ELSE end
    BY DEF CapacityEnd
  <1> HIDE DEF start
  <1>3. \A e \in ends : e \in Nat /\ start <= e
    <2>1. \A s \in Filed(l) : s.offset \in Nat
      BY FiledFacts
    <2> QED BY <1>1, <2>1
  <1>4. \A s \in Filed(l) : s.name \notin TableNames(l) /\ s.offset >= start => s.offset \in ends
    OBVIOUS
  <1>5. l.private \in ends
    OBVIOUS
  <1> HIDE DEF ends
  <1>6. end \in ends /\ \A e \in ends : end <= e
    <2>1. ends \subseteq Nat /\ ends # {}
      BY <1>3, <1>5
    <2>2. \E m \in ends : \A e \in ends : m <= e
      BY <2>1, LeastOf
    <2> QED BY <2>2 DEF Smallest
  <1> HIDE DEF end
  <1>7. CapacityEnd(l) = end /\ end \in Nat /\ start <= end
    BY <1>1, <1>2, <1>3, <1>6
  <1> QED BY <1>1, <1>4, <1>5, <1>6, <1>7 DEF start

\* The window that is cleared is over no section that stays.
LEMMA WindowApart ==
  ASSUME NEW l, Linked(l), Parsed(l), TagsFit(l), NEW s \in Filed(l),
         s.name \notin TableNames(l) \ {".dynamic"}
  PROVE  Disjoint(s, Window(l))
  <1> DEFINE d == SectionAt(l, ".dynsym")
             cap == CapacityEnd(l)
  <1>1. CASE s.name = ".dynamic"
    BY <1>1, LinkedFacts DEF TagsFit
  <1>2. CASE s.name # ".dynamic"
    <2>1. s.name \notin TableNames(l)
      BY <1>2
    <2>2. ".dynsym" \in TableNames(l)
      BY DEF TableNames
    <2>3. d \in Filed(l) /\ s # d
      <3>1. d.name = ".dynsym"
        <4>1. PICK t \in Filed(l) : \A u \in l.sections : u.name = ".dynsym" <=> u = t
          BY DEF Linked
        <4>2. t \in l.sections /\ t.name = ".dynsym"
          BY <4>1 DEF Filed
        <4> QED BY <4>1, <4>2 DEF SectionAt
      <3> QED BY <2>1, <2>2, <3>1, LinkedFacts
    <2>4. Disjoint(s, d)
      BY <2>3 DEF Linked
    <2>5. /\ s.offset \in Nat /\ s.size \in Nat \ {0} /\ d.offset \in Nat /\ d.size \in Nat \ {0}
      BY <2>3, FiledFacts
    <2>6. /\ cap \in Nat /\ d.offset <= cap
          /\ s.offset >= d.offset => cap <= s.offset
      BY <2>1, CapacityFacts
    <2>7. Window(l) = [offset |-> d.offset, size |-> cap - d.offset]
      BY DEF Window
    <2> HIDE DEF d, cap
    <2>8. Window(l).offset = d.offset /\ Window(l).size = cap - d.offset
      BY <2>7
    <2> QED BY <2>4, <2>5, <2>6, <2>8 DEF Disjoint
  <1> QED BY <1>1, <1>2

\* Nor is the new program header.
LEMMA HeaderApart ==
  ASSUME NEW l, Linked(l), Parsed(l), NEW s \in Filed(l), NEW moved \in BOOLEAN
  PROVE  Disjoint(s, HeaderPlace(l, moved))
  <1> DEFINE at == l.phdrs.at
             count == l.phdrs.count
             h == HeaderPlace(l, moved)
             room == HeaderRoom(l)
             start == ExtensionStart(l)
  <1>1. /\ s.offset \in Nat /\ s.size \in Nat /\ s.offset + s.size <= l.private
        /\ l.private \in Nat /\ start \in Nat /\ l.private <= start
    BY FiledFacts, RoomIsNat
  <1>2. at \in Nat /\ count \in Nat
    BY DEF Parsed
  <1>3. Disjoint(s, [offset |-> at, size |-> count * PhdrSize])
    BY DEF Linked
  <1>4. \/ h = [offset |-> 0, size |-> 0]
        \/ room = 0 /\ h = [offset |-> at + count * PhdrSize, size |-> PhdrSize]
        \/ h = [offset |-> at, size |-> count * PhdrSize]
        \/ h = [offset |-> start, size |-> room]
    BY DEF HeaderPlace
  <1>5. room = 0 => at + (count + 1) * PhdrSize <= s.offset
    BY <1>2 DEF HeaderRoom, PhdrSize
  <1> HIDE DEF at, count, h, room, start
  <1>6. CASE h = [offset |-> 0, size |-> 0]
    <2>1. h.offset = 0 /\ h.size = 0
      BY <1>6
    <2> QED BY <1>1, <2>1 DEF Disjoint, h
  <1>7. CASE room = 0 /\ h = [offset |-> at + count * PhdrSize, size |-> PhdrSize]
    <2>1. h.offset = at + count * PhdrSize /\ h.size = PhdrSize
      BY <1>7
    <2>2. at + (count + 1) * PhdrSize <= s.offset
      BY <1>5, <1>7
    <2>3. h.offset + h.size <= s.offset
      BY <1>1, <1>2, <2>1, <2>2 DEF PhdrSize
    <2> QED BY <2>3 DEF Disjoint, h
  <1>8. CASE h = [offset |-> at, size |-> count * PhdrSize]
    BY <1>3, <1>8 DEF h
  <1>9. CASE h = [offset |-> start, size |-> room]
    <2>1. h.offset = start
      BY <1>9
    <2>2. s.offset + s.size <= h.offset
      BY <1>1, <2>1
    <2> QED BY <2>2 DEF Disjoint, h
  <1> QED BY <1>4, <1>6, <1>7, <1>8, <1>9

-----------------------------------------------------------------------------
\* Where the tables are: in place they are within the window, else behind everything.
LEMMA PlacedApart ==
  ASSUME NEW l, Linked(l), Parsed(l), NEW tables \in Seq(Measures),
         NEW placed, placed = Placed(l, tables)
  PROVE  /\ placed.end \in Nat
         /\ \A i \in DOMAIN placed.at :
              /\ placed.at[i].offset \in Nat /\ placed.at[i].size \in Nat
              /\ placed.at[i].offset + placed.at[i].size <= placed.end
              /\ Moved(l, tables) => ExtensionStart(l) <= placed.at[i].offset
              /\ ~ Moved(l, tables) =>
                   /\ SectionAt(l, ".dynsym").offset <= placed.at[i].offset
                   /\ placed.at[i].offset + placed.at[i].size <= CapacityEnd(l)
         /\ \A i, j \in DOMAIN placed.at : i # j => Disjoint(placed.at[i], placed.at[j])
  <1> DEFINE start == TablesStart(l, Moved(l, tables))
             d == SectionAt(l, ".dynsym").offset
             ext == ExtensionStart(l)
             room == HeaderRoom(l)
             cap == CapacityEnd(l)
  <1>1. d \in Nat /\ cap \in Nat /\ ext \in Nat /\ room \in Nat
    BY CapacityFacts, RoomIsNat
  <1>2. /\ Moved(l, tables) => start = ext + room
        /\ ~ Moved(l, tables) => start = d
    BY DEF TablesStart
  <1> HIDE DEF start, d, ext, room, cap
  <1>3. start \in Nat
    BY <1>1, <1>2 DEF Moved
  <1>4. /\ IsSeq(tables)
        /\ \A i \in DOMAIN tables : tables[i].align \in Nat \ {0} /\ tables[i].size \in Nat
    <2>1. IsSeq(tables)
      BY SeqOverItself
    <2>2. ASSUME NEW i \in DOMAIN tables
          PROVE  tables[i].align \in Nat \ {0} /\ tables[i].size \in Nat
      <3>1. tables[i] \in Measures
        OBVIOUS
      <3> QED BY <3>1 DEF Measures
    <2> QED BY <2>1, <2>2
  <1>5. placed = Laid(tables, start)
    BY DEF Placed, start
  <1>6. /\ placed.end \in Nat
        /\ \A i \in DOMAIN placed.at :
              /\ placed.at[i].offset \in Nat /\ placed.at[i].size \in Nat
              /\ start <= placed.at[i].offset
              /\ placed.at[i].offset + placed.at[i].size <= placed.end
        /\ \A i, j \in DOMAIN placed.at : i # j => Disjoint(placed.at[i], placed.at[j])
    BY <1>3, <1>4, <1>5, LaidApart
  <1>7. ~ Moved(l, tables) => placed.end <= cap
    <2>1. Moved(l, tables) <=> Laid(tables, d).end > cap
      BY DEF Moved, d, cap
    <2> QED BY <1>1, <1>2, <1>5, <1>6, <2>1
  <1>8. ASSUME NEW i \in DOMAIN placed.at
        PROVE  /\ Moved(l, tables) => ext <= placed.at[i].offset
               /\ ~ Moved(l, tables) =>
                    /\ d <= placed.at[i].offset
                    /\ placed.at[i].offset + placed.at[i].size <= cap
    <2>1. /\ placed.at[i].offset \in Nat /\ placed.at[i].size \in Nat
          /\ start <= placed.at[i].offset
          /\ placed.at[i].offset + placed.at[i].size <= placed.end
      BY <1>6
    <2> QED BY <1>1, <1>2, <1>6, <1>7, <2>1
  <1> QED BY <1>6, <1>8 DEF d, ext, cap

\* A table is over no section that stays.
LEMMA TableApart ==
  ASSUME NEW l, Linked(l), Parsed(l), TagsFit(l), NEW tables \in Seq(Measures),
         NEW placed, placed = Placed(l, tables), NEW i \in DOMAIN placed.at,
         NEW s \in Filed(l), s.name \notin TableNames(l) \ {".dynamic"}
  PROVE  Disjoint(s, placed.at[i])
  <1> DEFINE t == placed.at[i]
             d == SectionAt(l, ".dynsym").offset
             cap == CapacityEnd(l)
             ext == ExtensionStart(l)
             moved == Moved(l, tables)
  <1>1. /\ t.offset \in Nat /\ t.size \in Nat
        /\ moved => ext <= t.offset
        /\ ~ moved => d <= t.offset /\ t.offset + t.size <= cap
    BY PlacedApart
  <1>2. /\ s.offset \in Nat /\ s.size \in Nat /\ s.offset + s.size <= l.private
        /\ l.private \in Nat /\ ext \in Nat /\ l.private <= ext
    BY FiledFacts, RoomIsNat
  <1>3. d \in Nat /\ cap \in Nat /\ d <= cap
    BY CapacityFacts
  <1>4. Disjoint(s, Window(l))
    BY WindowApart
  <1>5. Window(l).offset = d /\ Window(l).size = cap - d
    BY DEF Window
  <1> HIDE DEF t, d, cap, ext, moved
  <1>6. CASE moved
    BY <1>1, <1>2, <1>6 DEF Disjoint, t
  <1>7. CASE ~ moved
    <2>1. s.offset + s.size <= d \/ cap <= s.offset
      BY <1>2, <1>3, <1>4, <1>5 DEF Disjoint
    <2>2. s.offset + s.size <= t.offset \/ t.offset + t.size <= s.offset
      BY <1>1, <1>2, <1>3, <1>7, <2>1
    <2> QED BY <2>2 DEF Disjoint, t
  <1> QED BY <1>6, <1>7

\* The tables of a file, the window that was cleared for them and the new header.
Seated(f) ==
  /\ {"tables", "cleared", "header", "finish"} \subseteq DOMAIN f
  /\ \E tables \in Seq(Measures) :
       /\ f.tables = Placed(lib, tables).at
       /\ f.cleared = Window(lib)
       /\ f.header = HeaderPlace(lib, Moved(lib, tables))
       /\ Moved(lib, tables) =>
            f.finish = Placed(lib, tables).end /\ f.finish <= MappingLength(lib)
       /\ ~ Moved(lib, tables) => f.finish = lib.private

\* What is in place at each stage.
Seats(f, s) ==
  /\ s \in Settled \cup Closed => Seated(f)
  /\ s \in {"finalize"} \cup Closed => TagsFit(lib)
  /\ s \in Closed => "loose" \in DOMAIN f /\ f.loose = Laid(lib.loose, f.finish).at

(***************************************************************************)
(* The inductive invariant of the places, on top of Restored: which tables *)
(* were placed is not kept, but that there were some of these sizes is     *)
(* enough to say where they are; what the window and the header are not    *)
(* over follows from the way the linker laid out the input, which is kept. *)
(***************************************************************************)
Touching ==
  /\ stage \in Opened => Seats(temp, stage) /\ Linked(lib)
  /\ Published => Seats(dest, "persist") /\ Linked(lib) /\ Parsed(lib)

\* What was published touches nothing that stays.
LEMMA SeatedApart ==
  ASSUME Linked(lib), Parsed(lib), NEW f, Seats(f, "persist"), f.finish \in Nat
  PROVE  /\ \A s \in Filed(lib) : s.name \notin TableNames(lib) \ {".dynamic"} =>
              /\ Disjoint(s, f.cleared) /\ Disjoint(s, f.header)
              /\ \A i \in DOMAIN f.tables : Disjoint(s, f.tables[i])
         /\ \A i \in DOMAIN f.tables :
              \/ f.tables[i].offset + f.tables[i].size <= lib.private
              \/ /\ f.tables[i].offset >= ExtensionStart(lib)
                 /\ f.tables[i].offset + f.tables[i].size <= f.finish
                 /\ f.finish <= MappingLength(lib)
         /\ \A i, j \in DOMAIN f.tables : i # j => Disjoint(f.tables[i], f.tables[j])
         /\ \A i \in DOMAIN f.loose : f.loose[i].offset >= f.finish
  <1>1. PICK tables \in Seq(Measures) :
          /\ f.tables = Placed(lib, tables).at
          /\ f.cleared = Window(lib)
          /\ f.header = HeaderPlace(lib, Moved(lib, tables))
          /\ Moved(lib, tables) =>
               f.finish = Placed(lib, tables).end /\ f.finish <= MappingLength(lib)
    BY DEF Seats, Seated, Closed
  <1>2. TagsFit(lib) /\ f.loose = Laid(lib.loose, f.finish).at
    BY DEF Seats, Closed
  <1> DEFINE placed == Placed(lib, tables)
             moved == Moved(lib, tables)
  <1>3. moved \in BOOLEAN
    BY DEF Moved
  <1>4. ASSUME NEW s \in Filed(lib), s.name \notin TableNames(lib) \ {".dynamic"}
        PROVE  /\ Disjoint(s, f.cleared) /\ Disjoint(s, f.header)
               /\ \A i \in DOMAIN f.tables : Disjoint(s, f.tables[i])
    <2>1. Disjoint(s, f.cleared)
      BY <1>1, <1>2, <1>4, WindowApart
    <2>2. Disjoint(s, f.header)
      BY <1>1, <1>3, HeaderApart
    <2>3. \A i \in DOMAIN placed.at : Disjoint(s, placed.at[i])
      BY <1>2, <1>4, TableApart
    <2> QED BY <1>1, <2>1, <2>2, <2>3
  <1>5. /\ placed.end \in Nat
        /\ \A i \in DOMAIN placed.at :
              /\ placed.at[i].offset \in Nat /\ placed.at[i].size \in Nat
              /\ placed.at[i].offset + placed.at[i].size <= placed.end
              /\ moved => ExtensionStart(lib) <= placed.at[i].offset
              /\ ~ moved => placed.at[i].offset + placed.at[i].size <= CapacityEnd(lib)
        /\ \A i, j \in DOMAIN placed.at : i # j => Disjoint(placed.at[i], placed.at[j])
    BY PlacedApart
  <1>6. /\ CapacityEnd(lib) \in Nat /\ CapacityEnd(lib) <= lib.private /\ lib.private \in Nat
        /\ ExtensionStart(lib) \in Nat
    BY CapacityFacts, RoomIsNat DEF Parsed
  <1> HIDE DEF placed, moved
  <1>7. ASSUME NEW i \in DOMAIN f.tables
        PROVE  \/ f.tables[i].offset + f.tables[i].size <= lib.private
               \/ /\ f.tables[i].offset >= ExtensionStart(lib)
                  /\ f.tables[i].offset + f.tables[i].size <= f.finish
                  /\ f.finish <= MappingLength(lib)
    <2> DEFINE t == f.tables[i]
    <2>1. /\ t.offset \in Nat /\ t.size \in Nat /\ t.offset + t.size <= placed.end
          /\ moved => ExtensionStart(lib) <= t.offset
          /\ ~ moved => t.offset + t.size <= CapacityEnd(lib)
      BY <1>1, <1>5 DEF placed
    <2>2. moved => f.finish = placed.end /\ f.finish <= MappingLength(lib)
      BY <1>1 DEF moved, placed
    <2> HIDE DEF t
    <2>3. CASE moved
      BY <1>5, <1>6, <2>1, <2>2, <2>3 DEF t
    <2>4. CASE ~ moved
      <3>1. t.offset + t.size <= lib.private
        BY <1>6, <2>1, <2>4
      <3> QED BY <3>1 DEF t
    <2> QED BY <2>3, <2>4
  <1>8. \A i, j \in DOMAIN f.tables : i # j => Disjoint(f.tables[i], f.tables[j])
    BY <1>1, <1>5 DEF placed
  <1>9. \A i \in DOMAIN f.loose : f.loose[i].offset >= f.finish
    <2>1. IsSeq(lib.loose)
      BY ParsedRows
    <2>2. \A i \in DOMAIN lib.loose : lib.loose[i].align \in Nat \ {0} /\ lib.loose[i].size \in Nat
      BY DEF Parsed, ToSet
    <2> DEFINE laid == Laid(lib.loose, f.finish)
    <2>3. \A i \in DOMAIN laid.at : laid.at[i].offset \in Nat /\ f.finish <= laid.at[i].offset
      BY <2>1, <2>2, LaidApart
    <2> HIDE DEF laid
    <2>4. f.loose = laid.at
      BY <1>2 DEF laid
    <2> QED BY <2>3, <2>4
  <1> QED BY <1>4, <1>7, <1>8, <1>9

-----------------------------------------------------------------------------
\* A step before the tables are placed, or of a call that is over.
LEMMA TouchingStill ==
  ASSUME Touching, UNCHANGED <<lib, dest>>,
         stage' \in Opened => stage \in Opened /\ stage' \notin Settled \cup Closed
  PROVE  Touching'
  <1>1. Published' => Published /\ (Seats(dest, "persist") => Seats(dest, "persist")')
    BY DEF Published, Seats, Seated
  <1>2. stage' \in Opened => Seats(temp, stage)' /\ Linked(lib)
    BY DEF Touching, Seats, Settled, Closed
  <1> QED BY <1>1, <1>2 DEF Touching

\* A library under a seed is laid out as before.
LEMMA SeededLinked ==
  ASSUME NEW l, Parsed(l), Linked(l), NEW seeded
  PROVE  Linked(Seeded(l, seeded))
  <1> DEFINE m == Seeded(l, seeded)
  <1>1. \A x \in ImageParts : x # "aux" => m[x] = l[x]
    BY DEF Parsed, Seeded, ImageParts
  <1> HIDE DEF m
  <1>2. m.sections = l.sections /\ m.private = l.private /\ m.phdrs = l.phdrs
    BY <1>1 DEF ImageParts
  <1>3. Filed(m) = Filed(l)
    BY <1>2 DEF Filed
  <1>4. Linked(m)
    BY <1>2, <1>3 DEF Linked
  <1> QED BY <1>4 DEF m

\* The library read is laid out as a linker lays it, with a seed or without.
LEMMA CreateTouching == Restored /\ Touching /\ CreateTemporary => Touching'
  <1> SUFFICES ASSUME Restored, Touching, CreateTemporary
               PROVE  Touching'
    OBVIOUS
  <1> DEFINE library == Seeded(Libraries[Image9d], Seed \in Indexed)
             ok == Image9d \in DOMAIN Libraries /\ HeadersFit(library)
  <1>1. /\ stage = "read" /\ UNCHANGED dest
        /\ ok => stage' = "primary" /\ lib' = library
        /\ ~ ok => stage' = "failed"
    BY DEF CreateTemporary, Proceed
  <1>2. ~ Published'
    BY <1>1 DEF Restored, Published
  <1>3. CASE ok
    <2>1. Linked(library)
      <3>1. Parsed(Libraries[Image9d]) /\ Linked(Libraries[Image9d])
        BY <1>3, LibraryAssumption, LinkerAssumption
      <3> QED BY <3>1, SeededLinked
    <2>2. stage' = "primary" /\ lib' = library
      BY <1>1, <1>3
    <2> HIDE DEF library, ok
    <2> QED BY <1>2, <2>1, <2>2 DEF Touching, Seats, Settled, Closed
  <1>4. CASE ~ ok
    <2> HIDE DEF ok, library
    <2> QED BY <1>1, <1>2, <1>4 DEF Touching, Opened
  <1> QED BY <1>3, <1>4

\* A step of a call with tables in place.
LEMMA Seating ==
  ASSUME Restored, Touching, NEW from \in Opened, NEW to \in Opened, NEW ok \in BOOLEAN, NEW f,
         Proceed(from, ok, to), Keep(ok, f), UNCHANGED <<lib, dest>>, ok => Seats(f, to)
  PROVE  Touching'
  <1>1. stage = from
    BY DEF Proceed
  <1>2. Linked(lib) /\ ~ Published
    BY <1>1 DEF Touching, Restored, Opened
  <1>3. ~ Published'
    BY <1>2 DEF Published
  <1>4. CASE ok
    <2>1. stage' = to /\ temp' = f /\ Seats(f, to)
      BY <1>4 DEF Proceed, Keep
    <2>2. Seats(temp, stage)'
      BY <2>1 DEF Seats, Seated
    <2> QED BY <1>2, <1>3, <2>2 DEF Touching
  <1>5. CASE ~ ok
    <2>1. stage' = "failed"
      BY <1>5 DEF Proceed
    <2> QED BY <1>3, <2>1 DEF Touching, Opened
  <1> QED BY <1>4, <1>5

\* The tables placed are those that were measured, in place or behind everything.
LEMMA PlaceTouching == Restored /\ Touching /\ Place => Touching'
  <1> SUFFICES ASSUME Restored, Touching, Place
               PROVE  Touching'
    OBVIOUS
  <1> DEFINE tables == Built(lib, Len(temp.symbols), Len(temp.dyn), Len(temp.plt))
             moved == Moved(lib, tables)
             placed == Placed(lib, tables)
             ok == IF moved THEN Extensible(lib, placed) ELSE Mapped(lib, placed)
             finish == IF moved THEN placed.end ELSE lib.private
             parts == [tables |-> placed.at, cleared |-> Window(lib),
                       header |-> HeaderPlace(lib, moved), finish |-> finish]
             f == With(parts)
  <1>1. Proceed("place", ok, "tags") /\ Keep(ok, f) /\ UNCHANGED <<lib, dest>>
    BY DEF Place
  <1>2. /\ ok \in BOOLEAN
        /\ ok /\ moved => placed.end <= MappingLength(lib)
    BY DEF Mapped, Extensible
  <1> HIDE DEF ok
  <1>3. stage = "place"
    BY <1>1 DEF Proceed
  <1>4. tables \in Seq(Measures)
    <2>1. Holds(temp, stage) /\ Parsed(lib) /\ PatchFits(lib) /\ AuxiliaryFits(lib)
      BY <1>3, AtWork DEF Opened, Extended
    <2>2. temp.symbols = Merged(lib) /\ IsSeq(temp.dyn) /\ IsSeq(temp.plt)
      BY <1>3, <2>1 DEF Holds, Bound, Related, Named, Extended, Opened
    <2>3. Len(temp.dyn) \in Nat /\ Len(temp.plt) \in Nat
      BY <2>2 DEF IsSeq
    <2> QED BY <2>1, <2>2, <2>3, BuiltSized
  <1> HIDE DEF tables
  <1>5. /\ DOMAIN parts = {"tables", "cleared", "header", "finish"}
        /\ parts.tables = placed.at /\ parts.cleared = Window(lib)
        /\ parts.header = HeaderPlace(lib, moved) /\ parts.finish = finish
    OBVIOUS
  <1>6. /\ moved => finish = placed.end
        /\ ~ moved => finish = lib.private
    OBVIOUS
  <1> HIDE DEF parts, finish
  <1>7. /\ {"tables", "cleared", "header", "finish"} \subseteq DOMAIN f
        /\ f.tables = placed.at /\ f.cleared = Window(lib)
        /\ f.header = HeaderPlace(lib, moved) /\ f.finish = finish
    BY <1>5, WithFacts
  <1> HIDE DEF f
  <1>8. ok => Seated(f)
    BY <1>2, <1>4, <1>6, <1>7 DEF Seated
  <1>9. ok => Seats(f, "tags")
    BY <1>8 DEF Seats, Closed
  <1>10. "place" \in Opened /\ "tags" \in Opened
    BY DEF Opened
  <1> QED BY <1>1, <1>2, <1>9, <1>10, Seating

\* The tags are written where the window is not, and the file is cut.
LEMMA TagsTouching == Restored /\ Touching /\ PatchTags => Touching'
  <1> SUFFICES ASSUME Restored, Touching, PatchTags
               PROVE  Touching'
    OBVIOUS
  <1> DEFINE ok == lib.tags /\ Disjoint(SectionAt(lib, ".dynamic"), Window(lib))
             f == With([length |-> temp.finish])
  <1>1. Proceed("tags", ok, "finalize") /\ Keep(ok, f) /\ UNCHANGED <<lib, dest>>
    BY DEF PatchTags, TagsFit
  <1>2. ok \in BOOLEAN /\ (ok => TagsFit(lib))
    BY DEF TagsFit
  <1> HIDE DEF ok
  <1>3. stage = "tags"
    BY <1>1 DEF Proceed
  <1>4. Seated(temp)
    BY <1>3 DEF Touching, Seats, Settled, Opened
  <1>5. /\ DOMAIN f = DOMAIN temp \cup {"length"}
        /\ \A x \in DOMAIN temp : x # "length" => f[x] = temp[x]
    BY WithFacts, DOMAIN [length |-> temp.finish] = {"length"}
  <1> HIDE DEF f
  <1>6. ok => Seats(f, "finalize")
    BY <1>2, <1>4, <1>5 DEF Seats, Seated, Closed
  <1>7. "tags" \in Opened /\ "finalize" \in Opened
    BY DEF Opened
  <1> QED BY <1>1, <1>2, <1>6, <1>7, Seating

\* The appended sections are laid from the cut on.
LEMMA FinalizeTouching == Restored /\ Touching /\ Finalize => Touching'
  <1> SUFFICES ASSUME Restored, Touching, Finalize
               PROVE  Touching'
    OBVIOUS
  <1> DEFINE ok == lib.last /\ temp.length >= lib.private
             length == Align(Appended.end, 8) + lib.headers
             parts == [length |-> length, loose |-> Appended.at]
             f == With(parts)
  <1>1. Proceed("finalize", ok, "validate") /\ Keep(ok, f) /\ UNCHANGED <<lib, dest>>
    BY DEF Finalize
  <1>2. ok \in BOOLEAN
    OBVIOUS
  <1> HIDE DEF ok, length
  <1>3. stage = "finalize"
    BY <1>1 DEF Proceed
  <1>4. Seated(temp) /\ TagsFit(lib) /\ temp.length = temp.finish
    BY <1>3 DEF Touching, Seats, Settled, Opened, Restored, Holds
  <1>5. DOMAIN parts = {"length", "loose"} /\ parts.loose = Laid(lib.loose, temp.finish).at
    BY <1>4 DEF Appended
  <1> HIDE DEF parts
  <1>6. /\ DOMAIN f = DOMAIN temp \cup {"length", "loose"}
        /\ f.loose = Laid(lib.loose, temp.finish).at
        /\ \A x \in DOMAIN temp : x \notin {"length", "loose"} => f[x] = temp[x]
    BY <1>5, WithFacts
  <1> HIDE DEF f
  <1>7. Seats(f, "validate")
    <2>1. Seated(f) /\ f.finish = temp.finish
      BY <1>4, <1>6 DEF Seated
    <2> QED BY <1>4, <1>6, <2>1 DEF Seats
  <1>8. "finalize" \in Opened /\ "validate" \in Opened
    BY DEF Opened
  <1> QED BY <1>1, <1>2, <1>7, <1>8, Seating

\* A parse moves nothing.
LEMMA ValidateTouching == Restored /\ Touching /\ Validate => Touching'
  <1> SUFFICES ASSUME Restored, Touching, Validate
               PROVE  Touching'
    OBVIOUS
  <1> DEFINE ok == /\ TableSize(".dynsym") \div SymbolSize = Len(temp.symbols)
                   /\ TableSize(".rela.dyn") \div RelaSize = Len(temp.dyn)
                   /\ TableSize(".rela.plt") \div RelaSize = Len(temp.plt)
  <1>1. Proceed("validate", ok, "persist") /\ Keep(ok, temp) /\ UNCHANGED <<lib, dest>>
    BY DEF Validate, CountsAgree
  <1>2. ok \in BOOLEAN
    OBVIOUS
  <1> HIDE DEF ok
  <1>3. stage = "validate"
    BY <1>1 DEF Proceed
  <1>4. Seats(temp, "persist")
    BY <1>3 DEF Touching, Seats, Settled, Closed, Opened
  <1>5. "validate" \in Opened /\ "persist" \in Opened
    BY DEF Opened
  <1> QED BY <1>1, <1>2, <1>4, <1>5, Seating

\* What is published is the file as it was seated.
LEMMA PersistTouching == Restored /\ Touching /\ Persist => Touching'
  <1> SUFFICES ASSUME Restored, Touching, Persist
               PROVE  Touching'
    OBVIOUS
  <1>1. stage = "persist" /\ stage' = "hash" /\ dest' = temp /\ UNCHANGED lib
    BY DEF Persist, Proceed
  <1>2. Seats(temp, "persist") /\ Linked(lib) /\ Parsed(lib)
    BY <1>1 DEF Touching, Restored, Opened
  <1>3. Seats(dest, "persist")'
    BY <1>1, <1>2 DEF Seats, Seated
  <1> QED BY <1>1, <1>2, <1>3 DEF Touching, Opened

\* Every step of the restoration.
LEMMA RestoreTouching == Restored /\ Touching /\ RestoreNext => Touching'
  <1> SUFFICES ASSUME Restored, Touching, RestoreNext
               PROVE  Touching'
    OBVIOUS
  <1>1. CASE BreakOff \/ LoadArtifacts \/ ReadArtifact \/ Hash
    <2>1. UNCHANGED <<lib, dest>> /\ stage' \in {"failed", "read", "written"}
      BY <1>1 DEF BreakOff, LoadArtifacts, ReadArtifact, Hash, Proceed
    <2> QED BY <2>1, TouchingStill DEF Opened
  <1>2. CASE CreateTemporary
    BY <1>2, CreateTouching
  <1>3. CASE DecodePrimary \/ DecodeAuxiliary \/ Extend
    <2>1. /\ UNCHANGED <<lib, dest>> /\ stage \in {"primary", "auxiliary", "extend"}
          /\ stage' \in {"failed", "auxiliary", "extend", "symbols"}
      BY <1>3 DEF DecodePrimary, DecodeAuxiliary, Extend, Proceed
    <2> QED BY <2>1, TouchingStill DEF Opened, Settled, Closed
  <1>4. CASE MergeSymbols \/ AddImports \/ ProfileConstructors
    <2>1. /\ UNCHANGED <<lib, dest>> /\ stage \in {"symbols", "imports", "constructors"}
          /\ stage' \in {"failed", "imports", "constructors", "plt"}
      BY <1>4 DEF MergeSymbols, AddImports, ProfileConstructors, Proceed
    <2> QED BY <2>1, TouchingStill DEF Opened, Settled, Closed
  <1>5. CASE BindPlt \/ RelocateDyn \/ Redirect
    <2>1. /\ UNCHANGED <<lib, dest>> /\ stage \in {"plt", "dyn", "redirect"}
          /\ stage' \in {"failed", "dyn", "redirect", "place"}
      BY <1>5 DEF BindPlt, RelocateDyn, Redirect, Proceed
    <2> QED BY <2>1, TouchingStill DEF Opened, Settled, Closed
  <1>6. CASE Place \/ PatchTags \/ Finalize
    BY <1>6, PlaceTouching, TagsTouching, FinalizeTouching
  <1>7. CASE Validate \/ Persist
    BY <1>7, ValidateTouching, PersistTouching
  <1> QED BY <1>1, <1>2, <1>3, <1>4, <1>5, <1>6, <1>7 DEF RestoreNext

\* The second invariant of the restoration, on top of Restored.
LEMMA TouchingStays == Restored /\ Touching /\ [LibraryNext]_all => Touching'
  <1> SUFFICES ASSUME Restored, Touching, [LibraryNext]_all
               PROVE  Touching'
    OBVIOUS
  <1>1. CASE Restoration
    BY <1>1, RestoreTouching DEF Restoration
  <1>2. CASE ~ Restoration
    <2>1. UNCHANGED restoring
      BY <1>2 DEF all, LibraryNext, Extraction, CollectModules, ExtractionFails, CollectionFails,
                  RestorationFails, ReopenFails, Succeed, Answer
    <2>2. UNCHANGED <<stage, lib, temp, dest>>
      BY <2>1 DEF restoring
    <2>3. Touching => Touching'
      BY <2>2 DEF Touching, Seats, Seated, Published
    <2> QED BY <2>3
  <1> QED BY <1>1, <1>2

\* Where a file with tables was cut.
LEMMA SeatsEnd ==
  ASSUME Linked(lib), Parsed(lib), NEW f, Seats(f, "persist")
  PROVE  f.finish \in Nat
  <1>1. PICK tables \in Seq(Measures) :
          /\ Moved(lib, tables) => f.finish = Placed(lib, tables).end
          /\ ~ Moved(lib, tables) => f.finish = lib.private
    BY DEF Seats, Seated, Closed
  <1>2. Placed(lib, tables).end \in Nat
    BY PlacedApart
  <1>3. lib.private \in Nat
    BY DEF Parsed
  <1> QED BY <1>1, <1>2, <1>3

\* For any library as a linker lays it out: what is published has nothing written over a
\* section that is not one of the tables, each table within the file, none over another,
\* and the appended sections behind them (metadata_capacity_end 1503-1527,
\* append_load_segment, materialize_static_elf_tables 2184-2256).
THEOREM OutputKeepsItsSections == LibrarySpec => []NothingElseIsTouched
  <1>1. LibraryInit => Touching
    BY DEF LibraryInit, RestoreInit, Touching, Opened, Published
  <1>2. Restored /\ Touching => NothingElseIsTouched
    <2> SUFFICES ASSUME Restored, Touching, Published
                 PROVE  NothingElseIsTouched
      BY DEF NothingElseIsTouched
    <2>1. Seats(dest, "persist") /\ Linked(lib) /\ Parsed(lib) /\ dest.finish \in Nat
      <3>1. Seats(dest, "persist") /\ Linked(lib) /\ Parsed(lib)
        BY DEF Touching
      <3>2. dest.finish \in Nat
        BY <3>1, SeatsEnd
      <3> QED BY <3>1, <3>2
    <2>2. /\ \A s \in Filed(lib) : s.name \notin TableNames(lib) \ {".dynamic"} =>
              /\ Disjoint(s, dest.cleared) /\ Disjoint(s, dest.header)
              /\ \A i \in DOMAIN dest.tables : Disjoint(s, dest.tables[i])
          /\ \A i \in DOMAIN dest.tables :
               \/ dest.tables[i].offset + dest.tables[i].size <= lib.private
               \/ /\ dest.tables[i].offset >= ExtensionStart(lib)
                  /\ dest.tables[i].offset + dest.tables[i].size <= dest.finish
                  /\ dest.finish <= MappingLength(lib)
          /\ \A i, j \in DOMAIN dest.tables : i # j => Disjoint(dest.tables[i], dest.tables[j])
          /\ \A i \in DOMAIN dest.loose : dest.loose[i].offset >= dest.finish
      BY <2>1, SeatedApart
    <2>3. ASSUME NEW s \in Filed(lib), s.name \notin TableNames(lib) \ {".dynamic"},
                 NEW part \in Touched
          PROVE  Disjoint(s, part)
      <3>1. CASE part \in {dest.cleared, dest.header}
        BY <2>2, <2>3, <3>1
      <3>2. CASE part \in {[offset |-> t.offset, size |-> t.size] : t \in ToSet(dest.tables)}
        <4>1. PICK i \in DOMAIN dest.tables :
                part = [offset |-> dest.tables[i].offset, size |-> dest.tables[i].size]
          BY <3>2 DEF ToSet
        <4>2. Disjoint(s, dest.tables[i])
          BY <2>2, <2>3
        <4> QED BY <4>1, <4>2 DEF Disjoint
      <3> QED BY <2>3, <3>1, <3>2 DEF Touched
    <2> QED BY <2>2, <2>3 DEF NothingElseIsTouched, ToSet
  <1> QED BY <1>1, <1>2, InitMeasured, MeasuredStays, InitRestored, RestoredStays, TouchingStays, PTL
          DEF LibrarySpec, all

-----------------------------------------------------------------------------
\* What a sequence holds with one more at its end.
LEMMA AppendSets ==
  ASSUME NEW s, IsSeq(s), NEW x
  PROVE  ToSet(Append(s, x)) = ToSet(s) \cup {x}
  <1>1. /\ Len(s) \in Nat /\ DOMAIN s = 1..Len(s) /\ DOMAIN Append(s, x) = 1..Len(s) + 1
        /\ \A i \in 1..Len(s) : Append(s, x)[i] = s[i]
        /\ Append(s, x)[Len(s) + 1] = x
    BY AppendFacts
  <1> DEFINE t == Append(s, x)
  <1> HIDE DEF t
  <1>2. /\ DOMAIN t = 1..Len(s) + 1 /\ \A i \in 1..Len(s) : t[i] = s[i]
        /\ t[Len(s) + 1] = x
    BY <1>1 DEF t
  <1>3. ASSUME NEW i \in DOMAIN t
        PROVE  t[i] \in ToSet(s) \cup {x}
    <2>1. CASE i = Len(s) + 1
      BY <1>2, <2>1
    <2>2. CASE i # Len(s) + 1
      <3>1. i \in 1..Len(s)
        BY <1>1, <1>2, <2>2
      <3> QED BY <1>1, <1>2, <3>1 DEF ToSet
    <2> QED BY <2>1, <2>2
  <1>4. ASSUME NEW i \in DOMAIN s
        PROVE  s[i] \in ToSet(t)
    <2>1. i \in DOMAIN t /\ t[i] = s[i]
      BY <1>1, <1>2
    <2> QED BY <2>1 DEF ToSet
  <1>5. x \in ToSet(t)
    <2>1. Len(s) + 1 \in DOMAIN t
      BY <1>1, <1>2
    <2> QED BY <1>2, <2>1 DEF ToSet
  <1>6. ToSet(t) = ToSet(s) \cup {x}
    BY <1>3, <1>4, <1>5 DEF ToSet
  <1> QED BY <1>6 DEF t

\* What two sequences hold, one behind the other.
LEMMA ConcatSets ==
  ASSUME NEW s, NEW t, IsSeq(s), IsSeq(t)
  PROVE  ToSet(s \o t) = ToSet(s) \cup ToSet(t)
  <1> DEFINE T == ToSet(s) \cup ToSet(t)
  <1>1. s \in Seq(T) /\ t \in Seq(T)
    BY SeqMonotonic DEF IsSeq, ToSet
  <1> HIDE DEF T
  <1>2. /\ Len(s) \in Nat /\ Len(t) \in Nat /\ DOMAIN s = 1..Len(s) /\ DOMAIN t = 1..Len(t)
        /\ s \o t \in Seq(T) /\ Len(s \o t) = Len(s) + Len(t)
        /\ \A i \in 1..Len(s) + Len(t) :
             (s \o t)[i] = IF i <= Len(s) THEN s[i] ELSE t[i - Len(s)]
    BY <1>1, ConcatProperties
  <1> DEFINE u == s \o t
  <1>3. DOMAIN u = 1..Len(s) + Len(t)
    BY <1>2
  <1>4. \A i \in 1..Len(s) + Len(t) : u[i] = IF i <= Len(s) THEN s[i] ELSE t[i - Len(s)]
    BY <1>2
  <1> HIDE DEF u
  <1>5. ASSUME NEW i \in DOMAIN u
        PROVE  u[i] \in ToSet(s) \cup ToSet(t)
    <2>1. CASE i <= Len(s)
      <3>1. i \in DOMAIN s
        BY <1>2, <1>3, <2>1
      <3> QED BY <1>3, <1>4, <2>1, <3>1 DEF ToSet
    <2>2. CASE ~ (i <= Len(s))
      <3>1. i - Len(s) \in DOMAIN t
        BY <1>2, <1>3, <2>2
      <3> QED BY <1>3, <1>4, <2>2, <3>1 DEF ToSet
    <2> QED BY <2>1, <2>2
  <1>6. ASSUME NEW i \in DOMAIN s
        PROVE  s[i] \in ToSet(u)
    <2>1. i \in DOMAIN u /\ u[i] = s[i]
      BY <1>2, <1>3, <1>4
    <2> QED BY <2>1 DEF ToSet
  <1>7. ASSUME NEW i \in DOMAIN t
        PROVE  t[i] \in ToSet(u)
    <2>1. Len(s) + i \in DOMAIN u /\ ~ (Len(s) + i <= Len(s)) /\ Len(s) + i - Len(s) = i
      BY <1>2, <1>3
    <2>2. u[Len(s) + i] = t[i]
      BY <1>3, <1>4, <2>1
    <2> QED BY <2>1, <2>2 DEF ToSet
  <1>8. ToSet(u) = ToSet(s) \cup ToSet(t)
    BY <1>5, <1>6, <1>7 DEF ToSet
  <1> QED BY <1>8 DEF u

\* Nothing is in the empty sequence.
LEMMA EmptyHolds == IsSeq(<<>>) /\ Len(<<>>) = 0 /\ ToSet(<<>>) = {}
  <1>1. <<>> \in Seq({}) /\ Len(<<>>) = 0 /\ DOMAIN <<>> = {}
    OBVIOUS
  <1>2. ToSet(<<>>) = {}
    BY <1>1 DEF ToSet
  <1> QED BY <1>1, <1>2, SeqOverItself

\* Picking takes each place once.
LEMMA PickedWhole ==
  ASSUME NEW rows, IsSeq(rows), NEW places, places \subseteq DOMAIN rows
  PROVE  /\ IsFiniteSet(places) /\ Len(Picked(rows, places)) = Cardinality(places)
         /\ ToSet(Picked(rows, places)) = {rows[i] : i \in places}
  <1> DEFINE n == Len(rows)
             Until(i) == {j \in places : j <= i}
  <1>1. PICK first : /\ Picked(rows, places) = first[n] /\ first[0] = <<>>
                     /\ \A i \in 1..n :
                          first[i] = IF i \in places THEN Append(first[i - 1], rows[i]) ELSE first[i - 1]
    BY PickedUnfolds
  <1> DEFINE Whole(i) == /\ IsSeq(first[i]) /\ IsFiniteSet(Until(i))
                         /\ Len(first[i]) = Cardinality(Until(i))
                         /\ ToSet(first[i]) = {rows[j] : j \in Until(i)}
             T == {i \in 0..n : Whole(i)}
  <1>2. n \in Nat /\ DOMAIN rows = 1..n
    BY AppendFacts
  <1> HIDE DEF n
  <1>3. 0 \in T
    <2>1. Until(0) = {}
      BY <1>2
    <2> HIDE DEF Until
    <2>2. {rows[j] : j \in Until(0)} = {}
      BY <2>1
    <2>3. IsFiniteSet({}) /\ Cardinality({}) = 0
      BY FS_EmptySet
    <2>4. IsSeq(first[0]) /\ Len(first[0]) = 0 /\ ToSet(first[0]) = {}
      BY <1>1, EmptyHolds
    <2>5. Whole(0)
      BY <2>1, <2>2, <2>3, <2>4
    <2>6. 0 \in 0..n
      BY <1>2
    <2> HIDE DEF Whole
    <2> QED BY <2>5, <2>6
  <1>4. ASSUME NEW i \in 1..n, i - 1 \in T
        PROVE  i \in T
    <2>1. Whole(i - 1)
      BY <1>4
    <2>2. CASE i \in places
      <3>1. Until(i) = Until(i - 1) \cup {i} /\ i \notin Until(i - 1)
        BY <1>2, <2>2
      <3> HIDE DEF Until
      <3>2. IsFiniteSet(Until(i)) /\ Cardinality(Until(i)) = Cardinality(Until(i - 1)) + 1
        BY <2>1, <3>1, FS_AddElement
      <3>3. first[i] = Append(first[i - 1], rows[i])
        BY <1>1, <2>2
      <3>4. IsSeq(first[i]) /\ Len(first[i]) = Len(first[i - 1]) + 1
        BY <2>1, <3>3, AppendFacts
      <3>5. ToSet(first[i]) = ToSet(first[i - 1]) \cup {rows[i]}
        BY <2>1, <3>3, AppendSets
      <3>6. {rows[j] : j \in Until(i)} = {rows[j] : j \in Until(i - 1)} \cup {rows[i]}
        BY <3>1
      <3>7. Whole(i)
        BY <2>1, <3>2, <3>4, <3>5, <3>6
      <3>8. i \in 0..n
        BY <1>2
      <3> HIDE DEF Whole
      <3> QED BY <3>7, <3>8
    <2>3. CASE i \notin places
      <3>1. Until(i) = Until(i - 1)
        BY <1>2, <2>3
      <3>2. first[i] = first[i - 1]
        BY <1>1, <2>3
      <3> HIDE DEF Until
      <3>3. Whole(i)
        BY <2>1, <3>1, <3>2
      <3>4. i \in 0..n
        BY <1>2
      <3> HIDE DEF Whole
      <3> QED BY <3>3, <3>4
    <2> QED BY <2>2, <2>3
  <1>5. n \in T
    <2>1. 0..n \subseteq T
      <3> HIDE DEF T
      <3> QED BY <1>2, <1>3, <1>4, UpTo
    <2>2. n \in 0..n
      BY <1>2
    <2> HIDE DEF T
    <2> QED BY <2>1, <2>2
  <1>6. Until(n) = places
    BY <1>2
  <1>7. Whole(n)
    BY <1>5
  <1> HIDE DEF Until
  <1> QED BY <1>1, <1>6, <1>7

\* Inserting takes nothing away.
LEMMA InsertedKeeps ==
  ASSUME NEW rows, IsSeq(rows), NEW row, NEW before
  PROVE  /\ IsSeq(Inserted(rows, row, before)) /\ Len(Inserted(rows, row, before)) = Len(rows) + 1
         /\ ToSet(Inserted(rows, row, before)) = ToSet(rows) \cup {row}
  <1> DEFINE behind == {i \in DOMAIN rows : <<row, rows[i]>> \notin before}
             k == Cardinality(behind)
             n == Len(rows)
             R == ToSet(rows)
             front == SubSeq(rows, 1, k)
             back == SubSeq(rows, k + 1, n)
  <1>1. n \in Nat /\ DOMAIN rows = 1..n
    BY AppendFacts
  <1>2. k \in Nat /\ k <= n
    <2>1. behind \subseteq 1..n
      BY <1>1
    <2> HIDE DEF behind, n
    <2>2. IsFiniteSet(1..n) /\ Cardinality(1..n) = n
      BY <1>1, FS_Interval
    <2>3. IsFiniteSet(behind) /\ Cardinality(behind) <= Cardinality(1..n)
      BY <2>1, <2>2, FS_Subset
    <2>4. k \in Nat
      BY <2>3, FS_CardinalityType
    <2>5. k <= n
      BY <2>2, <2>3
    <2> QED BY <2>4, <2>5
  <1>3. Inserted(rows, row, before) = front \o <<row>> \o back
    BY DEF Inserted
  <1>4. rows \in Seq(R)
    BY DEF IsSeq, ToSet
  <1>5. \A i \in 1..n : rows[i] \in R
    BY <1>1 DEF ToSet
  <1> HIDE DEF R, k
  <1>6. /\ front \in Seq(R) /\ Len(front) = k
        /\ \A i \in 1..k : front[i] = rows[i]
    <2>1. \A i \in 1..k : rows[i] \in R
      BY <1>1, <1>2, <1>5
    <2> QED BY <1>1, <1>2, <2>1, SubSeqProperties
  <1>7. /\ back \in Seq(R) /\ Len(back) = n - k
        /\ \A i \in 1..n - k : back[i] = rows[k + i]
    <2>1. \A i \in k + 1..n : rows[i] \in R
      BY <1>1, <1>2, <1>5
    <2>2. k + 1 \in Int /\ n \in Int
      BY <1>1, <1>2
    <2> HIDE DEF n
    <2>3. /\ back \in Seq(R) /\ Len(back) = (IF k + 1 <= n THEN n - (k + 1) + 1 ELSE 0)
          /\ \A i \in 1..n - (k + 1) + 1 : back[i] = rows[k + 1 + i - 1]
      BY <2>1, <2>2, SubSeqProperties
    <2>4. Len(back) = n - k
      BY <1>1, <1>2, <2>3
    <2>5. ASSUME NEW i \in 1..n - k
          PROVE  back[i] = rows[k + i]
      <3>1. i \in 1..n - (k + 1) + 1 /\ k + 1 + i - 1 = k + i
        BY <1>1, <1>2
      <3> QED BY <2>3, <3>1
    <2> QED BY <2>3, <2>4, <2>5
  <1> HIDE DEF front, back
  <1>8. IsSeq(front) /\ IsSeq(back) /\ DOMAIN front = 1..k /\ DOMAIN back = 1..n - k
    <2>1. IsSeq(front) /\ IsSeq(back)
      BY <1>6, <1>7, SeqOverItself
    <2> QED BY <1>6, <1>7, <2>1, AppendFacts
  <1>9. IsSeq(<<row>>) /\ Len(<<row>>) = 1 /\ ToSet(<<row>>) = {row}
    <2>1. <<row>> \in Seq({row}) /\ Len(<<row>>) = 1 /\ DOMAIN <<row>> = 1..1 /\ <<row>>[1] = row
      OBVIOUS
    <2>2. ToSet(<<row>>) = {row}
      BY <2>1 DEF ToSet
    <2> QED BY <2>1, <2>2, SeqOverItself
  <1>10. ToSet(rows) = ToSet(front) \cup ToSet(back)
    <2>1. ASSUME NEW i \in DOMAIN rows
          PROVE  rows[i] \in ToSet(front) \cup ToSet(back)
      <3>1. CASE i <= k
        <4>1. i \in 1..k
          BY <1>1, <1>2, <3>1
        <4> QED BY <1>6, <1>8, <4>1 DEF ToSet
      <3>2. CASE ~ (i <= k)
        <4>1. i - k \in 1..n - k /\ k + (i - k) = i
          BY <1>1, <1>2, <3>2
        <4>2. back[i - k] = rows[i]
          BY <1>7, <4>1
        <4> QED BY <1>8, <4>1, <4>2 DEF ToSet
      <3> QED BY <3>1, <3>2
    <2>2. ASSUME NEW i \in DOMAIN front
          PROVE  front[i] \in ToSet(rows)
      <3>1. i \in 1..k /\ i \in DOMAIN rows
        BY <1>1, <1>2, <1>8
      <3> QED BY <1>6, <3>1 DEF ToSet
    <2>3. ASSUME NEW i \in DOMAIN back
          PROVE  back[i] \in ToSet(rows)
      <3>1. i \in 1..n - k /\ k + i \in DOMAIN rows
        BY <1>1, <1>2, <1>8
      <3> QED BY <1>7, <3>1 DEF ToSet
    <2> QED BY <2>1, <2>2, <2>3 DEF ToSet
  <1>11. /\ IsSeq(front \o <<row>>) /\ Len(front \o <<row>>) = k + 1
         /\ ToSet(front \o <<row>>) = ToSet(front) \cup {row}
    <2>1. /\ IsSeq(front \o <<row>>) /\ Len(front \o <<row>>) = Len(front) + Len(<<row>>)
          /\ ToSet(front \o <<row>>) = ToSet(front) \cup ToSet(<<row>>)
      BY <1>8, <1>9, ConcatIsSeq, ConcatSets
    <2> QED BY <1>6, <1>9, <2>1
  <1> DEFINE most == front \o <<row>>
  <1>12. /\ IsSeq(most \o back) /\ Len(most \o back) = Len(most) + Len(back)
         /\ ToSet(most \o back) = ToSet(most) \cup ToSet(back)
    <2>1. IsSeq(most)
      BY <1>11
    <2> HIDE DEF most
    <2> QED BY <1>8, <2>1, ConcatIsSeq, ConcatSets
  <1>13. Len(most) + Len(back) = n + 1
    <2>1. Len(most) = k + 1
      BY <1>11
    <2> HIDE DEF most, n
    <2> QED BY <1>1, <1>2, <1>7, <2>1
  <1> QED BY <1>3, <1>10, <1>11, <1>12, <1>13

\* Sorting takes nothing away.
LEMMA ArrangedKeeps ==
  ASSUME NEW rows, IsSeq(rows), NEW before
  PROVE  /\ Len(Arranged(rows, before)) = Len(rows)
         /\ ToSet(Arranged(rows, before)) = ToSet(rows)
  <1> DEFINE n == Len(rows)
             Until(i) == {rows[j] : j \in 1..i}
  <1>1. PICK first : /\ Arranged(rows, before) = first[n] /\ first[0] = <<>>
                     /\ \A i \in 1..n : first[i] = Inserted(first[i - 1], rows[i], before)
    BY ArrangedUnfolds
  <1> DEFINE Keeps(i) == IsSeq(first[i]) /\ Len(first[i]) = i /\ ToSet(first[i]) = Until(i)
             T == {i \in 0..n : Keeps(i)}
  <1>2. n \in Nat /\ DOMAIN rows = 1..n
    BY AppendFacts
  <1> HIDE DEF n
  <1>3. 0 \in T
    <2>1. Until(0) = {}
      OBVIOUS
    <2> QED BY <1>1, <1>2, <2>1, EmptyHolds
  <1>4. ASSUME NEW i \in 1..n, i - 1 \in T
        PROVE  i \in T
    <2>1. Keeps(i - 1)
      BY <1>4
    <2>2. first[i] = Inserted(first[i - 1], rows[i], before)
      BY <1>1
    <2>3. /\ IsSeq(first[i]) /\ Len(first[i]) = Len(first[i - 1]) + 1
          /\ ToSet(first[i]) = ToSet(first[i - 1]) \cup {rows[i]}
      BY <2>1, <2>2, InsertedKeeps
    <2>4. 1..i = 1..i - 1 \cup {i}
      BY <1>2
    <2>5. Until(i) = Until(i - 1) \cup {rows[i]}
      BY <2>4
    <2>6. Len(first[i]) = i
      BY <2>1, <2>3
    <2> HIDE DEF Until
    <2>7. Keeps(i)
      BY <2>1, <2>3, <2>5, <2>6
    <2>8. i \in 0..n
      BY <1>2
    <2> HIDE DEF Keeps
    <2> QED BY <2>7, <2>8
  <1>5. n \in T
    <2>1. 0..n \subseteq T
      <3> HIDE DEF T
      <3> QED BY <1>2, <1>3, <1>4, UpTo
    <2>2. n \in 0..n
      BY <1>2
    <2> HIDE DEF T
    <2> QED BY <2>1, <2>2
  <1>6. Until(n) = ToSet(rows)
    BY <1>2 DEF ToSet
  <1>7. Keeps(n)
    BY <1>5
  <1> HIDE DEF Until
  <1>8. Len(Arranged(rows, before)) = n /\ ToSet(Arranged(rows, before)) = ToSet(rows)
    BY <1>1, <1>6, <1>7
  <1> QED BY <1>8 DEF n

-----------------------------------------------------------------------------
\* Undoing a rotation gives the symbol that was rotated.
LEMMA RotationsUndone ==
  ASSUME NEW m \in Nat, NEW s \in 1..m, NEW r \in 0..m - 1
  PROVE  Unrotate(Rotated(s, r, m), r, m) = s
  <1>1. CASE s + r > m
    <2>1. Rotated(s, r, m) = s + r - m
      BY <1>1 DEF Rotated
    <2>2. m - 1 + (s + r - m) - r = s - 1 /\ ~ (s - 1 >= m) /\ s - 1 + 1 = s
      OBVIOUS
    <2> QED BY <2>1, <2>2 DEF Unrotate
  <1>2. CASE ~ (s + r > m)
    <2>1. Rotated(s, r, m) = s + r
      BY <1>2 DEF Rotated
    <2>2. m - 1 + (s + r) - r = m - 1 + s /\ m - 1 + s >= m /\ m - 1 + s - m + 1 = s
      OBVIOUS
    <2> QED BY <2>1, <2>2 DEF Unrotate
  <1> QED BY <1>1, <1>2

\* Where the rows of two tables are, one behind the other.
LEMMA ConcatAt ==
  ASSUME NEW s, NEW t, IsSeq(s), IsSeq(t)
  PROVE  /\ \A i \in 1..Len(s) : (s \o t)[i] = s[i]
         /\ \A i \in 1..Len(t) : (s \o t)[Len(s) + i] = t[i]
  <1> DEFINE T == ToSet(s) \cup ToSet(t)
             u == s \o t
  <1>1. s \in Seq(T) /\ t \in Seq(T)
    BY SeqMonotonic DEF IsSeq, ToSet
  <1> HIDE DEF T
  <1>2. /\ Len(s) \in Nat /\ Len(t) \in Nat
        /\ \A i \in 1..Len(s) + Len(t) : u[i] = IF i <= Len(s) THEN s[i] ELSE t[i - Len(s)]
    BY <1>1, ConcatProperties
  <1> HIDE DEF u
  <1>3. ASSUME NEW i \in 1..Len(s)
        PROVE  u[i] = s[i]
    <2>1. i \in 1..Len(s) + Len(t) /\ i <= Len(s)
      BY <1>2
    <2> QED BY <1>2, <2>1
  <1>4. ASSUME NEW i \in 1..Len(t)
        PROVE  u[Len(s) + i] = t[i]
    <2>1. Len(s) + i \in 1..Len(s) + Len(t) /\ ~ (Len(s) + i <= Len(s)) /\ Len(s) + i - Len(s) = i
      BY <1>2
    <2> QED BY <1>2, <2>1
  <1> QED BY <1>3, <1>4 DEF u

\* The old symbols are the patched table's first ones.
LEMMA OldCounted ==
  ASSUME NEW l, Parsed(l), PatchFits(l)
  PROVE  /\ Len(l.symbols) \in Nat /\ OldCount(l) \in 1..Len(l.symbols) /\ TailStart(l) \in Nat \ {0}
         /\ IsSeq(OldSymbols(l)) /\ Len(OldSymbols(l)) = OldCount(l)
         /\ \A i \in 1..OldCount(l) : OldSymbols(l)[i] = Patched(l)[i]
  <1>1. /\ IsSeq(l.symbols) /\ Len(l.symbols) \in Nat
        /\ IsSeq(l.patch) /\ l.patch # <<>>
    BY ParsedRows, AppendFacts DEF PatchFits
  <1>2. IsSeq(Patched(l)) /\ Len(Patched(l)) = Len(l.symbols)
    <2>1. Patched(l) = [i \in DOMAIN l.symbols |-> Patched(l)[i]]
      BY DEF Patched
    <2> QED BY <1>1, <2>1, AsLong
  <1>3. TailStart(l) \in Nat \ {0} /\ TailStart(l) <= Len(l.symbols)
    <2>1. l.patch[1].at \in Targets(l)
      BY <1>1, TailFacts DEF Targets
    <2>2. Targets(l) \subseteq 1..Len(l.symbols) - 1
      BY DEF PatchFits
    <2>3. Targets(l) \subseteq 0..Len(l.symbols)
      BY <1>1, <2>2
    <2>4. Largest(Targets(l)) \in Targets(l)
      BY <1>1, <2>1, <2>3, LargestIsIn
    <2>5. Largest(Targets(l)) \in 1..Len(l.symbols) - 1
      BY <2>2, <2>4
    <2> QED BY <1>1, <2>5 DEF TailStart
  <1>4. OldCount(l) \in 1..Len(l.symbols)
    <2>1. OldCount(l) \in {TailStart(l), Len(l.symbols)}
      BY DEF OldCount
    <2> QED BY <1>1, <1>3, <2>1
  <1> DEFINE k == OldCount(l)
             P == ToSet(Patched(l))
  <1>5. \A i \in 1..k : Patched(l)[i] \in P
    <2>1. DOMAIN Patched(l) = 1..Len(l.symbols)
      BY <1>2, AppendFacts
    <2>2. 1..k \subseteq DOMAIN Patched(l)
      BY <1>1, <1>4, <2>1
    <2> QED BY <2>2 DEF ToSet
  <1>6. OldSymbols(l) = SubSeq(Patched(l), 1, k)
    BY DEF OldSymbols
  <1>7. k \in Int /\ k >= 1
    BY <1>1, <1>4
  <1> HIDE DEF k, P
  <1>8. /\ OldSymbols(l) \in Seq(P)
        /\ Len(OldSymbols(l)) = (IF 1 <= k THEN k - 1 + 1 ELSE 0)
        /\ \A i \in 1..k - 1 + 1 : OldSymbols(l)[i] = Patched(l)[1 + i - 1]
    BY <1>5, <1>6, <1>7, SubSeqProperties
  <1>9. IsSeq(OldSymbols(l)) /\ Len(OldSymbols(l)) = k
    BY <1>7, <1>8, SeqOverItself
  <1>10. ASSUME NEW i \in 1..k
         PROVE  OldSymbols(l)[i] = Patched(l)[i]
    <2>1. i \in 1..k - 1 + 1 /\ 1 + i - 1 = i
      BY <1>7
    <2> QED BY <1>8, <2>1
  <1> QED BY <1>1, <1>3, <1>4, <1>9, <1>10 DEF k

\* The merged table: the old symbols, the auxiliary image's, the special ones.
LEMMA MergedRows ==
  ASSUME NEW l, Parsed(l), PatchFits(l), AuxiliaryFits(l)
  PROVE  /\ Len(l.aux.symbols) \in Nat \ {0}
         /\ Len(Symbols(l)) = OldCount(l) + Len(l.aux.symbols) - 1
         /\ IsSeq(SpecialOrder(l)) /\ Len(SpecialOrder(l)) \in Nat
         /\ Len(Merged(l)) = Len(Symbols(l)) + Len(SpecialOrder(l))
         /\ IsSeq(Merged(l))
         /\ \A i \in 1..OldCount(l) : Merged(l)[i] = Patched(l)[i]
         /\ \A i \in 1..Len(l.aux.symbols) - 1 : Merged(l)[OldCount(l) + i] = l.aux.symbols[i + 1]
         /\ \A i \in 1..Len(SpecialOrder(l)) :
              Merged(l)[Len(Symbols(l)) + i] = Special(Told(l, SpecialOrder(l)[i]))
  <1> DEFINE order == SpecialOrder(l)
             specials == [i \in DOMAIN order |-> Special(Told(l, order[i]))]
             symbols == Symbols(l)
             old == OldSymbols(l)
             more == Tail(l.aux.symbols)
             n == OldCount(l)
             m == Len(l.aux.symbols) - 1
  <1>1. IsSeq(l.aux.symbols) /\ l.aux.symbols # <<>> /\ Len(l.aux.symbols) \in Nat \ {0}
    BY ParsedRows, FrontFacts DEF AuxiliaryFits
  <1>2. /\ IsSeq(more) /\ Len(more) = m
        /\ \A i \in 1..m : more[i] = l.aux.symbols[i + 1]
    <2>1. /\ IsSeq(more)
          /\ \A i \in DOMAIN more : i + 1 \in DOMAIN l.aux.symbols /\ more[i] = l.aux.symbols[i + 1]
      BY <1>1, TailFacts
    <2>2. Len(more) = m
      <3> DEFINE T == ToSet(l.aux.symbols)
      <3>1. l.aux.symbols \in Seq(T)
        BY <1>1 DEF IsSeq, ToSet
      <3> HIDE DEF T
      <3> QED BY <1>1, <3>1, HeadTailProperties
    <2>3. DOMAIN more = 1..Len(more)
      BY <2>1, AppendFacts
    <2> QED BY <2>1, <2>2, <2>3
  <1>3. /\ IsSeq(old) /\ Len(old) = n /\ n \in Nat
        /\ \A i \in 1..n : old[i] = Patched(l)[i]
    BY OldCounted
  <1>4. IsSeq(order)
    BY SpecialOrderIsSeq
  <1>5. Len(order) \in Nat /\ DOMAIN order = 1..Len(order)
    BY <1>4, AppendFacts
  <1> HIDE DEF order
  <1>6. IsSeq(specials) /\ Len(specials) = Len(order)
    <2>1. specials = [i \in DOMAIN order |-> specials[i]]
      OBVIOUS
    <2> HIDE DEF specials
    <2> QED BY <1>4, <2>1, AsLong
  <1>7. \A i \in 1..Len(order) : specials[i] = Special(Told(l, order[i]))
    BY <1>5
  <1>8. Merged(l) = symbols \o specials
    BY DEF Merged, order
  <1> HIDE DEF specials
  <1>9. symbols = old \o more
    BY DEF Symbols
  <1> HIDE DEF old, more, symbols, n
  <1>10. m \in Nat
    BY <1>1
  <1> HIDE DEF m
  <1>11. IsSeq(symbols) /\ Len(symbols) = n + m
    BY <1>2, <1>3, <1>9, ConcatIsSeq
  <1>12. /\ \A i \in 1..n : symbols[i] = Patched(l)[i]
         /\ \A i \in 1..m : symbols[n + i] = l.aux.symbols[i + 1]
    <2>1. /\ \A i \in 1..n : symbols[i] = old[i]
          /\ \A i \in 1..m : symbols[n + i] = more[i]
      <3>1. /\ \A i \in 1..Len(old) : (old \o more)[i] = old[i]
            /\ \A i \in 1..Len(more) : (old \o more)[Len(old) + i] = more[i]
        <4>1. IsSeq(old) /\ IsSeq(more)
          BY <1>2, <1>3
        <4> QED BY <4>1, ConcatAt
      <3>2. Len(old) = n /\ Len(more) = m
        BY <1>2, <1>3
      <3> QED BY <1>9, <3>1, <3>2
    <2> QED BY <1>2, <1>3, <2>1
  <1>13. IsSeq(Merged(l)) /\ Len(Merged(l)) = n + m + Len(order)
    BY <1>6, <1>8, <1>11, ConcatIsSeq
  <1>14. /\ \A i \in 1..n + m : Merged(l)[i] = symbols[i]
         /\ \A i \in 1..Len(order) : Merged(l)[n + m + i] = specials[i]
    BY <1>6, <1>8, <1>11, ConcatAt
  <1>15. \A i \in 1..n : Merged(l)[i] = Patched(l)[i]
    <2>1. 1..n \subseteq 1..n + m
      BY <1>3, <1>10
    <2> QED BY <1>12, <1>14, <2>1
  <1>16. \A i \in 1..m : Merged(l)[n + i] = l.aux.symbols[i + 1]
    <2>1. \A i \in 1..m : n + i \in 1..n + m
      BY <1>3, <1>10
    <2> QED BY <1>12, <1>14, <2>1
  <1>17. \A i \in 1..Len(order) : Merged(l)[n + m + i] = Special(Told(l, order[i]))
    BY <1>7, <1>14
  <1>18. Len(symbols) = n + Len(l.aux.symbols) - 1
    <2>1. Len(symbols) = n + (Len(l.aux.symbols) - 1)
      BY <1>11 DEF m
    <2> QED BY <1>1, <1>3, <2>1
  <1>19. Len(Merged(l)) = Len(symbols) + Len(order)
    BY <1>11, <1>13
  <1>20. \A i \in 1..Len(order) : Merged(l)[Len(symbols) + i] = Special(Told(l, order[i]))
    BY <1>11, <1>17
  <1>21. \A i \in 1..Len(l.aux.symbols) - 1 : Merged(l)[n + i] = l.aux.symbols[i + 1]
    BY <1>16 DEF m
  <1> QED BY <1>1, <1>4, <1>5, <1>13, <1>15, <1>18, <1>19, <1>20, <1>21 DEF n, order, symbols

\* A row names its symbol in the merged table, or none.
Tells(r, l) ==
  IF r.sym = 0 THEN r.means = ""
  ELSE r.sym \in 1..Len(Merged(l)) - 1 /\ Merged(l)[r.sym + 1].name = r.means

\* It stems from a row of the source or of the auxiliary image.
Comes(r, l) ==
  /\ {"at", "kind", "sym", "addend", "means"} \subseteq DOMAIN r
  /\ Tells(r, l)
  /\ \E o \in Sources(l) : o.at = r.at /\ o.means = r.means /\ o.addend = r.addend

\* The source's rows that stay name their symbols; those without one all stay.
LEMMA KeptComes ==
  ASSUME NEW l, Parsed(l), Meant(l), PatchFits(l), AuxiliaryFits(l),
         NEW rows \in {l.dyn, l.plt}
  PROVE  /\ IsSeq(rows) /\ IsSeq(Kept(l, rows))
         /\ \A r \in ToSet(Kept(l, rows)) : r \in ToSet(rows) /\ Comes(r, l)
         /\ \A r \in ToSet(rows) : r.sym = 0 => r \in ToSet(Kept(l, rows))
  <1> DEFINE stay == {i \in DOMAIN rows : ~ DroppedSymbol(l, rows[i])}
             n == OldCount(l)
             more == Len(l.aux.symbols) - 1 + Len(SpecialOrder(l))
  <1>1. IsSeq(rows)
    BY ParsedRows
  <1>2. Kept(l, rows) = Picked(rows, stay)
    BY DEF Kept
  <1>3. IsSeq(Kept(l, rows)) /\ ToSet(Kept(l, rows)) = {rows[i] : i \in stay}
    <2>1. stay \subseteq DOMAIN rows
      OBVIOUS
    <2> HIDE DEF stay
    <2> QED BY <1>1, <1>2, <2>1, PickedIsSeq, PickedWhole
  <1>4. /\ n \in 1..Len(l.symbols) /\ Len(l.symbols) \in Nat /\ TailStart(l) \in Nat \ {0}
    BY OldCounted
  <1>5. /\ Len(Merged(l)) = n + more /\ more \in Nat
        /\ \A i \in 1..n : Merged(l)[i] = Patched(l)[i]
    <2>1. /\ Len(l.aux.symbols) \in Nat \ {0}
          /\ Len(Symbols(l)) = n + Len(l.aux.symbols) - 1
          /\ Len(SpecialOrder(l)) \in Nat
          /\ Len(Merged(l)) = Len(Symbols(l)) + Len(SpecialOrder(l))
          /\ \A i \in 1..n : Merged(l)[i] = Patched(l)[i]
      BY MergedRows
    <2>2. n \in Nat
      BY <1>4
    <2> HIDE DEF n
    <2> QED BY <2>1, <2>2
  <1> HIDE DEF more
  <1>6. ASSUME NEW i \in stay
        PROVE  rows[i] \in ToSet(rows) /\ Comes(rows[i], l)
    <2> DEFINE r == rows[i]
    <2>1. i \in DOMAIN rows /\ ~ DroppedSymbol(l, r)
      OBVIOUS
    <2>2. r \in ToSet(rows)
      BY <2>1 DEF ToSet
    <2>3. r \in Sources(l) /\ r \in ToSet(l.dyn) \cup ToSet(l.plt)
      BY <2>2 DEF Sources
    <2> HIDE DEF r
    <2>4. {"at", "kind", "sym", "addend", "means"} \subseteq DOMAIN r
      BY <2>3 DEF Meant
    <2>5. CASE r.sym = 0
      <3>1. r.means = ""
        BY <2>3, <2>5 DEF Meant
      <3> QED BY <2>2, <2>3, <2>4, <2>5, <3>1 DEF Comes, Tells, r
    <2>6. CASE r.sym # 0
      <3>1. r.sym \in 1..Len(l.symbols) - 1 /\ Patched(l)[r.sym + 1].name = r.means
        BY <2>3, <2>6 DEF Meant
      <3>2. r.sym + 1 \in 1..n
        <4>1. CASE TailIsProtector(l)
          <5>1. n = TailStart(l) /\ r.sym \notin TailStart(l)..Len(l.symbols) - 1
            BY <2>1, <4>1 DEF OldCount, DroppedSymbol
          <5> HIDE DEF n
          <5> QED BY <1>4, <3>1, <5>1
        <4>2. CASE ~ TailIsProtector(l)
          <5>1. n = Len(l.symbols)
            BY <4>2 DEF OldCount
          <5> HIDE DEF n
          <5> QED BY <1>4, <3>1, <5>1
        <4> QED BY <4>1, <4>2
      <3>3. Merged(l)[r.sym + 1].name = r.means
        BY <1>5, <3>1, <3>2
      <3>4. r.sym \in 1..Len(Merged(l)) - 1
        <4>1. r.sym \in Nat \ {0} /\ r.sym + 1 <= n /\ n \in Nat
          BY <1>4, <3>1, <3>2
        <4> HIDE DEF n
        <4> QED BY <1>5, <4>1
      <3> QED BY <2>2, <2>3, <2>4, <2>6, <3>3, <3>4 DEF Comes, Tells, r
    <2> QED BY <2>5, <2>6
  <1>7. ASSUME NEW i \in DOMAIN rows, rows[i].sym = 0
        PROVE  i \in stay
    <2>1. 0 \notin TailStart(l)..Len(l.symbols) - 1
      BY <1>4
    <2> QED BY <1>7, <2>1 DEF DroppedSymbol
  <1>8. \A r \in ToSet(rows) : r.sym = 0 => r \in ToSet(Kept(l, rows))
    BY <1>3, <1>7 DEF ToSet
  <1> HIDE DEF stay
  <1> QED BY <1>1, <1>3, <1>6, <1>8

\* So do the auxiliary image's rows, in the merged table.
LEMMA RemappedComes ==
  ASSUME NEW l, Parsed(l), Meant(l), PatchFits(l), AuxiliaryFits(l),
         NEW rows \in {l.aux.first, l.aux.second}
  PROVE  /\ IsSeq(rows) /\ IsSeq(Remapped(l, rows)) /\ Len(Remapped(l, rows)) = Len(rows)
         /\ \A r \in ToSet(Remapped(l, rows)) : Comes(r, l)
  <1> DEFINE n == OldCount(l)
             last == Len(l.aux.symbols) - 1
             g == Remapped(l, rows)
  <1>1. IsSeq(rows)
    BY ParsedRows
  <1>2. IsSeq(g) /\ Len(g) = Len(rows)
    <2>1. g = [i \in DOMAIN rows |-> g[i]]
      BY DEF Remapped
    <2> HIDE DEF g
    <2> QED BY <1>1, <2>1, AsLong
  <1>3. n \in Nat \ {0}
    BY OldCounted
  <1>4. /\ last \in Nat /\ Len(Merged(l)) >= n + last /\ Len(Merged(l)) \in Nat
        /\ \A s \in 1..last : Merged(l)[n + s] = l.aux.symbols[s + 1]
    <2>1. /\ Len(l.aux.symbols) \in Nat \ {0}
          /\ Len(Symbols(l)) = n + Len(l.aux.symbols) - 1
          /\ Len(SpecialOrder(l)) \in Nat
          /\ Len(Merged(l)) = Len(Symbols(l)) + Len(SpecialOrder(l))
          /\ \A s \in 1..last : Merged(l)[n + s] = l.aux.symbols[s + 1]
      BY MergedRows
    <2> HIDE DEF n
    <2> QED BY <1>3, <2>1
  <1>5. RemapBase(l) = n - 1
    BY DEF RemapBase
  <1> HIDE DEF n
  <1>6. ASSUME NEW i \in DOMAIN rows
        PROVE  Comes(g[i], l)
    <2> DEFINE o == rows[i]
               sym == AuxSymbol(l, i, o.sym)
    <2>1. g[i] = [o EXCEPT !.sym = IF sym = 0 THEN 0 ELSE sym + RemapBase(l)]
      BY DEF Remapped
    <2>2. o \in ToSet(rows)
      BY DEF ToSet
    <2>3. o \in Sources(l)
      BY <2>2 DEF Sources
    <2>4. /\ {"at", "kind", "sym", "addend", "means"} \subseteq DOMAIN o
          /\ o.sym = 0 => o.means = ""
      BY <2>3 DEF Meant
    <2>5. o.sym # 0 =>
            \E s \in 1..last :
              /\ l.aux.symbols[s + 1].name = o.means
              /\ IF l.aux.permuted
                 THEN l.aux.rotation[i] \in 0..last - 1 /\ o.sym = Rotated(s, l.aux.rotation[i], last)
                 ELSE o.sym = s
      BY DEF Meant
    <2>6. sym = IF o.sym = 0 \/ ~ l.aux.permuted THEN o.sym
                ELSE Unrotate(o.sym, l.aux.rotation[i], last)
      BY DEF AuxSymbol
    <2> HIDE DEF o, sym, g
    <2>7. /\ {"at", "kind", "sym", "addend", "means"} \subseteq DOMAIN g[i]
          /\ g[i].at = o.at /\ g[i].means = o.means /\ g[i].addend = o.addend
          /\ g[i].sym = IF sym = 0 THEN 0 ELSE sym + RemapBase(l)
      BY <2>1, <2>4
    <2>8. Tells(g[i], l)
      <3>1. CASE o.sym = 0
        BY <2>4, <2>6, <2>7, <3>1 DEF Tells
      <3>2. CASE o.sym # 0
        <4>1. PICK s \in 1..last :
                /\ l.aux.symbols[s + 1].name = o.means
                /\ IF l.aux.permuted
                   THEN l.aux.rotation[i] \in 0..last - 1 /\ o.sym = Rotated(s, l.aux.rotation[i], last)
                   ELSE o.sym = s
          BY <2>5, <3>2
        <4>2. sym = s
          <5>1. CASE l.aux.permuted
            <6>1. l.aux.rotation[i] \in 0..last - 1 /\ o.sym = Rotated(s, l.aux.rotation[i], last)
              BY <4>1, <5>1
            <6>2. Unrotate(Rotated(s, l.aux.rotation[i], last), l.aux.rotation[i], last) = s
              <7> HIDE DEF last
              <7> QED BY <1>4, <6>1, RotationsUndone
            <6> QED BY <2>6, <3>2, <5>1, <6>1, <6>2
          <5>2. CASE ~ l.aux.permuted
            BY <2>6, <4>1, <5>2
          <5> QED BY <5>1, <5>2
        <4> HIDE DEF last
        <4>3. s # 0 /\ s \in Nat
          OBVIOUS
        <4>4. g[i].sym = s + (n - 1)
          BY <1>5, <2>7, <4>2, <4>3
        <4>5. g[i].sym + 1 = n + s /\ g[i].sym \in 1..Len(Merged(l)) - 1 /\ g[i].sym # 0
          BY <1>3, <1>4, <4>4
        <4>6. Merged(l)[g[i].sym + 1].name = o.means
          BY <1>4, <4>1, <4>5
        <4> QED BY <2>7, <4>5, <4>6 DEF Tells
      <3> QED BY <3>1, <3>2
    <2> QED BY <2>3, <2>7, <2>8 DEF Comes
  <1>7. DOMAIN g = DOMAIN rows
    BY DEF Remapped
  <1> HIDE DEF g
  <1>8. \A r \in ToSet(g) : Comes(r, l)
    BY <1>6, <1>7 DEF ToSet
  <1> QED BY <1>1, <1>2, <1>8 DEF g

-----------------------------------------------------------------------------
\* The rows inside .got.plt and those outside are all rows, each once.
LEMMA Divided ==
  ASSUME NEW l, NEW rows, IsSeq(rows)
  PROVE  /\ IsSeq(Inside(l, rows)) /\ IsSeq(Outside(l, rows))
         /\ Len(Inside(l, rows)) \in Nat /\ Len(Outside(l, rows)) \in Nat
         /\ Len(rows) = Len(Inside(l, rows)) + Len(Outside(l, rows))
         /\ ToSet(Inside(l, rows)) \subseteq ToSet(rows)
         /\ ToSet(Outside(l, rows)) \subseteq ToSet(rows)
  <1> DEFINE n == Len(rows)
             within == {i \in DOMAIN rows : InSlots(l, rows[i])}
             without == {i \in DOMAIN rows : ~ InSlots(l, rows[i])}
  <1>1. Inside(l, rows) = Picked(rows, within) /\ Outside(l, rows) = Picked(rows, without)
    BY DEF Inside, Outside
  <1>2. n \in Nat /\ DOMAIN rows = 1..n
    BY AppendFacts
  <1>3. within \cup without = 1..n /\ within \cap without = {}
    BY <1>2
  <1>4. within \subseteq DOMAIN rows /\ without \subseteq DOMAIN rows
    OBVIOUS
  <1> HIDE DEF within, without, n
  <1>5. /\ IsSeq(Picked(rows, within)) /\ IsFiniteSet(within)
        /\ Len(Picked(rows, within)) = Cardinality(within)
        /\ ToSet(Picked(rows, within)) = {rows[i] : i \in within}
    BY <1>4, PickedIsSeq, PickedWhole
  <1>6. /\ IsSeq(Picked(rows, without)) /\ IsFiniteSet(without)
        /\ Len(Picked(rows, without)) = Cardinality(without)
        /\ ToSet(Picked(rows, without)) = {rows[i] : i \in without}
    BY <1>4, PickedIsSeq, PickedWhole
  <1>7. Cardinality(within) \in Nat /\ Cardinality(without) \in Nat
    BY <1>5, <1>6, FS_CardinalityType
  <1>8. Cardinality(within \cup without) = Cardinality(within) + Cardinality(without)
    <2>1. Cardinality(within \cup without)
            = Cardinality(within) + Cardinality(without) - Cardinality(within \cap without)
      BY <1>5, <1>6, FS_Union
    <2>2. Cardinality(within \cap without) = 0
      BY <1>3, FS_EmptySet
    <2> QED BY <1>7, <2>1, <2>2
  <1>9. Cardinality(1..n) = n
    <2>1. Cardinality(1..n) = IF 1 > n THEN 0 ELSE n - 1 + 1
      BY <1>2, FS_Interval
    <2> QED BY <1>2, <2>1
  <1>10. {rows[i] : i \in within} \subseteq ToSet(rows) /\ {rows[i] : i \in without} \subseteq ToSet(rows)
    BY <1>4 DEF ToSet
  <1> QED BY <1>1, <1>3, <1>5, <1>6, <1>7, <1>8, <1>9, <1>10 DEF n

\* What a slot is told to be is one of the special names.
LEMMA ToldIsSpecial ==
  ASSUME NEW l, NEW slot
  PROVE  Told(l, slot) \in Specials
  <1> DEFINE passed == {i \in DOMAIN Tests : Tests[i] \in l.callers[slot]}
  <1>1. DOMAIN Tests = 1..4
    BY DEF Tests
  <1>2. \A i \in 1..4 : Tests[i] \in Specials
    <2>1. /\ Tests[1] = "memset" /\ Tests[2] = "strcmp" /\ Tests[3] = "strchr" /\ Tests[4] = "strlen"
      BY DEF Tests
    <2>2. \A i \in 1..4 : i = 1 \/ i = 2 \/ i = 3 \/ i = 4
      OBVIOUS
    <2> QED BY <2>1, <2>2 DEF Specials
  <1>3. Told(l, slot) = IF passed = {} THEN "strcpy" ELSE Tests[Smallest(passed)]
    BY DEF Told
  <1>4. passed \subseteq 1..4
    BY <1>1
  <1> HIDE DEF passed
  <1>5. CASE passed = {}
    BY <1>3, <1>5 DEF Specials
  <1>6. CASE passed # {}
    <2>1. passed \subseteq Nat
      BY <1>4
    <2>2. \E m \in passed : \A k \in passed : m <= k
      BY <1>6, <2>1, LeastOf
    <2>3. Smallest(passed) \in passed
      BY <2>2 DEF Smallest
    <2> QED BY <1>2, <1>3, <1>4, <1>6, <2>3
  <1> QED BY <1>5, <1>6

\* The missing slots are listed, each once.
LEMMA MissingOrdered ==
  ASSUME NEW l, Parsed(l)
  PROVE  /\ IsSeq(SpecialOrder(l)) /\ Len(SpecialOrder(l)) = Cardinality(Missing(l))
         /\ ToSet(SpecialOrder(l)) = Missing(l)
  <1> DEFINE slots == [i \in 1..l.slots |-> l.got + 8 * (i - 1)]
             left == {i \in 1..l.slots : slots[i] \in Missing(l)}
             f == [i \in left |-> slots[i]]
  <1>1. l.slots \in Nat /\ l.got \in Nat
    BY DEF Parsed
  <1>2. IsSeq(slots) /\ DOMAIN slots = 1..l.slots
    <2> DEFINE T == {slots[i] : i \in 1..l.slots}
    <2>1. slots \in [1..l.slots -> T]
      OBVIOUS
    <2>2. slots \in Seq(T)
      <3> HIDE DEF T, slots
      <3> QED BY <1>1, <2>1, SeqDef
    <2>3. DOMAIN slots = 1..l.slots
      OBVIOUS
    <2> HIDE DEF T, slots
    <2> QED BY <2>2, <2>3, SeqOverItself
  <1>3. SpecialOrder(l) = Picked(slots, left)
    BY DEF SpecialOrder
  <1>4. left \subseteq DOMAIN slots
    OBVIOUS
  <1>5. /\ IsSeq(Picked(slots, left)) /\ IsFiniteSet(left)
        /\ Len(Picked(slots, left)) = Cardinality(left)
        /\ ToSet(Picked(slots, left)) = {slots[i] : i \in left}
    <2> HIDE DEF slots, left
    <2> QED BY <1>2, <1>4, PickedIsSeq, PickedWhole
  <1>6. {slots[i] : i \in left} = Missing(l)
    <2>1. {slots[i] : i \in left} \subseteq Missing(l)
      OBVIOUS
    <2>2. ASSUME NEW slot \in Missing(l)
          PROVE  \E i \in left : slots[i] = slot
      <3>1. PICK i \in 0..l.slots - 1 : slot = l.got + 8 * i
        BY DEF Missing, Slots
      <3>2. i + 1 \in 1..l.slots /\ i + 1 - 1 = i
        BY <1>1
      <3>3. slots[i + 1] = slot
        BY <3>1, <3>2
      <3>4. i + 1 \in left
        BY <3>2, <3>3
      <3> QED BY <3>3, <3>4
    <2> HIDE DEF slots, left
    <2> QED BY <2>1, <2>2
  <1>7. ASSUME NEW i \in left, NEW j \in left, slots[i] = slots[j]
        PROVE  i = j
    <2>1. l.got + 8 * (i - 1) = l.got + 8 * (j - 1) /\ i \in Nat /\ j \in Nat
      BY <1>7
    <2> QED BY <1>1, <2>1
  <1> HIDE DEF slots, left
  <1>8. f \in Bijection(left, Missing(l))
    <2>1. f \in [left -> Missing(l)]
      BY <1>6
    <2>2. \A i, j \in left : f[i] = f[j] => i = j
      BY <1>7
    <2>3. \A slot \in Missing(l) : \E i \in left : f[i] = slot
      BY <1>6
    <2> HIDE DEF f
    <2> QED BY <2>1, <2>2, <2>3 DEF Bijection, Injection, Surjection, IsInjective
  <1>9. Cardinality(Missing(l)) = Cardinality(left)
    <2>1. ExistsBijection(left, Missing(l))
      BY <1>8 DEF ExistsBijection
    <2> QED BY <1>5, <2>1, FS_Bijection
  <1> QED BY <1>3, <1>5, <1>6, <1>9

\* Each missing slot gets a row that names a special symbol.
LEMMA SpecialsTell ==
  ASSUME NEW l, Parsed(l), PatchFits(l), AuxiliaryFits(l)
  PROVE  /\ IsSeq(SpecialRows(l)) /\ Len(SpecialRows(l)) = Cardinality(Missing(l))
         /\ \A r \in ToSet(SpecialRows(l)) : Tells(r, l)
         /\ \A slot \in Missing(l) :
              \E r \in ToSet(SpecialRows(l)) : r.at = slot /\ r.means \in Specials
  <1> DEFINE order == SpecialOrder(l)
             n == Len(Symbols(l))
             rows == SpecialRows(l)
  <1>1. /\ IsSeq(order) /\ Len(order) = Cardinality(Missing(l)) /\ ToSet(order) = Missing(l)
    BY MissingOrdered
  <1>2. Len(order) \in Nat /\ DOMAIN order = 1..Len(order)
    BY <1>1, AppendFacts
  <1>3. /\ n \in Nat \ {0} /\ Len(Merged(l)) = n + Len(order)
        /\ \A i \in 1..Len(order) : Merged(l)[n + i] = Special(Told(l, order[i]))
    <2>1. /\ Len(l.aux.symbols) \in Nat \ {0}
          /\ n = OldCount(l) + Len(l.aux.symbols) - 1
          /\ Len(Merged(l)) = n + Len(order)
          /\ \A i \in 1..Len(order) : Merged(l)[n + i] = Special(Told(l, order[i]))
      BY MergedRows
    <2>2. OldCount(l) \in Nat \ {0}
      BY OldCounted
    <2> HIDE DEF n, order
    <2>3. ASSUME NEW own \in Nat \ {0}, NEW aux \in Nat \ {0}
          PROVE  own + aux - 1 \in Nat \ {0}
      OBVIOUS
    <2>4. n \in Nat \ {0}
      BY ONLY <2>1, <2>2, <2>3
    <2> QED BY <2>1, <2>4
  <1>4. rows = [i \in DOMAIN order |->
                  [at |-> order[i], kind |-> "JUMP_SLOT", sym |-> n + i - 1,
                   addend |-> 0, means |-> Told(l, order[i])]]
    BY DEF SpecialRows
  <1> HIDE DEF order, n, rows
  <1>5. IsSeq(rows) /\ Len(rows) = Len(order) /\ DOMAIN rows = DOMAIN order
    <2>1. rows = [i \in DOMAIN order |-> rows[i]] /\ DOMAIN rows = DOMAIN order
      BY <1>4
    <2> QED BY <1>1, <2>1, AsLong
  <1>6. ASSUME NEW i \in DOMAIN order
        PROVE  Tells(rows[i], l) /\ rows[i].at = order[i] /\ rows[i].means \in Specials
    <2>1. /\ rows[i].at = order[i] /\ rows[i].sym = n + i - 1 /\ rows[i].means = Told(l, order[i])
      BY <1>4
    <2>2. i \in Nat \ {0} /\ i <= Len(order)
      BY <1>2
    <2>3. rows[i].sym \in 1..Len(Merged(l)) - 1 /\ rows[i].sym # 0 /\ rows[i].sym + 1 = n + i
      BY <1>2, <1>3, <2>1, <2>2
    <2>4. \A name : Special(name).name = name
      BY DEF Special
    <2>5. Merged(l)[rows[i].sym + 1] = Special(Told(l, order[i]))
      BY <1>2, <1>3, <2>3
    <2>6. Merged(l)[rows[i].sym + 1].name = rows[i].means
      BY <2>1, <2>4, <2>5
    <2>7. Tells(rows[i], l)
      BY <2>3, <2>6 DEF Tells
    <2> QED BY <2>1, <2>7, ToldIsSpecial
  <1>7. \A r \in ToSet(rows) : Tells(r, l)
    BY <1>5, <1>6 DEF ToSet
  <1>8. ASSUME NEW slot \in Missing(l)
        PROVE  \E r \in ToSet(rows) : r.at = slot /\ r.means \in Specials
    <2>1. PICK i \in DOMAIN order : order[i] = slot
      BY <1>1 DEF ToSet
    <2>2. rows[i] \in ToSet(rows)
      BY <1>5 DEF ToSet
    <2> QED BY <1>6, <2>1, <2>2
  <1> QED BY <1>1, <1>5, <1>7, <1>8 DEF rows

-----------------------------------------------------------------------------
\* The rows of .rela.plt name their symbols, and none is lost.
LEMMA PltRowsTell ==
  ASSUME NEW l, Parsed(l), Meant(l), PatchFits(l), AuxiliaryFits(l), PltFits(l)
  PROVE  /\ IsSeq(PltRows(l)) /\ Len(PltRows(l)) \in Nat /\ Len(OldPlt(l)) \in Nat
         /\ Cardinality(Missing(l)) \in Nat
         /\ Len(l.aux.second) \in Nat /\ Len(Outside(l, AuxPlt(l))) \in Nat
         /\ Len(PltRows(l)) + Len(Outside(l, AuxPlt(l)))
              = Len(OldPlt(l)) + Len(l.aux.second) + Cardinality(Missing(l))
         /\ \A r \in ToSet(PltRows(l)) : Tells(r, l)
         /\ \A slot \in Missing(l) : \E r \in ToSet(PltRows(l)) : r.at = slot /\ r.means \in Specials
  <1> DEFINE old == OldPlt(l)
             aux == AuxPlt(l)
             first == Inside(l, old)
             second == Inside(l, aux)
             third == SpecialRows(l)
             both == first \o second
             rows == both \o third
             beyond == Outside(l, aux)
             missing == Cardinality(Missing(l))
             second0 == l.aux.second
  <1>1. IsSeq(old) /\ \A r \in ToSet(old) : Comes(r, l)
    BY KeptComes DEF OldPlt
  <1>2. /\ IsSeq(second0) /\ IsSeq(aux) /\ Len(aux) = Len(second0)
        /\ \A r \in ToSet(aux) : Comes(r, l)
    BY RemappedComes DEF AuxPlt
  <1>3. /\ IsSeq(first) /\ Len(first) \in Nat /\ ToSet(first) \subseteq ToSet(old)
        /\ Len(old) = Len(first) + Len(Outside(l, old))
    BY <1>1, Divided
  <1>4. Outside(l, old) = <<>>
    BY DEF PltFits
  <1>5. Len(old) = Len(first)
    BY <1>3, <1>4, EmptyHolds
  <1>6. /\ IsSeq(second) /\ Len(second) \in Nat /\ ToSet(second) \subseteq ToSet(aux)
        /\ Len(beyond) \in Nat /\ Len(second0) = Len(second) + Len(beyond)
    BY <1>2, Divided
  <1>7. /\ IsSeq(third) /\ Len(third) = missing
        /\ \A r \in ToSet(third) : Tells(r, l)
        /\ \A slot \in Missing(l) : \E r \in ToSet(third) : r.at = slot /\ r.means \in Specials
    BY SpecialsTell
  <1>8. Len(third) \in Nat
    BY <1>7, AppendFacts
  <1>9. PltRows(l) = ByPlace(rows)
    BY DEF PltRows
  <1> HIDE DEF old, aux, beyond, third, missing, second0
  <1>10. /\ IsSeq(both) /\ Len(both) = Len(first) + Len(second)
         /\ ToSet(both) = ToSet(first) \cup ToSet(second)
    <2> HIDE DEF first, second
    <2> QED BY <1>3, <1>6, ConcatIsSeq, ConcatSets
  <1>11. /\ IsSeq(rows) /\ Len(rows) = Len(both) + Len(third)
         /\ ToSet(rows) = ToSet(both) \cup ToSet(third)
    <2> HIDE DEF both
    <2> QED BY <1>7, <1>10, ConcatIsSeq, ConcatSets
  <1> HIDE DEF rows, both, first, second
  <1>12. /\ IsSeq(PltRows(l)) /\ Len(PltRows(l)) = Len(rows) /\ ToSet(PltRows(l)) = ToSet(rows)
    BY <1>9, <1>11, ArrangedIsSeq, ArrangedKeeps DEF ByPlace
  <1>13. Len(PltRows(l)) = Len(first) + Len(second) + Len(third)
    BY <1>10, <1>11, <1>12
  <1>14. Len(PltRows(l)) + Len(beyond) = Len(old) + Len(second0) + missing
    BY <1>3, <1>5, <1>6, <1>7, <1>8, <1>13
  <1>15. /\ Len(PltRows(l)) \in Nat /\ Len(old) \in Nat /\ missing \in Nat /\ Len(second0) \in Nat
    BY <1>3, <1>5, <1>6, <1>7, <1>8, <1>13
  <1>16. ToSet(PltRows(l)) = ToSet(first) \cup ToSet(second) \cup ToSet(third)
    BY <1>10, <1>11, <1>12
  <1>17. \A r \in ToSet(PltRows(l)) : Tells(r, l)
    BY <1>1, <1>2, <1>3, <1>6, <1>7, <1>16 DEF Comes
  <1>18. \A slot \in Missing(l) : \E r \in ToSet(PltRows(l)) : r.at = slot /\ r.means \in Specials
    BY <1>7, <1>16
  <1> QED BY <1>6, <1>12, <1>14, <1>15, <1>17, <1>18 DEF old, beyond, aux, missing, second0

\* The rows of .rela.dyn stem from the sources; those without a symbol all stay.
LEMMA DynRowsCome ==
  ASSUME NEW l, Parsed(l), Meant(l), PatchFits(l), AuxiliaryFits(l)
  PROVE  /\ IsSeq(DynRows(l)) /\ Len(Kept(l, l.dyn)) \in Nat /\ Len(l.aux.first) \in Nat
         /\ Len(DynRows(l)) = Len(Kept(l, l.dyn)) + Len(l.aux.first) + Len(Outside(l, AuxPlt(l)))
         /\ \A r \in ToSet(DynRows(l)) : Comes(r, l)
         /\ \A r \in ToSet(l.dyn) : r.sym = 0 => r \in ToSet(DynRows(l))
  <1> DEFINE first == Kept(l, l.dyn)
             second == Remapped(l, l.aux.first)
             third == Outside(l, AuxPlt(l))
             both == first \o second
             count == Len(l.aux.first)
  <1>1. /\ IsSeq(first) /\ \A r \in ToSet(first) : Comes(r, l)
        /\ \A r \in ToSet(l.dyn) : r.sym = 0 => r \in ToSet(first)
    BY KeptComes
  <1>2. /\ IsSeq(second) /\ Len(second) = count /\ \A r \in ToSet(second) : Comes(r, l)
    BY RemappedComes
  <1>3. IsSeq(AuxPlt(l)) /\ \A r \in ToSet(AuxPlt(l)) : Comes(r, l)
    BY RemappedComes DEF AuxPlt
  <1>4. IsSeq(third) /\ ToSet(third) \subseteq ToSet(AuxPlt(l))
    BY <1>3, Divided
  <1>5. DynRows(l) = both \o third
    BY DEF DynRows
  <1> HIDE DEF first, second, third, count
  <1>6. /\ IsSeq(both) /\ Len(both) = Len(first) + Len(second) /\ Len(first) \in Nat /\ Len(second) \in Nat
        /\ ToSet(both) = ToSet(first) \cup ToSet(second)
    BY <1>1, <1>2, ConcatIsSeq, ConcatSets
  <1> HIDE DEF both
  <1>7. /\ IsSeq(DynRows(l)) /\ Len(DynRows(l)) = Len(both) + Len(third)
        /\ ToSet(DynRows(l)) = ToSet(both) \cup ToSet(third)
    BY <1>4, <1>5, <1>6, ConcatIsSeq, ConcatSets
  <1>8. \A r \in ToSet(DynRows(l)) : Comes(r, l)
    BY <1>1, <1>2, <1>3, <1>4, <1>6, <1>7
  <1>9. \A r \in ToSet(l.dyn) : r.sym = 0 => r \in ToSet(DynRows(l))
    BY <1>1, <1>6, <1>7
  <1> QED BY <1>2, <1>6, <1>7, <1>8, <1>9 DEF first, third, count

\* What the output says of a relocation, with the merged table.
Resolves(r, l) ==
  IF r.sym # 0 THEN r.sym < Len(Merged(l)) /\ Merged(l)[r.sym + 1].name = r.means
  ELSE r.means # "" =>
         \E s \in ToSet(Merged(l)), o \in Sources(l) :
           /\ s.defined /\ s.name = r.means
           /\ o.at = r.at /\ o.means = r.means /\ r.addend = o.addend + s.value

LEMMA TellingResolves ==
  ASSUME NEW l, NEW r, Tells(r, l), Len(Merged(l)) \in Nat
  PROVE  Resolves(r, l)
  <1>1. CASE r.sym = 0
    BY <1>1 DEF Tells, Resolves
  <1>2. CASE r.sym # 0
    <2>1. r.sym \in 1..Len(Merged(l)) - 1 /\ Merged(l)[r.sym + 1].name = r.means
      BY <1>2 DEF Tells
    <2>2. r.sym < Len(Merged(l))
      BY <2>1
    <2> QED BY <1>2, <2>1, <2>2 DEF Resolves
  <1> QED BY <1>1, <1>2

\* Converting keeps what the rows name, and leaves the RELATIVE ones alone.
LEMMA ConvertedResolve ==
  ASSUME NEW l, Parsed(l), Meant(l), PatchFits(l), AuxiliaryFits(l)
  PROVE  LET rows == Converted(DynRows(l), Merged(l)) IN
         /\ IsSeq(rows) /\ Len(rows) = Len(DynRows(l))
         /\ \A r \in ToSet(rows) : Resolves(r, l)
         /\ \A r \in ToSet(l.dyn) : IsRelative(r) => r \in ToSet(rows)
  <1> DEFINE from == DynRows(l)
             symbols == Merged(l)
             rows == Converted(from, symbols)
  <1>1. /\ IsSeq(from) /\ \A r \in ToSet(from) : Comes(r, l)
        /\ \A r \in ToSet(l.dyn) : r.sym = 0 => r \in ToSet(from)
    BY DynRowsCome
  <1>2. IsSeq(symbols) /\ Len(symbols) \in Nat /\ DOMAIN symbols = 1..Len(symbols)
    BY MergedRows, AppendFacts
  <1>3. DOMAIN rows = DOMAIN from
    BY DEF Converted
  <1>4. IsSeq(rows) /\ Len(rows) = Len(from)
    <2>1. rows = [i \in DOMAIN from |-> rows[i]]
      BY DEF Converted
    <2> HIDE DEF rows, from
    <2> QED BY <1>1, <2>1, AsLong
  <1>5. ASSUME NEW i \in DOMAIN from
        PROVE  Resolves(rows[i], l)
    <2> DEFINE r == from[i]
    <2>1. Comes(r, l)
      BY <1>1 DEF ToSet
    <2>2. rows[i] = IF r.kind = "RELATIVE" \/ r.sym = 0 \/ ~ symbols[r.sym + 1].defined THEN r
                    ELSE [r EXCEPT !.kind = "RELATIVE", !.sym = 0,
                                   !.addend = @ + symbols[r.sym + 1].value]
      BY DEF Converted
    <2> HIDE DEF rows, r
    <2>3. CASE r.kind = "RELATIVE" \/ r.sym = 0 \/ ~ symbols[r.sym + 1].defined
      <3>1. rows[i] = r
        BY <2>2, <2>3
      <3> QED BY <1>2, <2>1, <3>1, TellingResolves DEF Comes
    <2>4. CASE ~ (r.kind = "RELATIVE" \/ r.sym = 0 \/ ~ symbols[r.sym + 1].defined)
      <3> DEFINE s == symbols[r.sym + 1]
      <3>1. r.sym # 0 /\ s.defined
        BY <2>4
      <3>2. r.sym \in 1..Len(symbols) - 1 /\ s.name = r.means
        BY <2>1, <3>1 DEF Comes, Tells
      <3>3. s \in ToSet(symbols)
        <4>1. r.sym + 1 \in DOMAIN symbols
          BY <1>2, <3>2
        <4> HIDE DEF symbols
        <4> QED BY <4>1 DEF ToSet
      <3>4. PICK o \in Sources(l) : o.at = r.at /\ o.means = r.means /\ o.addend = r.addend
        BY <2>1 DEF Comes
      <3>5. {"at", "kind", "sym", "addend", "means"} \subseteq DOMAIN r
        BY <2>1 DEF Comes
      <3> HIDE DEF s
      <3>6. rows[i] = [r EXCEPT !.kind = "RELATIVE", !.sym = 0, !.addend = @ + s.value]
        BY <2>2, <2>4 DEF s
      <3>7. /\ rows[i].sym = 0 /\ rows[i].at = r.at /\ rows[i].means = r.means
            /\ rows[i].addend = r.addend + s.value
        BY <3>5, <3>6
      <3>8. rows[i].addend = o.addend + s.value /\ o.at = rows[i].at /\ o.means = rows[i].means
        BY <3>4, <3>7
      <3>9. s.name = rows[i].means
        BY <3>2, <3>7
      <3> QED BY <3>1, <3>3, <3>7, <3>8, <3>9 DEF Resolves
    <2> QED BY <2>3, <2>4
  <1>6. \A r \in ToSet(rows) : Resolves(r, l)
    <2> HIDE DEF rows, from
    <2> QED BY <1>3, <1>5 DEF ToSet
  <1>7. ASSUME NEW r \in ToSet(l.dyn), IsRelative(r)
        PROVE  r \in ToSet(rows)
    <2>1. r.kind = "RELATIVE" /\ r \in ToSet(from)
      BY <1>1, <1>7 DEF IsRelative
    <2>2. PICK i \in DOMAIN from : from[i] = r
      BY <2>1 DEF ToSet
    <2>3. rows[i] = r
      BY <2>1, <2>2 DEF Converted
    <2> HIDE DEF rows, from
    <2> QED BY <1>3, <2>3 DEF ToSet
  <1> QED BY <1>4, <1>6, <1>7

-----------------------------------------------------------------------------
\* Sequences one behind the other are a sequence.
LEMMA FlattenedIsSeq ==
  ASSUME NEW U, NEW seqs, IsSeq(seqs), \A i \in DOMAIN seqs : seqs[i] \in Seq(U)
  PROVE  FlattenSeq(seqs) \in Seq(U)
  <1> DEFINE n == Len(seqs)
             V == Seq(U)
             G(e, i) == e \o seqs[i]
             go == [p \in V \X (1..n) |-> G(p[1], p[2])]
             First(f) == f = [i \in 1..n |-> IF i = 1 THEN seqs[i] ELSE G(f[i - 1], i)]
             first == CHOOSE f : First(f)
  <1>1. n \in Nat /\ DOMAIN seqs = 1..n
    BY AppendFacts
  <1>2. CASE n = 0
    <2>1. seqs \in Seq(ToSet(seqs))
      BY DEF IsSeq, ToSet
    <2>2. seqs = <<>>
      BY <1>2, <2>1, EmptySeq
    <2>3. FlattenSeq(seqs) = seqs
      BY <1>2 DEF FlattenSeq
    <2>4. <<>> \in Seq(U)
      OBVIOUS
    <2> QED BY <2>2, <2>3, <2>4
  <1>3. CASE n # 0
    <2>1. FlattenSeq(seqs) = first[n]
      BY <1>3 DEF FlattenSeq
    <2> HIDE DEF n, first
    <2>2. \A i \in 1..n : seqs[i] \in V
      BY <1>1
    <2>3. \A e \in V, i \in 1..n : G(e, i) \in V
      BY <2>2, ConcatProperties
    <2>4. <<>> \in V
      OBVIOUS
    <2>5. G(<<>>, 1) = seqs[1]
      <3>1. seqs[1] \in Seq(U)
        BY <1>1, <1>3
      <3> QED BY <3>1, ConcatEmptySeq
    <2> HIDE DEF V, G
    <2>6. go \in [V \X (1..n) -> V]
      BY <2>3
    <2>7. \A e \in V, i \in 1..n : go[<<e, i>>] = G(e, i)
      OBVIOUS
    <2> HIDE DEF go
    <2>8. PICK f \in [0..n -> V] : Steps(f, n, <<>>, go)
      BY <1>1, <2>4, <2>6, StepsExist
    <2> DEFINE g == [i \in 1..n |-> f[i]]
    <2>9. ASSUME NEW i \in 1..n
          PROVE  g[i] = (IF i = 1 THEN seqs[i] ELSE G(g[i - 1], i)) /\ g[i] \in V
      <3>1. i \in 0..n /\ i # 0 /\ i - 1 \in 0..n
        BY <1>1
      <3>2. f[i] = G(f[i - 1], i) /\ f[i] \in V /\ f[0] = <<>>
        <4>1. f[i] = go[<<f[i - 1], i>>]
          BY <2>8, <3>1 DEF Steps
        <4>2. f[0] = <<>>
          <5>1. 0 \in 0..n
            BY <1>1
          <5> QED BY <2>8, <5>1 DEF Steps
        <4> QED BY <2>7, <2>8, <3>1, <4>1, <4>2
      <3>3. CASE i = 1
        BY <2>5, <3>2, <3>3
      <3>4. CASE i # 1
        <4>1. i - 1 \in 1..n
          BY <1>1, <3>4
        <4> QED BY <3>2, <3>4, <4>1
      <3> QED BY <3>3, <3>4
    <2>10. First(g)
      <3>1. g = [i \in 1..n |-> g[i]]
        OBVIOUS
      <3> HIDE DEF g
      <3> QED BY <2>9, <3>1
    <2>11. First(first)
      <3> HIDE DEF First, g
      <3> QED BY <2>10 DEF first
    <2> HIDE DEF g
    <2> DEFINE T == {i \in 0..n : i # 0 => first[i] \in V}
    <2>12. ASSUME NEW i \in 1..n, i - 1 \in T
           PROVE  i \in T
      <3>1. first[i] = IF i = 1 THEN seqs[i] ELSE G(first[i - 1], i)
        BY <2>11
      <3>2. i # 1 => first[i - 1] \in V
        BY <2>12
      <3>3. first[i] \in V
        BY <2>2, <2>3, <3>1, <3>2
      <3>4. i \in 0..n
        BY <1>1
      <3> QED BY <3>3, <3>4
    <2>13. 0 \in T
      BY <1>1
    <2>14. n \in T
      <3>1. 0..n \subseteq T
        <4> HIDE DEF T
        <4> QED BY <1>1, <2>12, <2>13, UpTo
      <3>2. n \in 0..n
        BY <1>1
      <3> HIDE DEF T
      <3> QED BY <3>1, <3>2
    <2>15. first[n] \in V
      BY <1>3, <2>14
    <2> QED BY <2>1, <2>15 DEF V
  <1> QED BY <1>2, <1>3

\* The rows of the constructor array are rows of the source; none is redirected twice.
LEMMA AddendsFit ==
  ASSUME NEW l, Parsed(l), ConstructorsFit(l)
  PROVE  /\ ToSet(InitRows(l)) \subseteq ToSet(l.dyn) /\ ToSet(FiniRows(l)) \subseteq ToSet(l.dyn)
         /\ IsSeq(InitRows(l)) /\ IsSeq(FiniRows(l))
         /\ DOMAIN Addends(l) \subseteq DOMAIN InitRows(l)
  <1> DEFINE within == {i \in DOMAIN l.dyn :
                          l.init <= l.dyn[i].at /\ l.dyn[i].at < l.init + 8 * l.inits}
             last == {i \in DOMAIN l.dyn : l.dyn[i].at = l.fini}
             picked == Picked(l.dyn, within)
             rows == InitRows(l)
             U == ToSet(l.callbacks) \cup {rows[i].addend : i \in DOMAIN rows}
             Piece(i) == LET target == rows[i].addend IN
                        CASE l.code[target] = "bootstrap" -> l.callbacks
                          [] l.code[target] = "code" -> <<target>>
                          [] OTHER -> <<>>
             parts == [i \in DOMAIN rows |-> Piece(i)]
  <1>1. IsSeq(l.dyn)
    BY ParsedRows
  <1>2. within \subseteq DOMAIN l.dyn /\ last \subseteq DOMAIN l.dyn
    OBVIOUS
  <1>3. rows = ByPlace(picked) /\ FiniRows(l) = Picked(l.dyn, last)
    BY DEF InitRows, FiniRows
  <1>4. Addends(l) = FlattenSeq(parts)
    BY DEF Addends
  <1> HIDE DEF within, last, rows
  <1>5. /\ IsSeq(FiniRows(l)) /\ ToSet(FiniRows(l)) \subseteq ToSet(l.dyn)
    <2>1. IsSeq(Picked(l.dyn, last)) /\ ToSet(Picked(l.dyn, last)) = {l.dyn[i] : i \in last}
      BY <1>1, <1>2, PickedIsSeq, PickedWhole
    <2>2. {l.dyn[i] : i \in last} \subseteq ToSet(l.dyn)
      BY <1>2 DEF ToSet
    <2> QED BY <1>3, <2>1, <2>2
  <1>6. /\ IsSeq(picked) /\ ToSet(picked) \subseteq ToSet(l.dyn)
    <2>1. IsSeq(picked) /\ ToSet(picked) = {l.dyn[i] : i \in within}
      BY <1>1, <1>2, PickedIsSeq, PickedWhole
    <2>2. {l.dyn[i] : i \in within} \subseteq ToSet(l.dyn)
      BY <1>2 DEF ToSet
    <2> QED BY <2>1, <2>2
  <1> HIDE DEF picked
  <1>7. IsSeq(rows) /\ ToSet(rows) \subseteq ToSet(l.dyn)
    BY <1>3, <1>6, ArrangedIsSeq, ArrangedKeeps DEF ByPlace
  <1>8. Len(rows) = l.inits /\ Len(Addends(l)) <= l.inits
    BY DEF ConstructorsFit, rows
  <1>9. l.inits \in Nat /\ DOMAIN rows = 1..l.inits
    BY <1>7, <1>8, AppendFacts DEF Parsed
  <1>10. l.callbacks \in Seq(U)
    <2>1. l.callbacks \in Seq(ToSet(l.callbacks))
      BY DEF Parsed, Listed
    <2>2. ToSet(l.callbacks) \subseteq U
      OBVIOUS
    <2> HIDE DEF U
    <2> QED BY <2>1, <2>2, SeqMonotonic
  <1>11. ASSUME NEW i \in DOMAIN rows
         PROVE  Piece(i) \in Seq(U)
    <2>1. rows[i].addend \in U
      OBVIOUS
    <2> HIDE DEF U
    <2>2. <<rows[i].addend>> \in Seq(U) /\ <<>> \in Seq(U)
      BY <2>1
    <2>3. Piece(i) \in {l.callbacks, <<rows[i].addend>>, <<>>}
      OBVIOUS
    <2> HIDE DEF Piece
    <2> QED BY <1>10, <2>2, <2>3
  <1> HIDE DEF U, Piece
  <1>12. IsSeq(parts)
    <2>1. parts = [i \in DOMAIN rows |-> parts[i]]
      OBVIOUS
    <2> HIDE DEF parts
    <2> QED BY <1>7, <2>1, AsLong
  <1>13. \A i \in DOMAIN parts : parts[i] \in Seq(U)
    BY <1>11
  <1> HIDE DEF parts
  <1>14. Addends(l) \in Seq(U)
    BY <1>4, <1>12, <1>13, FlattenedIsSeq
  <1>15. Len(Addends(l)) \in Nat /\ DOMAIN Addends(l) = 1..Len(Addends(l))
    BY <1>14
  <1>16. DOMAIN Addends(l) \subseteq DOMAIN rows
    BY <1>8, <1>9, <1>15
  <1> QED BY <1>5, <1>7, <1>16 DEF rows

\* The one row of a place.
LEMMA OnlyRow ==
  ASSUME NEW rows, IsSeq(rows), NEW at, Cardinality({i \in DOMAIN rows : rows[i].at = at}) = 1,
         NEW i \in DOMAIN rows, rows[i].at = at, NEW r \in ToSet(rows), r.at = at
  PROVE  rows[i] = r
  <1> DEFINE here == {j \in DOMAIN rows : rows[j].at = at}
  <1>1. PICK j \in DOMAIN rows : rows[j] = r
    BY DEF ToSet
  <1>2. i \in here /\ j \in here
    BY <1>1
  <1>3. IsFiniteSet(here)
    <2>1. Len(rows) \in Nat /\ DOMAIN rows = 1..Len(rows)
      BY AppendFacts
    <2>2. here \subseteq 1..Len(rows)
      BY <2>1
    <2> HIDE DEF here
    <2>3. IsFiniteSet(1..Len(rows))
      BY <2>1, FS_Interval
    <2> QED BY <2>2, <2>3, FS_Subset
  <1>4. Cardinality(here) = 1
    OBVIOUS
  <1> HIDE DEF here
  <1>5. PICK x : here = {x}
    BY <1>3, <1>4, FS_Singleton
  <1> QED BY <1>1, <1>2, <1>5

\* Redirecting touches only rows without a symbol, which had none in the source.
LEMMA RedirectedResolve ==
  ASSUME NEW l, Parsed(l), Meant(l), ConstructorsFit(l),
         NEW rows, IsSeq(rows), RedirectFits(l, rows),
         \A r \in ToSet(rows) : Resolves(r, l),
         \A r \in ToSet(l.dyn) : IsRelative(r) => r \in ToSet(rows)
  PROVE  /\ IsSeq(Redirected(l, rows)) /\ Len(Redirected(l, rows)) = Len(rows)
         /\ \A r \in ToSet(Redirected(l, rows)) : Resolves(r, l)
  <1> DEFINE g == Redirected(l, rows)
             places == {l.init + 8 * (k - 1) : k \in DOMAIN Addends(l)}
  <1>1. IsSeq(g) /\ Len(g) = Len(rows) /\ DOMAIN g = DOMAIN rows
    <2>1. g = [i \in DOMAIN rows |-> g[i]] /\ DOMAIN g = DOMAIN rows
      BY DEF Redirected
    <2> HIDE DEF g
    <2> QED BY <2>1, AsLong
  <1>2. ASSUME NEW r \in ToSet(l.dyn), r.at \in places \cup {l.fini}, IsRelative(r),
               NEW i \in DOMAIN rows, rows[i].at = r.at, NEW x
        PROVE  Resolves([rows[i] EXCEPT !.addend = x], l)
    <2>1. Cardinality({j \in DOMAIN rows : rows[j].at = r.at}) = 1
      BY <1>2 DEF RedirectFits
    <2>2. r \in ToSet(rows)
      BY <1>2
    <2>3. rows[i] = r
      BY <1>2, <2>1, <2>2, OnlyRow
    <2>4. r \in Sources(l) /\ r.sym = 0
      BY <1>2 DEF Sources, IsRelative
    <2>5. {"at", "kind", "sym", "addend", "means"} \subseteq DOMAIN r /\ r.means = ""
      BY <2>4 DEF Meant
    <2>6. [r EXCEPT !.addend = x].sym = 0 /\ [r EXCEPT !.addend = x].means = ""
      BY <2>4, <2>5
    <2> QED BY <2>3, <2>6 DEF Resolves
  <1>3. ASSUME NEW i \in DOMAIN rows
        PROVE  Resolves(g[i], l)
    <2> DEFINE slot == (rows[i].at - l.init) \div 8 + 1
    <2>1. g[i] = IF rows[i].at \in places
                 THEN [rows[i] EXCEPT !.addend = Addends(l)[slot]]
                 ELSE IF rows[i].at = l.fini
                      THEN [rows[i] EXCEPT !.addend = FiniRows(l)[1].addend]
                      ELSE rows[i]
      BY DEF Redirected
    <2> HIDE DEF g, slot, places
    <2>2. CASE rows[i].at \in places
      <3>1. PICK k \in DOMAIN Addends(l) : rows[i].at = l.init + 8 * (k - 1)
        BY <2>2 DEF places
      <3> DEFINE r == InitRows(l)[k]
      <3>2. k \in DOMAIN InitRows(l) /\ ToSet(InitRows(l)) \subseteq ToSet(l.dyn)
        BY AddendsFit
      <3>3. r \in ToSet(l.dyn)
        BY <3>2 DEF ToSet
      <3>4. r.at = l.init + 8 * (k - 1) /\ IsRelative(r)
        BY <3>2 DEF ConstructorsFit
      <3>5. r.at = rows[i].at /\ r.at \in places \cup {l.fini}
        BY <2>2, <3>1, <3>4
      <3> HIDE DEF r
      <3>6. Resolves([rows[i] EXCEPT !.addend = Addends(l)[slot]], l)
        BY <1>2, <3>3, <3>4, <3>5
      <3> QED BY <2>1, <2>2, <3>6
    <2>3. CASE rows[i].at \notin places /\ rows[i].at = l.fini
      <3> DEFINE r == FiniRows(l)[1]
      <3>1. /\ Len(FiniRows(l)) = 1 /\ IsRelative(r)
            /\ IsSeq(FiniRows(l)) /\ ToSet(FiniRows(l)) \subseteq ToSet(l.dyn)
        BY AddendsFit DEF ConstructorsFit
      <3>2. 1 \in DOMAIN FiniRows(l)
        BY <3>1, AppendFacts
      <3>3. r \in ToSet(l.dyn)
        BY <3>1, <3>2 DEF ToSet
      <3>4. r.at = l.fini
        <4> DEFINE last == {j \in DOMAIN l.dyn : l.dyn[j].at = l.fini}
        <4>1. FiniRows(l) = Picked(l.dyn, last) /\ last \subseteq DOMAIN l.dyn
          BY DEF FiniRows
        <4> HIDE DEF last
        <4>2. ToSet(FiniRows(l)) = {l.dyn[j] : j \in last}
          BY <4>1, ParsedRows, PickedWhole
        <4>3. r \in ToSet(FiniRows(l))
          BY <3>2 DEF ToSet
        <4>4. PICK j \in last : r = l.dyn[j]
          BY <4>2, <4>3
        <4> QED BY <4>4 DEF last
      <3>5. r.at = rows[i].at /\ r.at \in places \cup {l.fini}
        BY <2>3, <3>4
      <3>6. IsRelative(r)
        BY <3>1
      <3> HIDE DEF r
      <3>7. Resolves([rows[i] EXCEPT !.addend = FiniRows(l)[1].addend], l)
        BY <1>2, <3>3, <3>5, <3>6
      <3> QED BY <2>1, <2>3, <3>7
    <2>4. CASE rows[i].at \notin places /\ rows[i].at # l.fini
      <3>1. rows[i] \in ToSet(rows)
        BY DEF ToSet
      <3> QED BY <2>1, <2>4, <3>1
    <2> QED BY <2>2, <2>3, <2>4
  <1>4. \A r \in ToSet(g) : Resolves(r, l)
    <2> HIDE DEF g
    <2> QED BY <1>1, <1>3 DEF ToSet
  <1> QED BY <1>1, <1>4

-----------------------------------------------------------------------------
\* The rows a file has at its destination: as many as there were, and each names what
\* its author meant.
Resolved(f) ==
  /\ "dyn" \in DOMAIN f
  /\ Meant(lib) => /\ Len(f.dyn) = Len(DynRows(lib))
                   /\ \A r \in ToSet(f.dyn) : Resolves(r, lib)

\* What the relocation tables of a file are at each stage.
Relocated(f, s) ==
  /\ s \in {"dyn", "redirect", "place"} \cup Settled \cup Closed =>
       PltFits(lib) /\ "plt" \in DOMAIN f /\ f.plt = PltRows(lib)
  /\ s = "redirect" =>
       "dyn" \in DOMAIN f /\ f.dyn = InOrder(Converted(DynRows(lib), Merged(lib)))
  /\ s \in {"place"} \cup Settled \cup Closed => Resolved(f)

(***************************************************************************)
(* The inductive invariant of the relocations, on top of Restored.  The    *)
(* rows of .rela.dyn are known exactly until the constructors redirect     *)
(* some of them; what is redirected are rows the constructors' profile     *)
(* found in the source, which is why that profile is kept.                 *)
(***************************************************************************)
Telling ==
  /\ stage \in Opened => Relocated(temp, stage)
  /\ stage \in Profiled /\ Constructors \in Indexed => ConstructorsFit(lib)
  /\ Published => Relocated(dest, "persist") /\ Parsed(lib) /\ PatchFits(lib) /\ AuxiliaryFits(lib)

\* Sorting .rela.dyn loses nothing, converted or not.
LEMMA SortedResolve ==
  ASSUME NEW l, Parsed(l), Meant(l), PatchFits(l), AuxiliaryFits(l)
  PROVE  LET rows == InOrder(Converted(DynRows(l), Merged(l))) IN
         /\ IsSeq(rows) /\ Len(rows) = Len(DynRows(l))
         /\ \A r \in ToSet(rows) : Resolves(r, l)
         /\ \A r \in ToSet(l.dyn) : IsRelative(r) => r \in ToSet(rows)
  <1> DEFINE from == Converted(DynRows(l), Merged(l))
  <1>1. /\ IsSeq(from) /\ Len(from) = Len(DynRows(l))
        /\ \A r \in ToSet(from) : Resolves(r, l)
        /\ \A r \in ToSet(l.dyn) : IsRelative(r) => r \in ToSet(from)
    BY ConvertedResolve
  <1> HIDE DEF from
  <1>2. /\ IsSeq(InOrder(from)) /\ Len(InOrder(from)) = Len(from) /\ ToSet(InOrder(from)) = ToSet(from)
    BY <1>1, ArrangedIsSeq, ArrangedKeeps DEF InOrder
  <1>3. InOrder(from) = InOrder(Converted(DynRows(l), Merged(l)))
    BY DEF from
  <1> QED BY <1>1, <1>2, <1>3

\* A step before the rows are bound, or of a call that is over.
LEMMA TellingStill ==
  ASSUME Telling, UNCHANGED <<lib, dest>>,
         stage' \in Opened => stage \in Opened \ Profiled /\ stage' \in Opened \ Profiled
  PROVE  Telling'
  <1>1. Published' => Published /\ (Relocated(dest, "persist") => Relocated(dest, "persist")')
    BY DEF Published, Relocated, Resolved
  <1>2. stage' \in Opened => Relocated(temp, stage)'
    BY DEF Relocated, Settled, Closed, Profiled, Named, Extended, Opened
  <1>3. stage' \notin Profiled
    BY DEF Profiled, Named, Extended, Opened
  <1> QED BY <1>1, <1>2, <1>3 DEF Telling

\* A step of a call with a temporary.
LEMMA TellingOn ==
  ASSUME Restored, Telling, NEW from \in Opened, NEW to \in Opened, NEW ok \in BOOLEAN, NEW f,
         Proceed(from, ok, to), Keep(ok, f), UNCHANGED <<lib, dest>>,
         ok => Relocated(f, to),
         ok /\ to \in Profiled /\ Constructors \in Indexed => ConstructorsFit(lib)
  PROVE  Telling'
  <1>1. stage = from /\ UNCHANGED vars
    BY DEF Proceed
  <1>2. ~ Published
    BY <1>1 DEF Restored, Opened
  <1>3. ~ Published'
    BY <1>2 DEF Published
  <1>4. UNCHANGED Indexed
    BY <1>1 DEF vars, Indexed, Shown
  <1>5. CASE ok
    <2>1. stage' = to /\ temp' = f /\ Relocated(f, to)
      BY <1>5 DEF Proceed, Keep
    <2>2. Relocated(temp, stage)'
      BY <2>1 DEF Relocated, Resolved
    <2>3. to \in Profiled /\ Constructors \in Indexed => ConstructorsFit(lib)
      BY <1>5
    <2> QED BY <1>3, <1>4, <2>1, <2>2, <2>3 DEF Telling
  <1>6. CASE ~ ok
    <2>1. stage' = "failed"
      BY <1>6 DEF Proceed
    <2> QED BY <1>3, <2>1 DEF Telling, Opened, Profiled, Named, Extended
  <1> QED BY <1>5, <1>6

\* The library is read, and nothing is known of its rows yet.
LEMMA CreateTelling == Restored /\ Telling /\ CreateTemporary => Telling'
  <1> SUFFICES ASSUME Restored, Telling, CreateTemporary
               PROVE  Telling'
    OBVIOUS
  <1>1. /\ stage = "read" /\ UNCHANGED dest /\ stage' \in {"primary", "failed"}
    BY DEF CreateTemporary, Proceed
  <1>2. ~ Published'
    BY <1>1 DEF Restored, Published
  <1> QED BY <1>1, <1>2 DEF Telling, Relocated, Settled, Closed, Profiled, Named, Extended, Opened

\* The constructors the array holds are those of the source.
LEMMA ConstructorsTelling == Restored /\ Telling /\ ProfileConstructors => Telling'
  <1> SUFFICES ASSUME Restored, Telling, ProfileConstructors
               PROVE  Telling'
    OBVIOUS
  <1> DEFINE ok == Constructors \in Indexed => ConstructorsFit(lib)
             f == With([init |-> IF Constructors \in Indexed THEN Addends(lib) ELSE <<>>])
  <1>1. Proceed("constructors", ok, "plt") /\ Keep(ok, f) /\ UNCHANGED <<lib, dest>>
    BY DEF ProfileConstructors
  <1>2. ok \in BOOLEAN /\ (ok /\ Constructors \in Indexed => ConstructorsFit(lib))
    OBVIOUS
  <1> HIDE DEF ok, f
  <1>3. Relocated(f, "plt")
    BY DEF Relocated, Settled, Closed
  <1>4. "constructors" \in Opened /\ "plt" \in Opened
    BY DEF Opened
  <1> QED BY <1>1, <1>2, <1>3, <1>4, TellingOn

\* .rela.plt is bound.
LEMMA PltTelling == Restored /\ Telling /\ BindPlt => Telling'
  <1> SUFFICES ASSUME Restored, Telling, BindPlt
               PROVE  Telling'
    OBVIOUS
  <1> DEFINE ok == PltFits(lib)
             f == With([plt |-> PltRows(lib)])
  <1>1. Proceed("plt", ok, "dyn") /\ Keep(ok, f) /\ UNCHANGED <<lib, dest>>
    BY DEF BindPlt
  <1>2. ok \in BOOLEAN
    BY DEF PltFits
  <1>3. DOMAIN f = DOMAIN temp \cup {"plt"} /\ f.plt = PltRows(lib)
    BY WithFacts, DOMAIN [plt |-> PltRows(lib)] = {"plt"}
  <1> HIDE DEF f
  <1>4. ok => Relocated(f, "dyn")
    BY <1>3 DEF Relocated, Settled, Closed
  <1>5. stage = "plt"
    BY <1>1 DEF Proceed
  <1>6. Constructors \in Indexed => ConstructorsFit(lib)
    BY <1>5 DEF Telling, Profiled, Named, Extended, Opened
  <1>7. "plt" \in Opened /\ "dyn" \in Opened
    BY DEF Opened
  <1> HIDE DEF ok
  <1> QED BY <1>1, <1>2, <1>4, <1>6, <1>7, TellingOn

\* .rela.dyn is converted with the merged symbols, and sorted.
LEMMA DynTelling == Restored /\ Telling /\ RelocateDyn => Telling'
  <1> SUFFICES ASSUME Restored, Telling, RelocateDyn
               PROVE  Telling'
    OBVIOUS
  <1> DEFINE ok == SymbolsExist(DynRows(lib), temp.symbols)
             dyn == InOrder(Converted(DynRows(lib), temp.symbols))
             f == With([dyn |-> dyn])
  <1>1. Proceed("dyn", ok, "redirect") /\ Keep(ok, f) /\ UNCHANGED <<lib, dest>>
    BY DEF RelocateDyn
  <1>2. ok \in BOOLEAN
    BY DEF SymbolsExist
  <1> HIDE DEF ok
  <1>3. stage = "dyn"
    BY <1>1 DEF Proceed
  <1>4. dyn = InOrder(Converted(DynRows(lib), Merged(lib)))
    BY <1>3 DEF Restored, Holds, Named, Extended, Opened
  <1> HIDE DEF dyn
  <1>5. /\ DOMAIN f = DOMAIN temp \cup {"dyn"} /\ f.dyn = dyn
        /\ \A x \in DOMAIN temp : x # "dyn" => f[x] = temp[x]
    BY WithFacts, DOMAIN [dyn |-> dyn] = {"dyn"}
  <1> HIDE DEF f
  <1>6. PltFits(lib) /\ "plt" \in DOMAIN temp /\ temp.plt = PltRows(lib)
    BY <1>3 DEF Telling, Relocated, Opened
  <1>7. "plt" \in DOMAIN f /\ f.plt = PltRows(lib)
    BY <1>5, <1>6
  <1>8. Relocated(f, "redirect")
    BY <1>4, <1>5, <1>6, <1>7 DEF Relocated, Settled, Closed
  <1>9. Constructors \in Indexed => ConstructorsFit(lib)
    BY <1>3 DEF Telling, Profiled, Named, Extended, Opened
  <1>10. "dyn" \in Opened /\ "redirect" \in Opened
    BY DEF Opened
  <1> QED BY <1>1, <1>2, <1>8, <1>9, <1>10, TellingOn

\* The constructors redirect rows that had no symbol to begin with.
LEMMA RedirectTelling == Restored /\ Telling /\ Redirect => Telling'
  <1> SUFFICES ASSUME Restored, Telling, Redirect
               PROVE  Telling'
    OBVIOUS
  <1> DEFINE redirected == Constructors \in Indexed
             ok == /\ redirected => RedirectFits(lib, temp.dyn)
                   /\ Scratch(RelaSize * Len(temp.dyn)) /\ Scratch(RelaSize * Len(temp.plt))
             dyn == IF redirected THEN Redirected(lib, temp.dyn) ELSE temp.dyn
             relative == RelativePrefix(temp.dyn)
             f == With([dyn |-> dyn, relative |-> relative])
  <1>1. Proceed("redirect", ok, "place") /\ Keep(ok, f) /\ UNCHANGED <<lib, dest>>
    BY DEF Redirect
  <1>2. ok \in BOOLEAN /\ (ok /\ redirected => RedirectFits(lib, temp.dyn))
    OBVIOUS
  <1> HIDE DEF ok, relative
  <1>3. stage = "redirect"
    BY <1>1 DEF Proceed
  <1>4. Parsed(lib) /\ PatchFits(lib) /\ AuxiliaryFits(lib)
    BY <1>3, AtWork DEF Opened, Extended
  <1>5. /\ PltFits(lib) /\ "plt" \in DOMAIN temp /\ temp.plt = PltRows(lib)
        /\ temp.dyn = InOrder(Converted(DynRows(lib), Merged(lib)))
    BY <1>3 DEF Telling, Relocated, Opened
  <1>6. redirected => ConstructorsFit(lib)
    BY <1>3 DEF Telling, Profiled, Named, Extended, Opened
  <1>7. ASSUME ok, Meant(lib)
        PROVE  Len(dyn) = Len(DynRows(lib)) /\ \A r \in ToSet(dyn) : Resolves(r, lib)
    <2>1. /\ IsSeq(temp.dyn) /\ Len(temp.dyn) = Len(DynRows(lib))
          /\ \A r \in ToSet(temp.dyn) : Resolves(r, lib)
          /\ \A r \in ToSet(lib.dyn) : IsRelative(r) => r \in ToSet(temp.dyn)
      BY <1>4, <1>5, <1>7, SortedResolve
    <2>2. CASE redirected
      <3>1. RedirectFits(lib, temp.dyn) /\ ConstructorsFit(lib)
        BY <1>2, <1>6, <1>7, <2>2
      <3>2. /\ Len(Redirected(lib, temp.dyn)) = Len(temp.dyn)
            /\ \A r \in ToSet(Redirected(lib, temp.dyn)) : Resolves(r, lib)
        BY <1>4, <1>7, <2>1, <3>1, RedirectedResolve
      <3> QED BY <2>1, <2>2, <3>2
    <2>3. CASE ~ redirected
      BY <2>1, <2>3
    <2> QED BY <2>2, <2>3
  <1> HIDE DEF dyn
  <1>8. /\ DOMAIN f = DOMAIN temp \cup {"dyn", "relative"} /\ f.dyn = dyn
        /\ \A x \in DOMAIN temp : x \notin {"dyn", "relative"} => f[x] = temp[x]
    BY WithFacts, DOMAIN [dyn |-> dyn, relative |-> relative] = {"dyn", "relative"}
  <1> HIDE DEF f
  <1>9. "plt" \in DOMAIN f /\ f.plt = PltRows(lib)
    BY <1>5, <1>8
  <1>10. ok => Resolved(f)
    BY <1>7, <1>8 DEF Resolved
  <1>11. ok => Relocated(f, "place")
    BY <1>5, <1>9, <1>10 DEF Relocated
  <1>12. "redirect" \in Opened /\ "place" \in Opened
    BY DEF Opened
  <1> QED BY <1>1, <1>2, <1>6, <1>11, <1>12, TellingOn

\* What is written afterwards leaves the rows alone.
LEMMA RowsStay ==
  ASSUME Restored, Telling, NEW from \in {"place"} \cup Settled \cup Closed,
         NEW to \in Settled \cup Closed, NEW ok \in BOOLEAN, NEW f,
         Proceed(from, ok, to), Keep(ok, f), UNCHANGED <<lib, dest>>,
         DOMAIN temp \subseteq DOMAIN f, "plt" \in DOMAIN temp => f.plt = temp.plt,
         "dyn" \in DOMAIN temp => f.dyn = temp.dyn
  PROVE  Telling'
  <1>1. stage = from
    BY DEF Proceed
  <1>2. /\ PltFits(lib) /\ "plt" \in DOMAIN temp /\ temp.plt = PltRows(lib) /\ Resolved(temp)
    BY <1>1 DEF Telling, Relocated, Opened, Settled, Closed
  <1>3. "plt" \in DOMAIN f /\ f.plt = PltRows(lib) /\ Resolved(f)
    BY <1>2 DEF Resolved
  <1>4. to # "redirect"
    BY DEF Settled, Closed
  <1>5. Relocated(f, to)
    BY <1>2, <1>3, <1>4 DEF Relocated
  <1>6. Constructors \in Indexed => ConstructorsFit(lib)
    BY <1>1 DEF Telling, Profiled, Named, Extended, Opened, Settled, Closed
  <1>7. from \in Opened /\ to \in Opened
    BY DEF Opened, Settled, Closed
  <1> QED BY <1>1, <1>5, <1>6, <1>7, TellingOn

-----------------------------------------------------------------------------
\* Every step of the restoration.
LEMMA RestoreTelling == Restored /\ Telling /\ RestoreNext => Telling'
  <1> SUFFICES ASSUME Restored, Telling, RestoreNext
               PROVE  Telling'
    OBVIOUS
  <1>1. CASE BreakOff \/ LoadArtifacts \/ ReadArtifact \/ Hash
    <2>1. UNCHANGED <<lib, dest>> /\ stage' \in {"failed", "read", "written"}
      BY <1>1 DEF BreakOff, LoadArtifacts, ReadArtifact, Hash, Proceed
    <2> QED BY <2>1, TellingStill DEF Opened
  <1>2. CASE CreateTemporary
    BY <1>2, CreateTelling
  <1>3. CASE DecodePrimary \/ DecodeAuxiliary \/ Extend \/ MergeSymbols \/ AddImports
    <2>1. /\ UNCHANGED <<lib, dest>>
          /\ stage \in {"primary", "auxiliary", "extend", "symbols", "imports"}
          /\ stage' \in {"failed", "auxiliary", "extend", "symbols", "imports", "constructors"}
      BY <1>3 DEF DecodePrimary, DecodeAuxiliary, Extend, MergeSymbols, AddImports, Proceed
    <2> QED BY <2>1, TellingStill DEF Opened, Extended, Named, Profiled
  <1>4. CASE ProfileConstructors \/ BindPlt
    BY <1>4, ConstructorsTelling, PltTelling
  <1>5. CASE RelocateDyn \/ Redirect
    BY <1>5, DynTelling, RedirectTelling
  <1>6. CASE Place
    <2> DEFINE tables == Built(lib, Len(temp.symbols), Len(temp.dyn), Len(temp.plt))
               moved == Moved(lib, tables)
               placed == Placed(lib, tables)
               ok == IF moved THEN Extensible(lib, placed) ELSE Mapped(lib, placed)
               parts == [tables |-> placed.at, cleared |-> Window(lib),
                         header |-> HeaderPlace(lib, moved),
                         finish |-> IF moved THEN placed.end ELSE lib.private]
               f == With(parts)
    <2>1. Proceed("place", ok, "tags") /\ Keep(ok, f) /\ UNCHANGED <<lib, dest>>
      BY <1>6 DEF Place
    <2>2. ok \in BOOLEAN
      BY DEF Mapped, Extensible
    <2>3. "dyn" \notin DOMAIN parts /\ "plt" \notin DOMAIN parts
      OBVIOUS
    <2> HIDE DEF ok, parts
    <2>4. /\ DOMAIN temp \subseteq DOMAIN f
          /\ "plt" \in DOMAIN temp => f.plt = temp.plt
          /\ "dyn" \in DOMAIN temp => f.dyn = temp.dyn
      BY <2>3, WithFacts
    <2>5. "place" \in {"place"} \cup Settled \cup Closed /\ "tags" \in Settled \cup Closed
      BY DEF Settled
    <2> HIDE DEF f
    <2> QED BY <2>1, <2>2, <2>4, <2>5, RowsStay
  <1>7. CASE PatchTags
    <2> DEFINE ok == TagsFit(lib)
               f == With([length |-> temp.finish])
    <2>1. Proceed("tags", ok, "finalize") /\ Keep(ok, f) /\ UNCHANGED <<lib, dest>>
      BY <1>7 DEF PatchTags
    <2>2. ok \in BOOLEAN
      <3>1. stage = "tags"
        BY <2>1 DEF Proceed
      <3>2. TagsFit(lib) = (lib.tags /\ Disjoint(SectionAt(lib, ".dynamic"), Window(lib)))
        BY DEF TagsFit
      <3> QED BY <3>2
    <2>3. DOMAIN [length |-> temp.finish] = {"length"}
      OBVIOUS
    <2> HIDE DEF ok
    <2>4. /\ DOMAIN temp \subseteq DOMAIN f
          /\ "plt" \in DOMAIN temp => f.plt = temp.plt
          /\ "dyn" \in DOMAIN temp => f.dyn = temp.dyn
      BY <2>3, WithFacts
    <2>5. "tags" \in {"place"} \cup Settled \cup Closed /\ "finalize" \in Settled \cup Closed
      BY DEF Settled
    <2> HIDE DEF f
    <2> QED BY <2>1, <2>2, <2>4, <2>5, RowsStay
  <1>8. CASE Finalize
    <2> DEFINE ok == lib.last /\ temp.length >= lib.private
               parts == [length |-> Align(Appended.end, 8) + lib.headers, loose |-> Appended.at]
               f == With(parts)
    <2>1. Proceed("finalize", ok, "validate") /\ Keep(ok, f) /\ UNCHANGED <<lib, dest>>
      BY <1>8 DEF Finalize
    <2>2. ok \in BOOLEAN
      OBVIOUS
    <2>3. "dyn" \notin DOMAIN parts /\ "plt" \notin DOMAIN parts
      OBVIOUS
    <2> HIDE DEF ok, parts
    <2>4. /\ DOMAIN temp \subseteq DOMAIN f
          /\ "plt" \in DOMAIN temp => f.plt = temp.plt
          /\ "dyn" \in DOMAIN temp => f.dyn = temp.dyn
      BY <2>3, WithFacts
    <2>5. "finalize" \in {"place"} \cup Settled \cup Closed /\ "validate" \in Settled \cup Closed
      BY DEF Settled, Closed
    <2> HIDE DEF f
    <2> QED BY <2>1, <2>2, <2>4, <2>5, RowsStay
  <1>9. CASE Validate
    <2> DEFINE ok == /\ TableSize(".dynsym") \div SymbolSize = Len(temp.symbols)
                     /\ TableSize(".rela.dyn") \div RelaSize = Len(temp.dyn)
                     /\ TableSize(".rela.plt") \div RelaSize = Len(temp.plt)
    <2>1. Proceed("validate", ok, "persist") /\ Keep(ok, temp) /\ UNCHANGED <<lib, dest>>
      BY <1>9 DEF Validate, CountsAgree
    <2>2. ok \in BOOLEAN
      OBVIOUS
    <2> HIDE DEF ok
    <2>3. "validate" \in {"place"} \cup Settled \cup Closed /\ "persist" \in Settled \cup Closed
      BY DEF Closed
    <2> QED BY <2>1, <2>2, <2>3, RowsStay
  <1>10. CASE Persist
    <2>1. stage = "persist" /\ stage' = "hash" /\ dest' = temp /\ UNCHANGED lib
      BY <1>10 DEF Persist, Proceed
    <2>2. Relocated(temp, "persist") /\ Parsed(lib) /\ PatchFits(lib) /\ AuxiliaryFits(lib)
      BY <2>1, AtWork DEF Telling, Opened, Extended
    <2>3. Relocated(dest, "persist")'
      BY <2>1, <2>2 DEF Relocated, Resolved
    <2> QED BY <2>1, <2>2, <2>3 DEF Telling, Opened, Profiled, Named, Extended
  <1> QED BY <1>1, <1>2, <1>3, <1>4, <1>5, <1>6, <1>7, <1>8, <1>9, <1>10 DEF RestoreNext

\* What is not a step of the restoration changes none of its state, and none of the
\* index once it has begun.
LEMMA TellingStays == Measured /\ Restored /\ Telling /\ [LibraryNext]_all => Telling'
  <1> SUFFICES ASSUME Measured, Restored, Telling, [LibraryNext]_all
               PROVE  Telling'
    OBVIOUS
  <1>1. CASE Restoration
    BY <1>1, RestoreTelling DEF Restoration
  <1>2. ASSUME UNCHANGED restoring, stage = "idle" \/ UNCHANGED index
        PROVE  Telling'
    <2>1. UNCHANGED <<stage, lib, temp, dest>>
      BY <1>2 DEF restoring
    <2>2. stage \in Profiled => UNCHANGED Indexed
      <3>1. stage \in Profiled => UNCHANGED index
        BY <1>2 DEF Profiled, Named, Extended, Opened
      <3> QED BY <3>1 DEF Indexed, Shown
    <2>3. /\ (stage \in Opened => Relocated(temp, stage))'
          /\ (Published => /\ Relocated(dest, "persist") /\ Parsed(lib)
                           /\ PatchFits(lib) /\ AuxiliaryFits(lib))'
      BY <2>1 DEF Telling, Relocated, Resolved, Published
    <2>4. (stage \in Profiled /\ Constructors \in Indexed => ConstructorsFit(lib))'
      BY <2>1, <2>2 DEF Telling
    <2> QED BY <2>3, <2>4 DEF Telling
  <1>3. CASE Extraction
    <2>1. Next /\ UNCHANGED restoring
      BY <1>3 DEF Extraction
    <2>2. stage = "idle"
      BY <2>1, NextKeeps DEF Measured, Ground, Workspace, Running, Restored
    <2> QED BY <1>2, <2>1, <2>2
  <1>4. CASE CollectModules
    BY <1>2, <1>4 DEF CollectModules, vars
  <1>5. CASE ExtractionFails \/ CollectionFails \/ RestorationFails \/ ReopenFails \/ Succeed
    <2>1. UNCHANGED <<index, restoring>>
      BY <1>5 DEF ExtractionFails, CollectionFails, RestorationFails, ReopenFails, Succeed, Answer
    <2> QED BY <1>2, <2>1
  <1>6. CASE UNCHANGED all
    BY <1>2, <1>6 DEF all, vars
  <1> QED BY <1>1, <1>3, <1>4, <1>5, <1>6 DEF LibraryNext

\* For any library whose ghost says what its rows mean: in what is published each
\* relocation names the symbol its author meant or points as far behind its value, every
\* one of the source and of the auxiliary image is there but those taken out, and each
\* missing slot is bound to a special import (decode_auxiliary_symbol 1190-1212,
\* convert_defined_symbol_relocations 1294-1313, materialize_static_elf_tables 1872-2035).
THEOREM RelocationsAreKept == LibrarySpec => [](Meant(lib) => RelocationsKeepTheirSymbols)
  <1>1. LibraryInit => Telling
    BY DEF LibraryInit, RestoreInit, Telling, Opened, Profiled, Named, Extended, Published
  <1>2. Restored /\ Telling => (Meant(lib) => RelocationsKeepTheirSymbols)
    <2> SUFFICES ASSUME Restored, Telling, Meant(lib), Published
                 PROVE  RelocationsKeepTheirSymbols
      BY DEF RelocationsKeepTheirSymbols
    <2>1. /\ Parsed(lib) /\ PatchFits(lib) /\ AuxiliaryFits(lib) /\ PltFits(lib)
          /\ dest.plt = PltRows(lib) /\ Len(dest.dyn) = Len(DynRows(lib))
          /\ \A r \in ToSet(dest.dyn) : Resolves(r, lib)
      BY DEF Telling, Relocated, Resolved, Settled, Closed
    <2>2. dest.symbols = Merged(lib)
      BY DEF Restored, Holds, Named, Extended, Opened
    <2>3. Len(Merged(lib)) \in Nat
      BY <2>1, MergedIsLonger
    <2> DEFINE beyond == Len(Outside(lib, AuxPlt(lib)))
               missing == Cardinality(Missing(lib))
    <2>4. /\ Len(PltRows(lib)) \in Nat /\ Len(OldPlt(lib)) \in Nat /\ missing \in Nat
          /\ Len(lib.aux.second) \in Nat /\ beyond \in Nat
          /\ Len(PltRows(lib)) + beyond = Len(OldPlt(lib)) + Len(lib.aux.second) + missing
          /\ \A r \in ToSet(PltRows(lib)) : Tells(r, lib)
          /\ \A slot \in Missing(lib) :
               \E r \in ToSet(PltRows(lib)) : r.at = slot /\ r.means \in Specials
      BY <2>1, PltRowsTell
    <2>5. /\ Len(Kept(lib, lib.dyn)) \in Nat /\ Len(lib.aux.first) \in Nat
          /\ Len(DynRows(lib)) = Len(Kept(lib, lib.dyn)) + Len(lib.aux.first) + beyond
      BY <2>1, DynRowsCome
    <2> HIDE DEF beyond
    <2>6. Len(dest.dyn) + Len(dest.plt)
            = Len(Kept(lib, lib.dyn)) + Len(OldPlt(lib)) + Len(lib.aux.first) + Len(lib.aux.second)
                + missing
      <3> DEFINE plt == Len(PltRows(lib))
                 old == Len(OldPlt(lib))
                 second == Len(lib.aux.second)
                 kept == Len(Kept(lib, lib.dyn))
                 first == Len(lib.aux.first)
      <3>1. /\ plt \in Nat /\ old \in Nat /\ second \in Nat /\ kept \in Nat /\ first \in Nat
            /\ missing \in Nat /\ beyond \in Nat
        BY <2>4, <2>5
      <3>2. plt + beyond = old + second + missing
        BY <2>4
      <3>3. Len(dest.dyn) = kept + first + beyond /\ Len(dest.plt) = plt
        BY <2>1, <2>5
      <3> HIDE DEF missing, plt, old, second, kept, first
      <3>4. kept + first + beyond + plt = kept + old + first + second + missing
        BY <3>1, <3>2
      <3> QED BY <3>3, <3>4 DEF plt, old, second, kept, first
    <2>7. \A r \in ToSet(dest.dyn) \cup ToSet(dest.plt) : Resolves(r, lib)
      BY <2>1, <2>3, <2>4, TellingResolves
    <2>8. ASSUME NEW r \in ToSet(dest.dyn) \cup ToSet(dest.plt)
          PROVE  IF r.sym # 0 THEN r.sym < Len(dest.symbols) /\ dest.symbols[r.sym + 1].name = r.means
                 ELSE r.means # "" =>
                        \E s \in ToSet(dest.symbols), o \in Sources(lib) :
                          /\ s.defined /\ s.name = r.means
                          /\ o.at = r.at /\ o.means = r.means /\ r.addend = o.addend + s.value
      <3>1. Resolves(r, lib)
        BY <2>7
      <3> QED BY <2>2, <3>1 DEF Resolves
    <2> QED BY <2>1, <2>4, <2>6, <2>8 DEF RelocationsKeepTheirSymbols
  <1> QED BY <1>1, <1>2, InitMeasured, MeasuredStays, InitRestored, RestoredStays, TellingStays,
             PTL DEF LibrarySpec, all
=============================================================================
