--------------------------- MODULE MCAndroidLibrary ---------------------------
EXTENDS AndroidLibrary

Roomy == [entry |-> 9000, total |-> 20000, entries |-> 40, depth |-> 3]

MCCeilings ==
  {Roomy, [Roomy EXCEPT !.entry = 300], [Roomy EXCEPT !.total = 1300], [Roomy EXCEPT !.total = 37],
   [Roomy EXCEPT !.entries = 9], [Roomy EXCEPT !.depth = 1]}

(* Record streams. *)

Image(place, id, content) ==
  [index |-> place, id |-> id, direct |-> FALSE, size |-> 4, metasize |-> 0, content |-> content,
   metadata |-> "none", key |-> "boot", inside |-> TRUE, honest |-> TRUE, entry |-> 4, child |-> "none"]

WithMetadata(r) == [r EXCEPT !.metasize = 2, !.metadata = "meta"]
For(key, r) == [r EXCEPT !.key = key]

Payload(place, id, child) ==
  [Image(place, id, child) EXCEPT !.direct = TRUE, !.key = "none", !.child = child]

Table(rows) == [table |-> TRUE, records |-> rows]

\* What every library that is restored carries; its 0x9D image is named for it.
Whole(name) ==
  Table(<<Image(1, 155, "config9b"), Image(2, 157, name), Image(3, 158, "patch"),
          WithMetadata(Image(4, 12, "methods")), Image(5, 150, "seed"), Image(6, 152, "control")>>)

Restorable ==
  {"whole", "moved", "spare", "shifted", "stuck", "special", "clash", "tailless", "dynamic",
   "wide", "outside", "late", "unmapped", "hidden", "foreign", "torn", "early", "legacy", "roomless"}

MCStreams ==
  [name \in Restorable \ {"legacy"} |-> Whole(name)] @@
  [legacy    |-> Table(<<Image(1, 155, "config9b"), Image(2, 157, "legacy"), Image(3, 158, "patch")>>),
   noseed    |-> Table(<<Image(1, 155, "config9b"), Image(2, 157, "whole"), Image(3, 158, "patch"),
                         Image(4, 150, "junk")>>),
   noentry   |-> Table(<<Image(1, 155, "config9b"), Image(2, 157, "whole"), Image(3, 158, "patch"),
                         [Image(4, 152, "control") EXCEPT !.entry = 0]>>),
   \* Two children of one interpreter, a child that leads back, and plain data.
   twins     |-> Table(<<Image(1, 5, "first"), Payload(2, 21, "left"), Payload(3, 21, "right"),
                         Payload(4, 40, "data")>>),
   left      |-> Table(<<For("one", Image(1, 7, "l")), Payload(2, 50, "l1")>>),
   right     |-> Table(<<Payload(1, 7, "r"), Payload(2, 50, "r1")>>),
   \* A level that carries an interpreter of the same id: another one, or the same.
   rival     |-> Table(<<Image(1, 5, "first"), Payload(2, 21, "usurper")>>),
   usurper   |-> Table(<<For("one", Image(1, 5, "second")), Payload(2, 21, "leaf")>>),
   loop      |-> Table(<<Image(1, 5, "first"), Payload(2, 21, "again")>>),
   again     |-> Table(<<For("one", Image(1, 5, "first")), Payload(2, 21, "again")>>),
   \* A payload that is there twice; two streams that nest each other, and the
   \* same bytes under two interpreters.
   repeated  |-> Table(<<Image(1, 5, "first"), Payload(2, 21, "leaf"), Payload(3, 21, "leaf")>>),
   ping      |-> Table(<<Image(1, 5, "first"), Payload(2, 21, "pong")>>),
   pong      |-> Table(<<For("one", Image(1, 5, "first")), For("one", Image(2, 6, "second")),
                         Payload(3, 22, "pang"), Payload(4, 21, "leaf"), Payload(5, 22, "leaf")>>),
   pang      |-> Table(<<For("two", Image(1, 5, "first")), Payload(2, 21, "pong"),
                         Payload(3, 21, "leaf")>>),
   leaf      |-> Table(<<Payload(1, 60, "leaf")>>),
   \* Refused streams.
   broken    |-> [table |-> FALSE, records |-> <<>>],
   liar      |-> Table(<<[Image(1, 5, "first") EXCEPT !.honest = FALSE]>>),
   short     |-> Table(<<[Payload(1, 40, "data") EXCEPT !.inside = FALSE]>>),
   mute      |-> Table(<<Image(1, 5, "dumb"), Payload(2, 21, "leaf")>>)]

MCConfigOf ==
  [c \in {"first", "second", "dumb"} |->
     CASE c = "first" -> "one" [] c = "second" -> "two" [] OTHER -> None]

MCElfs ==
  LET base == [file |-> TRUE, stage2 |-> "path", stage1 |-> TRUE, size |-> 20, core |-> "boot",
               stream |-> "whole", inplace |-> FALSE]
  IN {[base EXCEPT !.stream = s] : s \in DOMAIN MCStreams \ {"left", "right", "usurper", "again", "leaf", "pong", "pang"}}
     \cup {[base EXCEPT !.inplace = TRUE], [base EXCEPT !.file = FALSE], [base EXCEPT !.stage1 = FALSE],
           [base EXCEPT !.stage2 = "input"], [base EXCEPT !.stage2 = "none"],
           [base EXCEPT !.core = None]}

(* Libraries. *)

Sym(name, value) == [name |-> name, defined |-> value # 0, value |-> value]
Row(at, kind, sym, addend, means) == [at |-> at, kind |-> kind, sym |-> sym, addend |-> addend, means |-> means]
Relative(at, addend) == Row(at, "RELATIVE", 0, addend, "")
Section(name, offset, size) == [name |-> name, offset |-> offset, size |-> size, nobits |-> FALSE]

Tables(start) ==
  {Section(".dynsym", start, 96), Section(".gnu.version", start + 96, 8),
   Section(".gnu.version_r", start + 104, 8), Section(".gnu.hash", start + 112, 40),
   Section(".dynstr", start + 152, 30), Section(".rela.dyn", start + 184, 200),
   Section(".rela.plt", start + 384, 48)}

\* The tables, a gap, code, .dynamic, and the private section behind it all.
Room(gap) ==
  Tables(320) \cup {Section(".text", 752 + gap, 64), Section(".dynamic", 816 + gap, 64)}

Laying(library, gap) ==
  [library EXCEPT !.sections = Room(gap), !.private = 896 + gap,
              !.loads = {[offset |-> 0, file |-> 890 + gap, address |-> 0, memory |-> 1400]}]

Base ==
  [last |-> TRUE, headers |-> 640, align |-> 64, private |-> 896,
   loads |-> {[offset |-> 0, file |-> 890, address |-> 0, memory |-> 1400]},
   primary |-> [size |-> 1400, segments |-> 1,
                writers |-> <<[at |-> 0, size |-> 100, encoded |-> 100],
                              [at |-> 760, size |-> 50, encoded |-> 20]>>],
   auxiliary |-> [size |-> 200, segments |-> 1, writers |-> <<[at |-> 0, size |-> 200, encoded |-> 90]>>],
   symbols |-> <<Sym("", 0), Sym("foo", 40), Sym("", 0), Sym("dlerror", 0)>>, versions |-> 4,
   patch |-> <<[at |-> 2, symbol |-> Sym("bar", 0), over |-> ""]>>,
   aux |-> [symbols |-> <<Sym("", 0), Sym("a", 0), Sym("b", 0), Sym("c", 0)>>,
            permuted |-> TRUE, rotation |-> <<1, 2, 2>>, strings |-> 7,
            first |-> <<Row(8, "GLOB_DAT", 2, 0, "a")>>,
            second |-> <<Row(504, "JUMP_SLOT", 3, 0, "b"), Relative(16, 77), Row(512, "JUMP_SLOT", 2, 0, "c")>>],
   dyn |-> <<Relative(200, 1000), Row(24, "ABS64", 1, 4, "foo"), Relative(208, 1001),
             Row(32, "ABS64", 3, 0, "dlerror"), Relative(216, 1002), Row(12, "ABS64", 2, 0, "bar"),
             Relative(240, 1003)>>,
   plt |-> <<Row(520, "JUMP_SLOT", 2, 0, "bar"), Row(600, "JUMP_SLOT", 3, 0, "dlerror")>>,
   got |-> 504, slots |-> 3, pltroom |-> TRUE, callers |-> <<>>,
   selector |-> TRUE, init |-> 200, inits |-> 3, fini |-> 240, callbacks |-> <<2000>>,
   code |-> (1000 :> "bootstrap") @@ (1001 :> "ret") @@ (1002 :> "code") @@ (1003 :> "code"),
   strings |-> 14, verneed |-> 8, gnu |-> TRUE, sysv |-> FALSE, tags |-> TRUE,
   sections |-> Room(0),
   phdrs |-> [at |-> 64, count |-> 3, notes |-> 0, spare |-> FALSE, self |-> FALSE],
   loose |-> <<[name |-> ".comment", size |-> 30, align |-> 1],
               [name |-> ".symtab", size |-> 16, align |-> 8]>>]

\* Five slots nothing binds, each told by its callers.
Unbound ==
  [slot \in {528 + 8 * i : i \in 0..4} |->
     CASE slot = 528 -> {"strcmp", "called"} [] slot = 536 -> {"memset", "called"}
       [] slot = 544 -> {"called"} [] slot = 552 -> {"strlen", "called"} [] OTHER -> {"strchr", "called"}]

Special5 == [Laying(Base, 304) EXCEPT !.slots = 8, !.callers = Unbound]

\* The program headers end where the tables begin.
Tight == [Base EXCEPT !.phdrs = [at |-> 152, count |-> 3, notes |-> 2, spare |-> TRUE, self |-> FALSE]]

MCLibraries ==
  [name \in Restorable \ {"torn"} |->
     CASE name = "whole"    -> Laying(Base, 208)
       [] name = "moved"    -> [Base EXCEPT !.sysv = TRUE, !.sections = @ \cup {Section(".hash", 300, 20)}]
       [] name = "spare"    -> Tight
       [] name = "shifted"  -> [Tight EXCEPT !.phdrs.notes = 0, !.phdrs.self = TRUE]
       [] name = "stuck"    -> [Tight EXCEPT !.phdrs.notes = 1]
       [] name = "special"  -> Special5
       [] name = "clash"    -> [Special5 EXCEPT !.callers[528] = {"memset", "called"}]
       [] name = "tailless" -> [Laying(Base, 208) EXCEPT !.symbols[4] = Sym("kept", 0), !.dyn[4].means = "kept",
                                                         !.plt = <<Row(520, "JUMP_SLOT", 2, 0, "bar")>>]
       [] name = "dynamic"  -> [Laying(Base, 208) EXCEPT !.sections =
                                  {s \in @ : s.name # ".dynamic"} \cup {Section(".dynamic", 770, 64)}]
       [] name = "wide"     -> [Laying(Base, 208) EXCEPT !.primary.writers[2].size = 2000]
       [] name = "outside"  -> [Laying(Base, 208) EXCEPT !.primary.size = 1500, !.loads =
                                  @ \cup {[offset |-> 900, file |-> 0, address |-> 1450, memory |-> 50]},
                                  !.primary.writers[1].at = 1380]
       [] name = "late"     -> [Laying(Base, 208) EXCEPT !.last = FALSE]
       [] name = "unmapped" -> [Laying(Base, 208) EXCEPT !.loads = {[l EXCEPT !.file = 700, !.offset = 390] : l \in @}]
       [] name = "hidden"   -> [Laying(Base, 208) EXCEPT !.patch[1].over = "foo"]
       [] name = "foreign"  -> [Laying(Base, 208) EXCEPT !.plt[1].at = 700]
       [] name = "legacy"   -> [Laying(Base, 208) EXCEPT !.aux.first[1].sym = 1, !.aux.second[1].sym = 2,
                                                         !.aux.second[3].sym = 3]
       [] name = "early"    -> [Laying(Base, 208) EXCEPT !.sections =
                                  {s \in @ : s.name # ".dynamic"} \cup {Section(".dynamic", 296, 16)}]
       [] name = "roomless" -> [Special5 EXCEPT !.sections = Room(0), !.private = 896,
                                                !.loads = Base.loads]]

\* In every one of them that can be read the ghost says the truth, with a seed for
\* all but "legacy".
ASSUME GhostsTell ==
  \A name \in DOMAIN MCLibraries : Meant(Seeded(MCLibraries[name], name # "legacy"))
=============================================================================
