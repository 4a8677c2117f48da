# Senbei in TLA+

Senbei is a static unpacker for protected Windows PE files, protected Android
libraries and obfuscated il2cpp metadata: a command line over a whole game
folder, and a web page over files dropped on it. Two things in it are hard to
test. Around the byte transforms: threads writing one buffer, a run over many
files that shares a cache and must survive any one of them, outputs that must be
whole after a crash, budgets against headers that lie, and a page whose handlers
interleave at every `await`. And in the transforms themselves: record streams
that nest and share a registry, tables rebuilt in the room of old ones, passes
over one image that undo each other when one is early, and checks whose silence
is taken for soundness. This directory models both, checks them with TLC, and
proves the results that matter with TLAPS. What a transform computes from bits
is left out; in which order, over which region and under which condition it runs
is not.

## Inventory

| Component | State | Operations | What is hard | What makes it correct |
|---|---|---|---|---|
| Block fan-out, panic capture (`senbei-engine/src/windows/parallel.rs`, `panic_capture.rs`) | pieces of the output buffer, shared iterator, stop flag, first error, first panic, per-block and caller's capture | `parallel_for`, hook, `merge_from` | worker interleavings, corrupt spans, panic against Err | pieces never alias, same bytes as a sequential pass, a panic wins with its own location |
| Folder run (`senbei-io/src/job.rs`) | `Summary`, order of work | one `catch_unwind` per PE, library, package or group, metadata blob | failures half-way, what they leave in the cache and on disk | counters are honest, no error means nothing missed |
| Android run cache (`senbei-io/src/android/context.rs`, `mod.rs`) | modules per application, restored libraries, restored blobs | `restore_loose_library`, `restore_apk_group`, `restore_package_pass`, `restore_package_entry`, `record_module`, `binding_module` | order of libraries and metadata over splits, bundles, nested APKs; duplicates across applications | v24 metadata is bound to the one module of its own application |
| Atomic writes (`senbei-io/src/atomic.rs`) | temporary, destination | `write_atomic` with bounded retries | concurrent runs, crashes, refused renames | destination always whole, no temporary left |
| Archive budget (`senbei-io/src/android/archive_limits.rs`) | bytes, entries, entry count per path | `open_archive`, `read_probe`, `copy_entry` | lying headers, archives opened again, copies that fail | limits hold, what is handed on was charged |
| Web page and worker (`web/app.js`, `report.js`, `worker.js`) | Map of entries, read budget, rows, buttons | drop, remove, clear, limit, Unpack loop, reply, forced-EXE retry | handlers between two awaits, live iteration, stale plan | nothing run twice, result of its own file, page current |
| Folder scan (`senbei-io/src/scan.rs`) | path list, class list, tallies | serial walk, chunked parallel probe, merge | chunking, failed probes | every candidate gets one verdict, in walk order |
| Windows routing (`senbei-engine/src/windows/mod.rs`, `profile.rs`, `senbei-io/src/windows/`) | profile of attempts | DLL layout, gate, EXE fallback, companion splice | one attempt of two failing | profile and result tell the same story |
| Scoped thread-locals (`threading.rs`, `windows/research.rs`, `senbei-io/src/ui.rs`) | one slot per thread and scope | enter, leave, unwind | nested scopes and panics | previous value restored |
| Engine budgets and findings (`android/limits.rs`, `findings.rs`) | counters, kept messages | charge, push, wants_more, finish | several callers of one budget, walkers that stop | never above the ceilings, truncation is announced |
| Android extraction (`android/extract/`) | registry, seen streams, current decoder configuration, artifacts | stage 1, one turn per record, children, index | one registry and one configuration for all levels of a recursion, streams that lead back | each stream is read once, a child is decoded by the interpreter of its own parent level, artifacts stay what was reported |
| Android restoration (`android/restore/`, `senbei-elf`) | temporary file, symbol and relocation tables, placement | one stage after another, then an atomic rename | indices shifted by merging and rotating tables, tables that grow into their neighbours, failure at any stage | relocations keep their symbols, nothing else is overwritten, published whole or not at all |
| Post-recovery checks (`windows/integrity/`, `restore/verify.rs`) | one sink per table | a walk per directory or section | rows passed over, tables left early, full sinks | a clean report means the tables can be walked |
| Windows pipelines (`windows/exe/`, `windows/dll/`, `windows/layout/`) | the image in memory, trial backups, the header being rebuilt | eight or so stages each, trial searches, page and block passes | passes over the same region in one order only; trials in place | code, names and tables are plain, the header promises what the image has |
| Metadata transforms, layout discovery, inspection, cryptographic primitives | byte buffers | sequential functions | data, not control | see "Not modelled" |
| Manifest reader, reports, log, CLI, wasm bindings, fuzz targets, scripts | - | parsing, formatting, I/O | - | see `components` in PROJECT.json |

How they interact. The CLI calls the folder run; the run scans, then calls the
PE route (which fans its block loops out over threads) and the Android driver
(which opens archives through the budget and consults the run cache); every
output goes through `write_atomic`; every restore is inside a `catch_unwind`
whose panic location comes from the capture. The web page calls the same
engines, compiled to WebAssembly, in one disposable worker per job; a panic is
there a trap that kills the worker.

## Modules

| Module | Role |
|---|---|
| `FanOut` | abstract: what a caller of `parallel_for` may rely on |
| `ParallelFor` | the fan-out, one action per step of the caller and of a worker; implements `FanOut` |
| `AppRecovery` | abstract: how metadata recovery depends on modules learned |
| `FolderRun` | the run after the scan with cache and Summary; implements `AppRecovery` |
| `AtomicReplace` | abstract: replace in one step or fail |
| `AtomicWrite` | concurrent `write_atomic` calls, file system and crashes; implements `AtomicReplace` |
| `ArchiveBudget` | the extraction budget |
| `WebApp` | the page |
| `PeRoute` | one PE from companion to output, with profile, trace and panic captures, for three callers |
| `Scan` | the walk, the sliced probe and the merge |
| `Extract` | stage 1 and the nested record streams, the recursion as a stack of frames |
| `ElfTables` | the pure part of restoration: merged symbols, relocations, placement |
| `Restore` | from index.json to the published library, stage by stage |
| `AndroidLibrary` | one library from its file to the answer; composes `Extract` and `Restore` |
| `Findings` | the bounded sink, and the table being walked |
| `Directories`, `ClrMetadata`, `Integrity` | the checks of a PE image |
| `ElfVerify` | the checks of a restored ELF |
| `Diagnostics` | both kinds of check over one sink, and what a silent report means |
| `PeImage` | an image as regions under layers, and the steps the pipelines share |
| `Exe64`, `Exe32`, `Dll64` | the stages of the three pipelines |
| `PeRebuild` | any of the three over any packed image |
| `MC*` | instances for TLC |
| `*_proofs` | theorems and their proofs |

Names ending a comment "A mutant of X" are deliberate bugs: no specification
uses them. They exist so that each property can be seen to fail when the
definition they stand for is wrong.

### ParallelFor

`Enter` is the check of the spans, `CarvePiece` one turn of the carving loop,
`Dispatch` the choice between threads and the caller's own loop (`RunHere`).
A worker is `Poll` (stop flag), `Take` (the iterator under its lock), `Finish`
(the closure under `catch_unwind`, with `Hook` when it panics), `Record` (the
first-error or first-panic slot, with `Merge`), `Signal` (stop). `Join` is the
end of the scope. Recording and signalling are two steps, so another worker can
run in between. What a block computes is reduced to which block last wrote each
byte; how its closure ends is an input, chosen per block.

A block whose closure fails may have written any part of its piece. The order
of carving and the test of disjointness are separate definitions, as they are
separate sorts in the code: carving by start alone underflows on an empty span
that shares its start, which is a mutant.

### FolderRun

A unit is what one `catch_unwind` surrounds. The nested loops (loose files,
groups, members, nested APKs by application, entries by priority, passes) are
modelled by the tuple `FileOrder`: the next file is the least pending one of the
current unit. Every file has one action per way its handler can end
(`RestoreLibrary`, `DuplicateLibrary`, `FailLibrary`, and so on), each with what
it does to the cache, the tally and the disk. `FinishUnit` folds the outcomes
into the Summary; `AbortUnit` is the `Err` or panic that loses them.

Contents are a few named blobs; a module is what a library's content decodes
to. An application is its `AppKey`: an extracted tree, a package name and
version in one package set, or an isolated file. Abstracted away: the paths of
outputs, the text of errors, and a transient failure to open an archive while
packages are grouped (which would make a named package ungrouped).

### AtomicWrite

A file is the sequence of the writers of its pieces, so that a mixed or short
file shows. `Sync` is what makes contents survive; `Flush` and `Crash` are the
file system's: unsynced contents may come back cut, a rename becomes durable at
some point of its own. `Windows` switches the retry of a refused rename. The
name of the temporary is chosen among those not in use, which is what exclusive
creation guarantees.

### ArchiveBudget

One action per call, and one per chunk of a copy, since a copy that fails
half-way is the interesting case. `declared` and `left` are independent: the
header may lie either way. The ZIP reader is external and yields any number of
bytes up to what was asked. The byte layout of the end records is abstracted to
the entry count and the size of the directory, with the 46 bytes an entry takes
at least as the constant `Record`.

### WebApp

One action is what JavaScript runs between two awaits. The turn of an Unpack
loop is cut into one step per file, with `turn` keeping everything else out.
Entries are objects in `heap`, so that a name dropped again is a different entry
at the same place of the Map. `Render` is called by the actions exactly where
the code calls `render()`. `broken` is a ghost for a drop whose header read
failed: the code ends it without `render()`.

### PeRoute

The stages of one call are its actions: `ReadInput` and `Prepare` (the companion
and `prepare_companion`), `Route`, then per layout `Enter`, `Run` and `Accept` or
`Refuse`, and for a spliced input `Overlay` and `RestoreManaged`, and at the end
`Check` and `Write`. What the bytes make a stage do is an input, fixed for the
call, so that the same file can be compared between callers: `unpack_one_v`, the
reporting `unpack_one_researched`, and the page, where a panic is a `Trap` of the
worker and the page may start again with the EXE layout forced. The profile
keeps per layout the outcome, and of the warnings and errors only whether any
error is left. A stub that cannot be read is folded into a companion that cannot:
both end the call before any byte is looked at. The page's inputs have been
detected before and read, so it starts from those only.

### Scan

`Visit` is one turn of the walk: a directory entry is passed over below a pruned
directory, counted when it cannot be read, kept or left. `Spawn` cuts the list,
`Probe` is one turn of a worker, `Merge` the join and the tallies. The tree is a
sequence in walk order with depths; names and contents are what the filters and
detectors tell apart. A worker count of one probes on the calling thread in the
same order, which the model does not tell apart from one spawned worker.

### Extract, ElfTables, Restore, AndroidLibrary

`extract_stream` is recursive; `stack` holds one frame per call, and a frame's
`phase` is where in the function it is: the image and metadata of a record
(`DecodeImage`, `DecodeMetadata`), its registration (`Register`), the direct
payloads once the level is decoded (`Direct`), the report, the children
(`Child`, which swaps `config`) and the return (`Leave`, which puts it back). A
stream is a name for its bytes, with the records its table parses to; a
container decodes when the configuration in force is the one it was encrypted
with and it holds what its record declares. Command ids wrap at `Ids`. What keeps
the recursion finite is the ceilings; `seen` keeps it from reading a stream
again, and `StreamsAreReadOnce` is about that and about the other side of it, that
a stream is not taken for another one and left out. That the call ends is not a
property of its own: seen streams, depth and record ceiling bound it one as well
as the other, so none of them can be seen to be missing by it.

`ElfTables` defines what restoration computes as sets and sequences: symbols
with the protector tail cut off and the auxiliary ones appended, relocations
unrotated, remapped and sorted, the slots no relocation binds told by their
callers, the new tables laid out in the old room or behind the last segment.
Sizes and offsets are small numbers; names, entry points and machine code are
what the code asks of them. A relocation carries the name its author meant, so
that a property can compare it with the name it ends up with.

`Restore` runs these over a temporary file, one action per stage of
`restore_libil2cpp_with_limits`, each of which may fail (`Proceed`, `Keep`), and
`BreakOff` is an I/O error or a reservation refused at any of them. The rows the
code writes into `.init_array` and `.fini_array` on purpose are not among what
`Place` counts as touched. `Persist` is the rename and `Hash` what is still read after it. `AndroidLibrary` is the caller
in `senbei-io`: extraction in a temporary directory, the module 0x0C collected,
restoration, and an answer with which the directory goes.

### Findings, Directories, ClrMetadata, Integrity, ElfVerify, Diagnostics

A check is a walk over tables; `table` and `row` are where it stands, `sink` the
messages of the current one. `Push` and `WantsMore` are the two calls of
`findings.rs`. A step is a row where the code asks the sink between rows, and a
whole table where it does not. An image is a record of the words, strings and
ranges the checks read; a read outside them is a read the code finds out of
bounds. The mask of a name thunk (`directories.rs:255`) does nothing here: no
image has a thunk with the bit it clears.

### PeImage, Exe64, Exe32, Dll64, PeRebuild

A packed image has for every region (code, import names and table, exports, TLS,
CLR header and metadata, resources, fixups) the sequence of layers the packer put
on it, the outermost first: a cipher, a page shift, a zero list. An operation of
the pipeline takes its own layer off when that is on top, and puts a layer of
garbage on when it is not; a region is plain when nothing is left. The packer is
external. Keys are small numbers, so a trial search succeeds or fails as in the
code, in place and with its restores (`Open`, `Try`, `Before`). `dirs` is the
header as it is rebuilt. Its characteristics are zero, movable (with
`DYNAMIC_BASE`) or anything else, apart from whether there are relocations: both
are what the packer left, and `Ensured` is all the code does to the flag. A CLR header
that no region stands for may begin with anything, so whether its directory is kept
is open there (`KeepsClr`). In the 64-bit pipelines the list of regions to be zeroed
after the blocks clears none of the regions here. The stages of the pipelines have names of their own, so
`PeRebuild` extends all three and one `stage` tells where an image is. What a file
may be is `IsPacked`: where the packer may have put a region, and which it leaves
out of its blocks.

## Runs

| Run | Shows | Bounds and why they are enough |
|---|---|---|
| `parallel_for` | the properties of the fan-out, refinement of `FanOut`, `Returns` | 3 blocks, 3 bytes, cap 3, five spans including empty, equal, overlapping and out of bounds: two workers can fail while a third runs, and every outcome of the span test occurs. The safety properties are proved for all sizes |
| `folder_run` | the properties of the run, refinement of `AppRecovery` | five folders, each with failures anywhere: a loose tree repeated in an `.apk`; a split set with its metadata first and an unrelated package between; a bundle of two applications and an unnamed one; repeated blobs; libraries that disagree |
| `atomic_write` | whole destination, no stray temporary, atomic replace, termination | 3 writers, 2 pieces, 3 attempts: a writer can be interrupted half-way while another replaces and a third retries. Safety is proved for all sizes |
| `web_app` | the properties of the page | 2 modules with companions, 3 entries, 2 drops at once, 2 loops at once, 2 limits: the least at which a second loop overtakes the first and a name is dropped again while its file is in the worker. With 4 entries the safety properties hold too (8.5 million states) |
| `web_stale_plan` | finding: an oversized unit is read | 1 loop, 1 drop |
| `archive_budget` | limits, nothing unpaid | 3 archives, sizes around the entry limit 4, total 7, entries 4, chunk 2, probe 3: limits are met exactly and exceeded by one. Both are proved for all limits |
| `pe_route` | one layout for all callers, honest profile and trace, panics at their place | every input: kind, companion, 25 pairs of pipeline outcomes, every subset of the TLS parts, three callers; nothing is bounded but the vocabulary |
| `scan` | scan is sequential | three trees with every class of entry, nested and pruned; 0 to 8 candidates and caps 1 to 8, so slices of unequal length and fewer slices than workers occur. The partition is proved for all sizes |
| `android_library` | streams read once, children decoded by their own interpreter, artifacts stay, decoded within the ceilings, relocations keep their symbols, nothing else overwritten, published whole | 36 kinds of library: streams with twin and repeated children, a rival interpreter of the same id, the same bytes under two interpreters, a stream that leads back to itself and two that lead to each other, streams refused at each check; ELF layouts with room in place, moved behind the last segment, with and without a spare program header, with hidden, special, protector and conflicting symbols. Six ceilings, each met by one library and missed by another. A failure at every step. Nesting stops at depth 3, one more than the two levels a mix-up needs; the properties are proved for all of these, the one about relocations where the ghost tells the truth, which `GhostsTell` checks of each of these libraries |
| `diagnostics` | a truncated list says so, a clean report means walkable imports and relocations, overlapping segments are seen, silent ELF tables resolve | 138 PE and ELF images, each with one or two defects or at a boundary; two messages per table instead of sixteen and caps of three to six rows instead of thousands, so that sinks fill and caps are reached. All four are proved for all images and caps |
| `diagnostics_tls32` | finding: a sound 32-bit TLS directory is reported | the same images |
| `pe_image` | code, names and tables are plain, no trial misses its key, the header promises what is there and has the relocations and characteristics of its layout | 3883 packed images: four layouts (PE32, and the early, new and DLL ones) over three pipelines, every position of the right key in a trial search and one beyond it, every combination of exports, TLS, CLR, relocations and characteristics the pipelines tell apart. All three are proved for all files and any number of keys |

Deadlock is checked in every run but four: the single drop and loop of
`web_stale_plan` really come to a stop, and so do a library and an image once
they are answered (`android_library`, and the two runs of `Diagnostics`).

### Fairness

- `ParallelFor`: weak fairness of the caller and of each worker. The scope joins
  all threads; a thread that can run is scheduled. The closures are assumed to
  return.
- `AtomicWrite`: weak fairness of each call while the process lives. No
  fairness of `Crash` or `Flush`. A rename may be refused at every attempt.
- `WebApp`: weak fairness of a loop's own turn; strong fairness of reads and
  replies, because a promise settles whatever other turns come in between. The
  user has no fairness. `LoopsEnd` holds with a bounded number of entries
  (`MaxFiles`): a user who keeps dropping files keeps the loop busy.
- `AndroidLibrary`, `FolderRun`, `ArchiveBudget`, `PeRoute`, `Diagnostics` and `PeRebuild` are
  sequential and claim safety only, as does `Scan`, whose workers each end after
  their slice.

## Findings

Each is a run that TLC must refute, and quotes the line it contradicts
(PROJECT.json, `findings`).

1. `app.js:124` says every read is guarded from `File.size`; the guard tests the
   plan of the last `render()`, which a running drop has overtaken.
2. `windows/integrity/directories.rs:6` says a reported table is a defect the
   bytes prove; `collect_tls` reads the 32-bit TLS directory at the offsets of
   the 64-bit one and reports sound ones.

## Observations

Differences between code and text, or surprises, met while modelling. The models
have them, or abstract from the place; no run is about them.

The run. `job.rs:366` says loose beats `.apk` beats bundle; an `.apk` without a
readable manifest competes with bundles in walk order. `job.rs:82` says each file
is isolated; the first error of a split set gives up its other members.
`android/mod.rs:1456` says all libraries of an application precede its metadata,
but entries are sorted by name and restored by content, so metadata stored under
a `.so` name comes first; the proofs about `FolderRun` assume `WellNamed` folders
for that reason. `archive_limits.rs:89` says the budget is charged for the bytes
actually read; the chunk that exceeds the declared size is read and not charged.
`write_atomic` does not sync the directory, so a machine crash after `Ok` may
bring the old file back; `AtomicReplace` states exactly that much.

The page and the routing. `worker.js:11` says the forced-EXE retry reproduces the
CLI's routing; it has no fatal gate, so the page returns an image the CLI
refuses. `senbei-io/src/windows/mod.rs:264` says restoring TLS is a no-op when a
region cannot be relocated; directory and struct are already written by then.
`profile.rs:211` says `selected` is set when recovery succeeded; it stays set
after the CLR overlay failed. A drop that fails on an unreadable file leaves the
files staged before it without rows until something renders, and the end of one
loop enables Clear while another still runs.

Android. A library that fails after the rename is reported as failed and is
published (`ReopenFails`, and `BreakOff` at `hash`). Without module 0x96 the
auxiliary symbols are used as they are, rotated or not. When two records of one
id are in the index the last is restored, the first registered. The slots of
`strchr` are told by elimination, so a slot no code calls passes for it.
`.dynamic` counts as one of the tables when the room for them is measured,
though it is not moved.

Checks. `findings.rs:11` promises a single line for what was withheld; there may
be two. The caps on exceptions (`directories.rs:776`), relocations, dynamic
entries and hash buckets (`verify.rs`) cut a walk without saying so. A `.rela.dyn`
without file bytes ends the check of `.rela.plt` too, and neither says so
(`verify.rs:493`, `:529`); the run has an image with both. A `.gnu.hash` bucket
below `symoffset` passes. `windows/integrity/directories.rs:328` leaves an unmapped
import directory to the fatal check, which maps it by another rule
(`rva_to_offset`, by the larger of both sizes and without a length): a directory
that reaches past the file bytes of its section passes the one and is skipped by
the other, so its descriptors are not walked and no line says so. Module names in
the zero-filled tail of a section are accepted and skipped in the same way.
`CleanReportWalks` excludes both (`NoTails`); the run has an image with each.

PE. A code section whose padding gives too little evidence of its page shift
stays encrypted without a word (`CodeShows`). The early layout and PE32 decode an
import name once per reference, so a name two entries share is garbled
(`NamesShow`). The DLL pipeline copies exports without the `!= 0` guard of the
EXE pipeline. `exe/pipeline.rs:1565` says the restored metadata lies inside `.text`
and must go through the page pass; the code restores it after the pass, and says at
1694 and 1753 that it must not. The comment at 1847 calls the image with the
restored TLS directory a fixed one; a DLL of the old layout gets the same absolute
addresses, keeps its relocations, and may move. The comments at 1929
and at `pe32.rs:1097` have `DYNAMIC_BASE` made sure of in such a DLL; the code sets it
only where `DllCharacteristics` is zero. Any other value without the flag stays, and
the DLL keeps relocations it may not use; a zero one gets the flag whether there are
relocations or not. `HeaderMatchesImage` states what the code does, and the run has
images of each kind.
The move of imports to `.kmiat` wipes that section before it knows the new table
fits.

## Proofs

Proved for every value of the constants, under the assumptions named in the
modules, which TLC evaluates in every run. Most say only what kind of value a
constant is (`InputAssumption`, `FolderAssumption`, `ParameterAssumption`,
`BudgetAssumption`, `RouteAssumption`, `ScanAssumption`, `PageAssumption`;
`ExtractAssumption`, that sizes read from a container are unsigned and ceilings
too; `LibraryAssumption`, that offsets, addresses and sizes of a library are, that
tables are vectors, and that alignments and the section header table are not
empty; `WalkAssumption` and `TableAssumption`, that the caps of the checks are
unsigned). `ImageAssumption` says it of an image: words are unsigned, tables are
lists, and where the walk looks for a block of relocations there is one, since the
directory is backed by the file.
Two say more. `FilesAssumption` is what the packer does to a file, which is not in the
repository: the tables, exports, TLS directory and fixups of the shell lie outside the
code section, in the early layout the names and the metadata too, and no block fills
managed regions the file holds as they were; the code relies on each at the lines
`IsPacked` names.
`LinkerAssumption` is what a linker guarantees of the library before it was
protected, that its sections do not overlap and end before the private section,
and that the program header table lies in none of them. The code never checks
that, and on a file that breaks it the rewritten tables could lie over another
section; only `OutputKeepsItsSections` uses it.

- `ParallelFor_proofs`. The inductive invariant adds to the types: the carved
  pieces are exactly the blocks before the current one in sorted order and end
  at `base`; every block handed out is held by one worker, done, or recorded as
  failed; the slots hold blocks that did fail that way; a worker's capture
  belongs to its block. Exclusiveness follows from disjoint spans, safe carving
  from sorted ones, and the refinement of `FanOut` from the accounting of
  blocks.
- `FolderRun_proofs`. `BindingStaysSole` alone is not inductive: a later library
  might still be pending. The strengthening says that once metadata of an
  application is written, no library of it is pending, which rests on
  `FileOrder`: within a unit libraries precede metadata, and an application does
  not span two package units. The refinement of `AppRecovery` follows. Both need
  `WellNamed` folders; the first observation above is what happens without.
  `SummaryIsHonest` counts outputs against counters that are folded into the
  Summary only when a unit closes: `CountedInv` keeps their sum to the outputs,
  which are those of files no longer pending, so that no output is counted twice.
  `CleanRunIsComplete` needs from the start of a run without an error what each
  processed file wrote and its application learned (`CompleteInv`), and that a
  library comes first in its earliest kind of source (`SoleLibraries`).
- `AtomicWrite_proofs`. The invariant says who holds which temporary, how much
  of it is filled, and that a file about to be renamed is synced. Hence the
  destination is whole, temporaries are private, and every step is a step of
  `AtomicReplace` or none.
- `ArchiveBudget`, at the end of `FolderRun_proofs`. The limits are not inductive
  by themselves: a copy was promised its whole declared size when it began. The
  strengthening says that what a running copy may still read fits the remaining
  budget.
- `PeRoute_proofs`. The properties speak of answers; the invariant says what each
  stage knows: `RouteStory`, which layouts have been refused and why the image in
  hand deserves its place, also across the page's second job, which has lost the
  record of the first; `CaptureStory`, that an attempt's capture never holds
  another attempt's panic; `VerdictStory`, that from the check on the profile is
  about the image as it is. `ProfileTellsTheStory` is about answers again:
  `ProfileStory` says of each route of a profile under way what the finished one
  will, and `TraceStory` that the trace has one verdict for each route that ended,
  in their order.
- The pipelines, in the same module. `RightCandidateIsFound` speaks of files that
  were refused; `Searches64` and `Searches32` say of a search under way that what was
  tried is not the key and that the next candidate decodes what the packer left
  (`Trying`), of a section not yet reached that it is as packed, and of the PE32 tables
  that a first pass over the prefix missed none (`PrefixPassed`). `TryStep` is the one
  argument for all searches. `OutputIsPlain` and `HeaderMatchesImage` speak of finished
  images; `Rebuilt` says for every stage what the image is by then, as a function of
  the protected file until the pass over the code section (`Covered`, `Bare`, `Named`,
  `Copied`, ...) and as what the loader needs after it (`Loadable`). The steps compute
  with layers: `UnderIs` says which ones a region has below its block, `BlocksUncover`
  that blocks leave exactly these, `PassPlain` that the pass takes the page layer off
  the whole section or, where it shows none, leaves it (`PagesComeOff`). Each pipeline
  has an invariant and one lemma per step, and holds trivially while another runs
  (`Apart`). The proof needed that the metadata block has no page layer: the new layout
  keeps it in the code section and the code reads it before the pass. The model would
  have put a layer there, and no image of the run had the block in that section. Now
  some do.
- `Scan_proofs`. `div_ceil` slices are non-empty, start where the one before ends,
  and the last covers the end (`DivCeil`, `SliceBounds`, `SlicesAreApart`). The
  invariant says that what a worker has gone over has its own file's verdict; at
  the join the slices add up to the list. `ScanIsSequential` joins that to the walk
  before it: the one variable `pruned` stands for the outermost directory passed
  over (`PrunedStory`), what the walk came past is collected (`WalkInv`), and the
  merge, class by class, filters the list in walk order (`Merged`).
- `AndroidLibrary_proofs`. `ChildrenUseTheirInterpreter` speaks of the reports,
  which are written when a level is done. The invariant `Nested` says it of the
  levels still being read: an id of a level has an image of that level, and it is
  the registered one, since a conflicting image ends the extraction and an entry
  is never replaced (`Level`); a level that reads its children has its report
  among the streams (`Reported`); and each frame saved the configuration its
  parent decodes under (`ConfigAt`), so that a return restores it. A direct
  record, whose image is set after the level is decoded, is never the witness.
  `StreamsAreReadOnce` speaks of reports and of the calls still reading; `Reading`
  adds the levels between. Of the calls on the stack only the last is reading
  (`LastReads`), so a stream reported is not one being read (`Apart`). A record
  found nested is among its level's children before the level is reported
  (`Collected`), and from then on its stream is known, or one of the children a level
  on the stack has left, or the one about to be entered (`Awaits`, `Found`), which
  with an empty stack leaves the first.
  `ReportedFilesStay` needs that a file name holds the digest of its content, and
  that the workspace goes away only after the last write (`Workspace`).
  `DecodedWithinLimits` is about counters no step checks as a whole; `Measured`
  adds, to those two, which levels there are and have been (`Begun`, `Levels`),
  that each was booked once (`Booked`), and that every container was counted and
  charged before it was decoded (`Counted`, `Charged`).
- The restoration, in the same module. `PublishedOnlyWhole` and `LibraryTypeOK`
  follow from `Restored`, which says for every stage what the temporary holds by
  then: `Holds` names the tables that were merged, bound and placed, with the kind
  of each and the number of its rows, so that what `Validate` counts and `Persist`
  publishes is known to be there. Each action has a lemma.
  `NothingElseIsTouched` needs `Touching` on top of it: that the tables in the file
  were laid out from some list of sizes (which list does not matter), in the old
  room, or behind the last segment when they do not fit. That they are apart
  from each other is `LaidApart`; that the old room holds nothing else is
  `WindowApart`, from where the next kept section begins; that the new program
  headers are over none is `HeaderApart`.
- The relocations, there too. `RelocationsKeepTheirSymbols` compares the published
  rows with a ghost, the name each row of the source was meant for. `Meant` says
  what that ghost is: the name of the symbol the row has, which exists, and for a
  row of the auxiliary image of the one it had before the protector rotated it. A
  library where that fails has no meaning to keep, so the theorem is
  `[](Meant(lib) => RelocationsKeepTheirSymbols)`. The argument goes along the
  pipeline: undoing a rotation gives the symbol back (`RotationsUndone`), merging
  leaves the old symbols in place and puts the others behind them (`MergedRows`),
  dropped symbols take their rows with them (`KeptComes`), picking and sorting lose
  nothing (`PickedWhole`, `ArrangedKeeps`), each missing slot is told one special
  name (`SpecialsTell`), and converting keeps the distance to the symbol
  (`ConvertedResolve`). Redirecting overwrites addends: it is harmless because the
  places it takes are unique and were those of rows without a symbol in the source
  (`OnlyRow`, `RedirectedResolve`), which the code found out two stages before
  (`ConstructorsFit`). The invariant `Telling` carries that from stage to stage.
- `WebApp_proofs`. One invariant carries the four: a loop that scans has no entry
  and one that awaits has one (`Inv`), the entries held are distinct and are the
  working ones, and a result is its own entry's (`Held`). Two loops can walk the
  files at once because a file is taken and marked in the same turn. That a quiet
  page is current is inductive with it: a handler either renders, or leaves a drop
  in flight, or a turn running.
- `Diagnostics_proofs`. A table is told of when its walk ends, so the invariant
  `Telling` says of the sink under way what the reported ones must have: the lines
  kept are within the cap, and what is dropped or unasked is marked (`Honest`);
  for relocations, whose blocks are steps, that the defects of the blocks before
  this one are kept or marked as missed (`BlocksSeen`). Each table has a
  lemma. `Asking` stops at the first row for which the sink is full; that it
  marks what it passes over is `AskingFacts`, by induction over the rows.
  For an ELF, `Resolving` says what silence of each reported table means, and
  `SilenceIsEmpty` that a table without lines was given no message. That
  neighbours are enough (`NeighboursSuffice`) is an argument about the sort: ranks
  are a bijection (`PlacesFacts`), so between two segments that overlap some pair
  of neighbours does too, and sums do not wrap since an overflow is a line of its
  own. `OverlapIsSeen` was weaker before it was proved, and excluded
  overflowing segments. `SilentElfResolves` was too strong as first stated: it is
  about tables that are read, and about buckets within the cap.
  `CleanReportWalks` rests on `Cleaning`, inductive with `Telling`: a reported table
  that is quiet could be walked (`Walks`), the rows of the imports before this one
  could (`RowWalks`), and a check without an issue so far has passed every stage
  before this one (`Passed`), the fatal one over the names included
  (`NamesChecked`). A sink without lines lost nothing and was given nothing
  (`QuietPush`, `QuietAsking`), and `Conclude` passes on what any table said. The
  proof found that `NoTails` left the import directory itself out, and an image of
  the run now shows what becomes of such a directory.

The prover cannot instantiate the library's induction theorems, which take an
operator; the inductions in these proofs (layouts, slices, merged tallies, sums
of finite sets, flattened lists) are over a set of natural numbers instead (`NatByInduction`,
`StepsExist`), and what they are about are recursive functions and folds, not `RECURSIVE`
operators.

Only model-checked: liveness (`Returns`, `EveryCallReturns`, `LoopsEnd`), which is
out of the prover's reach.

## Not modelled

- Bit-level transforms: ciphers, decompression, the interpreter of the packer's
  bytecode, metadata tokens and indices, layout discovery by byte patterns.
  Functions of large data with no state of their own; the models have when they
  run, what they need, and whether they succeed.
- `inspect.rs`, reports, console output, the log's text, argument parsing,
  scripts, fuzz targets: description, formatting and I/O.
- Single-file mode and the inspection modes of the run; `dump_auxiliary`,
  `outer_only` and `preserve_entrypoint` of restoration, which no caller in
  `senbei-io` sets.
- The scoped thread-locals (worker cap, research sink, colour): guards whose
  destructors restore the value, with no other writer.
- Parallel extraction within one archive does not exist in the code.

## Plan

Done: the modules and proofs above. What would add most next: single-file mode,
prior successes and the exit code composed with `FolderRun`; the research sink
across the workers of a fan-out.
