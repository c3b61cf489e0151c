# A TLA+ model of Intel Crash Log (`intel_crashlog`, `iclg`, and the UEFI tool)

This directory holds specifications of the code under `src/`, the TLC
configurations that check them on small instances, and theorems about them that
TLAPS proves for every instance. `PROJECT.json` is the index: components, runs,
mutants, the map from definitions to source lines, findings, hazards, theorems.

## The system

The library reads a *crash log*: bytes that firmware left behind after a crash. It
finds the records in them, decodes the records into a tree of registers with the
help of *collateral* (layouts shipped with the tool or laid out in a directory),
and says what went wrong. Around it there are a command line application, a UEFI
application, and a C interface.

| component | state it keeps | operations | talks to |
|---|---|---|---|
| headers, errata (`header.rs`, `errata.rs`) | none | decode a header; sizes, offsets, names | region parser, decoder |
| region and crash log parser (`region.rs`, `crashlog.rs`) | a work list of regions, regions found, extra sections | `from_slice`, `from_cper`, `from_berr`, `from_regions`, exports | headers, CPER, BERR |
| CPER and BERR codecs (`cper/`, `bert/`) | offsets and lengths of a container | parse, normalise, serialise | parser, sources |
| collateral manager and trees (`collateral/`) | product information, cache of items | `new`, three lookups | the file system or the embedded tree |
| record decoding, node tree (`record/`, `node.rs`) | the current path of a layout; a register tree | `decode`, `merge` | collateral manager |
| sources (`source/`) | none; the state is in sysfs, ACPI or the event log | discover, extract, trigger, clear, enable, disable | kernel, firmware, parser |
| Windows event log (`source/event_log/`) | the result set of a query, the event rendered last | two queries over growing channels or an exported file | Windows, parser |
| `iclg` (`app/`) | the files it writes | extract, control, list, info, decode, triage, unpack | sources, library, analysis |
| UEFI application (`efi/`) | arguments, exit status; the pager's window, mode and pattern | parse arguments, extract, info, triage, decode and page | firmware tables, library, console |
| C interface (`ffi.rs`) | objects handed to the caller | init, read, iterate, export, release | library |
| analysis (`analysis/`) | a heap of tags | walk a decoded tree, report by priority | node tree |

What is hard about it:

* **Nested work.** A record can be a *box* that holds a region, whose records can be
  boxes. `from_regions` puts what it finds at the front of the list it is working on,
  so termination, order, parent context and completeness all hang on one queue and
  on sizes that the file declares.
* **A cache with several keys to one door.** Three lookups with two rules for
  security levels share one cache, and the files behind it change.
* **Others at work.** Endpoints are plugged and unplugged, and firmware collects and
  clears records, between any two system calls of a command; Windows goes on logging while
  its log is read; two `iclg` processes may pick names in one directory.
* **Partial failure.** One endpoint, file, section, layout or write of several fails;
  the question is always what becomes of the others and what the exit code says.
* **There and back.** What is read can be exported in two formats, cut on its way, and
  read again; offsets, lengths and counts are written in one pass and trusted in another.
* **Many records, one tree.** Records of one type are told apart only by the number they
  get when they are merged, and the place of a register by all the lines before its own.
  The analysis then looks for these records by names that may have been numbered.
* **Arithmetic at the edge.** Truncated records, records of size zero, a text as long
  as the screen, unsigned subtraction.

What makes each part correct is stated as the properties below; `hazards` in
`PROJECT.json` ties each to the line where it could go wrong.

## Modules

| module | models | kind |
|---|---|---|
| `Header` | `header.rs`, `errata.rs`: what can be decoded with so many bytes left, record and header sizes | operators |
| `CrashLog` | `crashlog.rs`, `region.rs`: from a file to regions | state machine |
| `Expansion` | what that promises, without a queue | abstract specification |
| `Container` | `cper.rs`, `cper/*`, `bert.rs`, `bert/berr.rs`, `to_bytes` and `to_bert` of `crashlog.rs` | state machine |
| `Places` | `header.rs`, `record/decode.rs`: product, die, place in the tree, names of the layouts | operators |
| `Decode` | `record/decode.rs`, `record/core.rs`, `node.rs`, `decode` of `crashlog.rs` | state machine, on `Places` |
| `Triage` | `analysis.rs`, `analysis/*`, `app/src/analysis.rs` | state machine, continues `Decode` |
| `Collateral` | `collateral.rs`, `target_info.rs`, `fs.rs`, `embedded.rs` | state machine and environment |
| `Pmt` | `source/pmt/*`, `source.rs`, `app/src/control.rs`, gathering in `extract.rs` | state machine and environment |
| `EventLog` | `source/event_log.rs`, `source/event_log/win.rs` | state machine and environment |
| `Extract` | `app/src/extract.rs`, `metadata.rs` | concurrent processes on a file system |
| `Windows` | `extract` and `unpack` on Windows | composition of `Extract` and `EventLog` |
| `Pager` | `efi/src/pager*` | state machine |
| `Uefi` | `efi/src/main.rs`, `args.rs`, `decode.rs`, `extract.rs`, `source/acpi/efi.rs` | state machine, runs `Pager` |
| `Ffi` | `ffi.rs`, with a caller that keeps to its documentation | state machine and caller |
| `CrashLogProof`, `ContainerProof`, `DecodeProof`, `CollateralProof`, `PmtProof`, `WindowsProof`, `UefiProof`, `FfiProof` | | theorems; those about `Triage` are in `DecodeProof` |
| `MC*` | the instances TLC checks | |

How they are put together:

* `CrashLog` and `Expansion` are built on `Header`; `CrashLog` implements `Expansion` by a
  refinement mapping at its end.
* `Windows` extends `Extract`, the processes and the file system, and instantiates
  `EventLog` for the one of them that reads the log. The gathering that is one step of
  `Extract` is there the whole extraction of `EventLog`, interleaved with the other process
  and with the system that logs. `EventLog` has no specification that is checked by
  itself: its properties are checked in the composition.
* `Triage` extends `Decode`: the tree it walks is the tree that was decoded and merged,
  numbers and all.
* `Uefi` extends `Pager`: the command `decode` hands the console to it and takes the exit
  status back.
* Elsewhere a finished value is handed over and no step is of both sides, so the one is a
  constant of the other: `Container` gives the sections that `CrashLog` has as inputs,
  `CrashLog` the records of `Decode`, `Collateral` the layouts and product information of
  `Places`, `Pmt` the answer of a source to `Extract`, and crash logs, trees and exports
  to `Ffi`.

### CrashLog

A file is an *image*: a length, and for each offset the header a decoder would find
there. The data of a record is a pair of offsets into the image (`at`, `lim`), so a
copied slice keeps its identity, and "the same bytes twice" can be said. `pc` is the
place in the code: `load` (the loop over sections), `slice` (the loop of
`Region::from_slice`, with its caller told by `idx`), `pop` and `scan` (the two
loops of `from_regions`). Each turn of a loop is one action; the guards are the
early returns of the code. The container formats are inputs: a sequence of slices
with what kind of section each is.

### Container

A file is a sequence of words of four bytes, all sizes of the formats being multiples of
four. A header is one word that carries its fields, with zeros up to its size, so that
a header cut in two, a gap between bodies, padding behind the entries and a body read
at a wrong place are what they are in the code, and the bytes of a GUID are not spelled
out. A whole record is one word. A container that lost its end is tried as a region like anything
else: `CPER` passes for the version of a record of header type 0, whose size reaches behind any file,
`BERT` and `BERR` for one of type 5, as long as what follows says, if that is not zero and 32 bytes are there. `Mistakes`
are the regions that come of it, any sequences of `Bogus` records; one of them is a
single record (`Alone`), which is what a CPER header gives. Loading a descriptor or an entry is one step, and so is
an export; `Cut` takes any number of words off the end of a file that has not been cut
before. `layout`, `made` and `origin` are history: what the file was made of, how often
it was made, and what the first one held.

### Decode

A tree is a function from paths to kinds of nodes. A layout is read line by line
(`TakeLine`), a field chunk by chunk (`ReadChunk`), and a tree is merged node by node
in the order of the map (`MergeNode`), as the recursion of `Node::merge` walks it:
`at` says where each node has gone, `added` which of them were new, below which nothing
can meet anything. `def` and `sub` are the places in the two loops of
`decode_as_core_record`; `def` also holds what the collateral manager has found. Names are
sequences of characters where it matters, that is, for the order of nodes, for digits, and
for capital letters.

`Places` has the two things a record's header is asked for on the way: the path of its die,
by the name that the product gives it, by the name its box's product gives the box's, or by
number, in that order (`Root`), and the layouts that are tried (`LayoutsOf`), which a named
die has of its own and without its digits.

### Triage

The walk of `analyze_records` and of the analyses below it is a set of nodes to visit; each
visit is for one analysis, and a step visits all that are left at one depth (`Walk`), for
which of two siblings is first shows nowhere. `Report` takes any tag of the highest priority,
as the heap may. A tag carries the node it was found at, which the code's texts do not, so
that two tags with one text can be told apart. `Warranted`, in the property, says what a
record calls for by the paths and bits of its own tree as it was before the merge: the nodes
that satisfy a condition on their paths, with no walk in it. `TriagesEach` compares the report with
these calls by number, and by record, node and kind of tag.

### Collateral

`tree` is what `CollateralTree::get` would answer for a place (product, security
level, path): a content, no such item, or an error. `Edit` lets files change between
any two steps, including between the search of `update_target_info` and the reads
that follow it, and between the up to four reads of one `fetch_item` (`fetch` is the
loop in progress, one action for each level). `filler` and `lacked` are history: which kind of
lookup put an item in the cache, and which levels were without the item at some moment of the
lookup in progress, as the environment saw it. A lower level can be cached while a higher
one has just appeared; `FilledByRule` says that the higher one was not there throughout.

### Pmt

`there`, `entries` and `content` are the sysfs; `Plug` and `Collect` change them
at any time. The command moves over its sources (`left`), turns directory entries into
endpoints (`pending`, `todo`), and commands or reads them one at a time. `applied`,
`listed` and `touched` are history: what a property needs to say "an endpoint that was
there all along". A directory or an entry that cannot be read is passed over in the code with
a message and no error, so any read of a directory may give less than there is; `missed` is
history and says for which source an endpoint was not given. The properties promise what was
found, and the extraction of everything what was found on one of the two ways. The open and
the write of an attribute are one step.

### Extract

A path is a tuple (directory, name, number), a content is the identity of the crash log
written. `path.exists()` and `fs::write` are separate steps, and two processes run in
one directory. `idx` counts modulo `IdxWord` in place of 2^31.

### EventLog and Windows

An event is known by its place in its log; it may be of another provider, hold a crash log,
something else or nothing, render to nothing, and carry a time or a computer that does not
convert. Every call into the event log may fail (`failed`). `pos` is where the result set
stands, and `values` the event that was rendered last: the two buffers of `win.rs` are
asked for their size (`size`) and filled (`fill`) in two calls.
The channels grow up to `MaxLog` at any time; an exported file does not.

In `Windows` one process is the `Reader`. `unpack` is a command line whose files go
`beside` the file it reads, each named after the one before, and replace what is there.
A panic while an event is read ends the process (`Stopped`).

### Uefi

The command line is taken token by token, as `Args::parse` consumes it; a token of `v`s is
one action that counts at most three letters. A setup also has the configuration tables of
the firmware, of which the first valid ACPI table decides (`AcpiTables`). Reads, writes and the console
may fail at any use, with any status of the firmware's (`FirmwareErrors`, which becomes the exit
status, `main.rs:96`); a failed write leaves the old file, no file, part of one, or the whole of one whose
flush failed. `console` has one entry for all that is printed about a path. `ExitHonest` therefore
claims less for `NOT_FOUND` than for success: extract exits with it whenever there is nothing to
extract, but it is also what a missing file or console gives.

### Pager

A line is the set of patterns found in it. `usize` arithmetic wraps at `Word`, as in
the release build; a division by zero or a failed `clamp` sets `pc` to `panicked`. A text shorter
than the page makes the subtraction of `render.rs:82` wrap, and `PercentFollows` states what comes of
it. Two panics are not modelled: the `expect`s on the keyboard (`input.rs:76-80`), and the byte index into a
line or a long search pattern where a character has several bytes (`render.rs:14`, `render.rs:75`).

### Ffi

`heap` is what is allocated. The caller makes the documented calls in any order, with any
buffer sizes; what it must dispose of (`held`) is computed from what the calls return and
the rules of the documentation alone, so `HandlesLive` compares the code's idea of what is
alive with the caller's. An address is used again once it is free. The lifetime in
`CrashLogNodeChildren<'a>`, which the C header cannot express, is a rule for the caller
(`Lent`), so an iterator over a released tree is one the caller leaves alone. A call that is given NULL for a
crash log, a list, a node, an iterator, an export or a value returns and changes nothing: a stuttering step. The
calls check no other pointer, a data pointer, a buffer or a path (`ffi.rs:132`, `ffi.rs:367`, `ffi.rs:414`,
`ffi.rs:552`), and the context only where it is used; the caller passes none that is NULL there. `story` and
`said` are history: what an iterator or export was made for, has given, and has claimed.

## Runs

| run | shows | instance |
|---|---|---|
| `crashlog` | `RegionsTile`, `ParentIsInnermost`, `NoRecordTwice`, `DepthFirst`, `SectionsAccounted`, `Expands` (refinement of `Expansion`), `Termination` | images of 20 and 32 bytes, three header slots filled freely from nine headers, read raw or as two sections of BERT or CPER, plus legacy boxes of 64 bytes |
| `container` | `WholeSectionsRead`, `BertAllOrNothing`, `Faithful`, `Settles` | CPER files of up to three sections, in order or backwards with gaps, BERT files and BERR files with and without a block status, entries of both header sizes, with and without padding, bare regions; three exports; two bogus regions, one with a box |
| `container_lengths` | finding: `LengthsHonest` is violated | the same |
| `triage` | `FieldsRight`, `RecordsIntact`, `FallsBack`, `TriagesEach`, `UrgentFirst`, `Decodes` | every sequence of up to three out of ten records: plain ones, headers only, core records with each way through their layouts; of a named die, an unnamed one, a box with a name and one without, a product unknown or of all; every pair out of thirteen records with something to find; thirteen alike records; a layout with a capital letter |
| `collateral` | `AnswersRight`, `ProductsKnown`, `ItemsFrozen`, `FilledByRule` | fixed stores: every mix of present, missing and unreadable at four levels with six pairs of target_info files; stores that change: two trees, ten edits at any time |
| `collateral_highest` | finding: `ReturnsHighest` is violated | fixed stores |
| `pmt` | `CommandsAll`, `ExtractsNamed`, `ExtractsEverything`, `Returns` | three endpoints on two PCI functions; five control requests, two extractions of named sources, the extraction of everything |
| `pmt_default` | finding: `TriggersByDefault` is violated | trigger without sources |
| `extract` | `NothingLost`, `NamesTrue`, `Complete`, `AllOrNothing`, `OwnFilesKept`, `Ends` | two processes on Linux with three command lines; on Windows one that reads its channels or unpacks a file, with and without another that picks names; failing calls and writes, files from before |
| `ffi` | `HandlesLive`, `IteratesAll`, `ExportWhole`, `NameFits`, `AllFreed` | five addresses, two crash logs, one with a tree of two levels, buffers of 0 to 3 bytes |
| `efi` | `PageRight`, `ParsesRight`, `ExitHonest`, `SearchExact` | every command line of up to three tokens out of eleven; every list of up to three tables; texts of 1 to 5 lines on consoles of 3 and 4 rows |
| `pager_short` | finding: `Displays` is violated | texts of two lines |

### Bounds and why they are enough

* `CrashLog`: 32 bytes hold a box in a box with a leaf, a box cut by the end, a box
  next to a box, and records of size zero at each place. `Lens` has a length that is no
  multiple of the header distance, so that records are cut. Header types with other
  header sizes enter through the legacy box (32 bytes) and through the proofs, which
  hold for all of them.
* `Container`: three sections are one before and one behind the section that matters.
  `MaxExports` is 3, one more than it takes for an export to be read and exported again
  by the other format. A box holds one record and no box; nesting is for `CrashLog`.
  `section_count` counts modulo 2^16 as in the code but stays far below it.
* `Decode` and `Triage`: `MaxRecords` is 3, the least for a name to be numbered twice. Fields
  start and end at every position within a byte, span up to three bytes, are empty, wide, or
  reach behind the record. The numbers of alike records are written in decimal and go on as far as the ten
  digits of an `i32` (`Decimal`), with no bound below; one crash log has thirteen alike records, so that
  the names go from `mca` over `mca9` to `mca11`. Sockets, dies and levels have ids of one digit. The layouts are told apart by the revision of the record, so
  that each record finds the one made for it; one of them is found under any revision, two
  under any product, and one die has a layout of its own beside one that has none. For the triage
  pairs are enough: a record meets its like and every other. Banks deeper down, not collected,
  without a number and not valid are all in one record.
* `Collateral`: four levels are all there are; two products are enough for a lookup to
  go to the wrong one; three places asked for make two lookups meet on one index.
* `Pmt`: three endpoints on two functions separate "the others of this source" from "the
  other source". `MaxTouched` is 2: in one behaviour at most two endpoints are plugged,
  unplugged, or written by firmware, so there is one that changes, one that changes
  meanwhile, and one that stays. `MaxMissed` is 2: an endpoint is missed on both ways, or two
  of them on one. Control commands do not look at contents and start on
  one; the extraction of everything, which finds each endpoint twice, starts on few.
* `Extract`: `IdxWord` 12 is more than the files a run can create, so a wrap is only
  reached where the loop does not end. A process has at most four crash logs.
* `EventLog`: an exported file has up to three events, the event in question, one before and
  one behind; the two channels have up to two and one and grow to `MaxLog` 2, so that an event
  comes in before, while and after its channel is read. The second process is active where each
  channel begins with one sound event; elsewhere it has nothing to write, since what the events are
  like and who takes which name do not bear on each other.
* `Uefi`: `MaxTokens` 3 is a flag, a command and its argument, or a command and one argument
  too many. `-vvvv` has one letter more than counts. Three tables are the one that matters,
  one before and one behind.
* `Ffi`: five addresses are a context, a tree, two iterators over it and a crash log an
  iterator hands out; opening needs two free ones, so that an iterator can always go on.
  An export is longer than one buffer, as long as it, and shorter.
* `Pager`: five lines are more than the tallest console here shows, and one is less
  than the smallest; `MaxPattern` 2 tells a prefix from a pattern; `Word` 65536 stands
  for 2^64, far from every count reached.

`CHECK_DEADLOCK FALSE` is in every configuration: a parse, a decode, a command and an
application all come to their end, and a manager whose files do not change has nothing to do.

### Fairness

`CrashLog` and `Decode`: weak fairness of the one function there is, which runs in its
caller's thread and waits for nothing. `Pmt`: of the command, not of the environment,
which need never rest. `Extract` and `Windows`: of each process, which the operating system schedules, the reading
of the log being part of its process; Windows need not log anything. `Triage`: as `Decode`.
`Ffi`: weak fairness of a caller that has begun to give back what it holds (`GiveBack`),
which is what the documentation asks of it; one that has not may stop at any time.
`Collateral`, `Container`, `Pager` and `Uefi` state none: nothing forces a caller to look up,
export or press a key, and no property of theirs needs it.

### Mutants

Beside the definitions there are variants marked *mutant*, each a plausible slip in the
code: a guard dropped, a missing reset, an order swapped. `PROJECT.json` names for every
property one that breaks it when it takes the place of the real definition.

## What is proved

Each theorem holds for every value of the constants that meets the assumptions below; the
property of a run that it states, if any, has the same name in the tables above.

**`CrashLogProof`**, for every set of files, sections and depth of boxes:

* `TypeCorrect`; `RegionsAreStretches`: `RegionsTile`, the records of each region are adjacent
  and as long as their headers say, but for a last one cut by its slice; `StaysInFile`: no
  record reaches beyond the file, whatever the headers declare.
* `RecordsFoundOnce`: `NoRecordTwice`. `ParentsAreInnermost`: `ParentIsInnermost`.
* `SectionsAreAccounted`: `SectionsAccounted`.
* `Implements`: `Expands`, the work list implements `Expansion`.
* `RegionsComeInOrder`: `DepthFirst`.

`RegionsTile` is not inductive: that the next record is adjacent depends on the cursor
standing where the last record ends, and that what is queued is good depends on what
the running call holds. `IInv == TypeOK /\ CallOK /\ Control /\ Regions` adds the
cursor's place, the bounds of the slice that is being read, and what `idx` says about
who called. The lemmas `HeaderFacts` and `GrowAdjacent` carry the arithmetic: a decoded
header is at least 8 bytes, and a region grows at its end.

The innermost box is a matter of all regions at once. `JInv == IInv /\ RunOK /\ Source /\
Loading /\ Placed` says how they lie: any two are apart or one is within a box of the
other (`Nested`), no box is around a region closer than its parent (`Innermost`), and no box
that waits or is still to be scanned has been opened (`Unopened`); without the last, opening
a box could give a region that is there already. `RunOK` and `Source` say the same of the region
being read, `Loading` what the sections up to `next` have given. The refinement needs
`Separate` on top: the regions in the queue and those put away are different, so that one step of
`from_regions` is one step of `Expansion`. `OrderInv == JInv /\ Descends(Line)` is for the order: what
was put away, then what is being scanned, then the queue is one line that descends through
the boxes, and it stays so when a box puts its region at the front.

**`ContainerProof`**, for any files that firmware makes, any records, boxes that hold no boxes,
and any number of exports and of cuts between them:

* `ReadsAreRight`: the invariant of all reads, from which the next two follow.
* `EveryWholeSection`: `WholeSectionsRead`. `BertWholeOrNone`: `BertAllOrNothing`.
* `NothingIsInvented`: the first two lines of `Faithful`, without any condition. They allow for regions of
  bogus records in what was cut, and `BertWholeOrNone` tells those from the entries.
  `CrashLogsAreFaithful`: all of it, while the 16 bits of `section_count` hold the number of
  sections (`Fits`): an export of 65536 sections says that it has none.
* `ExportsSettle`: `Settles`, under the same condition.

None of them is inductive, as none says what a file is. `ReadInv == Types /\ FileIs /\
Descriptors /\ Entries /\ BertRead /\ Unsized` does: the file that was made last, or the front of it if it
was cut, has the sections of `layout` where `layout` says (`Is`, of which `CperOf` and `BertOf` are
the two formats). That an export has that form is the arithmetic of `Cper::normalize`: a
concatenation has the words of part k behind the sum of the parts before it (`Cursor`), and each
body has the length that was summed up for it. What is read is then told by lookups in the
file: the descriptors before the cursor have given the sections that lie whole in it
(`Descriptors`), the entries before it the bodies of the layout, one behind the other, and blank
ones behind the last (`Entries`). `Unsized`: the table of an exported BERT says a length of 0, so a cut
one passes for no record. `Kept` adds that what is in the crash log or in a file comes from the
first file, `Complete` that nothing of that is missing if there was no cut; `Repeats` says of an
export which regions and sections it was made of, so that reading it gives them again.

**`CollateralProof`**, for every tree, product set and history of edits:

* `TypeCorrect`; `CacheIsFrozen`: `ItemsFrozen`; `CacheIsFilledByRule`: `FilledByRule`, what
  enters the cache is the exact level, or one above which every level lacked the item at some
  moment of the lookup. `FetchOK` is what the loop needs for it: the index is still not cached,
  what lacks it now is among `lacked`, and so is every level the loop has been through.
* `AnswersAreRight`: `AnswersRight`. The answer is as good as the cache, so
  `AnswersInv == Fixed => CachedRight /\ Passed /\ AnswerFits` says of every cached item that it is
  what the lookup that put it there would find now, and of the fetch in progress that the levels
  behind it have nothing (`Passed`).
* `ProductsAreKnown`: `ProductsKnown`. `InfoInv == Fixed => Heard /\ Sourced /\ Emptied`: a file
  that declares a product is still to be loaded or its product is known, and what is known
  comes from such a file.

**`PmtProof`**, for any finitely many endpoints, entries and requests, and whatever comes and goes:

* `TypeCorrect`; `CommandsReachAll`: `CommandsAll`; `EverythingIsExtracted`: `ExtractsEverything`;
  `NamedAreExtracted`: `ExtractsNamed`.

The argument is one of bookkeeping across the sources: `PInv == Shape /\ Listing /\ Commands /\
Pulls /\ Extracts`. On each of the two ways, a record that stayed was missed, is of a source that
waits, is still to be read, or is in the results (`Pulled`); those reached by a control command are all of the listed
ones but what is in `todo` (`Commands`); and a named source whose endpoint was there all along and
holds nothing, or whose endpoints are gone, cannot be passed (`Extracts`).

**`WindowsProof`**, on the composition of `Extract` and `EventLog`, for any number of processes,
channels, exported files and events that arrive:

* `LogIsComplete`: `Complete`; `LogIsAllOrNothing`: `AllOrNothing`. `LogInv == LogTypes /\ AtEvent
  /\ Running /\ Ended`: what was collected tells the events up to `pos`, in order, and the buffer
  holds the event it stands at; a channel that grows adds behind.
* `NamesAreTrue`: `NamesTrue`; `NoneIsLost`: `NothingLost`; `OwnFilesAreKept`: `OwnFilesKept`.
  `FileInv == FileTypes /\ IdsBehind /\ WriteSafe /\ NamesTrue /\ AllKept`: a file holds no crash log
  that its process has not come to, and one that was free when it was looked for may be taken
  at the write, but by another process only (`WriteSafe`), which is why a process never writes over
  its own.

**`UefiProof`**, for any texts, consoles, command lines, files and tables:

* `PagesAreRight`: `PageRight`, with `WindowInv`, for texts of every length, those that make the
  position wrap among them; `SearchesAreExact`: `SearchExact`.
* `LinesAreParsedRight`: `ParsesRight`. `ParseInv` says what the tokens consumed so far
  have made of the arguments.
* `ExitIsHonest`: `ExitHonest`. `ExitInv == ExitTypes /\ Stage` has what is true at each stage: what
  was written, what the console was told and what the status is, for every status that the firmware
  may fail with.

**`DecodeProof`**, for any records, layouts, product information, numbers of alike records and
depths of trees:

* `TreesSound`: the type invariant. In a merge (`Merging`) it says that `at` and `added` are a sound
  placement so far: each node below the place of its parent, under its name or a number of
  it, no two new nodes at one place, and nothing else below a new register.
* `NothingIsLost`: no step takes away a node of the result or changes it.
* `EachRecordIsPlaced`: the tree of the crash log is the nodes of the records, placed
  (`Placed`: there is a placement of all nodes of all records; a merge extends it).
* `EachRecordIsAtHome`: the registers of each record are below the path of its die, and
  only sections lead there (`Sited`).
* `RegistersIntact`: `RecordsIntact` in every state that meets `NamesApart`: no register or record
  is called, numbered or not, as a section is where only sections lead. Every
  crash log of the run `triage` meets it, and the property holds there without it; in general it
  does not, since merging a field into a section of its name loses its value (see the findings).
* `EveryFieldIsRight`: `FieldsRight`. The property is about a tree that is done and speaks of the last
  line of each place; `FieldInv` is about the reading so far: `tree` has what the
  lines before the current one give (`Fields`), `path` is where their names lead (`PlaceOf`), and
  `value` the bits before the cursor (`Reading`).
* `CoreRecordsFallBack`: `FallsBack`, for layouts like the ones the collateral tree
  has (`LayoutsPlain`). `Falling` says of the record that is being decoded what `FallsBack` says of
  those that are: which layouts have been passed over, and rightly so (`CoreOK`), that the
  layout that is applied has given its own record and no other's (`Applying`), and that an extension of it
  keeps what it is put on (`Extending`). The merge keeps all that is at the top of the
  result, as the names at the top of a plain layout do not end in a number.
* `UrgentComesFirst`, of `Triage`: `UrgentFirst`. `TInv == HeapOK /\ ReportOK /\ Visiting`: what is reported
  is of no lower priority than what is left, and as long as a timeout is to be reported, so is
  the machine check it was told by.
* `RecordsAreTriaged`, of `Triage`: `TriagesEach` in every state that meets `NamesApart`. The argument has
  three parts. First, the walk (`WalkIsWhole`): `Way` is the set of nodes below a record that an analysis
  has business at, by their paths alone, and `WalkOK` says at every step that the walk is nowhere
  but on its ways or above the topmost records, that each node on a way has been looked at or is still
  led to (`Comes`), that all that was found was found on a way (`Warranting`), and that nothing is
  reported twice. Second, each of the five analyses finds on its way one tag for each call of the
  record and no other (`Agree`); the numbers that the merge puts behind names and the bits of a value are
  dealt with here (`NumberedWord`, `TimerBit`, `AgentBits`). Third, the records of the merged tree are
  those of the crash log, one to one, each with its tree and the name it had but for its
  number (`RecordsAlign`, from the placement that `RegistersIntact` rests on), so that calls and reported tags
  are one to one (`TriagedWhenAnswered`).

**`FfiProof`**, for any crash logs, trees, bytes and number of addresses:

* `ObjectsAreOwned`: `HandlesLive`, nothing leaks, nothing is freed under the caller.
* `IteratorsAreComplete`: `IteratesAll`. `ExportsAreWhole`: `ExportWhole`. `NamesFit`: `NameFits`, a
  name that does not fit fills its buffer up to the nul.

None of them is inductive, for they speak of what the caller has seen. `IInv` adds what
each object still holds (`Stories`: given and left make up the whole) and that the nodes
an iterator has left are nodes of its tree (`Borrows`). `Opening`, `Closing` and `Passing`
are the three things that happen to the heap; each call is one of them.

### Assumptions

They are the named `ASSUME`s of the modules, which TLC evaluates on every instance:

* `CrashLog`: a file is a well-formed image, and its sections lie in it one behind the other.
* `Collateral`: the constants are of their types; a missing file is no content.
* `Places`, `Decode`: names are non-empty sequences, no die has the number that stands for none;
  the lines of layouts and the headers of records are of their types, and a crash log has a
  record.
* `Triage`: the names the analysis looks for are names, no two of them are the same, and that of a bank
  does not end in a digit.
* `Container`: a file of firmware is what the formats say (`IsCperFile`, `IsBertFile`, `IsRawFile`): the bodies of a
  CPER lie whole behind its descriptors, anywhere and in any order, with fewer than 65536 of them; the entries of
  a BERT follow one another and zeros follow them. A box holds no boxes, and a word of zeros is no record. No file
  of firmware holds a bogus record, and what a box among those holds is bogus as well.
* `Pmt`: a directory has finitely many entries; an extraction asks for PMT sources.
* `Extract`, `Windows`, `EventLog`: the constants are of their types; the reader is a process.
* `Pager`, `Uefi`: a printed text has a line and fewer than `Word`; a console has at least two
  rows, at most `Word \div 101` (a wrapped position is then 0%), and twelve columns; the words for help, wait, verbosity and the commands differ; the files from before are
  crash logs or others' files.
* `Ffi`: a tree has the children it names; names are bytes; buffers are smaller than `Word`.

Five theorems have a condition on states or layouts, which is part of what they state:

* `NamesApart` (`RegistersIntact`, `RecordsAreTriaged`): see there.
* `Fits` (`CrashLogsAreFaithful`, `ExportsSettle`): the file that was made last has fewer than 65536
  sections.
* `LayoutsPlain` (`CoreRecordsFallBack`): only the layout of the threads gives nodes of the record of threads,
  only that of the core those of the core, the record is named before anything in it, and
  its line is no register. The layouts of cores in `src/lib/collateral` are so: `layout_thread.csv` and
  the others begin with the whole record under its name, 2112 bits and more. TLC evaluates
  it on the layouts of the run `triage` (`MCLayoutsPlain`). Without it a layout of `sq` could give a node for
  the threads that are missing, and the record would not be what the property says.

### Left to TLC

What needs fairness, which is out of the prover's reach: `Termination`, `Decodes`, `Returns`, `Ends`,
`AllFreed`. Every safety property that a passing run checks is proved.

## Findings

1. `get_item_with_pvs` returns the level cached by an earlier `get_item_with_pvss`
   (`collateral.rs:130`), against its documentation.
2. `iclg trigger` without sources does nothing and succeeds (`control.rs:26`), against
   the README.
3. The pager stops with a division by zero on a text exactly as long as what the screen shows
   of one, its rows less the status bar (`render.rs:82`).
4. A firmware error record of revision 1 that comes with a crash log loses the last 16
   bytes of its payload when the crash log is exported, or stops a debug build
   (`cper/section.rs:63`).

Two more disagreements have no run of their own. The help of the UEFI application names `-v, -vv, --vvv` for
the verbosity (`args.rs:175`), and the parser, which knows tokens that begin with `-v`, rejects `--vvv`
(`args.rs:78`, `args.rs:116`). `ParsesRight` makes no claim for a command line with it (`Offered`). Nor does
the C interface return NULL "if one of the arguments is `NULL`" (`ffi.rs:213`, `ffi.rs:505`, `ffi.rs:540`) when
that argument is a context or a path: only `crashlog_decode` checks its context (`ffi.rs:256`).

Seen on the way, and reported by no run because no document of the repository says
otherwise:

* `iclg extract FILE` keeps only the first crash log: the second finds the file of the
  first (`extract.rs:60`). `NothingLost` allows for it.
* An iterator of the C interface can only be freed by asking it to its end, and not at all
  once its tree is released; the test of the interface leaves one behind
  (`ffi/tests.rs:20`). `crashlog_get_node_name` with a buffer of size zero ends the process
  (`ffi.rs:413`); `NameFits` allows for it.
* `iclg extract` to a path that is neither a file nor a directory, a device say, does
  not return (`extract.rs:59`).
* The regions in a box are exported beside the box, so a crash log that is exported and
  read again has them twice (`crashlog.rs:141`); `Faithful` and `Settles` allow for it.
* Of a BERT file that lost its end no entry is read, of a CPER file what is left. But the front of a BERT or
  BERR file of firmware, from 32 bytes on, and that of a CPER header, from 8, are then taken for the
  header of a record (`crashlog.rs:121`, `header.rs:519`): there is a crash log, of a record that is none.
  `BertAllOrNothing` and `Faithful` say that there is nothing real in it, and nothing of it in what is real.
* A layout with a capital letter in a name stops the decoder (`node.rs:265`); none of the
  layouts in the repository has one. `Decodes` allows for it.
* Merging a field into a section of the same name loses its value (`node.rs:236`); records
  have names that no die has, and `RecordsIntact` is checked where that is so and proved under
  that condition (`NamesApart`).
* The crash logs of the Windows event log, and the one of the ACPI table under UEFI, get new
  metadata after the parse and lose the extra CPER sections with the old
  (`event_log/win.rs:200`, `acpi/efi.rs:83`).
* One event whose time does not convert costs the whole reading of the log; `AllOrNothing` says
  for which reasons that may be.
* `iclg unpack` adds the number of each crash log to the name of the one before
  (`unpack.rs`), and replaces files of these names; `OwnFilesKept` allows for it.
* A PMT directory that cannot be read is passed over with a message: the command succeeds without
  the endpoints in it (`sysfs.rs:144`, `sysfs.rs:172`). `CommandsAll` and the others allow for it
  (`missed`).
* The UEFI application takes what follows `extract`, `-h` included, for the file to write to.
  `ParsesRight` states it.
* A text shorter than the page is shown whole and said to be at 0% (`render.rs:82`); `PercentFollows`
  states it.
* `iclg.efi decode` exits with `NOT_FOUND` for a missing file as extract does for want of a crash log
  (`decode.rs:20`, `extract.rs:37`), and triage of a single crash log without tags prints nothing
  (`decode.rs:98`). `ExitHonest` allows for both.
* A record whose die has no name goes below the die of its box if that one has a name, not below
  the number of its own (`record/decode.rs:187`). `AtHome` states it.
* A core record decoded by the layout of its core, without threads, gives no tags
  (`analysis/core.rs:53`). `Warranted` states it.

## Not modelled

* Texts: the names of items in JSON, tables, listings, help, time stamps and severities of a
  CPER, the checksum of a record. No decision of the code depends on them.
* The commands `decode`, `info` and `list` of `iclg`: each calls the library once and prints; and
  `unpack` of a file that is no event log, which writes one file for each region.
* The parsing of source names and of a BDF, and the registers behind the listing of
  capabilities: conversions of text and words without state.
* The tree of a record's header and the serialisation of a tree, which are one line for each
  field.
* The build script, whose result is the embedded tree of `Collateral`, and the errors.
* ACPI on Linux is one read of one file: its answer is an input of `Extract`, and its bytes are
  the subject of `Container` and `CrashLog`. The same holds for an event log that is named as a
  source with `-s`; `Windows` is about the default.
* Handles and buffers of the Windows API, which are released where they are dropped.

## Plan

1. *(done)* Parser, containers, decoding, collateral manager, PMT commands, extraction,
   pager, C interface; first theorems.
2. *(done)* The Windows event log, composed with extraction and unpacking; the analysis, composed
   with decoding; the UEFI application, composed with the pager; dies and layouts.
3. *(done)* Proofs of the parser and its refinement, the collateral manager, the PMT commands, the
   event log and extraction, the UEFI application, the merge of trees and the report.
4. *(done)* Proofs of the containers, of the fields that a layout gives, of the layouts of core
   records and of the triage.
