---------------------------- MODULE CrashLog ----------------------------
(***************************************************************************)
(* How a Crash Log file becomes a list of regions: CrashLog::from_slice,  *)
(* from_berr, from_cper and from_regions (lib/src/crashlog.rs) with the   *)
(* record loop of Region::from_slice (lib/src/region.rs).                 *)
(*                                                                         *)
(* The input is an image: len bytes, of which only what a header decoder  *)
(* would find at an offset matters.  The containers (BERT, CPER) are       *)
(* already taken apart: the input is the sequence of their sections, each *)
(* a slice of the image.  A record is kept with the place of its bytes in *)
(* the image, at .. lim - 1, so that a copy of bytes is a pair of offsets.*)
(***************************************************************************)
EXTENDS Header, Sequences

CONSTANT Files         \* the files given to the parser: [image, input]

NoParent == -1

VARIABLES
    image,     \* the bytes of the file
    input,     \* [container, sections]
    pc,        \* what runs: load, slice, pop, scan, done, failed
    next,      \* the section from_berr / from_cper looks at
    call,      \* the running Region::from_slice: its slice, cursor, records
    queue,     \* the VecDeque of from_regions
    region,    \* the region from_regions scans ...
    idx,       \* ... and the record it looks at, 0 before the first region
    regions,   \* the regions of the crash log so far
    extra      \* metadata.extra_cper_sections, as section numbers

vars == <<image, input, pc, next, call, queue, region, idx, regions, extra>>

---------------------------------------------------------------------------
IsImage(m) == m.len \in Nat /\ m.at \in [0 .. m.len - 1 -> Raw]
(* tag: a Crash Log firmware error record, another firmware error record, *)
(* or a section of another kind.                                           *)
Section == [base : Nat, end : Nat, tag : {"crashlog", "fer", "other"}]
Container == {"raw", "bert", "cper"}

IsInput(in, m) ==
    /\ in.container \in Container
    /\ in.sections \in Seq(Section)
    /\ in.container = "raw" =>
         in.sections = <<[base |-> 0, end |-> m.len, tag |-> "crashlog"]>>
    /\ \A i \in DOMAIN in.sections :
         in.sections[i].base <= in.sections[i].end /\ in.sections[i].end <= m.len
    /\ \A i, j \in DOMAIN in.sections :
         i < j => in.sections[i].end <= in.sections[j].base

ASSUME FilesAssumption ==
    \A f \in Files : IsImage(f.image) /\ IsInput(f.input, f.image)

(* The parent is the offset of the box record whose header is the         *)
(* context's parent_header.                                                *)
Record == [at : Nat, lim : Nat, hdr : Header, parent : Nat \cup {NoParent}]
Region == Seq(Record)

Call == [base : Nat, end : Nat, cursor : Nat, records : Region]
NoCall == [base |-> 0, end |-> 0, cursor |-> 0, records |-> << >>]

---------------------------------------------------------------------------
(* The header decoder called at offset o of a slice that stops before end. *)
At(o) == image.at[o]
MarkerAt(o, end) == IsMarker(At(o), end - o)
DecodesAt(o, end) == Decodes(At(o), end - o)
HeaderAt(o) == HeaderOf(At(o))

Least(a, b) == IF a <= b THEN a ELSE b

Init ==
    /\ \E f \in Files : image = f.image /\ input = f.input
    /\ pc = "load"
    /\ next = 1
    /\ call = NoCall
    /\ queue = << >>
    /\ region = << >>
    /\ idx = 0
    /\ regions = << >>
    /\ extra = << >>

---------------------------------------------------------------------------
(* Where the regions come from.                                           *)

Enter(base, end) ==
    /\ call' = [base |-> base, end |-> end, cursor |-> base, records |-> << >>]
    /\ pc' = "slice"

(* A Crash Log section, or the whole file: Region::from_slice is called.   *)
LoadSection ==
    /\ pc = "load"
    /\ next <= Len(input.sections)
    /\ LET s == input.sections[next] IN
         /\ s.tag = "crashlog"
         /\ Enter(s.base, s.end)
    /\ UNCHANGED <<image, input, next, queue, region, idx, regions, extra>>

(* mutant: a Crash Log section without a record is lost *)
KeepOther == extra' = IF input.container = "cper" /\ input.sections[next].tag # "crashlog"
                      THEN Append(extra, next) ELSE extra

(* from_cper keeps a section without a region, from_berr drops it.         *)
KeepExtra == extra' = IF input.container = "cper" THEN Append(extra, next) ELSE extra

SkipSection ==
    /\ pc = "load"
    /\ next <= Len(input.sections)
    /\ input.sections[next].tag # "crashlog"
    /\ KeepExtra
    /\ next' = next + 1
    /\ UNCHANGED <<image, input, pc, call, queue, region, idx, regions>>

Loaded ==
    /\ pc = "load"
    /\ next > Len(input.sections)
    /\ pc' = IF input.container = "cper" /\ queue = << >> THEN "failed" ELSE "pop"
    /\ UNCHANGED <<image, input, next, call, queue, region, idx, regions, extra>>

---------------------------------------------------------------------------
(* Region::from_slice: one turn of the loop per record.                   *)

(* mutant: an empty record does not end the loop *)
AtAnyRecord ==
    /\ pc = "slice"
    /\ call.cursor < call.end
    /\ DecodesAt(call.cursor, call.end)

AtRecord ==
    /\ pc = "slice"
    /\ call.cursor < call.end
    /\ DecodesAt(call.cursor, call.end)
    /\ RecordSize(HeaderAt(call.cursor)) > 0

ReadRecord ==
    /\ AtRecord
    /\ LET limit == call.cursor + RecordSize(HeaderAt(call.cursor)) IN
         call' = [call EXCEPT
                    !.cursor = limit,
                    !.records = Append(@,
                        [at |-> call.cursor, lim |-> Least(limit, call.end),
                         hdr |-> HeaderAt(call.cursor), parent |-> NoParent])]
    /\ UNCHANGED <<image, input, pc, next, queue, region, idx, regions, extra>>

(* The loop ends on the last byte, on a marker, on a header that does not  *)
(* decode and on an empty record; no record then means an error.          *)
SliceEnds == pc = "slice" /\ ~AtRecord
Empty == call.records = << >>

(* Without a record the caller gets an error: fatal for a raw file, an     *)
(* extra section for CPER, a skipped section for BERT.                     *)
LoadReturns ==
    /\ SliceEnds
    /\ idx = 0
    /\ \/ /\ ~Empty
          /\ queue' = Append(queue, call.records)
          /\ next' = next + 1
          /\ pc' = "load"
          /\ UNCHANGED extra
       \/ /\ Empty
          /\ input.container = "raw"
          /\ pc' = "failed"
          /\ UNCHANGED <<queue, next, extra>>
       \/ /\ Empty
          /\ input.container # "raw"
          /\ KeepExtra
          /\ next' = next + 1
          /\ pc' = "load"
          /\ UNCHANGED queue
    /\ call' = NoCall
    /\ UNCHANGED <<image, input, region, idx, regions>>

---------------------------------------------------------------------------
(* CrashLog::from_regions: the work list.                                 *)

PopRegion ==
    /\ pc = "pop"
    /\ queue # << >>
    /\ region' = Head(queue)
    /\ queue' = Tail(queue)
    /\ idx' = 1
    /\ pc' = "scan"
    /\ UNCHANGED <<image, input, next, call, regions, extra>>

(* mutant: the box header is not skipped *)
WholeBox(r) == r.at

PayloadAt(r) == r.at + HeaderSize(r.hdr)
HasPayload(r) == IsBox(r.hdr) /\ PayloadAt(r) <= r.lim

(* mutant: continue before the index moves *)
SkipNothing ==
    /\ pc = "scan"
    /\ idx <= Len(region)
    /\ ~HasPayload(region[idx])
    /\ UNCHANGED vars

(* A record that is no box, or a box whose data ends inside its header.    *)
SkipRecord ==
    /\ pc = "scan"
    /\ idx <= Len(region)
    /\ ~HasPayload(region[idx])
    /\ idx' = idx + 1
    /\ UNCHANGED <<image, input, pc, next, call, queue, region, regions, extra>>

OpenBox ==
    /\ pc = "scan"
    /\ idx <= Len(region)
    /\ HasPayload(region[idx])
    /\ Enter(PayloadAt(region[idx]), region[idx].lim)
    /\ UNCHANGED <<image, input, next, queue, region, idx, regions, extra>>

(* mutant: the context of the first record only *)
FirstChildOf(records, box) == [records EXCEPT ![1].parent = box.at]

(* Region::set_child_context. *)
ChildOf(records, box) ==
    [i \in 1 .. Len(records) |-> [records[i] EXCEPT !.parent = box.at]]

(* mutant: push_back *)
BoxQueuesLast ==
    /\ SliceEnds
    /\ idx > 0
    /\ queue' = IF Empty THEN queue
                ELSE Append(queue, ChildOf(call.records, region[idx]))
    /\ idx' = idx + 1
    /\ pc' = "scan"
    /\ call' = NoCall
    /\ UNCHANGED <<image, input, next, region, regions, extra>>

(* The region in a box goes to the front of the work list; a payload       *)
(* without one is only logged.                                             *)
BoxReturns ==
    /\ SliceEnds
    /\ idx > 0
    /\ queue' = IF Empty THEN queue
                ELSE <<ChildOf(call.records, region[idx])>> \o queue
    /\ idx' = idx + 1
    /\ pc' = "scan"
    /\ call' = NoCall
    /\ UNCHANGED <<image, input, next, region, regions, extra>>

(* mutant: the scan stops before the last record *)
EmitEarly ==
    /\ pc = "scan"
    /\ idx >= Len(region)
    /\ regions' = Append(regions, region)
    /\ region' = << >>
    /\ idx' = 0
    /\ pc' = "pop"
    /\ UNCHANGED <<image, input, next, call, queue, extra>>

EmitRegion ==
    /\ pc = "scan"
    /\ idx > Len(region)
    /\ regions' = Append(regions, region)
    /\ region' = << >>
    /\ idx' = 0
    /\ pc' = "pop"
    /\ UNCHANGED <<image, input, next, call, queue, extra>>

Finish ==
    /\ pc = "pop"
    /\ queue = << >>
    /\ pc' = IF regions = << >> THEN "failed" ELSE "done"
    /\ UNCHANGED <<image, input, next, call, queue, region, idx, regions, extra>>

---------------------------------------------------------------------------
Parse == \/ LoadSection \/ SkipSection \/ Loaded
         \/ ReadRecord \/ LoadReturns \/ BoxReturns
         \/ PopRegion \/ SkipRecord \/ OpenBox \/ EmitRegion \/ Finish

Returned == pc \in {"done", "failed"} /\ UNCHANGED vars

Next == Parse \/ Returned

(* from_slice runs to completion in its caller's thread. *)
Spec == Init /\ [][Next]_vars /\ WF_vars(Parse)

---------------------------------------------------------------------------
(* Type invariant: every variable keeps its shape through the parse.       *)
TypeOK ==
    /\ IsImage(image)
    /\ IsInput(input, image)
    /\ pc \in {"load", "slice", "pop", "scan", "done", "failed"}
    /\ next \in 1 .. Len(input.sections) + 1
    /\ call \in Call
    /\ queue \in Seq(Region)
    /\ region \in Region
    /\ idx \in 0 .. Len(region) + 1
    /\ regions \in Seq(Region)
    /\ extra \in Seq(Nat)

(* The regions found so far, queued, scanned or emitted, and their records.*)
Found == {queue[i] : i \in DOMAIN queue} \cup {regions[i] : i \in DOMAIN regions}
         \cup (IF idx > 0 THEN {region} ELSE {})
Records == UNION {{r[i] : i \in DOMAIN r} : r \in Found}

(* A region is a run of adjacent records, each as long as its header says *)
(* except a last one cut short by the end of its slice: Region::to_bytes   *)
(* gives back exactly a stretch of the file, no byte lost, moved or       *)
(* repeated (region.rs, the cursor and limit of from_slice).              *)
Adjacent(r) ==
    \A i \in DOMAIN r :
        /\ r[i].at < r[i].lim
        /\ r[i].lim <= r[i].at + RecordSize(r[i].hdr)
        /\ r[i].hdr = HeaderAt(r[i].at)
        /\ i + 1 \in DOMAIN r =>
             /\ r[i].lim = r[i].at + RecordSize(r[i].hdr)
             /\ r[i + 1].at = r[i].lim

RegionsTile == Adjacent(call.records) /\ \A r \in Found : Adjacent(r)

(* The parent context of a record is the header of the innermost box whose *)
(* payload holds the record, and a record outside every box has none       *)
(* (set_child_context overwrites the context of one level only).           *)
Holds(b, r) == HasPayload(b) /\ PayloadAt(b) <= r.at /\ r.at < b.lim
Holders(r) == {b.at : b \in {x \in Records : Holds(x, r)}}

ParentIsInnermost ==
    \A r \in Records :
        /\ r.parent = NoParent => Holders(r) = {}
        /\ r.parent # NoParent =>
             r.parent \in Holders(r) /\ \A p \in Holders(r) : p <= r.parent

(* No stretch of the file becomes two records of the same nesting level or *)
(* two copies of a region, however boxes nest and whatever order the work *)
(* list takes: regions are pairwise different and their records start at  *)
(* different offsets.                                                      *)
AllFound == queue \o regions \o (IF idx > 0 THEN <<region>> ELSE << >>)

NoRecordTwice ==
    \A i, j \in DOMAIN AllFound :
        \A k \in DOMAIN AllFound[i], l \in DOMAIN AllFound[j] :
            AllFound[i][k].at = AllFound[j][l].at => i = j /\ k = l

StartsRecord(o, end) ==
    o < end /\ DecodesAt(o, end) /\ RecordSize(HeaderAt(o)) > 0

(* The order CrashLog::decode merges the records in: a region comes after *)
(* the region that holds its box, and of two boxes of one region the later*)
(* one is listed, with all it holds, before the earlier (push_front).      *)
HolderOf(i) == CHOOSE h \in DOMAIN regions :
                  \E k \in DOMAIN regions[h] : regions[h][k].at = regions[i][1].parent

DepthFirst ==
    \A i \in DOMAIN regions : regions[i][1].parent # NoParent =>
        /\ \E h \in 1 .. i - 1 : \E k \in DOMAIN regions[h] :
              regions[h][k].at = regions[i][1].parent
        /\ \A j \in HolderOf(i) + 1 .. i - 1 : regions[j][1].at > regions[i][1].at

(* The outcome: the parse fails only if no Crash Log section starts with  *)
(* a record; otherwise every such section gives a region, and every other *)
(* CPER section is kept, in its order, in the metadata.                    *)
Usable(i) ==
    LET s == input.sections[i] IN
    s.tag = "crashlog" /\ StartsRecord(s.base, s.end)

SectionsAccounted ==
    /\ pc = "failed" => \A i \in DOMAIN input.sections : ~Usable(i)
    /\ pc = "done" =>
         /\ \A i \in DOMAIN input.sections : Usable(i) =>
              \E k \in DOMAIN regions : /\ regions[k][1].at = input.sections[i].base
                                        /\ regions[k][1].parent = NoParent
         /\ input.container = "cper" =>
              /\ {extra[k] : k \in DOMAIN extra} = {i \in DOMAIN input.sections : ~Usable(i)}
              /\ \A j, k \in DOMAIN extra : j < k => extra[j] < extra[k]

(* The work list implements the plain expansion of Expansion.tla: boxes    *)
(* whose record the scan has passed are opened, sections before next are   *)
(* loaded, and the order of the queue is one of the orders allowed there.  *)
Passed == UNION ({{r[k] : k \in DOMAIN r} : r \in {regions[i] : i \in DOMAIN regions}}
                 \cup {{region[k] : k \in 1 .. idx - 1}})

Abstract == INSTANCE Expansion WITH
    loaded  <- 1 .. next - 1,
    found   <- Found,
    opened  <- {b.at : b \in {r \in Passed : HasPayload(r)}},
    outcome <- IF pc \in {"done", "failed"} THEN pc ELSE "none"

Expands == Abstract!Spec

(* The parse returns: every loop of it moves forward, however malformed   *)
(* the sizes and however deep the boxes (crashlog.rs from_regions).        *)
Termination == <>(pc \in {"done", "failed"})
=============================================================================
