--------------------------- MODULE Container ---------------------------
(***************************************************************************)
(* The containers of a crash log: a CPER file (lib/src/cper.rs, cper/), a *)
(* BERR or BERT file (lib/src/bert.rs, bert/berr.rs) or a bare region. A   *)
(* file is read (CrashLog::from_slice), exported (CrashLog::to_bytes,      *)
(* to_bert), read again, and cut short in between, as by a failed write.   *)
(*                                                                         *)
(* A file is a sequence of words of 4 bytes. A header is one word that     *)
(* holds its fields and zeros up to its size; a record, the records in it  *)
(* included, is one word.                                                   *)
(***************************************************************************)
EXTENDS Integers, Sequences, SequencesExt

CONSTANTS
    Records,     \* records; a Box record is one of them
    Inside,      \* [Records -> Seq(Records)]: the records in a box, or none
    Bogus,       \* records that are none: the front of a container, taken for a record,
                 \* and what it makes of the bytes behind it
    Mistakes,    \* the regions, of Bogus records, that come of such a front
    Texts,       \* words of other sections
    Zero,        \* a word of zeros
    CrashlogId,  \* GUID of a firmware error record that is a crash log
    OtherId,     \* any other GUID there
    Files,       \* the files firmware makes: [kind, bytes, layout], the layout
                 \* saying what was put where: [body, at, len]
    MaxExports   \* bound on the exports of one behaviour

RecordHeaderSize == 32        \* 128 bytes
SectionDescriptorSize == 18   \* 72 bytes
BertSize == 12                \* 48 bytes
StatusBlockSize == 5          \* 20 bytes
EntryHeaderSize(rev3) == IF rev3 THEN 18 ELSE 16
FerHeaderSize(rev) == IF rev >= 2 THEN 8 ELSE 4

Zeros(n) == [i \in 1 .. n |-> Zero]
Only(x, yes) == IF yes THEN <<x>> ELSE << >>

Plain == Records \cup Texts \cup {Zero, CrashlogId, OtherId}
Kinds == {"fer", "unknown"}
Header ==
    [tag : {"cper"}, count : Nat]
    \cup [tag : {"descriptor"}, kind : Kinds, at : Nat, len : Nat]
    \cup [tag : {"fer"}, rev : 0 .. 2]
    \cup [tag : {"entry"}, kind : Kinds, rev3 : BOOLEAN, len : Nat]
    \cup [tag : {"length"}, len : Nat]
    \cup [tag : {"bert", "berr"}, sized : BOOLEAN]  \* whether the next four bytes are not zero
Word == Plain \cup Header
IsHeader(w, tag) == w \notin Plain /\ w.tag = tag

(* CperSectionBody: a firmware error record or bytes of an unknown type.   *)
Fer(rev, guid, payload) == [kind |-> "fer", rev |-> rev, guid |-> guid, data |-> payload]
Unknown(data) == [kind |-> "unknown", data |-> data]
Body ==
    [kind : {"fer"}, rev : {2}, guid : Word, data : Seq(Word)]
    \cup [kind : {"fer"}, rev : 0 .. 1, guid : {Zero}, data : Seq(Word)]
    \cup [kind : {"unknown"}, data : Seq(Word)]

(* FirmwareErrorRecord::from_slice; at most one body comes of the bytes.   *)
Revision(s) == IF IsHeader(s[1], "fer") THEN s[1].rev ELSE 0

FerFrom(s) ==
    Only(Fer(Revision(s), IF Revision(s) >= 2 THEN s[5] ELSE Zero,
             SubSeq(s, FerHeaderSize(Revision(s)) + 1, Len(s))),
         s # << >> /\ Len(s) >= FerHeaderSize(Revision(s)))

BodyFrom(kind, s) == IF kind = "fer" THEN FerFrom(s) ELSE <<Unknown(s)>>

BodyLen(b) == Len(b.data) + IF b.kind = "fer" THEN FerHeaderSize(b.rev) ELSE 0

BodyBytes(b) ==
    IF b.kind = "fer"
    THEN <<[tag |-> "fer", rev |-> b.rev]>> \o Zeros(3) \o <<b.guid>> \o Zeros(3) \o b.data
    ELSE b.data

---------------------------------------------------------------------------
(* Writing. *)

Resize(s, n) == [i \in 1 .. n |-> IF i <= Len(s) THEN s[i] ELSE Zero]

(* mutant: the count is taken before the last section is appended *)
CountBefore(bodies) == Len(bodies) - 1

(* section_count is an u16. *)
Count(bodies) == Len(bodies) % 65536

(* Cper::normalize: where each section goes. In a BERT each has a header.  *)
Cursor(bodies, start, header) ==
    LET cursor[i \in 0 .. Len(bodies)] ==
            IF i = 0 THEN start ELSE cursor[i - 1] + header + BodyLen(bodies[i])
    IN cursor

LayoutOf(bodies, start, header) ==
    [i \in DOMAIN bodies |->
        [body |-> bodies[i], len |-> BodyLen(bodies[i]),
         at |-> Cursor(bodies, start, header)[i - 1] + header]]

CperLayout(bodies) ==
    LayoutOf(bodies, RecordHeaderSize + SectionDescriptorSize * Len(bodies), 0)

Descriptor(kind, at, len) ==
    <<[tag |-> "descriptor", kind |-> kind, at |-> at, len |-> len]>>
    \o Zeros(SectionDescriptorSize - 1)

CperHead(count) == <<[tag |-> "cper", count |-> count]>> \o Zeros(RecordHeaderSize - 1)

CperBytes(bodies) ==
    LET places == CperLayout(bodies) IN
    CperHead(Count(bodies))
    \o FlattenSeq([i \in DOMAIN bodies |->
                     Descriptor(bodies[i].kind, places[i].at, places[i].len)])
    \o FlattenSeq([i \in DOMAIN bodies |-> Resize(BodyBytes(bodies[i]), places[i].len)])

(* Berr::to_bytes, behind a BERT table or the word BERR. *)
Entry(rev3, b) ==
    <<[tag |-> "entry", kind |-> b.kind, rev3 |-> rev3, len |-> Len(BodyBytes(b))]>>
    \o Zeros(EntryHeaderSize(rev3) - 1) \o BodyBytes(b)

Status(len) == Zeros(3) \o <<[tag |-> "length", len |-> len]>> \o Zeros(1)
BertTable == <<[tag |-> "bert", sized |-> FALSE]>> \o Zeros(BertSize - 1)

BertBytes(bodies) ==
    LET payload == FlattenSeq([i \in DOMAIN bodies |-> Entry(TRUE, bodies[i])]) IN
    BertTable \o Status(Len(payload)) \o payload

BertLayout(bodies) ==
    LayoutOf(bodies, BertSize + StatusBlockSize, EntryHeaderSize(TRUE))

---------------------------------------------------------------------------
(* Regions. *)

(* Region::from_slice: the records at the start of the bytes. *)
RegionOf(s) ==
    SubSeq(s, 1, CHOOSE n \in 0 .. Len(s) :
                    /\ \A i \in 1 .. n : s[i] \in Records
                    /\ n < Len(s) => s[n + 1] \notin Records)

(* Region::from_cper_section: at most one region. *)
RegionIn(b) ==
    Only(RegionOf(b.data),
         b.kind = "fer" /\ b.guid = CrashlogId /\ RegionOf(b.data) # << >>)

(* CrashLog::from_regions, for boxes that hold no boxes: a region, then    *)
(* those in its boxes, the last box first (module CrashLog has the whole). *)
InBoxes(r) ==
    FlattenSeq([k \in DOMAIN r |-> Only(Inside[Reverse(r)[k]], Inside[Reverse(r)[k]] # << >>)])

Expand(rs) == FlattenSeq([i \in DOMAIN rs |-> <<rs[i]>> \o InBoxes(rs[i])])

RegionsOf(bodies) == FlattenSeq([i \in DOMAIN bodies |-> RegionIn(bodies[i])])

FerOfRegion(region) == Fer(2, CrashlogId, region)

(* mutant: every section is kept for the export *)
KeepEverySection(bodies) == bodies

(* The sections from_cper keeps for the export.                            *)
OtherSections(bodies) ==
    FlattenSeq([i \in DOMAIN bodies |-> Only(bodies[i], RegionIn(bodies[i]) = << >>)])

(* A firmware error record of revision 0 or 1 is not exported as it is     *)
(* (LengthsHonest below); the properties are about the other bodies.       *)
Sound(b) == b.kind = "fer" => b.rev >= 2
SoundOnes(bodies) ==
    FlattenSeq([i \in DOMAIN bodies |-> Only(bodies[i], Sound(bodies[i]))])

Boxed(rs) == {Inside[x] : x \in UNION {ToSet(r) : r \in rs}} \ {<< >>}

Holds(bodies) ==
    LET outer == UNION {ToSet(RegionIn(bodies[i])) : i \in DOMAIN bodies} IN
    [regions |-> outer \cup Boxed(outer),
     extra |-> {b \in ToSet(bodies) : Sound(b) /\ RegionIn(b) = << >>}]

---------------------------------------------------------------------------
(* The files firmware makes. *)

(* A firmware error record of revision 1 as the specification has it.      *)
FirmwareBytes(b) ==
    IF b.kind = "fer" /\ b.rev < 2
    THEN <<[tag |-> "fer", rev |-> b.rev]>> \o Zeros(3) \o b.data
    ELSE BodyBytes(b)

Place == [body : Body, at : Nat, len : Nat]
End(p) == p.at + p.len
Holding(bytes, p) ==
    /\ p.len = BodyLen(p.body)
    /\ End(p) <= Len(bytes)
    /\ SubSeq(bytes, p.at + 1, End(p)) = FirmwareBytes(p.body)

(* The bodies are behind the descriptors, in any order and with gaps.      *)
IsCperFile(f) ==
    LET table == RecordHeaderSize + SectionDescriptorSize * Len(f.layout) IN
    /\ Len(f.layout) < 65536
    /\ Len(f.bytes) >= table
    /\ f.bytes[1] = [tag |-> "cper", count |-> Len(f.layout)]
    /\ \A i \in DOMAIN f.layout :
          LET p == f.layout[i] IN
          /\ p.at >= table
          /\ Holding(f.bytes, p)
          /\ f.bytes[RecordHeaderSize + SectionDescriptorSize * (i - 1) + 1]
                = [tag |-> "descriptor", kind |-> p.body.kind, at |-> p.at, len |-> p.len]

(* Entry after entry, and zeros behind the last.                           *)
IsBertFile(f) ==
    LET start == StatusBlockSize + IF IsHeader(f.bytes[1], "berr") THEN 1 ELSE BertSize
        from(i) == IF i = 1 THEN start ELSE End(f.layout[i - 1])
    IN
    /\ IsHeader(f.bytes[1], "bert") \/ IsHeader(f.bytes[1], "berr")
    /\ Len(f.bytes) >= start
    /\ f.bytes[start - 1] = [tag |-> "length", len |-> Len(f.bytes) - start]
    /\ \A i \in DOMAIN f.layout :
          LET p == f.layout[i] IN
          /\ Holding(f.bytes, p)
          /\ \E rev3 \in BOOLEAN :
                /\ p.at = from(i) + EntryHeaderSize(rev3)
                /\ f.bytes[from(i) + 1] =
                     [tag |-> "entry", kind |-> p.body.kind, rev3 |-> rev3, len |-> p.len]
    /\ \A k \in from(Len(f.layout) + 1) + 1 .. Len(f.bytes) : f.bytes[k] = Zero

(* One record that is no box. *)
Alone(r) == Len(r) = 1 /\ Inside[r[1]] = << >>

(* A region, with anything behind it. *)
IsRawFile(f) ==
    /\ f.bytes \in Seq(Plain)
    /\ Len(f.layout) = 1 /\ f.layout[1].body = FerOfRegion(f.bytes)

ASSUME ContainerAssumption ==
    /\ Inside \in [Records -> Seq(Records)]
    /\ \A x \in Records : \A k \in DOMAIN Inside[x] : Inside[Inside[x][k]] = << >>
    /\ Plain \cap Header = {}
    /\ Zero \notin Records
    /\ Bogus \subseteq Records
    /\ \A x \in Bogus : Inside[x] \in Seq(Bogus)
    /\ Mistakes \subseteq Seq(Bogus) \ {<< >>}
    /\ \E m \in Mistakes : Alone(m)
    /\ CrashlogId # OtherId /\ CrashlogId # Zero
    /\ \A f \in Files :
          /\ f.bytes \in Seq(Word \ Bogus)
          /\ f.layout \in Seq(Place)
          /\ \/ f.kind = "cper" /\ IsCperFile(f)
             \/ f.kind = "bert" /\ IsBertFile(f)
             \/ f.kind = "raw" /\ IsRawFile(f)
    /\ MaxExports \in Nat

---------------------------------------------------------------------------
VARIABLES
    file,      \* the bytes of the file
    layout,    \* history: what the file was made of
    made,      \* history: cper, bert or raw, for each time it was made
    pc,        \* file, descriptors, entries, read or failed
    at,        \* the descriptor read next, or the place of the next entry
    until,     \* how many descriptors, or where the entries end
    sections,  \* section bodies read
    regions,   \* the crash log: its regions and its other sections
    extra,
    origin,    \* history: what the first file held, [regions, extra]
    cut        \* history: no, now (this file was cut) or before

vars == <<file, layout, made, pc, at, until, sections, regions, extra, origin, cut>>

Init ==
    /\ \E f \in Files : /\ file = f.bytes /\ layout = f.layout /\ made = <<f.kind>>
                         /\ origin = Holds([i \in DOMAIN f.layout |-> f.layout[i].body])
    /\ pc = "file"
    /\ at = 0 /\ until = 0
    /\ sections = << >> /\ regions = << >> /\ extra = << >>
    /\ cut = "no"

---------------------------------------------------------------------------
(* CrashLog::from_slice: a BERR or BERT file, a CPER file, or a region.    *)

HasTag(tag) == file # << >> /\ IsHeader(file[1], tag)
BerrStart == IF HasTag("berr") THEN 1 ELSE BertSize
IsBert == /\ HasTag("berr") \/ HasTag("bert")
          /\ Len(file) >= BerrStart + StatusBlockSize
IsCper == ~IsBert /\ HasTag("cper") /\ Len(file) >= RecordHeaderSize

OpenBert ==
    /\ pc = "file"
    /\ IsBert
    /\ at' = BerrStart + StatusBlockSize
    /\ until' = BerrStart + StatusBlockSize + file[BerrStart + 4].len
    /\ sections' = << >>
    /\ pc' = "entries"
    /\ UNCHANGED <<file, layout, made, regions, extra, origin, cut>>

OpenCper ==
    /\ pc = "file"
    /\ IsCper
    /\ at' = 0
    /\ until' = file[1].count
    /\ sections' = << >>
    /\ pc' = "descriptors"
    /\ UNCHANGED <<file, layout, made, regions, extra, origin, cut>>

(* What is neither is tried as a region, the container that lost its end   *)
(* too. The letters CPER are the version of a record of header type 0, and *)
(* the size behind them is beyond any file; BERT and BERR are those of     *)
(* type 5, which takes 32 bytes, and the size is what follows them: the    *)
(* length of the table, the status of the block.                           *)
CperFront == HasTag("cper") /\ Len(file) >= 2
BertFront == (HasTag("bert") \/ HasTag("berr")) /\ file[1].sized /\ Len(file) >= 8

RawRegions ==
    IF CperFront THEN {m \in Mistakes : Alone(m)}
    ELSE IF BertFront THEN Mistakes
    ELSE {RegionOf(file)}

FromRaw ==
    /\ \E r \in RawRegions :
         /\ regions' = IF r = << >> THEN << >> ELSE Expand(<<r>>)
         /\ pc' = IF r = << >> THEN "failed" ELSE "read"
    /\ extra' = << >>
    /\ sections' = << >>
    /\ UNCHANGED <<file, layout, made, at, until, origin, cut>>

OpenRaw ==
    /\ pc = "file"
    /\ ~IsBert /\ ~IsCper
    /\ FromRaw

---------------------------------------------------------------------------
(* Cper::from_slice: one descriptor after the other; one that is cut, or   *)
(* whose body is, is passed over (filter_map). The cursor is 0-based.      *)
DescriptorPlace == RecordHeaderSize + SectionDescriptorSize * at

SectionAt ==
    IF DescriptorPlace + 13 > Len(file) THEN << >>
    ELSE LET d == file[DescriptorPlace + 1] IN
         IF d.at + d.len > Len(file) THEN << >>
         ELSE BodyFrom(d.kind, SubSeq(file, d.at + 1, d.at + d.len))

(* mutant: the first section that does not read ends the loop *)
ReadSectionOrStop ==
    /\ pc = "descriptors"
    /\ at < until
    /\ sections' = sections \o SectionAt
    /\ at' = IF SectionAt = << >> THEN until ELSE at + 1
    /\ UNCHANGED <<file, layout, made, pc, until, regions, extra, origin, cut>>

ReadSection ==
    /\ pc = "descriptors"
    /\ at < until
    /\ sections' = sections \o SectionAt
    /\ at' = at + 1
    /\ UNCHANGED <<file, layout, made, pc, until, regions, extra, origin, cut>>

(* CrashLog::from_cper. *)
FromCper ==
    /\ pc = "descriptors"
    /\ at >= until
    /\ IF RegionsOf(sections) = << >>
       THEN pc' = "failed" /\ UNCHANGED <<regions, extra>>
       ELSE /\ regions' = Expand(RegionsOf(sections))
            /\ extra' = OtherSections(sections)
            /\ pc' = "read"
    /\ UNCHANGED <<file, layout, made, at, until, sections, origin, cut>>

---------------------------------------------------------------------------
(* Berr::from_slice: entry after entry to the end of the data, or to the   *)
(* first that does not read; if the data ends behind the file, nothing.    *)
Blank == [kind |-> "unknown", rev3 |-> FALSE, len |-> 0]
EntryHeader == IF IsHeader(file[at + 1], "entry") THEN file[at + 1] ELSE Blank
(* mutant: the header size does not depend on the revision *)
EntrySizeFixed == EntryHeaderSize(TRUE) + EntryHeader.len

EntrySize == EntryHeaderSize(EntryHeader.rev3) + EntryHeader.len

EntryBody ==
    IF at < until /\ at + EntrySize <= until
    THEN BodyFrom(EntryHeader.kind,
                  SubSeq(file, at + EntryHeaderSize(EntryHeader.rev3) + 1, at + EntrySize))
    ELSE << >>

ReadEntry ==
    /\ pc = "entries"
    /\ until <= Len(file)
    /\ EntryBody # << >>
    /\ sections' = sections \o EntryBody
    /\ at' = at + EntrySize
    /\ UNCHANGED <<file, layout, made, pc, until, regions, extra, origin, cut>>

(* Without a region the parse fails; other sections are dropped.           *)
FromBerr ==
    /\ pc = "entries"
    /\ until <= Len(file)
    /\ EntryBody = << >>
    /\ regions' = Expand(RegionsOf(sections))
    /\ extra' = << >>
    /\ pc' = IF RegionsOf(sections) = << >> THEN "failed" ELSE "read"
    /\ UNCHANGED <<file, layout, made, at, until, sections, origin, cut>>

(* from_bert_file gives up; the file is no CPER, and tried as a region.    *)
BertTooShort ==
    /\ pc = "entries"
    /\ until > Len(file)
    /\ FromRaw

---------------------------------------------------------------------------
(* The exports, and a file that loses its end.                             *)

Bodies == [i \in DOMAIN regions |-> FerOfRegion(regions[i])] \o extra

Exported(bytes, what, places) ==
    /\ pc = "read"
    /\ Len(made) <= MaxExports
    /\ file' = bytes
    /\ layout' = places
    /\ made' = Append(made, what)
    /\ cut' = IF cut = "now" THEN "before" ELSE cut
    /\ pc' = "file"
    /\ UNCHANGED <<at, until, sections, regions, extra, origin>>

Export == Exported(CperBytes(Bodies), "cper", CperLayout(Bodies))

(* Only the regions go into a BERT; the entries are read in order.         *)
ExportBert ==
    LET bodies == [i \in DOMAIN regions |-> FerOfRegion(regions[i])] IN
    Exported(BertBytes(bodies), "bert", BertLayout(bodies))

Cut ==
    /\ pc = "file"
    /\ cut # "now"
    /\ \E n \in 0 .. Len(file) - 1 : file' = SubSeq(file, 1, n)
    /\ cut' = "now"
    /\ UNCHANGED <<layout, made, pc, at, until, sections, regions, extra, origin>>

Next == \/ OpenBert \/ OpenCper \/ OpenRaw
        \/ ReadSection \/ FromCper
        \/ ReadEntry \/ FromBerr \/ BertTooShort
        \/ Export \/ ExportBert \/ Cut

Spec == Init /\ [][Next]_vars

---------------------------------------------------------------------------
(* A CPER is read section by section: of a file that was cut anywhere,     *)
(* every section that lies whole before the cut is read, in its order, and *)
(* nothing else, whatever the order and the gaps of the bodies.            *)
WholeSectionsRead ==
    pc = "descriptors" =>
        SoundOnes(sections) =
            FlattenSeq([i \in 1 .. at |->
                Only(layout[i].body, Sound(layout[i].body) /\ End(layout[i]) <= Len(file))])

(* The entries of a BERT are read all or not at all, with headers of both  *)
(* sizes and with zeros behind them: no section of a cut one gets through. *)
(* But a crash log there may be, of bogus records, from a cut file of      *)
(* firmware's; never from an exported one, whose table says length 0.      *)
BertAllOrNothing ==
    Last(made) = "bert" /\ pc = "read" =>
        IF cut = "now"
        THEN Len(made) = 1 /\ UNION {ToSet(r) : r \in ToSet(regions)} \subseteq Bogus
        ELSE /\ Len(sections) >= Len(layout)
             /\ \A i \in DOMAIN layout : sections[i] = layout[i].body

(* What a crash log holds after any number of exports, in either format,   *)
(* and of reads of cut files comes from the file firmware made, a bare     *)
(* region short of its end at most; and if nothing was cut, all of that is *)
(* there, but for what a BERT leaves out. Regions of their own are made up *)
(* by cutting alone, and hold bogus records alone: never is one of those   *)
(* among records that are real. The regions in boxes may be there several  *)
(* times, as the export repeats them.                                      *)
Faithful ==
    /\ pc = "read" =>
         /\ \A r \in ToSet(regions) :
              \/ \E o \in origin.regions : IsPrefix(r, o)
              \/ cut # "no" /\ ToSet(r) \subseteq Bogus
         /\ ToSet(SoundOnes(extra)) \subseteq origin.extra
         /\ cut = "no" => /\ origin.regions \subseteq ToSet(regions)
                          /\ "bert" \notin ToSet(made) => origin.extra \subseteq ToSet(extra)
    /\ pc = "failed" /\ cut = "no" => origin.regions = {}

(* Reading an export and exporting it again gives the same bytes, unless   *)
(* there are boxes, whose regions are exported beside them.                *)
NoBoxes == \A i \in DOMAIN regions : \A k \in DOMAIN regions[i] : Inside[regions[i][k]] = << >>

Settles ==
    [][/\ pc = "read" /\ cut # "now" /\ NoBoxes /\ extra = SoundOnes(extra)
       /\ Len(made) > 1 /\ Last(made) = "cper"
       /\ made' = Append(made, "cper")
       => file' = file]_vars

(* The assertion of CperSectionBody::to_bytes (cper/section.rs:63), which  *)
(* an export meets for every section: "debug_assert_eq!(bytes.len(),       *)
(* self.len())".                                                            *)
LengthsHonest ==
    \A i \in DOMAIN layout : Len(made) > 1 =>
        Len(BodyBytes(layout[i].body)) = BodyLen(layout[i].body)
=============================================================================
