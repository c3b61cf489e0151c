------------------------- MODULE CrashLogProof -------------------------
(***************************************************************************)
(* Theorems about CrashLog, for every set of files: the parse keeps its    *)
(* types, never reads outside the file, and every region it finds is a    *)
(* gapless run of records.                                                 *)
(***************************************************************************)
EXTENDS CrashLog, TLAPS

(* What RegionsTile needs to be inductive: the running call stays in the   *)
(* file, its records end where its cursor stands, and the program counter *)
(* tells who called it.                                                    *)
InFile(r) == \A i \in DOMAIN r : r[i].lim <= image.len

RegionOK(r) == r \in Region /\ r # << >> /\ Adjacent(r) /\ InFile(r)

CallOK ==
    /\ call \in Call
    /\ call.end <= image.len
    /\ Adjacent(call.records)
    /\ InFile(call.records)
    /\ LET n == Len(call.records) IN
         n > 0 =>
            /\ call.cursor = call.records[n].at + RecordSize(call.records[n].hdr)
            /\ call.cursor <= call.end => call.records[n].lim = call.cursor

Control ==
    /\ pc = "load" => idx = 0
    /\ pc = "pop" => idx = 0
    /\ pc = "scan" => idx > 0
    /\ pc = "slice" /\ idx = 0 => next <= Len(input.sections)
    /\ pc = "slice" /\ idx > 0 => idx <= Len(region)

Regions ==
    /\ \A i \in DOMAIN queue : RegionOK(queue[i])
    /\ \A i \in DOMAIN regions : RegionOK(regions[i])
    /\ idx > 0 => RegionOK(region)

IInv == TypeOK /\ CallOK /\ Control /\ Regions

---------------------------------------------------------------------------
(* What the decoder gives: a header of a known type, a size in bytes, and  *)
(* a header size of at least 8 bytes, so the payload of a box is shorter   *)
(* than the box (header.rs record_size, header_size).                      *)
LEMMA HeaderFacts ==
    ASSUME NEW h \in Header
    PROVE  /\ RecordSize(h) \in Nat
           /\ HeaderSize(h) \in Nat
           /\ HeaderSize(h) >= 8
<1>v. h.version \in Version(KnownTypes)
  BY DEF Header
<1>1. h.size \in Nat /\ h.ext \in Nat /\ h.css \in Nat
  <2>1. h.size \in U16 /\ h.ext \in U16 /\ h.css \in 0 .. 127
    BY DEF Header
  <2>2. U16 \subseteq Nat /\ 0 .. 127 \subseteq Nat
    BY DEF U16
  <2> QED BY <2>1, <2>2
<1>2. Granularity(h) \in {1, 4}
  BY DEF Granularity
<1>3. h.version.header_type \in 0 .. 6
  BY <1>v DEF Version, KnownTypes
<1>4. RecordSize(h) \in Nat
  <2>1. CASE Granularity(h) = 1
    BY <1>1, <2>1 DEF RecordSize
  <2>2. CASE Granularity(h) = 4
    BY <1>1, <2>2 DEF RecordSize
  <2> QED BY <1>2, <2>1, <2>2
<1>5. HeaderSize(h) \in Nat /\ HeaderSize(h) >= 8
  BY <1>1, <1>3 DEF HeaderSize
<1> QED BY <1>4, <1>5

LEMMA DecodedHeader ==
    ASSUME NEW raw \in Raw, NEW left \in Int, Decodes(raw, left)
    PROVE  HeaderOf(raw) \in Header
<1>1. raw \in RawHeader
  BY DEF Decodes, IsMarker, Raw, Marker
<1>2. raw.version \in Version(0 .. 15) /\ raw.version.header_type \in KnownTypes
  BY <1>1 DEF RawHeader, Decodes
<1>3. raw.version \in Version(KnownTypes)
  <2>1. \A v \in Version(0 .. 15) : v.header_type \in KnownTypes => v \in Version(KnownTypes)
    BY SMTT(30) DEF Version
  <2> QED BY <1>2, <2>1
<1>4. raw.size \in U16 /\ raw.ext \in U16 /\ raw.legacy_size \in U16 /\ raw.css \in 0 .. 127
  BY <1>1 DEF RawHeader
<1>5. 0 \in U16
  BY DEF U16
<1> QED BY <1>3, <1>4, <1>5 DEF HeaderOf, Header

(* A region grows by the record at the cursor.                             *)
LEMMA GrowAdjacent ==
    ASSUME NEW r \in Region, Adjacent(r),
           NEW x \in Record,
           x.at < x.lim, x.lim <= x.at + RecordSize(x.hdr), x.hdr = HeaderAt(x.at),
           Len(r) > 0 => /\ r[Len(r)].lim = x.at
                         /\ r[Len(r)].lim = r[Len(r)].at + RecordSize(r[Len(r)].hdr)
    PROVE  Append(r, x) \in Region /\ Adjacent(Append(r, x))
<1> DEFINE s == Append(r, x)
<1>1. s \in Region /\ Len(s) = Len(r) + 1 /\ Len(r) \in Nat
      /\ \A i \in 1 .. Len(r) : s[i] = r[i]
  BY DEF Region
<1>2. s[Len(r) + 1] = x
  BY DEF Region
<1>3. DOMAIN s = 1 .. Len(r) + 1 /\ DOMAIN r = 1 .. Len(r)
  BY <1>1 DEF Region
<1> HIDE DEF s
<1>4. ASSUME NEW i \in DOMAIN s
      PROVE  /\ s[i].at < s[i].lim
             /\ s[i].lim <= s[i].at + RecordSize(s[i].hdr)
             /\ s[i].hdr = HeaderAt(s[i].at)
             /\ i + 1 \in DOMAIN s =>
                  /\ s[i].lim = s[i].at + RecordSize(s[i].hdr)
                  /\ s[i + 1].at = s[i].lim
  <2>1. CASE i = Len(r) + 1
    BY <1>1, <1>2, <1>3, <2>1
  <2>2. CASE i = Len(r)
    BY <1>1, <1>2, <1>3, <2>2 DEF Adjacent
  <2>3. CASE i < Len(r)
    BY <1>1, <1>3, <2>3 DEF Adjacent
  <2> QED BY <1>1, <1>3, <2>1, <2>2, <2>3
<1>5. Adjacent(s)
  BY <1>4 DEF Adjacent
<1> QED BY <1>1, <1>5 DEF s

---------------------------------------------------------------------------
LEMMA InitInv == Init => IInv
<1> SUFFICES ASSUME Init PROVE IInv
  OBVIOUS
<1>1. IsImage(image) /\ IsInput(input, image)
  BY FilesAssumption DEF Init
<1>2. image.len \in Nat /\ Len(input.sections) \in Nat
  BY <1>1 DEF IsImage, IsInput
<1>3. NoCall \in Call /\ Adjacent(<< >>) /\ InFile(<< >>)
  BY DEF NoCall, Call, Region, Adjacent, InFile
<1>4. TypeOK
  BY <1>1, <1>2, <1>3 DEF Init, TypeOK, Region
<1>5. CallOK
  BY <1>2, <1>3 DEF Init, CallOK, NoCall
<1>6. Control /\ Regions
  BY DEF Init, Control, Regions
<1> QED BY <1>4, <1>5, <1>6 DEF IInv

(* Entering Region::from_slice on a slice of the file. *)
LEMMA EnterInv ==
    ASSUME NEW base \in Nat, NEW end \in Nat, end <= image.len, Enter(base, end),
           UNCHANGED image
    PROVE  call' \in Call /\ CallOK'
<1>1. call' = [base |-> base, end |-> end, cursor |-> base, records |-> << >>]
  BY DEF Enter
<1>2. Adjacent(<< >>)' /\ InFile(<< >>)'
  BY DEF Adjacent, InFile
<1>3. << >> \in Region
  BY DEF Region
<1>4. call' \in Call
  BY <1>1, <1>3 DEF Call
<1> QED BY <1>1, <1>2, <1>4 DEF CallOK

LEMMA ReadInv ==
    ASSUME IInv, ReadRecord
    PROVE  call' \in Call /\ CallOK'
<1> DEFINE h == HeaderAt(call.cursor)
           limit == call.cursor + RecordSize(h)
           rec == [at |-> call.cursor, lim |-> Least(limit, call.end),
                   hdr |-> h, parent |-> NoParent]
           n == Len(call.records)
<1>1. /\ call.cursor \in Nat /\ call.end \in Nat /\ call.base \in Nat
      /\ call.records \in Region
      /\ image.len \in Nat
  BY DEF IInv, CallOK, Call, TypeOK, IsImage
<1>2. /\ call.cursor < call.end
      /\ Decodes(At(call.cursor), call.end - call.cursor)
      /\ RecordSize(h) > 0
      /\ image' = image
  BY DEF ReadRecord, AtRecord, DecodesAt
<1>3. call.end <= image.len
  BY DEF IInv, CallOK
<1>4. At(call.cursor) \in Raw
  <2>1. image.at \in [0 .. image.len - 1 -> Raw]
    BY DEF IInv, TypeOK, IsImage
  <2>2. call.cursor \in 0 .. image.len - 1
    BY <1>1, <1>2, <1>3
  <2> QED BY <2>1, <2>2 DEF At
<1>5. h \in Header
  <2>1. call.end - call.cursor \in Int
    BY <1>1
  <2> QED BY <1>2, <1>4, <2>1, DecodedHeader DEF HeaderAt
<1>6. RecordSize(h) \in Nat
  BY <1>5, HeaderFacts
<1>7. /\ limit \in Nat /\ limit > call.cursor
      /\ Least(limit, call.end) \in Nat
      /\ call.cursor < Least(limit, call.end)
      /\ Least(limit, call.end) <= limit
      /\ Least(limit, call.end) <= call.end
      /\ limit <= call.end => Least(limit, call.end) = limit
  BY <1>1, <1>2, <1>6 DEF Least
<1>8. rec \in Record
  BY <1>1, <1>5, <1>7 DEF Record, NoParent
<1>9. call' = [call EXCEPT !.cursor = limit, !.records = Append(@, rec)]
  BY DEF ReadRecord
<1>10. Append(call.records, rec) \in Region /\ Adjacent(Append(call.records, rec))
  <2>1. Adjacent(call.records)
    BY DEF IInv, CallOK
  <2>2. n > 0 => /\ call.records[n].lim = rec.at
                 /\ call.records[n].lim = call.records[n].at + RecordSize(call.records[n].hdr)
    BY <1>1, <1>2 DEF IInv, CallOK
  <2>3. rec.at < rec.lim /\ rec.lim <= rec.at + RecordSize(rec.hdr) /\ rec.hdr = HeaderAt(rec.at)
    BY <1>7
  <2> HIDE DEF rec
  <2> QED BY <1>1, <1>8, <2>1, <2>2, <2>3, GrowAdjacent
<1>11. call'.records = Append(call.records, rec) /\ call'.cursor = limit
       /\ call'.end = call.end /\ call' \in Call
  BY <1>1, <1>7, <1>9, <1>10 DEF IInv, CallOK, Call
<1>12. Len(call'.records) = n + 1 /\ call'.records[n + 1] = rec /\ n \in Nat
       /\ \A i \in 1 .. n : call'.records[i] = call.records[i]
  BY <1>1, <1>11 DEF Region
<1>13. InFile(call'.records)
  <2>1. \A i \in 1 .. n : call.records[i].lim <= image.len
    BY <1>1 DEF IInv, CallOK, InFile, Region
  <2>2. rec.lim <= image.len
    BY <1>1, <1>3, <1>7
  <2>3. DOMAIN call'.records = 1 .. n + 1
    BY <1>10, <1>11, <1>12 DEF Region
  <2> QED BY <1>12, <2>1, <2>2, <2>3 DEF InFile
<1>14. Adjacent(call.records)' /\ InFile(call.records)'
  BY <1>2, <1>10, <1>11, <1>13 DEF Adjacent, InFile, HeaderAt, At
<1>15. /\ call'.cursor = rec.at + RecordSize(rec.hdr)
       /\ call'.cursor <= call'.end => rec.lim = call'.cursor
  BY <1>7, <1>11
<1> HIDE DEF rec, limit, h
<1> QED BY <1>2, <1>3, <1>11, <1>12, <1>14, <1>15 DEF CallOK

(* The regions of a state whose work list, scanned region and output are   *)
(* untouched stay what they were.                                          *)
LEMMA KeepRegions ==
    ASSUME IInv, UNCHANGED <<image, queue, regions, region, idx>>
    PROVE  Regions'
<1>1. \A r : RegionOK(r) => RegionOK(r)'
  BY DEF RegionOK, Adjacent, InFile, HeaderAt, At
<1> QED BY <1>1 DEF IInv, Regions

LEMMA NextInv == IInv /\ [Next]_vars => IInv'
<1> SUFFICES ASSUME IInv, [Next]_vars PROVE IInv'
  OBVIOUS
<1> USE DEF IInv
<1>a. /\ image.len \in Nat
      /\ input.sections \in Seq(Section) /\ Len(input.sections) \in Nat
      /\ next \in Nat /\ idx \in Nat
      /\ queue \in Seq(Region) /\ regions \in Seq(Region) /\ extra \in Seq(Nat)
      /\ region \in Region /\ Len(region) \in Nat
      /\ call \in Call
  BY DEF TypeOK, IsImage, IsInput, Region
<1>n. NoCall \in Call /\ (call' = NoCall => CallOK')
  <2>1. NoCall \in Call
    BY DEF NoCall, Call, Region
  <2>2. image' = image
    BY DEF Next, Parse, Returned, vars, LoadSection, SkipSection, Loaded, ReadRecord,
           LoadReturns, BoxReturns, PopRegion, SkipRecord, OpenBox, EmitRegion, Finish
  <2>3. Adjacent(<< >>)' /\ InFile(<< >>)'
    BY DEF Adjacent, InFile
  <2> QED BY <1>a, <2>1, <2>2, <2>3 DEF CallOK, NoCall
<1>1. CASE LoadSection
  <2> DEFINE s == input.sections[next]
  <2>1. s \in Section /\ s.end <= image.len
    BY <1>1, <1>a DEF LoadSection, TypeOK, IsInput
  <2>2. s.base \in Nat /\ s.end \in Nat /\ Enter(s.base, s.end) /\ UNCHANGED image
    BY <1>1, <2>1 DEF LoadSection, Section
  <2>3. call' \in Call /\ CallOK'
    BY <2>1, <2>2, EnterInv
  <2>4. TypeOK' /\ Control'
    BY <1>1, <2>3, <1>a DEF LoadSection, TypeOK, Control, Enter
  <2>5. Regions'
    BY <1>1, KeepRegions DEF LoadSection
  <2> QED BY <2>3, <2>4, <2>5
<1>2. CASE SkipSection
  <2>1. extra' \in Seq(Nat)
    BY <1>2, <1>a DEF SkipSection, KeepExtra
  <2>2. TypeOK' /\ Control'
    BY <1>2, <2>1, <1>a DEF SkipSection, TypeOK, Control
  <2>3. CallOK'
    BY <1>2 DEF SkipSection, CallOK, Adjacent, InFile, HeaderAt, At
  <2>4. Regions'
    BY <1>2, KeepRegions DEF SkipSection
  <2> QED BY <2>2, <2>3, <2>4
<1>3. CASE Loaded
  <2>1. TypeOK' /\ Control'
    BY <1>3, <1>a DEF Loaded, TypeOK, Control
  <2>2. CallOK'
    BY <1>3 DEF Loaded, CallOK, Adjacent, InFile, HeaderAt, At
  <2>3. Regions'
    BY <1>3, KeepRegions DEF Loaded
  <2> QED BY <2>1, <2>2, <2>3
<1>4. CASE ReadRecord
  <2>1. call' \in Call /\ CallOK'
    BY <1>4, ReadInv
  <2>2. TypeOK' /\ Control'
    BY <1>4, <2>1, <1>a DEF ReadRecord, TypeOK, Control
  <2>3. Regions'
    BY <1>4, KeepRegions DEF ReadRecord
  <2> QED BY <2>1, <2>2, <2>3
<1>5. CASE LoadReturns
  <2>1. call' = NoCall /\ idx = 0 /\ UNCHANGED <<image, input, region, idx, regions>>
        /\ pc = "slice"
    BY <1>5 DEF LoadReturns, SliceEnds
  <2>2. next + 1 \in 1 .. Len(input.sections) + 1
    BY <2>1, <1>a DEF Control, TypeOK
  <2>3. CASE ~Empty /\ queue' = Append(queue, call.records)
             /\ next' = next + 1 /\ pc' = "load" /\ UNCHANGED extra
    <3>1. RegionOK(call.records)
      BY <1>a, <2>3 DEF CallOK, Empty, RegionOK, Call
    <3>2. queue' \in Seq(Region) /\ \A i \in DOMAIN queue' : RegionOK(queue'[i])
      <4>1. call.records \in Region
        BY <3>1 DEF RegionOK
      <4>2. queue' \in Seq(Region)
        BY <1>a, <2>3, <4>1
      <4>3. \A i \in DOMAIN queue' : queue'[i] = call.records
                                      \/ (i \in DOMAIN queue /\ queue'[i] = queue[i])
        BY <1>a, <2>3, <4>1
      <4> QED BY <3>1, <4>2, <4>3 DEF Regions
    <3>3. Regions'
      <4>1. \A r : RegionOK(r) => RegionOK(r)'
        BY <2>1 DEF RegionOK, Adjacent, InFile, HeaderAt, At
      <4> QED BY <2>1, <3>2, <4>1 DEF Regions
    <3>4. TypeOK' /\ Control'
      BY <2>1, <2>2, <2>3, <3>2, <1>a, <1>n DEF TypeOK, Control
    <3> QED BY <3>3, <3>4, <1>n, <2>1
  <2>4. CASE pc' = "failed" /\ UNCHANGED <<queue, next, extra>>
    <3>1. TypeOK' /\ Control'
      BY <2>1, <2>4, <1>a, <1>n DEF TypeOK, Control
    <3>2. Regions'
      BY <2>1, <2>4, KeepRegions
    <3> QED BY <3>1, <3>2, <1>n, <2>1
  <2>5. CASE KeepExtra /\ next' = next + 1 /\ pc' = "load" /\ UNCHANGED queue
    <3>1. extra' \in Seq(Nat)
      BY <2>5, <1>a DEF KeepExtra
    <3>2. TypeOK' /\ Control'
      BY <2>1, <2>2, <2>5, <3>1, <1>a, <1>n DEF TypeOK, Control
    <3>3. Regions'
      BY <2>1, <2>5, KeepRegions
    <3> QED BY <3>2, <3>3, <1>n, <2>1
  <2> QED BY <1>5, <2>3, <2>4, <2>5 DEF LoadReturns
<1>6. CASE PopRegion
  <2>1. RegionOK(Head(queue)) /\ Tail(queue) \in Seq(Region)
    BY <1>6, <1>a DEF PopRegion, Regions
  <2>2. \A i \in DOMAIN Tail(queue) : RegionOK(Tail(queue)[i])
    <3>1. \A i \in DOMAIN Tail(queue) : i + 1 \in DOMAIN queue /\ Tail(queue)[i] = queue[i + 1]
      BY <1>6, <1>a DEF PopRegion
    <3> QED BY <3>1 DEF Regions
  <2>3. Head(queue) \in Region
    BY <2>1 DEF RegionOK
  <2>4. Len(Head(queue)) \in Nat
    BY <2>3 DEF Region
  <2>5. TypeOK' /\ Control'
    BY <1>6, <1>a, <2>1, <2>3, <2>4 DEF PopRegion, TypeOK, Control
  <2>6. CallOK'
    BY <1>6 DEF PopRegion, CallOK, Adjacent, InFile, HeaderAt, At
  <2>7. Regions'
    <3>1. \A r : RegionOK(r) => RegionOK(r)'
      BY <1>6 DEF PopRegion, RegionOK, Adjacent, InFile, HeaderAt, At
    <3>2. queue' = Tail(queue) /\ region' = Head(queue) /\ regions' = regions
      BY <1>6 DEF PopRegion
    <3> QED BY <2>1, <2>2, <3>1, <3>2 DEF Regions
  <2> QED BY <2>5, <2>6, <2>7
<1>7. CASE SkipRecord
  <2>1. TypeOK' /\ Control'
    BY <1>7, <1>a DEF SkipRecord, TypeOK, Control
  <2>2. CallOK'
    BY <1>7 DEF SkipRecord, CallOK, Adjacent, InFile, HeaderAt, At
  <2>3. Regions'
    <3>1. \A r : RegionOK(r) => RegionOK(r)'
      BY <1>7 DEF SkipRecord, RegionOK, Adjacent, InFile, HeaderAt, At
    <3>2. idx > 0
      BY <1>7 DEF SkipRecord, Control
    <3> QED BY <1>7, <3>1, <3>2 DEF SkipRecord, Regions
  <2> QED BY <2>1, <2>2, <2>3
<1>8. CASE OpenBox
  <2> DEFINE r == region[idx]
  <2>1. idx > 0 /\ idx <= Len(region) /\ idx \in DOMAIN region
    BY <1>8, <1>a DEF OpenBox, Control, Region
  <2>2. r \in Record /\ r.lim <= image.len
    BY <2>1, <1>a DEF Regions, RegionOK, InFile, Region
  <2>3. PayloadAt(r) \in Nat /\ r.lim \in Nat
    <3>1. r.at \in Nat /\ r.lim \in Nat /\ r.hdr \in Header
      BY <2>2 DEF Record
    <3>2. HeaderSize(r.hdr) \in Nat
      BY <3>1, HeaderFacts
    <3> QED BY <3>1, <3>2 DEF PayloadAt
  <2>4. Enter(PayloadAt(r), r.lim) /\ UNCHANGED <<image, input, next, queue, region, idx, regions, extra>>
    BY <1>8 DEF OpenBox
  <2>5. call' \in Call /\ CallOK'
    BY <2>2, <2>3, <2>4, EnterInv
  <2>6. TypeOK' /\ Control'
    BY <2>1, <2>4, <2>5, <1>a DEF TypeOK, Control, Enter
  <2>7. Regions'
    BY <2>4, KeepRegions
  <2> QED BY <2>5, <2>6, <2>7
<1>9. CASE BoxReturns
  <2> DEFINE c == ChildOf(call.records, region[idx])
  <2>1. /\ pc = "slice" /\ idx > 0 /\ idx <= Len(region) /\ idx \in DOMAIN region
        /\ call' = NoCall /\ pc' = "scan" /\ idx' = idx + 1
        /\ UNCHANGED <<image, input, next, region, regions, extra>>
    BY <1>9, <1>a DEF BoxReturns, SliceEnds, Control, Region
  <2>2. ASSUME ~Empty PROVE RegionOK(c)
    <3>1. region[idx].at \in Nat
      <4>1. region[idx] \in Record
        BY <2>1, <1>a DEF Region
      <4> QED BY <4>1 DEF Record
    <3>2. call.records \in Region /\ call.records # << >>
      BY <2>2, <1>a DEF Call, Empty
    <3>3. /\ c \in Region /\ Len(c) = Len(call.records) /\ c # << >>
          /\ DOMAIN c = DOMAIN call.records
      <4>1. Len(call.records) \in Nat /\ \A i \in 1 .. Len(call.records) : call.records[i] \in Record
        BY <3>2 DEF Region
      <4>2. \A i \in 1 .. Len(call.records) :
               [call.records[i] EXCEPT !.parent = region[idx].at] \in Record
        BY <3>1, <4>1 DEF Record
      <4>3. c \in [1 .. Len(call.records) -> Record]
        BY <4>2 DEF ChildOf
      <4>4. c \in Seq(Record) /\ Len(c) = Len(call.records)
        BY <4>1, <4>3
      <4> QED BY <3>2, <4>1, <4>3, <4>4 DEF Region
    <3>4. \A i \in DOMAIN c : /\ c[i].at = call.records[i].at
                              /\ c[i].lim = call.records[i].lim
                              /\ c[i].hdr = call.records[i].hdr
      BY <3>2 DEF ChildOf, Region, Record
    <3>5. Adjacent(c) /\ InFile(c)
      BY <3>3, <3>4 DEF CallOK, Adjacent, InFile
    <3> QED BY <3>3, <3>5 DEF RegionOK
  <2>3. queue' \in Seq(Region) /\ \A i \in DOMAIN queue' : RegionOK(queue'[i])
    <3>1. CASE Empty
      BY <1>9, <3>1, <1>a DEF BoxReturns, Regions
    <3>2. CASE ~Empty
      <4>1. queue' = <<c>> \o queue
        BY <1>9, <3>2 DEF BoxReturns
      <4>2. RegionOK(c) /\ c \in Region
        BY <2>2, <3>2 DEF RegionOK
      <4> HIDE DEF c
      <4>3. queue' \in Seq(Region)
        BY <1>a, <4>1, <4>2
      <4>4. \A i \in DOMAIN queue' : queue'[i] = c
                                     \/ (i - 1 \in DOMAIN queue /\ queue'[i] = queue[i - 1])
        BY <1>a, <4>1
      <4> QED BY <4>2, <4>3, <4>4 DEF Regions
    <3> QED BY <3>1, <3>2
  <2>4. TypeOK' /\ Control'
    BY <2>1, <2>3, <1>a, <1>n DEF TypeOK, Control
  <2>5. Regions'
    <3>1. \A r : RegionOK(r) => RegionOK(r)'
      BY <2>1 DEF RegionOK, Adjacent, InFile, HeaderAt, At
    <3> QED BY <2>1, <2>3, <3>1 DEF Regions
  <2> QED BY <2>1, <2>4, <2>5, <1>n
<1>10. CASE EmitRegion
  <2>1. idx > 0 /\ RegionOK(region)
    BY <1>10 DEF EmitRegion, Control, Regions
  <2>2. regions' \in Seq(Region) /\ \A i \in DOMAIN regions' : RegionOK(regions'[i])
    <3>1. regions' = Append(regions, region)
      BY <1>10 DEF EmitRegion
    <3>2. \A i \in DOMAIN regions' : regions'[i] = region
                                     \/ (i \in DOMAIN regions /\ regions'[i] = regions[i])
      BY <1>a, <3>1
    <3>3. regions' \in Seq(Region)
      BY <1>a, <3>1
    <3> QED BY <2>1, <3>2, <3>3 DEF Regions
  <2>3. << >> \in Region /\ Len(<< >>) = 0
    BY DEF Region
  <2>4. TypeOK' /\ Control'
    BY <1>10, <2>2, <2>3, <1>a DEF EmitRegion, TypeOK, Control
  <2>5. CallOK'
    BY <1>10 DEF EmitRegion, CallOK, Adjacent, InFile, HeaderAt, At
  <2>6. Regions'
    <3>1. \A r : RegionOK(r) => RegionOK(r)'
      BY <1>10 DEF EmitRegion, RegionOK, Adjacent, InFile, HeaderAt, At
    <3> QED BY <1>10, <2>2, <3>1 DEF EmitRegion, Regions
  <2> QED BY <2>4, <2>5, <2>6
<1>11. CASE Finish
  <2>1. TypeOK' /\ Control'
    BY <1>11, <1>a DEF Finish, TypeOK, Control
  <2>2. CallOK'
    BY <1>11 DEF Finish, CallOK, Adjacent, InFile, HeaderAt, At
  <2>3. Regions'
    BY <1>11, KeepRegions DEF Finish
  <2> QED BY <2>1, <2>2, <2>3
<1>12. CASE UNCHANGED vars
  <2>1. TypeOK' /\ Control'
    BY <1>12 DEF vars, TypeOK, Control
  <2>2. CallOK'
    BY <1>12 DEF vars, CallOK, Adjacent, InFile, HeaderAt, At
  <2>3. Regions'
    BY <1>12, KeepRegions DEF vars
  <2> QED BY <2>1, <2>2, <2>3
<1> QED
  BY <1>1, <1>2, <1>3, <1>4, <1>5, <1>6, <1>7, <1>8, <1>9, <1>10, <1>11, <1>12
  DEF Next, Parse, Returned

(* Types hold through every parse of every file. *)
THEOREM TypeCorrect == Spec => []TypeOK
<1>1. IInv => TypeOK
  BY DEF IInv
<1> QED BY InitInv, NextInv, <1>1, PTL DEF Spec

(* Every region found, in any file, is a gapless run of records: the bytes *)
(* Region::to_bytes gives back are a stretch of the file.                  *)
THEOREM RegionsAreStretches == Spec => []RegionsTile
<1>1. IInv => RegionsTile
  BY DEF IInv, CallOK, Regions, RegionOK, RegionsTile, Found
<1> QED BY InitInv, NextInv, <1>1, PTL DEF Spec

(* No region reaches outside the file, so no read of a header or a payload *)
(* by the parser is out of bounds.                                         *)
THEOREM StaysInFile == Spec => [](\A r \in Found : InFile(r))
<1>1. IInv => \A r \in Found : InFile(r)
  BY DEF IInv, Regions, RegionOK, Found
<1> QED BY InitInv, NextInv, <1>1, PTL DEF Spec

---------------------------------------------------------------------------
(* Two records of a file are apart, or one lies in the payload of the      *)
(* other.                                                                  *)
Inside(x, b) == HasPayload(b) /\ PayloadAt(b) <= x.at /\ x.lim <= b.lim
Disjoint(x, y) == x.lim <= y.at \/ y.lim <= x.at
Ordered(r) == \A k, l \in DOMAIN r : k < l => r[k].lim <= r[l].at

Nested(F) ==
    \A r, s \in F : \A k \in DOMAIN r, l \in DOMAIN s :
        \/ Disjoint(r[k], s[l]) \/ Inside(r[k], s[l]) \/ Inside(s[l], r[k])
        \/ r = s /\ k = l

(* Nothing that was found lies in the payload of b.                        *)
Fresh(b, F) == \A s \in F : \A l \in DOMAIN s : ~Inside(s[l], b)

(* The parent of a record among the regions of F is the last box around it.*)
Innermost(F) ==
    \A r \in F : \A k \in DOMAIN r :
      /\ r[k].parent = NoParent =>
           \A s \in F : \A l \in DOMAIN s : ~Holds(s[l], r[k])
      /\ r[k].parent # NoParent =>
           /\ \E s \in F : \E l \in DOMAIN s : s[l].at = r[k].parent /\ Holds(s[l], r[k])
           /\ \A s \in F : \A l \in DOMAIN s : Holds(s[l], r[k]) => s[l].at <= r[k].parent

(* A region of records that are not empty. *)
Proper(r) == r \in Region /\ r # << >> /\ \A k \in DOMAIN r : r[k].at < r[k].lim

---------------------------------------------------------------------------
(* How two records can lie: header.rs header_size is never zero, so the    *)
(* payload of a box begins behind the start of the box.                    *)
LEMMA PayloadIsBehind ==
    ASSUME NEW b \in Record
    PROVE  PayloadAt(b) \in Nat /\ PayloadAt(b) > b.at
<1>1. b.at \in Nat /\ b.hdr \in Header
  BY DEF Record
<1>2. HeaderSize(b.hdr) \in Nat /\ HeaderSize(b.hdr) >= 8
  BY <1>1, HeaderFacts
<1> QED BY <1>1, <1>2 DEF PayloadAt

LEMMA InsideTransitive ==
    ASSUME NEW x \in Record, NEW b \in Record, NEW y \in Record,
           Inside(x, b), Inside(b, y)
    PROVE  Inside(x, y)
<1>1. x.at \in Nat /\ x.lim \in Nat /\ b.at \in Nat /\ b.lim \in Nat /\ y.lim \in Nat
  BY DEF Record
<1>2. PayloadAt(b) \in Nat /\ PayloadAt(b) > b.at /\ PayloadAt(y) \in Nat
  BY PayloadIsBehind
<1> QED BY <1>1, <1>2 DEF Inside

LEMMA InsideDisjoint ==
    ASSUME NEW x \in Record, NEW b \in Record, NEW y \in Record,
           Inside(x, b), Disjoint(b, y)
    PROVE  Disjoint(x, y)
<1>1. x.at \in Nat /\ x.lim \in Nat /\ b.at \in Nat /\ b.lim \in Nat
      /\ y.at \in Nat /\ y.lim \in Nat
  BY DEF Record
<1>2. PayloadAt(b) \in Nat /\ PayloadAt(b) > b.at
  BY PayloadIsBehind
<1> QED BY <1>1, <1>2 DEF Inside, Disjoint

(* A box that holds the start of a record holds all of it, unless they are *)
(* the same or the record is around the box.                               *)
LEMMA HoldsIsInside ==
    ASSUME NEW x \in Record, NEW b \in Record, x.at < x.lim,
           Disjoint(x, b) \/ Inside(x, b) \/ Inside(b, x) \/ x = b,
           Holds(b, x)
    PROVE  Inside(x, b) /\ b.at < x.at
<1>1. x.at \in Nat /\ x.lim \in Nat /\ b.at \in Nat /\ b.lim \in Nat
  BY DEF Record
<1>2. PayloadAt(b) \in Nat /\ PayloadAt(b) > b.at /\ PayloadAt(x) \in Nat /\ PayloadAt(x) > x.at
  BY PayloadIsBehind
<1> QED BY <1>1, <1>2 DEF Inside, Disjoint, Holds

LEMMA InsideIsHolds ==
    ASSUME NEW x \in Record, NEW b \in Record, x.at < x.lim, Inside(x, b)
    PROVE  Holds(b, x) /\ b.at < x.at
<1>1. x.at \in Nat /\ x.lim \in Nat /\ b.at \in Nat /\ b.lim \in Nat
  BY DEF Record
<1>2. PayloadAt(b) \in Nat /\ PayloadAt(b) > b.at
  BY PayloadIsBehind
<1> QED BY <1>1, <1>2 DEF Inside, Holds

(* Records that nest and start at one offset are the same.                 *)
LEMMA SameStart ==
    ASSUME NEW x \in Record, NEW y \in Record, x.at < x.lim, y.at < y.lim, x.at = y.at
    PROVE  ~Disjoint(x, y) /\ ~Inside(x, y) /\ ~Inside(y, x)
<1>1. x.at \in Nat /\ x.lim \in Nat /\ y.at \in Nat /\ y.lim \in Nat
  BY DEF Record
<1>2. PayloadAt(x) \in Nat /\ PayloadAt(x) > x.at /\ PayloadAt(y) \in Nat /\ PayloadAt(y) > y.at
  BY PayloadIsBehind
<1> QED BY <1>1, <1>2 DEF Inside, Disjoint

LEMMA ProperRecord ==
    ASSUME NEW r, Proper(r), NEW k \in DOMAIN r
    PROVE  r[k] \in Record /\ r[k].at < r[k].lim
  BY DEF Proper, Region

LEMMA OrderedDisjoint ==
    ASSUME NEW r, Proper(r), Ordered(r), NEW k \in DOMAIN r, NEW l \in DOMAIN r, k # l
    PROVE  Disjoint(r[k], r[l])
<1>1. k \in Int /\ l \in Int
  BY DEF Proper, Region
<1> QED BY <1>1 DEF Ordered, Disjoint

---------------------------------------------------------------------------
(* A region is added whose records are apart from, or in, those there.     *)
LEMMA NestedGrows ==
    ASSUME NEW F, \A r \in F : Proper(r), Nested(F),
           NEW c, Proper(c), Ordered(c),
           \A k \in DOMAIN c : \A s \in F : \A l \in DOMAIN s :
              Disjoint(c[k], s[l]) \/ Inside(c[k], s[l])
    PROVE  Nested(F \cup {c})
<1> SUFFICES ASSUME NEW r \in F \cup {c}, NEW s \in F \cup {c},
                    NEW k \in DOMAIN r, NEW l \in DOMAIN s
             PROVE  \/ Disjoint(r[k], s[l]) \/ Inside(r[k], s[l]) \/ Inside(s[l], r[k])
                    \/ r = s /\ k = l
  BY Zenon DEF Nested
<1>1. CASE r \in F /\ s \in F
  BY <1>1, Zenon DEF Nested
<1>2. CASE r = c /\ s \in F
  BY <1>2, Zenon
<1>3. CASE r \in F /\ s = c
  <2>1. Disjoint(c[l], r[k]) \/ Inside(c[l], r[k])
    BY <1>3, Zenon
  <2> QED BY <1>3, <2>1 DEF Disjoint
<1>4. CASE r = c /\ s = c
  BY <1>4, OrderedDisjoint, Zenon
<1> QED BY <1>1, <1>2, <1>3, <1>4, Zenon

(* ... all apart from them, and without a parent.                          *)
LEMMA InnermostBeside ==
    ASSUME NEW F, \A r \in F : Proper(r), Innermost(F),
           NEW c, Proper(c), Ordered(c), Nested(F \cup {c}),
           \A k \in DOMAIN c : c[k].parent = NoParent,
           \A k \in DOMAIN c : \A s \in F : \A l \in DOMAIN s : Disjoint(c[k], s[l])
    PROVE  Innermost(F \cup {c})
<1>h. ASSUME NEW x \in Record, NEW y \in Record, Disjoint(x, y), x.at < x.lim, y.at < y.lim
      PROVE  ~Holds(x, y) /\ ~Holds(y, x)
  <2>1. x.at \in Nat /\ x.lim \in Nat /\ y.at \in Nat /\ y.lim \in Nat
    BY DEF Record
  <2>2. PayloadAt(x) \in Nat /\ PayloadAt(x) > x.at /\ PayloadAt(y) \in Nat /\ PayloadAt(y) > y.at
    BY PayloadIsBehind
  <2> QED BY <2>1, <2>2, <1>h DEF Disjoint, Holds
<1>1. ASSUME NEW s \in F, NEW l \in DOMAIN s, NEW k \in DOMAIN c
      PROVE  ~Holds(s[l], c[k]) /\ ~Holds(c[k], s[l])
  <2>1. c[k] \in Record /\ s[l] \in Record /\ c[k].at < c[k].lim /\ s[l].at < s[l].lim
    BY ProperRecord, Zenon
  <2> QED BY <1>h, <2>1, Zenon
<1>2. ASSUME NEW k \in DOMAIN c, NEW l \in DOMAIN c
      PROVE  ~Holds(c[l], c[k])
  <2>1. c[k] \in Record /\ c[l] \in Record /\ c[k].at < c[k].lim /\ c[l].at < c[l].lim
    BY ProperRecord, Zenon
  <2>2. CASE k # l
    BY <1>h, <2>1, <2>2, OrderedDisjoint, Zenon
  <2>3. CASE k = l
    <3>1. PayloadAt(c[k]) > c[k].at /\ PayloadAt(c[k]) \in Nat /\ c[k].at \in Nat
      BY <2>1, PayloadIsBehind DEF Record
    <3> QED BY <2>3, <3>1 DEF Holds
  <2> QED BY <2>2, <2>3
<1> SUFFICES ASSUME NEW r \in F \cup {c}, NEW k \in DOMAIN r
             PROVE  /\ r[k].parent = NoParent =>
                         \A s \in F \cup {c} : \A l \in DOMAIN s : ~Holds(s[l], r[k])
                    /\ r[k].parent # NoParent =>
                         /\ \E s \in F \cup {c} : \E l \in DOMAIN s :
                              s[l].at = r[k].parent /\ Holds(s[l], r[k])
                         /\ \A s \in F \cup {c} : \A l \in DOMAIN s :
                              Holds(s[l], r[k]) => s[l].at <= r[k].parent
  BY Zenon DEF Innermost
<1>3. CASE r = c
  BY <1>1, <1>2, <1>3, Zenon
<1>4. CASE r \in F
  <2>1. \A l \in DOMAIN c : ~Holds(c[l], r[k])
    BY <1>1, <1>4, Zenon
  <2>2. CASE r[k].parent = NoParent
    BY <1>4, <2>1, <2>2, Zenon DEF Innermost
  <2>3. CASE r[k].parent # NoParent
    <3>1. \E s \in F : \E l \in DOMAIN s : s[l].at = r[k].parent /\ Holds(s[l], r[k])
      BY <1>4, <2>3, Zenon DEF Innermost
    <3>2. \A s \in F : \A l \in DOMAIN s : Holds(s[l], r[k]) => s[l].at <= r[k].parent
      BY <1>4, <2>3, Zenon DEF Innermost
    <3> QED BY <2>1, <2>3, <3>1, <3>2, Zenon
  <2> QED BY <2>2, <2>3
<1> QED BY <1>3, <1>4

(* ... all in the payload of the box b, in which nothing was found before, *)
(* with b for a parent.                                                    *)
LEMMA InnermostWithin ==
    ASSUME NEW F, \A r \in F : Proper(r), Nested(F), Innermost(F),
           NEW g \in F, NEW n \in DOMAIN g, Fresh(g[n], F),
           NEW c, Proper(c), Ordered(c), Nested(F \cup {c}), c \notin F,
           \A k \in DOMAIN c : c[k].parent = g[n].at /\ Inside(c[k], g[n])
    PROVE  Innermost(F \cup {c})
<1> DEFINE b == g[n]
<1>b. b \in Record /\ b.at < b.lim /\ b.at \in Nat
  <2>1. b \in Record /\ b.at < b.lim
    BY ProperRecord, Zenon
  <2> QED BY <2>1 DEF Record
<1>c. ASSUME NEW k \in DOMAIN c
      PROVE  /\ c[k] \in Record /\ c[k].at < c[k].lim
             /\ c[k].parent = b.at /\ Inside(c[k], b)
  BY <1>c, ProperRecord, Zenon
<1>f. ASSUME NEW s \in F, NEW l \in DOMAIN s
      PROVE  s[l] \in Record /\ s[l].at < s[l].lim
  BY <1>f, ProperRecord, Zenon
<1>fb. \A s \in F : \A l \in DOMAIN s : ~Inside(s[l], b)
  BY Zenon DEF Fresh
<1>nb. ASSUME NEW s \in F, NEW l \in DOMAIN s
       PROVE  Disjoint(b, s[l]) \/ Inside(b, s[l]) \/ b = s[l]
  <2>0. \A r, t \in F : \A k \in DOMAIN r, m \in DOMAIN t :
          \/ Disjoint(r[k], t[m]) \/ Inside(r[k], t[m]) \/ Inside(t[m], r[k])
          \/ r = t /\ k = m
    BY DEF Nested
  <2>1. \/ Disjoint(b, s[l]) \/ Inside(b, s[l]) \/ Inside(s[l], b) \/ (g = s /\ n = l)
    BY <2>0, ZenonT(30)
  <2> QED BY <2>1, <1>fb, Zenon
<1> HIDE DEF b
(* A new record holds no old one and no other new one. *)
<1>1. ASSUME NEW k \in DOMAIN c, NEW s \in F, NEW l \in DOMAIN s
      PROVE  ~Holds(c[k], s[l])
  <2> SUFFICES ASSUME Holds(c[k], s[l]) PROVE FALSE
    OBVIOUS
  <2>1. \/ Disjoint(s[l], c[k]) \/ Inside(s[l], c[k]) \/ Inside(c[k], s[l]) \/ s = c
    BY Zenon DEF Nested
  <2>2. s # c
    BY Zenon
  <2>3. Inside(s[l], c[k])
    BY <1>c, <1>f, <2>1, <2>2, HoldsIsInside, Zenon
  <2>4. Inside(s[l], b)
    BY <1>b, <1>c, <1>f, <2>3, InsideTransitive, Zenon
  <2> QED BY <1>fb, <2>4, Zenon
<1>2. ASSUME NEW k \in DOMAIN c, NEW l \in DOMAIN c
      PROVE  ~Holds(c[l], c[k])
  <2> SUFFICES ASSUME Holds(c[l], c[k]) PROVE FALSE
    OBVIOUS
  <2>1. Disjoint(c[k], c[l]) \/ c[k] = c[l]
    BY OrderedDisjoint, Zenon
  <2>2. Inside(c[k], c[l]) /\ c[l].at < c[k].at
    BY <1>c, <2>1, HoldsIsInside, Zenon
  <2>3. c[k].at \in Nat /\ c[l].at \in Nat /\ c[k].lim \in Nat /\ c[l].lim \in Nat
        /\ PayloadAt(c[l]) > c[l].at /\ PayloadAt(c[l]) \in Nat
    BY <1>c, PayloadIsBehind DEF Record
  <2> QED BY <1>c, <2>1, <2>2, <2>3 DEF Inside, Disjoint
(* The box holds them, and an old record that does is the box or around it.*)
<1>3. ASSUME NEW k \in DOMAIN c
      PROVE  Holds(b, c[k])
  BY <1>b, <1>c, InsideIsHolds, Zenon
<1>4. ASSUME NEW k \in DOMAIN c, NEW s \in F, NEW l \in DOMAIN s, Holds(s[l], c[k])
      PROVE  s[l].at <= b.at
  <2>1. CASE Disjoint(b, s[l])
    <3>1. Disjoint(c[k], s[l])
      BY <1>b, <1>c, <1>f, <2>1, InsideDisjoint, Zenon
    <3>2. Inside(c[k], s[l]) /\ s[l].at < c[k].at
      BY <1>c, <1>f, <1>4, <3>1, HoldsIsInside, Zenon
    <3>3. c[k].at \in Nat /\ s[l].at \in Nat /\ c[k].lim \in Nat /\ s[l].lim \in Nat
      BY <1>c, <1>f DEF Record
    <3>4. c[k].at < c[k].lim
      BY <1>c
    <3>5. PayloadAt(s[l]) \in Nat /\ PayloadAt(s[l]) > s[l].at
      BY <1>f, PayloadIsBehind
    <3> QED BY <3>1, <3>2, <3>3, <3>4, <3>5 DEF Disjoint, Inside
  <2>2. CASE Inside(b, s[l])
    <3>1. s[l].at < b.at
      BY <1>b, <1>f, <2>2, InsideIsHolds, Zenon
    <3>2. s[l].at \in Nat
      BY <1>f DEF Record
    <3> QED BY <1>b, <3>1, <3>2
  <2>3. CASE b = s[l]
    BY <1>b, <2>3
  <2> QED BY <1>nb, <2>1, <2>2, <2>3, Zenon
<1> SUFFICES ASSUME NEW r \in F \cup {c}, NEW k \in DOMAIN r
             PROVE  /\ r[k].parent = NoParent =>
                         \A s \in F \cup {c} : \A l \in DOMAIN s : ~Holds(s[l], r[k])
                    /\ r[k].parent # NoParent =>
                         /\ \E s \in F \cup {c} : \E l \in DOMAIN s :
                              s[l].at = r[k].parent /\ Holds(s[l], r[k])
                         /\ \A s \in F \cup {c} : \A l \in DOMAIN s :
                              Holds(s[l], r[k]) => s[l].at <= r[k].parent
  BY Zenon DEF Innermost
<1>5. CASE r = c
  <2>1. c[k].parent = b.at /\ c[k].parent # NoParent
    BY <1>b, <1>c, <1>5 DEF NoParent
  <2>2. \E s \in F : \E l \in DOMAIN s : s[l].at = c[k].parent /\ Holds(s[l], c[k])
    BY <1>3, <1>5, <2>1, Zenon DEF b
  <2>3. \A s \in F \cup {c} : \A l \in DOMAIN s : Holds(s[l], c[k]) => s[l].at <= c[k].parent
    BY <1>2, <1>4, <1>5, <2>1, Zenon
  <2> QED BY <1>5, <2>1, <2>2, <2>3, Zenon
<1>6. CASE r \in F
  <2>1. \A l \in DOMAIN c : ~Holds(c[l], r[k])
    BY <1>1, <1>6, Zenon
  <2>2. CASE r[k].parent = NoParent
    BY <1>6, <2>1, <2>2, Zenon DEF Innermost
  <2>3. CASE r[k].parent # NoParent
    <3>1. \E s \in F : \E l \in DOMAIN s : s[l].at = r[k].parent /\ Holds(s[l], r[k])
      BY <1>6, <2>3, Zenon DEF Innermost
    <3>2. \A s \in F : \A l \in DOMAIN s : Holds(s[l], r[k]) => s[l].at <= r[k].parent
      BY <1>6, <2>3, Zenon DEF Innermost
    <3> QED BY <2>1, <2>3, <3>1, <3>2, Zenon
  <2> QED BY <2>2, <2>3
<1> QED BY <1>5, <1>6

(* Apart or the same, one does not lie in the other. *)
LEMMA ApartIsNotInside ==
    ASSUME NEW x \in Record, NEW y \in Record, x.at < x.lim, y.at < y.lim,
           Disjoint(x, y) \/ x = y
    PROVE  ~Inside(x, y)
<1>1. x.at \in Nat /\ x.lim \in Nat /\ y.at \in Nat /\ y.lim \in Nat
  BY DEF Record
<1>2. PayloadAt(y) \in Nat /\ PayloadAt(y) > y.at
  BY PayloadIsBehind
<1> QED BY <1>1, <1>2 DEF Disjoint, Inside

(* What a region beside all others brings with it ...                      *)
LEMMA Beside ==
    ASSUME NEW F, \A r \in F : Proper(r), Nested(F), Innermost(F),
           NEW c, Proper(c), Ordered(c),
           \A k \in DOMAIN c : c[k].parent = NoParent,
           \A k \in DOMAIN c : \A s \in F : \A l \in DOMAIN s : Disjoint(c[k], s[l])
    PROVE  /\ c \notin F
           /\ Nested(F \cup {c}) /\ Innermost(F \cup {c})
           /\ \A h \in F : \A m \in DOMAIN h : Fresh(h[m], F) => Fresh(h[m], F \cup {c})
           /\ \A k \in DOMAIN c : Fresh(c[k], F \cup {c})
<1>c. \A k \in DOMAIN c : c[k] \in Record /\ c[k].at < c[k].lim
  BY ProperRecord, Zenon
<1>f. \A s \in F : \A l \in DOMAIN s : s[l] \in Record /\ s[l].at < s[l].lim
  BY ProperRecord, Zenon
<1>1. c \notin F
  <2> SUFFICES ASSUME c \in F PROVE FALSE
    OBVIOUS
  <2>1. 1 \in DOMAIN c
    BY DEF Proper, Region
  <2>2. Disjoint(c[1], c[1])
    BY <2>1, Zenon
  <2>3. c[1].at \in Nat /\ c[1].lim \in Nat /\ c[1].at < c[1].lim
    BY <1>c, <2>1 DEF Record
  <2> QED BY <2>2, <2>3 DEF Disjoint
<1>2. Nested(F \cup {c})
  BY NestedGrows, Zenon
<1>3. Innermost(F \cup {c})
  BY <1>2, InnermostBeside, Zenon
<1>4. ASSUME NEW h \in F, NEW m \in DOMAIN h, Fresh(h[m], F)
      PROVE  Fresh(h[m], F \cup {c})
  <2>1. ASSUME NEW l \in DOMAIN c PROVE ~Inside(c[l], h[m])
    <3>1. Disjoint(c[l], h[m])
      BY Zenon
    <3> QED BY <1>c, <1>f, <3>1, ApartIsNotInside, Zenon
  <2> QED BY <1>4, <2>1, Zenon DEF Fresh
<1>5. ASSUME NEW k \in DOMAIN c
      PROVE  Fresh(c[k], F \cup {c})
  <2>1. ASSUME NEW s \in F, NEW l \in DOMAIN s PROVE ~Inside(s[l], c[k])
    <3>1. Disjoint(c[k], s[l])
      BY Zenon
    <3>2. Disjoint(s[l], c[k])
      BY <3>1 DEF Disjoint
    <3> QED BY <1>c, <1>f, <3>2, ApartIsNotInside, Zenon
  <2>2. ASSUME NEW l \in DOMAIN c PROVE ~Inside(c[l], c[k])
    <3>1. Disjoint(c[l], c[k]) \/ c[l] = c[k]
      BY OrderedDisjoint, Zenon
    <3> QED BY <1>c, <3>1, ApartIsNotInside, Zenon
  <2> QED BY <2>1, <2>2, Zenon DEF Fresh
<1> QED BY <1>1, <1>2, <1>3, <1>4, <1>5, Zenon

(* ... and what one in a box that was not opened yet does.                 *)
LEMMA Within ==
    ASSUME NEW F, \A r \in F : Proper(r), Nested(F), Innermost(F),
           NEW g \in F, NEW n \in DOMAIN g, Fresh(g[n], F),
           NEW c, Proper(c), Ordered(c),
           \A k \in DOMAIN c : c[k].parent = g[n].at /\ Inside(c[k], g[n])
    PROVE  /\ c \notin F
           /\ Nested(F \cup {c}) /\ Innermost(F \cup {c})
           /\ \A h \in F : \A m \in DOMAIN h :
                Fresh(h[m], F) /\ ~(h = g /\ m = n) => Fresh(h[m], F \cup {c})
           /\ \A k \in DOMAIN c : Fresh(c[k], F \cup {c})
<1> DEFINE b == g[n]
<1>b. b \in Record /\ b.at < b.lim
  BY ProperRecord, Zenon
<1>c. \A k \in DOMAIN c : c[k] \in Record /\ c[k].at < c[k].lim /\ Inside(c[k], b)
  BY ProperRecord, Zenon
<1>f. \A s \in F : \A l \in DOMAIN s : s[l] \in Record /\ s[l].at < s[l].lim /\ ~Inside(s[l], b)
  BY ProperRecord, Zenon DEF Fresh
<1>nb. \A s \in F : \A l \in DOMAIN s :
         Disjoint(b, s[l]) \/ Inside(b, s[l]) \/ (s = g /\ l = n)
  BY <1>f, Zenon DEF Nested
<1>1. c \notin F
  <2>1. 1 \in DOMAIN c
    BY DEF Proper, Region
  <2> QED BY <1>c, <1>f, <2>1, Zenon
<1>2. Nested(F \cup {c})
  <2>1. ASSUME NEW k \in DOMAIN c, NEW s \in F, NEW l \in DOMAIN s
        PROVE  Disjoint(c[k], s[l]) \/ Inside(c[k], s[l])
    <3>1. CASE Disjoint(b, s[l])
      BY <1>b, <1>c, <1>f, <3>1, InsideDisjoint, Zenon
    <3>2. CASE Inside(b, s[l])
      BY <1>b, <1>c, <1>f, <3>2, InsideTransitive, Zenon
    <3>3. CASE s = g /\ l = n
      BY <1>c, <3>3, Zenon
    <3> QED BY <1>nb, <3>1, <3>2, <3>3, Zenon
  <2> QED BY <2>1, NestedGrows, Zenon
<1>3. Innermost(F \cup {c})
  BY <1>1, <1>2, InnermostWithin, Zenon
<1>4. ASSUME NEW h \in F, NEW m \in DOMAIN h, Fresh(h[m], F), ~(h = g /\ m = n)
      PROVE  Fresh(h[m], F \cup {c})
  <2>1. ASSUME NEW l \in DOMAIN c PROVE ~Inside(c[l], h[m])
    <3>1. ~Inside(b, h[m])
      BY <1>4, Zenon DEF Fresh
    <3>2. Disjoint(b, h[m])
      BY <1>4, <1>nb, <3>1, Zenon
    <3>3. Disjoint(c[l], h[m])
      BY <1>b, <1>c, <1>f, <3>2, InsideDisjoint, Zenon
    <3> QED BY <1>c, <1>f, <3>3, ApartIsNotInside, Zenon
  <2> QED BY <1>4, <2>1, Zenon DEF Fresh
<1>5. ASSUME NEW k \in DOMAIN c
      PROVE  Fresh(c[k], F \cup {c})
  <2>1. ASSUME NEW s \in F, NEW l \in DOMAIN s PROVE ~Inside(s[l], c[k])
    <3> SUFFICES ASSUME Inside(s[l], c[k]) PROVE FALSE
      OBVIOUS
    <3>1. Inside(s[l], b)
      BY <1>b, <1>c, <1>f, InsideTransitive, Zenon
    <3> QED BY <1>f, <3>1, Zenon
  <2>2. ASSUME NEW l \in DOMAIN c PROVE ~Inside(c[l], c[k])
    <3>1. Disjoint(c[l], c[k]) \/ c[l] = c[k]
      BY OrderedDisjoint, Zenon
    <3> QED BY <1>c, <3>1, ApartIsNotInside, Zenon
  <2> QED BY <2>1, <2>2, Zenon DEF Fresh
<1> QED BY <1>1, <1>2, <1>3, <1>4, <1>5, Zenon
---------------------------------------------------------------------------
(* The running call has read, from the start of its slice, one record      *)
(* after the other, and stands behind the last.                            *)
Limit(r) == r.at + RecordSize(r.hdr)

RunOK ==
    LET r == call.records IN
      /\ r = << >> => call.cursor = call.base
      /\ r # << >> => r[1].at = call.base /\ call.cursor = Limit(r[Len(r)])
      /\ Ordered(r)
      /\ \A k \in DOMAIN r : /\ r[k].at >= call.base
                             /\ StartsRecord(r[k].at, call.end)
                             /\ r[k].hdr = HeaderAt(r[k].at)
                             /\ r[k].lim = Least(Limit(r[k]), call.end)
                             /\ r[k].parent = NoParent
                             /\ r[k].lim <= call.cursor
                             /\ k < Len(r) => r[k + 1].at = Limit(r[k])

(* What it is called for: a section, or the payload of a box.              *)
Source ==
    pc = "slice" =>
      /\ idx = 0 => /\ input.sections[next].tag = "crashlog"
                    /\ call.base = input.sections[next].base
                    /\ call.end = input.sections[next].end
      /\ idx > 0 => /\ HasPayload(region[idx])
                    /\ call.base = PayloadAt(region[idx])
                    /\ call.end = region[idx].lim

LEMMA NoCallRun ==
    ASSUME call' = NoCall
    PROVE  RunOK'
  BY DEF NoCall, RunOK, Ordered

LEMMA EnterRun ==
    ASSUME NEW base \in Nat, NEW end \in Nat, Enter(base, end)
    PROVE  RunOK'
<1>1. call'.records = << >> /\ call'.cursor = call'.base
  BY DEF Enter
<1> QED BY <1>1 DEF RunOK, Ordered

LEMMA SameRun ==
    ASSUME RunOK, UNCHANGED <<image, call>>
    PROVE  RunOK'
  BY DEF RunOK, Ordered, StartsRecord, DecodesAt, HeaderAt, At, Limit

LEMMA ReadRun ==
    ASSUME IInv, RunOK, ReadRecord
    PROVE  RunOK'
<1> DEFINE r == call.records
           n == Len(r)
           h == HeaderAt(call.cursor)
           x == [at |-> call.cursor, lim |-> Least(call.cursor + RecordSize(h), call.end),
                 hdr |-> h, parent |-> NoParent]
<1>1. /\ call.cursor \in Nat /\ call.end \in Nat /\ call.base \in Nat
      /\ r \in Region /\ n \in Nat /\ DOMAIN r = 1 .. n
      /\ \A k \in 1 .. n : r[k] \in Record
  BY DEF IInv, CallOK, Call, Region
<1>2. /\ call'.records = Append(r, x)
      /\ call'.cursor = call.cursor + RecordSize(h)
      /\ call'.base = call.base /\ call'.end = call.end
      /\ image' = image
      /\ StartsRecord(call.cursor, call.end) /\ RecordSize(h) > 0
  BY DEF ReadRecord, AtRecord, StartsRecord, IInv, CallOK, Call
<1>3. RecordSize(h) \in Nat
  <2>1. call'.cursor \in Nat
    BY ReadInv DEF Call
  <2>2. \A a : a \in Header => RecordSize(a) \in Nat
    BY HeaderFacts
  <2>3. call.cursor \in 0 .. image.len - 1
    BY <1>1, <1>2 DEF IInv, CallOK, StartsRecord, TypeOK, IsImage
  <2>4. At(call.cursor) \in Raw
    BY <2>3 DEF IInv, TypeOK, IsImage, At
  <2>5. h \in Header
    <3>1. call.end - call.cursor \in Int /\ Decodes(At(call.cursor), call.end - call.cursor)
      BY <1>1, <1>2 DEF StartsRecord, DecodesAt
    <3> QED BY <2>4, <3>1, DecodedHeader DEF HeaderAt
  <2> QED BY <2>2, <2>5
<1>4. DEFINE s == Append(r, x)
<1>5. /\ Len(s) = n + 1 /\ DOMAIN s = 1 .. n + 1 /\ s # << >>
      /\ s[n + 1] = x /\ \A k \in 1 .. n : s[k] = r[k]
  BY <1>1
<1>6. /\ x.at = call.cursor /\ x.hdr = h /\ x.parent = NoParent
      /\ x.lim = Least(Limit(x), call.end) /\ Limit(x) = call.cursor + RecordSize(h)
      /\ x.lim <= Limit(x) /\ x.lim \in Nat
  BY <1>1, <1>3 DEF Limit, Least
<1> HIDE DEF x, s, h
<1>7. \A k \in 1 .. n : /\ r[k].at >= call.base
                        /\ StartsRecord(r[k].at, call.end)
                        /\ r[k].hdr = HeaderAt(r[k].at)
                        /\ r[k].lim = Least(Limit(r[k]), call.end)
                        /\ r[k].parent = NoParent
                        /\ r[k].lim <= call.cursor
                        /\ k < n => r[k + 1].at = Limit(r[k])
  BY <1>1 DEF RunOK
<1>8. call.cursor >= call.base
  <2>1. CASE n = 0
    BY <1>1, <2>1 DEF RunOK
  <2>2. CASE n > 0
    <3>1. 1 \in 1 .. n /\ r[1].lim <= call.cursor /\ r[1].at >= call.base /\ r[1].at < r[1].lim
      BY <1>1, <1>7, <2>2 DEF IInv, CallOK, Adjacent
    <3>2. r[1].at \in Nat /\ r[1].lim \in Nat
      BY <1>1, <3>1 DEF Record
    <3> QED BY <1>1, <3>1, <3>2
  <2> QED BY <1>1, <2>1, <2>2
<1>9. \A k \in 1 .. n : r[k].lim \in Nat /\ r[k].at \in Nat
  BY <1>1 DEF Record
<1>10. s[1].at = call.base /\ call'.cursor = Limit(s[Len(s)])
  <2>1. CASE n = 0
    <3>1. call.cursor = call.base
      BY <1>1, <2>1 DEF RunOK
    <3> QED BY <1>2, <1>5, <1>6, <2>1, <3>1
  <2>2. CASE n > 0
    <3>1. r[1].at = call.base /\ 1 \in 1 .. n
      BY <1>1, <2>2 DEF RunOK
    <3> QED BY <1>1, <1>2, <1>5, <1>6, <3>1
  <2> QED BY <1>1, <2>1, <2>2
<1>11. Ordered(s)
  <2> SUFFICES ASSUME NEW k \in 1 .. n + 1, NEW l \in 1 .. n + 1, k < l
               PROVE  s[k].lim <= s[l].at
    BY <1>5 DEF Ordered
  <2>1. CASE l = n + 1
    <3>1. k \in 1 .. n
      BY <1>1, <2>1
    <3>2. s[k] = r[k] /\ s[l] = x
      BY <1>5, <2>1, <3>1
    <3>3. r[k].lim <= call.cursor
      BY <1>7, <3>1
    <3> QED BY <1>6, <3>2, <3>3
  <2>2. CASE l <= n
    <3>1. k \in 1 .. n /\ l \in 1 .. n /\ Ordered(r)
      BY <1>1, <2>2 DEF RunOK
    <3> QED BY <1>1, <1>5, <3>1 DEF Ordered
  <2> QED BY <1>1, <2>1, <2>2
<1>12. ASSUME NEW k \in 1 .. n + 1
       PROVE  /\ s[k].at >= call.base
              /\ StartsRecord(s[k].at, call.end)
              /\ s[k].hdr = HeaderAt(s[k].at)
              /\ s[k].lim = Least(Limit(s[k]), call.end)
              /\ s[k].parent = NoParent
              /\ s[k].lim <= call.cursor + RecordSize(h)
              /\ k < n + 1 => s[k + 1].at = Limit(s[k])
  <2>1. CASE k = n + 1
    BY <1>1, <1>2, <1>3, <1>5, <1>6, <1>8, <2>1 DEF h
  <2>2. CASE k \in 1 .. n
    <3>1. s[k + 1].at = Limit(s[k])
      <4>1. CASE k = n
        <5>1. call.cursor = Limit(r[n])
          BY <1>1, <4>1 DEF RunOK
        <5> QED BY <1>5, <1>6, <2>2, <4>1, <5>1
      <4>2. CASE k < n
        BY <1>1, <1>5, <1>7, <2>2, <4>2
      <4> QED BY <1>1, <2>2, <4>1, <4>2
    <3>2. s[k].lim <= call.cursor + RecordSize(h)
      BY <1>1, <1>3, <1>5, <1>7, <1>9, <2>2
    <3> QED BY <1>5, <1>7, <2>2, <3>1, <3>2
  <2> QED BY <1>1, <2>1, <2>2
<1>13. call'.records = s
  BY <1>2 DEF s, x, h
<1> QED
  <2>1. s # << >> /\ Len(s) = n + 1 /\ DOMAIN s = 1 .. n + 1
    BY <1>5
  <2>2. /\ call'.records = s /\ call'.base = call.base /\ call'.end = call.end
        /\ call'.cursor = call.cursor + RecordSize(h)
    BY <1>2, <1>13
  <2>3. \A k \in 1 .. n + 1 :
          /\ s[k].at < call.end
          /\ Decodes(image.at[s[k].at], call.end - s[k].at)
          /\ RecordSize(HeaderOf(image.at[s[k].at])) > 0
          /\ s[k].hdr = HeaderOf(image.at[s[k].at])
    BY <1>12 DEF StartsRecord, DecodesAt, HeaderAt, At
  <2>4. image' = image
    BY <1>2
  <2> QED BY <1>10, <1>11, <1>12, <2>1, <2>2, <2>3, <2>4
          DEF RunOK, Ordered, Limit, StartsRecord, DecodesAt, HeaderAt, At
---------------------------------------------------------------------------
(* The regions found lie in each other as boxes do. What waits, or is      *)
(* still to be scanned, was not opened; and no region is there twice.      *)
Unopened ==
    /\ \A i \in DOMAIN queue : \A k \in DOMAIN queue[i] : Fresh(queue[i][k], Found)
    /\ idx > 0 => \A k \in DOMAIN region : k >= idx => Fresh(region[k], Found)

Separate ==
    /\ \A i, j \in DOMAIN queue : queue[i] = queue[j] => i = j
    /\ \A i, j \in DOMAIN regions : regions[i] = regions[j] => i = j
    /\ \A i \in DOMAIN queue, j \in DOMAIN regions : queue[i] # regions[j]
    /\ idx > 0 => /\ \A i \in DOMAIN queue : queue[i] # region
                  /\ \A i \in DOMAIN regions : regions[i] # region

Placed ==
    /\ \A r \in Found : Ordered(r)
    /\ Nested(Found)
    /\ Innermost(Found)
    /\ Unopened
    /\ Separate

(* Until the work list is entered, what was found comes from the sections  *)
(* before next; from then on every section has been dealt with.            *)
Begun == pc = "load" \/ (pc = "slice" /\ idx = 0)

Loading ==
    /\ Begun =>
         /\ idx = 0 /\ regions = << >>
         /\ \A r \in Found : \A k \in DOMAIN r : \A j \in DOMAIN input.sections :
              j >= next => r[k].lim <= input.sections[j].base
    /\ next = 1 => Found = {}
    /\ ~Begun /\ pc # "failed" => next > Len(input.sections)
    /\ \A i \in DOMAIN input.sections : i < next /\ Usable(i) =>
         \E r \in Found : r[1].at = input.sections[i].base /\ r[1].parent = NoParent
    /\ pc = "failed" => Found = {} /\ \A i \in DOMAIN input.sections : ~Usable(i)
    /\ pc = "done" => queue = << >> /\ idx = 0 /\ regions # << >>
    /\ input.container = "cper" =>
         /\ {extra[k] : k \in DOMAIN extra} = {i \in 1 .. next - 1 : ~Usable(i)}
         /\ \A j, k \in DOMAIN extra : j < k => extra[j] < extra[k]

---------------------------------------------------------------------------
LEMMA FoundIsProper ==
    ASSUME IInv
    PROVE  \A r \in Found : Proper(r)
<1>1. \A r : RegionOK(r) => Proper(r)
  BY DEF RegionOK, Proper, Adjacent
<1>2. \A r \in Found : RegionOK(r)
  BY DEF IInv, Regions, Found
<1> QED BY <1>1, <1>2

LEMMA ReadIsProper ==
    ASSUME IInv, RunOK, ~Empty
    PROVE  Proper(call.records) /\ Ordered(call.records)
<1>1. call.records \in Region /\ call.records # << >> /\ Adjacent(call.records)
  BY DEF IInv, CallOK, Call, Empty
<1> QED BY <1>1 DEF Proper, Adjacent, RunOK

(* What set_child_context leaves alone. *)
LEMMA ChildFacts ==
    ASSUME NEW r \in Region, NEW b \in Record
    PROVE  /\ ChildOf(r, b) \in Region
           /\ Len(ChildOf(r, b)) = Len(r)
           /\ DOMAIN ChildOf(r, b) = DOMAIN r
           /\ r # << >> => ChildOf(r, b) # << >>
           /\ \A k \in DOMAIN r : /\ ChildOf(r, b)[k].at = r[k].at
                                  /\ ChildOf(r, b)[k].lim = r[k].lim
                                  /\ ChildOf(r, b)[k].hdr = r[k].hdr
                                  /\ ChildOf(r, b)[k].parent = b.at
<1> DEFINE c == ChildOf(r, b)
<1>1. Len(r) \in Nat /\ DOMAIN r = 1 .. Len(r) /\ \A k \in 1 .. Len(r) : r[k] \in Record
  BY DEF Region
<1>2. b.at \in Nat
  BY DEF Record
<1>3. \A k \in 1 .. Len(r) : [r[k] EXCEPT !.parent = b.at] \in Record
  BY <1>1, <1>2 DEF Record
<1>4. c \in [1 .. Len(r) -> Record]
  BY <1>3 DEF ChildOf
<1>5. c \in Seq(Record) /\ Len(c) = Len(r) /\ DOMAIN c = 1 .. Len(r)
  BY <1>1, <1>4
<1>6. \A k \in 1 .. Len(r) : c[k] = [r[k] EXCEPT !.parent = b.at]
  BY DEF ChildOf
<1>7. \A k \in 1 .. Len(r) : /\ c[k].at = r[k].at /\ c[k].lim = r[k].lim
                             /\ c[k].hdr = r[k].hdr /\ c[k].parent = b.at
  BY <1>1, <1>6 DEF Record
<1> HIDE DEF c
<1>8. r # << >> => c # << >>
  BY <1>1, <1>5
<1> QED BY <1>1, <1>5, <1>7, <1>8 DEF Region, c

(* The region in the box that is scanned. *)
LEMMA ChildIsWithin ==
    ASSUME IInv, RunOK, Source, pc = "slice", idx > 0, ~Empty,
           NEW c, c = ChildOf(call.records, region[idx])
    PROVE  /\ region \in Found /\ idx \in DOMAIN region /\ region[idx] \in Record
           /\ Proper(c) /\ Ordered(c)
           /\ \A k \in DOMAIN c : c[k].parent = region[idx].at /\ Inside(c[k], region[idx])
<1> DEFINE r == call.records
           b == region[idx]
<1>1. region \in Region /\ idx \in Nat /\ idx <= Len(region)
  BY DEF IInv, TypeOK, Control, Region
<1>2. region \in Found /\ idx \in DOMAIN region /\ b \in Record
  BY <1>1 DEF Found, Region
<1>3. Proper(r) /\ Ordered(r) /\ r \in Region
  BY ReadIsProper DEF Proper
<1>4. /\ c \in Region /\ c # << >> /\ DOMAIN c = DOMAIN r
      /\ \A k \in DOMAIN r : /\ c[k].at = r[k].at /\ c[k].lim = r[k].lim
                             /\ c[k].parent = b.at
  BY <1>2, <1>3, ChildFacts DEF Proper
<1>5. Proper(c) /\ Ordered(c)
  <2> HIDE DEF r, b
  <2>1. Proper(c)
    BY <1>3, <1>4 DEF Proper
  <2>2. Ordered(c)
    BY <1>3, <1>4 DEF Ordered
  <2> QED BY <2>1, <2>2
<1>6. ASSUME NEW k \in DOMAIN r
      PROVE  r[k].at >= PayloadAt(b) /\ r[k].lim <= b.lim
  <2>1. r[k].at >= call.base /\ r[k].lim = Least(Limit(r[k]), call.end)
    BY DEF RunOK
  <2>2. call.base = PayloadAt(b) /\ call.end = b.lim
    BY DEF Source
  <2>3. r[k] \in Record /\ b.lim \in Nat /\ r[k].lim \in Nat
    <3>1. r[k] \in Record
      BY <1>3, <1>6, ProperRecord, Zenon
    <3> HIDE DEF r, b
    <3> QED BY <1>2, <3>1 DEF Record
  <2>4. Limit(r[k]) \in Nat
    BY <2>3, HeaderFacts DEF Limit, Record
  <2> QED BY <2>1, <2>2, <2>3, <2>4 DEF Least
<1>7. HasPayload(b)
  BY DEF Source
<1>8. ASSUME NEW k \in DOMAIN c PROVE Inside(c[k], b)
  <2>1. /\ r[k].at >= PayloadAt(b) /\ r[k].lim <= b.lim
        /\ c[k].at = r[k].at /\ c[k].lim = r[k].lim /\ r[k] \in Record
    <3>1. k \in DOMAIN r
      BY <1>4, <1>8
    <3>2. r[k] \in Record
      BY <1>3, <3>1, ProperRecord
    <3> HIDE DEF r, b
    <3> QED BY <1>4, <1>6, <3>1, <3>2
  <2>2. r[k].at \in Nat /\ PayloadAt(b) \in Nat
    BY <1>2, <2>1, PayloadIsBehind DEF Record
  <2> QED BY <1>7, <2>1, <2>2 DEF Inside
<1> QED BY <1>2, <1>4, <1>5, <1>8

(* The region in a section lies behind all those of the sections before.   *)
LEMMA SectionIsBeside ==
    ASSUME IInv, RunOK, Source, Loading, pc = "slice", idx = 0, ~Empty,
           NEW c, c = call.records
    PROVE  /\ Proper(c) /\ Ordered(c)
           /\ \A k \in DOMAIN c : c[k].parent = NoParent
           /\ \A k \in DOMAIN c : \A s \in Found : \A l \in DOMAIN s : Disjoint(c[k], s[l])
<1>1. Proper(c) /\ Ordered(c)
  BY ReadIsProper
<1>2. \A k \in DOMAIN c : c[k].parent = NoParent /\ c[k].at >= input.sections[next].base
  BY DEF RunOK, Source
<1>3. ASSUME NEW k \in DOMAIN c, NEW s \in Found, NEW l \in DOMAIN s
      PROVE  Disjoint(c[k], s[l])
  <2>1. next \in DOMAIN input.sections /\ next >= next
    BY DEF IInv, Control, TypeOK, IsInput
  <2>2. s[l].lim <= input.sections[next].base
    <3>1. pc = "slice" /\ idx = 0 => \A j \in DOMAIN input.sections :
             j >= next => s[l].lim <= input.sections[j].base
      BY <1>3, Zenon DEF Loading, Begun
    <3> QED BY <2>1, <3>1
  <2>3. s[l] \in Record /\ c[k] \in Record
    BY <1>1, <1>3, FoundIsProper, ProperRecord, Zenon
  <2>4. input.sections[next].base \in Nat
    <3>1. input.sections \in Seq(Section)
      BY DEF IInv, TypeOK, IsInput
    <3>2. input.sections[next] \in Section
      BY <2>1, <3>1
    <3> QED BY <3>2 DEF Section
  <2>5. s[l].lim \in Nat /\ c[k].at \in Nat
    BY <2>3 DEF Record
  <2> QED BY <1>2, <1>3, <2>2, <2>4, <2>5 DEF Disjoint
<1> QED BY <1>1, <1>2, <1>3
---------------------------------------------------------------------------
(* How the regions found change: a step keeps them, moves one from the     *)
(* queue to the scan or from the scan to the result, or adds one.          *)
LEMMA PopKeeps ==
    ASSUME IInv, PopRegion
    PROVE  Found' = Found
<1>1. queue \in Seq(Region) /\ queue # << >> /\ idx = 0
  BY DEF IInv, TypeOK, Control, PopRegion
<1>2. region' = Head(queue) /\ queue' = Tail(queue) /\ regions' = regions /\ idx' = 1
  BY DEF PopRegion
<1>3. \A i \in DOMAIN Tail(queue) : i + 1 \in DOMAIN queue /\ Tail(queue)[i] = queue[i + 1]
  BY <1>1
<1>4. \A i \in DOMAIN queue : i = 1 \/ (i - 1 \in DOMAIN Tail(queue) /\ Tail(queue)[i - 1] = queue[i])
  BY <1>1
<1>5. 1 \in DOMAIN queue /\ Head(queue) = queue[1]
  BY <1>1
<1>6. {queue[i] : i \in DOMAIN queue}
        = {Tail(queue)[i] : i \in DOMAIN Tail(queue)} \cup {Head(queue)}
  <2>1. ASSUME NEW i \in DOMAIN Tail(queue)
        PROVE  Tail(queue)[i] \in {queue[j] : j \in DOMAIN queue}
    BY <1>3, <2>1
  <2>2. ASSUME NEW i \in DOMAIN queue
        PROVE  queue[i] \in {Tail(queue)[j] : j \in DOMAIN Tail(queue)} \cup {Head(queue)}
    <3>1. CASE i = 1
      BY <1>5, <3>1
    <3>2. CASE i - 1 \in DOMAIN Tail(queue) /\ Tail(queue)[i - 1] = queue[i]
      <4>1. Tail(queue)[i - 1] \in {Tail(queue)[j] : j \in DOMAIN Tail(queue)}
        BY <3>2, Zenon
      <4> QED BY <3>2, <4>1
    <3> QED BY <1>4, <2>2, <3>1, <3>2
  <2>3. Head(queue) \in {queue[j] : j \in DOMAIN queue}
    BY <1>5
  <2> QED BY <2>1, <2>2, <2>3, Zenon
<1>7. Found = {queue[i] : i \in DOMAIN queue} \cup {regions[i] : i \in DOMAIN regions}
  BY <1>1 DEF Found
<1>8. Found' = {Tail(queue)[i] : i \in DOMAIN Tail(queue)} \cup {regions[i] : i \in DOMAIN regions}
               \cup {Head(queue)}
  BY <1>2 DEF Found
<1> QED BY <1>6, <1>7, <1>8, Zenon

Elements(s) == {s[i] : i \in DOMAIN s}

LEMMA AppendElements ==
    ASSUME NEW S, NEW s \in Seq(S), NEW x \in S
    PROVE  Elements(Append(s, x)) = Elements(s) \cup {x}
<1> DEFINE t == Append(s, x)
<1>1. /\ Len(s) \in Nat /\ DOMAIN s = 1 .. Len(s) /\ DOMAIN t = 1 .. Len(s) + 1
      /\ t[Len(s) + 1] = x /\ \A i \in 1 .. Len(s) : t[i] = s[i]
  OBVIOUS
<1> HIDE DEF t
<1>2. ASSUME NEW i \in DOMAIN t PROVE t[i] \in {s[j] : j \in DOMAIN s} \cup {x}
  <2>1. i = Len(s) + 1 \/ (i \in DOMAIN s /\ t[i] = s[i])
    BY <1>1, <1>2
  <2> QED BY <1>1, <2>1, Zenon
<1>3. ASSUME NEW i \in DOMAIN s PROVE s[i] \in {t[j] : j \in DOMAIN t}
  <2>1. i \in DOMAIN t /\ t[i] = s[i]
    BY <1>1, <1>3
  <2> QED BY <2>1, Zenon
<1>4. x \in {t[j] : j \in DOMAIN t}
  <2>1. Len(s) + 1 \in DOMAIN t
    BY <1>1
  <2> QED BY <1>1, <2>1, Zenon
<1>5. {t[i] : i \in DOMAIN t} = {s[i] : i \in DOMAIN s} \cup {x}
  BY <1>2, <1>3, <1>4, Zenon
<1> QED BY <1>5 DEF t, Elements

LEMMA ConsElements ==
    ASSUME NEW S, NEW s \in Seq(S), NEW x \in S
    PROVE  Elements(<<x>> \o s) = Elements(s) \cup {x}
<1> DEFINE t == <<x>> \o s
<1>1. /\ Len(s) \in Nat /\ DOMAIN s = 1 .. Len(s) /\ DOMAIN t = 1 .. Len(s) + 1
      /\ t[1] = x /\ \A i \in 1 .. Len(s) : t[i + 1] = s[i]
  OBVIOUS
<1> HIDE DEF t
<1>2. ASSUME NEW i \in DOMAIN t PROVE t[i] \in {s[j] : j \in DOMAIN s} \cup {x}
  <2>1. i = 1 \/ (i - 1 \in DOMAIN s /\ t[i] = s[i - 1])
    <3>1. i = 1 \/ i - 1 \in 1 .. Len(s)
      BY <1>1, <1>2
    <3>2. i - 1 \in 1 .. Len(s) => t[(i - 1) + 1] = s[i - 1]
      BY <1>1
    <3>3. (i - 1) + 1 = i
      BY <1>1, <1>2
    <3> QED BY <1>1, <3>1, <3>2, <3>3
  <2> QED BY <1>1, <2>1, Zenon
<1>3. ASSUME NEW i \in DOMAIN s PROVE s[i] \in {t[j] : j \in DOMAIN t}
  <2>1. i + 1 \in DOMAIN t /\ t[i + 1] = s[i]
    BY <1>1, <1>3
  <2> QED BY <2>1, Zenon
<1>4. x \in {t[j] : j \in DOMAIN t}
  <2>1. 1 \in DOMAIN t
    BY <1>1
  <2> QED BY <1>1, <2>1, Zenon
<1>5. {t[i] : i \in DOMAIN t} = {s[i] : i \in DOMAIN s} \cup {x}
  BY <1>2, <1>3, <1>4, Zenon
<1> QED BY <1>5 DEF t, Elements

LEMMA EmitKeeps ==
    ASSUME IInv, EmitRegion
    PROVE  Found' = Found
<1>1. regions \in Seq(Region) /\ region \in Region /\ idx > 0
  BY DEF IInv, TypeOK, Control, EmitRegion
<1>2. regions' = Append(regions, region) /\ queue' = queue /\ idx' = 0
  BY DEF EmitRegion
<1>3. {regions'[i] : i \in DOMAIN regions'} = {regions[i] : i \in DOMAIN regions} \cup {region}
  BY <1>1, <1>2, AppendElements DEF Elements
<1>4. Found' = {queue[i] : i \in DOMAIN queue} \cup {regions'[i] : i \in DOMAIN regions'}
  BY <1>2 DEF Found
<1>5. Found = {queue[i] : i \in DOMAIN queue} \cup {regions[i] : i \in DOMAIN regions} \cup {region}
  BY <1>1 DEF Found
<1> QED BY <1>3, <1>4, <1>5, Zenon

LEMMA LoadAdds ==
    ASSUME IInv, LoadReturns, ~Empty
    PROVE  Found' = Found \cup {call.records} /\ queue' = Append(queue, call.records)
           /\ call.records \in Region
<1>1. queue \in Seq(Region) /\ call.records \in Region
  BY DEF IInv, TypeOK, CallOK, Call
<1>2. queue' = Append(queue, call.records) /\ UNCHANGED <<regions, region, idx>>
  BY DEF LoadReturns
<1>3. {queue'[i] : i \in DOMAIN queue'} = {queue[i] : i \in DOMAIN queue} \cup {call.records}
  BY <1>1, <1>2, AppendElements DEF Elements
<1> QED BY <1>1, <1>2, <1>3 DEF Found

LEMMA BoxAdds ==
    ASSUME IInv, BoxReturns, ~Empty,
           NEW c \in Region, c = ChildOf(call.records, region[idx])
    PROVE  Found' = Found \cup {c} /\ queue' = <<c>> \o queue
<1>1. queue \in Seq(Region) /\ idx \in Nat /\ idx > 0
  BY DEF IInv, TypeOK, BoxReturns, Region
<1>2. queue' = <<c>> \o queue /\ UNCHANGED <<regions, region>> /\ idx' = idx + 1
  BY DEF BoxReturns
<1>3. {queue'[i] : i \in DOMAIN queue'} = {queue[i] : i \in DOMAIN queue} \cup {c}
  <2>1. Elements(<<c>> \o queue) = Elements(queue) \cup {c}
    BY <1>1, ConsElements
  <2>2. Elements(queue') = Elements(queue) \cup {c}
    BY <1>2, <2>1, Zenon
  <2> QED BY <2>2 DEF Elements
<1>4. Found = {queue[i] : i \in DOMAIN queue} \cup {regions[i] : i \in DOMAIN regions} \cup {region}
  BY <1>1 DEF Found
<1>5. Found' = {queue'[i] : i \in DOMAIN queue'} \cup {regions[i] : i \in DOMAIN regions} \cup {region}
  BY <1>1, <1>2 DEF Found
<1> QED BY <1>2, <1>3, <1>4, <1>5, Zenon

LEMMA OthersKeep ==
    ASSUME IInv,
           \/ LoadSection \/ SkipSection \/ Loaded \/ ReadRecord \/ (LoadReturns /\ Empty)
           \/ SkipRecord \/ OpenBox \/ (BoxReturns /\ Empty) \/ Finish \/ UNCHANGED vars
    PROVE  Found' = Found /\ queue' = queue /\ regions' = regions /\ region' = region
<1>1. queue' = queue /\ regions' = regions /\ region' = region
  <2>1. CASE LoadReturns /\ Empty
    BY <2>1 DEF LoadReturns
  <2>2. CASE BoxReturns /\ Empty
    BY <2>2 DEF BoxReturns
  <2>3. CASE LoadSection \/ SkipSection \/ Loaded \/ ReadRecord \/ SkipRecord \/ OpenBox
             \/ Finish \/ UNCHANGED vars
    BY <2>3 DEF LoadSection, SkipSection, Loaded, ReadRecord, SkipRecord, OpenBox, Finish, vars
  <2> QED BY <2>1, <2>2, <2>3
<1>2. (idx > 0) <=> (idx' > 0)
  <2>1. idx \in Nat /\ (pc = "scan" => idx > 0)
    BY DEF IInv, TypeOK, Control, Region
  <2>2. idx' = idx \/ (idx > 0 /\ idx' = idx + 1)
    BY <2>1 DEF LoadSection, SkipSection, Loaded, ReadRecord, LoadReturns, SkipRecord,
           OpenBox, BoxReturns, Finish, vars
  <2> QED BY <2>1, <2>2
<1> QED BY <1>1, <1>2 DEF Found
---------------------------------------------------------------------------
LEMMA OthersPlaced ==
    ASSUME IInv, Placed,
           \/ LoadSection \/ SkipSection \/ Loaded \/ ReadRecord \/ (LoadReturns /\ Empty)
           \/ SkipRecord \/ OpenBox \/ (BoxReturns /\ Empty) \/ Finish \/ UNCHANGED vars
    PROVE  Placed'
<1>1. Found' = Found /\ queue' = queue /\ regions' = regions /\ region' = region
  BY OthersKeep
<1>2. idx \in Nat /\ (idx' = idx \/ (idx > 0 /\ idx' = idx + 1))
  <2>1. idx \in Nat /\ (pc = "scan" => idx > 0)
    BY DEF IInv, TypeOK, Control, Region
  <2>2. CASE LoadReturns /\ Empty
    BY <2>1, <2>2 DEF LoadReturns
  <2>3. CASE BoxReturns /\ Empty
    BY <2>1, <2>3 DEF BoxReturns
  <2>4. CASE SkipRecord
    BY <2>1, <2>4 DEF SkipRecord
  <2>5. CASE LoadSection \/ SkipSection \/ Loaded \/ ReadRecord \/ OpenBox \/ Finish \/ UNCHANGED vars
    BY <2>1, <2>5 DEF LoadSection, SkipSection, Loaded, ReadRecord, OpenBox, Finish, vars
  <2> QED BY <2>1, <2>2, <2>3, <2>4, <2>5
<1>3. Unopened'
  <2>1. \A i \in DOMAIN queue' : \A k \in DOMAIN queue'[i] : Fresh(queue'[i][k], Found')
    BY <1>1, Zenon DEF Placed, Unopened
  <2>2. ASSUME idx' > 0, NEW k \in DOMAIN region', k >= idx'
        PROVE  Fresh(region'[k], Found')
    <3>1. k \in Int /\ k \in DOMAIN region
      BY <1>1, <2>2 DEF IInv, TypeOK, Region
    <3>2. idx > 0 /\ k >= idx
      BY <1>2, <2>2, <3>1
    <3>3. Fresh(region[k], Found)
      BY <3>1, <3>2 DEF Placed, Unopened
    <3> QED BY <1>1, <3>3, Zenon
  <2> QED BY <2>1, <2>2 DEF Unopened
<1>4. Separate'
  <2>1. idx' > 0 => idx > 0
    BY <1>2
  <2> QED BY <1>1, <2>1, Zenon DEF Placed, Separate
<1> QED BY <1>1, <1>3, <1>4, Zenon DEF Placed

LEMMA PopPlaced ==
    ASSUME IInv, Placed, PopRegion
    PROVE  Placed'
<1>1. Found' = Found
  BY PopKeeps
<1>2. queue \in Seq(Region) /\ queue # << >> /\ Len(queue) \in Nat
  BY DEF IInv, TypeOK, PopRegion
<1>3. region' = Head(queue) /\ queue' = Tail(queue) /\ regions' = regions /\ idx' = 1
  BY DEF PopRegion
<1>4. /\ DOMAIN queue = 1 .. Len(queue) /\ 1 \in DOMAIN queue /\ region' = queue[1]
      /\ DOMAIN queue' = 1 .. Len(queue) - 1
      /\ \A i \in DOMAIN queue' : queue'[i] = queue[i + 1]
  BY <1>2, <1>3
<1>5. \A i \in DOMAIN queue' : i + 1 \in DOMAIN queue /\ i \in Int /\ i + 1 # 1
  BY <1>2, <1>4
<1>6. Unopened'
  <2>1. \A i \in DOMAIN queue : \A k \in DOMAIN queue[i] : Fresh(queue[i][k], Found)
    BY DEF Placed, Unopened
  <2>2. \A i \in DOMAIN queue' : \A k \in DOMAIN queue'[i] : Fresh(queue'[i][k], Found')
    BY <1>1, <1>4, <1>5, <2>1, Zenon
  <2>3. \A k \in DOMAIN region' : Fresh(region'[k], Found')
    BY <1>1, <1>4, <2>1, Zenon
  <2> QED BY <2>2, <2>3, Zenon DEF Unopened
<1>7. Separate'
  <2>1. \A i, j \in DOMAIN queue : queue[i] = queue[j] => i = j
    BY DEF Placed, Separate
  <2>2. ASSUME NEW i \in DOMAIN queue', NEW j \in DOMAIN queue', queue'[i] = queue'[j]
        PROVE  i = j
    <3>1. queue[i + 1] = queue[j + 1] /\ i + 1 \in DOMAIN queue /\ j + 1 \in DOMAIN queue
      BY <1>4, <1>5, <2>2
    <3>2. i + 1 = j + 1
      BY <2>1, <3>1
    <3> QED BY <1>5, <3>2
  <2>3. ASSUME NEW i \in DOMAIN queue', NEW j \in DOMAIN regions' PROVE queue'[i] # regions'[j]
    <3>1. i + 1 \in DOMAIN queue /\ queue'[i] = queue[i + 1] /\ j \in DOMAIN regions
      BY <1>3, <1>4, <1>5, Zenon
    <3>2. \A m \in DOMAIN queue, n \in DOMAIN regions : queue[m] # regions[n]
      BY DEF Placed, Separate
    <3> QED BY <1>3, <3>1, <3>2
  <2>4. \A i, j \in DOMAIN regions' : regions'[i] = regions'[j] => i = j
    BY <1>3, Zenon DEF Placed, Separate
  <2>5. \A i \in DOMAIN queue' : queue'[i] # region'
    BY <1>4, <1>5, <2>1, Zenon
  <2>6. \A i \in DOMAIN regions' : regions'[i] # region'
    <3>1. \A m \in DOMAIN queue, i \in DOMAIN regions : queue[m] # regions[i]
      BY DEF Placed, Separate
    <3>2. \A i \in DOMAIN regions : queue[1] # regions[i]
      BY <1>4, <3>1, Zenon
    <3> QED BY <1>3, <1>4, <3>2, ZenonT(30)
  <2> QED BY <2>2, <2>3, <2>4, <2>5, <2>6, Zenon DEF Separate
<1> QED BY <1>1, <1>6, <1>7, Zenon DEF Placed

LEMMA EmitPlaced ==
    ASSUME IInv, Placed, EmitRegion
    PROVE  Placed'
<1>1. Found' = Found
  BY EmitKeeps
<1>2. regions \in Seq(Region) /\ region \in Region /\ idx > 0 /\ Len(regions) \in Nat
  BY DEF IInv, TypeOK, Control, EmitRegion
<1>3. regions' = Append(regions, region) /\ queue' = queue /\ idx' = 0
  BY DEF EmitRegion
<1>4. \A i \in DOMAIN regions' :
        \/ i \in DOMAIN regions /\ regions'[i] = regions[i]
        \/ i = Len(regions) + 1 /\ regions'[i] = region
  BY <1>2, <1>3
<1>5. Unopened'
  BY <1>1, <1>3 DEF Placed, Unopened
<1>6. Separate'
  <2>1. \A i, j \in DOMAIN regions : regions[i] = regions[j] => i = j
    BY DEF Placed, Separate
  <2>2. \A i \in DOMAIN regions : regions[i] # region
    BY <1>2 DEF Placed, Separate
  <2>3. \A i, j \in DOMAIN regions' : regions'[i] = regions'[j] => i = j
    BY <1>4, <2>1, <2>2, Zenon
  <2>4. ASSUME NEW i \in DOMAIN queue', NEW j \in DOMAIN regions' PROVE queue'[i] # regions'[j]
    <3>1. \A m \in DOMAIN queue, n \in DOMAIN regions : queue[m] # regions[n]
      BY DEF Placed, Separate
    <3>2. \A m \in DOMAIN queue : queue[m] # region
      BY <1>2 DEF Placed, Separate
    <3> QED BY <1>3, <1>4, <3>1, <3>2, Zenon
  <2>5. \A i, j \in DOMAIN queue' : queue'[i] = queue'[j] => i = j
    BY <1>3, Zenon DEF Placed, Separate
  <2> QED BY <1>3, <2>3, <2>4, <2>5 DEF Separate
<1> QED BY <1>1, <1>5, <1>6, Zenon DEF Placed

LEMMA LoadPlaced ==
    ASSUME IInv, Placed, RunOK, Source, Loading, LoadReturns, ~Empty
    PROVE  Placed'
<1> DEFINE c == call.records
<1>1. /\ pc = "slice" /\ idx = 0 /\ idx' = 0 /\ regions' = regions /\ region' = region
  BY DEF LoadReturns, SliceEnds
<1>2. Found' = Found \cup {c} /\ queue' = Append(queue, c) /\ c \in Region
  BY LoadAdds
<1>3. /\ Proper(c) /\ Ordered(c)
      /\ \A k \in DOMAIN c : c[k].parent = NoParent
      /\ \A k \in DOMAIN c : \A s \in Found : \A l \in DOMAIN s : Disjoint(c[k], s[l])
  BY <1>1, SectionIsBeside
<1>4. queue \in Seq(Region) /\ Len(queue) \in Nat
  BY DEF IInv, TypeOK
<1>5. \A i \in DOMAIN queue' : \/ i \in DOMAIN queue /\ queue'[i] = queue[i]
                               \/ i = Len(queue) + 1 /\ queue'[i] = c
  BY <1>2, <1>4
<1> HIDE DEF c
<1>6. /\ c \notin Found
      /\ Nested(Found \cup {c}) /\ Innermost(Found \cup {c})
      /\ \A h \in Found : \A m \in DOMAIN h : Fresh(h[m], Found) => Fresh(h[m], Found \cup {c})
      /\ \A k \in DOMAIN c : Fresh(c[k], Found \cup {c})
  BY <1>3, FoundIsProper, Beside, Zenon DEF Placed
<1>7. \A i \in DOMAIN queue : queue[i] \in Found
  BY DEF Found
<1>8. \A i \in DOMAIN regions : regions[i] \in Found
  BY DEF Found
<1>9. Unopened'
  <2>1. \A i \in DOMAIN queue : \A k \in DOMAIN queue[i] : Fresh(queue[i][k], Found')
    BY <1>2, <1>6, <1>7, Zenon DEF Placed, Unopened
  <2>2. \A i \in DOMAIN queue' : \A k \in DOMAIN queue'[i] : Fresh(queue'[i][k], Found')
    BY <1>2, <1>5, <1>6, <2>1, Zenon
  <2> QED BY <1>1, <2>2 DEF Unopened
<1>10. Separate'
  <2>1. \A i \in DOMAIN queue : queue[i] # c
    BY <1>6, <1>7, Zenon
  <2>2. \A i \in DOMAIN regions : regions[i] # c
    BY <1>6, <1>8, Zenon
  <2>3. \A i, j \in DOMAIN queue' : queue'[i] = queue'[j] => i = j
    BY <1>5, <2>1, Zenon DEF Placed, Separate
  <2>4. \A i \in DOMAIN queue', j \in DOMAIN regions' : queue'[i] # regions'[j]
    BY <1>1, <1>5, <2>2, Zenon DEF Placed, Separate
  <2>5. \A i, j \in DOMAIN regions' : regions'[i] = regions'[j] => i = j
    BY <1>1, Zenon DEF Placed, Separate
  <2> QED BY <1>1, <2>3, <2>4, <2>5 DEF Separate
<1> QED BY <1>2, <1>3, <1>6, <1>9, <1>10, Zenon DEF Placed

LEMMA BoxPlaced ==
    ASSUME IInv, Placed, RunOK, Source, BoxReturns, ~Empty
    PROVE  Placed'
<1> DEFINE c == ChildOf(call.records, region[idx])
<1>1. /\ pc = "slice" /\ idx > 0 /\ idx' = idx + 1 /\ regions' = regions /\ region' = region
      /\ idx \in Nat
  BY DEF BoxReturns, SliceEnds, IInv, TypeOK, Region
<1>2. /\ region \in Found /\ idx \in DOMAIN region /\ region[idx] \in Record
      /\ Proper(c) /\ Ordered(c)
      /\ \A k \in DOMAIN c : c[k].parent = region[idx].at /\ Inside(c[k], region[idx])
  BY <1>1, ChildIsWithin
<1>3. c \in Region
  BY <1>2 DEF Proper
<1>4. Found' = Found \cup {c} /\ queue' = <<c>> \o queue
  BY <1>3, BoxAdds
<1>5. queue \in Seq(Region) /\ Len(queue) \in Nat
  BY DEF IInv, TypeOK
<1> HIDE DEF c
<1>6. \A i \in DOMAIN queue' : \/ i - 1 \in DOMAIN queue /\ queue'[i] = queue[i - 1] /\ i \in Int
                               \/ i = 1 /\ queue'[i] = c
  BY <1>3, <1>4, <1>5
<1>7. Fresh(region[idx], Found)
  BY <1>1, <1>2 DEF Placed, Unopened, IInv, TypeOK
<1>8. /\ c \notin Found
      /\ Nested(Found \cup {c}) /\ Innermost(Found \cup {c})
      /\ \A h \in Found : \A m \in DOMAIN h :
           Fresh(h[m], Found) /\ ~(h = region /\ m = idx) => Fresh(h[m], Found \cup {c})
      /\ \A k \in DOMAIN c : Fresh(c[k], Found \cup {c})
  BY <1>2, <1>7, FoundIsProper, Within, Zenon DEF Placed
<1>9. \A i \in DOMAIN queue : queue[i] \in Found /\ queue[i] # region
  BY <1>1, Zenon DEF Found, Placed, Separate
<1>10. \A i \in DOMAIN regions : regions[i] \in Found
  BY DEF Found
<1>11. Unopened'
  <2>1. \A i \in DOMAIN queue : \A k \in DOMAIN queue[i] : Fresh(queue[i][k], Found')
    BY <1>4, <1>8, <1>9, Zenon DEF Placed, Unopened
  <2>2. \A i \in DOMAIN queue' : \A k \in DOMAIN queue'[i] : Fresh(queue'[i][k], Found')
    BY <1>4, <1>6, <1>8, <2>1, Zenon
  <2>3. ASSUME NEW k \in DOMAIN region', k >= idx'
        PROVE  Fresh(region'[k], Found')
    <3>1. k \in DOMAIN region /\ k >= idx /\ k # idx
      BY <1>1, <2>3 DEF IInv, TypeOK, Region
    <3>2. Fresh(region[k], Found)
      BY <1>1, <3>1 DEF Placed, Unopened
    <3> QED BY <1>1, <1>2, <1>4, <1>8, <3>1, <3>2, Zenon
  <2> QED BY <2>2, <2>3, Zenon DEF Unopened
<1>12. Separate'
  <2>1. \A i \in DOMAIN queue : queue[i] # c
    BY <1>8, <1>9, Zenon
  <2>2. \A i \in DOMAIN regions : regions[i] # c /\ regions[i] # region
    BY <1>1, <1>8, <1>10, Zenon DEF Placed, Separate
  <2>3. region # c
    BY <1>2, <1>8, Zenon
  <2>4. ASSUME NEW i \in DOMAIN queue', NEW j \in DOMAIN queue', queue'[i] = queue'[j]
        PROVE  i = j
    <3>1. CASE i = 1 /\ queue'[i] = c
      BY <1>6, <2>1, <2>4, <3>1, Zenon
    <3>2. CASE i - 1 \in DOMAIN queue /\ queue'[i] = queue[i - 1] /\ i \in Int
      <4>1. j - 1 \in DOMAIN queue /\ queue'[j] = queue[j - 1] /\ j \in Int
        BY <1>6, <2>1, <2>4, <3>2, Zenon
      <4>2. i - 1 = j - 1
        BY <2>4, <3>2, <4>1, Zenon DEF Placed, Separate
      <4> QED BY <3>2, <4>1, <4>2
    <3> QED BY <1>6, <3>1, <3>2, Zenon
  <2>5. \A i \in DOMAIN queue', j \in DOMAIN regions' : queue'[i] # regions'[j]
    BY <1>1, <1>6, <2>2, Zenon DEF Placed, Separate
  <2>6. \A i, j \in DOMAIN regions' : regions'[i] = regions'[j] => i = j
    BY <1>1, Zenon DEF Placed, Separate
  <2>7. \A i \in DOMAIN queue' : queue'[i] # region'
    BY <1>1, <1>6, <1>9, <2>3, Zenon
  <2>8. \A i \in DOMAIN regions' : regions'[i] # region'
    BY <1>1, <2>2, Zenon
  <2> QED BY <2>4, <2>5, <2>6, <2>7, <2>8, Zenon DEF Separate
<1> QED BY <1>2, <1>4, <1>8, <1>11, <1>12, Zenon DEF Placed
---------------------------------------------------------------------------
LEMMA RunNext ==
    ASSUME IInv, RunOK, Source, [Next]_vars
    PROVE  RunOK' /\ Source'
<1>1. CASE LoadSection
  <2>1. next \in DOMAIN input.sections /\ input.sections \in Seq(Section) /\ idx = 0
    BY <1>1 DEF LoadSection, IInv, TypeOK, IsInput, Control
  <2>2. input.sections[next] \in Section
    BY <2>1
  <2>3. RunOK'
    <3>1. input.sections[next].base \in Nat /\ input.sections[next].end \in Nat
      BY <2>2 DEF Section
    <3> QED BY <1>1, <3>1, EnterRun DEF LoadSection
  <2>4. Source'
    BY <1>1, <2>1 DEF LoadSection, Enter, Source
  <2> QED BY <2>3, <2>4
<1>2. CASE OpenBox
  <2>1. idx \in DOMAIN region /\ idx > 0 /\ region[idx] \in Record
    BY <1>2 DEF OpenBox, IInv, TypeOK, Control, Region
  <2>2. RunOK'
    <3>1. PayloadAt(region[idx]) \in Nat /\ region[idx].lim \in Nat
      BY <2>1, PayloadIsBehind DEF Record
    <3> QED BY <1>2, <3>1, EnterRun DEF OpenBox
  <2>3. Source'
    <3>1. /\ call'.base = PayloadAt(region[idx]) /\ call'.end = region[idx].lim
          /\ idx' = idx /\ region' = region /\ HasPayload(region[idx])
      BY <1>2 DEF OpenBox, Enter
    <3>2. HasPayload(region'[idx'])
      BY <3>1
    <3> QED BY <2>1, <3>1, <3>2 DEF Source, PayloadAt, HasPayload
  <2> QED BY <2>2, <2>3
<1>3. CASE ReadRecord
  <2>1. /\ UNCHANGED <<pc, idx, region, input, next>>
        /\ call'.base = call.base /\ call'.end = call.end
    BY <1>3 DEF ReadRecord, IInv, CallOK, Call
  <2> QED BY <1>3, <2>1, ReadRun DEF Source, PayloadAt, HasPayload
<1>4. CASE LoadReturns \/ BoxReturns
  <2>1. call' = NoCall /\ pc' # "slice"
    BY <1>4 DEF LoadReturns, BoxReturns
  <2> QED BY <2>1, NoCallRun DEF Source
<1>5. CASE UNCHANGED vars
  <2>1. RunOK'
    BY <1>5, SameRun DEF vars
  <2> QED BY <1>5, <2>1 DEF vars, Source, PayloadAt, HasPayload
<1>6. CASE SkipSection \/ Loaded \/ PopRegion \/ SkipRecord \/ EmitRegion \/ Finish
  <2>1. UNCHANGED <<image, call>> /\ pc' # "slice"
    BY <1>6 DEF SkipSection, Loaded, PopRegion, SkipRecord, EmitRegion, Finish
  <2> QED BY <2>1, SameRun DEF Source
<1> QED BY <1>1, <1>2, <1>3, <1>4, <1>5, <1>6 DEF Next, Parse, Returned

LEMMA PlacedNext ==
    ASSUME IInv, RunOK, Source, Loading, Placed, [Next]_vars
    PROVE  Placed'
<1>1. CASE LoadReturns
  BY <1>1, LoadPlaced, OthersPlaced
<1>2. CASE BoxReturns
  BY <1>2, BoxPlaced, OthersPlaced
<1>3. CASE PopRegion
  BY <1>3, PopPlaced
<1>4. CASE EmitRegion
  BY <1>4, EmitPlaced
<1>5. CASE \/ LoadSection \/ SkipSection \/ Loaded \/ ReadRecord
           \/ SkipRecord \/ OpenBox \/ Finish \/ UNCHANGED vars
  BY <1>5, OthersPlaced
<1> QED BY <1>1, <1>2, <1>3, <1>4, <1>5 DEF Next, Parse, Returned
---------------------------------------------------------------------------
(* The sections are dealt with one after the other.                        *)
LEMMA SectionFacts ==
    ASSUME IInv
    PROVE  /\ input.sections \in Seq(Section) /\ Len(input.sections) \in Nat
           /\ DOMAIN input.sections = 1 .. Len(input.sections)
           /\ next \in Nat /\ next >= 1 /\ next <= Len(input.sections) + 1
           /\ \A i \in DOMAIN input.sections :
                /\ input.sections[i].base \in Nat /\ input.sections[i].end \in Nat
                /\ input.sections[i].base <= input.sections[i].end
           /\ \A i, j \in DOMAIN input.sections :
                i < j => input.sections[i].end <= input.sections[j].base
           /\ extra \in Seq(Nat) /\ Len(extra) \in Nat /\ DOMAIN extra = 1 .. Len(extra)
<1>1. /\ input.sections \in Seq(Section) /\ next \in 1 .. Len(input.sections) + 1
      /\ extra \in Seq(Nat)
  BY DEF IInv, TypeOK, IsInput
<1>2. \A i \in DOMAIN input.sections : input.sections[i] \in Section
  BY <1>1
<1>3. \A i \in DOMAIN input.sections :
        input.sections[i].base \in Nat /\ input.sections[i].end \in Nat
  BY <1>2 DEF Section
<1> QED BY <1>1, <1>3 DEF IInv, TypeOK, IsInput

LEMMA SameUsable ==
    ASSUME UNCHANGED <<image, input>>
    PROVE  \A i : Usable(i)' <=> Usable(i)
  BY DEF Usable, StartsRecord, DecodesAt, HeaderAt, At

(* A section whose call found nothing does not start with a record.        *)
LEMMA EmptyIsUnusable ==
    ASSUME IInv, RunOK, Source, SliceEnds, idx = 0
    PROVE  /\ Empty => ~Usable(next)
           /\ ~Empty => Usable(next)
<1>1. /\ input.sections[next].tag = "crashlog"
      /\ call.base = input.sections[next].base /\ call.end = input.sections[next].end
  BY DEF Source, SliceEnds
<1>2. ASSUME Empty PROVE ~Usable(next)
  <2>1. call.cursor = call.base /\ ~StartsRecord(call.cursor, call.end)
    BY <1>2 DEF RunOK, Empty, SliceEnds, AtRecord, StartsRecord
  <2> QED BY <1>1, <2>1 DEF Usable
<1>3. ASSUME ~Empty PROVE Usable(next)
  <2>1. 1 \in DOMAIN call.records
    BY <1>3 DEF IInv, CallOK, Call, Region, Empty
  <2>2. call.records[1].at = call.base /\ StartsRecord(call.records[1].at, call.end)
    BY <1>3, <2>1 DEF RunOK, Empty
  <2> QED BY <1>1, <2>2 DEF Usable
<1> QED BY <1>2, <1>3

(* The metadata grows by a section behind those it holds. *)
LEMMA ExtraGrows ==
    ASSUME IInv, Loading, input.container = "cper",
           next <= Len(input.sections), ~Usable(next),
           KeepExtra, next' = next + 1, UNCHANGED <<image, input>>
    PROVE  /\ {extra'[k] : k \in DOMAIN extra'} = {i \in 1 .. next' - 1 : ~Usable(i)}
           /\ \A j, k \in DOMAIN extra' : j < k => extra'[j] < extra'[k]
<1>1. extra' = Append(extra, next) /\ extra \in Seq(Nat) /\ next \in Nat /\ next >= 1
  BY SectionFacts DEF KeepExtra
<1>2. /\ {extra[k] : k \in DOMAIN extra} = {i \in 1 .. next - 1 : ~Usable(i)}
      /\ \A j, k \in DOMAIN extra : j < k => extra[j] < extra[k]
  BY DEF Loading
<1>3. {extra'[k] : k \in DOMAIN extra'} = {extra[k] : k \in DOMAIN extra} \cup {next}
  <2>1. Elements(Append(extra, next)) = Elements(extra) \cup {next}
    BY <1>1, AppendElements
  <2> QED BY <1>1, <2>1 DEF Elements
<1>4. \A k \in DOMAIN extra : extra[k] < next
  <2>1. \A k \in DOMAIN extra : extra[k] \in {i \in 1 .. next - 1 : ~Usable(i)}
    BY <1>2
  <2> QED BY <1>1, <2>1
<1>5. \A j, k \in DOMAIN extra' : j < k => extra'[j] < extra'[k]
  BY <1>1, <1>2, <1>4
<1>6. {i \in 1 .. next' - 1 : ~Usable(i)} = {i \in 1 .. next - 1 : ~Usable(i)} \cup {next}
  BY <1>1
<1> QED BY <1>2, <1>3, <1>5, <1>6

(* A section without a region. *)
LEMMA PassedLoading ==
    ASSUME IInv, Loading, Begun, next <= Len(input.sections), ~Usable(next),
           KeepExtra, next' = next + 1, pc' = "load", Found' = Found,
           UNCHANGED <<image, input, idx, regions>>
    PROVE  Loading'
<1>1. /\ next \in Nat /\ next >= 1 /\ DOMAIN input.sections = 1 .. Len(input.sections)
      /\ Len(input.sections) \in Nat
  BY SectionFacts
<1>2. \A i : Usable(i)' <=> Usable(i)
  BY SameUsable
<1>3. Begun' /\ next' # 1 /\ pc' # "failed" /\ pc' # "done"
  BY <1>1 DEF Begun
<1>4. idx' = 0 /\ regions' = << >>
  BY DEF Loading
<1>5. \A r \in Found : \A k \in DOMAIN r : \A j \in DOMAIN input.sections :
        j >= next' => r[k].lim <= input.sections[j].base
  <2>1. \A j \in DOMAIN input.sections : j >= next' => j >= next
    BY <1>1
  <2> QED BY <2>1, Zenon DEF Loading
<1>6. \A i \in DOMAIN input.sections : i < next' /\ Usable(i) =>
        \E r \in Found : r[1].at = input.sections[i].base /\ r[1].parent = NoParent
  <2>1. \A i \in DOMAIN input.sections : i < next' /\ Usable(i) => i < next
    BY <1>1
  <2> QED BY <2>1, Zenon DEF Loading
<1>7. input.container = "cper" =>
        /\ {extra'[k] : k \in DOMAIN extra'} = {i \in 1 .. next' - 1 : ~Usable(i)}
        /\ \A j, k \in DOMAIN extra' : j < k => extra'[j] < extra'[k]
  BY ExtraGrows
<1>8. {i \in 1 .. next' - 1 : ~Usable(i)} = {i \in 1 .. next' - 1 : ~Usable(i)'}
  BY <1>2
<1>9. \A i \in DOMAIN input'.sections : i < next' /\ Usable(i)' =>
        \E r \in Found' : r[1].at = input'.sections[i].base /\ r[1].parent = NoParent
  BY <1>2, <1>6
<1>10. \A r \in Found' : \A k \in DOMAIN r : \A j \in DOMAIN input'.sections :
         j >= next' => r[k].lim <= input'.sections[j].base
  BY <1>5
<1> QED BY <1>3, <1>4, <1>7, <1>8, <1>9, <1>10 DEF Loading

(* A section with one. *)
LEMMA FoundLoading ==
    ASSUME IInv, RunOK, Source, Loading, LoadReturns, ~Empty
    PROVE  Loading'
<1> DEFINE c == call.records
<1>1. /\ next \in Nat /\ next >= 1 /\ DOMAIN input.sections = 1 .. Len(input.sections)
      /\ Len(input.sections) \in Nat
      /\ \A i \in DOMAIN input.sections : input.sections[i].base \in Nat
                                          /\ input.sections[i].end \in Nat
      /\ \A i, j \in DOMAIN input.sections :
           i < j => input.sections[i].end <= input.sections[j].base
  BY SectionFacts
<1>2. /\ pc = "slice" /\ idx = 0 /\ next' = next + 1 /\ pc' = "load"
      /\ UNCHANGED <<image, input, idx, regions, extra>>
  BY DEF LoadReturns, SliceEnds
<1>3. \A i : Usable(i)' <=> Usable(i)
  BY <1>2, SameUsable
<1>4. Found' = Found \cup {c}
  BY LoadAdds
<1>5. Begun /\ Begun' /\ next' # 1 /\ next <= Len(input.sections)
  BY <1>1, <1>2 DEF Begun, IInv, Control
<1>6. idx' = 0 /\ regions' = << >>
  BY <1>2, <1>5 DEF Loading
<1>7. Usable(next)
  BY <1>2, EmptyIsUnusable DEF LoadReturns
<1>8. /\ call.base = input.sections[next].base /\ call.end = input.sections[next].end
      /\ next \in DOMAIN input.sections
  BY <1>1, <1>2, <1>5 DEF Source
<1>9. \A k \in DOMAIN c : /\ c[k].lim <= call.end /\ c[k].lim \in Nat
                          /\ c[k].parent = NoParent
  <2> SUFFICES ASSUME NEW k \in DOMAIN c
               PROVE  c[k].lim <= call.end /\ c[k].lim \in Nat /\ c[k].parent = NoParent
    OBVIOUS
  <2>1. c[k] \in Record
    BY ReadIsProper, ProperRecord, Zenon
  <2>2. c[k].lim = Least(Limit(c[k]), call.end) /\ c[k].parent = NoParent
    BY DEF RunOK
  <2>3. Limit(c[k]) \in Nat /\ call.end \in Nat
    BY <2>1, HeaderFacts DEF Limit, Record, IInv, CallOK, Call
  <2> QED BY <2>2, <2>3 DEF Least
<1>10. 1 \in DOMAIN c /\ c[1].at = call.base
  BY DEF RunOK, Empty, IInv, CallOK, Call, Region
<1> HIDE DEF c
<1>11. ASSUME NEW r \in Found', NEW k \in DOMAIN r, NEW j \in DOMAIN input.sections, j >= next'
       PROVE  r[k].lim <= input.sections[j].base
  <2>1. CASE r \in Found
    <3>1. j >= next
      BY <1>1, <1>2, <1>11
    <3> QED BY <1>5, <2>1, <3>1, <1>11, Zenon DEF Loading
  <2>2. CASE r = c
    <3>1. c[k].lim <= call.end /\ c[k].lim \in Nat
      BY <1>9, <2>2
    <3>2. call.end <= input.sections[j].base
      BY <1>1, <1>2, <1>8, <1>11
    <3>3. call.end \in Nat /\ input.sections[j].base \in Nat
      BY <1>1, <1>8
    <3> QED BY <2>2, <3>1, <3>2, <3>3
  <2> QED BY <1>4, <2>1, <2>2
<1>12. ASSUME NEW i \in DOMAIN input.sections, i < next', Usable(i)
       PROVE  \E r \in Found' : r[1].at = input.sections[i].base /\ r[1].parent = NoParent
  <2>1. CASE i < next
    <3>1. \E r \in Found : r[1].at = input.sections[i].base /\ r[1].parent = NoParent
      BY <1>12, <2>1, Zenon DEF Loading
    <3> QED BY <1>4, <3>1, Zenon
  <2>2. CASE i = next
    <3>1. c[1].at = input.sections[i].base /\ c[1].parent = NoParent
      BY <1>8, <1>9, <1>10, <2>2
    <3> QED BY <1>4, <3>1
  <2> QED BY <1>1, <1>2, <1>12, <2>1, <2>2
<1>13. {i \in 1 .. next' - 1 : ~Usable(i)'} = {i \in 1 .. next - 1 : ~Usable(i)}
  BY <1>1, <1>2, <1>3, <1>7
<1>14. input.container = "cper" =>
         /\ {extra[k] : k \in DOMAIN extra} = {i \in 1 .. next - 1 : ~Usable(i)}
         /\ \A j, k \in DOMAIN extra : j < k => extra[j] < extra[k]
  BY DEF Loading
<1>15. \A i \in DOMAIN input'.sections : i < next' /\ Usable(i)' =>
         \E r \in Found' : r[1].at = input'.sections[i].base /\ r[1].parent = NoParent
  BY <1>2, <1>3, <1>12
<1>16. \A r \in Found' : \A k \in DOMAIN r : \A j \in DOMAIN input'.sections :
         j >= next' => r[k].lim <= input'.sections[j].base
  BY <1>2, <1>11
<1> QED BY <1>2, <1>5, <1>6, <1>13, <1>14, <1>15, <1>16 DEF Loading
---------------------------------------------------------------------------
(* A step of the work list: no section is touched, no region gets lost.    *)
LEMMA ListLoading ==
    ASSUME IInv, Loading, Found \subseteq Found',
           UNCHANGED <<image, input, next, extra>>,
           ~Begun, ~Begun', pc # "failed", pc' # "failed",
           next = 1 => Found' = {},
           pc' = "done" => queue' = << >> /\ idx' = 0 /\ regions' # << >>
    PROVE  Loading'
<1>1. \A i : Usable(i)' <=> Usable(i)
  BY SameUsable
<1>2. {i \in 1 .. next - 1 : ~Usable(i)} = {i \in 1 .. next - 1 : ~Usable(i)'}
  BY <1>1
<1>3. \A i \in DOMAIN input'.sections : i < next' /\ Usable(i)' =>
        \E r \in Found' : r[1].at = input'.sections[i].base /\ r[1].parent = NoParent
  <2>1. \A i \in DOMAIN input.sections : i < next /\ Usable(i) =>
          \E r \in Found : r[1].at = input.sections[i].base /\ r[1].parent = NoParent
    BY DEF Loading
  <2> QED BY <1>1, <2>1
<1>4. next > Len(input.sections)
  BY DEF Loading
<1>5. input.container = "cper" =>
        /\ {extra[k] : k \in DOMAIN extra} = {i \in 1 .. next - 1 : ~Usable(i)}
        /\ \A j, k \in DOMAIN extra : j < k => extra[j] < extra[k]
  BY DEF Loading
<1> QED BY <1>2, <1>3, <1>4, <1>5 DEF Loading

(* A step within the loading, or none. *)
LEMMA SameLoading ==
    ASSUME IInv, Loading, Found' = Found,
           UNCHANGED <<image, input, next, extra, idx, regions, queue>>,
           (Begun /\ Begun') \/ pc' = pc
    PROVE  Loading'
<1>1. \A i : Usable(i)' <=> Usable(i)
  BY SameUsable
<1>2. {i \in 1 .. next - 1 : ~Usable(i)} = {i \in 1 .. next - 1 : ~Usable(i)'}
  BY <1>1
<1>3. \A i \in DOMAIN input'.sections : i < next' /\ Usable(i)' =>
        \E r \in Found' : r[1].at = input'.sections[i].base /\ r[1].parent = NoParent
  <2>1. \A i \in DOMAIN input.sections : i < next /\ Usable(i) =>
          \E r \in Found : r[1].at = input.sections[i].base /\ r[1].parent = NoParent
    BY DEF Loading
  <2> QED BY <1>1, <2>1
<1>4. Begun' => Begun
  BY DEF Begun
<1>5. Begun' =>
        /\ idx' = 0 /\ regions' = << >>
        /\ \A r \in Found' : \A k \in DOMAIN r : \A j \in DOMAIN input'.sections :
             j >= next' => r[k].lim <= input'.sections[j].base
  BY <1>4 DEF Loading
<1>6. /\ next' = 1 => Found' = {}
      /\ ~Begun' /\ pc' # "failed" => next' > Len(input'.sections)
      /\ pc' = "done" => queue' = << >> /\ idx' = 0 /\ regions' # << >>
  BY DEF Loading, Begun
<1>7. pc' = "failed" => Found' = {} /\ \A i \in DOMAIN input'.sections : ~Usable(i)'
  BY <1>1 DEF Loading, Begun
<1>8. input.container = "cper" =>
        /\ {extra[k] : k \in DOMAIN extra} = {i \in 1 .. next - 1 : ~Usable(i)}
        /\ \A j, k \in DOMAIN extra : j < k => extra[j] < extra[k]
  BY DEF Loading
<1> QED BY <1>2, <1>3, <1>5, <1>6, <1>7, <1>8 DEF Loading

(* The parse fails: nothing was found, and nothing is usable.              *)
LEMMA FailedLoading ==
    ASSUME IInv, Loading, Found = {}, Found' = {},
           UNCHANGED <<image, input, next, extra>>,
           \A i \in DOMAIN input.sections : ~Usable(i),
           pc' = "failed"
    PROVE  Loading'
<1>1. \A i : Usable(i)' <=> Usable(i)
  BY SameUsable
<1>2. {i \in 1 .. next - 1 : ~Usable(i)} = {i \in 1 .. next - 1 : ~Usable(i)'}
  BY <1>1
<1>3. ~Begun' /\ \A i \in DOMAIN input'.sections : ~Usable(i)'
  BY <1>1 DEF Begun
<1>4. input.container = "cper" =>
        /\ {extra[k] : k \in DOMAIN extra} = {i \in 1 .. next - 1 : ~Usable(i)}
        /\ \A j, k \in DOMAIN extra : j < k => extra[j] < extra[k]
  BY DEF Loading
<1> QED BY <1>2, <1>3, <1>4 DEF Loading

(* With every section dealt with, no region found means none usable.       *)
LEMMA NothingUsable ==
    ASSUME IInv, Loading, next > Len(input.sections), Found = {}
    PROVE  \A i \in DOMAIN input.sections : ~Usable(i)
<1>1. \A i \in DOMAIN input.sections : i < next
  BY SectionFacts
<1> QED BY <1>1 DEF Loading

LEMMA LoadingNext ==
    ASSUME IInv, RunOK, Source, Loading, [Next]_vars
    PROVE  Loading'
<1>f. queue = << >> /\ regions = << >> /\ idx = 0 => Found = {}
  BY DEF Found
<1>g. idx > 0 => Found # {} /\ next # 1
  BY DEF Found, Loading
<1>1. CASE LoadSection \/ ReadRecord
  <2>1. Found' = Found
    BY <1>1, OthersKeep
  <2>2. /\ UNCHANGED <<image, input, next, extra, idx, regions, queue>>
        /\ (Begun /\ Begun') \/ pc' = pc
    BY <1>1 DEF LoadSection, Enter, ReadRecord, Begun, IInv, Control
  <2> QED BY <2>1, <2>2, SameLoading
<1>2. CASE SkipSection
  <2>1. Found' = Found
    BY <1>2, OthersKeep
  <2>2. Begun /\ ~Usable(next)
    BY <1>2 DEF SkipSection, Begun, Usable
  <2> QED BY <1>2, <2>1, <2>2, PassedLoading DEF SkipSection
<1>3. CASE Loaded
  <2>1. Found' = Found /\ UNCHANGED <<image, input, next, extra, idx, regions, queue>>
    BY <1>3, OthersKeep DEF Loaded
  <2>2. Begun /\ idx = 0 /\ regions = << >> /\ next > Len(input.sections)
    BY <1>3 DEF Loaded, Begun, Loading
  <2>3. CASE pc' = "failed"
    <3>1. Found = {}
      BY <1>3, <2>2, <2>3, <1>f DEF Loaded
    <3> QED BY <2>1, <2>2, <2>3, <3>1, NothingUsable, FailedLoading
  <2>4. CASE pc' = "pop"
    <3>1. \A i : Usable(i)' <=> Usable(i)
      BY <2>1, SameUsable
    <3>2. {i \in 1 .. next - 1 : ~Usable(i)} = {i \in 1 .. next - 1 : ~Usable(i)'}
      BY <3>1
    <3>3. \A i \in DOMAIN input'.sections : i < next' /\ Usable(i)' =>
            \E r \in Found' : r[1].at = input'.sections[i].base /\ r[1].parent = NoParent
      <4>1. \A i \in DOMAIN input.sections : i < next /\ Usable(i) =>
              \E r \in Found : r[1].at = input.sections[i].base /\ r[1].parent = NoParent
        BY DEF Loading
      <4> QED BY <2>1, <3>1, <4>1
    <3>4. ~Begun' /\ pc' # "failed" /\ pc' # "done"
      BY <2>4 DEF Begun
    <3>5. input.container = "cper" =>
            /\ {extra[k] : k \in DOMAIN extra} = {i \in 1 .. next - 1 : ~Usable(i)}
            /\ \A j, k \in DOMAIN extra : j < k => extra[j] < extra[k]
      BY DEF Loading
    <3>6. next = 1 => Found = {}
      BY DEF Loading
    <3> QED BY <2>1, <2>2, <3>2, <3>3, <3>4, <3>5, <3>6 DEF Loading
  <2> QED BY <1>3, <2>3, <2>4 DEF Loaded
<1>4. CASE LoadReturns
  <2>1. CASE ~Empty
    BY <1>4, <2>1, FoundLoading
  <2>2. CASE Empty
    <3>1. Found' = Found
      BY <1>4, <2>2, OthersKeep
    <3>2. /\ Begun /\ SliceEnds /\ idx = 0 /\ UNCHANGED <<image, input, idx, regions>>
          /\ next <= Len(input.sections)
      BY <1>4 DEF LoadReturns, SliceEnds, Begun, IInv, Control
    <3>3. ~Usable(next)
      BY <2>2, <3>2, EmptyIsUnusable
    <3>4. CASE input.container = "raw" /\ pc' = "failed" /\ UNCHANGED <<next, extra>>
      <4>1. Len(input.sections) = 1
        <5>1. input.sections = <<[base |-> 0, end |-> image.len, tag |-> "crashlog"]>>
          BY <3>4 DEF IInv, TypeOK, IsInput
        <5>2. \A x : Len(<<x>>) = 1
          OBVIOUS
        <5> QED BY <5>1, <5>2, Zenon
      <4>2. next = 1 /\ DOMAIN input.sections = {1}
        BY <3>2, <4>1, SectionFacts
      <4>3. Found = {}
        BY <4>2 DEF Loading
      <4> QED BY <3>1, <3>2, <3>3, <3>4, <4>2, <4>3, FailedLoading
    <3>5. CASE KeepExtra /\ next' = next + 1 /\ pc' = "load"
      BY <3>1, <3>2, <3>3, <3>5, PassedLoading
    <3> QED BY <1>4, <2>2, <3>4, <3>5 DEF LoadReturns
  <2> QED BY <2>1, <2>2
<1>5. CASE PopRegion
  <2>1. Found' = Found
    BY <1>5, PopKeeps
  <2>2. UNCHANGED <<image, input, next, extra>> /\ pc = "pop" /\ pc' = "scan" /\ idx' = 1
    BY <1>5 DEF PopRegion
  <2>3. ~Begun /\ ~Begun'
    BY <2>2 DEF Begun
  <2>4. next = 1 => Found' = {}
    BY <2>1 DEF Loading
  <2> QED BY <2>1, <2>2, <2>3, <2>4, ListLoading
<1>6. CASE SkipRecord \/ OpenBox
  <2>1. Found' = Found
    BY <1>6, OthersKeep
  <2>2. /\ UNCHANGED <<image, input, next, extra>> /\ pc = "scan" /\ idx > 0
        /\ idx' > 0 /\ pc' \in {"scan", "slice"}
    BY <1>6 DEF SkipRecord, OpenBox, Enter, IInv, Control, TypeOK, Region
  <2>3. ~Begun /\ ~Begun'
    BY <2>2 DEF Begun
  <2> QED BY <2>1, <2>2, <2>3, <1>g, ListLoading
<1>7. CASE BoxReturns
  <2>1. Found \subseteq Found'
    <3>1. CASE Empty
      BY <1>7, <3>1, OthersKeep
    <3>2. CASE ~Empty
      <4>1. region[idx] \in Record /\ call.records \in Region
        <5>1. idx \in DOMAIN region /\ region \in Region
          BY <1>7 DEF BoxReturns, SliceEnds, IInv, TypeOK, Control, Region
        <5> QED BY <5>1 DEF Region, IInv, CallOK, Call
      <4>2. ChildOf(call.records, region[idx]) \in Region
        BY <4>1, ChildFacts
      <4> QED BY <1>7, <3>2, <4>2, BoxAdds
    <3> QED BY <3>1, <3>2
  <2>2. /\ UNCHANGED <<image, input, next, extra>> /\ pc = "slice" /\ pc' = "scan" /\ idx > 0
        /\ idx # 0
    BY <1>7 DEF BoxReturns, SliceEnds
  <2>3. ~Begun /\ ~Begun'
    BY <2>2 DEF Begun
  <2> QED BY <2>1, <2>2, <2>3, <1>g, ListLoading
<1>8. CASE EmitRegion
  <2>1. Found' = Found
    BY <1>8, EmitKeeps
  <2>2. UNCHANGED <<image, input, next, extra>> /\ pc = "scan" /\ pc' = "pop"
    BY <1>8 DEF EmitRegion
  <2>3. ~Begun /\ ~Begun'
    BY <2>2 DEF Begun
  <2>4. next = 1 => Found' = {}
    BY <2>1 DEF Loading
  <2> QED BY <2>1, <2>2, <2>3, <2>4, ListLoading
<1>9. CASE Finish
  <2>1. Found' = Found
    BY <1>9, OthersKeep
  <2>2. /\ UNCHANGED <<image, input, next, extra, queue, regions, idx>>
        /\ pc = "pop" /\ idx = 0 /\ queue = << >>
    BY <1>9 DEF Finish, IInv, Control
  <2>3. ~Begun /\ next > Len(input.sections)
    BY <2>2 DEF Begun, Loading
  <2>4. CASE pc' = "failed"
    <3>1. Found = {}
      BY <1>9, <2>2, <2>4, <1>f DEF Finish
    <3> QED BY <2>1, <2>2, <2>3, <2>4, <3>1, NothingUsable, FailedLoading
  <2>5. CASE pc' = "done" /\ regions # << >>
    <3>1. ~Begun'
      BY <2>5 DEF Begun
    <3>2. next = 1 => Found' = {}
      BY <2>1 DEF Loading
    <3> QED BY <2>1, <2>2, <2>3, <2>5, <3>1, <3>2, ListLoading
  <2> QED BY <1>9, <2>4, <2>5 DEF Finish
<1>10. CASE UNCHANGED vars
  <2>1. Found' = Found
    BY <1>10, OthersKeep
  <2> QED BY <1>10, <2>1, SameLoading DEF vars
<1> QED BY <1>1, <1>2, <1>3, <1>4, <1>5, <1>6, <1>7, <1>8, <1>9, <1>10
        DEF Next, Parse, Returned
---------------------------------------------------------------------------
JInv == IInv /\ RunOK /\ Source /\ Loading /\ Placed

LEMMA InitPlaced == Init => JInv
<1> SUFFICES ASSUME Init PROVE JInv
  OBVIOUS
<1>1. IInv
  BY InitInv
<1>2. /\ Found = {} /\ idx = 0 /\ queue = << >> /\ regions = << >> /\ pc = "load"
      /\ next = 1 /\ extra = << >> /\ call = NoCall
  BY DEF Init, Found
<1>3. RunOK /\ Source
  BY <1>2 DEF NoCall, RunOK, Ordered, Source
<1>4. Loading
  <2>1. {extra[k] : k \in DOMAIN extra} = {} /\ {i \in 1 .. next - 1 : ~Usable(i)} = {}
    BY <1>2
  <2>2. \A i \in DOMAIN input.sections : ~(i < next)
    BY <1>1, <1>2, SectionFacts
  <2> QED BY <1>2, <2>1, <2>2 DEF Loading, Begun
<1>5. Placed
  BY <1>2 DEF Placed, Nested, Innermost, Unopened, Separate
<1> QED BY <1>1, <1>3, <1>4, <1>5 DEF JInv

LEMMA NextPlaced == JInv /\ [Next]_vars => JInv'
  BY NextInv, RunNext, LoadingNext, PlacedNext DEF JInv

LEMMA Always == Spec => []JInv
  BY InitPlaced, NextPlaced, PTL DEF Spec

(* The regions found, one after the other, are pairwise different.         *)
LEMMA AllFoundApart ==
    ASSUME IInv, Separate
    PROVE  /\ \A i \in DOMAIN AllFound : AllFound[i] \in Found
           /\ \A i, j \in DOMAIN AllFound : AllFound[i] = AllFound[j] => i = j
<1> DEFINE t == IF idx > 0 THEN <<region>> ELSE << >>
           q == Len(queue)
           n == Len(regions)
<1>1. /\ queue \in Seq(Region) /\ regions \in Seq(Region) /\ region \in Region
      /\ q \in Nat /\ n \in Nat /\ DOMAIN queue = 1 .. q /\ DOMAIN regions = 1 .. n
  BY DEF IInv, TypeOK
<1>2. t \in Seq(Region) /\ Len(t) \in {0, 1} /\ (Len(t) = 1 => idx > 0 /\ t[1] = region)
  BY <1>1
<1>3. /\ DOMAIN AllFound = 1 .. q + n + Len(t)
      /\ \A i \in DOMAIN AllFound :
           \/ i \in 1 .. q /\ AllFound[i] = queue[i]
           \/ i - q \in 1 .. n /\ AllFound[i] = regions[i - q]
           \/ i = q + n + 1 /\ idx > 0 /\ AllFound[i] = region
  BY <1>1, <1>2 DEF AllFound
<1>4. /\ \A i \in DOMAIN queue : queue[i] \in Found
      /\ \A i \in DOMAIN regions : regions[i] \in Found
      /\ idx > 0 => region \in Found
  BY DEF Found
<1>5. /\ \A i, j \in DOMAIN queue : queue[i] = queue[j] => i = j
      /\ \A i, j \in DOMAIN regions : regions[i] = regions[j] => i = j
      /\ \A i \in DOMAIN queue, j \in DOMAIN regions : queue[i] # regions[j]
      /\ idx > 0 => /\ \A i \in DOMAIN queue : queue[i] # region
                    /\ \A i \in DOMAIN regions : regions[i] # region
  BY DEF Separate
<1> HIDE DEF t, q, n
<1>6. ASSUME NEW i \in DOMAIN AllFound, NEW j \in DOMAIN AllFound, AllFound[i] = AllFound[j]
      PROVE  i = j
  <2>1. CASE i \in 1 .. q /\ AllFound[i] = queue[i]
    BY <1>1, <1>3, <1>5, <1>6, <2>1, Zenon
  <2>2. CASE i - q \in 1 .. n /\ AllFound[i] = regions[i - q]
    <3>1. j - q \in 1 .. n /\ AllFound[j] = regions[j - q]
      BY <1>1, <1>3, <1>5, <1>6, <2>2, Zenon
    <3>2. i - q = j - q
      BY <1>1, <1>5, <1>6, <2>2, <3>1, Zenon
    <3> QED BY <1>1, <1>3, <1>2, <3>2
  <2>3. CASE i = q + n + 1 /\ idx > 0 /\ AllFound[i] = region
    BY <1>1, <1>3, <1>5, <1>6, <2>3, Zenon
  <2> QED BY <1>3, <2>1, <2>2, <2>3, Zenon
<1> QED BY <1>1, <1>3, <1>4, <1>6, Zenon

(* No byte of any file becomes the start of two records, however boxes are *)
(* nested and whatever order the work list takes (from_regions).           *)
THEOREM RecordsFoundOnce == Spec => []NoRecordTwice
<1>1. ASSUME JInv PROVE NoRecordTwice
  <2>1. IInv /\ Separate /\ Nested(Found)
    BY <1>1, Zenon DEF JInv, Placed
  <2> SUFFICES ASSUME NEW i \in DOMAIN AllFound, NEW j \in DOMAIN AllFound,
                      NEW k \in DOMAIN AllFound[i], NEW l \in DOMAIN AllFound[j],
                      AllFound[i][k].at = AllFound[j][l].at
               PROVE  i = j /\ k = l
    BY Zenon DEF NoRecordTwice
  <2>2. AllFound[i] \in Found /\ AllFound[j] \in Found
    BY <2>1, AllFoundApart, Zenon
  <2>3. \A r \in Found : Proper(r)
    BY <2>1, FoundIsProper, Zenon
  <2>4. /\ AllFound[i][k] \in Record /\ AllFound[i][k].at < AllFound[i][k].lim
        /\ AllFound[j][l] \in Record /\ AllFound[j][l].at < AllFound[j][l].lim
    BY <2>2, <2>3, ProperRecord, Zenon
  <2>5. AllFound[i] = AllFound[j] /\ k = l
    BY <2>1, <2>2, <2>4, SameStart, ZenonT(60) DEF Nested
  <2>6. i = j
    BY <2>1, <2>5, AllFoundApart, ZenonT(30)
  <2> QED BY <2>5, <2>6
<1> QED BY <1>1, Always, PTL

(* A record's parent context is the header of the innermost box around it, *)
(* for every nesting of boxes in every file (set_child_context).           *)
THEOREM ParentsAreInnermost == Spec => []ParentIsInnermost
<1>1. ASSUME JInv PROVE ParentIsInnermost
  <2>1. Innermost(Found)
    BY <1>1, Zenon DEF JInv, Placed
  <2>2. \A x : x \in Records <=> \E s \in Found : \E l \in DOMAIN s : x = s[l]
    BY DEF Records
  <2> SUFFICES ASSUME NEW r \in Records
               PROVE  /\ r.parent = NoParent => Holders(r) = {}
                      /\ r.parent # NoParent =>
                           r.parent \in Holders(r) /\ \A p \in Holders(r) : p <= r.parent
    BY Zenon DEF ParentIsInnermost
  <2>g. PICK g \in Found : \E l \in DOMAIN g : r = g[l]
    BY <2>2, Zenon
  <2>3. PICK k \in DOMAIN g : r = g[k]
    BY <2>g, Zenon
  <2>4. \A p : p \in Holders(r) <=> \E s \in Found : \E l \in DOMAIN s :
                                      Holds(s[l], r) /\ p = s[l].at
    BY <2>2 DEF Holders
  <2>5. CASE r.parent = NoParent
    <3>1. \A s \in Found : \A l \in DOMAIN s : ~Holds(s[l], r)
      BY <2>1, <2>3, <2>5, Zenon DEF Innermost
    <3> QED BY <2>4, <2>5, <3>1, Zenon
  <2>6. CASE r.parent # NoParent
    <3>1. \E s \in Found : \E l \in DOMAIN s : s[l].at = r.parent /\ Holds(s[l], r)
      BY <2>1, <2>3, <2>6, Zenon DEF Innermost
    <3>2. \A s \in Found : \A l \in DOMAIN s : Holds(s[l], r) => s[l].at <= r.parent
      BY <2>1, <2>3, <2>6, Zenon DEF Innermost
    <3>3. r.parent \in Holders(r)
      BY <2>4, <3>1
    <3>4. ASSUME NEW p \in Holders(r) PROVE p <= r.parent
      <4>1. PICK s \in Found : \E l \in DOMAIN s : Holds(s[l], r) /\ p = s[l].at
        BY <2>4, Zenon
      <4> QED BY <3>2, <4>1
    <3> QED BY <2>6, <3>3, <3>4
  <2> QED BY <2>5, <2>6
<1> QED BY <1>1, Always, PTL

(* Of any container a failed parse had no usable section; a parse that     *)
(* succeeds has the region of every usable section and, for CPER, keeps    *)
(* every other section in its order (from_berr, from_cper).                *)
THEOREM SectionsAreAccounted == Spec => []SectionsAccounted
<1>1. ASSUME JInv PROVE SectionsAccounted
  <2>1. pc = "failed" => \A i \in DOMAIN input.sections : ~Usable(i)
    BY <1>1 DEF JInv, Loading
  <2>2. ASSUME pc = "done"
        PROVE  /\ \A i \in DOMAIN input.sections : Usable(i) =>
                    \E k \in DOMAIN regions : /\ regions[k][1].at = input.sections[i].base
                                              /\ regions[k][1].parent = NoParent
               /\ input.container = "cper" =>
                    /\ {extra[k] : k \in DOMAIN extra}
                         = {i \in DOMAIN input.sections : ~Usable(i)}
                    /\ \A j, k \in DOMAIN extra : j < k => extra[j] < extra[k]
    <3>1. queue = << >> /\ idx = 0 /\ next > Len(input.sections)
      BY <1>1, <2>2 DEF JInv, Loading, Begun
    <3>2. next = Len(input.sections) + 1 /\ DOMAIN input.sections = 1 .. next - 1
          /\ \A i \in DOMAIN input.sections : i < next
      BY <1>1, <3>1, SectionFacts DEF JInv
    <3>3. \A r : r \in Found <=> \E k \in DOMAIN regions : r = regions[k]
      BY <3>1 DEF Found
    <3>4. \A i \in DOMAIN input.sections : i < next /\ Usable(i) =>
            \E r \in Found : r[1].at = input.sections[i].base /\ r[1].parent = NoParent
      BY <1>1 DEF JInv, Loading
    <3>5. input.container = "cper" =>
            /\ {extra[k] : k \in DOMAIN extra} = {i \in 1 .. next - 1 : ~Usable(i)}
            /\ \A j, k \in DOMAIN extra : j < k => extra[j] < extra[k]
      BY <1>1 DEF JInv, Loading
    <3>6. ASSUME NEW i \in DOMAIN input.sections, Usable(i)
          PROVE  \E k \in DOMAIN regions : /\ regions[k][1].at = input.sections[i].base
                                           /\ regions[k][1].parent = NoParent
      <4>1. PICK r \in Found : r[1].at = input.sections[i].base /\ r[1].parent = NoParent
        BY <3>2, <3>4, <3>6
      <4>2. PICK k \in DOMAIN regions : r = regions[k]
        BY <3>3, <4>1, Zenon
      <4> QED BY <4>1, <4>2
    <3> QED BY <3>2, <3>5, <3>6
  <2> QED BY <2>1, <2>2 DEF SectionsAccounted
<1> QED BY <1>1, Always, PTL
---------------------------------------------------------------------------
(* The refinement. A record starts where the abstract specification says,  *)
(* and a call that has ended holds the longest run of records of its slice.*)
LEMMA HeadersAgree ==
    /\ \A h : Abstract!RecordSize(h) = RecordSize(h)
    /\ \A h \in Header : Abstract!HeaderSize(h) = HeaderSize(h)
    /\ \A h : Abstract!IsBox(h) <=> IsBox(h)
    /\ \A raw : Abstract!HeaderOf(raw) = HeaderOf(raw)
    /\ \A raw, left : Abstract!Decodes(raw, left) <=> Decodes(raw, left)
<1>1. \A v : Abstract!Type0LegacyServer(v) <=> Type0LegacyServer(v)
  BY DEF Abstract!Type0LegacyServer, Type0LegacyServer,
         Abstract!LegacyServerProducts, LegacyServerProducts
<1>2. \A v : Abstract!CoreRecordSizeBytes(v) <=> CoreRecordSizeBytes(v)
  BY <1>1 DEF Abstract!CoreRecordSizeBytes, CoreRecordSizeBytes,
         Abstract!ECORE, Abstract!PCORE, Abstract!CGC, ECORE, PCORE, CGC
<1>3. \A h : Abstract!Granularity(h) = Granularity(h)
  BY <1>2 DEF Abstract!Granularity, Granularity
<1>4. \A h : Abstract!RecordSize(h) = RecordSize(h)
  BY <1>3 DEF Abstract!RecordSize, RecordSize
<1>5. ASSUME NEW h \in Header PROVE Abstract!HeaderSize(h) = HeaderSize(h)
  <2>1. h.version.header_type \in 0 .. 6
    BY DEF Header, Version, KnownTypes
  <2> QED BY <1>1, <2>1 DEF Abstract!HeaderSize, HeaderSize
<1>6. \A h : Abstract!IsBox(h) <=> IsBox(h)
  BY <1>1 DEF Abstract!IsBox, IsBox, Abstract!LegacyServerBox, LegacyServerBox,
         Abstract!BOX, BOX, Abstract!PCORE, PCORE
<1>7. \A raw : Abstract!HeaderOf(raw) = HeaderOf(raw)
  BY <1>1 DEF Abstract!HeaderOf, HeaderOf
<1>8. \A v : Abstract!SizeBytes(v) = SizeBytes(v)
  BY <1>1 DEF Abstract!SizeBytes, SizeBytes
<1>9. ASSUME NEW raw, raw.version.header_type \in KnownTypes
      PROVE  Abstract!TypeBytes(raw) = TypeBytes(raw)
  <2>1. raw.version.header_type \in 0 .. 6
    BY <1>9 DEF KnownTypes
  <2> QED BY <1>1, <2>1 DEF Abstract!TypeBytes, TypeBytes
<1>10. \A raw, left : Abstract!Decodes(raw, left) <=> Decodes(raw, left)
  BY <1>8, <1>9 DEF Abstract!Decodes, Decodes, Abstract!IsMarker, IsMarker,
         Abstract!VersionBytes, VersionBytes, Abstract!KnownTypes, KnownTypes
<1> QED BY <1>4, <1>5, <1>6, <1>7, <1>10

LEMMA StartsAgree ==
    ASSUME NEW o, NEW end
    PROVE  Abstract!Starts(o, end) <=> StartsRecord(o, end)
<1>1. Abstract!Decodes(image.at[o], end - o) <=> Decodes(image.at[o], end - o)
  BY HeadersAgree, Zenon
<1>2. Abstract!RecordSize(Abstract!HeaderOf(image.at[o])) = RecordSize(HeaderOf(image.at[o]))
  BY HeadersAgree
<1> QED BY <1>1, <1>2, Zenon DEF Abstract!Starts, StartsRecord, DecodesAt, HeaderAt, At

LEMMA EndedStarts ==
    ASSUME RunOK, SliceEnds, IInv
    PROVE  StartsRecord(call.base, call.end) <=> ~Empty
<1>1. ASSUME Empty PROVE ~StartsRecord(call.base, call.end)
  BY <1>1 DEF RunOK, Empty, SliceEnds, AtRecord, StartsRecord
<1>2. ASSUME ~Empty PROVE StartsRecord(call.base, call.end)
  <2>1. 1 \in DOMAIN call.records
    BY <1>2 DEF IInv, CallOK, Call, Region, Empty
  <2> QED BY <1>2, <2>1 DEF RunOK, Empty
<1> QED BY <1>1, <1>2

LEMMA EndedRegion ==
    ASSUME IInv, RunOK, SliceEnds, ~Empty,
           NEW c \in Region, NEW p, Len(c) = Len(call.records),
           \A k \in DOMAIN call.records : /\ c[k].at = call.records[k].at
                                          /\ c[k].lim = call.records[k].lim
                                          /\ c[k].hdr = call.records[k].hdr
                                          /\ c[k].parent = p
    PROVE  Abstract!RegionOf(c, call.base, call.end, p)
<1> DEFINE r == call.records
           n == Len(r)
<1>1. /\ r \in Region /\ n \in Nat /\ n > 0 /\ DOMAIN r = 1 .. n /\ DOMAIN c = 1 .. n
      /\ c # << >> /\ Len(c) = n /\ call.end \in Nat
  BY DEF IInv, CallOK, Call, Region, Empty
<1>2. \A k \in 1 .. n : /\ StartsRecord(r[k].at, call.end)
                        /\ r[k].hdr = HeaderAt(r[k].at)
                        /\ r[k].lim = Least(Limit(r[k]), call.end)
                        /\ k < n => r[k + 1].at = Limit(r[k])
  BY <1>1 DEF RunOK
<1>3. r[1].at = call.base /\ ~StartsRecord(Limit(r[n]), call.end)
  BY <1>1 DEF RunOK, Empty, SliceEnds, AtRecord, StartsRecord
<1>4. \A k \in 1 .. n : Limit(r[k]) \in Nat
  <2> SUFFICES ASSUME NEW k \in 1 .. n PROVE Limit(r[k]) \in Nat
    OBVIOUS
  <2>1. r[k] \in Record
    BY <1>1 DEF Region
  <2> QED BY <2>1, HeaderFacts DEF Limit, Record
<1>5. \A k \in 1 .. n : /\ c[k].at = r[k].at /\ c[k].lim = r[k].lim
                        /\ c[k].hdr = r[k].hdr /\ c[k].parent = p
                        /\ Limit(c[k]) = Limit(r[k])
  BY <1>1 DEF Limit
<1> HIDE DEF r, n
<1>6. \A k : Abstract!Limit(c[k]) = Limit(c[k])
  BY HeadersAgree DEF Abstract!Limit, Limit
<1>7. ASSUME NEW k \in DOMAIN c
      PROVE  /\ Abstract!Starts(c[k].at, call.end)
             /\ c[k].hdr = Abstract!HeaderOf(image.at[c[k].at])
             /\ c[k].lim = IF Abstract!Limit(c[k]) < call.end
                           THEN Abstract!Limit(c[k]) ELSE call.end
             /\ c[k].parent = p
             /\ k < Len(c) => c[k + 1].at = Abstract!Limit(c[k])
  <2>1. k \in 1 .. n
    BY <1>1
  <2>2. Abstract!Starts(c[k].at, call.end)
    BY <1>2, <1>5, <2>1, StartsAgree
  <2>3. c[k].hdr = Abstract!HeaderOf(image.at[c[k].at])
    BY <1>2, <1>5, <2>1, HeadersAgree DEF HeaderAt, At
  <2>4. c[k].lim = IF Limit(c[k]) < call.end THEN Limit(c[k]) ELSE call.end
    BY <1>1, <1>2, <1>4, <1>5, <2>1 DEF Least
  <2>5. k < Len(c) => c[k + 1].at = Limit(c[k])
    <3>1. k < n => k + 1 \in 1 .. n
      BY <1>1, <2>1
    <3> QED BY <1>1, <1>2, <1>5, <2>1, <3>1
  <2> QED BY <1>5, <1>6, <2>1, <2>2, <2>3, <2>4, <2>5
<1>8. c[1].at = call.base /\ ~Abstract!Starts(Abstract!Limit(c[Len(c)]), call.end)
  <2>1. 1 \in 1 .. n /\ n \in 1 .. n
    BY <1>1
  <2>2. Limit(c[Len(c)]) = Limit(r[n])
    BY <1>1, <1>5, <2>1
  <2> QED BY <1>3, <1>5, <1>6, <2>1, <2>2, StartsAgree
<1> QED BY <1>1, <1>7, <1>8 DEF Abstract!RegionOf

---------------------------------------------------------------------------
(* The boxes that were opened are those the scan has passed.               *)
Opened == {b.at : b \in {r \in Passed : HasPayload(r)}}

PassedBy(seq, last, n) ==
    UNION ({{r[k] : k \in DOMAIN r} : r \in {seq[i] : i \in DOMAIN seq}}
           \cup {{last[k] : k \in 1 .. n - 1}})

LEMMA PassedOf ==
    ASSUME NEW seq, NEW last, NEW n, NEW x
    PROVE  x \in PassedBy(seq, last, n)
             <=> \/ \E i \in DOMAIN seq : \E k \in DOMAIN seq[i] : x = seq[i][k]
                 \/ \E k \in 1 .. n - 1 : x = last[k]
<1> DEFINE Q == {last[k] : k \in 1 .. n - 1}
           E == {seq[i] : i \in DOMAIN seq}
           P == {{r[k] : k \in DOMAIN r} : r \in E}
<1>2. x \in Q <=> \E k \in 1 .. n - 1 : x = last[k]
  OBVIOUS
<1>3. \A r : r \in E <=> \E i \in DOMAIN seq : r = seq[i]
  OBVIOUS
<1> HIDE DEF E, Q
<1>4. \A S : S \in P <=> \E r \in E : S = {r[k] : k \in DOMAIN r}
  OBVIOUS
<1>5. \A r : x \in {r[k] : k \in DOMAIN r} <=> \E k \in DOMAIN r : x = r[k]
  OBVIOUS
<1> HIDE DEF P
<1>6. x \in UNION (P \cup {Q}) <=> (x \in Q \/ \E S \in P : x \in S)
  OBVIOUS
<1>7. (\E S \in P : x \in S) <=> \E r \in E : \E k \in DOMAIN r : x = r[k]
  <2>1. ASSUME NEW S \in P, x \in S PROVE \E r \in E : \E k \in DOMAIN r : x = r[k]
    <3>1. PICK r \in E : S = {r[k] : k \in DOMAIN r}
      BY <1>4, <2>1, Zenon
    <3>2. x \in {r[k] : k \in DOMAIN r}
      BY <2>1, <3>1
    <3>3. \E k \in DOMAIN r : x = r[k]
      BY <1>5, <3>2, Zenon
    <3> QED BY <3>3, Zenon
  <2>2. ASSUME NEW r \in E, NEW k \in DOMAIN r, x = r[k] PROVE \E S \in P : x \in S
    <3>1. {r[l] : l \in DOMAIN r} \in P
      BY <1>4, Zenon
    <3>2. x \in {r[l] : l \in DOMAIN r}
      BY <2>2
    <3> QED BY <3>1, <3>2, Zenon
  <2> QED BY <2>1, <2>2, Zenon
<1>8. (\E r \in E : \E k \in DOMAIN r : x = r[k])
        <=> \E i \in DOMAIN seq : \E k \in DOMAIN seq[i] : x = seq[i][k]
  <2>1. ASSUME NEW r \in E, \E k \in DOMAIN r : x = r[k]
        PROVE  \E i \in DOMAIN seq : \E k \in DOMAIN seq[i] : x = seq[i][k]
    <3>1. PICK i \in DOMAIN seq : r = seq[i]
      BY <1>3, Zenon
    <3> QED BY <2>1, <3>1
  <2>2. ASSUME NEW i \in DOMAIN seq, \E k \in DOMAIN seq[i] : x = seq[i][k]
        PROVE  \E r \in E : \E k \in DOMAIN r : x = r[k]
    <3>1. seq[i] \in E
      BY <1>3, Zenon
    <3> QED BY <2>2, <3>1, Zenon
  <2> QED BY <2>1, <2>2, Zenon
<1>9. PassedBy(seq, last, n) = UNION (P \cup {Q})
  BY DEF PassedBy, P, Q, E
<1> QED BY <1>2, <1>6, <1>7, <1>8, <1>9, Zenon

LEMMA PassedRecords ==
    ASSUME NEW x
    PROVE  x \in Passed <=> \/ \E i \in DOMAIN regions : \E k \in DOMAIN regions[i] :
                                  x = regions[i][k]
                            \/ \E k \in 1 .. idx - 1 : x = region[k]
<1>1. Passed = PassedBy(regions, region, idx)
  BY DEF Passed, PassedBy
<1> QED BY <1>1, PassedOf

LEMMA PassedRecordsNext ==
    ASSUME NEW x
    PROVE  x \in Passed' <=> \/ \E i \in DOMAIN regions' : \E k \in DOMAIN regions'[i] :
                                   x = regions'[i][k]
                             \/ \E k \in 1 .. idx' - 1 : x = region'[k]
<1>1. Passed' = PassedBy(regions', region', idx')
  BY DEF Passed, PassedBy
<1> QED BY <1>1, PassedOf

LEMMA PassedSame ==
    ASSUME IInv,
           \/ UNCHANGED <<regions, region, idx>>
           \/ PopRegion
           \/ EmitRegion
    PROVE  Passed' = Passed
<1>1. CASE UNCHANGED <<regions, region, idx>>
  BY <1>1 DEF Passed
<1>2. CASE PopRegion
  <2>1. idx = 0 /\ idx' = 1 /\ regions' = regions
    BY <1>2 DEF PopRegion, IInv, Control
  <2>2. \A k : k \notin 1 .. idx - 1 /\ k \notin 1 .. idx' - 1
    BY <2>1
  <2>3. ASSUME NEW x PROVE x \in Passed' <=> x \in Passed
    <3>1. x \in Passed <=> \E i \in DOMAIN regions : \E k \in DOMAIN regions[i] :
                              x = regions[i][k]
      BY <2>2, PassedRecords, Zenon
    <3>2. x \in Passed' <=> \E i \in DOMAIN regions' : \E k \in DOMAIN regions'[i] :
                              x = regions'[i][k]
      BY <2>2, PassedRecordsNext, Zenon
    <3> QED BY <2>1, <3>1, <3>2
  <2> QED BY <2>3
<1>3. CASE EmitRegion
  <2>1. /\ regions \in Seq(Region) /\ region \in Region /\ idx = Len(region) + 1
        /\ DOMAIN region = 1 .. idx - 1
        /\ regions' = Append(regions, region) /\ idx' = 0
    BY <1>3 DEF EmitRegion, IInv, TypeOK, Control, Region
  <2>2. Elements(Append(regions, region)) = Elements(regions) \cup {region}
    BY <2>1, AppendElements
  <2>3. \A r : (\E i \in DOMAIN regions' : r = regions'[i])
                 <=> (r = region \/ \E i \in DOMAIN regions : r = regions[i])
    BY <2>1, <2>2 DEF Elements
  <2>4. \A k : k \notin 1 .. idx' - 1
    BY <2>1
  <2>5. ASSUME NEW x PROVE x \in Passed' => x \in Passed
    <3> SUFFICES ASSUME x \in Passed' PROVE x \in Passed
      OBVIOUS
    <3>1. PICK i \in DOMAIN regions' : \E k \in DOMAIN regions'[i] : x = regions'[i][k]
      BY <2>4, PassedRecordsNext, Zenon
    <3>2. CASE regions'[i] = region
      BY <2>1, <3>1, <3>2, PassedRecords
    <3>3. CASE \E j \in DOMAIN regions : regions'[i] = regions[j]
      BY <3>1, <3>3, PassedRecords
    <3> QED BY <2>3, <3>2, <3>3
  <2>6. ASSUME NEW x PROVE x \in Passed => x \in Passed'
    <3> SUFFICES ASSUME x \in Passed PROVE x \in Passed'
      OBVIOUS
    <3>1. PICK r : /\ r = region \/ \E j \in DOMAIN regions : r = regions[j]
                   /\ \E k \in DOMAIN r : x = r[k]
      <4>1. CASE \E k \in 1 .. idx - 1 : x = region[k]
        BY <2>1, <4>1
      <4>2. CASE \E i \in DOMAIN regions : \E k \in DOMAIN regions[i] : x = regions[i][k]
        BY <4>2
      <4> QED BY <4>1, <4>2, PassedRecords, Zenon
    <3>2. PICK i \in DOMAIN regions' : r = regions'[i]
      BY <2>3, <3>1, Zenon
    <3>3. \E k \in DOMAIN regions'[i] : x = regions'[i][k]
      BY <3>1, <3>2
    <3> QED BY <3>3, PassedRecordsNext, Zenon
  <2> QED BY <2>5, <2>6
<1> QED BY <1>1, <1>2, <1>3

LEMMA PassedGrows ==
    ASSUME IInv, idx > 0, idx <= Len(region), idx' = idx + 1,
           UNCHANGED <<regions, region>>
    PROVE  Passed' = Passed \cup {region[idx]}
<1>1. idx \in Nat
  BY DEF IInv, TypeOK, Region
<1>2. \A k : k \in 1 .. idx' - 1 <=> (k \in 1 .. idx - 1 \/ k = idx)
  BY <1>1
<1>3. ASSUME NEW x
      PROVE  x \in Passed' <=> \/ \E i \in DOMAIN regions : \E k \in DOMAIN regions[i] :
                                     x = regions[i][k]
                               \/ \E k \in 1 .. idx' - 1 : x = region[k]
  <2>1. Passed' = PassedBy(regions, region, idx')
    BY DEF Passed, PassedBy
  <2> QED BY <2>1, PassedOf
<1>4. ASSUME NEW x PROVE x \in Passed' <=> (x \in Passed \/ x = region[idx])
  <2>1. (\E k \in 1 .. idx' - 1 : x = region[k])
          <=> ((\E k \in 1 .. idx - 1 : x = region[k]) \/ x = region[idx])
    BY <1>2, Zenon
  <2> QED BY <1>3, <2>1, PassedRecords, Zenon
<1> QED BY <1>4

(* A box is opened once: no record passed starts where it does.            *)
LEMMA NotOpened ==
    ASSUME IInv, Placed, idx > 0, idx <= Len(region)
    PROVE  region[idx].at \notin Opened
<1>1. idx \in DOMAIN region /\ region \in Found /\ idx \in Nat /\ DOMAIN region = 1 .. Len(region)
      /\ Len(region) \in Nat
  BY DEF IInv, TypeOK, Region, Found
<1> SUFFICES ASSUME NEW x \in Passed, x.at = region[idx].at PROVE FALSE
  BY DEF Opened
<1>2. Nested(Found) /\ \A r \in Found : Proper(r)
  BY FoundIsProper, Zenon DEF Placed
<1>3. region[idx] \in Record /\ region[idx].at < region[idx].lim
  BY <1>1, <1>2, ProperRecord, Zenon
<1>4. ASSUME NEW g \in Found, NEW k \in DOMAIN g, x = g[k]
      PROVE  g = region /\ k = idx
  <2>1. g[k] \in Record /\ g[k].at < g[k].lim
    BY <1>2, <1>4, ProperRecord, Zenon
  <2>2. g[k].at = region[idx].at
    BY <1>4
  <2>3. ~Disjoint(g[k], region[idx]) /\ ~Inside(g[k], region[idx]) /\ ~Inside(region[idx], g[k])
    BY <1>3, <2>1, <2>2, SameStart, Zenon
  <2> QED BY <1>1, <1>2, <2>3, Zenon DEF Nested
<1>5. ASSUME NEW i \in DOMAIN regions, NEW k \in DOMAIN regions[i], x = regions[i][k]
      PROVE  FALSE
  <2>1. regions[i] \in Found
    BY DEF Found
  <2>2. regions[i] # region
    BY DEF Placed, Separate
  <2> QED BY <1>4, <1>5, <2>1, <2>2, Zenon
<1>6. ASSUME NEW k \in 1 .. idx - 1, x = region[k] PROVE FALSE
  <2>1. k \in DOMAIN region /\ k # idx
    BY <1>1
  <2> QED BY <1>1, <1>4, <1>6, <2>1, Zenon
<1> QED BY <1>5, <1>6, PassedRecords, Zenon
---------------------------------------------------------------------------
(* A section is loaded, the parse fails or the step is not seen.           *)
LEMMA MapsToLoad ==
    ASSUME IInv, next <= Len(input.sections), next' = next + 1,
           UNCHANGED <<image, input, regions, region, idx>>,
           pc \notin {"done", "failed"}, pc' \notin {"done", "failed"},
           IF input.sections[next].tag = "crashlog"
           THEN Abstract!Finds(input.sections[next].base, input.sections[next].end, -1)
           ELSE Found' = Found
    PROVE  Abstract!Next
<1>1. next \in DOMAIN input.sections /\ next \in Nat
  BY SectionFacts
<1>2. next \notin 1 .. next - 1 /\ 1 .. next' - 1 = (1 .. next - 1) \cup {next}
  BY <1>1
<1>3. Opened' = Opened
  <2>1. Passed' = Passed
    BY PassedSame
  <2> QED BY <2>1 DEF Opened
<1>4. Abstract!Load
  BY <1>1, <1>2, <1>3 DEF Abstract!Load, Opened
<1> QED BY <1>4 DEF Abstract!Next

LEMMA MapsToFail ==
    ASSUME IInv, Found = {}, Found' = {}, \A i \in DOMAIN input.sections : ~Usable(i),
           UNCHANGED <<image, input, next, regions, region, idx>>,
           pc \notin {"done", "failed"}, pc' = "failed"
    PROVE  Abstract!Next
<1>1. Opened' = Opened
  <2>1. Passed' = Passed
    BY PassedSame
  <2> QED BY <2>1 DEF Opened
<1>2. \A i \in DOMAIN input.sections : input.sections[i].tag = "crashlog" =>
        ~Abstract!Starts(input.sections[i].base, input.sections[i].end)
  BY StartsAgree DEF Usable
<1>3. Abstract!Fail
  BY <1>1, <1>2 DEF Abstract!Fail, Opened
<1> QED BY <1>3 DEF Abstract!Next

LEMMA MapsToStutter ==
    ASSUME Found' = Found, Opened' = Opened, UNCHANGED <<image, input, next>>,
           \/ pc \notin {"done", "failed"} /\ pc' \notin {"done", "failed"}
           \/ pc' = pc
    PROVE  UNCHANGED Abstract!vars
  BY DEF Abstract!vars, Opened

(* The box under the scan is opened. *)
LEMMA MapsToOpen ==
    ASSUME JInv, BoxReturns
    PROVE  Abstract!Next
<1> DEFINE b == region[idx]
           c == ChildOf(call.records, region[idx])
<1>i. IInv /\ RunOK /\ Source /\ Loading /\ Placed
  BY DEF JInv
<1>1. /\ pc = "slice" /\ idx > 0 /\ idx <= Len(region) /\ idx \in DOMAIN region
      /\ region \in Region /\ pc' = "scan" /\ idx' = idx + 1 /\ SliceEnds
      /\ UNCHANGED <<image, input, next, region, regions, extra>>
  BY <1>i DEF BoxReturns, SliceEnds, IInv, TypeOK, Control, Region
<1>2. b \in Record /\ region \in Found /\ call.records \in Region
  BY <1>1, <1>i DEF Region, Found, IInv, CallOK, Call
<1>3. HasPayload(b) /\ call.base = PayloadAt(b) /\ call.end = b.lim
  BY <1>1, <1>i DEF Source
<1>4. 1 .. next - 1 = DOMAIN input.sections
  <2>1. next > Len(input.sections)
    BY <1>1, <1>i DEF Loading, Begun
  <2> QED BY <2>1, <1>i, SectionFacts
<1>5. b \in Abstract!Boxes /\ Abstract!PayloadOf(b) = PayloadAt(b)
  <2>1. Abstract!PayloadOf(b) = PayloadAt(b) /\ (Abstract!IsBox(b.hdr) <=> IsBox(b.hdr))
    <3>1. b.hdr \in Header
      BY <1>2 DEF Record
    <3> QED BY <3>1, HeadersAgree DEF Abstract!PayloadOf, PayloadAt
  <2>2. b \in UNION {{r[i] : i \in DOMAIN r} : r \in Found}
    BY <1>1, <1>2
  <2> QED BY <1>3, <2>1, <2>2 DEF Abstract!Boxes, HasPayload
<1>6. b.at \notin Opened
  BY <1>1, <1>i, NotOpened
<1>7. Opened' = Opened \cup {b.at}
  <2>1. Passed' = Passed \cup {b}
    BY <1>1, <1>i, PassedGrows
  <2> HIDE DEF b
  <2> QED BY <2>1, <1>3 DEF Opened, HasPayload, PayloadAt
<1>8. Abstract!Finds(PayloadAt(b), b.lim, b.at)
  <2>1. Abstract!Starts(PayloadAt(b), b.lim) <=> ~Empty
    BY <1>1, <1>3, <1>i, EndedStarts, StartsAgree
  <2>2. CASE Empty
    <3>1. Found' = Found
      BY <1>i, <2>2, OthersKeep
    <3> QED BY <2>1, <2>2, <3>1 DEF Abstract!Finds
  <2>3. CASE ~Empty
    <3>1. /\ c \in Region /\ Len(c) = Len(call.records)
          /\ \A k \in DOMAIN call.records :
               /\ c[k].at = call.records[k].at /\ c[k].lim = call.records[k].lim
               /\ c[k].hdr = call.records[k].hdr /\ c[k].parent = b.at
      BY <1>2, ChildFacts
    <3>2. Found' = Found \cup {c}
      BY <1>i, <2>3, <3>1, BoxAdds
    <3> HIDE DEF b, c
    <3>3. Abstract!RegionOf(c, PayloadAt(b), b.lim, b.at)
      BY <1>1, <1>3, <1>i, <2>3, <3>1, EndedRegion
    <3> QED BY <2>1, <2>3, <3>2, <3>3 DEF Abstract!Finds
  <2> QED BY <2>2, <2>3
<1> HIDE DEF b, c
<1>9. Abstract!Open
  BY <1>1, <1>4, <1>5, <1>6, <1>7, <1>8 DEF Abstract!Open, Opened
<1> QED BY <1>1, <1>9 DEF Abstract!Next
(* The call for a section returns. *)
LEMMA MapsToSection ==
    ASSUME JInv, LoadReturns
    PROVE  Abstract!Next
<1> DEFINE s == input.sections[next]
           c == call.records
<1>i. IInv /\ RunOK /\ Source /\ Loading /\ Placed
  BY DEF JInv
<1>1. /\ pc = "slice" /\ idx = 0 /\ SliceEnds /\ UNCHANGED <<image, input, regions, region, idx>>
      /\ next <= Len(input.sections)
  BY <1>i DEF LoadReturns, SliceEnds, IInv, Control
<1>2. s.tag = "crashlog" /\ call.base = s.base /\ call.end = s.end
  BY <1>1, <1>i DEF Source
<1>3. Abstract!Starts(s.base, s.end) <=> ~Empty
  BY <1>1, <1>2, <1>i, EndedStarts, StartsAgree
<1>4. CASE ~Empty
  <2>1. next' = next + 1 /\ pc' = "load"
    BY <1>4 DEF LoadReturns
  <2>2. Found' = Found \cup {c} /\ c \in Region
    BY <1>i, <1>4, LoadAdds
  <2>3. \A k \in DOMAIN c : c[k].parent = -1
    BY <1>i DEF RunOK, NoParent
  <2>4. Abstract!RegionOf(c, s.base, s.end, -1)
    <3>1. Abstract!RegionOf(c, call.base, call.end, -1)
      BY <1>1, <1>i, <1>4, <2>2, <2>3, EndedRegion
    <3> QED BY <1>2, <3>1
  <2> HIDE DEF c
  <2>5. Abstract!Finds(s.base, s.end, -1)
    BY <1>3, <1>4, <2>2, <2>4 DEF Abstract!Finds
  <2> QED BY <1>i, <1>1, <1>2, <2>1, <2>5, MapsToLoad
<1>5. CASE Empty
  <2>1. Found' = Found
    BY <1>5, <1>i, OthersKeep
  <2>2. CASE input.container = "raw" /\ pc' = "failed" /\ UNCHANGED next
    <3>1. Len(input.sections) = 1
      <4>1. input.sections = <<[base |-> 0, end |-> image.len, tag |-> "crashlog"]>>
        BY <2>2, <1>i DEF IInv, TypeOK, IsInput
      <4>2. \A x : Len(<<x>>) = 1
        OBVIOUS
      <4> QED BY <4>1, <4>2, Zenon
    <3>2. next = 1 /\ DOMAIN input.sections = {1}
      BY <1>1, <1>i, <3>1, SectionFacts
    <3>3. Found = {} /\ ~Usable(next)
      BY <1>1, <1>i, <1>5, <3>2, EmptyIsUnusable DEF Loading
    <3> QED BY <1>1, <1>i, <2>1, <2>2, <3>2, <3>3, MapsToFail
  <2>3. CASE next' = next + 1 /\ pc' = "load"
    <3>1. Abstract!Finds(s.base, s.end, -1)
      BY <1>3, <1>5, <2>1 DEF Abstract!Finds
    <3> QED BY <1>1, <1>2, <1>i, <2>3, <3>1, MapsToLoad
  <2> QED BY <1>5, <2>2, <2>3 DEF LoadReturns
<1> QED BY <1>4, <1>5

LEMMA MapsToEnd ==
    ASSUME JInv, Finish
    PROVE  Abstract!Next
<1>i. IInv /\ RunOK /\ Source /\ Loading /\ Placed
  BY DEF JInv
<1>1. /\ UNCHANGED <<image, input, next, queue, regions, region, idx>>
      /\ pc = "pop" /\ idx = 0 /\ queue = << >>
  BY <1>i DEF Finish, IInv, Control
<1>2. Found' = Found
  BY <1>i, OthersKeep
<1>3. next > Len(input.sections)
  BY <1>1, <1>i DEF Begun, Loading
<1>4. CASE pc' = "failed"
  <2>1. Found = {}
    BY <1>1, <1>4 DEF Finish, Found
  <2> QED BY <1>1, <1>2, <1>3, <1>4, <1>i, <2>1, NothingUsable, MapsToFail
<1>5. CASE pc' = "done" /\ regions # << >>
  <2>1. 1 .. next - 1 = DOMAIN input.sections
    BY <1>3, <1>i, SectionFacts
  <2>2. \A r : r \in Found <=> \E i \in DOMAIN regions : r = regions[i]
    BY <1>1 DEF Found
  <2>3. Found # {}
    <3>1. 1 \in DOMAIN regions
      BY <1>5, <1>i DEF IInv, TypeOK
    <3> QED BY <2>2, <3>1, Zenon
  <2>4. Opened' = Opened
    <3>1. Passed' = Passed
      BY <1>1, <1>i, PassedSame
    <3> QED BY <3>1 DEF Opened
  <2>5. ASSUME NEW b \in Abstract!Boxes PROVE b.at \in Opened
    <3>1. PICK r \in Found : \E k \in DOMAIN r : b = r[k]
      BY DEF Abstract!Boxes
    <3>2. b \in Passed
      <4>1. \E i \in DOMAIN regions : \E k \in DOMAIN regions[i] : b = regions[i][k]
        BY <2>2, <3>1
      <4> QED BY <4>1, PassedRecords, Zenon
    <3>3. HasPayload(b)
      <4>1. b.hdr \in Header
        <5>1. PICK k \in DOMAIN r : b = r[k]
          BY <3>1
        <5>2. b \in Record
          BY <1>i, <5>1, FoundIsProper, ProperRecord, Zenon
        <5> QED BY <5>2 DEF Record
      <4>2. Abstract!PayloadOf(b) = PayloadAt(b) /\ (Abstract!IsBox(b.hdr) <=> IsBox(b.hdr))
        BY <4>1, HeadersAgree DEF Abstract!PayloadOf, PayloadAt
      <4> QED BY <4>2 DEF Abstract!Boxes, HasPayload
    <3> QED BY <3>2, <3>3 DEF Opened
  <2>6. Abstract!Succeed
    BY <1>1, <1>2, <1>5, <2>1, <2>3, <2>4, <2>5 DEF Abstract!Succeed, Opened
  <2> QED BY <1>1, <2>6 DEF Abstract!Next
<1> QED BY <1>4, <1>5 DEF Finish

LEMMA StepMaps ==
    ASSUME JInv, [Next]_vars
    PROVE  [Abstract!Next]_Abstract!vars
<1>i. IInv /\ RunOK /\ Source /\ Loading /\ Placed
  BY DEF JInv
<1>1. CASE SkipSection
  <2>1. Found' = Found
    BY <1>1, <1>i, OthersKeep
  <2>2. /\ next <= Len(input.sections) /\ next' = next + 1
        /\ UNCHANGED <<image, input, regions, region, idx>>
        /\ pc = "load" /\ pc' = "load" /\ input.sections[next].tag # "crashlog"
    BY <1>1 DEF SkipSection
  <2> QED BY <1>i, <2>1, <2>2, MapsToLoad
<1>2. CASE LoadReturns
  BY <1>2, MapsToSection
<1>3. CASE BoxReturns
  BY <1>3, MapsToOpen
<1>4. CASE Finish
  BY <1>4, MapsToEnd
<1>5. CASE Loaded /\ pc' = "failed"
  <2>1. Found' = Found /\ UNCHANGED <<image, input, next, regions, region, idx>> /\ pc = "load"
    BY <1>5, <1>i, OthersKeep DEF Loaded
  <2>2. idx = 0 /\ regions = << >> /\ next > Len(input.sections) /\ queue = << >>
    BY <1>5, <1>i DEF Loaded, Begun, Loading
  <2>3. Found = {}
    BY <2>2 DEF Found
  <2> QED BY <1>5, <1>i, <2>1, <2>2, <2>3, NothingUsable, MapsToFail
<1>6. CASE LoadSection \/ ReadRecord \/ OpenBox \/ (Loaded /\ pc' # "failed") \/ UNCHANGED vars
  <2>1. Found' = Found
    BY <1>6, <1>i, OthersKeep
  <2>2. /\ UNCHANGED <<image, input, next, regions, region, idx>>
        /\ \/ pc \notin {"done", "failed"} /\ pc' \notin {"done", "failed"}
           \/ pc' = pc
    BY <1>6 DEF LoadSection, ReadRecord, AtRecord, OpenBox, Loaded, Enter, vars
  <2>3. Opened' = Opened
    <3>1. Passed' = Passed
      BY <1>i, <2>2, PassedSame
    <3> QED BY <3>1 DEF Opened
  <2> QED BY <2>1, <2>2, <2>3, MapsToStutter
<1>7. CASE PopRegion \/ EmitRegion
  <2>1. Found' = Found
    BY <1>7, <1>i, PopKeeps, EmitKeeps
  <2>2. UNCHANGED <<image, input, next>> /\ pc \in {"pop", "scan"} /\ pc' \in {"pop", "scan"}
    BY <1>7 DEF PopRegion, EmitRegion
  <2>3. Opened' = Opened
    <3>1. Passed' = Passed
      BY <1>7, <1>i, PassedSame
    <3> QED BY <3>1 DEF Opened
  <2> QED BY <2>1, <2>2, <2>3, MapsToStutter
<1>8. CASE SkipRecord
  <2>1. Found' = Found
    BY <1>8, <1>i, OthersKeep
  <2>2. /\ UNCHANGED <<image, input, next, regions, region>> /\ pc = "scan" /\ pc' = "scan"
        /\ idx > 0 /\ idx <= Len(region) /\ idx' = idx + 1 /\ ~HasPayload(region[idx])
    BY <1>8, <1>i DEF SkipRecord, IInv, Control
  <2>3. Opened' = Opened
    <3>1. Passed' = Passed \cup {region[idx]}
      BY <1>i, <2>2, PassedGrows
    <3>2. {r \in Passed' : HasPayload(r)} = {r \in Passed : HasPayload(r)}
      BY <2>2, <3>1
    <3> QED BY <3>2 DEF Opened, HasPayload, PayloadAt
  <2> QED BY <2>1, <2>2, <2>3, MapsToStutter
<1> QED BY <1>1, <1>2, <1>3, <1>4, <1>5, <1>6, <1>7, <1>8 DEF Next, Parse, Returned

(* The work list of from_regions implements the plain expansion: whatever *)
(* the file, a region is found for every usable section and inside every  *)
(* box that holds one, each box is opened once, and the parse ends with    *)
(* every box opened.                                                       *)
THEOREM Implements == Spec => Expands
<1>1. Init => Abstract!Init
  <2> SUFFICES ASSUME Init PROVE Abstract!Init
    OBVIOUS
  <2>1. /\ next = 1 /\ Found = {} /\ pc = "load" /\ idx = 0 /\ regions = << >>
    BY DEF Init, Found
  <2>2. \A x : x \notin Passed
    BY <2>1, PassedRecords
  <2>3. Opened = {} /\ 1 .. next - 1 = {}
    BY <2>1, <2>2 DEF Opened
  <2> QED BY <2>1, <2>3 DEF Abstract!Init, Opened
<1>2. JInv /\ [Next]_vars => [Abstract!Next]_Abstract!vars
  BY StepMaps
<1> QED BY <1>1, <1>2, Always, PTL DEF Spec, Expands, Abstract!Spec
---------------------------------------------------------------------------
(* The order: the regions that came out, the one under the scan and those  *)
(* that wait stand in a line in which each region in a box is behind the   *)
(* region of the box, and the regions between the two are from later boxes.*)
LineOf(out, r, n, q) == out \o (IF n > 0 THEN <<r>> ELSE << >>) \o q
Line == LineOf(regions, region, idx, queue)

Above(t, h, i) ==
    /\ \E k \in DOMAIN t[h] : t[h][k].at = t[i][1].parent
    /\ \A j \in h + 1 .. i - 1 : t[j][1].at > t[i][1].at

Descends(t) ==
    \A i \in DOMAIN t : t[i][1].parent # NoParent => \E h \in 1 .. i - 1 : Above(t, h, i)

LineIs(t, out, r, one, q) ==
    /\ t \in Seq(Region) /\ Len(out) \in Nat /\ Len(q) \in Nat
    /\ Len(t) = Len(out) + one + Len(q)
    /\ DOMAIN t = 1 .. Len(out) + one + Len(q)
    /\ \A i \in 1 .. Len(out) : t[i] = out[i]
    /\ one = 1 => t[Len(out) + 1] = r
    /\ \A i \in 1 .. Len(q) : t[Len(out) + one + i] = q[i]

LEMMA LineFacts ==
    ASSUME NEW out \in Seq(Region), NEW r \in Region, NEW n \in Nat, NEW q \in Seq(Region)
    PROVE  /\ n > 0 => LineIs(LineOf(out, r, n, q), out, r, 1, q)
           /\ ~(n > 0) => LineIs(LineOf(out, r, n, q), out, r, 0, q)
<1> DEFINE t == LineOf(out, r, n, q)
<1>1. ASSUME n > 0 PROVE LineIs(t, out, r, 1, q)
  <2>1. t = out \o <<r>> \o q
    BY <1>1 DEF LineOf
  <2> QED BY <1>1, <2>1 DEF LineIs
<1>2. ASSUME ~(n > 0) PROVE LineIs(t, out, r, 0, q)
  <2>1. t = out \o << >> \o q
    BY <1>2 DEF LineOf
  <2> QED BY <1>2, <2>1 DEF LineIs
<1> QED BY <1>1, <1>2

LEMMA SameLine ==
    ASSUME NEW t \in Seq(Region), NEW u \in Seq(Region), Len(t) = Len(u),
           \A i \in 1 .. Len(t) : t[i] = u[i]
    PROVE  t = u
  OBVIOUS

(* A region outside the boxes joins at the end, one in a box right behind  *)
(* the region of the box.                                                  *)
LEMMA JoinsLast ==
    ASSUME NEW t \in Seq(Region), NEW u \in Seq(Region), Descends(t),
           Len(u) = Len(t) + 1, \A i \in 1 .. Len(t) : u[i] = t[i],
           u[Len(t) + 1][1].parent = NoParent
    PROVE  Descends(u)
<1>1. Len(t) \in Nat /\ DOMAIN t = 1 .. Len(t) /\ DOMAIN u = 1 .. Len(t) + 1
  OBVIOUS
<1> SUFFICES ASSUME NEW i \in DOMAIN u, u[i][1].parent # NoParent
             PROVE  \E h \in 1 .. i - 1 : Above(u, h, i)
  BY DEF Descends
<1>2. i \in 1 .. Len(t)
  BY <1>1
<1>3. PICK h \in 1 .. i - 1 : Above(t, h, i)
  BY <1>1, <1>2 DEF Descends
<1>4. h \in 1 .. Len(t) /\ \A j \in h + 1 .. i - 1 : j \in 1 .. Len(t)
  BY <1>1, <1>2
<1>5. Above(u, h, i)
  BY <1>2, <1>3, <1>4 DEF Above
<1> QED BY <1>5

LEMMA JoinsBehind ==
    ASSUME NEW t \in Seq(Region), NEW u \in Seq(Region), Descends(t),
           NEW p \in 1 .. Len(t), Len(u) = Len(t) + 1,
           \A i \in 1 .. p : u[i] = t[i],
           \A i \in p + 1 .. Len(t) : u[i + 1] = t[i],
           \E k \in DOMAIN t[p] : t[p][k].at = u[p + 1][1].parent,
           \A i \in 1 .. Len(t) : t[i][1].at \in Nat,
           u[p + 1][1].at \in Nat, u[p + 1][1].at >= t[p][1].at,
           \A i \in p + 1 .. Len(t) :
              (\E k \in DOMAIN t[p] : t[p][k].at = t[i][1].parent)
                => u[p + 1][1].at > t[i][1].at
    PROVE  Descends(u)
<1> DEFINE c == u[p + 1]
<1>1. Len(t) \in Nat /\ DOMAIN t = 1 .. Len(t) /\ DOMAIN u = 1 .. Len(t) + 1 /\ p \in Nat
  OBVIOUS
<1> SUFFICES ASSUME NEW i \in DOMAIN u, u[i][1].parent # NoParent
             PROVE  \E h \in 1 .. i - 1 : Above(u, h, i)
  BY DEF Descends
<1>2. CASE i <= p
  <2>1. i \in DOMAIN t /\ u[i] = t[i]
    BY <1>1, <1>2
  <2>2. PICK h \in 1 .. i - 1 : Above(t, h, i)
    BY <2>1 DEF Descends
  <2>3. u[h] = t[h] /\ \A j \in h + 1 .. i - 1 : u[j] = t[j]
    BY <1>1, <1>2
  <2>4. Above(u, h, i)
    BY <2>1, <2>2, <2>3 DEF Above
  <2> QED BY <2>4
<1>3. CASE i = p + 1
  <2>1. u[p] = t[p] /\ p \in 1 .. i - 1
    BY <1>1, <1>3
  <2>2. \A j \in p + 1 .. i - 1 : FALSE
    BY <1>1, <1>3
  <2>3. Above(u, p, i)
    BY <1>3, <2>1, <2>2 DEF Above
  <2> QED BY <2>1, <2>3
<1>4. CASE i > p + 1
  <2> DEFINE m == i - 1
  <2>1. m \in p + 1 .. Len(t) /\ m \in DOMAIN t /\ u[i] = t[m] /\ i = m + 1
    BY <1>1, <1>4
  <2>2. PICK h \in 1 .. m - 1 : Above(t, h, m)
    BY <2>1 DEF Descends
  <2>3. \A j \in h + 1 .. m - 1 : t[j][1].at > t[m][1].at
    BY <2>2 DEF Above
  <2>4. \E k \in DOMAIN t[h] : t[h][k].at = t[m][1].parent
    BY <2>2 DEF Above
  <2> HIDE DEF m
  <2>5. CASE h <= p
    <3>1. u[h] = t[h] /\ h \in 1 .. i - 1
      BY <1>1, <2>1, <2>5
    <3>2. c[1].at > t[m][1].at
      <4>1. CASE h = p
        BY <2>1, <2>4, <4>1
      <4>2. CASE h < p
        <5>1. p \in h + 1 .. m - 1 /\ m \in 1 .. Len(t)
          BY <1>1, <2>1, <2>5, <4>2
        <5>2. t[p][1].at > t[m][1].at /\ t[p][1].at \in Nat /\ t[m][1].at \in Nat
          BY <2>3, <5>1
        <5>3. c[1].at \in Nat /\ c[1].at >= t[p][1].at
          OBVIOUS
        <5>4. \A x, y, z \in Nat : x >= y /\ y > z => x > z
          OBVIOUS
        <5> QED BY <5>2, <5>3, <5>4, Zenon
      <4> QED BY <1>1, <2>5, <4>1, <4>2
    <3>3. ASSUME NEW j \in h + 1 .. i - 1 PROVE u[j][1].at > t[m][1].at
      <4>1. CASE j <= p
        <5>1. j \in h + 1 .. m - 1 /\ u[j] = t[j]
          BY <1>1, <2>1, <3>3, <4>1
        <5> QED BY <2>3, <5>1
      <4>2. CASE j = p + 1
        BY <3>2, <4>2
      <4>3. CASE j > p + 1
        <5>1. j - 1 \in h + 1 .. m - 1 /\ j - 1 \in p + 1 .. Len(t) /\ (j - 1) + 1 = j
          BY <1>1, <2>1, <2>5, <3>3, <4>3
        <5>2. u[j] = t[j - 1]
          <6>1. u[(j - 1) + 1] = t[j - 1]
            BY <5>1
          <6> QED BY <5>1, <6>1
        <5> QED BY <2>3, <5>1, <5>2
      <4> QED BY <1>1, <3>3, <4>1, <4>2, <4>3
    <3>4. Above(u, h, i)
      BY <2>1, <2>4, <3>1, <3>3 DEF Above
    <3> QED BY <3>1, <3>4
  <2>6. CASE h > p
    <3>1. u[h + 1] = t[h] /\ h + 1 \in 1 .. i - 1
      BY <1>1, <2>1, <2>6
    <3>2. ASSUME NEW j \in h + 2 .. i - 1 PROVE u[j][1].at > t[m][1].at
      <4>1. j - 1 \in h + 1 .. m - 1 /\ j - 1 \in p + 1 .. Len(t) /\ (j - 1) + 1 = j
        BY <1>1, <2>1, <2>6, <3>2
      <4>2. u[j] = t[j - 1]
        <5>1. u[(j - 1) + 1] = t[j - 1]
          BY <4>1
        <5> QED BY <4>1, <5>1
      <4> QED BY <2>3, <4>1, <4>2
    <3>3. (h + 1) + 1 = h + 2
      BY <1>1
    <3>4. Above(u, h + 1, i)
      BY <2>1, <2>4, <3>1, <3>2, <3>3 DEF Above
    <3> QED BY <3>1, <3>4
  <2> QED BY <1>1, <2>5, <2>6
<1> QED BY <1>1, <1>2, <1>3, <1>4
LEMMA OthersLine ==
    ASSUME IInv,
           \/ LoadSection \/ SkipSection \/ Loaded \/ ReadRecord \/ (LoadReturns /\ Empty)
           \/ SkipRecord \/ OpenBox \/ (BoxReturns /\ Empty) \/ Finish \/ UNCHANGED vars
    PROVE  Line' = Line
<1>1. queue' = queue /\ regions' = regions /\ region' = region
  BY OthersKeep
<1>2. (idx > 0) <=> (idx' > 0)
  <2>1. idx \in Nat /\ (pc = "scan" => idx > 0)
    BY DEF IInv, TypeOK, Control, Region
  <2>2. idx' = idx \/ (idx > 0 /\ idx' = idx + 1)
    BY <2>1 DEF LoadSection, SkipSection, Loaded, ReadRecord, LoadReturns, SkipRecord,
           OpenBox, BoxReturns, Finish, vars
  <2> QED BY <2>1, <2>2
<1> QED BY <1>1, <1>2 DEF Line, LineOf

LEMMA PopLine ==
    ASSUME IInv, PopRegion
    PROVE  Line' = Line
<1> DEFINE t == LineOf(regions, region, 0, queue)
           u == LineOf(regions, Head(queue), 1, Tail(queue))
           n == Len(regions)
<1>1. /\ queue \in Seq(Region) /\ queue # << >> /\ idx = 0 /\ regions \in Seq(Region)
      /\ region \in Region /\ Len(queue) \in Nat /\ n \in Nat
  BY DEF IInv, TypeOK, Control, PopRegion
<1>2. Line = t /\ Line' = u
  BY <1>1 DEF PopRegion, Line
<1>3. /\ t \in Seq(Region) /\ Len(t) = n + 0 + Len(queue)
      /\ \A i \in 1 .. n : t[i] = regions[i]
      /\ \A i \in 1 .. Len(queue) : t[n + 0 + i] = queue[i]
  <2>1. 0 \in Nat /\ ~(0 > 0)
    OBVIOUS
  <2>2. LineIs(t, regions, region, 0, queue)
    BY <1>1, <2>1, LineFacts, Zenon
  <2> QED BY <1>1, <2>2 DEF LineIs
<1>4. Head(queue) \in Region /\ Tail(queue) \in Seq(Region)
      /\ Len(Tail(queue)) = Len(queue) - 1 /\ Head(queue) = queue[1]
      /\ \A i \in 1 .. Len(queue) - 1 : Tail(queue)[i] = queue[i + 1]
  BY <1>1
<1>5. /\ u \in Seq(Region) /\ Len(u) = n + 1 + Len(Tail(queue))
      /\ \A i \in 1 .. n : u[i] = regions[i]
      /\ u[n + 1] = Head(queue)
      /\ \A i \in 1 .. Len(Tail(queue)) : u[n + 1 + i] = Tail(queue)[i]
  <2>1. 1 \in Nat /\ (1 > 0)
    OBVIOUS
  <2>2. LineIs(u, regions, Head(queue), 1, Tail(queue))
    BY <1>1, <1>4, <2>1, LineFacts, Zenon
  <2> QED BY <1>1, <1>4, <2>2 DEF LineIs
<1> HIDE DEF t, u, n
<1>6. Len(t) = Len(u) /\ Len(t) = n + Len(queue)
  BY <1>1, <1>3, <1>4, <1>5
<1>7. ASSUME NEW i \in 1 .. Len(t) PROVE t[i] = u[i]
  <2>1. CASE i <= n
    BY <1>1, <1>3, <1>5, <2>1
  <2>2. CASE i = n + 1
    <3>1. 1 \in 1 .. Len(queue)
      BY <1>1, <1>6, <1>7, <2>2
    <3>2. t[n + 0 + 1] = queue[1]
      BY <1>3, <3>1
    <3> QED BY <1>1, <1>4, <1>5, <2>2, <3>2
  <2>3. CASE i > n + 1
    <3>1. /\ i - n \in 1 .. Len(queue) /\ i - n - 1 \in 1 .. Len(queue) - 1
          /\ n + 0 + (i - n) = i /\ n + 1 + (i - n - 1) = i /\ (i - n - 1) + 1 = i - n
      BY <1>1, <1>6, <1>7, <2>3
    <3>2. t[i] = queue[i - n]
      <4>1. t[n + 0 + (i - n)] = queue[i - n]
        BY <1>3, <3>1
      <4> QED BY <3>1, <4>1
    <3>3. u[i] = Tail(queue)[i - n - 1]
      <4>1. u[n + 1 + (i - n - 1)] = Tail(queue)[i - n - 1]
        BY <1>4, <1>5, <3>1
      <4> QED BY <3>1, <4>1
    <3>4. Tail(queue)[i - n - 1] = queue[(i - n - 1) + 1]
      BY <1>4, <3>1
    <3> QED BY <3>1, <3>2, <3>3, <3>4
  <2> QED BY <1>1, <1>6, <1>7, <2>1, <2>2, <2>3
<1> QED BY <1>2, <1>3, <1>5, <1>6, <1>7, SameLine

LEMMA EmitLine ==
    ASSUME IInv, EmitRegion
    PROVE  Line' = Line
<1> DEFINE a == Append(regions, region)
           t == LineOf(regions, region, 1, queue)
           u == LineOf(a, << >>, 0, queue)
           n == Len(regions)
<1>1. /\ queue \in Seq(Region) /\ idx > 0 /\ regions \in Seq(Region)
      /\ region \in Region /\ Len(queue) \in Nat /\ n \in Nat /\ << >> \in Region
  BY DEF IInv, TypeOK, Control, EmitRegion, Region
<1>2. Line = t /\ Line' = u
  <2>1. Line = t
    BY <1>1 DEF Line, LineOf
  <2>2. Line' = u
    BY DEF EmitRegion, Line
  <2> QED BY <2>1, <2>2
<1>3. /\ t \in Seq(Region) /\ Len(t) = n + 1 + Len(queue)
      /\ \A i \in 1 .. n : t[i] = regions[i]
      /\ t[n + 1] = region
      /\ \A i \in 1 .. Len(queue) : t[n + 1 + i] = queue[i]
  <2>1. 1 \in Nat /\ (1 > 0)
    OBVIOUS
  <2>2. LineIs(t, regions, region, 1, queue)
    BY <1>1, <2>1, LineFacts, Zenon
  <2> QED BY <1>1, <2>2 DEF LineIs
<1>4. a \in Seq(Region) /\ Len(a) = n + 1 /\ a[n + 1] = region
      /\ \A i \in 1 .. n : a[i] = regions[i]
  BY <1>1
<1> HIDE DEF a
<1>5. /\ u \in Seq(Region) /\ Len(u) = Len(a) + 0 + Len(queue)
      /\ \A i \in 1 .. Len(a) : u[i] = a[i]
      /\ \A i \in 1 .. Len(queue) : u[Len(a) + 0 + i] = queue[i]
  <2>1. 0 \in Nat /\ ~(0 > 0)
    OBVIOUS
  <2>2. LineIs(u, a, << >>, 0, queue)
    BY <1>1, <1>4, <2>1, LineFacts, Zenon
  <2> QED BY <1>1, <1>4, <2>2 DEF LineIs
<1> HIDE DEF t, u, n
<1>6. Len(t) = Len(u) /\ Len(t) = n + 1 + Len(queue)
  BY <1>1, <1>3, <1>4, <1>5
<1>7. ASSUME NEW i \in 1 .. Len(t) PROVE t[i] = u[i]
  <2>1. CASE i <= n + 1
    BY <1>1, <1>3, <1>4, <1>5, <2>1
  <2>2. CASE i > n + 1
    <3>1. i - n - 1 \in 1 .. Len(queue) /\ n + 1 + (i - n - 1) = i
          /\ n + 1 + 0 + (i - n - 1) = i
      BY <1>1, <1>6, <1>7, <2>2
    <3>2. t[n + 1 + (i - n - 1)] = queue[i - n - 1]
      BY <1>3, <3>1
    <3>3. u[Len(a) + 0 + (i - n - 1)] = queue[i - n - 1]
      BY <1>5, <3>1
    <3> QED BY <1>4, <3>1, <3>2, <3>3
  <2> QED BY <1>1, <1>6, <1>7, <2>1, <2>2
<1> QED BY <1>2, <1>3, <1>5, <1>6, <1>7, SameLine

(* The regions of the line are those found. *)
LEMMA LineIsFound ==
    ASSUME IInv
    PROVE  /\ Line \in Seq(Region) /\ Len(Line) \in Nat /\ DOMAIN Line = 1 .. Len(Line)
           /\ \A i \in DOMAIN Line :
                /\ Line[i] \in Found /\ 1 \in DOMAIN Line[i]
                /\ Line[i][1] \in Record /\ Line[i][1].at \in Nat
                /\ Line[i][1].at < Line[i][1].lim
<1> DEFINE n == Len(regions)
           one == IF idx > 0 THEN 1 ELSE 0
<1>1. /\ queue \in Seq(Region) /\ regions \in Seq(Region) /\ region \in Region /\ idx \in Nat
      /\ DOMAIN queue = 1 .. Len(queue) /\ DOMAIN regions = 1 .. n
  BY DEF IInv, TypeOK, Region
<1>2. /\ Line \in Seq(Region) /\ n \in Nat /\ Len(queue) \in Nat /\ one \in {0, 1}
      /\ DOMAIN Line = 1 .. n + one + Len(queue)
      /\ Len(Line) = n + one + Len(queue)
      /\ \A i \in 1 .. n : Line[i] = regions[i]
      /\ idx > 0 => Line[n + 1] = region
      /\ \A i \in 1 .. Len(queue) : Line[n + one + i] = queue[i]
  <2>1. CASE idx > 0
    <3>1. LineIs(Line, regions, region, 1, queue)
      BY <1>1, <2>1, LineFacts, Zenon DEF Line
    <3> QED BY <2>1, <3>1 DEF LineIs
  <2>2. CASE ~(idx > 0)
    <3>1. LineIs(Line, regions, region, 0, queue)
      BY <1>1, <2>2, LineFacts, Zenon DEF Line
    <3> QED BY <2>2, <3>1 DEF LineIs
  <2> QED BY <2>1, <2>2
<1>o. one = 1 => idx > 0
  OBVIOUS
<1> HIDE DEF n, one
<1>3. ASSUME NEW i \in DOMAIN Line PROVE Line[i] \in Found
  <2>1. CASE i <= n
    <3>1. i \in DOMAIN regions /\ Line[i] = regions[i]
      BY <1>1, <1>2, <1>3, <2>1
    <3> QED BY <3>1 DEF Found
  <2>2. CASE i = n + 1 /\ one = 1
    <3>1. Line[i] = region /\ idx > 0
      BY <1>2, <1>o, <2>2
    <3> QED BY <3>1 DEF Found
  <2>3. CASE i > n + one
    <3>1. i - n - one \in 1 .. Len(queue) /\ n + one + (i - n - one) = i
      <4>1. i \in 1 .. n + one + Len(queue) /\ one \in Nat /\ n \in Nat /\ Len(queue) \in Nat
        BY <1>2, <1>3
      <4> QED BY <4>1, <2>3
    <3>2. Line[i] = queue[i - n - one]
      <4>1. Line[n + one + (i - n - one)] = queue[i - n - one]
        BY <1>2, <3>1
      <4> QED BY <3>1, <4>1
    <3> QED BY <1>1, <3>1, <3>2 DEF Found
  <2> QED BY <1>2, <1>3, <2>1, <2>2, <2>3
<1>4. ASSUME NEW i \in DOMAIN Line
      PROVE  /\ 1 \in DOMAIN Line[i] /\ Line[i][1] \in Record /\ Line[i][1].at \in Nat
             /\ Line[i][1].at < Line[i][1].lim
  <2>1. Proper(Line[i])
    BY <1>3, FoundIsProper, Zenon
  <2>2. 1 \in DOMAIN Line[i]
    BY <2>1 DEF Proper, Region
  <2>3. Line[i][1] \in Record /\ Line[i][1].at < Line[i][1].lim
    BY <2>1, <2>2, ProperRecord, Zenon
  <2> QED BY <2>2, <2>3 DEF Record
<1> QED BY <1>2, <1>3, <1>4
LEMMA LoadDescends ==
    ASSUME IInv, RunOK, Descends(Line), LoadReturns, ~Empty
    PROVE  Descends(Line')
<1> DEFINE c == call.records
           t == LineOf(regions, region, 0, queue)
           q == Append(queue, c)
           u == LineOf(regions, region, 0, q)
           n == Len(regions)
<1>1. /\ queue \in Seq(Region) /\ regions \in Seq(Region) /\ region \in Region
      /\ Len(queue) \in Nat /\ n \in Nat /\ idx = 0
  BY DEF IInv, TypeOK, LoadReturns
<1>2. queue' = q /\ c \in Region /\ UNCHANGED <<regions, region, idx>>
  BY LoadAdds DEF LoadReturns
<1>3. Line = t /\ Line' = u
  BY <1>1, <1>2 DEF Line
<1>4. c[1].parent = NoParent
  <2>1. 1 \in DOMAIN c
    BY DEF Empty, IInv, CallOK, Call, Region
  <2> QED BY <2>1 DEF RunOK
<1> HIDE DEF c
<1>5. q \in Seq(Region) /\ Len(q) = Len(queue) + 1 /\ q[Len(queue) + 1] = c
      /\ \A i \in 1 .. Len(queue) : q[i] = queue[i]
  BY <1>1, <1>2
<1> HIDE DEF q
<1>6. LineIs(t, regions, region, 0, queue) /\ LineIs(u, regions, region, 0, q)
  <2>1. 0 \in Nat /\ ~(0 > 0)
    OBVIOUS
  <2> QED BY <1>1, <1>5, <2>1, LineFacts, Zenon
<1> HIDE DEF t, u
<1>7. /\ t \in Seq(Region) /\ u \in Seq(Region) /\ Len(u) = Len(t) + 1
      /\ Len(t) = n + Len(queue)
  BY <1>1, <1>5, <1>6 DEF LineIs
<1>8. ASSUME NEW i \in 1 .. Len(t) PROVE u[i] = t[i]
  <2>1. CASE i <= n
    BY <1>1, <1>6, <2>1 DEF LineIs
  <2>2. CASE i > n
    <3>1. i - n \in 1 .. Len(queue) /\ i - n \in 1 .. Len(q) /\ n + 0 + (i - n) = i
      BY <1>1, <1>5, <1>7, <2>2
    <3>2. t[n + 0 + (i - n)] = queue[i - n] /\ u[n + 0 + (i - n)] = q[i - n]
      BY <1>6, <3>1 DEF LineIs
    <3> QED BY <1>5, <3>1, <3>2
  <2> QED BY <1>1, <1>7, <2>1, <2>2
<1>9. u[Len(t) + 1] = c
  <2>1. Len(queue) + 1 \in 1 .. Len(q) /\ n + 0 + (Len(queue) + 1) = Len(t) + 1
    BY <1>1, <1>5, <1>7
  <2>2. u[n + 0 + (Len(queue) + 1)] = q[Len(queue) + 1]
    BY <1>6, <2>1 DEF LineIs
  <2> QED BY <1>5, <2>1, <2>2
<1>10. Descends(t) /\ u[Len(t) + 1][1].parent = NoParent
  BY <1>3, <1>4, <1>9
<1>11. Descends(u)
  BY <1>7, <1>8, <1>10, JoinsLast, Zenon
<1> QED BY <1>3, <1>11

(* What was found in the boxes of the scanned region before the one that  *)
(* is opened starts before it.                                             *)
LEMMA EarlierBoxes ==
    ASSUME IInv, Placed, idx > 0, idx \in DOMAIN region,
           NEW s \in Found, NEW k \in DOMAIN region, s[1].parent = region[k].at
    PROVE  s[1].at < region[idx].at
<1>1. /\ region \in Found /\ region \in Region /\ idx \in Nat /\ k \in Nat
      /\ Nested(Found) /\ Innermost(Found) /\ Ordered(region)
      /\ \A r \in Found : Proper(r)
  <2>1. region \in Region /\ region \in Found /\ idx \in Nat
    BY DEF IInv, TypeOK, Region, Found
  <2>2. k \in Nat
    BY <2>1 DEF Region
  <2> QED BY <2>1, <2>2, FoundIsProper, Zenon DEF Placed
<1>2. 1 \in DOMAIN s
  <2>1. Proper(s)
    BY <1>1, Zenon
  <2> QED BY <2>1 DEF Proper, Region
<1>3. /\ s[1] \in Record /\ s[1].at < s[1].lim
      /\ region[k] \in Record /\ region[k].at < region[k].lim
      /\ region[idx] \in Record
  BY <1>1, <1>2, ProperRecord, Zenon
<1>4. s[1].at \in Nat /\ region[k].at \in Nat /\ region[k].lim \in Nat /\ region[idx].at \in Nat
  BY <1>3 DEF Record
<1>5. s[1].parent # NoParent
  BY <1>4 DEF NoParent
<1>6. PICK g \in Found : \E l \in DOMAIN g : g[l].at = s[1].parent /\ Holds(g[l], s[1])
  BY <1>1, <1>2, <1>5, Zenon DEF Innermost
<1>7. PICK l \in DOMAIN g : g[l].at = s[1].parent /\ Holds(g[l], s[1])
  BY <1>6, Zenon
<1>8. g[l].at = region[k].at /\ g[l] \in Record /\ g[l].at < g[l].lim
  <2>1. g[l] \in Record /\ g[l].at < g[l].lim
    BY <1>1, <1>7, ProperRecord, Zenon
  <2> QED BY <1>7, <2>1
<1>9. g = region /\ l = k
  <2>1. ~Disjoint(g[l], region[k]) /\ ~Inside(g[l], region[k]) /\ ~Inside(region[k], g[l])
    BY <1>3, <1>8, SameStart, Zenon
  <2>2. \/ Disjoint(g[l], region[k]) \/ Inside(g[l], region[k]) \/ Inside(region[k], g[l])
        \/ (g = region /\ l = k)
    BY <1>1, <1>7, Zenon DEF Nested
  <2> QED BY <2>1, <2>2, Zenon
<1>10. Holds(region[k], s[1])
  BY <1>7, <1>9
<1>11. Inside(s[1], region[k])
  <2>1. \/ Disjoint(s[1], region[k]) \/ Inside(s[1], region[k]) \/ Inside(region[k], s[1])
        \/ (s = region /\ 1 = k)
    BY <1>1, <1>2, Zenon DEF Nested
  <2>2. Disjoint(s[1], region[k]) \/ Inside(s[1], region[k]) \/ Inside(region[k], s[1])
        \/ s[1] = region[k]
    BY <2>1
  <2> QED BY <1>3, <1>10, <2>2, HoldsIsInside, Zenon
<1>12. k < idx
  <2> SUFFICES ASSUME ~(k < idx) PROVE FALSE
    OBVIOUS
  <2>1. k >= idx
    BY <1>1
  <2>2. Fresh(region[k], Found)
    BY <2>1 DEF Placed, Unopened
  <2> QED BY <1>2, <1>11, <2>2, Zenon DEF Fresh
<1>13. region[k].lim <= region[idx].at
  BY <1>1, <1>12 DEF Ordered
<1>14. s[1].at < region[k].lim
  BY <1>10 DEF Holds
<1> QED BY <1>4, <1>13, <1>14

LEMMA BoxDescends ==
    ASSUME IInv, Placed, RunOK, Source, Descends(Line), BoxReturns, ~Empty
    PROVE  Descends(Line')
<1> DEFINE c == ChildOf(call.records, region[idx])
           t == LineOf(regions, region, idx, queue)
           q == <<c>> \o queue
           u == LineOf(regions, region, idx + 1, q)
           n == Len(regions)
<1>1. /\ queue \in Seq(Region) /\ regions \in Seq(Region) /\ region \in Region
      /\ Len(queue) \in Nat /\ n \in Nat /\ idx \in Nat /\ idx > 0 /\ pc = "slice"
      /\ idx + 1 \in Nat /\ idx + 1 > 0
  BY DEF IInv, TypeOK, BoxReturns, SliceEnds, Region
<1>2. /\ region \in Found /\ idx \in DOMAIN region /\ region[idx] \in Record
      /\ Proper(c) /\ c \in Region
      /\ \A k \in DOMAIN c : c[k].parent = region[idx].at /\ Inside(c[k], region[idx])
  BY <1>1, ChildIsWithin DEF Proper
<1>3. queue' = q /\ UNCHANGED <<regions, region>> /\ idx' = idx + 1
  BY <1>2, BoxAdds DEF BoxReturns
<1>4. Line = t /\ Line' = u
  BY <1>3 DEF Line
<1> HIDE DEF c
<1>5. /\ q \in Seq(Region) /\ Len(q) = Len(queue) + 1 /\ q[1] = c
      /\ \A i \in 1 .. Len(queue) : q[i + 1] = queue[i]
  BY <1>1, <1>2
<1> HIDE DEF q
<1>6. LineIs(t, regions, region, 1, queue) /\ LineIs(u, regions, region, 1, q)
  BY <1>1, <1>5, LineFacts, Zenon
<1>l. /\ Line \in Seq(Region) /\ Len(Line) \in Nat /\ DOMAIN Line = 1 .. Len(Line)
      /\ \A i \in DOMAIN Line : Line[i] \in Found /\ Line[i][1].at \in Nat
  BY LineIsFound
<1> HIDE DEF t, u
<1>7. /\ t \in Seq(Region) /\ u \in Seq(Region) /\ Len(u) = Len(t) + 1
      /\ Len(t) = n + 1 + Len(queue) /\ n + 1 \in 1 .. Len(t)
  BY <1>1, <1>5, <1>6 DEF LineIs
<1>8. ASSUME NEW i \in 1 .. n + 1 PROVE u[i] = t[i]
  <2>1. CASE i <= n
    BY <1>1, <1>6, <2>1 DEF LineIs
  <2>2. CASE i = n + 1
    BY <1>6, <2>2 DEF LineIs
  <2> QED BY <1>1, <2>1, <2>2
<1>9. t[n + 1] = region
  BY <1>6 DEF LineIs
<1>10. u[(n + 1) + 1] = c
  <2>1. 1 \in 1 .. Len(q)
    BY <1>1, <1>5
  <2>2. u[n + 1 + 1] = q[1]
    BY <1>6, <2>1 DEF LineIs
  <2> QED BY <1>1, <1>5, <2>2
<1>11. ASSUME NEW i \in (n + 1) + 1 .. Len(t) PROVE u[i + 1] = t[i]
  <2>1. /\ i - n - 1 \in 1 .. Len(queue) /\ n + 1 + (i - n - 1) = i
        /\ (i - n - 1) + 1 \in 1 .. Len(q) /\ n + 1 + ((i - n - 1) + 1) = i + 1
    BY <1>1, <1>5, <1>7
  <2>2. t[n + 1 + (i - n - 1)] = queue[i - n - 1]
    BY <1>6, <2>1 DEF LineIs
  <2>3. u[n + 1 + ((i - n - 1) + 1)] = q[(i - n - 1) + 1]
    BY <1>6, <2>1 DEF LineIs
  <2>4. q[(i - n - 1) + 1] = queue[i - n - 1]
    BY <1>5, <2>1
  <2> QED BY <2>1, <2>2, <2>3, <2>4
<1>12. /\ 1 \in DOMAIN c /\ c[1].at \in Nat /\ c[1].at > region[idx].at
       /\ c[1].parent = region[idx].at /\ region[idx].at \in Nat
  <2>1. 1 \in DOMAIN c
    BY <1>2 DEF Proper, Region
  <2>2. c[1] \in Record /\ c[1].at < c[1].lim
    BY <1>2, <2>1, ProperRecord, Zenon
  <2>3. region[idx].at < c[1].at
    BY <1>2, <2>1, <2>2, InsideIsHolds, Zenon
  <2> QED BY <1>2, <2>1, <2>2, <2>3 DEF Record
<1>13. region[1].at <= region[idx].at /\ region[1].at \in Nat
  <2>1. Proper(region) /\ Ordered(region)
    BY <1>2, FoundIsProper, Zenon DEF Placed
  <2>2. 1 \in DOMAIN region
    BY <2>1 DEF Proper, Region
  <2>3. region[1] \in Record /\ region[1].at < region[1].lim
    BY <2>1, <2>2, ProperRecord, Zenon
  <2>4. region[1].at \in Nat /\ region[1].lim \in Nat
    BY <2>3 DEF Record
  <2>5. idx = 1 \/ region[1].lim <= region[idx].at
    BY <1>1, <1>2, <2>1, <2>2 DEF Ordered
  <2> QED BY <1>12, <2>3, <2>4, <2>5
<1>14. ASSUME NEW i \in (n + 1) + 1 .. Len(t), NEW k \in DOMAIN t[n + 1],
              t[n + 1][k].at = t[i][1].parent
       PROVE  c[1].at > t[i][1].at
  <2>1. i \in DOMAIN Line /\ Line = t
    BY <1>1, <1>4, <1>7, <1>l
  <2>2. t[i] \in Found /\ t[i][1].at \in Nat
    BY <1>l, <2>1
  <2>3. t[i][1].at < region[idx].at
    BY <1>1, <1>2, <1>9, <1>14, <2>2, EarlierBoxes
  <2> QED BY <1>12, <2>2, <2>3
<1>15. Descends(t)
  BY <1>4
<1>16. \E k \in DOMAIN t[n + 1] : t[n + 1][k].at = u[(n + 1) + 1][1].parent
  BY <1>2, <1>9, <1>10, <1>12
<1>17. \A i \in 1 .. Len(t) : t[i][1].at \in Nat
  BY <1>4, <1>l
<1>18. u[(n + 1) + 1][1].at \in Nat /\ u[(n + 1) + 1][1].at >= t[n + 1][1].at
  BY <1>9, <1>10, <1>12, <1>13
<1>19. \A i \in (n + 1) + 1 .. Len(t) :
         (\E k \in DOMAIN t[n + 1] : t[n + 1][k].at = t[i][1].parent)
           => u[(n + 1) + 1][1].at > t[i][1].at
  BY <1>10, <1>14
<1>20. Descends(u)
  BY <1>7, <1>8, <1>11, <1>15, <1>16, <1>17, <1>18, <1>19, JoinsBehind, Zenon
<1> QED BY <1>4, <1>20
OrderInv == JInv /\ Descends(Line)

LEMMA OrderNext ==
    ASSUME OrderInv, [Next]_vars
    PROVE  OrderInv'
<1>i. IInv /\ RunOK /\ Source /\ Loading /\ Placed /\ JInv /\ Descends(Line)
  BY DEF OrderInv, JInv
<1>1. JInv'
  BY <1>i, NextPlaced
<1>2. CASE LoadReturns
  <2>1. CASE Empty
    <3>1. Line' = Line
      BY <1>2, <1>i, <2>1, OthersLine
    <3> QED BY <1>1, <1>i, <3>1 DEF OrderInv
  <2>2. CASE ~Empty
    <3>1. Descends(Line')
      BY <1>2, <1>i, <2>2, LoadDescends
    <3> QED BY <1>1, <3>1 DEF OrderInv
  <2> QED BY <2>1, <2>2
<1>3. CASE BoxReturns
  <2>1. CASE Empty
    <3>1. Line' = Line
      BY <1>3, <1>i, <2>1, OthersLine
    <3> QED BY <1>1, <1>i, <3>1 DEF OrderInv
  <2>2. CASE ~Empty
    <3>1. Descends(Line')
      BY <1>3, <1>i, <2>2, BoxDescends
    <3> QED BY <1>1, <3>1 DEF OrderInv
  <2> QED BY <2>1, <2>2
<1>4. CASE \/ LoadSection \/ SkipSection \/ Loaded \/ ReadRecord \/ SkipRecord \/ OpenBox
           \/ Finish \/ PopRegion \/ EmitRegion \/ UNCHANGED vars
  <2>1. Line' = Line
    BY <1>4, <1>i, OthersLine, PopLine, EmitLine
  <2> QED BY <1>1, <1>i, <2>1 DEF OrderInv
<1> QED BY <1>2, <1>3, <1>4 DEF Next, Parse, Returned

(* The regions come out parents first, and of two boxes of one region the  *)
(* later one with all it holds before the earlier (push_front), for every  *)
(* file and every depth of boxes.                                          *)
THEOREM RegionsComeInOrder == Spec => []DepthFirst
<1>1. Init => OrderInv
  <2> SUFFICES ASSUME Init PROVE OrderInv
    OBVIOUS
  <2>1. Line = << >> \o << >> \o << >>
    BY DEF Init, Line, LineOf
  <2>2. Line = << >>
    BY <2>1
  <2> QED BY <2>2, InitPlaced DEF OrderInv, Descends
<1>2. ASSUME OrderInv PROVE DepthFirst
  <2> DEFINE n == Len(regions)
  <2>1. /\ IInv /\ Separate /\ Nested(Found) /\ Descends(Line)
        /\ \A r \in Found : Proper(r)
    BY <1>2, FoundIsProper, Zenon DEF OrderInv, JInv, Placed
  <2>2. /\ queue \in Seq(Region) /\ regions \in Seq(Region) /\ region \in Region
        /\ idx \in Nat /\ n \in Nat /\ DOMAIN regions = 1 .. n
    BY <2>1 DEF IInv, TypeOK, Region
  <2>3. (\A i \in 1 .. n : Line[i] = regions[i]) /\ (\A i \in 1 .. n : i \in DOMAIN Line)
    <3>1. CASE idx > 0
      <4>1. LineIs(Line, regions, region, 1, queue)
        BY <2>2, <3>1, LineFacts, Zenon DEF Line
      <4> QED BY <2>2, <4>1 DEF LineIs
    <3>2. CASE ~(idx > 0)
      <4>1. LineIs(Line, regions, region, 0, queue)
        BY <2>2, <3>2, LineFacts, Zenon DEF Line
      <4> QED BY <2>2, <4>1 DEF LineIs
    <3> QED BY <3>1, <3>2
  <2>4. ASSUME NEW g \in DOMAIN regions, NEW h \in DOMAIN regions,
               NEW k \in DOMAIN regions[g], NEW l \in DOMAIN regions[h],
               regions[g][k].at = regions[h][l].at
        PROVE  g = h
    <3>1. regions[g] \in Found /\ regions[h] \in Found
      BY DEF Found
    <3>2. /\ regions[g][k] \in Record /\ regions[g][k].at < regions[g][k].lim
          /\ regions[h][l] \in Record /\ regions[h][l].at < regions[h][l].lim
      BY <2>1, <3>1, ProperRecord, Zenon
    <3>3. /\ ~Disjoint(regions[g][k], regions[h][l])
          /\ ~Inside(regions[g][k], regions[h][l]) /\ ~Inside(regions[h][l], regions[g][k])
      BY <2>4, <3>2, SameStart, Zenon
    <3>4. \/ Disjoint(regions[g][k], regions[h][l]) \/ Inside(regions[g][k], regions[h][l])
          \/ Inside(regions[h][l], regions[g][k]) \/ regions[g] = regions[h]
      BY <2>1, <3>1, Zenon DEF Nested
    <3>5. regions[g] = regions[h]
      BY <3>3, <3>4
    <3> QED BY <2>1, <3>5, Zenon DEF Separate
  <2> HIDE DEF n
  <2>5. ASSUME NEW i \in DOMAIN regions, regions[i][1].parent # NoParent
        PROVE  /\ \E h \in 1 .. i - 1 : \E k \in DOMAIN regions[h] :
                    regions[h][k].at = regions[i][1].parent
               /\ \A j \in HolderOf(i) + 1 .. i - 1 : regions[j][1].at > regions[i][1].at
    <3>1. Line[i][1].parent # NoParent /\ i \in DOMAIN Line /\ i \in 1 .. n
      BY <2>2, <2>3, <2>5
    <3>2. PICK h \in 1 .. i - 1 : Above(Line, h, i)
      BY <2>1, <3>1 DEF Descends
    <3>3. h \in DOMAIN regions /\ h \in 1 .. n /\ \A j \in h + 1 .. i - 1 : j \in 1 .. n
      BY <2>2, <3>1
    <3>4. Line[h] = regions[h] /\ Line[i] = regions[i]
          /\ \A j \in h + 1 .. i - 1 : Line[j] = regions[j]
      BY <2>3, <3>1, <3>3
    <3>5. /\ \E k \in DOMAIN regions[h] : regions[h][k].at = regions[i][1].parent
          /\ \A j \in h + 1 .. i - 1 : regions[j][1].at > regions[i][1].at
      BY <3>2, <3>4 DEF Above
    <3>6. /\ HolderOf(i) \in DOMAIN regions
          /\ \E k \in DOMAIN regions[HolderOf(i)] :
               regions[HolderOf(i)][k].at = regions[i][1].parent
      BY <3>3, <3>5, Zenon DEF HolderOf
    <3>7. HolderOf(i) = h
      <4>1. PICK k \in DOMAIN regions[h] : regions[h][k].at = regions[i][1].parent
        BY <3>5, Zenon
      <4>2. PICK l \in DOMAIN regions[HolderOf(i)] :
              regions[HolderOf(i)][l].at = regions[i][1].parent
        BY <3>6, Zenon
      <4>3. regions[h][k].at = regions[HolderOf(i)][l].at
        BY <4>1, <4>2
      <4> QED BY <2>4, <3>3, <3>6, <4>3, Zenon
    <3> QED BY <3>5, <3>7
  <2> QED BY <2>5 DEF DepthFirst
<1>3. OrderInv /\ [Next]_vars => OrderInv'
  BY OrderNext
<1> QED BY <1>1, <1>2, <1>3, PTL DEF Spec
=============================================================================
