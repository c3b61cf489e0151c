---------------------------- MODULE Header ----------------------------
(***************************************************************************)
(* The fixed part of a Crash Log record: lib/src/header.rs and the        *)
(* product quirks of lib/src/errata.rs.                                    *)
(*                                                                         *)
(* The bytes found at an offset are abstracted to a "raw header": either  *)
(* the termination marker or the fields a decoder would read there.       *)
(* Whether the decoder may read them depends on how many bytes are left   *)
(* in the slice, so every decoder below takes that number.  All sizes and *)
(* offsets are in bytes.                                                   *)
(***************************************************************************)
EXTENDS Integers

(* Record types used by the control flow (record_types in header.rs).     *)
PCORE == 4
ECORE == 6
BOX   == 61

VersionBytes == 4     \* what Version::from_slice reads
LegacyServerProducts == {47, 130, 142}     \* 0x2f, 0x82, 0x8e
CGC == 133                                 \* 0x85

U16 == 0 .. 65535

(* The version word, for the header types in types (4 bits in the word).   *)
Version(types) == [header_type : types, product_id : 0 .. 4095,
                   record_type : 0 .. 63, cldic : BOOLEAN]
KnownTypes == 0 .. 6

(* size and ext are the words at bytes 4 and 6, legacy_size the word at   *)
(* byte 16, css the completion status size of a Type6 header.             *)
RawHeader == [end : {FALSE}, version : Version(0 .. 15), size : U16, ext : U16,
              legacy_size : U16, css : 0 .. 127]
Marker == [end |-> TRUE]
Raw == RawHeader \cup {Marker}

---------------------------------------------------------------------------
(* errata.rs *)

Type0LegacyServer(v) ==
    v.header_type = 0 /\ v.product_id \in LegacyServerProducts

LegacyServerBox(v) == Type0LegacyServer(v) /\ v.record_type = PCORE

CoreRecordSizeBytes(v) ==
    /\ ~Type0LegacyServer(v)
    /\ \/ v.record_type = ECORE /\ v.product_id < 150
       \/ v.record_type = PCORE /\ (v.product_id < 113 \/ v.product_id = CGC)

---------------------------------------------------------------------------
(* header.rs *)

IsBox(h) == h.version.record_type = BOX \/ LegacyServerBox(h.version)

(* The bytes RecordSize::from_slice* must be able to read. *)
SizeBytes(v) == IF Type0LegacyServer(v) THEN 18 ELSE 8

(* The bytes the variable part of the header needs from the start of the   *)
(* slice: HeaderType::typeN_from_slice, none for Type0 and Type1.          *)
TypeBytes(raw) ==
    LET t == raw.version.header_type IN
    IF Type0LegacyServer(raw.version) THEN 32
    ELSE CASE t \in {0, 1} -> 0
           [] t = 2        -> 24
           [] t = 3        -> 28
           [] t \in {4, 5} -> 32
           [] t = 6        -> 28 + 4 * raw.css

(* A decoded header keeps the two sizes, with the legacy layout resolved. *)
HeaderOf(raw) ==
    [version |-> raw.version,
     size    |-> IF Type0LegacyServer(raw.version) THEN raw.legacy_size ELSE raw.size,
     ext     |-> IF Type0LegacyServer(raw.version) THEN 0 ELSE raw.ext,
     css     |-> raw.css]

Header == [version : Version(KnownTypes), size : U16, ext : U16,
           css : 0 .. 127]

(* Header::from_slice: Ok(None), Err or Ok(Some(HeaderOf(raw))).           *)
IsMarker(raw, left) == left < VersionBytes \/ raw.end
Decodes(raw, left) ==
    /\ ~IsMarker(raw, left)
    /\ left >= SizeBytes(raw.version)
    /\ raw.version.header_type \in KnownTypes
    /\ left >= TypeBytes(raw)

Granularity(h) == IF CoreRecordSizeBytes(h.version) THEN 1 ELSE 4

RecordSize(h) == (h.size + h.ext) * Granularity(h)

HasExtension(h) == h.ext > 0
ExtensionOffset(h) == h.size * Granularity(h)

HeaderSize(h) ==
    LET t == h.version.header_type IN
    IF Type0LegacyServer(h.version) THEN 32
    ELSE CASE t \in {0, 1} -> 8
           [] t = 2        -> 24
           [] t = 3        -> 28
           [] t \in {4, 5} -> 32
           [] t = 6        -> 28 + 4 * h.css
=============================================================================
