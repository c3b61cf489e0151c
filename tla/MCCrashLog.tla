--------------------------- MODULE MCCrashLog ---------------------------
(***************************************************************************)
(* Small files for CrashLog: every image of at most MaxLen bytes whose     *)
(* headers sit on the multiples of Step and come from a short list, read  *)
(* as a raw region or as the two sections of a BERT or CPER file.          *)
(***************************************************************************)
EXTENDS CrashLog, TLC

CONSTANTS Lens,        \* lengths of an image
          Step,        \* distance of the offsets a header may start at
          Slots,       \* the number of those offsets filled freely
          Split        \* where the two sections of a container meet

V(ht, pid, rt) == [header_type |-> ht, product_id |-> pid, record_type |-> rt,
                   cldic |-> FALSE]
Hdr(v, size, ext) == [end |-> FALSE, version |-> v, size |-> size, ext |-> ext,
                      legacy_size |-> 12, css |-> 0]

Plain  == V(1, 121, 62)
BoxV   == V(1, 121, BOX)
Bad    == Hdr(V(9, 121, 62), 2, 0)        \* unknown header type
Leaf   == Hdr(Plain, 2, 0)                \* 8 bytes: a bare header
Long   == Hdr(Plain, 2, 2)                \* 16 bytes, half of it extended
Empty0 == Hdr(Plain, 0, 0)
Box16  == Hdr(BoxV, 4, 0)                 \* a box around 8 bytes
Box24  == Hdr(BoxV, 6, 0)
Box32  == Hdr(BoxV, 8, 0)
Short  == Hdr(BoxV, 1, 0)                 \* a box smaller than its header
Core   == Hdr(V(1, 16, ECORE), 8, 0)      \* size in bytes
Legacy == Hdr(V(0, 47, PCORE), 0, 0)      \* legacy box: 32 byte header, 48 bytes

Menu == {Marker, Bad, Leaf, Long, Empty0, Box16, Box24, Box32, Core}
Tail0 == Leaf        \* what the offsets beyond the free slots hold

ImageOf(len, f) ==
    [len |-> len,
     at  |-> [o \in 0 .. len - 1 |->
                IF o % Step = 0 /\ o \div Step < Slots THEN f[o \div Step]
                ELSE IF o % Step = 0 THEN Tail0 ELSE Bad]]

MCImages == {ImageOf(len, f) : len \in Lens, f \in [0 .. Slots - 1 -> Menu]}

Raw1(m) == [container |-> "raw",
            sections |-> <<[base |-> 0, end |-> m.len, tag |-> "crashlog"]>>]

Two(c, m) ==
    {[container |-> c,
      sections |-> <<[base |-> 0, end |-> Split, tag |-> t],
                     [base |-> Split, end |-> m.len, tag |-> u]>>] :
       t \in {"crashlog", "fer"}, u \in {"crashlog", "other"}}

MCInputs(m) == {Raw1(m)} \cup
               (IF m.len > Split THEN Two("bert", m) \cup Two("cper", m) ELSE {})

MCFiles == UNION {{[image |-> m, input |-> in] : in \in MCInputs(m)} : m \in MCImages}
           \cup
           {[image |-> m, input |-> Raw1(m)] : m \in
               {[len |-> 64, at |-> [o \in 0 .. 63 |->
                   CASE o = 0 -> Legacy [] o = 32 -> x [] o = 40 -> y
                     [] o = 48 -> z [] OTHER -> Bad]] :
                  x \in {Leaf, Short, Box16}, y \in {Leaf, Marker}, z \in {Leaf, Box16}}}
=============================================================================
