-------------------------- MODULE MCContainer --------------------------
(***************************************************************************)
(* Plain records and a box with one; sections of every sort, one after     *)
(* the other or backwards with gaps; entries of both revisions.            *)
(***************************************************************************)
EXTENDS Container

CONSTANTS r1, r2, box, front, frontbox, zero, crashlog, other, text

MCBogus == {front, frontbox}
MCRecords == {r1, r2, box} \cup MCBogus
MCInside == [x \in MCRecords |-> CASE x = box -> <<r2>>
                                   [] x = frontbox -> <<front>>
                                   [] OTHER -> << >>]

MCMistakes == {<<front>>, <<front, frontbox>>}

Region1 == Fer(2, crashlog, <<r1, r2>>)
Region2 == Fer(2, crashlog, <<box, r1, zero, r2>>)
NoRegion == Fer(2, crashlog, <<zero, r1>>)
Other == Fer(2, other, <<r1, text>>)
OldFer == Fer(1, zero, <<text, text>>)
Text == Unknown(<<text, text, text>>)

Total(ns) == FoldLeft(LAMBDA x, y : x + y, 0, ns)
Sizes(bodies, gap) == [i \in DOMAIN bodies |-> BodyLen(bodies[i]) + gap]

FirmwareLayout(bodies, gap, backwards) ==
    LET sizes == Sizes(bodies, gap)
        table == RecordHeaderSize + SectionDescriptorSize * Len(bodies)
    IN [i \in DOMAIN bodies |->
          [body |-> bodies[i], len |-> BodyLen(bodies[i]),
           at |-> table + gap + Total(IF backwards THEN SubSeq(sizes, i + 1, Len(sizes))
                                      ELSE SubSeq(sizes, 1, i - 1))]]

FirmwareCper(bodies, gap, backwards) ==
    LET places == FirmwareLayout(bodies, gap, backwards)
        head == CperHead(Len(bodies))
                \o FlattenSeq([i \in DOMAIN bodies |->
                                 Descriptor(bodies[i].kind, places[i].at, places[i].len)])
        size == Len(head) + gap + Total(Sizes(bodies, gap))
        WordAt(p) == LET in == {i \in DOMAIN bodies : p > places[i].at
                                                    /\ p <= places[i].at + places[i].len}
                   IN IF in = {} THEN zero
                      ELSE LET i == CHOOSE i \in in : TRUE
                           IN FirmwareBytes(bodies[i])[p - places[i].at]
    IN [kind |-> "cper", layout |-> places,
        bytes |-> [p \in 1 .. size |-> IF p <= Len(head) THEN head[p] ELSE WordAt(p)]]

(* BERR with and without a block status, and the table of a BERT.          *)
Starts == {<<[tag |-> "berr", sized |-> sized]>> : sized \in BOOLEAN}
          \cup {<<[tag |-> "bert", sized |-> TRUE]>> \o Zeros(BertSize - 1)}

(* Entries of revision 0x300 and older by turns, padding behind them.      *)
FirmwareBert(bodies, padding, start) ==
    LET entries == [i \in DOMAIN bodies |-> Entry(i % 2 = 1, bodies[i])]
        payload == FlattenSeq(entries)
        places == [i \in DOMAIN bodies |->
                     LET len == BodyLen(bodies[i])
                         end == Len(start) + StatusBlockSize + Len(FlattenSeq(SubSeq(entries, 1, i)))
                     IN [body |-> bodies[i], at |-> end - len, len |-> len]]
    IN [kind |-> "bert", layout |-> places,
        bytes |-> start \o Status(Len(payload) + padding)
                  \o payload \o Zeros(padding)]

FirmwareRegion(s) ==
    [kind |-> "raw", layout |-> <<[body |-> FerOfRegion(s), at |-> 0, len |-> 0]>>, bytes |-> s]

Mixes == {<<Region1>>, <<Text, Region2, Other>>, <<OldFer, Region1, Text>>,
          <<NoRegion, Region1>>, <<Text, NoRegion>>, << >>}

MCFiles ==
    {FirmwareCper(m, g, g > 0) : m \in Mixes, g \in {0, 2}}
    \cup {FirmwareBert(m, pad, start) : m \in {<<Region1>>, <<Text, Region2, Region1>>, <<Text>>},
                                 pad \in {0, 16}, start \in Starts}
    \cup {FirmwareRegion(s) : s \in {<<r1, box, zero, r2>>, <<zero>>}}
=============================================================================
