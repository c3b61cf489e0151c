------------------------------- MODULE Decode -------------------------------
(***************************************************************************)
(* The decoding of a crash log (CrashLog::decode): each record is decoded  *)
(* line by line of its layouts into a register tree (record/decode.rs,     *)
(* record/core.rs), and the trees are merged into one (node.rs).           *)
(*                                                                         *)
(* A tree maps the path of each of its nodes to the kind of the node; the  *)
(* root is not among them. A byte is the set of its bits, and so is a      *)
(* value.                                                                  *)
(***************************************************************************)
EXTENDS Places

CONSTANTS
    Uppercase,   \* characters; the code of a lower case letter is Shift less
    Shift,
    CrashLogs,   \* sequences of records, see below
    Thread, Core, Module, \* names
    Whoami       \* the path hdr.whoami, and the names of the ids below it
\* The number of a socket, a die or a level is written as one digit.

Section == [kind |-> "section"]
Record == [kind |-> "record"]
Field(v) == [kind |-> "field", value |-> v]
IsNode(x) == x \in {Section, Record} \/ (x = Field(x.value) /\ x.value \subseteq 0 .. 63)

(* A tree has the nodes that its nodes are below. *)
IsTree(t) ==
    /\ IsFiniteSet(DOMAIN t)
    /\ \A p \in DOMAIN t :
         /\ p \in Seq(Name) /\ p # << >>
         /\ \A i \in 1 .. Len(p) : SubSeq(p, 1, i) \in DOMAIN t
         /\ IsNode(t[p])

(* A record has, besides what Places says of it, its bytes, data; core,    *)
(* whether it is decoded as a core record; header, the tree of its header; *)
(* and extended, the offset of its extension or -1. A line of a layout is  *)
(* [bad, name, offset, size]: bad if a number does not parse, name split   *)
(* at its dots. The layouts are layout, thread, core, sq and module.       *)
WellFormed(r) ==
    /\ r.name \in Name /\ IsTree(r.header)
    /\ \A p \in DOMAIN r.header : r.header[p] # Record
    /\ r.data \in Seq(SUBSET (0 .. 7)) /\ r.extended \in Int
    /\ \A h \in {r.hdr, r.parent} : h.socket \in Int /\ h.die \in Int

ASSUME DecodeAssumption ==
    /\ {Thread, Core, Module} \subseteq Name
    /\ \A level \in {Thread, Core, Module} : Whoami[level] \in Seq(Name)
    /\ \A c \in CrashLogs : /\ c \in Seq(ToSet(c)) /\ c # << >>
                            /\ \A i \in DOMAIN c : WellFormed(c[i])

VARIABLES
    crashlog,  \* the records
    n,         \* the record being decoded
    sub,       \* the subsection a core record is tried with
    def,       \* the layout applied: [name, found], the lines of those found
    pc,        \* layout, field, extend, merge, done or panicked
    line,      \* the line applied next
    path,      \* current_path
    bit,       \* how far the field has been read
    value,     \* what has been read of it
    tree,      \* what this layout has given, or the tree being merged
    base,      \* the subsection an extension is merged into
    todo,      \* the nodes of tree still to merge, parents first
    at,        \* where the others have gone
    added,     \* those among them that are new
    result,    \* the tree of the crash log
    decoded    \* history: the tree of each record

vars == <<crashlog, n, sub, def, pc, line, path, bit, value, tree, base,
          todo, at, added, result, decoded>>

NoTree == [p \in {} |-> Section]
Nowhere == [p \in {<< >>} |-> << >>]

Rec == crashlog[n]
Def(r, d) == [name |-> d, found |-> LayoutsOf(r, d)]
FirstDef(r) == Def(r, IF r.core THEN "thread" ELSE "layout")

Init ==
    /\ crashlog \in CrashLogs
    /\ n = 1
    /\ sub = "thread"
    /\ def = FirstDef(crashlog[1])
    /\ pc = "layout"
    /\ line = 1 /\ path = << >> /\ bit = 0 /\ value = {}
    /\ tree = NoTree /\ base = NoTree
    /\ todo = {} /\ at = Nowhere /\ added = {}
    /\ result = NoTree
    /\ decoded = << >>

---------------------------------------------------------------------------
(* node.rs *)

(* The key a node has in the map of its parent. *)
Lower(name) == [i \in DOMAIN name |-> IF name[i] \in Uppercase THEN name[i] - Shift ELSE name[i]]

(* A node is kept under its key but looked up as it is written. *)
Found(p) == \A i \in DOMAIN p : Lower(p[i]) = p[i]

Insert(t, p, node) == [q \in DOMAIN t \cup {p} |-> IF q = p THEN node ELSE t[q]]

(* create_hierarchy: what is there stays. *)
Hierarchy(t, p) ==
    [q \in DOMAIN t \cup (Prefixes(p) \ {<< >>}) |-> IF q \in DOMAIN t THEN t[q] ELSE Section]

(* The tree t with the tree u below its node p. *)
Graft(t, p, u) ==
    [q \in DOMAIN t \cup {p \o r : r \in DOMAIN u} |->
        IF q \in DOMAIN t THEN t[q] ELSE u[SubSeq(q, Len(p) + 1, Len(q))]]

(* The order in which a tree is walked: alphabetical, parents first. *)
Less(a, b) ==
    \/ IsStrictPrefix(a, b)
    \/ \E i \in DOMAIN a \cap DOMAIN b : a[i] < b[i] /\ \A j \in 1 .. i - 1 : a[j] = b[j]
Before(p, q) ==
    \/ IsStrictPrefix(p, q)
    \/ \E i \in DOMAIN p \cap DOMAIN q : Less(p[i], q[i]) /\ \A j \in 1 .. i - 1 : p[j] = q[j]

(* The digits of a number: an i32 has at most ten.                         *)
Tens == <<1, 10, 100, 1000, 10000, 100000, 1000000, 10000000, 100000000, 1000000000>>
Decimal(i) ==
    LET count == Min({10} \cup {k \in 1 .. 9 : i < Tens[k + 1]})
    IN [k \in 1 .. count |-> (i \div Tens[count + 1 - k]) % 10]

Numbered(p, digits) == Append(Front(p), Last(p) \o digits)
IsNumbered(q, p) ==
    LET digits == SubSeq(Last(q), Len(Last(p)) + 1, Len(Last(q)))
    IN digits \in Seq(0 .. 9) /\ q = Numbered(p, digits)

(* The first free one of name0, name1 and so on: a tree has not more names *)
(* than nodes.                                                             *)
Instance(t, p) ==
    LET Taken(i) == Numbered(p, Decimal(i)) \in DOMAIN t
    IN {Numbered(p, Decimal(i)) : i \in {i \in 0 .. Cardinality(DOMAIN t) :
                                            ~Taken(i) /\ \A j \in 0 .. i - 1 : Taken(j)}}

Begin(t) == tree' = t /\ todo' = DOMAIN t /\ at' = Nowhere /\ added' = {}

Target == IF pc = "extend" THEN base ELSE result

(* mutant: every other instance of a name takes the number zero *)
PlaceZero(t, p) ==
    LET to == Append(at[Front(p)], Last(p)) IN
    IF Front(p) \in added \/ to \notin DOMAIN t \/ t[to].kind = "section" THEN {to}
    ELSE {Numbered(to, <<0>>)}

(* Where a node goes: what is new is taken over whole, a section is merged *)
(* with what is there, anything else is there once more under a number.    *)
Place(t, p) ==
    LET to == Append(at[Front(p)], Last(p)) IN
    IF Front(p) \in added \/ to \notin DOMAIN t \/ t[to].kind = "section" THEN {to}
    ELSE Instance(t, to)

MergeNode ==
    /\ pc \in {"extend", "merge"}
    /\ \E node \in todo :
         /\ \A other \in todo : ~Before(other, node)
         /\ \E to \in Place(Target, node) :
              LET new == Front(node) \in added \/ to \notin DOMAIN Target
                  merged == IF new THEN Insert(Target, to, tree[node]) ELSE Target
              IN /\ at' = Insert(at, node, to)
                 /\ added' = IF new THEN added \cup {node} ELSE added
                 /\ base' = IF pc = "extend" THEN merged ELSE base
                 /\ result' = IF pc = "merge" THEN merged ELSE result
         /\ todo' = todo \ {node}
    /\ UNCHANGED <<crashlog, n, sub, def, pc, line, path, bit, value, tree, decoded>>

---------------------------------------------------------------------------
(* decode_with_csv *)

Known == def.found # << >>
Lines == def.found[1]
AtLine == pc = "layout" /\ Known /\ line <= Len(Lines) /\ ~Lines[line].bad

Move(current, segment) ==
    IF segment # << >> THEN Append(current, segment)
    ELSE IF current = << >> THEN << >> ELSE Front(current)

PathOf(name, current) ==
    LET go[i \in 1 .. Len(name)] ==
          IF i > 1 THEN Move(go[i - 1], name[i])
          ELSE IF name[1] # << >> THEN <<name[1]>> ELSE current
    IN go[Len(name)]

(* The first segment of an absolute path is taken for the record name. *)
WithRecord(t, name) ==
    IF name[1] = << >> \/ <<name[1]>> \in DOMAIN t THEN t ELSE Insert(t, <<name[1]>>, Record)

SkipLine ==
    /\ AtLine
    /\ Lines[line].name = << >>
    /\ line' = line + 1
    /\ UNCHANGED <<crashlog, n, sub, def, pc, path, bit, value, tree, base, todo, at, added, result, decoded>>

TakeLine ==
    /\ AtLine
    /\ Lines[line].name # << >>
    /\ LET to == PathOf(Lines[line].name, path) IN
         /\ Found(to)
         /\ path' = to
         /\ tree' = Hierarchy(WithRecord(tree, Lines[line].name), to)
    /\ bit' = 0 /\ value' = {}
    /\ pc' = "field"
    /\ UNCHANGED <<crashlog, n, sub, def, line, base, todo, at, added, result, decoded>>

(* A node has been added under its key and is not found as it is written. *)
NodeMissing ==
    /\ AtLine
    /\ Lines[line].name # << >>
    /\ ~Found(PathOf(Lines[line].name, path))
    /\ pc' = "panicked"
    /\ UNCHANGED <<crashlog, n, sub, def, line, path, bit, value, tree, base, todo, at, added, result, decoded>>

---------------------------------------------------------------------------
(* read_field *)

Offset == IF def.name \in {"sq", "module"} THEN Rec.extended ELSE 0
Start == Offset * 8 + Lines[line].offset
Size == Lines[line].size
Chunk == (Start + bit) \div 8
BitOffset == (Start + bit) % 8
Readable == Size <= 64 /\ (bit < Size => Chunk < Len(Rec.data))

(* mutant: a field may end in the middle of a byte, the mask may not *)
MaskWide == 0 .. 7

Mask == 0 .. Min({Size - bit, 8}) - 1

Masked == {bit + b : b \in {b \in Mask : b + BitOffset \in Rec.data[Chunk + 1]}}

(* mutant: the cursor moves by the offset within the byte *)
ReadChunkStuck ==
    /\ pc = "field"
    /\ Readable /\ bit < Size
    /\ value' = value \cup Masked
    /\ bit' = bit + BitOffset
    /\ UNCHANGED <<crashlog, n, sub, def, pc, line, path, tree, base, todo, at, added, result, decoded>>

ReadChunk ==
    /\ pc = "field"
    /\ Readable /\ bit < Size
    /\ value' = value \cup Masked
    /\ bit' = bit + 8 - BitOffset
    /\ UNCHANGED <<crashlog, n, sub, def, pc, line, path, tree, base, todo, at, added, result, decoded>>

FieldDone ==
    /\ pc = "field"
    /\ Readable /\ bit >= Size
    /\ tree' = IF path = << >> THEN tree ELSE [tree EXCEPT ![path] = Field(value)]
    /\ line' = line + 1
    /\ pc' = "layout"
    /\ UNCHANGED <<crashlog, n, sub, def, path, bit, value, base, todo, at, added, result, decoded>>

(* The field is wide, or reaches behind the record: a node without value. *)
FieldMissing ==
    /\ pc = "field"
    /\ ~Readable
    /\ line' = line + 1
    /\ pc' = "layout"
    /\ UNCHANGED <<crashlog, n, sub, def, path, bit, value, tree, base, todo, at, added, result, decoded>>

---------------------------------------------------------------------------
(* Record::decode and decode_as_core_record, from layout to layout *)

Complete == pc = "layout" /\ Known /\ line > Len(Lines)
Failed == pc = "layout" /\ (Known => line <= Len(Lines) /\ Lines[line].bad)

Apply(d) == def' = d /\ line' = 1 /\ path' = << >> /\ tree' = NoTree

(* The record is decoded: its tree, below the path of its die, is merged.  *)
Decoded(t) ==
    /\ Begin(Graft(Hierarchy(NoTree, Root(Rec)), Root(Rec), t))
    /\ pc' = "merge"
    /\ UNCHANGED <<n, sub, def, line, path, base, result, decoded>>

RecordNode == Insert(NoTree, <<Rec.name>>, Record)
HeaderOnly == Graft(RecordNode, <<Rec.name>>, Rec.header)

SubName == IF sub = "thread" THEN Thread ELSE Core

(* mutant: without a layout for threads only the header is decoded *)
NextSubNone == Decoded(HeaderOnly)

NextSub ==
    IF sub = "thread"
    THEN /\ sub' = "core" /\ base' = NoTree /\ pc' = "layout"
         /\ Apply(Def(Rec, "core"))
         /\ UNCHANGED <<n, todo, at, added, result, decoded>>
    ELSE Decoded(HeaderOnly)

Number(v) ==
    LET highest[k \in 0 .. 64] ==
          IF \A b \in v : b < 64 - k THEN 0
          ELSE 2 * highest[k - 1] + IF 64 - k \in v THEN 1 ELSE 0
    IN highest[64]

(* The registers of a thread go below its module, core and thread, as far  *)
(* as these are known.                                                     *)
Levels(t) ==
    LET Id(level) == <<SubName>> \o Whoami[level]
        Given(level) == Id(level) \in DOMAIN t /\ t[Id(level)].kind = "field"
        Below(level) == IF Given(level) THEN <<Append(level, Number(t[Id(level)].value))>> ELSE << >>
    IN Below(Module) \o Below(Core) \o Below(Thread)

Close(t) ==
    IF <<SubName>> \notin DOMAIN t THEN NextSub
    ELSE LET below == <<Rec.name>> \o Levels(t) IN
         Decoded(Graft(Hierarchy(RecordNode, below), below, t))

LayoutDone ==
    /\ Complete
    /\ CASE def.name = "layout" -> Decoded(tree)
         [] def.name \in {"thread", "core"} ->
              IF Rec.extended < 0 THEN Close(tree)
              ELSE /\ base' = tree
                   /\ Apply(Def(Rec, "sq"))
                   /\ UNCHANGED <<n, sub, pc, todo, at, added, result, decoded>>
         [] def.name \in {"sq", "module"} ->
              /\ Begin(tree)
              /\ pc' = "extend"
              /\ UNCHANGED <<n, sub, def, line, path, base, result, decoded>>
    /\ UNCHANGED <<crashlog, bit, value>>

(* There is no such layout, or one of its lines is malformed. *)
LayoutFails ==
    /\ Failed
    /\ CASE def.name = "layout" -> Decoded(HeaderOnly)
         [] def.name \in {"thread", "core"} -> NextSub
         [] def.name = "sq" -> /\ Apply(Def(Rec, "module"))
                          /\ UNCHANGED <<n, sub, pc, base, todo, at, added, result, decoded>>
         [] def.name = "module" -> Close(base)
    /\ UNCHANGED <<crashlog, bit, value>>

Extended ==
    /\ pc = "extend" /\ todo = {}
    /\ Close(base)
    /\ UNCHANGED <<crashlog, bit, value>>

Merged ==
    /\ pc = "merge" /\ todo = {}
    /\ decoded' = Append(decoded, tree)
    /\ n' = n + 1
    /\ sub' = "thread" /\ base' = NoTree
    /\ IF n < Len(crashlog)
       THEN Apply(FirstDef(crashlog[n + 1])) /\ pc' = "layout"
       ELSE pc' = "done" /\ UNCHANGED <<def, line, path, tree>>
    /\ UNCHANGED <<crashlog, bit, value, todo, at, added, result>>

Next == \/ SkipLine \/ TakeLine \/ NodeMissing
        \/ ReadChunk \/ FieldDone \/ FieldMissing
        \/ LayoutDone \/ LayoutFails \/ MergeNode \/ Extended \/ Merged

(* decode is a sequential function: it runs on as long as it can.          *)
Spec == Init /\ [][Next]_vars /\ WF_vars(Next)

---------------------------------------------------------------------------
Bits(start, size) == {b \in 0 .. size - 1 : (start + b) % 8 \in Rec.data[(start + b) \div 8 + 1]}

(* The segments that decide where line i is, an empty one leading up.      *)
Segments(lines) ==
    LET segments[i \in 0 .. Len(lines)] ==
          IF i = 0 THEN << >>
          ELSE IF lines[i].name = << >> THEN segments[i - 1]
          ELSE IF lines[i].name[1] # << >> THEN lines[i].name
          ELSE segments[i - 1] \o Tail(lines[i].name)
    IN segments

(* How many more of the first segments lead down than up. *)
Heights(s) ==
    LET heights[k \in 0 .. Len(s)] ==
          IF k = 0 THEN 0 ELSE heights[k - 1] + IF s[k] = << >> THEN -1 ELSE 1
    IN heights

(* A segment is part of the path unless more segments lead up behind it    *)
(* than down.                                                              *)
Staying(s) ==
    LET heights == Heights(s)
    IN {k \in DOMAIN s : s[k] # << >> /\ \A j \in k + 1 .. Len(s) : heights[j] >= heights[k]}

Remaining(s) ==
    LET staying == Staying(s)
        remaining[k \in 0 .. Len(s)] ==
          IF k = 0 THEN << >>
          ELSE IF k \in staying THEN Append(remaining[k - 1], s[k])
          ELSE remaining[k - 1]
    IN remaining[Len(s)]

PlaceOf(lines, i) == Remaining(Segments(lines)[i])
PathAt(i) == PlaceOf(Lines, i)

FieldStart(i) == Offset * 8 + Lines[i].offset

(* The line gives a value: it is at most 64 bits wide and within the record. *)
Reads(i) ==
    /\ Lines[i].name # << >>
    /\ Lines[i].size <= 64
    /\ Lines[i].size > 0 => FieldStart(i) + Lines[i].size <= 8 * Len(Rec.data)

(* Every register is where its path says, however its name follows from    *)
(* the ones before it, and has the bits it has in the record, wherever     *)
(* they start and end within the bytes. It has a value if and only if one  *)
(* of its lines is at most 64 bits wide and lies within the record; the    *)
(* last one counts.                                                        *)
FieldsOf(lines) ==
    LET read == {i \in lines : Reads(i)}
        places == [i \in read |-> PathAt(i)]
        At(p) == {i \in read : places[i] = p}
    IN /\ \A i \in read : places[i] # << >> => places[i] \in DOMAIN tree
       /\ \A p \in DOMAIN tree :
            IF At(p) = {} THEN tree[p].kind # "field"
            ELSE tree[p] = Field(Bits(FieldStart(Max(At(p))), Lines[Max(At(p))].size))

FieldsRight == pc = "layout" /\ Known => FieldsOf(1 .. line - 1)

---------------------------------------------------------------------------
(* The part of a tree below p, and p. *)
Subtree(t, p) == [q \in {SubSeq(q, Len(p) + 1, Len(q)) : q \in {q \in DOMAIN t : IsPrefix(p, q)}}
                    |-> t[p \o q]]

Registers(t) == {p \in DOMAIN t : /\ t[p].kind = "record"
                                  /\ \A q \in Prefixes(p) \ {<< >>, p} : t[q].kind # "record"}

(* The place of a record: its own die or that of its box, below the socket *)
(* of the same header, and by its name if it has one. A box whose die has  *)
(* a name comes before an own die that has none.                           *)
AtHome(r, root) ==
    LET Below(h, name) == h.die # NoDie /\ root = <<Processors, Append(Cpu, h.socket), name>>
        Called(h) == \E p \in DOMAIN TargetInfo : p = h.product /\ h.die \in DOMAIN TargetInfo[p].dies
        DieName(h) == IF Called(h) THEN TargetInfo[h.product].dies[h.die] ELSE Append(Die, h.die)
    IN IF r.hdr.die = NoDie /\ r.parent.die = NoDie THEN root = << >>
       ELSE \E h \in {r.hdr, r.parent} :
              /\ Below(h, DieName(h))
              /\ Called(r.hdr) => h = r.hdr
              /\ Called(r.parent) /\ ~Called(r.hdr) => h = r.parent
              /\ r.hdr.die # NoDie /\ ~Called(r.parent) => h = r.hdr

(* However many records of one type and die a crash log has, with or       *)
(* without layouts: each record's registers are in the tree of the crash   *)
(* log as they were decoded, those of no other record among them, below    *)
(* the die they belong to, and under the name of the record or a number of *)
(* it.                                                                     *)
RecordsIntact ==
    pc \in {"layout", "done"} /\ (tree = NoTree \/ pc = "done") =>
    LET all == UNION {{<<k, p>> : p \in Registers(decoded[k])} : k \in DOMAIN decoded}
        Alike(x, y) == /\ x[2] = y[2]
                       /\ Subtree(decoded[x[1]], x[2]) = Subtree(decoded[y[1]], y[2])
        Holds(q, x) == Subtree(result, q) = Subtree(decoded[x[1]], x[2])
    IN \A x \in all :
         /\ AtHome(crashlog[x[1]], Front(x[2]))
         /\ Cardinality({y \in all : Alike(x, y)})
              <= Cardinality({q \in DOMAIN result : IsNumbered(q, x[2]) /\ Holds(q, x)})

(* The layout d of the record r is sound and gives the record name. *)
GivesRecord(r, d, name) ==
    \E lines \in ToSet(LayoutsOf(r, d)) :
      /\ \A i \in DOMAIN lines : ~lines[i].bad
      /\ \E i \in DOMAIN lines : lines[i].name # << >> /\ lines[i].name[1] = name

HasRecord(t, name) == \E p \in DOMAIN t : Last(p) = name /\ t[p] = Record

(* A core record is decoded with the layout of its threads if that one is  *)
(* sound and gives a thread, else with the one of its core, and as a mere  *)
(* header only if neither will do, whatever becomes of the extensions.     *)
FallsBackIn(r, t) ==
    LET threads == GivesRecord(r, "thread", Thread)
        cores == GivesRecord(r, "core", Core)
    IN r.core => /\ HasRecord(t, Thread) <=> threads
                 /\ HasRecord(t, Core) <=> cores /\ ~threads

FallsBack == \A k \in DOMAIN decoded : FallsBackIn(crashlog[k], decoded[k])

(* The records named for threads and cores are those of the layout that is *)
(* for them, come up first by their name, and are too wide to be a value.  *)
PlainFor(lines, names) ==
    \A x \in {Thread, Core} : \A j \in DOMAIN lines : lines[j].name # << >> =>
      LET Named(i) == lines[i].name # << >> /\ lines[i].name[1] = x
          place == PlaceOf(lines, j)
      IN /\ Named(j) => x \in names
         /\ place # << >> /\ place[1] = x => \E i \in 1 .. j : Named(i)
         /\ place = <<x>> => lines[j].size > 64

(* So it is in the layouts of cores that the collateral tree has.          *)
LayoutsPlain ==
    LET names == [thread |-> {Thread}, core |-> {Core}, sq |-> {}, module |-> {}]
    IN /\ Thread # Core
       /\ \A x \in {Thread, Core} : Last(x) \notin 0 .. 9
       /\ \A c \in CrashLogs : \A i \in DOMAIN c : c[i].core =>
            /\ c[i].name \notin {Thread, Core}
            /\ \A d \in DOMAIN names : \A lines \in ToSet(LayoutsOf(c[i], d)) :
                 PlainFor(lines, names[d])

(* The decoding comes to its end, unless a layout has a name in upper case. *)
Decodes ==
    <>(\/ pc = "done"
       \/ pc = "panicked" /\ \E i \in DOMAIN Lines :
                               ~Found(SelectSeq(Lines[i].name, LAMBDA s : s # << >>)))
=============================================================================
