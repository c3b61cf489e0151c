------------------------------ MODULE MCTriage ------------------------------
(***************************************************************************)
(* For the decoding: records with a plain layout, some of a die, some with *)
(* nothing but a header, and core records with the extensions of both      *)
(* sorts of core. For the triage: records with something to find, and with *)
(* what only looks like it.                                                *)
(***************************************************************************)
EXTENDS Triage

CONSTANT MaxRecords

MCUppercase == 30 .. 39
MCShift == 20

(* The names, in alphabetical order as far as it matters. *)
a == <<10>>
core == <<11>>
die == <<12>>
hdr == <<13>>
mca == <<14>>
module == <<15>>
pcore == <<16>>
thread == <<17>>
UpperA == <<30>>
up == << >>

MCThread == thread
MCCore == core
MCModule == module
MCWhoami == [level \in {module, core, thread} |-> <<hdr, level>>]

Line(name, offset, size) == [bad |-> FALSE, name |-> name, offset |-> offset, size |-> size]
Bad == [bad |-> TRUE, name |-> << >>, offset |-> 0, size |-> 0]
Blank == Line(<< >>, 0, 0)

(* Wide, relative, unaligned, given twice, behind the record, empty. *)
McaLayout == <<Line(<<mca>>, 0, 72), Line(<<up, hdr, a>>, 3, 11), Blank,
               Line(<<up, up, thread>>, 14, 10), Line(<<mca, hdr>>, 8, 4),
               Line(<<up, a>>, 9, 13), Line(<<up, up, up, core>>, 20, 5)>>
TwoTops == <<Line(<<mca>>, 0, 24), Line(<<up, a>>, 5, 0), Line(<<a, up, a, hdr>>, 0, 8)>>

ThreadLayout == <<Line(<<thread>>, 0, 72), Line(<<up, hdr, core>>, 1, 3),
                  Line(<<up, up, thread>>, 4, 1), Line(<<thread, a>>, 4, 8)>>
CoreLayout == <<Line(<<core, hdr, core>>, 1, 3), Line(<<up, up, module>>, 6, 2)>>
SqLayout == <<Line(<<die>>, 0, 8), Line(<<up, a>>, 6, 4)>>
ModuleLayout == <<Line(<<module>>, 0, 4)>>

Bytes(k) == IF k = 1 THEN <<{1, 3, 4, 7}, {0, 1, 6}, {2, 5, 7}>> ELSE <<{2, 3, 5}, {0, 7}, {1, 4, 6}>>

(* The products 1 and 2, of which the dies 0 and 5 have a name.            *)
MCTargetInfo ==
    [product \in 1 .. 2 |->
       [product |-> "abc", variant |-> "all",
        dies |-> IF product = 1 THEN 0 :> Append(a, 4) ELSE 5 :> Append(a, 4)]]

From(product, die_id) == [product |-> product, revision |-> 0, socket |-> 0, die |-> die_id]
Dieless == [hdr |-> From(1, NoDie), parent |-> NoParent]
OwnName == [hdr |-> From(1, 0), parent |-> NoParent]
OwnNumber == [hdr |-> From(1, 5), parent |-> NoParent]
Boxed == [hdr |-> From(1, NoDie), parent |-> From(2, 5)]
NamedByBox == [hdr |-> From(1, 5), parent |-> From(2, 5)]
Unknown == [hdr |-> From(3, 0), parent |-> [From(1, 3) EXCEPT !.socket = 1]]
AnyProduct == [hdr |-> From(0, NoDie), parent |-> [From(1, 3) EXCEPT !.socket = 1]]

(* A record's revision tells its layouts.                                  *)
Plain(k, revision, site) ==
    [data |-> Bytes(k), name |-> mca, known |-> TRUE, core |-> FALSE, extended |-> -1,
     hdr |-> [site.hdr EXCEPT !.revision = revision], parent |-> site.parent,
     header |-> [p \in {<<hdr>>, <<hdr, a>>} |-> IF p = <<hdr>> THEN Section ELSE Field({k})]]
CoreOne(k, extended, revision, site) ==
    [Plain(k, revision, site) EXCEPT !.name = pcore, !.core = TRUE, !.extended = extended]

None == 99
Sound == {Plain(1, 1, Dieless), Plain(2, None, Dieless), Plain(2, 2, OwnName)}
Headers == {[Plain(1, 1, Boxed) EXCEPT !.known = FALSE, !.name = die], Plain(2, 3, Dieless)}
Cores == {CoreOne(1, 1, 4, OwnName), CoreOne(2, 1, 5, NamedByBox), CoreOne(2, -1, 6, AnyProduct),
          CoreOne(1, 2, 7, OwnNumber), CoreOne(1, -1, 7, Unknown)}
Upper == {Plain(1, 9, Dieless)}

---------------------------------------------------------------------------
(* The names of the analysis.                                              *)
MCWord ==
    [hdr |-> hdr, mca |-> mca, pcore |-> pcore, thread |-> thread, ecore |-> <<40>>,
     bank |-> <<41, 42>>, status |-> <<43>>, arch_state |-> <<44>>, sq |-> <<45>>, xq |-> <<46>>,
     entry |-> <<47>>, xq_ |-> <<46, 48>>, addr |-> <<49>>, addr_51_6 |-> <<49, 5, 1, 50, 6>>,
     valid |-> <<51>>, pmc |-> <<52>>, pmc_rst |-> <<52, 53>>,
     gblrst_cause_0 |-> <<54, 0>>, fw_gblrst_cause_0 |-> <<55, 54, 0>>, host_pr_cause_0 |-> <<56, 0>>,
     punit |-> <<57>>, reason |-> <<58>>, crashlog_agent |-> <<59>>, instruction_pointer |-> <<60>>]

W(word) == MCWord[word]
BankN(i) == Append(W("bank"), i)
EntryN(i) == Append(W("entry"), i)

(* Eight bytes of a status: the low half, the model specific half, valid.  *)
Word64(bits) == [i \in 1 .. 8 |-> {b \in 0 .. 7 : 8 * (i - 1) + b \in bits}]
TimerError == Word64({10, 17, 63})
IdleTimer == Word64({10})
Garbage == Word64(DeadBeef \cup {63})
OtherError == Word64({0, 10, 20, 63})

Of(name, data, revision, site) ==
    [Plain(1, revision, site) EXCEPT !.name = name, !.data = data]

(* A bank deeper down, one that was not collected, one without a number,   *)
(* one that is not valid.                                                  *)
BankLayout ==
    <<Line(<<mca>>, 0, 256), Line(<<up, a, BankN(4), W("status")>>, 0, 64),
      Line(<<up, up, up, BankN(3), W("status")>>, 64, 64),
      Line(<<up, up, up, W("bank"), W("status")>>, 0, 64),
      Line(<<up, up, up, up, BankN(1), W("status")>>, 128, 64)>>

(* The registers of a thread, with and without a queue in the extension.   *)
TimerLayout ==
    <<Line(<<thread, hdr, core>>, 17, 1),
      Line(<<up, up, up, W("arch_state"), mca, BankN(3), W("status")>>, 0, 64)>>
QueueLayout ==
    <<Line(<<W("sq"), EntryN(0), W("valid")>>, 1, 1), Line(<<up, W("addr_51_6")>>, 0, 62),
      Line(<<up, up, up, EntryN(1), W("valid")>>, 2, 1), Line(<<up, W("addr")>>, 0, 8)>>
Timer(extended, data) ==
    [CoreOne(1, extended, 11, OwnName) EXCEPT !.data = data \o <<{1}, {3}, {}, {5}, {}, {}, {}, {7}>>]

CauseLayout(nested) ==
    <<Line(nested \o <<W("gblrst_cause_0"), a>>, 0, 2), Line(<<up, core>>, 4, 4),
      Line(<<up, up, up, W("host_pr_cause_0"), a>>, 9, 1)>>
ResetAt(revision) == Of(W("pmc_rst"), <<{0, 3}, {1}>>, revision, Dieless)

AgentLayout ==
    <<Line(<<W("crashlog_agent"), W("status")>>, 0, 8), Line(<<up, W("instruction_pointer")>>, 8, 8)>>
Agent(status) == Of(W("crashlog_agent"), <<status, {2, 5}>>, 14, OwnName)

Reset(name) == [Plain(1, None, OwnName) EXCEPT !.name = W(name),
                  !.header = [p \in {<<hdr>>, <<hdr, W("reason")>>} |->
                                IF p = <<hdr>> THEN Section ELSE Field({4, 33})]]

Triaged == {Of(mca, TimerError \o Garbage \o IdleTimer, 10, Dieless),
            Of(mca, OtherError \o Word64({63}) \o OtherError, 10, OwnName),
            Timer(8, TimerError), Timer(-1, TimerError), Timer(8, IdleTimer), Timer(-1, OtherError),
            ResetAt(12), ResetAt(13),
            Agent({0, 2}), Agent({}), Agent({4}), Reset("punit"), Reset("pmc")}

---------------------------------------------------------------------------
(* The layouts, some of them for any revision or any product.              *)
Abc == <<"abc", "all">>
For(pvs, type, of, revision, layout, lines) ==
    [pvs |-> pvs, type |-> type, die |-> of, revision |-> revision, layout |-> layout] :> lines

MCLayouts ==
    For(Abc, mca, << >>, 1, "layout", McaLayout)
    @@ For(Abc, mca, << >>, AnyRevision, "layout", McaLayout)
    @@ For(Abc, mca, << >>, 2, "layout", McaLayout)
    @@ For(Abc, mca, a, 2, "layout", TwoTops)
    @@ For(Abc, mca, << >>, 3, "layout", <<Line(<<a>>, 0, 8), Bad>>)
    @@ For(Abc, pcore, a, 4, "thread", ThreadLayout)
    @@ For(Abc, pcore, a, 4, "sq", SqLayout)
    @@ For(Abc, pcore, << >>, 5, "thread", TwoTops)
    @@ For(Abc, pcore, << >>, 5, "core", CoreLayout)
    @@ For(Abc, pcore, << >>, 5, "sq", <<Bad>>)
    @@ For(Abc, pcore, << >>, 5, "module", ModuleLayout)
    @@ For(<<"all", "all">>, pcore, << >>, 6, "thread", Append(ThreadLayout, Bad))
    @@ For(<<"all", "all">>, pcore, << >>, 6, "core", CoreLayout)
    @@ For(Abc, pcore, << >>, 7, "thread", ThreadLayout)
    @@ For(Abc, mca, << >>, 9, "layout", <<Line(<<mca>>, 0, 8), Line(<<up, UpperA>>, 0, 8)>>)
    @@ For(Abc, mca, << >>, 10, "layout", BankLayout)
    @@ For(Abc, mca, a, 10, "layout", BankLayout)
    @@ For(Abc, pcore, a, 11, "thread", TimerLayout)
    @@ For(Abc, pcore, a, 11, "sq", QueueLayout)
    @@ For(Abc, W("pmc_rst"), << >>, 12, "layout", CauseLayout(<<W("pmc_rst"), W("pmc")>>))
    @@ For(Abc, W("pmc_rst"), << >>, 13, "layout", CauseLayout(<<W("pmc_rst")>>))
    @@ For(Abc, W("crashlog_agent"), a, 14, "layout", AgentLayout)

MCProcessors == <<61>>
MCCpu == <<62>>
MCDie == die

MCCrashLogs == UNION {[1 .. k -> Sound \cup Headers \cup Cores] : k \in 1 .. MaxRecords}
               \cup [1 .. 2 -> Sound \cup Upper]
               \cup UNION {[1 .. k -> Triaged] : k \in 1 .. 2}
               \cup [1 .. 13 -> {Plain(2, 3, Dieless)}]

ASSUME MCLayoutsPlain == LayoutsPlain
=============================================================================
