------------------------------- MODULE Triage -------------------------------
(***************************************************************************)
(* The triage of a crash log (lib/src/analysis, app/src/analysis.rs): what *)
(* module Decode decodes and merges is walked record by record, what the   *)
(* registers say is put down as tags, and the tags are reported by         *)
(* priority.                                                                *)
(*                                                                         *)
(* A tag is known by the node it was found at, besides what it says, so    *)
(* that two tags of one text are two. The order of the walk shows nowhere  *)
(* but in the order of tags of one priority, which the heap leaves open:   *)
(* the nodes of one depth are visited in one step.                         *)
(***************************************************************************)
EXTENDS Decode

CONSTANT Word  \* the names the analysis looks for, as sequences of characters

Words ==
    {"pmc_rst", "punit", "pmc", "pcore", "ecore", "mca", "crashlog_agent", "bank", "status",
     "thread", "arch_state", "sq", "xq", "entry", "xq_", "addr", "addr_51_6", "valid",
     "gblrst_cause_0", "fw_gblrst_cause_0", "host_pr_cause_0", "hdr", "reason", "instruction_pointer"}

ASSUME TriageAssumption ==
    /\ Word \in [Words -> Name]
    /\ \A v, w \in Words : Word[v] = Word[w] => v = w
    /\ Last(Word["bank"]) \notin 0 .. 9

VARIABLES
    visits,  \* the nodes to visit, and what for: [by, at]
    tags,    \* the heap of tags
    report   \* the tags reported

analysis == <<visits, tags, report>>

Visit(by, ps) == {[by |-> by, at |-> p] : p \in ps}
Tag(priority, p, what) == [priority |-> priority, at |-> p, what |-> what]

TriageInit ==
    /\ Init
    /\ visits = Visit("records", {<< >>})
    /\ tags = {} /\ report = << >>

---------------------------------------------------------------------------
(* Nodes of the decoded tree *)

Has(p) == p \in DOMAIN result
HasValue(p) == Has(p) /\ result[p].kind = "field"
Value(p) == result[p].value
At(p, words) == p \o [i \in DOMAIN words |-> Word[words[i]]]
Children(p) == {q \in DOMAIN result : q = Append(p, Last(q))}
IsRecord(p) == p # << >> /\ result[p].kind = "record"

---------------------------------------------------------------------------
(* mca.rs: a bank has a status and a number, and something was collected.  *)
DeadBeef == {0, 1, 2, 3, 5, 6, 7, 9, 10, 11, 12, 13, 15, 16, 18, 19, 21, 23, 25, 26,
             27, 28, 30, 31}

BankDigits(p) == SubSeq(Last(p), Len(Word["bank"]) + 1, Len(Last(p)))
BankId(p) == FoldLeft(LAMBDA id, digit : 10 * id + digit, 0, BankDigits(p))
Status(p) == Value(At(p, <<"status">>))

IsBank(p) == /\ HasValue(At(p, <<"status">>))
             /\ IsPrefix(Word["bank"], Last(p))
             /\ BankDigits(p) # << >> /\ ToSet(BankDigits(p)) \subseteq 0 .. 9
             /\ Status(p) \cap 0 .. 31 # DeadBeef

(* The low half of a status; a code of a timer is also an internal one.    *)
ErrorCode(status) ==
    LET code == Number(status \cap 0 .. 15)
        named == {0, 1, 2, 3, 4, 5, 6, 1024, 3595}
    IN IF code \in named THEN <<"known", code>>
       ELSE IF code \div 1024 = 1 THEN <<"internal", code % 1024>>
       ELSE <<"raw", code>>

InternalTimerError == <<"known", 1024>>
ModelSpecificCode(status) == {b - 16 : b \in status \cap 16 .. 31}

BankTags(ps) ==
    {Tag(5, p, <<"MachineCheck", BankId(p), ModelSpecificCode(Status(p)), ErrorCode(Status(p))>>) :
        p \in {p \in ps : IsBank(p) /\ 63 \in Status(p)}}

---------------------------------------------------------------------------
(* core.rs, xq.rs *)

HasThread(p) == Has(At(p, <<"thread">>))
CoreMca(p) == At(p, <<"thread", "arch_state", "mca">>)
Bank3(p) == Append(CoreMca(p), Append(Word["bank"], 3))

Queue(p) == IF Has(At(p, <<"sq">>)) THEN At(p, <<"sq">>) ELSE At(p, <<"xq">>)

(* A shift by six loses the bits above the address. *)
Shifted(v) == {b + 6 : b \in v} \cap 0 .. 63

Transactions(q) ==
    {e \in Children(q) : /\ TrimDigits(Last(e)) \in {Word["entry"], Word["xq_"]}
                         /\ HasValue(At(e, <<"addr">>)) \/ HasValue(At(e, <<"addr_51_6">>))}

Address(e) == IF HasValue(At(e, <<"addr">>)) THEN Value(At(e, <<"addr">>))
              ELSE Shifted(Value(At(e, <<"addr_51_6">>)))

Stuck(q) == {e \in Transactions(q) : HasValue(At(e, <<"valid">>)) /\ Value(At(e, <<"valid">>)) # {}}

QueueState(p) ==
    IF ~Has(Queue(p)) THEN <<"NotCaptured">>
    ELSE CASE Cardinality(Stuck(Queue(p))) = 0 -> <<"NoStuckTransaction">>
           [] Cardinality(Stuck(Queue(p))) = 1 ->
                <<"SingleStuckTransaction", Address(CHOOSE e \in Stuck(Queue(p)) : TRUE)>>
           [] OTHER -> <<"MultipleStuckTransaction">>

TimedOut(p) == /\ Has(Bank3(p)) /\ IsBank(Bank3(p))
               /\ 63 \in Status(Bank3(p))
               /\ ErrorCode(Status(Bank3(p))) = InternalTimerError

Timeouts(p) == IF TimedOut(p) THEN {Tag(10, p, <<"CoreTimeout">> \o QueueState(p))} ELSE {}

---------------------------------------------------------------------------
(* reset.rs, reason.rs, agent.rs *)

Nested(p) == IF Has(At(p, <<"pmc_rst">>)) THEN {At(p, <<"pmc_rst">>)}
             ELSE {At(p, <<"pmc">>)} \cap DOMAIN result

ResetCauses(p) ==
    {Tag(0, c, <<"ResetCause">>) :
        c \in {c \in UNION {Children(At(p, <<register>>)) :
                              register \in {"gblrst_cause_0", "fw_gblrst_cause_0", "host_pr_cause_0"}} :
                 HasValue(c) /\ Value(c) # {}}}

Reasons(p) ==
    {Tag(0, p, <<"CrashLogReason", Value(f) \cap 0 .. 31>>) :
        f \in {f \in {At(p, <<"hdr", "reason">>)} : HasValue(f)}}

(* Sixteen status values have a name, two of which are no error.           *)
AgentErrors(p) ==
    LET status == At(p, <<"status">>)
        ip == At(p, <<"instruction_pointer">>)
    IN IF HasValue(status) /\ HasValue(ip) /\ Value(status) \subseteq 0 .. 3
          /\ Value(status) \notin {{}, 0 .. 3}
       THEN {Tag(0, p, <<"CrashLogAgentError", Value(status), Value(ip) \cap 0 .. 31>>)}
       ELSE {}

---------------------------------------------------------------------------
(* analysis.rs *)

(* mutant: the name is compared with the number it got in the merge        *)
Exactly(p) ==
    LET Is(words) == \E w \in words : Last(p) = Word[w] IN
    CASE Is({"pmc_rst"})        -> {"pmc_rst"}
      [] Is({"punit", "pmc"})   -> {"reason"}
      [] Is({"pcore", "ecore"}) -> {"core"}
      [] Is({"mca"})            -> {"mca"}
      [] Is({"crashlog_agent"}) -> {"agent"}
      [] OTHER                  -> {}

(* analyze_record: by the name of the record, whatever its number.         *)
Analyses(p) ==
    LET Is(words) == \E w \in words : TrimDigits(Last(p)) = Word[w] IN
    CASE Is({"pmc_rst"})        -> {"pmc_rst"}
      [] Is({"punit", "pmc"})   -> {"reason"}
      [] Is({"pcore", "ecore"}) -> {"core"}
      [] Is({"mca"})            -> {"mca"}
      [] Is({"crashlog_agent"}) -> {"agent"}
      [] OTHER                  -> {}

(* Where the walk goes from a node. *)
Onward(v) ==
    CASE v.by = "records" -> IF IsRecord(v.at)
                             THEN {[by |-> by, at |-> v.at] : by \in Analyses(v.at)}
                             ELSE Visit("records", Children(v.at))
      [] v.by = "pmc_rst" -> Visit("pmc_rst", Nested(v.at))
      [] v.by = "core"    -> IF HasThread(v.at) THEN {} ELSE Visit("core", Children(v.at))
      [] v.by = "mca"     -> Visit("mca", {q \in Children(v.at) : ~IsBank(q)})
      [] OTHER            -> {}

(* What is found there. *)
Findings(v) ==
    CASE v.by = "pmc_rst" /\ Nested(v.at) = {} -> ResetCauses(v.at)
      [] v.by = "reason"                       -> Reasons(v.at)
      [] v.by = "core" /\ HasThread(v.at)      -> Timeouts(v.at) \cup BankTags(Children(CoreMca(v.at)))
      [] v.by = "mca"                          -> BankTags(Children(v.at))
      [] v.by = "agent"                        -> AgentErrors(v.at)
      [] OTHER                                 -> {}

Walk ==
    /\ pc = "done" /\ visits # {}
    /\ visits' = UNION {Onward(v) : v \in visits}
    /\ tags' = tags \cup UNION {Findings(v) : v \in visits}
    /\ UNCHANGED report
    /\ UNCHANGED vars

(* mutant: the order of the heap is the wrong way round *)
ReportLowest ==
    /\ pc = "done" /\ visits = {}
    /\ \E t \in tags :
         /\ \A u \in tags : t.priority <= u.priority
         /\ report' = Append(report, t)
         /\ tags' = tags \ {t}
    /\ UNCHANGED visits
    /\ UNCHANGED vars

(* build_report: the heap gives a tag of the highest priority left.        *)
Report ==
    /\ pc = "done" /\ visits = {}
    /\ \E t \in tags :
         /\ \A u \in tags : u.priority <= t.priority
         /\ report' = Append(report, t)
         /\ tags' = tags \ {t}
    /\ UNCHANGED visits
    /\ UNCHANGED vars

Decoding == Next /\ UNCHANGED analysis

TriageNext == Decoding \/ Walk \/ Report

(* Decoding and analysis are one sequential function of the application.   *)
TriageSpec == TriageInit /\ [][TriageNext]_<<vars, analysis>> /\ WF_<<vars, analysis>>(TriageNext)

---------------------------------------------------------------------------
(* What the tree t of one record has, by no walk but the paths and the     *)
(* bits of its nodes. The path of the record itself is empty.              *)
ValuesAt(t, p) == IF p \in DOMAIN t /\ t[p].kind = "field" THEN {t[p].value} ELSE {}

Banks(t) ==
    {q \in DOMAIN t \ {<< >>} :
        /\ TrimDigits(Last(q)) = Word["bank"] /\ Last(q) # Word["bank"]
        /\ \E s \in ValuesAt(t, At(q, <<"status">>)) : s \cap 0 .. 31 # DeadBeef}

Wrong(t) == {q \in Banks(t) : \E s \in ValuesAt(t, At(q, <<"status">>)) : 63 \in s}

Outermost(t) == {q \in DOMAIN t : \A o \in Banks(t) : ~IsStrictPrefix(o, q)}

Threads(t) ==
    {q \in DOMAIN t : /\ At(q, <<"thread">>) \in DOMAIN t
                      /\ \A o \in Prefixes(q) \ {q} : At(o, <<"thread">>) \notin DOMAIN t}

OfThreads(t) == {q \in Wrong(t) : \E p \in Threads(t) : Front(q) = CoreMca(p)}

Hung(t) == {p \in Threads(t) : /\ Bank3(p) \in Wrong(t)
                               /\ \E s \in ValuesAt(t, At(Bank3(p), <<"status">>)) : s \cap 0 .. 15 = {10}}

(* Of those in one another the last, pmc only where there is no pmc_rst.   *)
LastPmc(t) ==
    {p \in DOMAIN t :
        /\ At(p, <<"pmc_rst">>) \notin DOMAIN t /\ At(p, <<"pmc">>) \notin DOMAIN t
        /\ \A o \in Prefixes(p) \ {<< >>} :
             \/ Last(o) = Word["pmc_rst"]
             \/ Last(o) = Word["pmc"] /\ At(Front(o), <<"pmc_rst">>) \notin DOMAIN t}

Causes(t) ==
    {q \in DOMAIN t \ {<< >>} :
        /\ UNION ValuesAt(t, q) # {}
        /\ \E p \in LastPmc(t) : \E c \in {"gblrst_cause_0", "fw_gblrst_cause_0", "host_pr_cause_0"} :
             Front(q) = At(p, <<c>>)}

AgentFails(t) ==
    \E s \in ValuesAt(t, At(<< >>, <<"status">>)) :
        Number(s) \in 1 .. 14 /\ ValuesAt(t, At(<< >>, <<"instruction_pointer">>)) # {}

(* What a record with that tree calls for, by the name it has without its  *)
(* number: a set of [at, what].                                            *)
Warranted(t, name) ==
    LET Is(words) == \E w \in words : name = Word[w]
        Put(ps, what) == {[at |-> p, what |-> what] : p \in ps}
        Once(holds, what) == Put(IF holds THEN {<< >>} ELSE {}, what)
    IN CASE Is({"mca"})            -> Put(Wrong(t) \cap Outermost(t), "MachineCheck")
         [] Is({"pcore", "ecore"}) -> Put(OfThreads(t), "MachineCheck") \cup Put(Hung(t), "CoreTimeout")
         [] Is({"pmc_rst"})        -> Put(Causes(t), "ResetCause")
         [] Is({"punit", "pmc"})   -> Once(ValuesAt(t, At(<< >>, <<"hdr", "reason">>)) # {}, "CrashLogReason")
         [] Is({"crashlog_agent"}) -> Once(AgentFails(t), "CrashLogAgentError")
         [] OTHER                  -> {}

Reported == pc = "done" /\ visits = {} /\ tags = {}

(* The report has what the registers of each record call for: a tag for    *)
(* every bank, thread and cause and nothing else, however many records of  *)
(* one type are merged under numbers, from whatever die.                   *)
TriagesEach ==
    Reported =>
      LET calls == UNION {UNION {{<<k, r, w>> : w \in Warranted(Subtree(decoded[k], r), TrimDigits(Last(r)))} :
                                   r \in Registers(decoded[k])} : k \in DOMAIN decoded}
          Unnumbered(r) == Append(Front(r), TrimDigits(Last(r)))
          Called(c) == <<Unnumbered(c[2]), c[3].at, c[3].what>>
          records == Registers(result)
          Told(i) == LET p == report[i].at
                         r == CHOOSE r \in records : IsPrefix(r, p)
                     IN <<Unnumbered(r), SubSeq(p, Len(r) + 1, Len(p)), report[i].what[1]>>
      IN /\ \A c \in calls : Cardinality({d \in calls : Called(d) = Called(c)})
                               = Cardinality({i \in DOMAIN report : Told(i) = Called(c)})
         /\ Cardinality(calls) = Len(report)

(* What is urgent comes first, and the timeout of a thread before the      *)
(* machine check it was told by, which is in the report as well.           *)
UrgentFirst ==
    Reported =>
      \A i \in DOMAIN report :
        /\ \A j \in i + 1 .. Len(report) : report[j].priority <= report[i].priority
        /\ report[i].what[1] = "CoreTimeout" =>
             \E j \in i + 1 .. Len(report) :
               /\ report[j].what[1] = "MachineCheck"
               /\ report[j].at = Bank3(report[i].at)
=============================================================================
