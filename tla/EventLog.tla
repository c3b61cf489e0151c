---------------------------- MODULE EventLog ----------------------------
(***************************************************************************)
(* The Windows event log as a source of crash logs                         *)
(* (lib/src/source/event_log.rs and lib/src/source/event_log/win.rs): two  *)
(* queries, one for each provider of hardware errors, on two channels or   *)
(* both on one exported file, each a loop that renders and parses one      *)
(* event after the other while the system goes on logging.                *)
(*                                                                         *)
(* An event is known by its place in its log, and so are the time and the  *)
(* computer it carries. The handles and buffers of win.rs are released     *)
(* where they are dropped and are left out.                                *)
(***************************************************************************)
EXTENDS Integers, Sequences

CONSTANTS
    Setups,   \* [fromFile, logs]: what there is when the extraction begins
    Arriving, \* the events that may be logged meanwhile
    MaxLog    \* bound: a channel of this length takes no more events

Log == {"whea errors", "system", "file"}

(* RawData may hold a crash log, something else, or be missing from the    *)
(* event; the event may render to nothing at all.                          *)
Event == [provider : {"kernel-whea", "whea-logger", "other"},
          data     : {"sound", "garbage", "absent", "blank"},
          time     : {"valid", "invalid"},
          computer : {"text", "broken"}]

EventLogAssumption ==
    /\ MaxLog \in Nat
    /\ Arriving \subseteq Event
    /\ \A s \in Setups : s.fromFile \in BOOLEAN /\ s.logs \in [Log -> Seq(Event)]

Queries == <<[channel |-> "whea errors", provider |-> "kernel-whea"],
             [channel |-> "system", provider |-> "whea-logger"]>>

VARIABLES
    fromFile,  \* whether a path was given
    logs,      \* the events of each log
    before,    \* history: how many of them were there at the beginning
    pc,        \* query, context, next, size, fill, parse or done
    turn,      \* which of the two queries runs
    pos,       \* the event its result set stands at
    values,    \* the event that was rendered last
    crashlogs, \* what the running query has collected
    first,     \* what the finished queries have collected
    outcome,   \* none, ok, error, or panic
    failed     \* history: whether a call into the event log failed

input == <<fromFile, logs, before>>
vars == <<fromFile, logs, before, pc, turn, pos, values, crashlogs, first, outcome, failed>>

Nothing == <<"file", 0>>

Init ==
    /\ \E s \in Setups : fromFile = s.fromFile /\ logs = s.logs
    /\ before = [log \in Log |-> Len(logs[log])]
    /\ pc = "query" /\ turn = 1 /\ pos = 0
    /\ values = Nothing
    /\ crashlogs = << >> /\ first = << >>
    /\ outcome = "none" /\ failed = FALSE

---------------------------------------------------------------------------
Target(q) == IF fromFile THEN "file" ELSE Queries[q].channel
Matches(q) == {n \in DOMAIN logs[Target(q)] : logs[Target(q)][n].provider = Queries[q].provider}
Place == Target(turn)
Ahead == {n \in Matches(turn) : n > pos}
EventAt(id) == logs[id[1]][id[2]]

(* EvtQuery and EvtCreateRenderContext. *)
Query ==
    /\ pc = "query"
    /\ pc' = "context"
    /\ UNCHANGED <<turn, pos, values, crashlogs, first, outcome, failed>>
    /\ UNCHANGED input

CreateContext ==
    /\ pc = "context"
    /\ pc' = "next"
    /\ UNCHANGED <<turn, pos, values, crashlogs, first, outcome, failed>>
    /\ UNCHANGED input

(* EvtNext gives the events of the provider one by one. *)
NextEvent ==
    /\ pc = "next"
    /\ \E n \in Ahead :
         /\ \A m \in Ahead : n <= m
         /\ pos' = n
    /\ pc' = "size"
    /\ UNCHANGED <<turn, values, crashlogs, first, outcome, failed>>
    /\ UNCHANGED input

(* ERROR_NO_MORE_ITEMS ends the loop. *)
NoMoreEvents ==
    /\ pc = "next"
    /\ Ahead = {}
    /\ first' = first \o crashlogs
    /\ crashlogs' = << >>
    /\ IF turn = 1 THEN turn' = 2 /\ pc' = "query" /\ UNCHANGED outcome
                   ELSE outcome' = "ok" /\ pc' = "done" /\ UNCHANGED turn
    /\ pos' = 0
    /\ UNCHANGED <<values, failed>>
    /\ UNCHANGED input

(* The first EvtRender asks for the size and must fail for want of a       *)
(* buffer; if it succeeds there is nothing to render.                      *)
RenderNothing ==
    /\ pc = "size"
    /\ EventAt(<<Place, pos>>).data = "blank"
    /\ pc' = "next"
    /\ UNCHANGED <<turn, pos, values, crashlogs, first, outcome, failed>>
    /\ UNCHANGED input

AllocateValues ==
    /\ pc = "size"
    /\ EventAt(<<Place, pos>>).data # "blank"
    /\ pc' = "fill"
    /\ UNCHANGED <<turn, pos, values, crashlogs, first, outcome, failed>>
    /\ UNCHANGED input

(* mutant: the second call renders only when nothing was rendered before   *)
RenderOnce ==
    /\ pc = "fill"
    /\ values' = IF values[2] = 0 THEN <<Place, pos>> ELSE values
    /\ pc' = "parse"
    /\ UNCHANGED <<turn, pos, crashlogs, first, outcome, failed>>
    /\ UNCHANGED input

Render ==
    /\ pc = "fill"
    /\ values' = <<Place, pos>>
    /\ pc' = "parse"
    /\ UNCHANGED <<turn, pos, crashlogs, first, outcome, failed>>
    /\ UNCHANGED input

---------------------------------------------------------------------------
(* CrashLog::from_slice on the raw data, then the metadata.                *)
Parsed == EventAt(values)

(* The metadata of the event replaces that of the parse as a whole, so the *)
(* extra CPER sections do not stay.                                         *)
WithMetadata(id) ==
    [of |-> id, time |-> id,
     computer |-> IF EventAt(id).computer = "text" THEN id ELSE Nothing]

KeepCrashLog ==
    /\ pc = "parse"
    /\ Parsed.data = "sound" /\ Parsed.time = "valid"
    /\ crashlogs' = Append(crashlogs, WithMetadata(values))
    /\ pc' = "next"
    /\ UNCHANGED <<turn, pos, values, first, outcome, failed>>
    /\ UNCHANGED input

(* A slice of no bytes is no crash log either.                             *)
SkipEvent ==
    /\ pc = "parse"
    /\ Parsed.data \in {"garbage", "absent"}
    /\ pc' = "next"
    /\ UNCHANGED <<turn, pos, values, crashlogs, first, outcome, failed>>
    /\ UNCHANGED input

(* Missing data is a null pointer, and slice::from_raw_parts on one is     *)
(* undefined: a build with checks stops there.                              *)
NullSlice ==
    /\ pc = "parse"
    /\ Parsed.data = "absent"
    /\ pc' = "done" /\ outcome' = "panic"
    /\ UNCHANGED <<turn, pos, values, crashlogs, first, failed>>
    /\ UNCHANGED input

(* An error of either query is one of the extraction: nothing is returned. *)
Abort ==
    /\ pc' = "done" /\ outcome' = "error"
    /\ crashlogs' = << >> /\ first' = << >>
    /\ UNCHANGED <<turn, pos, values>>
    /\ UNCHANGED input

(* mutant: the query fails before it looks at the data                     *)
AnyTimeInvalid == pc = "parse" /\ Parsed.time = "invalid" /\ Abort /\ UNCHANGED failed

(* FileTimeToSystemTime on the time of a crash log.                        *)
TimeInvalid ==
    /\ pc = "parse"
    /\ Parsed.data = "sound" /\ Parsed.time = "invalid"
    /\ Abort /\ UNCHANGED failed

CallFails ==
    /\ pc \in {"query", "context", "next", "size", "fill"}
    /\ Abort
    /\ failed' = TRUE

---------------------------------------------------------------------------
(* The system logs another event; an exported file stays as it is.         *)
Arrive ==
    /\ pc # "done" /\ ~fromFile
    /\ \E log \in {"whea errors", "system"}, e \in Arriving :
         /\ Len(logs[log]) < MaxLog
         /\ logs' = [logs EXCEPT ![log] = Append(@, e)]
    /\ UNCHANGED <<fromFile, before, pc, turn, pos, values, crashlogs, first, outcome, failed>>

Run == \/ Query \/ CreateContext
       \/ NextEvent \/ NoMoreEvents
       \/ RenderNothing \/ AllocateValues \/ Render
       \/ KeepCrashLog \/ SkipEvent \/ NullSlice
       \/ TimeInvalid \/ CallFails

Next == Run \/ Arrive

(* The extraction runs in the thread of its caller; EvtNext waits for no   *)
(* event that is not there.                                                 *)
Spec == Init /\ [][Next]_vars /\ WF_vars(Run)

---------------------------------------------------------------------------
(* Type invariant; an answer is given exactly when the code has returned.  *)
TypeOK ==
    /\ fromFile \in BOOLEAN
    /\ logs \in [Log -> Seq(Event)] /\ before \in [Log -> Nat]
    /\ pc \in {"query", "context", "next", "size", "fill", "parse", "done"}
    /\ turn \in {1, 2}
    /\ pos \in 0 .. Len(logs[Place])
    /\ values \in Log \X Nat
    /\ \A found \in {crashlogs, first} : \A i \in DOMAIN found :
         found[i] \in [of : Log \X Nat, time : Log \X Nat, computer : Log \X Nat]
    /\ outcome \in {"none", "ok", "error", "panic"} /\ (outcome = "none" <=> pc # "done")
    /\ failed \in BOOLEAN

(* What an extraction that succeeds returns: first the crash logs of the   *)
(* one provider, then those of the other, in the order of their log, each  *)
(* once and with the time and computer of its own event; none that was     *)
(* logged before it began is missing, however much is logged meanwhile     *)
(* (the two loops of query_crashlogs and the append in extract_crashlogs). *)
Sounds(q, n) == {m \in Matches(q) : m <= n /\ logs[Target(q)][m].data = "sound"}

Tells(q, n, found) ==
    /\ {found[i].of : i \in DOMAIN found} = {<<Target(q), m>> : m \in Sounds(q, n)}
    /\ \A i, j \in DOMAIN found : i < j => found[i].of[2] < found[j].of[2]
    /\ \A i \in DOMAIN found : LET id == found[i].of IN
         /\ found[i].time = id
         /\ found[i].computer = IF EventAt(id).computer = "text" THEN id ELSE Nothing

Since(q) == before[Target(q)] .. Len(logs[Target(q)])

Complete ==
    outcome = "ok" =>
        \E k \in 0 .. Len(first) :
            /\ \E m \in Since(1) : Tells(1, m, SubSeq(first, 1, k))
            /\ \E n \in Since(2) : Tells(2, n, SubSeq(first, k + 1, Len(first)))

(* The events of query q that hold a crash log and no time. *)
Undated(q) == {n \in Matches(q) : LET e == logs[Target(q)][n] IN
                                     e.data = "sound" /\ e.time = "invalid"}

(* An extraction fails only for a call that failed or for the time of an   *)
(* event that does hold a crash log, never for an event of no interest;    *)
(* then it fails as a whole, and it never passes over such a crash log     *)
(* (the ? in query_crashlogs and in extract_crashlogs).                     *)
AllOrNothing ==
    /\ outcome = "error" => /\ first = << >>
                            /\ failed \/ Undated(1) \cup Undated(2) # {}
    /\ outcome = "ok" => \A q \in {1, 2} : \A n \in Undated(q) : n > before[Target(q)]
=============================================================================
