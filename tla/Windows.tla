------------------------------ MODULE Windows ------------------------------
(***************************************************************************)
(* iclg on Windows. The extract command reads the event log of the system, *)
(* and unpack an exported one (app/src/extract.rs, app/src/unpack.rs): for *)
(* one process, the reader, the gathering that module Extract takes for an *)
(* answer is the extraction of module EventLog, step by step, while        *)
(* another process writes to the same directory and the system goes on     *)
(* logging. On Linux there is no reader, and all is as in Extract.         *)
(***************************************************************************)
EXTENDS Extract

CONSTANTS Reader, Setups, Arriving, MaxLog

VARIABLES fromFile, logs, before, at, turn, pos, values, crashlogs, first, outcome, broken

Events == INSTANCE EventLog WITH pc <- at, failed <- broken

ASSUME WindowsAssumption ==
    /\ Reader \in Procs
    /\ Events!EventLogAssumption

reading == <<fromFile, logs, before, at, turn, pos, values, crashlogs, first, outcome, broken>>

(* Unpack is a command line that writes beside the file it reads. *)
Unpacks(p) == cli[p].out = "beside"
Reads(p) == p = Reader /\ cli[p].os = "windows" /\ cli[p].sources = << >>

WindowsInit ==
    /\ Init
    /\ Events!Init
    /\ \A p, q \in Procs : cli[p].os = cli[q].os
    /\ \A p \in Procs : Unpacks(p) => Reads(p)
    /\ fromFile <=> Unpacks(Reader)
    /\ ~Reads(Reader) => \A l \in DOMAIN logs : logs[l] = << >>

---------------------------------------------------------------------------
AtLog == Reads(Reader) /\ pc[Reader] = "gather" /\ src[Reader] = 1

ReadLog == AtLog /\ Events!Run /\ UNCHANGED vars
LogMore == AtLog /\ Events!Arrive /\ UNCHANGED vars

(* What an event is called in the name of a file, its computer and the     *)
(* time; the events here are all of one minute of one computer.            *)
NameOf(crashlog) == IF crashlog.computer = Events!Nothing THEN "minute" ELSE "host-minute"

Answer ==
    /\ AtLog
    /\ outcome \in {"ok", "error"}
    /\ result' = [result EXCEPT ![Reader] = [i \in DOMAIN first |-> NameOf(first[i])]]
    /\ src' = [src EXCEPT ![Reader] = 2]
    /\ pc' = [pc EXCEPT ![Reader] = IF Unpacks(Reader) THEN "unpack" ELSE "gather"]
    /\ UNCHANGED <<fs, cli, log, idx, failed>>
    /\ UNCHANGED reading

(* The process is stopped.                                                 *)
Stopped ==
    /\ AtLog
    /\ outcome = "panic"
    /\ pc' = [pc EXCEPT ![Reader] = "done"]
    /\ UNCHANGED <<fs, cli, src, result, log, idx, failed>>
    /\ UNCHANGED reading

---------------------------------------------------------------------------
(* unpack_evtx: the numbers of the crash logs before are part of the name, *)
(* too, so no two are alike; a file of the name is replaced.               *)
Unpacking == pc[Reader] = "unpack"
Unpacked == <<"beside", log[Reader]>>

UnpackOne ==
    /\ Unpacking /\ log[Reader] <= Len(result[Reader])
    /\ Put(Unpacked, Id(Reader, log[Reader]))
    /\ log' = [log EXCEPT ![Reader] = @ + 1]
    /\ UNCHANGED <<cli, pc, src, result, idx, failed>>
    /\ UNCHANGED reading

(* A failed write ends the command. *)
UnpackFails ==
    /\ WritesFail
    /\ Unpacking /\ log[Reader] <= Len(result[Reader])
    /\ Put(Unpacked, Partial) \/ UNCHANGED fs
    /\ failed' = failed \cup {Id(Reader, log[Reader])}
    /\ pc' = [pc EXCEPT ![Reader] = "done"]
    /\ UNCHANGED <<cli, src, result, log, idx>>
    /\ UNCHANGED reading

UnpackEnds ==
    /\ Unpacking /\ log[Reader] > Len(result[Reader])
    /\ pc' = [pc EXCEPT ![Reader] = "done"]
    /\ UNCHANGED <<fs, cli, src, result, log, idx, failed>>
    /\ UNCHANGED reading

---------------------------------------------------------------------------
ReaderStep == ReadLog \/ Answer \/ Stopped \/ UnpackOne \/ UnpackFails \/ UnpackEnds

WindowsStep(p) ==
    \/ ~Reads(p) /\ Gather(p) /\ UNCHANGED reading
    \/ (Gathered(p) \/ Store(p)) /\ UNCHANGED reading
    \/ p = Reader /\ ReaderStep

WindowsNext == LogMore \/ \E p \in Procs : WindowsStep(p)

(* As in Extract; the system is not bound to log anything.                 *)
WindowsSpec ==
    /\ WindowsInit /\ [][WindowsNext]_<<vars, reading>>
    /\ \A p \in Procs : WF_<<vars, reading>>(WindowsStep(p))

---------------------------------------------------------------------------
(* The properties of the event log, stated in EventLog.                    *)
Complete == Events!Complete
AllOrNothing == Events!AllOrNothing
=============================================================================
