---------------------------- MODULE Extract ----------------------------
(***************************************************************************)
(* The extract command of the iclg application (app/src/extract.rs): it    *)
(* gathers crash logs from the sources, names a file after the metadata of *)
(* each (lib/src/metadata.rs) and writes it, next to what lies in the      *)
(* directory already and to what another iclg process writes there.       *)
(*                                                                         *)
(* What a source yields is modelled by how many crash logs it gives and    *)
(* how they are named; module Pmt says how one source comes to its answer. *)
(***************************************************************************)
EXTENDS Integers, Sequences

CONSTANTS
    Procs,        \* the iclg processes
    Default,      \* for each system, the calls made when the command line
                  \* names no source: ACPI and PMT on Linux, the event log
                  \* on Windows
    CommandLines, \* [os, out, sources]
    OldFiles,     \* the sets of paths that may exist beforehand
    IdxWord,      \* bound: 2^31 in the code, where idx is an i32
    WritesFail    \* whether fs::write may fail

(* Where the files go: no output_path (the working directory), a directory,*)
(* a path that is absent or a file, and one that exists and is neither     *)
(* file nor directory; or beside the file that is unpacked.                *)
Out == {"cwd", "dir", "file", "device", "beside"}

(* One call gives at most max crash logs, each displayed as one of names;  *)
(* an error is an answer without crash logs.                               *)
Call == [names : SUBSET STRING, max : Nat]
Place == (Out \X STRING \X Nat) \cup ({"beside"} \X Nat) \cup {<<"file">>, <<"device">>}

ASSUME ExtractAssumption ==
    /\ \A os \in DOMAIN Default : Default[os] \in Seq(Call)
    /\ \A c \in CommandLines : c.os \in DOMAIN Default /\ c.out \in Out /\ c.sources \in Seq(Call)
    /\ \A s \in OldFiles : s \subseteq Place /\ <<"device">> \in s
    /\ IdxWord \in Nat \ {0}
    /\ WritesFail \in BOOLEAN

VARIABLES
    fs,       \* the files: path -> content
    cli,      \* the command lines
    pc,       \* gather, look, write or done
    src,      \* the source extracted next
    result,   \* the crash logs gathered, by their names
    log,      \* the crash log the second loop is at
    idx,      \* the number tried in its file name
    failed    \* history: the crash logs whose write failed

vars == <<fs, cli, pc, src, result, log, idx, failed>>

(* The content of a file: the n-th crash log of p, what was there before,  *)
(* or what a failed write left behind.                                     *)
Id(p, n) == <<p, n>>
Old == <<"old", 0>>
Partial == <<"partial", 0>>

Init ==
    /\ \E s \in OldFiles : fs = [path \in s |-> Old]
    /\ cli \in [Procs -> CommandLines]
    /\ pc = [p \in Procs |-> "gather"]
    /\ src = [p \in Procs |-> 1]
    /\ result = [p \in Procs |-> << >>]
    /\ log = [p \in Procs |-> 1]
    /\ idx = [p \in Procs |-> 0]
    /\ failed = {}

---------------------------------------------------------------------------
Calls(p) == IF cli[p].sources = << >> THEN Default[cli[p].os] ELSE cli[p].sources

Gather(p) ==
    /\ pc[p] = "gather"
    /\ src[p] <= Len(Calls(p))
    /\ LET c == Calls(p)[src[p]] IN
         \E n \in 0 .. c.max : \E logs \in [1 .. n -> c.names] :
             result' = [result EXCEPT ![p] = @ \o logs]
    /\ src' = [src EXCEPT ![p] = @ + 1]
    /\ UNCHANGED <<fs, cli, pc, log, idx, failed>>

Gathered(p) ==
    /\ pc[p] = "gather"
    /\ src[p] > Len(Calls(p))
    /\ pc' = [pc EXCEPT ![p] = "look"]
    /\ UNCHANGED <<fs, cli, src, result, log, idx, failed>>

---------------------------------------------------------------------------
(* mutant: the name is made once, before the loop *)
FirstPath(p) == IF cli[p].out \in {"cwd", "dir"}
                THEN <<cli[p].out, result[p][1], idx[p]>>
                ELSE <<cli[p].out>>

(* The file of the current crash log: the number only when it is positive. *)
Path(p) == IF cli[p].out \in {"cwd", "dir"}
           THEN <<cli[p].out, result[p][log[p]], idx[p]>>
           ELSE <<cli[p].out>>

Exists(p) == Path(p) \in DOMAIN fs
IsFile(p) == cli[p].out = "file" /\ Exists(p)

Looking(p) == pc[p] = "look" /\ log[p] <= Len(result[p])

FindFree(p) ==
    /\ Looking(p)
    /\ ~Exists(p)
    /\ pc' = [pc EXCEPT ![p] = "write"]
    /\ UNCHANGED <<fs, cli, src, result, log, idx, failed>>

(* mutant: the number does not grow *)
TryAgain(p) == Looking(p) /\ Exists(p) /\ ~IsFile(p) /\ UNCHANGED vars

TryNext(p) ==
    /\ Looking(p)
    /\ Exists(p) /\ ~IsFile(p)
    /\ idx' = [idx EXCEPT ![p] = (@ + 1) % IdxWord]
    /\ UNCHANGED <<fs, cli, pc, src, result, log, failed>>

NextLog(p) ==
    /\ log' = [log EXCEPT ![p] = @ + 1]
    /\ idx' = [idx EXCEPT ![p] = 0]
    /\ pc' = [pc EXCEPT ![p] = "look"]

(* "file already exists": this crash log is given up. *)
GiveUp(p) ==
    /\ Looking(p)
    /\ IsFile(p)
    /\ NextLog(p)
    /\ UNCHANGED <<fs, cli, src, result, failed>>

---------------------------------------------------------------------------
(* fs::write creates or truncates, whatever exists by now.                 *)
Put(path, c) == fs' = [x \in DOMAIN fs \cup {path} |-> IF x = path THEN c ELSE fs[x]]

(* mutant: always the name without a number *)
WriteFirstName(p) ==
    /\ pc[p] = "write"
    /\ Put(IF cli[p].out \in {"cwd", "dir"} THEN [Path(p) EXCEPT ![3] = 0] ELSE Path(p),
           Id(p, log[p]))
    /\ NextLog(p)
    /\ UNCHANGED <<cli, src, result, failed>>

Write(p) ==
    /\ pc[p] = "write"
    /\ Put(Path(p), Id(p, log[p]))
    /\ NextLog(p)
    /\ UNCHANGED <<cli, src, result, failed>>

WriteFails(p) ==
    /\ WritesFail
    /\ pc[p] = "write"
    /\ failed' = failed \cup {Id(p, log[p])}
    /\ Put(Path(p), Partial) \/ UNCHANGED fs
    /\ NextLog(p)
    /\ UNCHANGED <<cli, src, result>>

Finish(p) ==
    /\ pc[p] = "look"
    /\ log[p] > Len(result[p])
    /\ pc' = [pc EXCEPT ![p] = "done"]
    /\ UNCHANGED <<fs, cli, src, result, log, idx, failed>>

---------------------------------------------------------------------------
Store(p) == \/ FindFree(p) \/ TryNext(p) \/ GiveUp(p)
            \/ Write(p) \/ WriteFails(p) \/ Finish(p)

Step(p) == Gather(p) \/ Gathered(p) \/ Store(p)

Next == \E p \in Procs : Step(p)

(* The scheduler lets every process run. *)
Spec == Init /\ [][Next]_vars /\ \A p \in Procs : WF_vars(Step(p))

---------------------------------------------------------------------------
Ids == Procs \X Nat

(* Type invariant. *)
TypeOK ==
    /\ DOMAIN fs \subseteq Place
    /\ \A path \in DOMAIN fs : fs[path] \in {Old, Partial} \/ fs[path] \in Ids
    /\ cli \in [Procs -> CommandLines]
    /\ pc \in [Procs -> {"gather", "look", "write", "done"}]
    /\ \A p \in Procs :
         /\ src[p] \in 1 .. Len(Calls(p)) + 1
         /\ log[p] \in 1 .. Len(result[p]) + 1
         /\ idx[p] \in 0 .. IdxWord - 1
         /\ pc[p] = "write" => log[p] <= Len(result[p])
    /\ failed \subseteq Ids

(* A crash log handled by a process that writes to a directory is in a     *)
(* file of that directory, unless the write failed or another process      *)
(* wrote to the very file; a process by itself loses nothing.              *)
In(dir, name) == {path \in DOMAIN fs : Len(path) = 3 /\ path[1] = dir /\ path[2] = name}

NothingLost ==
    \A p \in Procs : cli[p].out \in {"cwd", "dir"} =>
        \A n \in 1 .. log[p] - 1 :
            \/ \E path \in In(cli[p].out, result[p][n]) : fs[path] = Id(p, n)
            \/ Id(p, n) \in failed
            \/ \E path \in In(cli[p].out, result[p][n]) :
                 \/ fs[path] = Partial
                 \/ \E q \in Procs \ {p} : \E m \in 1 .. log[q] - 1 : fs[path] = Id(q, m)

(* What a file is called is what it holds: the source, computer and time   *)
(* in its name are those of the crash log in it.                           *)
NamesTrue ==
    \A path \in DOMAIN fs : Len(path) = 3 =>
        \A p \in Procs : \A n \in DOMAIN result[p] :
            fs[path] = Id(p, n) => path[2] = result[p][n]

(* No file from before is touched, and of the files written meanwhile only *)
(* another process's, never one's own, is written over. (What unpack       *)
(* writes beside its input does replace what was there.)                   *)
OwnFilesKept ==
    [][\A path \in DOMAIN fs :
         path \in DOMAIN fs' /\ fs'[path] # fs[path] /\ path[1] # "beside" =>
         /\ fs[path] # Old
         /\ \A p \in Procs : \A m, n \in 1 .. Len(result[p]) :
              ~(fs[path] = Id(p, m) /\ fs'[path] = Id(p, n))]_vars

(* Each process comes to an end. *)
Ends == \A p \in Procs : <>(pc[p] = "done")
=============================================================================
