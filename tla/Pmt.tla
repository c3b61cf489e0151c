------------------------------ MODULE Pmt ------------------------------
(***************************************************************************)
(* The Intel PMT endpoints in the Linux sysfs and one run of the iclg      *)
(* application on them: the control commands trigger, clear, enable and    *)
(* disable, and the extraction, of the named sources or of all endpoints   *)
(* (app/src/control.rs, lib/src/source.rs, lib/src/source/pmt.rs and      *)
(* lib/src/source/pmt/sysfs.rs).                                           *)
(*                                                                         *)
(* An endpoint is one directory that sysfs shows twice: under its name in  *)
(* the intel_pmt class and below the PCI device it belongs to. While the   *)
(* command runs, devices come and go and firmware writes records.         *)
(***************************************************************************)
EXTENDS Integers, Sequences, FiniteSets

CONSTANTS
    Endpoints,   \* PMT crash log endpoints, named crashlogN
    Bdfs,        \* PCI functions
    Home,        \* [Endpoints -> Bdfs]
    Setups,      \* the systems and command lines the command starts on:
                 \* [there, entries, content, request]
    MaxTouched,  \* bound: how many endpoints change under one command
    MaxMissed    \* bound: how many endpoints directory reads miss

Control == {"trigger", "clear", "enable", "disable"}
Entry == {"crashlog", "trigger", "clear", "enable"}
(* The bytes behind an endpoint: a region, no record at all, or bytes      *)
(* whose first header does not decode.                                     *)
Content == {"record", "marker", "garbage"}

Source == [kind : {"name"}, of : Endpoints] \cup [kind : {"bdf"}, of : Bdfs]
          \cup [kind : {"other"}, of : {"acpi"}]

ASSUME PmtAssumption ==
    /\ IsFiniteSet(Endpoints)   \* a directory has finitely many entries
    /\ Home \in [Endpoints -> Bdfs]
    /\ MaxTouched \in Nat /\ MaxMissed \in Nat
    /\ \A s \in Setups :
         /\ s.there \subseteq Endpoints
         /\ s.entries \in [Endpoints -> SUBSET Entry]
         /\ s.content \in [Endpoints -> Content]
         /\ s.request.op \in Control \cup {"extract"}
         /\ s.request.sources \in Seq(Source)
         /\ s.request.op = "extract" =>
              \A i \in DOMAIN s.request.sources : s.request.sources[i].kind # "other"

VARIABLES
    there,     \* the endpoint directories that exist
    entries,   \* the attribute files that can be opened
    content,   \* what the crashlog files hold
    request,   \* the command line
    pc,        \* start, pci, next, list, run or done
    left,      \* the sources still to do
    pending,   \* directory entries still to turn into endpoints
    todo,      \* endpoints the running loop has still to visit
    applied,   \* history: the endpoints the command was written to
    got,       \* crash logs of the running extraction, by endpoint
    results,   \* crash logs the command has extracted
    outcome,   \* none, ok or error: the exit code
    listed,    \* history: every endpoint put in todo
    missed,    \* history: the endpoints that a directory read did not give,
               \* each with the source they were looked up for
    touched    \* history: the endpoints the environment has changed

sysfs == <<there, entries, content, touched>>
vars == <<there, entries, content, request, pc, left, pending, todo, applied,
          got, results, outcome, listed, missed, touched>>

Everything == request.op = "extract" /\ request.sources = << >>

Init ==
    /\ \E s \in Setups :
         /\ there = s.there /\ entries = s.entries
         /\ content = s.content /\ request = s.request
    /\ pc = "start"
    /\ left = << >> /\ pending = {} /\ todo = << >>
    /\ applied = << >> /\ got = << >> /\ results = << >>
    /\ outcome = "none"
    /\ listed = << >> /\ missed = {} /\ touched = {}

---------------------------------------------------------------------------
(* Which sources: the command line, or discover() for an extraction of     *)
(* everything, which finds an endpoint by name and by PCI device.         *)

(* A directory, or an entry of it, that cannot be read is logged and       *)
(* passed over: the answer is shorter, and no error.                       *)
ByName(e) == [kind |-> "name", of |-> e]
ByDevice(e) == [kind |-> "bdf", of |-> Home[e]]

Miss(more) ==
    /\ missed' = missed \cup more
    /\ Cardinality(missed') <= MaxMissed

(* read_dir gives the entries in any order. *)
Orders(S) == {f \in [1 .. Cardinality(S) -> S] : \A x \in S : \E i \in DOMAIN f : f[i] = x}

Start ==
    /\ pc = "start"
    /\ ~Everything
    /\ left' = request.sources
    /\ pc' = "next"
    /\ UNCHANGED <<request, pending, todo, applied, got, results, outcome, listed, missed>>
    /\ UNCHANGED sysfs

DiscoverFromClass ==
    /\ pc = "start"
    /\ Everything
    /\ \E given \in SUBSET there :
         /\ left' \in Orders({ByName(e) : e \in given})
         /\ Miss({<<ByName(e), e>> : e \in there \ given})
    /\ pc' = "pci"
    /\ UNCHANGED <<request, pending, todo, applied, got, results, outcome, listed>>
    /\ UNCHANGED sysfs

DiscoverFromPci ==
    /\ pc = "pci"
    /\ \E given \in SUBSET {Home[e] : e \in there} :
         /\ \E more \in Orders({[kind |-> "bdf", of |-> b] : b \in given}) :
              left' = left \o more
         /\ Miss({<<ByDevice(e), e>> : e \in {x \in there : Home[x] \notin given}})
    /\ pc' = "next"
    /\ UNCHANGED <<request, pending, todo, applied, got, results, outcome, listed>>
    /\ UNCHANGED sysfs

---------------------------------------------------------------------------
(* get_endpoints: a name is looked up as it is; below a PCI device the     *)
(* directory is read, then each entry is looked up.                        *)
Reach(s) == CASE s.kind = "name" -> {s.of}
              [] s.kind = "bdf"  -> {e \in Endpoints : Home[e] = s.of}
              [] OTHER           -> {}

NextSource ==
    /\ pc = "next"
    /\ left # << >>
    /\ Head(left).kind # "other"
    /\ LET s == Head(left) IN
       \/ s.kind = "name" /\ pending' = Reach(s) /\ UNCHANGED missed
       \/ /\ s.kind = "bdf"
          /\ \E given \in SUBSET (Reach(s) \cap there) :
               /\ pending' = given
               /\ Miss({s} \X ((Reach(s) \cap there) \ given))
    /\ pc' = "list"
    /\ UNCHANGED <<request, left, todo, applied, got, results, outcome, listed>>
    /\ UNCHANGED sysfs

(* Error::Unsupported ends the command. *)
RefuseSource ==
    /\ pc = "next"
    /\ left # << >>
    /\ Head(left).kind = "other"
    /\ outcome' = "error"
    /\ pc' = "done"
    /\ UNCHANGED <<request, left, pending, todo, applied, got, results, listed, missed>>
    /\ UNCHANGED sysfs

(* PmtSysFsEndpoint::new: is_dir, or the entry is dropped with a message,  *)
(* as it is if the directory is there but cannot be looked at.             *)
CheckEntry ==
    /\ pc = "list"
    /\ \E e \in pending :
         /\ pending' = pending \ {e}
         /\ \/ /\ e \in there
               /\ todo' = Append(todo, e)
               /\ listed' = Append(listed, e)
               /\ UNCHANGED missed
            \/ /\ UNCHANGED <<todo, listed>>
               /\ Miss({Head(left)} \X ({e} \cap there))
    /\ UNCHANGED <<request, pc, left, applied, got, results, outcome>>
    /\ UNCHANGED sysfs

(* get_all_endpoints lists the endpoints of every device first.            *)
Listed ==
    /\ pc = "list"
    /\ pending = {}
    /\ left' = Tail(left)
    /\ pc' = IF Everything /\ Tail(left) # << >> THEN "next" ELSE "run"
    /\ UNCHANGED <<request, pending, todo, applied, got, results, outcome, listed, missed>>
    /\ UNCHANGED sysfs

---------------------------------------------------------------------------
(* The control commands: write_command on one endpoint after the other.   *)
EntryOf(op) == IF op \in {"enable", "disable"} THEN "enable" ELSE op
Accepts(e) == e \in there /\ EntryOf(request.op) \in entries[e]

Commanding == pc = "run" /\ request.op \in Control /\ todo # << >>

WriteCommand ==
    /\ Commanding
    /\ Accepts(Head(todo))
    /\ applied' = Append(applied, Head(todo))
    /\ todo' = Tail(todo)
    /\ UNCHANGED <<request, pc, left, pending, got, results, outcome, listed, missed>>
    /\ UNCHANGED sysfs

(* mutants: the error is logged and the loop goes on; the write is tried   *)
(* again                                                                   *)
WriteSkips ==
    /\ Commanding
    /\ ~Accepts(Head(todo))
    /\ todo' = Tail(todo)
    /\ UNCHANGED <<request, pc, left, pending, applied, got, results, outcome, listed, missed>>
    /\ UNCHANGED sysfs

WriteRetries == Commanding /\ ~Accepts(Head(todo)) /\ UNCHANGED vars

(* The error goes up through control_command to main. *)
WriteFails ==
    /\ Commanding
    /\ ~Accepts(Head(todo))
    /\ outcome' = "error"
    /\ pc' = "done"
    /\ UNCHANGED <<request, left, pending, todo, applied, got, results, listed, missed>>
    /\ UNCHANGED sysfs

---------------------------------------------------------------------------
(* The extraction: PmtSysFsEndpoint::extract on one endpoint after the     *)
(* other.  EmptyRegion is no error; any other error loses the source, or   *)
(* only the endpoint when everything is extracted.                         *)
CanRead(e) == e \in there /\ "crashlog" \in entries[e]
Extracting == pc = "run" /\ request.op = "extract" /\ todo # << >>

ReadRecords ==
    /\ Extracting
    /\ CanRead(Head(todo)) /\ content[Head(todo)] = "record"
    /\ got' = Append(got, Head(todo))
    /\ todo' = Tail(todo)
    /\ UNCHANGED <<request, pc, left, pending, applied, results, outcome, listed, missed>>
    /\ UNCHANGED sysfs

Skips(e) == \/ CanRead(e) /\ content[e] = "marker"
            \/ Everything /\ (CanRead(e) => content[e] = "garbage")

(* mutant: the first error ends the extraction of everything *)
ReadStops ==
    /\ Extracting
    /\ Skips(Head(todo))
    /\ todo' = IF CanRead(Head(todo)) /\ content[Head(todo)] = "marker"
               THEN Tail(todo) ELSE << >>
    /\ UNCHANGED <<request, pc, left, pending, applied, got, results, outcome, listed, missed>>
    /\ UNCHANGED sysfs

ReadNothing ==
    /\ Extracting
    /\ Skips(Head(todo))
    /\ todo' = Tail(todo)
    /\ UNCHANGED <<request, pc, left, pending, applied, got, results, outcome, listed, missed>>
    /\ UNCHANGED sysfs

(* mutant: EmptyRegion is an error *)
SourceFailsOnEmpty ==
    /\ Extracting
    /\ ~Everything
    /\ ~(CanRead(Head(todo)) /\ content[Head(todo)] = "record")
    /\ got' = << >>
    /\ todo' = << >>
    /\ pc' = "next"
    /\ UNCHANGED <<request, left, pending, applied, results, outcome, listed, missed>>
    /\ UNCHANGED sysfs

SourceFails ==
    /\ Extracting
    /\ ~Everything
    /\ CanRead(Head(todo)) => content[Head(todo)] = "garbage"
    /\ got' = << >>
    /\ todo' = << >>
    /\ pc' = "next"
    /\ UNCHANGED <<request, left, pending, applied, results, outcome, listed, missed>>
    /\ UNCHANGED sysfs

---------------------------------------------------------------------------
SourceDone ==
    /\ pc = "run"
    /\ todo = << >>
    /\ results' = results \o got
    /\ got' = << >>
    /\ pc' = "next"
    /\ UNCHANGED <<request, left, pending, todo, applied, outcome, listed, missed>>
    /\ UNCHANGED sysfs

(* An extraction of everything without a region is an InvalidCrashLog.     *)
Finish ==
    /\ pc = "next"
    /\ left = << >>
    /\ outcome' = IF Everything /\ results = << >> THEN "error" ELSE "ok"
    /\ pc' = "done"
    /\ UNCHANGED <<request, left, pending, todo, applied, got, results, listed, missed>>
    /\ UNCHANGED sysfs

---------------------------------------------------------------------------
(* The environment: a device is unbound or bound, firmware changes what an *)
(* endpoint holds.                                                         *)
Changing == IF Cardinality(touched) < MaxTouched THEN Endpoints ELSE touched

Plug ==
    /\ pc # "done"
    /\ \E e \in Changing :
         /\ there' = IF e \in there THEN there \ {e} ELSE there \cup {e}
         /\ touched' = touched \cup {e}
    /\ UNCHANGED <<entries, content, request, pc, left, pending, todo, applied,
                   got, results, outcome, listed, missed>>

Collect ==
    /\ pc # "done"
    /\ \E e \in Changing, c \in Content :
         /\ content' = [content EXCEPT ![e] = c]
         /\ touched' = touched \cup {e}
    /\ UNCHANGED <<there, entries, request, pc, left, pending, todo, applied,
                   got, results, outcome, listed, missed>>

Run == \/ Start \/ DiscoverFromClass \/ DiscoverFromPci
       \/ NextSource \/ RefuseSource \/ CheckEntry \/ Listed
       \/ WriteCommand \/ WriteFails
       \/ ReadRecords \/ ReadNothing \/ SourceFails
       \/ SourceDone \/ Finish

Next == Run \/ Plug \/ Collect

(* One thread runs the command and waits for nobody. *)
Spec == Init /\ [][Next]_vars /\ WF_vars(Run)

---------------------------------------------------------------------------
Elements(s) == {s[i] : i \in DOMAIN s}

(* Type invariant; the exit code is known exactly when the command ends,   *)
(* and entries are looked up for a source in hand.                         *)
TypeOK ==
    /\ there \subseteq Endpoints
    /\ entries \in [Endpoints -> SUBSET Entry]
    /\ content \in [Endpoints -> Content]
    /\ request.op \in Control \cup {"extract"} /\ request.sources \in Seq(Source)
    /\ pc \in {"start", "pci", "next", "list", "run", "done"}
    /\ left \in Seq(Source) /\ (pc = "list" => left # << >>)
    /\ pending \subseteq Endpoints
    /\ todo \in Seq(Endpoints) /\ applied \in Seq(Endpoints)
    /\ got \in Seq(Endpoints) /\ results \in Seq(Endpoints)
    /\ listed \in Seq(Endpoints)
    /\ missed \subseteq Source \X Endpoints
    /\ outcome \in {"none", "ok", "error"}
    /\ outcome = "none" <=> pc # "done"
    /\ touched \subseteq Endpoints

(* A control command passes over no endpoint it has found: those it was    *)
(* written to are the first of those listed, an exit code 0 means all of   *)
(* them (the ? in control_command, in Pmt and in write_command), and then  *)
(* every endpoint of a named device that stayed in place is among them     *)
(* unless a directory read missed it, the one way in which the command     *)
(* succeeds without reaching it (sysfs.rs:144-149 and 172-177).            *)
Untouched(s) == {e \in Reach(s) \cap there : e \notin touched}
Found(s) == {e \in Untouched(s) : <<s, e>> \notin missed}

CommandsAll ==
    request.op \in Control =>
        /\ Len(applied) <= Len(listed)
        /\ \A i \in DOMAIN applied : applied[i] = listed[i]
        /\ outcome = "ok" =>
             /\ applied = listed
             /\ \A i \in DOMAIN request.sources :
                  Found(request.sources[i]) \subseteq Elements(applied)

(* An extraction of everything gets every record that was there all along, *)
(* whatever other endpoints fail, vanish or change meanwhile, unless the   *)
(* directory reads of both ways to the endpoint missed it: by its name and *)
(* by its device.                                                          *)
HasRecord(e) == e \in there \ touched /\ CanRead(e) /\ content[e] = "record"
Missed(e) == <<ByName(e), e>> \in missed /\ <<ByDevice(e), e>> \in missed

ExtractsEverything ==
    pc = "done" /\ Everything =>
        \A e \in Endpoints : HasRecord(e) => e \in Elements(results) \/ Missed(e)

(* A named source gives all the records it has found or fails as a whole   *)
(* (the ? in PmtSysFs::extract): a record that was there all along and was *)
(* not missed by a directory read is not given out only if an endpoint of  *)
(* the same source could not be read, held garbage or changed meanwhile;   *)
(* and if one that was found held garbage all along, nothing is given out  *)
(* but what another source gave.                                           *)
Steady(s) == {e \in Found(s) : HasRecord(e)}

MayFail(s) == \E e \in Reach(s) :
                 e \in touched \/ (e \in there /\ (~CanRead(e) \/ content[e] = "garbage"))

MustFail(s) == \E e \in Found(s) : CanRead(e) /\ content[e] = "garbage"

ExtractsNamed ==
    pc = "done" /\ request.op = "extract" /\ ~Everything =>
        \A i \in DOMAIN request.sources :
            LET s == request.sources[i] IN
            /\ Steady(s) \subseteq Elements(results) \/ MayFail(s)
            /\ MustFail(s) =>
                 \A e \in Elements(results) :
                     \E j \in DOMAIN request.sources \ {i} : e \in Reach(request.sources[j])

(* The command returns, however often devices come and go under it.        *)
Returns == <>(pc = "done")

(* README.md:148-149: "you can specify individual sources or trigger all   *)
(* sources by default".                                                     *)
TriggersByDefault ==
    request.op = "trigger" /\ request.sources = << >> /\ outcome = "ok" =>
        \A e \in there : e \notin touched /\ "trigger" \in entries[e] => e \in Elements(applied)
=============================================================================
