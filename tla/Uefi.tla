-------------------------------- MODULE Uefi --------------------------------
(***************************************************************************)
(* The UEFI application (efi/src/main.rs, args.rs, decode.rs, extract.rs): *)
(* it parses its command line, runs one command and exits with a status.   *)
(* The text of a decoded crash log goes to the pager, module Pager.        *)
(*                                                                         *)
(* The file system of the firmware may fail whenever it is used. What the  *)
(* library makes of a file is given: a crash log, or none (foreign).       *)
(***************************************************************************)
EXTENDS Pager, FiniteSets

CONSTANTS
    Words,      \* what may stand on a command line
    Setups,     \* what the application may meet, see below
    Count,      \* the tokens that begin with -v, and the v's in each
    Generated   \* the names extract may give: with the time of the day or without

\* A setup is [shell, tokens, tables, tree, volume, text]: whether there is a
\* command line, the tokens after the name of the application, the tables the
\* firmware is configured with, whether the embedded collateral can be read,
\* the files by their path, and the text a decoded crash log gives. A table is
\* none of ACPI 2.0 ("other"), one that is not valid, or one with no BERT,
\* with a boot error region that is none, or with one that has a crash log.
Tables == {"other", "invalid", "noBERT", "badRegion", "crashlog"}
Helps == {"-h", "--help"}
Waits == {"-w", "--wait"}
Commands == {"extract", "decode", "info", "triage"}

(* What a call of the firmware fails with, handed on as the exit status:   *)
(* IO stands for every other one.                                          *)
FirmwareErrors == {"NOT_FOUND", "INVALID_PARAMETER", "IO"}

ASSUME UefiAssumption ==
    /\ Count \in [DOMAIN Count -> Nat]
    /\ DOMAIN Count \cap (Helps \cup Waits \cup Commands) = {}
    /\ \A s \in Setups :
         /\ s.shell \in BOOLEAN
         /\ s.tokens \in Seq(Words)
         /\ s.tables \in Seq(Tables)
         /\ s.volume \in [DOMAIN s.volume -> {"crashlog", "foreign"}]

VARIABLES
    setup,
    tokens,   \* those not parsed yet
    args,     \* [help, wait, verbosity, command, paths]
    volume,   \* the files: crashlog, foreign, partial or extracted
    step,     \* parse, run, pager, wait or exit
    todo,     \* the paths info or triage has still to open
    console,  \* what has been printed: [of, says], one entry for all that is said of a path
    status

app == <<setup, tokens, args, volume, step, todo, console, status>>

MaxVerbosity == 3  \* MAX_VERBOSITY_LEVEL

DefaultArgs == [help |-> FALSE, wait |-> FALSE, verbosity |-> 0, command |-> "none", paths |-> << >>]

UefiInit ==
    /\ setup \in Setups
    /\ Init /\ lines = setup.text
    /\ tokens = setup.tokens
    /\ args = DefaultArgs
    /\ volume = setup.volume
    /\ step = "parse" /\ todo = << >> /\ console = << >> /\ status = "none"

Say(of, says) == console' = Append(console, [of |-> of, says |-> says])

---------------------------------------------------------------------------
(* Args::parse *)

Parsing == step = "parse" /\ setup.shell
Token == tokens[1]

Run(a) == args' = a /\ step' = "run" /\ todo' = a.paths

NoCommandLine ==
    /\ step = "parse" /\ ~setup.shell
    /\ Run([DefaultArgs EXCEPT !.command = "extract", !.wait = TRUE])
    /\ UNCHANGED <<setup, tokens, volume, console, status>>

(* mutant: the letters of a token are not limited *)
VerboseAll ==
    /\ Parsing /\ tokens # << >>
    /\ Token \in DOMAIN Count
    /\ args' = [args EXCEPT !.verbosity = @ + Count[Token]]
    /\ tokens' = Tail(tokens)
    /\ UNCHANGED <<setup, volume, step, todo, console, status>>

Verbose ==
    /\ Parsing /\ tokens # << >>
    /\ Token \in DOMAIN Count
    /\ args' = [args EXCEPT !.verbosity = @ + Least(Count[Token], MaxVerbosity)]
    /\ tokens' = Tail(tokens)
    /\ UNCHANGED <<setup, volume, step, todo, console, status>>

Flag ==
    /\ Parsing /\ tokens # << >>
    /\ \/ Token \in Helps /\ args' = [args EXCEPT !.help = TRUE]
       \/ Token \in Waits /\ args' = [args EXCEPT !.wait = TRUE]
    /\ tokens' = Tail(tokens)
    /\ UNCHANGED <<setup, volume, step, todo, console, status>>

(* What a command takes is all that is left, whatever it looks like.       *)
TakesRest(command, n) ==
    \/ command = "extract" /\ n <= 1
    \/ command = "decode" /\ n = 1
    \/ command \in {"info", "triage"}

ParseCommand ==
    /\ Parsing /\ tokens # << >>
    /\ TakesRest(Token, Len(tokens) - 1)
    /\ Run([args EXCEPT !.command = Token, !.paths = Tail(tokens)])
    /\ tokens' = << >>
    /\ UNCHANGED <<setup, volume, console, status>>

NoMoreTokens ==
    /\ Parsing /\ tokens = << >>
    /\ Run(args)
    /\ UNCHANGED <<setup, tokens, volume, console, status>>

(* An argument is missing, or one too many, or unknown. *)
Reject ==
    /\ Parsing /\ tokens # << >>
    /\ Token \notin DOMAIN Count \cup Helps \cup Waits
    /\ ~TakesRest(Token, Len(tokens) - 1)
    /\ Say("args", "rejected")
    /\ status' = "INVALID_PARAMETER"
    /\ step' = "exit"
    /\ UNCHANGED <<setup, tokens, args, volume, todo>>

---------------------------------------------------------------------------
(* run_command_and_wait *)

Return(s) == status' = s /\ step' = IF args.wait THEN "wait" ELSE "exit"

Running(command) == step = "run" /\ ~args.help /\ args.command = command

ShowHelp ==
    /\ step = "run" /\ (args.help \/ args.command = "none")
    /\ Say("app", "help")
    /\ Return(IF args.help THEN "SUCCESS" ELSE "INVALID_PARAMETER")
    /\ UNCHANGED <<setup, tokens, args, volume, todo>>

(* wait_for_input: without a keyboard it does not wait for long. *)
Wait ==
    /\ step = "wait"
    /\ Say("app", "prompt")
    /\ step' = "exit"
    /\ UNCHANGED <<setup, tokens, args, volume, todo, status>>

---------------------------------------------------------------------------
(* extract.rs, over lib/src/source/acpi/efi.rs *)

(* find_acpi_tables: the first that is valid is the one.                   *)
AcpiTables == {i \in DOMAIN setup.tables : setup.tables[i] \notin {"other", "invalid"}}

(* find_bert and extract_crashlog. *)
FromSystemTable ==
    \E i \in AcpiTables : /\ \A j \in AcpiTables : i <= j
                         /\ setup.tables[i] = "crashlog"

NothingFound ==
    /\ Running("extract") /\ ~FromSystemTable
    /\ Return("NOT_FOUND")
    /\ UNCHANGED <<setup, tokens, args, volume, todo, console>>

Targets == IF args.paths = << >> THEN Generated ELSE {args.paths[1]}

(* mutant: the result of the write is dropped *)
ExtractAnyway ==
    /\ Running("extract") /\ FromSystemTable
    /\ \E p \in Targets, w \in {"extracted", "partial"} :
         volume' = [q \in DOMAIN volume \cup {p} |-> IF q = p THEN w ELSE volume[q]]
    /\ Return("SUCCESS")
    /\ UNCHANGED <<setup, tokens, args, todo, console>>

(* A file of the name is replaced. *)
Extract ==
    /\ Running("extract") /\ FromSystemTable
    /\ \E p \in Targets :
         volume' = [q \in DOMAIN volume \cup {p} |-> IF q = p THEN "extracted" ELSE volume[q]]
    /\ Return("SUCCESS")
    /\ UNCHANGED <<setup, tokens, args, todo, console>>

(* The write fails, before or after the old file of the name was removed,  *)
(* or once all is written, when the file is flushed.                       *)
WriteFails ==
    /\ Running("extract") /\ FromSystemTable
    /\ \E p \in Targets :
         \/ volume' \in {volume, [q \in DOMAIN volume \ {p} |-> volume[q]]}
         \/ \E w \in {"partial", "extracted"} :
              volume' = [q \in DOMAIN volume \cup {p} |-> IF q = p THEN w ELSE volume[q]]
    /\ \E s \in FirmwareErrors : Return(s)
    /\ UNCHANGED <<setup, tokens, args, todo, console>>

---------------------------------------------------------------------------
(* decode.rs *)

IsCrashLog(p) == p \in DOMAIN volume /\ volume[p] = "crashlog"

(* The file is not there, cannot be read, or is no crash log; any file may *)
(* fail to be read.                                                        *)
ReadFails ==
    /\ Running("decode")
    /\ \E s \in FirmwareErrors : Return(s)
    /\ UNCHANGED <<setup, tokens, args, volume, todo, console>>

(* Without collateral the crash log is decoded all the same.               *)
Decode ==
    /\ Running("decode") /\ IsCrashLog(args.paths[1])
    /\ step' = "pager"
    /\ UNCHANGED <<setup, tokens, args, volume, todo, console, status>>

(* There is no console, it cannot be opened, or it fails later on. *)
DisplayFails ==
    /\ step = "pager" /\ pc \notin {"quit", "panicked"}
    /\ \E s \in FirmwareErrors : Return(s)
    /\ UNCHANGED <<setup, tokens, args, volume, todo, console>>

DisplayReturns ==
    /\ step = "pager" /\ pc = "quit"
    /\ Return("SUCCESS")
    /\ UNCHANGED <<setup, tokens, args, volume, todo, console>>

Lists(p) == Running("info") /\ IsCrashLog(p) /\ setup.tree
Triages(p) == Running("triage") /\ IsCrashLog(p)

(* A line for every record or tag. A crash log without tags leaves the     *)
(* path alone, which is printed if there are several.                      *)
ListPath ==
    /\ todo # << >>
    /\ Lists(todo[1]) \/ Triages(todo[1])
    /\ \/ Say(todo[1], args.command)
       \/ Triages(todo[1]) /\ Len(args.paths) > 1 /\ Say(todo[1], "path")
       \/ Triages(todo[1]) /\ Len(args.paths) = 1 /\ UNCHANGED console
    /\ todo' = Tail(todo)
    /\ UNCHANGED <<setup, tokens, args, volume, step, status>>

(* mutant: the first path that fails ends the command *)
FailStops ==
    /\ todo # << >> /\ (Running("info") \/ Running("triage"))
    /\ Say(todo[1], "error")
    /\ Return("SUCCESS")
    /\ UNCHANGED <<setup, tokens, args, volume, todo>>

PathFails ==
    /\ todo # << >> /\ (Running("info") \/ Running("triage"))
    /\ Say(todo[1], "error")
    /\ todo' = Tail(todo)
    /\ UNCHANGED <<setup, tokens, args, volume, step, status>>

AllListed ==
    /\ Running("info") \/ Running("triage")
    /\ todo = << >>
    /\ Return("SUCCESS")
    /\ UNCHANGED <<setup, tokens, args, volume, todo, console>>

Parse == NoCommandLine \/ Verbose \/ Flag \/ ParseCommand \/ NoMoreTokens \/ Reject
RunCommand == \/ ShowHelp \/ NothingFound \/ Extract \/ WriteFails
              \/ ReadFails \/ Decode \/ DisplayFails \/ DisplayReturns
              \/ ListPath \/ PathFails \/ AllListed

Page == step = "pager" /\ Next /\ UNCHANGED app

UefiNext == ((Parse \/ RunCommand \/ Wait) /\ UNCHANGED vars) \/ Page

UefiSpec == UefiInit /\ [][UefiNext]_<<vars, app>>

---------------------------------------------------------------------------
Flags == DOMAIN Count \cup Helps \cup Waits

(* show_help, args.rs:175, offers this for -vvv; the parser rejects it.    *)
Offered == {"--vvv"}

(* The command line is taken for what it says: flags, then at most one     *)
(* command, to which belongs all that follows, also what looks like a      *)
(* flag. It is rejected, and nothing run, exactly if it says nothing. What *)
(* a flag that only the help knows should do is left open.                 *)
ParsesRight ==
    step # "parse" /\ setup.shell /\ (\A i \in DOMAIN setup.tokens : setup.tokens[i] \notin Offered) =>
      LET t == setup.tokens
          flags == {i \in DOMAIN t : \A j \in 1 .. i : t[j] \in Flags}
          rest == SubSeq(t, Cardinality(flags) + 1, Len(t))
          Given(words) == \E i \in flags : t[i] \in words
          letters == {l \in flags \X (1 .. MaxVerbosity) :
                        t[l[1]] \in DOMAIN Count /\ l[2] <= Count[t[l[1]]]}
          sound == \/ rest = << >>
                   \/ rest[1] \in {"info", "triage"}
                   \/ rest[1] = "extract" /\ Len(rest) <= 2
                   \/ rest[1] = "decode" /\ Len(rest) = 2
      IN IF ~sound THEN step = "exit" /\ status = "INVALID_PARAMETER" /\ volume = setup.volume
         ELSE args = [help |-> Given(Helps), wait |-> Given(Waits),
                      verbosity |-> Cardinality(letters),
                      command |-> IF rest = << >> THEN "none" ELSE rest[1],
                      paths |-> SubSeq(rest, 2, Len(rest))]

(* At exit: success means that what was asked for is there, the help, the  *)
(* whole file, the text paged until q, a word on every path whatever the   *)
(* others came to (but a single crash log without tags is triaged in       *)
(* silence), and failure that it is not, but for a file whose flush failed.*)
(* Where the firmware has no crash log but behind a table that is not the  *)
(* first to be valid, extract exits with NOT_FOUND and leaves the files    *)
(* alone; from the other commands NOT_FOUND comes for want of a file or a  *)
(* console. No file but the one to extract to is another, and who asked to *)
(* wait was waited for after everything else.                              *)
ExitHonest ==
    step = "exit" =>
      LET Said(what) == \E i \in DOMAIN console : console[i].says = what
          ran == ~Said("rejected")
          about == {i \in DOMAIN console : console[i].says # "prompt"}
          asked == IF args.help THEN "help" ELSE args.command
          changed == {p \in DOMAIN volume \cup DOMAIN setup.volume :
                        ~(p \in DOMAIN volume \cap DOMAIN setup.volume /\ volume[p] = setup.volume[p])}
          done == CASE asked = "help" -> Said("help")
                    [] asked = "none" -> FALSE
                    [] asked = "extract" -> \E p \in changed \cap DOMAIN volume : volume[p] = "extracted"
                    [] asked = "decode" -> pc = "quit"
                    [] OTHER -> \/ [i \in about |-> console[i].of] = args.paths
                                \/ /\ asked = "triage" /\ about = {}
                                   /\ Len(args.paths) = 1 /\ IsCrashLog(args.paths[1])
          known == {i \in DOMAIN setup.tables : setup.tables[i] = "crashlog"}
          valid == {i \in DOMAIN setup.tables : setup.tables[i] \notin {"other", "invalid"}}
      IN /\ status = "SUCCESS" => ran /\ done
         /\ ran /\ done => status = "SUCCESS" \/ asked = "extract"
         /\ ran /\ asked = "extract" /\ (\A i \in known : \E j \in valid : j < i) =>
              status = "NOT_FOUND" /\ changed = {}
         /\ status = "NOT_FOUND" => ran /\ asked \in {"extract", "decode"}
         /\ changed \subseteq IF asked = "extract" THEN Targets ELSE {}
         /\ \A i \in DOMAIN console :
              console[i].says \in {"info", "triage", "path"} => IsCrashLog(console[i].of)
         /\ Said("prompt") <=> ran /\ args.wait
         /\ Said("prompt") => console[Len(console)].says = "prompt"
=============================================================================
