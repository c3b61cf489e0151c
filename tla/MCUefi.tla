------------------------------- MODULE MCUefi -------------------------------
(***************************************************************************)
(* Every command line of up to MaxTokens tokens, on a file system with a   *)
(* crash log and another file; every list of up to three tables; and one   *)
(* crash log that is decoded to the texts of MCPager.                      *)
(***************************************************************************)
EXTENDS Uefi, MCPager

CONSTANT MaxTokens

MCCount == [t \in {"-v", "-vvvv"} |-> IF t = "-v" THEN 1 ELSE 4]
MCGenerated == {"efi-2024-01-31-23-59.crashlog", "efi.crashlog"}

Tokens == {"-h", "--wait", "-v", "-vvvv", "--vvv", "extract", "decode", "info", "triage", "good", "bad"}
MCWords == Tokens \cup {"none"}

Volume == [p \in {"good", "bad", "efi.crashlog"} |-> IF p = "good" THEN "crashlog" ELSE "foreign"]

Setup(shell, line_, tables, tree, text) ==
    [shell |-> shell, tokens |-> line_, tables |-> tables, tree |-> tree,
     volume |-> Volume, text |-> text]

OneLine == <<{}>>
Found == <<"other", "crashlog">>

MCSetups ==
    {Setup(TRUE, t, Found, TRUE, OneLine) : t \in UNION {[1 .. n -> Tokens] : n \in 0 .. MaxTokens}}
    \cup {Setup(shell, <<"extract">>, ts, TRUE, OneLine) :
             shell \in BOOLEAN, ts \in UNION {[1 .. n -> Tables] : n \in 0 .. 3}}
    \cup {Setup(TRUE, t, Found, FALSE, OneLine) : t \in {<<"info", "good", "bad", "good">>,
                                                         <<"-v", "triage", "good", "bad", "none">>,
                                                         <<"decode", "good">>}}
    \cup {Setup(TRUE, <<"--wait", "decode", "good">>, Found, TRUE, text) : text \in MCTexts}
=============================================================================
