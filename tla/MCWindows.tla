--------------------------- MODULE MCWindows ---------------------------
(***************************************************************************)
(* Two processes on one system. On Linux the sources give up to two crash  *)
(* logs each. On Windows the first process reads the event log: every      *)
(* exported file of up to three events and every pair of channels with up  *)
(* to two and one, of mixed providers, on an idle system; and channels of  *)
(* one sound event each while the second process writes files of the same  *)
(* names. An exported file does not change; channels grow.                 *)
(***************************************************************************)
EXTENDS Windows

CONSTANTS p1, p2

Two == {p1, p2}

Unnamed == [names |-> {"unnamed"}, max |-> 1]
Minute == [names |-> {"minute"}, max |-> 1]
MCDefault == [linux |-> <<Unnamed, Unnamed>>, windows |-> <<Minute>>]

Acpi == [names |-> {"acpi"}, max |-> 1]
Device == [names |-> {"pmt:dev"}, max |-> 2]
Nil == [names |-> {"acpi"}, max |-> 0]

Line(os, out, sources) == [os |-> os, out |-> out, sources |-> sources]
Idle == Line("windows", "cwd", <<Nil>>)
Lines == {Line("linux", "cwd", << >>), Line("linux", "dir", <<Acpi, Device>>),
          Line("linux", "file", << >>),
          Line("windows", "cwd", << >>), Line("windows", "beside", << >>), Idle}

dev == <<"device">>
LinuxFiles == {{dev}, {dev, <<"file">>}, {dev, <<"dir", "pmt:dev", 0>>},
               {dev, <<"dir", "acpi", 0>>, <<"dir", "acpi", 1>>, <<"cwd", "unnamed", 0>>}}
WindowsFiles == {{dev}, {dev, <<"beside", 1>>}, {dev, <<"cwd", "minute", 0>>}}
MCOldFiles == LinuxFiles \cup WindowsFiles

---------------------------------------------------------------------------
Ev(provider, data, time, computer) ==
    [provider |-> provider, data |-> data, time |-> time, computer |-> computer]

Sound(provider) == Ev(provider, "sound", "valid", "text")

(* What events can be like, without combinations that cannot matter.       *)
Kinds(provider) ==
    {Ev(provider, "sound", "valid", "text"), Ev(provider, "sound", "valid", "broken"),
     Ev(provider, "sound", "invalid", "text"), Ev(provider, "garbage", "invalid", "text"),
     Ev(provider, "absent", "valid", "text"), Ev(provider, "blank", "valid", "text")}

UpTo(n, S) == UNION {[1 .. k -> S] : k \in 0 .. n}

FewKinds == {Sound("other")} \cup
            {e \in Kinds("kernel-whea") \cup Kinds("whea-logger") :
                e.data \in {"sound", "garbage"} /\ e.computer = "text"}

MCArriving == {Sound("kernel-whea"), Ev("whea-logger", "sound", "valid", "broken"),
               Ev("whea-logger", "sound", "invalid", "text"), Sound("other")}

Logs == {"whea errors", "system", "file"}
File(f) == [fromFile |-> TRUE, logs |-> [l \in Logs |-> IF l = "file" THEN f ELSE << >>]]
Channels(w, s) ==
    [fromFile |-> FALSE, logs |-> [l \in Logs |-> CASE l = "whea errors" -> w
                                                          [] l = "system" -> s
                                                          [] OTHER -> << >>]]

MCSetups ==
    {File(f) : f \in UpTo(3, FewKinds)}
    \cup {Channels(w, s) : w \in UpTo(2, {e \in Kinds("kernel-whea") : e.computer = "text"}),
                           s \in UpTo(1, Kinds("whea-logger") \cup {Sound("other")})}

(* The instances described above.                                          *)
MCInit ==
    /\ WindowsInit
    /\ cli[p1].os = "linux" => DOMAIN fs \in LinuxFiles
    /\ cli[p1].os = "windows" =>
         \/ /\ cli[p2] = Idle
            /\ DOMAIN fs = IF Unpacks(p1) THEN {dev, <<"beside", 1>>} ELSE {dev}
         \/ /\ cli[p2] # Idle
            /\ DOMAIN fs = {dev, <<"cwd", "minute", 0>>}
            /\ logs["whea errors"] = <<Sound("kernel-whea")>>
            /\ logs["system"] = <<Sound("whea-logger")>>

MCSpec == MCInit /\ [][WindowsNext]_<<vars, reading>>
                 /\ \A p \in Procs : WF_<<vars, reading>>(WindowsStep(p))
=============================================================================
