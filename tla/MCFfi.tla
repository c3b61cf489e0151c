------------------------------- MODULE MCFfi -------------------------------
(***************************************************************************)
(* Two crash logs, one with a tree of two levels and one with a root only. *)
(***************************************************************************)
EXTENDS Ffi

CONSTANTS l1, l2

MCLogs == {l1, l2}
MCEventLogs == {<< >>, <<l2>>, <<l1, l2>>}
MCBytes == 1 .. 3
MCCper == [l \in MCLogs |-> IF l = l1 THEN <<1, 2, 3>> ELSE <<2>>]
MCJson == [l \in MCLogs |-> <<3, 1>>]

a == <<1>>
bc == <<2, 3>>
MCNames == {a, bc}
MCTrees ==
    [l \in MCLogs |->
        IF l = l2 THEN [p \in {<< >>} |-> << >>]
        ELSE [p \in {<< >>, <<a>>, <<bc>>, <<bc, a>>} |->
                CASE p = << >> -> <<a, bc>> [] p = <<bc>> -> <<a>> [] OTHER -> << >>]]
=============================================================================
