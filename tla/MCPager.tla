---------------------------- MODULE MCPager ----------------------------
(***************************************************************************)
(* Short texts over two characters on a console of a few rows.             *)
(***************************************************************************)
EXTENDS Pager

CONSTANTS x, y, MinLen, MaxLen

MCChars == {x, y}

(* A line with neither, with x, and with both next to each other.          *)
LineKinds == {{}, {<<x>>}, {<<x>>, <<y>>, <<x, y>>}}

MCTexts == UNION {[1 .. n -> LineKinds] : n \in MinLen .. MaxLen}

MCConsoles == {[rows |-> 3, columns |-> 80], [rows |-> 4, columns |-> 80]}
=============================================================================
