----------------------------- MODULE Pager -----------------------------
(***************************************************************************)
(* The text pager of the UEFI application (efi/src/pager.rs, input.rs,    *)
(* update.rs, window.rs, render.rs).                                       *)
(*                                                                         *)
(* A line is the set of patterns it contains, a pattern a sequence of     *)
(* characters. usize arithmetic is done modulo Word, as the release build *)
(* does it; a division by zero, a failing clamp or a slice out of range    *)
(* stops the application (panicked).                                       *)
(***************************************************************************)
EXTENDS Integers, Sequences

CONSTANTS
    Texts,       \* the texts the pager may be given, printed JSON: sequences of lines
    Consoles,    \* the console modes: [rows, columns]
    Chars,       \* the printable keys that are neither Enter nor a command
    MaxPattern,  \* bound: the longest search pattern typed
    Word         \* 2^64 in the code

ASSUME PagerAssumption ==
    /\ Word \in Nat
    /\ \A t \in Texts : t \in Seq(SUBSET Seq(Chars)) /\ Len(t) \in 1 .. Word - 1
    /\ \A c \in Consoles : c.rows \in 2 .. Word \div 101 /\ c.columns \in 12 .. Word - 1

VARIABLES
    lines, rows, columns,  \* fixed when the pager is created
    line,       \* window.line, the first line on the screen
    mode,       \* View or Search
    pattern,    \* search_pattern
    pc,         \* render, wait, quit or panicked
    shown,      \* the text lines of the last page rendered
    percent     \* the position it showed, -1 for none

vars == <<lines, rows, columns, line, mode, pattern, pc, shown, percent>>

Sub(a, b) == (a - b) % Word      \* usize subtraction that wraps
Least(a, b) == IF a <= b THEN a ELSE b
SaturatingSub(a, b) == IF a >= b THEN a - b ELSE 0

(* str::contains: the empty pattern is in every line. *)
Contains(l, p) == p = << >> \/ p \in l

Init ==
    /\ lines \in Texts
    /\ \E c \in Consoles : rows = c.rows /\ columns = c.columns
    /\ line = 0
    /\ mode = "View"
    /\ pattern = << >>
    /\ pc = "render"
    /\ shown = {}
    /\ percent = -1

---------------------------------------------------------------------------
(* render: the page, and in View mode the position in the status bar.      *)

(* The value render_line_status divides by. *)
End == (Sub(Len(lines), rows) + 1) % Word

Render ==
    /\ pc = "render"
    /\ shown' = {n \in line .. line + rows - 2 : n < Len(lines)}
    /\ IF mode = "View"
       THEN IF End = 0
            THEN pc' = "panicked" /\ UNCHANGED percent
            ELSE pc' = "wait" /\ percent' = (100 * Least(line, End)) \div End
       ELSE pc' = "wait" /\ percent' = -1
    /\ UNCHANGED <<lines, rows, columns, line, mode, pattern>>

---------------------------------------------------------------------------
(* update.rs: the commands.                                               *)

MoveTo(n) == line' = n /\ pc' = "render"

(* mutant: one line too far *)
MoveTooFar(delta) ==
    MoveTo(IF line + delta < 0 THEN 0 ELSE Least(line + delta, Len(lines)))

(* clamp(0, len - 1) panics when there is no line at all.                  *)
MoveWindow(delta) ==
    IF Len(lines) = 0
    THEN pc' = "panicked" /\ UNCHANGED line
    ELSE MoveTo(IF line + delta < 0 THEN 0 ELSE Least(line + delta, Len(lines) - 1))

Matches == {n \in 0 .. Len(lines) - 1 : Contains(lines[n + 1], pattern)}

SearchNext ==
    LET s == {n \in Matches : n > line} IN
    MoveTo(IF s = {} THEN line ELSE CHOOSE n \in s : \A m \in s : n <= m)

(* mutant: 0..line without rev() *)
SearchFromTop ==
    LET s == {n \in Matches : n < line} IN
    MoveTo(IF s = {} THEN line ELSE CHOOSE n \in s : \A m \in s : n <= m)

SearchPrevious ==
    LET s == {n \in Matches : n < line} IN
    MoveTo(IF s = {} THEN line ELSE CHOOSE n \in s : \A m \in s : m <= n)

Viewing == pc = "wait" /\ mode = "View"
Frame == UNCHANGED <<lines, rows, columns, shown, percent>>

Top == Viewing /\ MoveTo(0) /\ UNCHANGED <<mode, pattern>> /\ Frame
Bottom == Viewing /\ MoveTo(SaturatingSub(Len(lines), rows - 1))
          /\ UNCHANGED <<mode, pattern>> /\ Frame
Down == Viewing /\ MoveWindow(1) /\ UNCHANGED <<mode, pattern>> /\ Frame
Up == Viewing /\ MoveWindow(-1) /\ UNCHANGED <<mode, pattern>> /\ Frame
PageDown == Viewing /\ MoveWindow(rows - 2) /\ UNCHANGED <<mode, pattern>> /\ Frame
PageUp == Viewing /\ MoveWindow(-(rows - 2)) /\ UNCHANGED <<mode, pattern>> /\ Frame
NextMatch == Viewing /\ SearchNext /\ UNCHANGED <<mode, pattern>> /\ Frame
PreviousMatch == Viewing /\ SearchPrevious /\ UNCHANGED <<mode, pattern>> /\ Frame

Quit == /\ Viewing
        /\ pc' = "quit"
        /\ UNCHANGED <<line, mode, pattern>> /\ Frame

---------------------------------------------------------------------------
(* input.rs: the search mode.                                             *)

StartSearch ==
    /\ Viewing
    /\ pattern' = << >>
    /\ mode' = "Search"
    /\ pc' = "render"
    /\ UNCHANGED line /\ Frame

Searching == pc = "wait" /\ mode = "Search"

TypeChar ==
    /\ Searching
    /\ Len(pattern) < MaxPattern
    /\ \E k \in Chars : pattern' = Append(pattern, k)
    /\ pc' = "render"
    /\ UNCHANGED <<line, mode>> /\ Frame

Delete ==
    /\ Searching
    /\ pattern' = IF pattern = << >> THEN << >> ELSE SubSeq(pattern, 1, Len(pattern) - 1)
    /\ pc' = "render"
    /\ UNCHANGED <<line, mode>> /\ Frame

Enter ==
    /\ Searching
    /\ mode' = "View"
    /\ SearchNext
    /\ UNCHANGED pattern /\ Frame

(* A key that means nothing in the current mode is read and forgotten.     *)
Command == Top \/ Bottom \/ Down \/ Up \/ PageDown \/ PageUp \/ NextMatch
           \/ PreviousMatch \/ Quit

Next == Render \/ Command \/ StartSearch \/ TypeChar \/ Delete \/ Enter

Spec == Init /\ [][Next]_vars

---------------------------------------------------------------------------
(* Type invariant. *)
TypeOK ==
    /\ lines \in Texts
    /\ line \in 0 .. Word - 1
    /\ mode \in {"View", "Search"}
    /\ pattern \in Seq(Chars)
    /\ pc \in {"render", "wait", "quit", "panicked"}
    /\ shown \subseteq 0 .. Len(lines) - 1
    /\ percent \in -1 .. 100

(* However the commands, pages and searches alternate, the window stays on *)
(* a line of the text, so a page that was drawn shows something.           *)
NeverBlank == pc = "wait" => line < Len(lines) /\ shown # {}

(* The position in the status bar, render_line_status, beside the page,    *)
(* which render_page computes from other numbers: it says 100% exactly     *)
(* when the last line is shown and the text fills the screen. Of a shorter *)
(* text the last line is shown as well, yet the subtraction has wrapped    *)
(* and the position is 0%, on whatever line the window is.                 *)
PercentFollows ==
    pc = "wait" /\ percent # -1 =>
        /\ percent = 100 <=> Len(lines) >= rows /\ Len(lines) - 1 \in shown
        /\ Len(lines) < rows => percent = 0 /\ Len(lines) - 1 \in shown

(* What a drawn screen shows, whatever was typed to get there: a page of   *)
(* the text (window and clamp in update.rs) and the place in it that the   *)
(* status bar gives (render.rs).                                           *)
PageRight == NeverBlank /\ PercentFollows

(* A search, forward or backward, moves to a line that contains the       *)
(* pattern and skips no match on the way, or does not move.                *)
SearchExact ==
    [][(NextMatch \/ PreviousMatch \/ Enter) /\ line' # line =>
         /\ Contains(lines[line' + 1], pattern)
         /\ \A n \in 0 .. Len(lines) - 1 :
              n # line' /\ Contains(lines[n + 1], pattern) =>
                 ~(line < n /\ n < line') /\ ~(line' < n /\ n < line)]_vars

(* efi/README.md:6-8: "the application can decode the extracted records    *)
(* and display the crash data on the UEFI console".                        *)
Displays == pc # "panicked"
=============================================================================
