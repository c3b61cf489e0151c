---------------------------- MODULE UefiProof ---------------------------
(***************************************************************************)
(* Theorems about Uefi and Pager, for every text and console, every        *)
(* command line, every file system and list of tables, and every           *)
(* interleaving of keys and failures.                                      *)
(***************************************************************************)
EXTENDS Uefi, FiniteSetTheorems, TLAPS

---------------------------------------------------------------------------
(* Numbers: sets of numbers have a first and, bounded, a last element; how *)
(* % and \div behave where the pager uses them.                            *)

LEMMA LeastOf ==
    ASSUME NEW T \in SUBSET Nat, T # {}
    PROVE  \E n \in T : \A m \in T : n <= m
<1> DEFINE Below == {0 .. n : n \in T}
           R == StrictSubsetOrdering(Nat)
<1>1. IsWellFoundedOn(R, FiniteSubsetsOf(Nat))
  BY FS_StrictSubsetOrderingWellFounded
<1>2. Below \subseteq FiniteSubsetsOf(Nat) /\ Below # {}
  <2>1. \A n \in T : n \in Nat
    OBVIOUS
  <2>2. \A n \in Nat : IsFiniteSet(0 .. n) /\ 0 .. n \in SUBSET Nat
    BY FS_Interval
  <2> QED BY <2>1, <2>2 DEF FiniteSubsetsOf
<1> HIDE DEF R
<1>3. PICK B \in Below : \A C \in Below : ~ (<<C, B>> \in R)
  BY <1>1, <1>2, WFMin
<1>4. PICK n \in T : B = 0 .. n
  BY <1>3
<1>5. ASSUME NEW m \in T, m < n PROVE FALSE
  <2>1. m \in Nat /\ n \in Nat
    OBVIOUS
  <2>2. 0 .. m \in Below
    OBVIOUS
  <2>3. 0 .. m \subseteq 0 .. n /\ 0 .. m # 0 .. n
    <3>1. n \in 0 .. n /\ n \notin 0 .. m
      BY <1>5, <2>1
    <3> QED BY <1>5, <2>1, <3>1
  <2>4. <<0 .. m, 0 .. n>> \in R
    BY <2>1, <2>3 DEF R, StrictSubsetOrdering
  <2> QED BY <1>3, <1>4, <2>2, <2>4
<1>6. \A m \in T : n <= m
  BY <1>5
<1> QED BY <1>6

LEMMA GreatestOf ==
    ASSUME NEW b \in Nat, NEW T \in SUBSET (0 .. b), T # {}
    PROVE  \E n \in T : \A m \in T : m <= n
<1> DEFINE Turned == {b - n : n \in T}
<1>1. Turned \in SUBSET Nat /\ Turned # {}
  <2>1. \A n \in T : n \in 0 .. b /\ b - n \in Nat
    OBVIOUS
  <2>2. \A k \in Turned : k \in Nat
    BY <2>1
  <2> QED BY <2>2
<1>2. PICK k \in Turned : \A j \in Turned : k <= j
  <2> HIDE DEF Turned
  <2> QED BY <1>1, LeastOf
<1>3. PICK n \in T : k = b - n
  OBVIOUS
<1>4. \A m \in T : b - n <= b - m
  BY <1>2, <1>3
<1> QED BY <1>4

LEMMA SmallMod ==
    ASSUME NEW w \in Nat, NEW a \in 0 .. w - 1
    PROVE  a % w = a
OBVIOUS

LEMMA WrappedMod ==
    ASSUME NEW w \in Nat, NEW a \in -w .. -1, w > 0
    PROVE  a % w = a + w
<1> DEFINE r == a % w
           q == a \div w
<1>1. r \in 0 .. w - 1 /\ q \in Int /\ a = w * q + r
  OBVIOUS
<1> HIDE DEF r, q
<1>2. q = -1
  <2>1. CASE q >= 0
    <3>1. w * q >= 0
      BY <1>1, <2>1
    <3> QED BY <1>1, <3>1
  <2>2. CASE q <= -2
    <3>1. w * q <= w * (-2)
      BY <1>1, <2>2
    <3> QED BY <1>1, <3>1
  <2> QED BY <1>1, <2>1, <2>2
<1> QED BY <1>1, <1>2 DEF r

LEMMA NoPart ==
    ASSUME NEW e \in Nat, NEW a \in 0 .. e - 1
    PROVE  a \div e = 0
<1> DEFINE q == a \div e
<1>1. q \in Int /\ e * q <= a /\ a < e * (q + 1) /\ e > 0
  OBVIOUS
<1> HIDE DEF q
<1>2. q < 1
  <2> SUFFICES ASSUME q >= 1 PROVE FALSE
    BY <1>1
  <2>1. e * q >= e * 1
    BY <1>1
  <2> QED BY <1>1, <2>1
<1>3. q > -1
  <2> SUFFICES ASSUME q + 1 <= 0 PROVE FALSE
    BY <1>1
  <2>1. e * (q + 1) <= e * 0
    BY <1>1
  <2> QED BY <1>1, <2>1
<1> QED BY <1>1, <1>2, <1>3 DEF q

LEMMA Hundred ==
    ASSUME NEW e \in Nat, e > 0, NEW a \in 0 .. e
    PROVE  /\ (100 * a) \div e \in 0 .. 100
           /\ (100 * a) \div e = 100 <=> a = e
<1> DEFINE q == (100 * a) \div e
<1>1. q \in Int /\ e * q <= 100 * a /\ 100 * a < e * (q + 1)
  OBVIOUS
<1> HIDE DEF q
<1>2. q <= 100
  <2> SUFFICES ASSUME q >= 101 PROVE FALSE
    BY <1>1
  <2>1. e * q >= e * 101
    BY <1>1
  <2> QED BY <1>1, <2>1
<1>3. q >= 0
  <2> SUFFICES ASSUME q + 1 <= 0 PROVE FALSE
    BY <1>1
  <2>1. e * (q + 1) <= e * 0
    BY <1>1
  <2> QED BY <1>1, <2>1
<1>4. q = 100 => a = e
  BY <1>1
<1>5. a = e => q = 100
  <2> SUFFICES ASSUME a = e, q <= 99 PROVE FALSE
    BY <1>1, <1>2
  <2>1. e * (q + 1) <= e * 100
    BY <1>1
  <2> QED BY <1>1, <2>1
<1> QED BY <1>1, <1>2, <1>3, <1>4, <1>5 DEF q
---------------------------------------------------------------------------
(* The pager. Every command leaves the window on a line of the text; a     *)
(* page is drawn by Render alone, so what it shows is what is waited on.   *)

Window ==
    /\ lines \in Texts
    /\ rows \in 2 .. Word \div 101
    /\ line \in 0 .. Len(lines) - 1

WindowInv == Window /\ PageRight

LEMMA WindowNumbers ==
    ASSUME Window
    PROVE  /\ Word \in Nat /\ rows \in Int /\ 2 <= rows /\ 101 * rows <= Word
           /\ Len(lines) \in Nat /\ 1 <= Len(lines) /\ Len(lines) < Word
           /\ line \in Int /\ 0 <= line /\ line < Len(lines)
BY PagerAssumption DEF Window

(* The line a search takes is the nearest match on its side.               *)
LEMMA Nearest ==
    ASSUME Window
    PROVE  /\ SearchNext =>
                \/ line' = line
                \/ /\ line' \in Matches /\ line < line'
                   /\ \A n \in Matches : line < n => line' <= n
           /\ SearchPrevious =>
                \/ line' = line
                \/ /\ line' \in Matches /\ line' < line
                   /\ \A n \in Matches : n < line => n <= line'
<1>a. /\ Len(lines) \in Nat
      /\ line \in Int /\ 0 <= line /\ line < Len(lines)
  BY WindowNumbers
<1> DEFINE After == {n \in Matches : n > line}
           Before == {n \in Matches : n < line}
<1>0. \A n \in Matches : n \in Int /\ 0 <= n /\ n < Len(lines)
  BY <1>a DEF Matches
<1>1. ASSUME SearchNext
      PROVE  \/ line' = line
             \/ /\ line' \in Matches /\ line < line'
                /\ \A n \in Matches : line < n => line' <= n
  <2>1. CASE After = {}
    BY <1>1, <2>1 DEF SearchNext, MoveTo
  <2>2. CASE After # {}
    <3>1. After \in SUBSET Nat
      <4>1. \A n \in After : n \in Nat
        BY <1>0
      <4> QED BY <4>1
    <3>2. \E n \in After : \A m \in After : n <= m
      <4> HIDE DEF After
      <4> QED BY <2>2, <3>1, LeastOf
    <3>3. line' = CHOOSE n \in After : \A m \in After : n <= m
      BY <1>1, <2>2 DEF SearchNext, MoveTo
    <3>4. line' \in After /\ \A m \in After : line' <= m
      <4> HIDE DEF After
      <4> QED BY <3>2, <3>3
    <3>5. \A n \in Matches : n \in Int
      BY <1>0
    <3> QED BY <3>4, <3>5
  <2> QED BY <2>1, <2>2
<1>2. ASSUME SearchPrevious
      PROVE  \/ line' = line
             \/ /\ line' \in Matches /\ line' < line
                /\ \A n \in Matches : n < line => n <= line'
  <2>1. CASE Before = {}
    BY <1>2, <2>1 DEF SearchPrevious, MoveTo
  <2>2. CASE Before # {}
    <3>1. Before \in SUBSET (0 .. line)
      <4>1. \A n \in Before : n \in 0 .. line
        BY <1>0, <1>a
      <4> QED BY <4>1
    <3>a. line \in Nat
      BY <1>a
    <3>2. \E n \in Before : \A m \in Before : m <= n
      <4> HIDE DEF Before
      <4> QED BY <2>2, <3>a, <3>1, GreatestOf
    <3>3. line' = CHOOSE n \in Before : \A m \in Before : m <= n
      BY <1>2, <2>2 DEF SearchPrevious, MoveTo
    <3>4. line' \in Before /\ \A m \in Before : m <= line'
      <4> HIDE DEF Before
      <4> QED BY <3>2, <3>3
    <3> QED BY <3>4
  <2> QED BY <2>1, <2>2
<1> QED BY <1>1, <1>2

(* What a page shows and what the status bar says of it.                   *)
LEMMA RenderRight ==
    ASSUME WindowInv, Render
    PROVE  PageRight'
<1> USE WindowNumbers DEF WindowInv
<1>1. /\ shown' = {n \in line .. line + rows - 2 : n < Len(lines)}
      /\ lines' = lines /\ rows' = rows /\ line' = line
  BY DEF Render
<1>2. NeverBlank'
  <2>1. line \in line .. line + rows - 2 /\ line < Len(lines)
    OBVIOUS
  <2>2. line \in shown'
    BY <1>1, <2>1
  <2> QED BY <1>1, <2>1, <2>2 DEF NeverBlank
<1>3. ASSUME pc' = "wait", percent' # -1, Len(lines) >= rows
      PROVE  percent' = 100 <=> Len(lines) - 1 \in shown'
  <2> USE <1>3
  <2> DEFINE e == Len(lines) - rows + 1
  <2>1. End = e
    <3>1. (Len(lines) - rows) % Word = Len(lines) - rows
      BY SmallMod
    <3>2. e \in 0 .. Word - 1
      OBVIOUS
    <3>3. e % Word = e
      BY <3>2, SmallMod
    <3> QED BY <3>1, <3>3 DEF End, Sub
  <2>2. percent' = (100 * Least(line, e)) \div e
    BY <2>1 DEF Render
  <2>3. Least(line, e) \in 0 .. e /\ e \in Nat /\ e > 0
    BY DEF Least
  <2>4. percent' = 100 <=> Least(line, e) = e
    <3> HIDE DEF e
    <3> QED BY <2>2, <2>3, Hundred
  <2>5. Least(line, e) = e <=> line >= e
    BY DEF Least
  <2>6. Len(lines) - 1 \in shown' <=> line >= e
    BY <1>1
  <2> QED BY <2>4, <2>5, <2>6
<1>4. ASSUME pc' = "wait", percent' # -1, Len(lines) < rows
      PROVE  percent' = 0 /\ Len(lines) - 1 \in shown'
  <2> USE <1>4
  <2> DEFINE d == Len(lines) - rows
             e == d + Word + 1
  <2>1. d \in -Word .. -1 /\ Word > 0
    OBVIOUS
  <2>2. Sub(Len(lines), rows) = d + Word
    BY <2>1, WrappedMod DEF Sub
  <2>3. End # 0 /\ percent' = (100 * Least(line, End)) \div End
    BY DEF Render
  <2>4. d # -1
    <3> SUFFICES ASSUME d = -1 PROVE FALSE
      OBVIOUS
    <3>1. End = Word % Word
      BY <2>2 DEF End
    <3>2. Word % Word = 0
      BY <2>1
    <3> QED BY <2>3, <3>1, <3>2
  <2>5. e \in 0 .. Word - 1
    BY <2>1, <2>4
  <2>6. End = e
    <3>1. End = e % Word
      BY <2>2 DEF End
    <3> HIDE DEF e
    <3> QED BY <2>5, <3>1, SmallMod
  <2>7. 100 * line \in 0 .. e - 1 /\ line <= e
    OBVIOUS
  <2>8. percent' = 0
    <3>1. Least(line, e) = line
      BY <2>7 DEF Least
    <3>2. percent' = (100 * line) \div e
      BY <2>3, <2>6, <3>1
    <3> HIDE DEF e
    <3> QED BY <2>5, <2>7, <3>2, NoPart
  <2>9. Len(lines) - 1 \in shown'
    BY <1>1
  <2> QED BY <2>8, <2>9
<1>5. PercentFollows'
  <2> SUFFICES ASSUME pc' = "wait", percent' # -1
               PROVE  /\ percent' = 100 <=> Len(lines) >= rows /\ Len(lines) - 1 \in shown'
                      /\ Len(lines) < rows => percent' = 0 /\ Len(lines) - 1 \in shown'
    BY <1>1 DEF PercentFollows
  <2>1. CASE Len(lines) >= rows
    BY <1>3, <2>1
  <2>2. CASE Len(lines) < rows
    BY <1>4, <2>2
  <2> QED BY <2>1, <2>2
<1> QED BY <1>2, <1>5 DEF PageRight

LEMMA MoveStays ==
    ASSUME Window, NEW delta \in Int, MoveWindow(delta)
    PROVE  line' \in 0 .. Len(lines) - 1 /\ pc' # "wait"
BY WindowNumbers DEF MoveWindow, MoveTo, Least

LEMMA CommandStays ==
    ASSUME Window, Command \/ StartSearch \/ TypeChar \/ Delete \/ Enter
    PROVE  /\ line' \in 0 .. Len(lines) - 1 /\ pc' # "wait"
           /\ lines' = lines /\ rows' = rows
<1> USE WindowNumbers
<1>1. lines' = lines /\ rows' = rows
  BY DEF Command, Top, Bottom, Down, Up, PageDown, PageUp, NextMatch, PreviousMatch, Quit,
         StartSearch, TypeChar, Delete, Enter, Frame
<1>2. \A n \in Matches : n \in 0 .. Len(lines) - 1
  BY DEF Matches
<1>n. /\ rows \in Int /\ 2 <= rows
      /\ Len(lines) \in Nat /\ 1 <= Len(lines)
      /\ line \in Int /\ 0 <= line /\ line < Len(lines)
  BY WindowNumbers
<1>3. CASE Top
  BY <1>1, <1>3, <1>n DEF Top, MoveTo
<1>4. CASE Bottom
  <2>1. line' = SaturatingSub(Len(lines), rows - 1) /\ pc' = "render"
    BY <1>4 DEF Bottom, MoveTo
  <2>2. SaturatingSub(Len(lines), rows - 1) \in 0 .. Len(lines) - 1
    BY <1>n DEF SaturatingSub
  <2> QED BY <1>1, <2>1, <2>2
<1>5. CASE Down
  <2>1. MoveWindow(1)
    BY <1>5 DEF Down
  <2> QED BY <1>1, <2>1, MoveStays
<1>6. CASE Up
  <2>1. MoveWindow(-1)
    BY <1>6 DEF Up
  <2> QED BY <1>1, <2>1, MoveStays
<1>7. CASE PageDown
  <2>1. MoveWindow(rows - 2) /\ rows - 2 \in Int
    BY <1>7 DEF PageDown
  <2> QED BY <1>1, <2>1, MoveStays
<1>8. CASE PageUp
  <2>1. MoveWindow(-(rows - 2)) /\ -(rows - 2) \in Int
    BY <1>8 DEF PageUp
  <2> QED BY <1>1, <2>1, MoveStays
<1>9. CASE NextMatch \/ Enter
  <2>1. SearchNext /\ pc' # "wait"
    BY <1>9 DEF NextMatch, Enter, SearchNext, MoveTo
  <2>2. line \in 0 .. Len(lines) - 1
    BY <1>n
  <2> QED BY <1>1, <1>2, <2>1, <2>2, Nearest
<1>10. CASE PreviousMatch
  <2>1. SearchPrevious /\ pc' # "wait"
    BY <1>10 DEF PreviousMatch, SearchPrevious, MoveTo
  <2>2. line \in 0 .. Len(lines) - 1
    BY <1>n
  <2> QED BY <1>1, <1>2, <2>1, <2>2, Nearest
<1>11. CASE Quit \/ StartSearch \/ TypeChar \/ Delete
  BY <1>1, <1>11 DEF Quit, StartSearch, TypeChar, Delete
<1> QED BY <1>3, <1>4, <1>5, <1>6, <1>7, <1>8, <1>9, <1>10, <1>11 DEF Command

LEMMA InitWindow == UefiInit => WindowInv
<1> SUFFICES ASSUME UefiInit PROVE WindowInv
  OBVIOUS
<1>1. Init
  BY DEF UefiInit
<1>2. PICK c \in Consoles : rows = c.rows /\ columns = c.columns
  BY <1>1 DEF Init
<1>3. Window
  BY <1>1, <1>2, PagerAssumption DEF Init, Window
<1>4. PageRight
  BY <1>1 DEF Init, PageRight, NeverBlank, PercentFollows
<1> QED BY <1>3, <1>4 DEF WindowInv

LEMMA NextWindow == WindowInv /\ [UefiNext]_<<vars, app>> => WindowInv'
<1> SUFFICES ASSUME WindowInv, [UefiNext]_<<vars, app>> PROVE WindowInv'
  OBVIOUS
<1> USE DEF WindowInv
<1>1. CASE UNCHANGED vars
  BY <1>1 DEF vars, Window, PageRight, NeverBlank, PercentFollows
<1>2. CASE Render
  <2>1. lines' = lines /\ rows' = rows /\ line' = line
    BY <1>2 DEF Render
  <2>2. Window'
    BY <2>1 DEF Window
  <2> QED BY <1>2, <2>2, RenderRight
<1>3. CASE Command \/ StartSearch \/ TypeChar \/ Delete \/ Enter
  <2>1. /\ line' \in 0 .. Len(lines) - 1 /\ pc' # "wait"
        /\ lines' = lines /\ rows' = rows
    BY <1>3, CommandStays
  <2>2. Window'
    BY <2>1 DEF Window
  <2> QED BY <2>1, <2>2 DEF PageRight, NeverBlank, PercentFollows
<1> QED BY <1>1, <1>2, <1>3 DEF UefiNext, Page, Next

LEMMA WindowAlways == UefiSpec => []WindowInv
BY InitWindow, NextWindow, PTL DEF UefiSpec

(* Whatever commands, pages and searches came before, and for texts of     *)
(* every length, the screen shows a page of the text; the status bar says  *)
(* 100% exactly at the end of a text that fills the screen, and 0% all     *)
(* along one that does not (render.rs:82).                                 *)
THEOREM PagesAreRight == UefiSpec => []PageRight
<1>1. WindowInv => PageRight
  BY DEF WindowInv
<1> QED BY <1>1, WindowAlways, PTL

(* A search goes to the nearest match on its side, or stays.               *)
THEOREM SearchesAreExact == UefiSpec => SearchExact
<1> DEFINE Right ==
      (NextMatch \/ PreviousMatch \/ Enter) /\ line' # line =>
         /\ Contains(lines[line' + 1], pattern)
         /\ \A n \in 0 .. Len(lines) - 1 :
              n # line' /\ Contains(lines[n + 1], pattern) =>
                 ~(line < n /\ n < line') /\ ~(line' < n /\ n < line)
<1>1. WindowInv => Right
  <2> SUFFICES ASSUME WindowInv, NextMatch \/ PreviousMatch \/ Enter, line' # line
               PROVE  /\ Contains(lines[line' + 1], pattern)
                      /\ \A n \in 0 .. Len(lines) - 1 :
                           n # line' /\ Contains(lines[n + 1], pattern) =>
                              ~(line < n /\ n < line') /\ ~(line' < n /\ n < line)
    OBVIOUS
  <2>1. Window
    BY DEF WindowInv
  <2>2. SearchNext \/ SearchPrevious
    BY DEF NextMatch, PreviousMatch, Enter
  <2>3. /\ line' \in Matches
        /\ \/ line < line' /\ \A n \in Matches : line < n => line' <= n
           \/ line' < line /\ \A n \in Matches : n < line => n <= line'
    BY <2>1, <2>2, Nearest
  <2>4. /\ line' \in 0 .. Len(lines) - 1 /\ Contains(lines[line' + 1], pattern)
        /\ \A n \in 0 .. Len(lines) - 1 : Contains(lines[n + 1], pattern) => n \in Matches
    BY <2>3 DEF Matches
  <2> QED BY <2>1, <2>3, <2>4, WindowNumbers
<1>2. WindowInv => [Right]_vars
  BY <1>1
<1> HIDE DEF Right
<1>3. UefiSpec => [][Right]_vars
  BY <1>2, WindowAlways, PTL
<1> QED BY <1>3 DEF Right, SearchExact
---------------------------------------------------------------------------
(* The command line. After n tokens, all of them flags, the arguments are  *)
(* what those n say; the first token that is no flag ends the parsing.     *)

Letters(t, n) ==
    {l \in (1 .. n) \X (1 .. MaxVerbosity) :
        t[l[1]] \in DOMAIN Count /\ l[2] <= Count[t[l[1]]]}

Given(t, n, words) == \E i \in 1 .. n : t[i] \in words

Parsed(t, n) ==
    [help |-> Given(t, n, Helps), wait |-> Given(t, n, Waits),
     verbosity |-> Cardinality(Letters(t, n)), command |-> "none", paths |-> << >>]

Midway(t) ==
    \E n \in 0 .. Len(t) :
        /\ Len(tokens) = Len(t) - n
        /\ \A i \in 1 .. Len(tokens) : tokens[i] = t[n + i]
        /\ \A i \in 1 .. n : t[i] \in Flags
        /\ args = Parsed(t, n)

Prefix(t) == {i \in DOMAIN t : \A j \in 1 .. i : t[j] \in Flags}

Sound(rest) ==
    \/ rest = << >>
    \/ rest[1] \in {"info", "triage"}
    \/ rest[1] = "extract" /\ Len(rest) <= 2
    \/ rest[1] = "decode" /\ Len(rest) = 2

Rest(t) == SubSeq(t, Cardinality(Prefix(t)) + 1, Len(t))

Meant(t) ==
    [help |-> \E i \in Prefix(t) : t[i] \in Helps,
     wait |-> \E i \in Prefix(t) : t[i] \in Waits,
     verbosity |-> Cardinality({l \in Prefix(t) \X (1 .. MaxVerbosity) :
                      t[l[1]] \in DOMAIN Count /\ l[2] <= Count[t[l[1]]]}),
     command |-> IF Rest(t) = << >> THEN "none" ELSE Rest(t)[1],
     paths |-> SubSeq(Rest(t), 2, Len(Rest(t)))]

TakenAsMeant ==
    step # "parse" /\ setup.shell =>
      IF ~Sound(Rest(setup.tokens))
      THEN step = "exit" /\ status = "INVALID_PARAMETER" /\ volume = setup.volume
      ELSE args = Meant(setup.tokens)

ParseInv ==
    /\ setup \in Setups
    /\ tokens \in Seq(Words)
    /\ step = "parse" /\ setup.shell => Midway(setup.tokens)
    /\ step = "parse" => volume = setup.volume
    /\ TakenAsMeant

LEMMA SameThing == TakenAsMeant => ParsesRight
BY Zenon DEF TakenAsMeant, ParsesRight, Sound, Rest, Meant, Prefix

LEMMA NoLetters ==
    ASSUME NEW t
    PROVE  Letters(t, 0) = {} /\ Cardinality(Letters(t, 0)) = 0
<1>1. Letters(t, 0) = {}
  BY DEF Letters
<1> QED BY <1>1, FS_EmptySet

LEMMA LettersFinite ==
    ASSUME NEW t, NEW n \in Nat
    PROVE  IsFiniteSet(Letters(t, n)) /\ Cardinality(Letters(t, n)) \in Nat
<1>1. IsFiniteSet(1 .. n) /\ IsFiniteSet(1 .. MaxVerbosity)
  <2>1. 1 \in Int /\ n \in Int /\ MaxVerbosity \in Int
    BY DEF MaxVerbosity
  <2> QED BY <2>1, FS_Interval
<1>2. IsFiniteSet((1 .. n) \X (1 .. MaxVerbosity))
  BY <1>1, FS_Product
<1>3. Letters(t, n) \subseteq (1 .. n) \X (1 .. MaxVerbosity)
  BY DEF Letters
<1> QED BY <1>2, <1>3, FS_Subset, FS_CardinalityType

(* A token that is no -v adds no letter; one that is, what it has, up to    *)
(* the limit.                                                              *)
LEMMA MoreLetters ==
    ASSUME NEW t, NEW n \in Nat
    PROVE  Cardinality(Letters(t, n + 1)) =
             IF t[n + 1] \in DOMAIN Count
             THEN Cardinality(Letters(t, n)) + Least(Count[t[n + 1]], MaxVerbosity)
             ELSE Cardinality(Letters(t, n))
<1> DEFINE k == Least(Count[t[n + 1]], MaxVerbosity)
           Last == {n + 1} \X (1 .. k)
<1>1. CASE t[n + 1] \notin DOMAIN Count
  <2>1. Letters(t, n + 1) = Letters(t, n)
    <3>1. \A l : l \in Letters(t, n + 1) => l \in Letters(t, n)
      BY <1>1 DEF Letters
    <3>2. \A l : l \in Letters(t, n) => l \in Letters(t, n + 1)
      BY DEF Letters
    <3> QED BY <3>1, <3>2
  <2> QED BY <1>1, <2>1
<1>2. CASE t[n + 1] \in DOMAIN Count
  <2>1. k \in Nat /\ \A j \in 1 .. MaxVerbosity : j <= k <=> j <= Count[t[n + 1]]
    <3>1. Count[t[n + 1]] \in Nat
      BY <1>2, UefiAssumption
    <3> QED BY <3>1 DEF Least, MaxVerbosity
  <2>2. k <= MaxVerbosity
    BY <1>2, UefiAssumption DEF Least, MaxVerbosity
  <2>3. Letters(t, n + 1) = Letters(t, n) \cup Last
    <3> HIDE DEF k
    <3>1. \A l : l \in Letters(t, n + 1) => l \in Letters(t, n) \cup Last
      <4> TAKE l
      <4> SUFFICES ASSUME l \in Letters(t, n + 1), l[1] = n + 1 PROVE l \in Last
        BY DEF Letters
      <4>1. PICK j \in 1 .. MaxVerbosity : l = <<n + 1, j>>
        BY DEF Letters
      <4>2. j <= Count[t[n + 1]]
        BY <4>1 DEF Letters
      <4>3. j \in 1 .. k
        BY <2>1, <4>2 DEF MaxVerbosity
      <4> QED BY <4>1, <4>3
    <3>2. \A l : l \in Letters(t, n) => l \in Letters(t, n + 1)
      BY DEF Letters
    <3>3. \A l : l \in Last => l \in Letters(t, n + 1)
      <4> TAKE l
      <4> HAVE l \in Last
      <4>1. PICK j \in 1 .. k : l = <<n + 1, j>>
        OBVIOUS
      <4>2. j \in 1 .. MaxVerbosity /\ j <= Count[t[n + 1]]
        BY <2>1, <2>2 DEF MaxVerbosity
      <4> QED BY <1>2, <4>1, <4>2 DEF Letters
    <3> HIDE DEF Last
    <3> QED BY <3>1, <3>2, <3>3
  <2>4. Letters(t, n) \cap Last = {}
    BY DEF Letters
  <2> HIDE DEF k
  <2>5. IsFiniteSet(Last) /\ Cardinality(Last) = k
    <3>1. IsFiniteSet({n + 1}) /\ Cardinality({n + 1}) = 1
      BY FS_Singleton
    <3>2. IsFiniteSet(1 .. k) /\ Cardinality(1 .. k) = k
      BY <2>1, FS_Interval
    <3>3. IsFiniteSet(Last) /\ Cardinality(Last) = Cardinality({n + 1}) * Cardinality(1 .. k)
      BY <3>1, <3>2, FS_Product
    <3> QED BY <2>1, <3>1, <3>2, <3>3
  <2> HIDE DEF Last
  <2>6. Cardinality(Letters(t, n) \cup Last) =
          Cardinality(Letters(t, n)) + Cardinality(Last) - Cardinality({})
    BY <2>4, <2>5, LettersFinite, FS_Union
  <2>7. Cardinality(Letters(t, n + 1)) = Cardinality(Letters(t, n)) + k
    BY <2>1, <2>3, <2>5, <2>6, LettersFinite, FS_EmptySet
  <2> QED BY <1>2, <2>7 DEF k
<1> QED BY <1>1, <1>2

LEMMA GivenMore ==
    ASSUME NEW t, NEW n \in Nat, NEW words
    PROVE  Given(t, n + 1, words) <=> Given(t, n, words) \/ t[n + 1] \in words
<1>1. \A i \in 1 .. n + 1 : i \in 1 .. n \/ i = n + 1
  OBVIOUS
<1>2. \A i \in 1 .. n : i \in 1 .. n + 1
  OBVIOUS
<1>3. n + 1 \in 1 .. n + 1
  OBVIOUS
<1> QED BY <1>1, <1>2, <1>3, Zenon DEF Given
LEMMA PrefixIs ==
    ASSUME NEW t \in Seq(Words), NEW n \in 0 .. Len(t),
           \A i \in 1 .. n : t[i] \in Flags,
           n = Len(t) \/ t[n + 1] \notin Flags
    PROVE  Prefix(t) = 1 .. n /\ Cardinality(Prefix(t)) = n
<1>1. ASSUME NEW i \in Prefix(t) PROVE i \in 1 .. n
  <2>1. i \in 1 .. Len(t) /\ \A j \in 1 .. i : t[j] \in Flags
    BY DEF Prefix
  <2>2. i <= n
    <3> SUFFICES ASSUME n < i PROVE FALSE
      BY <2>1
    <3>1. n + 1 \in 1 .. i /\ n # Len(t)
      BY <2>1
    <3> QED BY <2>1, <3>1
  <2> QED BY <2>1, <2>2
<1>2. ASSUME NEW i \in 1 .. n PROVE i \in Prefix(t)
  <2>1. i \in DOMAIN t /\ \A j \in 1 .. i : j \in 1 .. n
    OBVIOUS
  <2> QED BY <2>1 DEF Prefix
<1>3. Prefix(t) = 1 .. n
  BY <1>1, <1>2
<1>4. Cardinality(1 .. n) = n
  <2>1. 1 \in Int /\ n \in Int
    OBVIOUS
  <2>2. Cardinality(1 .. n) = IF 1 > n THEN 0 ELSE n - 1 + 1
    BY <2>1, FS_Interval
  <2> QED BY <2>2
<1> QED BY <1>3, <1>4

LEMMA RestIs ==
    ASSUME NEW t \in Seq(Words), NEW n \in 0 .. Len(t),
           \A i \in 1 .. n : t[i] \in Flags,
           n = Len(t) \/ t[n + 1] \notin Flags,
           NEW r \in Seq(Words), Len(r) = Len(t) - n, \A i \in 1 .. Len(r) : r[i] = t[n + i]
    PROVE  /\ Rest(t) = r
           /\ Meant(t) = [help |-> Given(t, n, Helps), wait |-> Given(t, n, Waits),
                          verbosity |-> Cardinality(Letters(t, n)),
                          command |-> IF r = << >> THEN "none" ELSE r[1],
                          paths |-> SubSeq(r, 2, Len(r))]
<1>1. Prefix(t) = 1 .. n /\ Cardinality(Prefix(t)) = n
  BY PrefixIs
<1>2. Rest(t) = r
  <2>1. Rest(t) = SubSeq(t, n + 1, Len(t))
    BY <1>1 DEF Rest
  <2> DEFINE s == SubSeq(t, n + 1, Len(t))
  <2>2. s \in Seq(Words) /\ Len(s) = Len(t) - n /\ \A i \in 1 .. Len(t) - n : s[i] = t[n + i]
    OBVIOUS
  <2> HIDE DEF s
  <2>3. s = r
    BY <2>2
  <2> QED BY <2>1, <2>3 DEF s
<1>3. {l \in Prefix(t) \X (1 .. MaxVerbosity) :
         t[l[1]] \in DOMAIN Count /\ l[2] <= Count[t[l[1]]]} = Letters(t, n)
  BY <1>1 DEF Letters
<1>4. /\ (\E i \in Prefix(t) : t[i] \in Helps) = Given(t, n, Helps)
      /\ (\E i \in Prefix(t) : t[i] \in Waits) = Given(t, n, Waits)
  BY <1>1 DEF Given
<1> QED BY <1>2, <1>3, <1>4, Zenon DEF Meant

(* The n-th state of the parser, when it looks at a token and takes it for  *)
(* a flag.                                                                 *)
LEMMA TokenRead ==
    ASSUME NEW t \in Seq(Words), tokens \in Seq(Words), tokens # << >>,
           NEW n \in 0 .. Len(t), Len(tokens) = Len(t) - n,
           \A i \in 1 .. Len(tokens) : tokens[i] = t[n + i],
           \A i \in 1 .. n : t[i] \in Flags
    PROVE  /\ n + 1 \in 0 .. Len(t) /\ Token = t[n + 1]
           /\ Tail(tokens) \in Seq(Words)
           /\ Len(Tail(tokens)) = Len(t) - (n + 1)
           /\ \A i \in 1 .. Len(Tail(tokens)) : Tail(tokens)[i] = t[n + 1 + i]
           /\ Token \in Flags => \A i \in 1 .. n + 1 : t[i] \in Flags
<1>1. Len(tokens) \in Nat /\ Len(tokens) >= 1 /\ Len(t) \in Nat
  OBVIOUS
<1>2. /\ Tail(tokens) \in Seq(Words) /\ Len(Tail(tokens)) = Len(tokens) - 1
      /\ \A i \in 1 .. Len(tokens) - 1 : Tail(tokens)[i] = tokens[i + 1]
  BY <1>1
<1>3. Token = t[n + 1]
  BY <1>1 DEF Token
<1>4. \A i \in 1 .. n + 1 : i \in 1 .. n \/ i = n + 1
  OBVIOUS
<1>5. ASSUME NEW i \in 1 .. Len(tokens) - 1 PROVE Tail(tokens)[i] = t[n + 1 + i]
  <2>1. i + 1 \in 1 .. Len(tokens) /\ n + (i + 1) = n + 1 + i
    BY <1>1
  <2> QED BY <1>2, <2>1
<1>6. Token \in Flags => \A i \in 1 .. n + 1 : t[i] \in Flags
  BY <1>3, <1>4
<1>7. n + 1 \in 0 .. Len(t) /\ Len(Tail(tokens)) = Len(t) - (n + 1)
  BY <1>1, <1>2
<1>8. \A i \in 1 .. Len(Tail(tokens)) : Tail(tokens)[i] = t[n + 1 + i]
  BY <1>2, <1>5
<1> QED BY <1>2, <1>3, <1>6, <1>7, <1>8

LEMMA FlagParsed ==
    ASSUME ParseInv, Verbose \/ Flag
    PROVE  ParseInv'
<1> USE DEF ParseInv
<1> DEFINE t == setup.tokens
<1>1. /\ step = "parse" /\ setup.shell /\ tokens # << >> /\ tokens' = Tail(tokens)
      /\ setup' = setup /\ volume' = volume /\ step' = step
  BY DEF Verbose, Flag, Parsing
<1>2. t \in Seq(Words) /\ t' = t
  BY <1>1, UefiAssumption
<1>3. PICK n \in 0 .. Len(t) :
        /\ Len(tokens) = Len(t) - n
        /\ \A i \in 1 .. Len(tokens) : tokens[i] = t[n + i]
        /\ \A i \in 1 .. n : t[i] \in Flags
        /\ args = Parsed(t, n)
  BY <1>1 DEF Midway
<1> HIDE DEF t
<1>4. /\ n + 1 \in 0 .. Len(t) /\ Token = t[n + 1]
      /\ tokens' \in Seq(Words) /\ Len(tokens') = Len(t) - (n + 1)
      /\ \A i \in 1 .. Len(tokens') : tokens'[i] = t[n + 1 + i]
      /\ Token \in Flags => \A i \in 1 .. n + 1 : t[i] \in Flags
  BY <1>1, <1>2, <1>3, TokenRead
<1>5. Token \in Flags /\ args' = Parsed(t, n + 1)
  <2> DEFINE h == Given(t, n, Helps)
             w == Given(t, n, Waits)
             v == Cardinality(Letters(t, n))
  <2>1. n \in Nat
    BY <1>2
  <2>2. /\ Given(t, n + 1, Helps) <=> h \/ Token \in Helps
        /\ Given(t, n + 1, Waits) <=> w \/ Token \in Waits
    BY <1>4, <2>1, GivenMore
  <2>3. Cardinality(Letters(t, n + 1)) =
          IF Token \in DOMAIN Count THEN v + Least(Count[Token], MaxVerbosity) ELSE v
    BY <1>4, <2>1, MoreLetters
  <2>4. args = [help |-> h, wait |-> w, verbosity |-> v, command |-> "none", paths |-> << >>]
    BY <1>3 DEF Parsed
  <2>5. h \in BOOLEAN /\ w \in BOOLEAN
    BY DEF Given
  <2>6. Given(t, n + 1, Helps) \in BOOLEAN /\ Given(t, n + 1, Waits) \in BOOLEAN
    BY DEF Given
  <2> HIDE DEF h, w, v
  <2>7. CASE Verbose
    <3>1. Token \in DOMAIN Count /\ Token \notin Helps /\ Token \notin Waits
      BY <2>7, UefiAssumption DEF Verbose
    <3>2. args' = [args EXCEPT !.verbosity = @ + Least(Count[Token], MaxVerbosity)]
      BY <2>7 DEF Verbose
    <3>3. args' = [help |-> h, wait |-> w, verbosity |-> v + Least(Count[Token], MaxVerbosity),
                   command |-> "none", paths |-> << >>]
      BY <3>2, <2>4
    <3>4. Given(t, n + 1, Helps) = h /\ Given(t, n + 1, Waits) = w
      BY <3>1, <2>2, <2>5, <2>6
    <3> QED BY <3>1, <3>3, <3>4, <2>3 DEF Parsed, Flags
  <2>8. CASE Flag /\ Token \in Helps
    <3>1. Token \notin DOMAIN Count /\ Token \notin Waits
      BY <2>8, UefiAssumption DEF Helps, Waits
    <3>2. args' = [args EXCEPT !.help = TRUE]
      BY <2>8, <3>1 DEF Flag
    <3>3. args' = [help |-> TRUE, wait |-> w, verbosity |-> v, command |-> "none", paths |-> << >>]
      BY <3>2, <2>4
    <3>4. Given(t, n + 1, Helps) = TRUE /\ Given(t, n + 1, Waits) = w
      BY <3>1, <2>8, <2>2, <2>5, <2>6
    <3> QED BY <2>8, <3>1, <3>3, <3>4, <2>3 DEF Parsed, Flags
  <2>9. CASE Flag /\ Token \in Waits
    <3>1. Token \notin DOMAIN Count /\ Token \notin Helps
      BY <2>9, UefiAssumption DEF Helps, Waits
    <3>2. args' = [args EXCEPT !.wait = TRUE]
      BY <2>9, <3>1 DEF Flag
    <3>3. args' = [help |-> h, wait |-> TRUE, verbosity |-> v, command |-> "none", paths |-> << >>]
      BY <3>2, <2>4
    <3>4. Given(t, n + 1, Helps) = h /\ Given(t, n + 1, Waits) = TRUE
      BY <3>1, <2>9, <2>2, <2>5, <2>6
    <3> QED BY <2>9, <3>1, <3>3, <3>4, <2>3 DEF Parsed, Flags
  <2> QED BY <2>7, <2>8, <2>9 DEF Flag
<1>6. Midway(t)'
  BY <1>2, <1>4, <1>5 DEF Midway
<1>7. TakenAsMeant'
  BY <1>1 DEF TakenAsMeant
<1> QED BY <1>1, <1>2, <1>4, <1>6, <1>7 DEF t

LEMMA CommandAdded ==
    ASSUME NEW h, NEW w, NEW v, NEW c, NEW p, NEW a, NEW e,
           a = [help |-> h, wait |-> w, verbosity |-> v, command |-> "none", paths |-> << >>],
           e = [a EXCEPT !.command = c, !.paths = p]
    PROVE  e = [help |-> h, wait |-> w, verbosity |-> v, command |-> c, paths |-> p]
<1> DEFINE d == [help |-> h, wait |-> w, verbosity |-> v, command |-> c, paths |-> p]
<1>1. DOMAIN a = {"help", "wait", "verbosity", "command", "paths"} /\ DOMAIN d = DOMAIN a
  OBVIOUS
<1>2. e = [x \in DOMAIN a |-> IF x = "paths" THEN p ELSE IF x = "command" THEN c ELSE a[x]]
  OBVIOUS
<1>3. \A x \in DOMAIN a :
        d[x] = IF x = "paths" THEN p ELSE IF x = "command" THEN c ELSE a[x]
  BY <1>1
<1>4. d = [x \in DOMAIN d |-> d[x]]
  OBVIOUS
<1> HIDE DEF d
<1> QED BY <1>1, <1>2, <1>3, <1>4 DEF d

(* The first token that is no flag, or the end of the line, settles what    *)
(* the command line is taken for.                                          *)
LEMMA LineParsed ==
    ASSUME ParseInv, ParseCommand \/ NoMoreTokens \/ Reject
    PROVE  ParseInv'
<1> USE DEF ParseInv
<1> DEFINE t == setup.tokens
<1>1. /\ step = "parse" /\ setup.shell /\ setup' = setup /\ volume' = volume
      /\ step' # "parse" /\ tokens' \in Seq(Words)
  <2>1. tokens' = << >> \/ tokens' = tokens
    BY DEF ParseCommand, NoMoreTokens, Reject
  <2>2. << >> \in Seq(Words)
    OBVIOUS
  <2>3. /\ step = "parse" /\ setup.shell /\ setup' = setup /\ volume' = volume
        /\ step' # "parse"
    BY DEF ParseCommand, NoMoreTokens, Reject, Parsing, Run
  <2> QED BY <2>1, <2>2, <2>3
<1>2. t \in Seq(Words) /\ t' = t
  BY <1>1, UefiAssumption
<1>3. PICK n \in 0 .. Len(t) :
        /\ Len(tokens) = Len(t) - n
        /\ \A i \in 1 .. Len(tokens) : tokens[i] = t[n + i]
        /\ \A i \in 1 .. n : t[i] \in Flags
        /\ args = Parsed(t, n)
  BY <1>1 DEF Midway
<1>4. ParseCommand => Token \in Commands
  BY DEF ParseCommand, TakesRest, Commands
<1>5. tokens = << >> \/ Token \notin Flags
  <2>1. CASE ParseCommand
    BY <2>1, <1>4, UefiAssumption DEF ParseCommand, Flags, Helps, Waits, Commands
  <2>2. CASE NoMoreTokens
    BY <2>2 DEF NoMoreTokens
  <2>3. CASE Reject
    BY <2>3 DEF Reject, Flags
  <2> QED BY <2>1, <2>2, <2>3
<1> HIDE DEF t
<1>6. n = Len(t) \/ t[n + 1] \notin Flags
  <2>1. CASE tokens = << >>
    BY <2>1, <1>2, <1>3
  <2>2. CASE tokens # << >>
    <3>1. tokens[1] = t[n + 1]
      <4>1. 1 \in 1 .. Len(tokens)
        BY <2>2
      <4> QED BY <4>1, <1>3
    <3> QED BY <2>2, <3>1, <1>5 DEF Token
  <2> QED BY <2>1, <2>2
<1>7. /\ Rest(t) = tokens
      /\ Meant(t) = [help |-> Given(t, n, Helps), wait |-> Given(t, n, Waits),
                     verbosity |-> Cardinality(Letters(t, n)),
                     command |-> IF tokens = << >> THEN "none" ELSE tokens[1],
                     paths |-> SubSeq(tokens, 2, Len(tokens))]
  BY <1>2, <1>3, <1>6, RestIs
<1>8. TakenAsMeant'
  <2>1. CASE ParseCommand
    <3>1. TakesRest(Token, Len(tokens) - 1) /\ tokens # << >> /\ Len(tokens) \in Nat
      BY <2>1 DEF ParseCommand
    <3>2. Sound(tokens)
      BY <3>1 DEF TakesRest, Sound, Token
    <3>3. args' = [args EXCEPT !.command = Token, !.paths = Tail(tokens)]
      BY <2>1 DEF ParseCommand, Run
    <3>4. Tail(tokens) = SubSeq(tokens, 2, Len(tokens))
      BY <3>1
    <3> DEFINE h == Given(t, n, Helps)
               w == Given(t, n, Waits)
               v == Cardinality(Letters(t, n))
    <3>5. args = [help |-> h, wait |-> w, verbosity |-> v, command |-> "none", paths |-> << >>]
      BY <1>3 DEF Parsed
    <3>6. Meant(t) = [help |-> h, wait |-> w, verbosity |-> v,
                      command |-> Token, paths |-> Tail(tokens)]
      BY <3>1, <3>4, <1>7 DEF Token
    <3>7. args' = Meant(t)
      <4> HIDE DEF h, w, v
      <4>1. args' = [help |-> h, wait |-> w, verbosity |-> v,
                     command |-> Token, paths |-> Tail(tokens)]
        BY <3>3, <3>5, CommandAdded
      <4> QED BY <3>6, <4>1, Zenon
    <3> QED BY <3>2, <3>7, <1>1, <1>2, <1>7 DEF TakenAsMeant, t
  <2>2. CASE NoMoreTokens
    <3>1. tokens = << >> /\ args' = args
      BY <2>2 DEF NoMoreTokens, Run
    <3>2. SubSeq(tokens, 2, Len(tokens)) = << >>
      BY <3>1
    <3>3. args' = Meant(t) /\ Sound(tokens)
      BY <3>1, <3>2, <1>3, <1>7 DEF Parsed, Sound
    <3> QED BY <3>3, <1>1, <1>2, <1>7 DEF TakenAsMeant, t
  <2>3. CASE Reject
    <3>1. ~TakesRest(Token, Len(tokens) - 1) /\ tokens # << >> /\ Len(tokens) \in Nat
      BY <2>3 DEF Reject
    <3>2. ~Sound(tokens)
      BY <3>1 DEF TakesRest, Sound, Token
    <3>3. step' = "exit" /\ status' = "INVALID_PARAMETER" /\ volume' = setup.volume
      BY <2>3, <1>1 DEF Reject
    <3> QED BY <3>2, <3>3, <1>1, <1>2, <1>7 DEF TakenAsMeant, t
  <2> QED BY <2>1, <2>2, <2>3
<1> QED BY <1>1, <1>8

Carried == \/ ShowHelp \/ NothingFound \/ Extract \/ WriteFails \/ ReadFails \/ Decode
           \/ DisplayFails \/ DisplayReturns \/ ListPath \/ PathFails \/ AllListed
           \/ Wait \/ Page

(* Once parsed, the command line is not looked at again.                   *)
LEMMA CarriedOut ==
    ASSUME Carried
    PROVE  /\ step # "parse" /\ step # "exit" /\ step' # "parse"
           /\ setup' = setup /\ tokens' = tokens /\ args' = args
<1> USE DEF Running, Return
<1>1. CASE ShowHelp
  BY <1>1 DEF ShowHelp
<1>2. CASE NothingFound \/ Extract \/ WriteFails
  BY <1>2 DEF NothingFound, Extract, WriteFails
<1>3. CASE ReadFails \/ Decode
  BY <1>3 DEF ReadFails, Decode
<1>4. CASE DisplayFails \/ DisplayReturns
  BY <1>4 DEF DisplayFails, DisplayReturns
<1>5. CASE ListPath \/ PathFails \/ AllListed
  BY <1>5 DEF ListPath, PathFails, AllListed, Lists, Triages
<1>6. CASE Wait
  BY <1>6 DEF Wait
<1>7. CASE Page
  BY <1>7 DEF Page, app
<1> QED BY <1>1, <1>2, <1>3, <1>4, <1>5, <1>6, <1>7 DEF Carried

LEMMA InitParse == UefiInit => ParseInv
<1> SUFFICES ASSUME UefiInit PROVE ParseInv
  OBVIOUS
<1> DEFINE t == setup.tokens
<1>1. /\ setup \in Setups /\ tokens = t /\ args = DefaultArgs
      /\ volume = setup.volume /\ step = "parse"
  BY DEF UefiInit
<1>2. t \in Seq(Words)
  BY <1>1, UefiAssumption
<1>3. Midway(t)
  <2>1. args = Parsed(t, 0)
    <3>1. Given(t, 0, Helps) = FALSE /\ Given(t, 0, Waits) = FALSE
      BY DEF Given
    <3> QED BY <1>1, <3>1, NoLetters DEF Parsed, DefaultArgs
  <2>2. 0 \in 0 .. Len(t) /\ Len(tokens) = Len(t) - 0
    BY <1>1, <1>2
  <2>3. \A i \in 1 .. Len(tokens) : tokens[i] = t[0 + i]
    BY <1>1, <1>2
  <2> HIDE DEF t
  <2> QED BY <2>1, <2>2, <2>3 DEF Midway
<1> QED BY <1>1, <1>2, <1>3 DEF ParseInv, TakenAsMeant

LEMMA NextParse == ParseInv /\ [UefiNext]_<<vars, app>> => ParseInv'
<1> SUFFICES ASSUME ParseInv, [UefiNext]_<<vars, app>> PROVE ParseInv'
  OBVIOUS
<1>1. CASE UNCHANGED app
  BY <1>1 DEF app, ParseInv, Midway, TakenAsMeant
<1>2. CASE NoCommandLine
  <2>1. ~setup.shell /\ setup' = setup /\ tokens' = tokens /\ step' # "parse"
    BY <1>2 DEF NoCommandLine, Run
  <2> QED BY <2>1 DEF ParseInv, TakenAsMeant
<1>3. CASE Verbose \/ Flag
  BY <1>3, FlagParsed
<1>4. CASE ParseCommand \/ NoMoreTokens \/ Reject
  BY <1>4, LineParsed
<1>5. CASE Carried
  <2>1. /\ step # "parse" /\ step # "exit" /\ step' # "parse"
        /\ setup' = setup /\ tokens' = tokens /\ args' = args
    BY <1>5, CarriedOut
  <2>2. TakenAsMeant'
    <3>1. setup.shell => args = Meant(setup.tokens) /\ Sound(Rest(setup.tokens))
      BY <2>1 DEF ParseInv, TakenAsMeant
    <3> QED BY <2>1, <3>1 DEF TakenAsMeant
  <2> QED BY <2>1, <2>2 DEF ParseInv
<1> QED BY <1>1, <1>2, <1>3, <1>4, <1>5 DEF UefiNext, Parse, RunCommand, Carried

LEMMA ParseAlways == UefiSpec => []ParseInv
BY InitParse, NextParse, PTL DEF UefiSpec

(* Args::parse takes every command line for what it says, and rejects it   *)
(* exactly if it says nothing; of the flag that only the help knows        *)
(* nothing is said.                                                        *)
THEOREM LinesAreParsedRight == UefiSpec => []ParsesRight
<1>1. ParseInv => ParsesRight
  BY SameThing DEF ParseInv
<1> QED BY <1>1, ParseAlways, PTL
---------------------------------------------------------------------------
(* The exit status. The invariant says of every stage of the application   *)
(* what the console, the files and the pager have come to so far: before   *)
(* the command is run nothing is written; info and triage have spoken of   *)
(* the paths no longer on their list; at the end one of the outcomes of    *)
(* run_command is there, and after it at most the wait.                    *)

Entry == [of : Words \cup {"app", "args"},
          says : {"rejected", "help", "prompt", "error", "info", "triage", "path"}]

ExitTypes ==
    /\ setup \in Setups
    /\ tokens \in Seq(Words)
    /\ args \in [help : BOOLEAN, wait : BOOLEAN, verbosity : Nat,
                 command : {"none"} \cup Commands, paths : Seq(Words)]
    /\ todo \in Seq(Words)
    /\ console \in Seq(Entry)

Untouched == volume = setup.volume

Told(k) ==
    \A i \in 1 .. k :
        /\ console[i].of = args.paths[i]
        /\ console[i].says \in {"error", "path", args.command}
        /\ console[i].says # "error" => IsCrashLog(console[i].of)

(* A single crash log that has no tags. *)
Hushed ==
    /\ args.command = "triage" /\ Len(args.paths) = 1
    /\ IsCrashLog(args.paths[1])

Speaks == ~args.help /\ args.command \in {"info", "triage"}

AtParse == Untouched /\ pc # "quit" /\ console = << >> /\ args.command = "none"

Midlist ==
    /\ Len(console) + Len(todo) = Len(args.paths)
    /\ \A i \in 1 .. Len(todo) : todo[i] = args.paths[Len(console) + i]
    /\ Told(Len(console))

AtRun ==
    /\ Untouched /\ pc # "quit"
    /\ \/ Midlist
       \/ Hushed /\ todo = << >> /\ console = << >>
    /\ ~Speaks => console = << >>

AtPager == Untouched /\ ~args.help /\ args.command = "decode" /\ console = << >>

Written(p, what) ==
    [q \in DOMAIN setup.volume \cup {p} |-> IF q = p THEN what ELSE setup.volume[q]]

Extracted ==
    \/ /\ status = "SUCCESS" /\ FromSystemTable
       /\ \E p \in Targets : volume = Written(p, "extracted")
    \/ status = "NOT_FOUND" /\ ~FromSystemTable /\ Untouched
    \/ /\ status \in FirmwareErrors /\ FromSystemTable
       /\ \E p \in Targets :
            volume \in {setup.volume,
                        [q \in DOMAIN setup.volume \ {p} |-> setup.volume[q]],
                        Written(p, "partial"), Written(p, "extracted")}

(* What run_command leaves, with the first k words on the console.         *)
Outcome(k) ==
    \/ /\ args.help \/ args.command = "none"
       /\ status = (IF args.help THEN "SUCCESS" ELSE "INVALID_PARAMETER")
       /\ Untouched
       /\ k = 1 /\ console[1] = [of |-> "app", says |-> "help"]
    \/ /\ ~args.help /\ args.command = "extract" /\ k = 0
       /\ Extracted
    \/ /\ ~args.help /\ args.command = "decode" /\ k = 0
       /\ Untouched
       /\ \/ status = "SUCCESS" /\ pc = "quit"
          \/ status \in FirmwareErrors /\ pc # "quit"
    \/ /\ Speaks /\ status = "SUCCESS" /\ Untouched
       /\ \/ k = Len(args.paths) /\ Told(k)
          \/ k = 0 /\ Hushed

Refused ==
    /\ Untouched /\ args.command = "none" /\ pc # "quit"
    /\ status = "INVALID_PARAMETER"
    /\ console = <<[of |-> "args", says |-> "rejected"]>>

AtEnd ==
    \/ Refused
    \/ ~args.wait /\ Outcome(Len(console))
    \/ /\ args.wait /\ Len(console) > 0
       /\ console[Len(console)].says = "prompt"
       /\ Outcome(Len(console) - 1)

Stage ==
    \/ step = "parse" /\ AtParse
    \/ step = "run" /\ AtRun
    \/ step = "pager" /\ AtPager
    \/ step = "wait" /\ args.wait /\ Outcome(Len(console))
    \/ step = "exit" /\ AtEnd

ExitInv == ExitTypes /\ Stage

Said(what) == \E i \in DOMAIN console : console[i].says = what

LEMMA WordAdded ==
    ASSUME console \in Seq(Entry), NEW e, e \in Entry, console' = Append(console, e)
    PROVE  /\ console' \in Seq(Entry) /\ Len(console') = Len(console) + 1
           /\ console'[Len(console) + 1] = e
           /\ \A i \in 1 .. Len(console) : console'[i] = console[i]
OBVIOUS

LEMMA SayAdds ==
    ASSUME console \in Seq(Entry), NEW of, NEW says, [of |-> of, says |-> says] \in Entry,
           Say(of, says)
    PROVE  /\ console' \in Seq(Entry) /\ Len(console') = Len(console) + 1
           /\ console'[Len(console) + 1] = [of |-> of, says |-> says]
           /\ \A i \in 1 .. Len(console) : console'[i] = console[i]
BY WordAdded DEF Say

LEMMA FirstTodo ==
    ASSUME NEW s \in Seq(Words), s # << >>
    PROVE  /\ s[1] \in Words /\ Tail(s) \in Seq(Words) /\ Len(Tail(s)) = Len(s) - 1
           /\ \A i \in 1 .. Len(s) - 1 : Tail(s)[i] = s[i + 1]
           /\ Len(s) \in Nat /\ Len(s) >= 1
OBVIOUS

LEMMA InitExit == UefiInit => ExitInv
<1> SUFFICES ASSUME UefiInit PROVE ExitInv
  OBVIOUS
<1>1. /\ setup \in Setups /\ tokens = setup.tokens /\ args = DefaultArgs
      /\ volume = setup.volume /\ step = "parse" /\ todo = << >> /\ console = << >>
      /\ pc = "render"
  BY DEF UefiInit, Init
<1>2. tokens \in Seq(Words)
  BY <1>1, UefiAssumption
<1>3. << >> \in Seq(Words) /\ << >> \in Seq(Entry)
  OBVIOUS
<1>4. ExitTypes
  BY <1>1, <1>2, <1>3 DEF ExitTypes, DefaultArgs
<1>5. Stage
  BY <1>1 DEF Stage, AtParse, Untouched, DefaultArgs
<1> QED BY <1>4, <1>5 DEF ExitInv

---------------------------------------------------------------------------
(* Parsing. *)

LEMMA ParseSteps ==
    ASSUME ExitInv, Parse, UNCHANGED vars
    PROVE  ExitInv'
<1> USE DEF ExitInv
<1>1. step = "parse" /\ setup' = setup /\ volume' = volume /\ pc' = pc
  BY DEF Parse, NoCommandLine, Verbose, Flag, ParseCommand, NoMoreTokens, Reject, Parsing, vars
<1>2. AtParse
  BY <1>1 DEF Stage
<1>3. ASSUME tokens # << >> PROVE Token \in Words /\ Tail(tokens) \in Seq(Words)
  BY <1>3, FirstTodo DEF Token, ExitTypes
(* What Run starts with. *)
<1>4. ASSUME NEW a, Run(a), a \in [help : BOOLEAN, wait : BOOLEAN, verbosity : Nat,
                                   command : {"none"} \cup Commands, paths : Seq(Words)],
             console' = console, tokens' \in Seq(Words)
      PROVE  ExitInv'
  <2>1. args' = a /\ step' = "run" /\ todo' = a.paths /\ a.paths \in Seq(Words)
    BY <1>4 DEF Run
  <2>2. ExitTypes'
    BY <1>1, <1>4, <2>1 DEF ExitTypes
  <2>3. AtRun'
    <3>1. console' = << >> /\ Len(console') = 0
      BY <1>2, <1>4 DEF AtParse
    <3>2. Len(todo') = Len(args'.paths) /\ Len(todo') \in Nat
      BY <2>1
    <3>3. \A i \in 1 .. Len(todo') : todo'[i] = args'.paths[0 + i]
      BY <2>1
    <3>4. Told(0)'
      BY DEF Told
    <3>5. Untouched' /\ pc' # "quit"
      BY <1>1, <1>2 DEF AtParse, Untouched
    <3> QED BY <3>1, <3>2, <3>3, <3>4, <3>5 DEF AtRun, Midlist
  <2> QED BY <2>1, <2>2, <2>3 DEF Stage
<1>5. CASE NoCommandLine
  <2> DEFINE a == [DefaultArgs EXCEPT !.command = "extract", !.wait = TRUE]
  <2>1. /\ a.paths = << >> /\ << >> \in Seq(Words)
        /\ a \in [help : BOOLEAN, wait : BOOLEAN, verbosity : Nat,
                  command : {"none"} \cup Commands, paths : Seq(Words)]
    <3>1. << >> \in Seq(Words)
      OBVIOUS
    <3> QED BY <3>1 DEF DefaultArgs, Commands
  <2>2. Run(a) /\ console' = console /\ tokens' = tokens
    BY <1>5 DEF NoCommandLine
  <2> HIDE DEF a
  <2> QED BY <1>4, <2>1, <2>2 DEF ExitTypes
<1>6. CASE Verbose \/ Flag
  <2>1. /\ tokens # << >> /\ tokens' = Tail(tokens) /\ step' = step
        /\ todo' = todo /\ console' = console
    BY <1>6 DEF Verbose, Flag
  <2>2. /\ args' \in [help : BOOLEAN, wait : BOOLEAN, verbosity : Nat,
                      command : {"none"} \cup Commands, paths : Seq(Words)]
        /\ args'.command = args.command
    <3>1. CASE Verbose
      <4>1. Token \in DOMAIN Count /\ Count[Token] \in Nat
        BY <3>1, UefiAssumption DEF Verbose
      <4>2. Least(Count[Token], MaxVerbosity) \in Nat
        BY <4>1 DEF Least, MaxVerbosity
      <4>3. args.verbosity + Least(Count[Token], MaxVerbosity) \in Nat
        BY <4>2 DEF ExitTypes
      <4>4. args' = [args EXCEPT !.verbosity =
                       args.verbosity + Least(Count[Token], MaxVerbosity)]
        BY <3>1 DEF Verbose
      <4> QED BY <4>3, <4>4 DEF ExitTypes
    <3>2. CASE Flag
      BY <3>2 DEF Flag, ExitTypes
    <3> QED BY <1>6, <3>1, <3>2
  <2>3. ExitTypes'
    BY <1>1, <1>3, <2>1, <2>2 DEF ExitTypes
  <2>4. AtParse' /\ step' = "parse"
    BY <1>1, <1>2, <2>1, <2>2 DEF AtParse, Untouched
  <2> QED BY <2>3, <2>4 DEF Stage
<1>7. CASE ParseCommand
  <2> DEFINE a == [args EXCEPT !.command = Token, !.paths = Tail(tokens)]
  <2>1. tokens # << >> /\ Token \in Commands /\ Run(a) /\ console' = console /\ tokens' = << >>
    BY <1>7 DEF ParseCommand, TakesRest, Commands
  <2>2. a \in [help : BOOLEAN, wait : BOOLEAN, verbosity : Nat,
               command : {"none"} \cup Commands, paths : Seq(Words)]
    BY <1>3, <2>1 DEF ExitTypes
  <2>3. << >> \in Seq(Words)
    OBVIOUS
  <2> HIDE DEF a
  <2> QED BY <1>4, <2>1, <2>2, <2>3
<1>8. CASE NoMoreTokens
  BY <1>4, <1>8 DEF NoMoreTokens, ExitTypes
<1>9. CASE Reject
  <2>1. /\ Say("args", "rejected") /\ status' = "INVALID_PARAMETER" /\ step' = "exit"
        /\ args' = args /\ todo' = todo /\ tokens' = tokens
    BY <1>9 DEF Reject
  <2>2. console' \in Seq(Entry)
    <3>1. [of |-> "args", says |-> "rejected"] \in Entry
      BY DEF Entry
    <3> QED BY <2>1, <3>1, SayAdds DEF ExitTypes
  <2>3. console' = <<[of |-> "args", says |-> "rejected"]>>
    BY <2>1, <1>2 DEF Say, AtParse
  <2>4. ExitTypes'
    BY <1>1, <2>1, <2>2 DEF ExitTypes
  <2>5. Refused'
    BY <1>1, <1>2, <2>1, <2>3 DEF AtParse, Refused, Untouched
  <2> QED BY <2>1, <2>4, <2>5 DEF Stage, AtEnd
<1> QED BY <1>5, <1>6, <1>7, <1>8, <1>9 DEF Parse
---------------------------------------------------------------------------
(* Running the command. *)

LEMMA Returned ==
    ASSUME ExitTypes', Outcome(Len(console))', args' = args,
           step' = IF args.wait THEN "wait" ELSE "exit"
    PROVE  ExitInv'
BY DEF ExitTypes, ExitInv, Stage, AtEnd

LEMMA Silent ==
    ASSUME AtRun, ~Speaks
    PROVE  console = << >> /\ Len(console) = 0
BY DEF AtRun

LEMMA QuietSteps ==
    ASSUME ExitInv, UNCHANGED vars,
           ShowHelp \/ NothingFound \/ Extract \/ WriteFails \/ ReadFails \/ Decode
    PROVE  ExitInv'
<1> USE DEF ExitInv
<1>1. /\ setup' = setup /\ tokens' = tokens /\ args' = args /\ todo' = todo /\ pc' = pc
      /\ step = "run"
  BY DEF ShowHelp, NothingFound, Extract, WriteFails, ReadFails, Decode, Running, vars
<1>2. AtRun
  BY <1>1 DEF Stage
<1>3. /\ args.help \in BOOLEAN /\ args.wait \in BOOLEAN
      /\ volume = setup.volume /\ pc # "quit"
  BY <1>2 DEF ExitTypes, AtRun, Untouched
<1>4. CASE ShowHelp
  <2>1. ~Speaks
    BY <1>4 DEF ShowHelp, Speaks
  <2>2. Say("app", "help") /\ volume' = volume /\ (args.help \/ args.command = "none")
    BY <1>4 DEF ShowHelp
  <2>3. console = << >> /\ Len(console) = 0
    BY <1>2, <2>1, Silent
  <2>4. [of |-> "app", says |-> "help"] \in Entry
    BY DEF Entry
  <2>5. /\ console' \in Seq(Entry) /\ Len(console') = 1
        /\ console'[1] = [of |-> "app", says |-> "help"]
    BY <2>2, <2>3, <2>4, SayAdds DEF ExitTypes
  <2>6. ExitTypes'
    BY <1>1, <2>5 DEF ExitTypes
  <2>7. /\ status' = (IF args.help THEN "SUCCESS" ELSE "INVALID_PARAMETER")
        /\ step' = IF args.wait THEN "wait" ELSE "exit"
    BY <1>4 DEF ShowHelp, Return
  <2>8. Outcome(Len(console))'
    BY <1>1, <1>3, <2>2, <2>5, <2>7 DEF Outcome, Untouched
  <2> QED BY <1>1, <2>6, <2>7, <2>8, Returned
<1>5. CASE NothingFound \/ Extract \/ WriteFails
  <2>1. /\ ~args.help /\ args.command = "extract" /\ console' = console
        /\ step' = IF args.wait THEN "wait" ELSE "exit"
    BY <1>5 DEF NothingFound, Extract, WriteFails, Running, Return
  <2>2. Len(console) = 0
    BY <1>2, <2>1, Silent DEF Speaks
  <2>3. ExitTypes'
    BY <1>1, <2>1 DEF ExitTypes
  <2>4. Targets' = Targets /\ (FromSystemTable' <=> FromSystemTable)
    BY <1>1 DEF Targets, FromSystemTable, AcpiTables
  <2>5. CASE NothingFound
    <3>1. status' = "NOT_FOUND" /\ ~FromSystemTable /\ volume' = volume
      BY <2>5 DEF NothingFound, Return
    <3>2. Extracted'
      BY <1>1, <1>3, <2>4, <3>1 DEF Extracted, Untouched
    <3>3. Outcome(Len(console))'
      BY <1>1, <2>1, <2>2, <3>2 DEF Outcome
    <3> QED BY <1>1, <2>1, <2>3, <3>3, Returned
  <2>6. CASE Extract
    <3>1. FromSystemTable /\ status' = "SUCCESS"
      BY <2>6 DEF Extract, Return
    <3>2. PICK p \in Targets :
            volume' = [q \in DOMAIN volume \cup {p} |-> IF q = p THEN "extracted" ELSE volume[q]]
      BY <2>6 DEF Extract
    <3>3. volume' = Written(p, "extracted")'
      BY <1>1, <1>3, <3>2 DEF Written
    <3>4. Extracted'
      <4>1. p \in Targets'
        BY <2>4
      <4> QED BY <3>1, <2>4, <3>3, <4>1 DEF Extracted
    <3>5. Outcome(Len(console))'
      BY <1>1, <2>1, <2>2, <3>4 DEF Outcome
    <3> QED BY <1>1, <2>1, <2>3, <3>5, Returned
  <2>7. CASE WriteFails
    <3>1. FromSystemTable /\ status' \in FirmwareErrors
      BY <2>7 DEF WriteFails, Return
    <3>2. PICK p \in Targets :
            \/ volume' \in {volume, [q \in DOMAIN volume \ {p} |-> volume[q]]}
            \/ \E w \in {"partial", "extracted"} :
                 volume' = [q \in DOMAIN volume \cup {p} |-> IF q = p THEN w ELSE volume[q]]
      BY <2>7 DEF WriteFails
    <3>3. volume' \in {setup'.volume,
                       [q \in DOMAIN setup'.volume \ {p} |-> setup'.volume[q]],
                       Written(p, "partial")', Written(p, "extracted")'}
      BY <1>1, <1>3, <3>2 DEF Written
    <3>4. Extracted'
      <4>1. p \in Targets'
        BY <2>4
      <4> QED BY <3>1, <2>4, <3>3, <4>1 DEF Extracted
    <3>5. Outcome(Len(console))'
      BY <1>1, <2>1, <2>2, <3>4 DEF Outcome
    <3> QED BY <1>1, <2>1, <2>3, <3>5, Returned
  <2> QED BY <1>5, <2>5, <2>6, <2>7
<1>6. CASE ReadFails \/ Decode
  <2>1. /\ ~args.help /\ args.command = "decode" /\ console' = console /\ volume' = volume
    BY <1>6 DEF ReadFails, Decode, Running
  <2>2. console = << >> /\ Len(console) = 0
    BY <1>2, <2>1, Silent DEF Speaks
  <2>3. ExitTypes'
    BY <1>1, <2>1 DEF ExitTypes
  <2>4. CASE ReadFails
    <3>1. /\ status' \in FirmwareErrors
          /\ step' = IF args.wait THEN "wait" ELSE "exit"
      BY <2>4 DEF ReadFails, Return
    <3>2. Outcome(Len(console))'
      BY <1>1, <1>3, <2>1, <2>2, <3>1 DEF Outcome, Untouched
    <3> QED BY <1>1, <2>3, <3>1, <3>2, Returned
  <2>5. CASE Decode
    <3>1. step' = "pager"
      BY <2>5 DEF Decode
    <3>2. AtPager'
      BY <1>1, <1>3, <2>1, <2>2 DEF AtPager, Untouched
    <3> QED BY <2>3, <3>1, <3>2 DEF Stage
  <2> QED BY <1>6, <2>4, <2>5
<1> QED BY <1>4, <1>5, <1>6

LEMMA PagerSteps ==
    ASSUME ExitInv, ((DisplayFails \/ DisplayReturns) /\ UNCHANGED vars) \/ Page
    PROVE  ExitInv'
<1> USE DEF ExitInv
<1>1. CASE (DisplayFails \/ DisplayReturns) /\ UNCHANGED vars
  <2>1. /\ setup' = setup /\ tokens' = tokens /\ args' = args /\ todo' = todo /\ pc' = pc
        /\ console' = console /\ volume' = volume /\ step = "pager"
        /\ step' = IF args.wait THEN "wait" ELSE "exit"
    BY <1>1 DEF DisplayFails, DisplayReturns, Return, vars
  <2>2. AtPager
    BY <2>1 DEF Stage
  <2>3. ExitTypes'
    BY <2>1 DEF ExitTypes
  <2>4. \/ status' = "SUCCESS" /\ pc' = "quit"
        \/ status' \in FirmwareErrors /\ pc' # "quit"
    BY <1>1, <2>1 DEF DisplayFails, DisplayReturns, Return
  <2>5. Len(console') = 0
    BY <2>1, <2>2 DEF AtPager
  <2>6. Outcome(Len(console))'
    BY <2>1, <2>2, <2>4, <2>5 DEF AtPager, Outcome, Untouched
  <2> QED BY <2>1, <2>3, <2>6, Returned
<1>2. CASE Page
  <2>1. step = "pager" /\ UNCHANGED app
    BY <1>2 DEF Page
  <2>2. AtPager
    BY <2>1 DEF Stage
  <2>3. ExitTypes'
    BY <2>1 DEF ExitTypes, app
  <2>4. AtPager' /\ step' = "pager"
    BY <2>1, <2>2 DEF AtPager, Untouched, app
  <2> QED BY <2>3, <2>4 DEF Stage
<1> QED BY <1>1, <1>2
(* info and triage: the word on the first path of the list.                *)
LEMMA ListSteps ==
    ASSUME ExitInv, UNCHANGED vars, ListPath \/ PathFails \/ AllListed
    PROVE  ExitInv'
<1> USE DEF ExitInv
<1>1. /\ setup' = setup /\ tokens' = tokens /\ args' = args /\ pc' = pc /\ volume' = volume
      /\ step = "run" /\ Speaks
  BY DEF ListPath, PathFails, AllListed, Lists, Triages, Running, Speaks, vars
<1>2. AtRun
  BY <1>1 DEF Stage
<1>3. /\ todo \in Seq(Words) /\ console \in Seq(Entry) /\ args.paths \in Seq(Words)
      /\ Len(console) \in Nat /\ Len(todo) \in Nat
  BY DEF ExitTypes
<1>4. Untouched' /\ pc' # "quit"
  BY <1>1, <1>2 DEF AtRun, Untouched
<1>5. CASE AllListed
  <2>1. /\ todo = << >> /\ console' = console /\ todo' = todo /\ status' = "SUCCESS"
        /\ step' = IF args.wait THEN "wait" ELSE "exit"
    BY <1>5 DEF AllListed, Return
  <2>2. \/ Len(console') = Len(args'.paths) /\ Told(Len(console))'
        \/ Len(console') = 0 /\ Hushed'
    <3>1. CASE Midlist
      <4>1. Len(console') = Len(args'.paths)
        BY <1>1, <1>3, <2>1, <3>1 DEF Midlist
      <4>2. Told(Len(console))'
        BY <1>1, <2>1, <3>1 DEF Midlist, Told, IsCrashLog
      <4> QED BY <4>1, <4>2
    <3>2. CASE Hushed /\ todo = << >> /\ console = << >>
      BY <1>1, <2>1, <3>2 DEF Hushed, IsCrashLog
    <3> QED BY <1>2, <3>1, <3>2 DEF AtRun
  <2>4. Outcome(Len(console))'
    BY <1>1, <1>4, <2>1, <2>2 DEF Outcome, Speaks
  <2>5. ExitTypes'
    BY <1>1, <2>1 DEF ExitTypes
  <2> QED BY <1>1, <2>1, <2>4, <2>5, Returned
<1>6. CASE ListPath /\ UNCHANGED console
  <2>1. /\ todo # << >> /\ todo' = Tail(todo) /\ step' = step /\ console' = console
        /\ Triages(todo[1]) /\ Len(args.paths) = 1
    <3>1. ~Say(todo[1], args.command) /\ ~Say(todo[1], "path")
      BY <1>3, <1>6 DEF Say
    <3> QED BY <1>6, <3>1 DEF ListPath
  <2>2. Midlist /\ Len(todo) >= 1
    BY <1>2, <1>3, <2>1 DEF AtRun
  <2>3. Len(todo) = 1 /\ Len(console) = 0
    BY <1>3, <2>1, <2>2 DEF Midlist
  <2>4. todo' = << >> /\ console = << >> /\ todo[1] = args.paths[1]
    BY <1>3, <2>1, <2>2, <2>3 DEF Midlist
  <2>5. Hushed'
    BY <1>1, <2>1, <2>4 DEF Hushed, Triages, Running, IsCrashLog
  <2>6. AtRun'
    BY <1>1, <1>4, <2>1, <2>4, <2>5 DEF AtRun, Speaks
  <2>7. ExitTypes'
    <3>1. todo' \in Seq(Words)
      BY <2>4
    <3> QED BY <1>1, <2>1, <3>1 DEF ExitTypes
  <2> QED BY <1>1, <2>1, <2>6, <2>7 DEF Stage
<1>7. CASE (ListPath /\ console' # console) \/ PathFails
  <2>1. todo # << >> /\ todo' = Tail(todo) /\ step' = step
    BY <1>7 DEF ListPath, PathFails
  <2>m. Midlist
    BY <1>2, <2>1 DEF AtRun
  <2>2. /\ todo[1] \in Words /\ todo' \in Seq(Words) /\ Len(todo') = Len(todo) - 1
        /\ \A i \in 1 .. Len(todo) - 1 : todo'[i] = todo[i + 1]
        /\ Len(todo) >= 1
    BY <1>3, <2>1, FirstTodo
  <2>3. PICK says : /\ Say(todo[1], says)
                    /\ says \in {"error", "path", args.command}
                    /\ says # "error" => IsCrashLog(todo[1])
    BY <1>7 DEF ListPath, PathFails, Lists, Triages
  <2>4. [of |-> todo[1], says |-> says] \in Entry
    BY <1>1, <2>2, <2>3 DEF Entry, Speaks
  <2>5. /\ console' \in Seq(Entry) /\ Len(console') = Len(console) + 1
        /\ console'[Len(console) + 1] = [of |-> todo[1], says |-> says]
        /\ \A i \in 1 .. Len(console) : console'[i] = console[i]
    BY <1>3, <2>3, <2>4, SayAdds
  <2>6. ExitTypes'
    BY <1>1, <2>2, <2>5 DEF ExitTypes
  <2>7. Len(console') + Len(todo') = Len(args'.paths)
    <3>1. Len(console) + Len(todo) = Len(args.paths)
      BY <2>m DEF Midlist
    <3>2. Len(console) + 1 + (Len(todo) - 1) = Len(console) + Len(todo)
      BY <1>3
    <3> QED BY <1>1, <2>2, <2>5, <3>1, <3>2
  <2>8. todo[1] = args.paths[Len(console) + 1]
    BY <2>m, <1>3, <2>2 DEF Midlist
  <2>9. ASSUME NEW i \in 1 .. Len(todo')
        PROVE  todo'[i] = args'.paths[Len(console') + i]
    <3>1. i + 1 \in 1 .. Len(todo) /\ i \in 1 .. Len(todo) - 1
      BY <1>3, <2>2
    <3>2. todo[i + 1] = args.paths[Len(console) + (i + 1)]
      BY <2>m, <3>1 DEF Midlist
    <3>3. Len(console) + (i + 1) = Len(console') + i
      BY <1>3, <2>5
    <3> QED BY <1>1, <2>2, <3>1, <3>2, <3>3
  <2>10. Told(Len(console))'
    <3> SUFFICES ASSUME NEW i \in 1 .. Len(console) + 1
                 PROVE  /\ console'[i].of = args.paths[i]
                        /\ console'[i].says \in {"error", "path", args.command}
                        /\ console'[i].says # "error" => IsCrashLog(console'[i].of)
      BY <1>1, <2>5 DEF Told, IsCrashLog
    <3>1. CASE i = Len(console) + 1
      BY <2>3, <2>5, <2>8, <3>1
    <3>2. CASE i # Len(console) + 1
      <4>1. i \in 1 .. Len(console)
        BY <1>3, <3>2
      <4> QED BY <2>m, <2>5, <4>1 DEF Midlist, Told
    <3> QED BY <3>1, <3>2
  <2>11. AtRun'
    BY <1>1, <1>4, <2>7, <2>9, <2>10 DEF AtRun, Midlist, Speaks
  <2> QED BY <1>1, <2>1, <2>6, <2>11 DEF Stage
<1> QED BY <1>5, <1>6, <1>7

LEMMA WaitStep ==
    ASSUME ExitInv, UNCHANGED vars, Wait
    PROVE  ExitInv'
<1> USE DEF ExitInv
<1>1. /\ setup' = setup /\ tokens' = tokens /\ args' = args /\ pc' = pc /\ volume' = volume
      /\ todo' = todo /\ status' = status /\ step = "wait" /\ step' = "exit"
      /\ Say("app", "prompt")
  BY DEF Wait, vars
<1>2. args.wait /\ Outcome(Len(console))
  BY <1>1 DEF Stage
<1>3. console \in Seq(Entry) /\ Len(console) \in Nat
  BY DEF ExitTypes
<1>a. [of |-> "app", says |-> "prompt"] \in Entry
  BY DEF Entry
<1>4. /\ console' \in Seq(Entry) /\ Len(console') = Len(console) + 1
      /\ console'[Len(console) + 1] = [of |-> "app", says |-> "prompt"]
      /\ \A i \in 1 .. Len(console) : console'[i] = console[i]
  BY <1>1, <1>3, <1>a, SayAdds
<1>5. ExitTypes'
  BY <1>1, <1>4 DEF ExitTypes
<1>6. Len(console') - 1 = Len(console) /\ Len(console') > 0
  <2>1. Len(console') = Len(console) + 1
    BY <1>4
  <2>2. Len(console) \in Nat
    BY <1>3
  <2> QED BY <2>1, <2>2
<1>7. Outcome(Len(console) - 1)'
  <2> DEFINE k == Len(console)
  <2>1. k \in Nat /\ \A i \in 1 .. k : console'[i] = console[i]
    BY <1>3, <1>4
  <2>2. Told(k) => Told(Len(console) - 1)'
    <3> SUFFICES ASSUME Told(k), NEW i \in 1 .. k
                 PROVE  /\ console'[i].of = args'.paths[i]
                        /\ console'[i].says \in {"error", "path", args'.command}
                        /\ console'[i].says # "error" => IsCrashLog(console'[i].of)
      BY <1>1, <1>6 DEF Told, IsCrashLog
    <3>1. console'[i] = console[i]
      BY <2>1
    <3> QED BY <1>1, <3>1 DEF Told
  <2>3. Extracted => Extracted'
    <3>1. /\ Targets' = Targets /\ (FromSystemTable' <=> FromSystemTable)
          /\ (Untouched' <=> Untouched) /\ \A p, w : Written(p, w)' = Written(p, w)
      BY <1>1 DEF Untouched, Written, Targets, FromSystemTable, AcpiTables
    <3> QED BY <1>1, <3>1 DEF Extracted
  <2>4. (k = 1 /\ console[1] = [of |-> "app", says |-> "help"]) =>
           console'[1] = [of |-> "app", says |-> "help"]
    BY <2>1
  <2>5. (Untouched' <=> Untouched) /\ (Speaks' <=> Speaks) /\ (Hushed' <=> Hushed)
    BY <1>1 DEF Untouched, Speaks, Hushed, IsCrashLog
  <2> QED BY <1>1, <1>2, <1>6, <2>2, <2>3, <2>4, <2>5 DEF Outcome
<1>8. AtEnd'
  <2>1. console'[Len(console')].says = "prompt"
    <3>1. Len(console') = Len(console) + 1
      BY <1>4
    <3>2. console'[Len(console) + 1].says = "prompt"
      <4>1. console'[Len(console) + 1] = [of |-> "app", says |-> "prompt"]
        BY <1>4
      <4> QED BY <4>1
    <3> QED BY <3>1, <3>2, Zenon
  <2> QED BY <1>1, <1>2, <1>6, <1>7, <2>1 DEF AtEnd
<1> QED BY <1>1, <1>5, <1>8 DEF Stage

LEMMA NextExit == ExitInv /\ [UefiNext]_<<vars, app>> => ExitInv'
<1> SUFFICES ASSUME ExitInv, [UefiNext]_<<vars, app>> PROVE ExitInv'
  OBVIOUS
<1>1. CASE UNCHANGED <<vars, app>>
  <2>1. /\ setup' = setup /\ tokens' = tokens /\ args' = args /\ todo' = todo /\ pc' = pc
        /\ console' = console /\ volume' = volume /\ step' = step /\ status' = status
    BY <1>1 DEF vars, app
  <2>2. ExitTypes'
    BY <2>1 DEF ExitInv, ExitTypes
  <2>3. /\ (Untouched' <=> Untouched) /\ (Speaks' <=> Speaks)
        /\ (AtParse' <=> AtParse) /\ (AtPager' <=> AtPager) /\ (Refused' <=> Refused)
        /\ (Hushed' <=> Hushed)
    BY <2>1 DEF Untouched, Speaks, AtParse, AtPager, Refused, Hushed, IsCrashLog
  <2>4. \A k : Told(k)' <=> Told(k)
    BY <2>1 DEF Told, IsCrashLog
  <2>5. Extracted' <=> Extracted
    BY <2>1 DEF Extracted, Untouched, Written, Targets, FromSystemTable, AcpiTables
  <2>6. \A k : Outcome(k)' <=> Outcome(k)
    BY <2>1, <2>3, <2>4, <2>5 DEF Outcome
  <2>7. (AtRun' <=> AtRun) /\ (AtEnd' <=> AtEnd)
    BY <2>1, <2>3, <2>4, <2>6 DEF AtRun, Midlist, AtEnd
  <2> QED BY <2>1, <2>2, <2>3, <2>6, <2>7 DEF ExitInv, Stage
<1>2. CASE (Parse \/ RunCommand \/ Wait) /\ UNCHANGED vars
  BY <1>2, ParseSteps, QuietSteps, PagerSteps, ListSteps, WaitStep DEF RunCommand
<1>3. CASE Page
  BY <1>3, PagerSteps
<1> QED BY <1>1, <1>2, <1>3 DEF UefiNext

LEMMA ExitAlways == UefiSpec => []ExitInv
BY InitExit, NextExit, PTL DEF UefiSpec
---------------------------------------------------------------------------
(* What the exit status means follows from the outcome. *)

Asked == IF args.help THEN "help" ELSE args.command
Changed == {p \in DOMAIN volume \cup DOMAIN setup.volume :
              ~(p \in DOMAIN volume \cap DOMAIN setup.volume /\ volume[p] = setup.volume[p])}
About == {i \in DOMAIN console : console[i].says # "prompt"}
Done == CASE Asked = "help" -> Said("help")
          [] Asked = "none" -> FALSE
          [] Asked = "extract" -> \E p \in Changed \cap DOMAIN volume : volume[p] = "extracted"
          [] Asked = "decode" -> pc = "quit"
          [] OTHER -> \/ [i \in About |-> console[i].of] = args.paths
                      \/ /\ Asked = "triage" /\ About = {}
                         /\ Len(args.paths) = 1 /\ IsCrashLog(args.paths[1])
Known == {i \in DOMAIN setup.tables : setup.tables[i] = "crashlog"}

HonestEnd ==
    /\ status = "SUCCESS" => ~Said("rejected") /\ Done
    /\ ~Said("rejected") /\ Done => status = "SUCCESS" \/ Asked = "extract"
    /\ ~Said("rejected") /\ Asked = "extract" /\ (\A i \in Known : \E j \in AcpiTables : j < i) =>
         status = "NOT_FOUND" /\ Changed = {}
    /\ status = "NOT_FOUND" => ~Said("rejected") /\ Asked \in {"extract", "decode"}
    /\ Changed \subseteq IF Asked = "extract" THEN Targets ELSE {}
    /\ \A i \in DOMAIN console :
         console[i].says \in {"info", "triage", "path"} => IsCrashLog(console[i].of)
    /\ Said("prompt") <=> ~Said("rejected") /\ args.wait
    /\ Said("prompt") => console[Len(console)].says = "prompt"

LEMMA HonestyIs == (step = "exit" => HonestEnd) => ExitHonest
BY DEF HonestEnd, ExitHonest, Asked, Changed, About, Done, Known, AcpiTables, Said

LEMMA OneMore ==
    ASSUME NEW k \in Nat, NEW n \in Nat, k = n \/ k + 1 = n
    PROVE  /\ \A i \in 1 .. n : i \in 1 .. k \/ (k + 1 = n /\ i = n)
           /\ 1 .. k \subseteq 1 .. n
           /\ k + 1 = n => n \in 1 .. n /\ n \notin 1 .. k /\ k # n
<1>1. CASE k = n
  BY <1>1
<1>2. CASE k + 1 = n
  BY <1>2
<1> QED BY <1>1, <1>2

(* The words of the command are neither the rejection nor the wait.        *)
LEMMA LastWords ==
    ASSUME ExitTypes, NEW k \in Nat, Outcome(k),
           \/ ~args.wait /\ k = Len(console)
           \/ args.wait /\ k + 1 = Len(console) /\ console[Len(console)].says = "prompt"
    PROVE  /\ \A i \in 1 .. k : console[i].says \notin {"rejected", "prompt"}
           /\ DOMAIN console = 1 .. Len(console) /\ Len(console) \in Nat
           /\ \A i \in DOMAIN console : i \in 1 .. k \/ (args.wait /\ i = Len(console))
           /\ 1 .. k \subseteq DOMAIN console
           /\ About = 1 .. k
           /\ ~Said("rejected")
           /\ Said("prompt") <=> args.wait
           /\ Said("prompt") => console[Len(console)].says = "prompt"
<1>1. DOMAIN console = 1 .. Len(console) /\ Len(console) \in Nat
  BY DEF ExitTypes
<1>2. \A i \in 1 .. k : console[i].says \notin {"rejected", "prompt"}
  <2> SUFFICES ASSUME NEW i \in 1 .. k PROVE console[i].says \notin {"rejected", "prompt"}
    OBVIOUS
  <2>1. CASE k = 1 /\ console[1] = [of |-> "app", says |-> "help"]
    <3>1. i = 1
      BY <2>1
    <3> QED BY <2>1, <3>1
  <2>2. CASE Speaks /\ Told(k)
    BY <2>2 DEF Speaks, Told
  <2> QED BY <2>1, <2>2 DEF Outcome
<1>n. /\ k = Len(console) \/ k + 1 = Len(console)
      /\ args.wait => k + 1 = Len(console) /\ console[Len(console)].says = "prompt"
      /\ ~args.wait => k = Len(console)
  BY Zenon
<1>m. /\ \A i \in 1 .. Len(console) : i \in 1 .. k \/ (k + 1 = Len(console) /\ i = Len(console))
      /\ 1 .. k \subseteq 1 .. Len(console)
      /\ k + 1 = Len(console) => /\ Len(console) \in 1 .. Len(console)
                                /\ Len(console) \notin 1 .. k /\ k # Len(console)
  BY <1>1, <1>n, OneMore, Zenon
<1>3. \A i \in DOMAIN console : i \in 1 .. k \/ (args.wait /\ i = Len(console))
  BY <1>1, <1>n, <1>m, Zenon
<1>4. 1 .. k \subseteq DOMAIN console
  BY <1>1, <1>m, Zenon
<1>5. args.wait => /\ Len(console) \in DOMAIN console /\ Len(console) \notin 1 .. k
                   /\ console[Len(console)].says = "prompt"
  BY <1>1, <1>n, <1>m, Zenon
<1>6. About = 1 .. k
  <2>1. \A i \in About : i \in 1 .. k
    BY <1>3, <1>5 DEF About
  <2>2. \A i \in 1 .. k : i \in About
    BY <1>2, <1>4 DEF About
  <2> QED BY <2>1, <2>2
<1>7. ~Said("rejected")
  BY <1>2, <1>3, <1>5 DEF Said
<1>8. Said("prompt") <=> args.wait
  BY <1>2, <1>3, <1>5 DEF Said
<1> QED BY <1>1, <1>2, <1>3, <1>4, <1>5, <1>6, <1>7, <1>8

LEMMA NothingChanged == Untouched => Changed = {}
BY DEF Untouched, Changed

(* A write that succeeded leaves the whole file, no other file is touched, *)
(* and none if there is nothing to extract.                                *)
LEMMA ExtractChanges ==
    ASSUME ExitTypes, Extracted
    PROVE  /\ Changed \subseteq Targets
           /\ status = "SUCCESS" => \E p \in Changed \cap DOMAIN volume : volume[p] = "extracted"
           /\ ~FromSystemTable => status = "NOT_FOUND" /\ Changed = {}
<1>1. setup.volume \in [DOMAIN setup.volume -> {"crashlog", "foreign"}]
  BY UefiAssumption DEF ExitTypes
<1>2. CASE status = "SUCCESS" /\ FromSystemTable
           /\ \E p \in Targets : volume = Written(p, "extracted")
  <2>1. PICK p \in Targets : volume = Written(p, "extracted")
    BY <1>2
  <2>2. DOMAIN volume = DOMAIN setup.volume \cup {p} /\ volume[p] = "extracted"
    BY <2>1 DEF Written
  <2>3. \A q \in DOMAIN setup.volume : q # p => volume[q] = setup.volume[q]
    BY <2>1 DEF Written
  <2>4. p \in Changed
    <3>1. p \in DOMAIN setup.volume => setup.volume[p] # "extracted"
      BY <1>1
    <3> QED BY <2>2, <3>1 DEF Changed
  <2>5. Changed \subseteq {p}
    BY <2>2, <2>3 DEF Changed
  <2> QED BY <1>2, <2>2, <2>4, <2>5
<1>3. CASE status = "NOT_FOUND" /\ ~FromSystemTable /\ Untouched
  BY <1>3, NothingChanged
<1>4. CASE /\ status \in FirmwareErrors /\ FromSystemTable
           /\ \E p \in Targets :
                volume \in {setup.volume,
                            [q \in DOMAIN setup.volume \ {p} |-> setup.volume[q]],
                            Written(p, "partial"), Written(p, "extracted")}
  <2>1. PICK p \in Targets :
               volume \in {setup.volume,
                           [q \in DOMAIN setup.volume \ {p} |-> setup.volume[q]],
                           Written(p, "partial"), Written(p, "extracted")}
    BY <1>4
  <2>2. /\ DOMAIN volume \subseteq DOMAIN setup.volume \cup {p}
        /\ DOMAIN setup.volume \subseteq DOMAIN volume \cup {p}
        /\ \A q \in DOMAIN setup.volume : q # p => volume[q] = setup.volume[q]
    <3>1. CASE volume = setup.volume
      BY <3>1
    <3>2. CASE volume = [q \in DOMAIN setup.volume \ {p} |-> setup.volume[q]]
      BY <3>2
    <3>3. CASE volume = Written(p, "partial") \/ volume = Written(p, "extracted")
      <4>1. DOMAIN volume = DOMAIN setup.volume \cup {p}
        BY <3>3 DEF Written
      <4>2. \A q \in DOMAIN setup.volume : q # p => volume[q] = setup.volume[q]
        BY <3>3 DEF Written
      <4> QED BY <4>1, <4>2
    <3> QED BY <2>1, <3>1, <3>2, <3>3
  <2>3. Changed \subseteq {p}
    BY <2>2 DEF Changed
  <2>4. status # "SUCCESS"
    BY <1>4 DEF FirmwareErrors
  <2> QED BY <1>4, <2>1, <2>3, <2>4
<1> QED BY <1>2, <1>3, <1>4 DEF Extracted

(* find_acpi_tables finds no crash log if every one there is stands behind *)
(* another valid table.                                                    *)
LEMMA NoFirstTable ==
    ASSUME ExitTypes
    PROVE  ~FromSystemTable <=> \A i \in Known : \E j \in AcpiTables : j < i
<1>1. setup.tables \in Seq(Tables)
  BY UefiAssumption DEF ExitTypes
<1>2. Known \subseteq AcpiTables /\ \A i \in AcpiTables : i \in Int
  BY <1>1 DEF Known, AcpiTables
<1>3. \A i \in AcpiTables : setup.tables[i] = "crashlog" <=> i \in Known
  BY DEF Known, AcpiTables
<1> QED BY <1>2, <1>3 DEF FromSystemTable

LEMMA OutcomeHonest ==
    ASSUME ExitTypes, NEW k \in Nat, Outcome(k),
           \/ ~args.wait /\ k = Len(console)
           \/ args.wait /\ k + 1 = Len(console) /\ console[Len(console)].says = "prompt"
    PROVE  HonestEnd
<1>1. /\ \A i \in 1 .. k : console[i].says \notin {"rejected", "prompt"}
      /\ DOMAIN console = 1 .. Len(console) /\ Len(console) \in Nat
      /\ \A i \in DOMAIN console : i \in 1 .. k \/ (args.wait /\ i = Len(console))
      /\ 1 .. k \subseteq DOMAIN console
      /\ About = 1 .. k
      /\ ~Said("rejected")
      /\ Said("prompt") <=> args.wait
      /\ Said("prompt") => console[Len(console)].says = "prompt"
  BY LastWords
<1>2. args.help \in BOOLEAN /\ args.command \in {"none"} \cup Commands /\ args.paths \in Seq(Words)
  BY DEF ExitTypes
<1>3. SUFFICES /\ status = "SUCCESS" => Done
               /\ Done => status = "SUCCESS" \/ Asked = "extract"
               /\ Asked = "extract" /\ (\A i \in Known : \E j \in AcpiTables : j < i) =>
                    status = "NOT_FOUND" /\ Changed = {}
               /\ status = "NOT_FOUND" => Asked \in {"extract", "decode"}
               /\ Changed \subseteq IF Asked = "extract" THEN Targets ELSE {}
               /\ \A i \in 1 .. k :
                    console[i].says \in {"info", "triage", "path"} => IsCrashLog(console[i].of)
  <2>1. ASSUME NEW i \in DOMAIN console, console[i].says \in {"info", "triage", "path"},
               \A j \in 1 .. k :
                 console[j].says \in {"info", "triage", "path"} => IsCrashLog(console[j].of)
        PROVE  IsCrashLog(console[i].of)
    <3>1. i \in 1 .. k
      BY <1>1, <2>1
    <3> QED BY <2>1, <3>1
  <2> QED BY <1>1, <2>1 DEF HonestEnd
<1>4. CASE /\ args.help \/ args.command = "none"
           /\ status = (IF args.help THEN "SUCCESS" ELSE "INVALID_PARAMETER")
           /\ Untouched
           /\ k = 1 /\ console[1] = [of |-> "app", says |-> "help"]
  <2>1. Said("help")
    <3>1. 1 \in DOMAIN console /\ console[1].says = "help"
      BY <1>1, <1>4
    <3> QED BY <3>1 DEF Said
  <2>2. Asked = IF args.help THEN "help" ELSE "none"
    BY <1>4 DEF Asked
  <2>3. \A i \in 1 .. k : console[i].says = "help"
    BY <1>4
  <2>4. Done <=> args.help
    BY <1>2, <2>1, <2>2 DEF Done
  <2> QED BY <1>2, <1>4, <2>2, <2>3, <2>4, NothingChanged
<1>5. CASE ~args.help /\ args.command = "extract" /\ k = 0 /\ Extracted
  <2>1. Asked = "extract"
    BY <1>5 DEF Asked
  <2>2. Done <=> \E p \in Changed \cap DOMAIN volume : volume[p] = "extracted"
    BY <2>1 DEF Done
  <2> QED BY <1>5, <2>1, <2>2, ExtractChanges, NoFirstTable
<1>6. CASE /\ ~args.help /\ args.command = "decode" /\ k = 0
           /\ Untouched
           /\ \/ status = "SUCCESS" /\ pc = "quit"
              \/ status \in FirmwareErrors /\ pc # "quit"
  <2>1. Asked = "decode"
    BY <1>6 DEF Asked
  <2>2. Done <=> pc = "quit"
    BY <2>1 DEF Done
  <2> QED BY <1>6, <2>1, <2>2, NothingChanged DEF FirmwareErrors
<1>7. CASE Speaks /\ status = "SUCCESS" /\ Untouched /\ k = Len(args.paths) /\ Told(k)
  <2>1. Asked \in {"info", "triage"}
    BY <1>7 DEF Asked, Speaks
  <2>2. [i \in About |-> console[i].of] = args.paths
    <3>1. args.paths = [i \in 1 .. k |-> args.paths[i]]
      BY <1>2, <1>7
    <3>2. \A i \in 1 .. k : console[i].of = args.paths[i]
      BY <1>7 DEF Told
    <3>3. [i \in 1 .. k |-> console[i].of] = [i \in 1 .. k |-> args.paths[i]]
      BY <3>2
    <3> QED BY <1>1, <3>1, <3>3
  <2>3. Done
    BY <2>1, <2>2 DEF Done
  <2>4. \A i \in 1 .. k :
          console[i].says \in {"info", "triage", "path"} => IsCrashLog(console[i].of)
    BY <1>7 DEF Told
  <2> QED BY <1>7, <2>1, <2>3, <2>4, NothingChanged
<1>8. CASE Speaks /\ status = "SUCCESS" /\ Untouched /\ k = 0 /\ Hushed
  <2>1. Asked = "triage" /\ About = {}
    BY <1>1, <1>8 DEF Asked, Speaks, Hushed
  <2>2. Done
    BY <1>8, <2>1 DEF Done, Hushed
  <2> QED BY <1>8, <2>1, <2>2, NothingChanged
<1> QED BY <1>4, <1>5, <1>6, <1>7, <1>8 DEF Outcome

LEMMA RefusedHonest ==
    ASSUME ExitTypes, Refused
    PROVE  HonestEnd
<1>1. /\ DOMAIN console = {1} /\ console[1].says = "rejected"
  BY DEF Refused
<1>2. Said("rejected") /\ ~Said("prompt")
  BY <1>1 DEF Said
<1>3. Changed = {}
  BY NothingChanged DEF Refused
<1> QED BY <1>1, <1>2, <1>3 DEF HonestEnd, Refused

(* What the exit status says of the files, the screen and the console      *)
(* holds whatever the firmware fails with, success above all, and the wait *)
(* comes after everything else (main.rs:23-96).                            *)
THEOREM ExitIsHonest == UefiSpec => []ExitHonest
<1>1. ExitInv => ExitHonest
  <2> SUFFICES ASSUME ExitInv, step = "exit" PROVE HonestEnd
    BY HonestyIs
  <2>1. ExitTypes /\ AtEnd
    BY DEF ExitInv, Stage
  <2>2. Len(console) \in Nat
    BY <2>1 DEF ExitTypes
  <2>3. CASE Refused
    BY <2>1, <2>3, RefusedHonest
  <2>4. CASE ~args.wait /\ Outcome(Len(console))
    BY <2>1, <2>2, <2>4, OutcomeHonest
  <2>5. CASE /\ args.wait /\ Len(console) > 0 /\ console[Len(console)].says = "prompt"
             /\ Outcome(Len(console) - 1)
    <3>1. Len(console) - 1 \in Nat /\ Len(console) - 1 + 1 = Len(console)
      BY <2>2, <2>5
    <3> QED BY <2>1, <2>5, <3>1, OutcomeHonest
  <2> QED BY <2>1, <2>3, <2>4, <2>5 DEF AtEnd
<1> QED BY <1>1, ExitAlways, PTL
=============================================================================
