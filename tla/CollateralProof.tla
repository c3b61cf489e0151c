------------------------- MODULE CollateralProof -------------------------
(***************************************************************************)
(* Theorems about Collateral, for every tree, every set of products and   *)
(* paths, and every way the files may change.                              *)
(***************************************************************************)
EXTENDS Collateral, TLAPS

LEMMA LevelFacts == Security = {"red", "white", "green", "all"}
BY DEF Security, Levels

(* The least of the levels a set of them has. *)
LEMMA FirstOf ==
    ASSUME NEW s, s \subseteq 1 .. 4, s # {}
    PROVE  First(s) \in s /\ \A m \in s : First(s) <= m
<1>1. \E n \in s : \A m \in s : n <= m
  <2>1. CASE 1 \in s
    BY <2>1
  <2>2. CASE 1 \notin s /\ 2 \in s
    BY <2>2
  <2>3. CASE 1 \notin s /\ 2 \notin s /\ 3 \in s
    BY <2>3
  <2>4. CASE 1 \notin s /\ 2 \notin s /\ 3 \notin s
    <3>1. \A m \in s : m = 4
      BY <2>4
    <3>2. PICK k \in s : TRUE
      OBVIOUS
    <3> QED BY <3>1, <3>2
  <2> QED BY <2>1, <2>2, <2>3, <2>4
<1> QED BY <1>1 DEF First

(* A level that has the item, when none above it has, is the highest.      *)
LEMMA HighestAt ==
    ASSUME NEW i, NEW n \in 1 .. 4, FileAt(tree, i, n) \in Contents,
           \A m \in 1 .. (n - 1) : FileAt(tree, i, m) \notin Contents
    PROVE  Highest(i) = FileAt(tree, i, n)
<1>1. n \in Readable(i) /\ \A m \in Readable(i) : n <= m
  BY DEF Readable, Lacking
<1>2. Readable(i) \subseteq 1 .. 4
  BY DEF Readable
<1>3. First(Readable(i)) \in Readable(i) /\ First(Readable(i)) <= n
  BY <1>1, <1>2, FirstOf
<1>4. First(Readable(i)) = n
  BY <1>1, <1>2, <1>3
<1> QED BY <1>4 DEF Highest

---------------------------------------------------------------------------
(* The cache and its history, what is known of the products, and the fetch *)
(* in progress: its index is not cached, and no level above the next one   *)
(* had the item throughout; those that lack it now are among the lacked.   *)
CacheOK ==
    /\ DOMAIN items \subseteq Places
    /\ \A i \in DOMAIN items : items[i] \in Contents
    /\ DOMAIN filler = DOMAIN items
    /\ \A i \in DOMAIN filler : filler[i] \in {"pvss", "pvs"}

InfoOK ==
    /\ DOMAIN targetInfo \subseteq Pids
    /\ \A pid \in DOMAIN targetInfo : targetInfo[pid] \in Pvs

FetchTypeOK ==
    phase = "fetch" =>
      fetch \in [op : {"pvs", "header"}, index : Places, level : 1 .. 4]

FetchOK ==
    phase = "fetch" => /\ fetch.index \notin DOMAIN items
                       /\ Lacking(tree, fetch.index) \subseteq lacked
                       /\ 1 .. (fetch.level - 1) \subseteq lacked

(* The forms a lookup takes: an answer at once, the beginning of a fetch,  *)
(* and the three ways the read of a level ends.                            *)
Outside == UNCHANGED <<tree, edits, hits, targetInfo>>
Unfilled == UNCHANGED <<items, filler>>
Answered(op, i, r) == answer' = [op |-> op, index |-> i, result |-> r]
Filled(i, c, how) == items' = Set(items, i, c) /\ filler' = Set(filler, i, how)
Idle == phase = "ready" /\ UNCHANGED <<phase, fetch, lacked>>
Ended == phase' = "ready"

FoundExact(i) ==
    /\ Idle /\ i \notin DOMAIN items /\ tree[i] \in Contents
    /\ Filled(i, tree[i], "pvss") /\ Answered("pvss", i, Ok(tree[i]))
Cached(op, i) == Idle /\ i \in DOMAIN items /\ Unfilled /\ Answered(op, i, Ok(items[i]))
Lost(op, i) ==
    /\ Idle /\ Unfilled /\ Answered(op, i, Error)
    /\ op = "header" \/ (op = "pvss" /\ tree[i] \notin Contents)
Begun(op, i) ==
    /\ phase' = "fetch" /\ i \notin DOMAIN items /\ Unfilled /\ UNCHANGED answer
    /\ fetch' = [op |-> op, index |-> i, level |-> 1]
    /\ lacked' = Lacking(tree, i)
    /\ op \in {"pvs", "header"}

Here == FileAt(tree, fetch.index, fetch.level)
LevelFound ==
    /\ phase = "fetch" /\ Ended /\ Here \in Contents
    /\ Filled(fetch.index, Here, "pvs") /\ Answered(fetch.op, fetch.index, Ok(Here))
LevelLast ==
    /\ phase = "fetch" /\ Ended /\ Here \notin Contents /\ fetch.level = 4
    /\ Unfilled /\ Answered(fetch.op, fetch.index, Error)
LevelLacks ==
    /\ phase = "fetch" /\ Here \notin Contents /\ fetch.level # 4
    /\ fetch' = [fetch EXCEPT !.level = @ + 1]
    /\ Unfilled /\ UNCHANGED <<phase, lacked, answer>>

Ops == {"pvss", "pvs", "header"}

LEMMA LookupForms ==
    ASSUME TypeOK, Lookup
    PROVE  /\ Outside
           /\ \/ \E op \in Ops, i \in Places :
                   Cached(op, i) \/ FoundExact(i) \/ Lost(op, i) \/ Begun(op, i)
              \/ LevelFound \/ LevelLast \/ LevelLacks
<1> DEFINE Form(op, i) == Cached(op, i) \/ FoundExact(i) \/ Lost(op, i) \/ Begun(op, i)
<1> SUFFICES /\ Outside
             /\ (\E op \in Ops, i \in Places : Form(op, i)) \/ LevelFound \/ LevelLast \/ LevelLacks
  OBVIOUS
<1>0. Asked \subseteq Places /\ "pvss" \in Ops /\ "pvs" \in Ops /\ "header" \in Ops
  BY CollateralAssumption DEF Ops
<1>1. ASSUME NEW i \in Asked, GetWithPvss(i) PROVE Outside /\ Form("pvss", i)
  BY <1>1 DEF GetWithPvss, Hit, FetchExact, Respond, NoFill, Outside, Unfilled, Idle, Answered,
              Filled, Cached, FoundExact, Lost
<1>2. ASSUME NEW i \in Asked, GetWithPvs(i) PROVE Outside /\ Form("pvs", i)
  BY <1>2 DEF GetWithPvs, Hit, BeginFetch, Respond, NoFill, Outside, Unfilled, Idle, Answered,
              Cached, Begun
<1>3. ASSUME NEW pid \in Pids, NEW path \in {i[3] : i \in Asked}, GetWithHeader(pid, path)
      PROVE  Outside /\ \E i \in Places : Form("header", i)
  <2>1. path \in Paths
    BY CollateralAssumption DEF Places
  <2>2. \A p \in Pvs : <<p, "all", path>> \in Places
    BY <2>1, LevelFacts DEF Places
  <2>3. PvssOf(pid) \subseteq Pvs
    BY CollateralAssumption DEF PvssOf, TypeOK
  <2>4. Outside /\ phase = "ready"
    BY <1>3 DEF GetWithHeader, Outside
  <2>5. ASSUME NEW p \in PvssOf(pid),
               Hit("header", <<p, "all", path>>) \/ BeginFetch("header", <<p, "all", path>>)
        PROVE  \E i \in Places : Form("header", i)
    <3>1. <<p, "all", path>> \in Places
      BY <2>2, <2>3
    <3>2. Form("header", <<p, "all", path>>)
      BY <2>4, <2>5 DEF Hit, BeginFetch, Respond, NoFill, Unfilled, Idle, Answered, Cached, Begun
    <3> HIDE DEF Form
    <3> QED BY <3>1, <3>2
  <2>6. ASSUME Respond("header", <<AllPvs, "all", path>>, Error), NoFill
        PROVE  \E i \in Places : Form("header", i)
    <3>1. <<AllPvs, "all", path>> \in Places
      BY <2>2, CollateralAssumption
    <3>2. Form("header", <<AllPvs, "all", path>>)
      BY <2>4, <2>6 DEF Respond, NoFill, Unfilled, Idle, Answered, Lost
    <3> HIDE DEF Form
    <3> QED BY <3>1, <3>2
  <2> HIDE DEF Form
  <2> QED BY <1>3, <2>4, <2>5, <2>6 DEF GetWithHeader
<1>4. ASSUME FetchLevel PROVE Outside /\ (LevelFound \/ LevelLast \/ LevelLacks)
  BY <1>4 DEF FetchLevel, LastLevel, FetchEnds, Respond, Outside, Unfilled, Ended, Answered, Filled,
              Here, LevelFound, LevelLast, LevelLacks
<1> HIDE DEF Form
<1> QED BY <1>0, <1>1, <1>2, <1>3, <1>4 DEF Lookup

(* Filling an index that is free keeps the cache well formed, and every    *)
(* item that was in it.                                                    *)
LEMMA FillCache ==
    ASSUME CacheOK, NEW i \in Places, i \notin DOMAIN items, NEW c \in Contents,
           NEW how \in {"pvss", "pvs"}, Filled(i, c, how)
    PROVE  /\ CacheOK'
           /\ \A j \in DOMAIN items :
                j \in DOMAIN items' /\ items'[j] = items[j] /\ filler'[j] = filler[j]
           /\ \A j \in DOMAIN items' \ DOMAIN items :
                j = i /\ items'[j] = c /\ filler'[j] = how
           /\ i \in DOMAIN items' /\ items'[i] = c
<1>1. DOMAIN items' = DOMAIN items \cup {i} /\ items'[i] = c
      /\ \A j \in DOMAIN items : items'[j] = items[j]
  BY DEF Set, Filled
<1>2. DOMAIN filler' = DOMAIN filler \cup {i} /\ filler'[i] = how
      /\ \A j \in DOMAIN filler : filler'[j] = filler[j]
  <2>1. i \notin DOMAIN filler
    BY DEF CacheOK
  <2> QED BY <2>1 DEF Set, Filled
<1> QED BY <1>1, <1>2 DEF CacheOK

(* What a lookup adds to the cache: at most one item, an exact one or the  *)
(* one at the level of the fetch.                                          *)
LEMMA LookupFills ==
    ASSUME TypeOK, FetchOK, Lookup
    PROVE  \/ Unfilled
           \/ \E i \in Places : FoundExact(i)
           \/ /\ LevelFound
              /\ fetch.index \in Places /\ fetch.index \notin DOMAIN items
              /\ fetch.level \in 1 .. 4
              /\ 1 .. (fetch.level - 1) \subseteq lacked
<1>1. CASE LevelFound
  BY <1>1 DEF TypeOK, FetchOK, LevelFound
<1>2. CASE ~LevelFound
  BY <1>2, LookupForms DEF Cached, Lost, Begun, LevelLast, LevelLacks
<1> QED BY <1>1, <1>2

(* A lookup begins and ends with a manager that is ready.                  *)
LEMMA LookupPhases ==
    ASSUME Lookup
    PROVE  /\ phase \in {"ready", "fetch"} /\ phase' \in {"ready", "fetch"}
           /\ UNCHANGED <<hits, targetInfo>>
<1>1. ASSUME NEW i, GetWithPvss(i) PROVE phase = "ready" /\ UNCHANGED <<phase, hits, targetInfo>>
  BY <1>1 DEF GetWithPvss, Hit, FetchExact, NoFill
<1>2. ASSUME NEW op, NEW i, Hit(op, i) \/ BeginFetch(op, i) PROVE phase' \in {phase, "fetch"}
  BY <1>2 DEF Hit, BeginFetch, NoFill
<1>3. ASSUME NEW i, GetWithPvs(i)
      PROVE  phase = "ready" /\ phase' \in {phase, "fetch"} /\ UNCHANGED <<hits, targetInfo>>
  BY <1>2, <1>3 DEF GetWithPvs
<1>4. ASSUME NEW pid, NEW path, GetWithHeader(pid, path)
      PROVE  phase = "ready" /\ phase' \in {phase, "fetch"} /\ UNCHANGED <<hits, targetInfo>>
  BY <1>2, <1>4 DEF GetWithHeader, NoFill
<1>5. ASSUME FetchLevel
      PROVE  phase = "fetch" /\ phase' \in {"ready", "fetch"} /\ UNCHANGED <<hits, targetInfo>>
  BY <1>5 DEF FetchLevel, FetchEnds
<1> QED BY <1>1, <1>3, <1>4, <1>5 DEF Lookup

---------------------------------------------------------------------------
LEMMA InitTypes == Init => TypeOK /\ FetchOK
<1> SUFFICES ASSUME Init PROVE TypeOK /\ FetchOK
  OBVIOUS
<1>1. DOMAIN Empty = {}
  BY DEF Empty
<1>2. /\ tree \in [Places -> Answers]
      /\ \A e \in edits : e.place \in Places /\ e.answer \in Answers
  BY CollateralAssumption DEF Init
<1> QED BY <1>1, <1>2 DEF Init, TypeOK, FetchOK

LEMMA LookupTypes ==
    ASSUME TypeOK, FetchOK, Lookup
    PROVE  TypeOK' /\ FetchOK'
<1>1. CacheOK
  BY DEF TypeOK, CacheOK
<1>2. CacheOK'
  <2>1. CASE Unfilled
    BY <1>1, <2>1 DEF Unfilled, CacheOK
  <2>2. ASSUME NEW i \in Places, FoundExact(i) PROVE CacheOK'
    BY <1>1, <2>2, FillCache DEF FoundExact
  <2>3. ASSUME LevelFound, fetch.index \in Places, fetch.index \notin DOMAIN items PROVE CacheOK'
    BY <1>1, <2>3, FillCache DEF LevelFound
  <2> QED BY <2>1, <2>2, <2>3, LookupFills
<1>3. Outside
  BY LookupForms
<1>4. /\ phase' \in {"ready", "fetch"} /\ FetchTypeOK' /\ FetchOK'
  <2>1. ASSUME NEW op \in Ops, NEW i \in Places, Cached(op, i) \/ FoundExact(i) \/ Lost(op, i)
        PROVE  phase' = "ready"
    BY <2>1 DEF Cached, FoundExact, Lost, Idle
  <2>2. ASSUME NEW op \in Ops, NEW i \in Places, Begun(op, i)
        PROVE  phase' = "fetch" /\ FetchTypeOK' /\ FetchOK'
    <3>1. /\ fetch' = [op |-> op, index |-> i, level |-> 1] /\ items' = items
          /\ phase' = "fetch" /\ op \in {"pvs", "header"} /\ i \notin DOMAIN items
          /\ lacked' = Lacking(tree, i) /\ tree' = tree
      BY <1>3, <2>2 DEF Begun, Unfilled, Outside
    <3>2. fetch'.index = i /\ fetch'.level = 1
      BY <3>1
    <3> QED BY <3>1, <3>2 DEF FetchTypeOK, FetchOK
  <2>3. ASSUME LevelFound \/ LevelLast PROVE phase' = "ready"
    BY <2>3 DEF LevelFound, LevelLast, Ended
  <2>4. ASSUME LevelLacks PROVE phase' = "fetch" /\ FetchTypeOK' /\ FetchOK'
    <3>1. /\ fetch \in [op : {"pvs", "header"}, index : Places, level : 1 .. 4]
          /\ fetch.level # 4 /\ fetch.index \notin DOMAIN items
          /\ 1 .. (fetch.level - 1) \subseteq lacked
          /\ Lacking(tree, fetch.index) \subseteq lacked
      BY <2>4 DEF LevelLacks, TypeOK, FetchOK
    <3>2. /\ phase' = "fetch" /\ items' = items /\ lacked' = lacked /\ tree' = tree
          /\ fetch' = [fetch EXCEPT !.level = @ + 1]
      BY <1>3, <2>4 DEF LevelLacks, Unfilled, Outside
    <3>3. fetch.level \in lacked
      BY <2>4, <3>1 DEF LevelLacks, FetchOK, Lacking, Here
    <3>4. FetchTypeOK'
      BY <3>1, <3>2 DEF FetchTypeOK
    <3>5. fetch'.index = fetch.index /\ fetch'.level = fetch.level + 1
      BY <3>1, <3>2
    <3>6. Lacking(tree', fetch'.index) \subseteq lacked'
      BY <3>1, <3>2, <3>5
    <3>7. 1 .. (fetch'.level - 1) \subseteq lacked'
      BY <3>1, <3>2, <3>3, <3>5
    <3> QED BY <3>1, <3>2, <3>4, <3>5, <3>6, <3>7 DEF FetchOK
  <2>5. phase' = "ready" => FetchTypeOK' /\ FetchOK'
    BY DEF FetchTypeOK, FetchOK
  <2> QED BY <2>1, <2>2, <2>3, <2>4, <2>5, LookupForms
<1> QED BY <1>2, <1>3, <1>4 DEF TypeOK, CacheOK, FetchTypeOK, Outside

LEMMA NextTypes == TypeOK /\ FetchOK /\ [Next]_vars => TypeOK' /\ FetchOK'
<1> SUFFICES ASSUME TypeOK, FetchOK, [Next]_vars PROVE TypeOK' /\ FetchOK'
  OBVIOUS
<1>1. CASE Search
  BY <1>1 DEF Search, TypeOK, FetchOK
<1>2. CASE LoadInfo
  <2>1. PICK p \in hits :
          LET c == TreeAt(p[1], p[2], InfoPath) IN
          /\ hits' = hits \ {p}
          /\ \/ phase' = "failed" /\ UNCHANGED targetInfo
             \/ /\ c \in Contents
                /\ targetInfo' = IF InfoOf[c] = Invalid THEN targetInfo
                                 ELSE Set(targetInfo, InfoOf[c].pid, InfoOf[c].pvs)
                /\ UNCHANGED phase
    BY <1>2 DEF LoadInfo, Rest
  <2>2. InfoOK'
    <3> DEFINE c == TreeAt(p[1], p[2], InfoPath)
    <3>1. CASE UNCHANGED targetInfo
      BY <3>1 DEF TypeOK, InfoOK
    <3>2. CASE c \in Contents /\ InfoOf[c] # Invalid
               /\ targetInfo' = Set(targetInfo, InfoOf[c].pid, InfoOf[c].pvs)
      <4>1. InfoOf[c].pid \in Pids /\ InfoOf[c].pvs \in Pvs
        BY <3>2, CollateralAssumption
      <4> HIDE DEF c
      <4>2. /\ DOMAIN targetInfo' = DOMAIN targetInfo \cup {InfoOf[c].pid}
            /\ \A pid \in DOMAIN targetInfo' :
                 targetInfo'[pid] = InfoOf[c].pvs \/ (pid \in DOMAIN targetInfo
                                                     /\ targetInfo'[pid] = targetInfo[pid])
        BY <3>2 DEF Set
      <4> QED BY <4>1, <4>2 DEF TypeOK, InfoOK
    <3> QED BY <2>1, <3>1, <3>2
  <2>3. /\ phase' \in {"load", "failed"} /\ UNCHANGED <<tree, edits, items, filler>>
        /\ hits' \subseteq hits
    BY <1>2 DEF LoadInfo, Rest
  <2> QED BY <2>2, <2>3 DEF TypeOK, InfoOK, FetchOK
<1>3. CASE Created
  BY <1>3 DEF Created, TypeOK, FetchOK
<1>4. CASE Lookup
  BY <1>4, LookupTypes
<1>5. CASE Edit
  <2>1. tree' \in [Places -> Answers]
    BY <1>5 DEF Edit, TypeOK
  <2>2. UNCHANGED <<edits, phase, hits, targetInfo, items, filler, fetch>>
    BY <1>5 DEF Edit
  <2>3. phase = "fetch" => lacked' = lacked \cup Lacking(tree', fetch.index)
    BY <1>5 DEF Edit
  <2>4. TypeOK'
    BY <2>1, <2>2 DEF TypeOK
  <2> QED BY <2>2, <2>3, <2>4 DEF FetchOK
<1>6. CASE UNCHANGED vars
  BY <1>6 DEF vars, TypeOK, FetchOK
<1> QED BY <1>1, <1>2, <1>3, <1>4, <1>5, <1>6 DEF Next, Create

LEMMA SpecTypes == Spec => [](TypeOK /\ FetchOK)
BY InitTypes, NextTypes, PTL DEF Spec

(* The state keeps its shape, however the files change. *)
THEOREM TypeCorrect == Spec => []TypeOK
BY SpecTypes, PTL

LEMMA OthersKeepCache ==
    ASSUME [Next]_vars, ~Lookup PROVE UNCHANGED <<items, filler, answer>>
BY DEF Next, Create, Search, LoadInfo, Created, Edit, vars

LEMMA OthersKeepFetch ==
    ASSUME [Next]_vars, ~Lookup, phase' = "fetch" PROVE UNCHANGED <<phase, fetch>>
BY DEF Next, Create, Search, LoadInfo, Created, Edit, vars

(* An item given out once stays what it was for the life of the manager.   *)
THEOREM CacheIsFrozen == Spec => ItemsFrozen
<1> DEFINE Kept == \A i \in DOMAIN items : i \in DOMAIN items' /\ items'[i] = items[i]
<1>1. TypeOK /\ FetchOK /\ [Next]_vars => [Kept]_vars
  <2> SUFFICES ASSUME TypeOK, FetchOK, [Next]_vars PROVE Kept
    OBVIOUS
  <2>1. CacheOK
    BY DEF TypeOK, CacheOK
  <2>2. CASE Unfilled
    BY <2>2 DEF Unfilled
  <2>3. ASSUME NEW i \in Places, FoundExact(i) PROVE Kept
    BY <2>1, <2>3, FillCache DEF FoundExact
  <2>4. ASSUME LevelFound, fetch.index \in Places, fetch.index \notin DOMAIN items PROVE Kept
    BY <2>1, <2>4, FillCache DEF LevelFound
  <2> QED BY <2>2, <2>3, <2>4, LookupFills, OthersKeepCache DEF Unfilled
<1> QED BY SpecTypes, <1>1, PTL DEF Spec, ItemsFrozen

(* An item enters the cache only from the tree, as the item asked for or   *)
(* from a level above which every level lacked at some moment of the       *)
(* lookup, whatever happens to the files between its reads.                *)
THEOREM CacheIsFilledByRule == Spec => FilledByRule
<1> DEFINE New == DOMAIN items' \ DOMAIN items
           Best(i) == \E n \in 1 .. 4 : /\ items'[i] = FileAt(tree, i, n)
                                        /\ 1 .. (n - 1) \subseteq lacked
           Rule == \A i \in New : IF filler'[i] = "pvss" THEN items'[i] = tree[i] ELSE Best(i)
<1>1. TypeOK /\ FetchOK /\ [Next]_vars => [Rule]_vars
  <2> SUFFICES ASSUME TypeOK, FetchOK, [Next]_vars PROVE Rule
    OBVIOUS
  <2>1. CacheOK
    BY DEF TypeOK, CacheOK
  <2>2. CASE Unfilled
    BY <2>2 DEF Unfilled
  <2>3. ASSUME NEW i \in Places, FoundExact(i) PROVE Rule
    <3>1. \A j \in New : j = i /\ items'[j] = tree[i] /\ filler'[j] = "pvss"
      BY <2>1, <2>3, FillCache DEF FoundExact
    <3> QED BY <3>1
  <2>4. ASSUME LevelFound, fetch.index \in Places, fetch.index \notin DOMAIN items,
               fetch.level \in 1 .. 4, 1 .. (fetch.level - 1) \subseteq lacked
        PROVE  Rule
    <3>1. \A j \in New : j = fetch.index /\ items'[j] = Here /\ filler'[j] = "pvs"
      BY <2>1, <2>4, FillCache DEF LevelFound
    <3>2. ASSUME NEW j \in New PROVE Best(j)
      <4>1. items'[j] = FileAt(tree, j, fetch.level)
        BY <3>1 DEF Here
      <4> QED BY <2>4, <4>1
    <3> HIDE DEF Best
    <3> QED BY <3>1, <3>2
  <2> QED BY <2>2, <2>3, <2>4, LookupFills, OthersKeepCache DEF Unfilled
<1> QED BY SpecTypes, <1>1, PTL DEF Spec, FilledByRule
---------------------------------------------------------------------------
(* While the files stay as they are the cache agrees with the tree, the    *)
(* fetch in progress with the levels it has been through, and the last     *)
(* answer with the cache or, when it is an error, with the tree.           *)
CachedRight ==
    \A i \in DOMAIN items :
      /\ filler[i] = "pvss" => items[i] = tree[i]
      /\ filler[i] = "pvs" => items[i] = Highest(i)

Passed ==
    phase = "fetch" =>
      \A m \in 1 .. (fetch.level - 1) : FileAt(tree, fetch.index, m) \notin Contents

Nothing(op, i) == IF op = "pvss" THEN tree[i] \notin Contents ELSE Readable(i) = {}

AnswerFits ==
    answer.op \in {"pvss", "pvs"} =>
      IF answer.result.ok
      THEN answer.index \in DOMAIN items /\ answer.result.content = items[answer.index]
      ELSE Nothing(answer.op, answer.index)

AnswersInv == Fixed => CachedRight /\ Passed /\ AnswerFits

LEMMA InitAnswers == Init => AnswersInv
<1> SUFFICES ASSUME Init PROVE CachedRight /\ Passed /\ AnswerFits
  BY DEF AnswersInv
<1>1. DOMAIN items = {}
  BY DEF Init, Empty
<1>2. answer.op = "none" /\ phase = "search"
  BY DEF Init, NoAnswer
<1> QED BY <1>1, <1>2 DEF CachedRight, Passed, AnswerFits

(* Nothing a property of the files speaks of changes while they are fixed. *)
LEMMA FixedFiles ==
    ASSUME TypeOK, [Next]_vars, Fixed'
    PROVE  /\ Fixed /\ UNCHANGED tree
           /\ \A i, n : FileAt(tree, i, n)' = FileAt(tree, i, n)
           /\ \A i : Highest(i)' = Highest(i)
           /\ \A op, i : Nothing(op, i)' = Nothing(op, i)
<1>1. edits' = edits
  BY LookupForms DEF Outside, Next, Create, Search, LoadInfo, Created, Edit, vars
<1>2. edits = {}
  BY <1>1 DEF Fixed
<1>3. Fixed /\ UNCHANGED tree
  BY <1>1, <1>2, LookupForms
     DEF Fixed, Outside, Next, Create, Search, LoadInfo, Created, Edit, vars
<1> QED BY <1>3 DEF FileAt, Highest, Readable, Lacking, First, Nothing

(* A free index filled with what belongs there leaves the cache right.     *)
LEMMA FilledRight ==
    ASSUME CacheOK, CachedRight, UNCHANGED tree, \A j : Highest(j)' = Highest(j),
           NEW i \in Places, i \notin DOMAIN items, NEW c \in Contents,
           NEW how \in {"pvss", "pvs"}, Filled(i, c, how),
           c = IF how = "pvss" THEN tree[i] ELSE Highest(i)
    PROVE  CachedRight'
<1>1. /\ \A j \in DOMAIN items : items'[j] = items[j] /\ filler'[j] = filler[j]
      /\ \A j \in DOMAIN items' \ DOMAIN items : j = i /\ items'[j] = c /\ filler'[j] = how
  BY FillCache
<1>2. ASSUME NEW j \in DOMAIN items'
      PROVE  /\ filler'[j] = "pvss" => items'[j] = tree'[j]
             /\ filler'[j] = "pvs" => items'[j] = Highest(j)'
  <2>1. CASE j \in DOMAIN items
    BY <1>1, <2>1 DEF CachedRight
  <2>2. CASE j \notin DOMAIN items
    BY <1>1, <2>2
  <2> QED BY <2>1, <2>2
<1> QED BY <1>2 DEF CachedRight

LEMMA LookupRight ==
    ASSUME TypeOK, FetchOK, Lookup, CachedRight, Passed, AnswerFits, UNCHANGED tree,
           \A i, n : FileAt(tree, i, n)' = FileAt(tree, i, n),
           \A i : Highest(i)' = Highest(i),
           \A op, i : Nothing(op, i)' = Nothing(op, i)
    PROVE  CachedRight' /\ Passed' /\ AnswerFits'
<1>1. CacheOK /\ FetchTypeOK
  BY DEF TypeOK, CacheOK, FetchTypeOK
<1>2. ASSUME Unfilled PROVE CachedRight'
  BY <1>2 DEF Unfilled, CachedRight
<1>3. phase' = "ready" => Passed'
  BY DEF Passed
<1>4. ASSUME NEW op, NEW i, NEW c, Answered(op, i, Ok(c)), i \in DOMAIN items', items'[i] = c
      PROVE  AnswerFits'
  BY <1>4 DEF Answered, Ok, AnswerFits
<1>5. ASSUME NEW op, NEW i, Answered(op, i, Error), op \in {"pvss", "pvs"} => Nothing(op, i)
      PROVE  AnswerFits'
  BY <1>5 DEF Answered, Error, AnswerFits
<1>6. ASSUME NEW op \in Ops, NEW i \in Places, Cached(op, i)
      PROVE  CachedRight' /\ Passed' /\ AnswerFits'
  BY <1>2, <1>3, <1>4, <1>6 DEF Cached, Idle, Unfilled
<1>7. ASSUME NEW i \in Places, FoundExact(i) PROVE CachedRight' /\ Passed' /\ AnswerFits'
  <2>1. /\ i \notin DOMAIN items /\ tree[i] \in Contents /\ Filled(i, tree[i], "pvss")
        /\ Answered("pvss", i, Ok(tree[i])) /\ phase' = "ready"
    BY <1>7 DEF FoundExact, Idle
  <2>2. i \in DOMAIN items' /\ items'[i] = tree[i]
    BY <1>1, <2>1, FillCache
  <2>3. CachedRight'
    BY <1>1, <2>1, FilledRight
  <2> QED BY <1>3, <1>4, <2>1, <2>2, <2>3
<1>8. ASSUME NEW op \in Ops, NEW i \in Places, Lost(op, i)
      PROVE  CachedRight' /\ Passed' /\ AnswerFits'
  <2>1. op \in {"pvss", "pvs"} => Nothing(op, i)
    BY <1>8 DEF Lost, Nothing
  <2> QED BY <1>2, <1>3, <1>5, <1>8, <2>1 DEF Lost, Idle
<1>9. ASSUME NEW op \in Ops, NEW i \in Places, Begun(op, i)
      PROVE  CachedRight' /\ Passed' /\ AnswerFits'
  <2>1. fetch'.level = 1 /\ Unfilled /\ UNCHANGED answer
    BY <1>9 DEF Begun
  <2>2. Passed'
    BY <2>1 DEF Passed
  <2>3. AnswerFits'
    BY <2>1 DEF AnswerFits, Unfilled
  <2> QED BY <1>2, <2>1, <2>2, <2>3
<1>10. ASSUME LevelFound PROVE CachedRight' /\ Passed' /\ AnswerFits'
  <2>1. /\ fetch.index \in Places /\ fetch.index \notin DOMAIN items /\ fetch.level \in 1 .. 4
        /\ \A m \in 1 .. (fetch.level - 1) : FileAt(tree, fetch.index, m) \notin Contents
        /\ Here \in Contents /\ Filled(fetch.index, Here, "pvs") /\ phase' = "ready"
        /\ Answered(fetch.op, fetch.index, Ok(Here))
    BY <1>1, <1>10 DEF LevelFound, FetchTypeOK, FetchOK, Passed, Ended
  <2>2. Here = Highest(fetch.index)
    BY <2>1, HighestAt DEF Here
  <2>3. fetch.index \in DOMAIN items' /\ items'[fetch.index] = Here
    BY <1>1, <2>1, FillCache
  <2>4. CachedRight'
    BY <1>1, <2>1, <2>2, FilledRight
  <2> QED BY <1>3, <1>4, <2>1, <2>3, <2>4
<1>11. ASSUME LevelLast PROVE CachedRight' /\ Passed' /\ AnswerFits'
  <2>1. \A m \in 1 .. 4 : FileAt(tree, fetch.index, m) \notin Contents
    BY <1>11 DEF LevelLast, Passed, Here
  <2>2. Readable(fetch.index) = {}
    BY <2>1 DEF Readable, Lacking
  <2>3. fetch.op # "pvss"
    BY <1>1, <1>11 DEF LevelLast, FetchTypeOK
  <2>4. Nothing(fetch.op, fetch.index)
    BY <2>2, <2>3 DEF Nothing
  <2> QED BY <1>2, <1>3, <1>5, <1>11, <2>4 DEF LevelLast, Ended
<1>12. ASSUME LevelLacks PROVE CachedRight' /\ Passed' /\ AnswerFits'
  <2>1. /\ fetch.level \in 1 .. 4 /\ Here \notin Contents
        /\ \A m \in 1 .. (fetch.level - 1) : FileAt(tree, fetch.index, m) \notin Contents
        /\ fetch' = [fetch EXCEPT !.level = @ + 1] /\ Unfilled /\ UNCHANGED answer
    BY <1>1, <1>12 DEF LevelLacks, FetchTypeOK, Passed
  <2>2. fetch'.index = fetch.index /\ fetch'.level = fetch.level + 1
    BY <1>1, <1>12, <2>1 DEF FetchTypeOK, LevelLacks
  <2>3. Passed'
    BY <2>1, <2>2 DEF Passed, Here
  <2>4. AnswerFits'
    BY <2>1 DEF AnswerFits, Unfilled
  <2> QED BY <1>2, <2>1, <2>3, <2>4
<1> QED BY <1>6, <1>7, <1>8, <1>9, <1>10, <1>11, <1>12, LookupForms

LEMMA NextAnswers == TypeOK /\ FetchOK /\ AnswersInv /\ [Next]_vars => AnswersInv'
<1> SUFFICES ASSUME TypeOK, FetchOK, AnswersInv, [Next]_vars, Fixed'
             PROVE  (CachedRight /\ Passed /\ AnswerFits)'
  BY DEF AnswersInv
<1>1. /\ Fixed /\ UNCHANGED tree
      /\ \A i, n : FileAt(tree, i, n)' = FileAt(tree, i, n)
      /\ \A i : Highest(i)' = Highest(i)
      /\ \A op, i : Nothing(op, i)' = Nothing(op, i)
  BY FixedFiles
<1>2. CachedRight /\ Passed /\ AnswerFits
  BY <1>1 DEF AnswersInv
<1>3. CASE Lookup
  BY <1>1, <1>2, <1>3, LookupRight
<1>4. CASE ~Lookup
  <2>1. UNCHANGED <<items, filler, answer>>
    BY <1>4, OthersKeepCache
  <2>2. CachedRight'
    BY <1>1, <1>2, <2>1 DEF CachedRight
  <2>3. phase' = "fetch" => UNCHANGED <<phase, fetch>>
    BY <1>4, OthersKeepFetch
  <2>4. Passed'
    BY <1>1, <1>2, <2>3 DEF Passed
  <2> QED BY <1>1, <1>2, <2>1, <2>2, <2>4 DEF AnswerFits
<1> QED BY <1>3, <1>4

(* With files that stay as they are, a lookup answers with what the tree   *)
(* has, or the best it has, unless the other kind filled the item before,  *)
(* and fails only when there is nothing.                                   *)
THEOREM AnswersAreRight == Spec => []AnswersRight
<1>1. AnswersInv => AnswersRight
  BY DEF AnswersInv, AnswersRight, CachedRight, AnswerFits, Nothing
<1> QED BY SpecTypes, InitAnswers, NextAnswers, <1>1, PTL DEF Spec
---------------------------------------------------------------------------
(* The construction, while the files stay as they are: every file that     *)
(* declares a product ID is still to load or has been heard, and what is   *)
(* known of an ID comes from a file that declares it.                      *)
Dirs == Pvs \X Security
File(p) == TreeAt(p[1], p[2], InfoPath)
Source(p, pid) == p \in Dirs /\ Declares(p, pid) /\ InfoOf[File(p)].pvs = targetInfo[pid]

Heard ==
    phase \in {"load", "ready", "fetch"} =>
      \A p \in Dirs, pid \in Pids :
        Declares(p, pid) => p \in hits \/ pid \in DOMAIN targetInfo
Sourced == \A pid \in DOMAIN targetInfo : \E p \in Dirs : Source(p, pid)
Emptied == phase \in {"ready", "fetch"} => hits = {}

InfoInv == Fixed => Heard /\ Sourced /\ Emptied

LEMMA InitInfo == Init => InfoInv
<1> SUFFICES ASSUME Init PROVE Heard /\ Sourced /\ Emptied
  BY DEF InfoInv
<1>1. DOMAIN targetInfo = {}
  BY DEF Init, Empty
<1>2. phase = "search"
  BY DEF Init
<1> QED BY <1>1, <1>2 DEF Heard, Sourced, Emptied

(* A file read adds what it declares, and leaves the rest known.           *)
LEMMA LoadAdds ==
    ASSUME Heard, Sourced, LoadInfo, UNCHANGED tree, hits \subseteq Dirs
    PROVE  Heard' /\ Sourced' /\ Emptied'
<1>1. PICK q \in hits :
        /\ hits' = hits \ {q}
        /\ \/ phase' = "failed" /\ UNCHANGED targetInfo
           \/ /\ File(q) \in Contents
              /\ targetInfo' = IF InfoOf[File(q)] = Invalid THEN targetInfo
                               ELSE Set(targetInfo, InfoOf[File(q)].pid, InfoOf[File(q)].pvs)
              /\ UNCHANGED phase
  BY DEF LoadInfo, Rest, File
<1>2. q \in Dirs /\ phase = "load"
  BY <1>1 DEF LoadInfo
<1>3. /\ \A p : File(p)' = File(p)
      /\ \A p, pid : Declares(p, pid)' = Declares(p, pid)
  BY DEF File, Declares, TreeAt
<1>4. CASE UNCHANGED targetInfo /\ phase' = "failed"
  <2>1. Sourced'
    BY <1>3, <1>4 DEF Sourced, Source
  <2> QED BY <1>4, <2>1 DEF Heard, Emptied
<1>5. CASE UNCHANGED <<targetInfo, phase>> /\ InfoOf[File(q)] = Invalid
  <2>1. Sourced'
    BY <1>3, <1>5 DEF Sourced, Source
  <2>2. \A pid : ~Declares(q, pid)
    BY <1>5 DEF Declares, File
  <2>3. Heard'
    BY <1>1, <1>2, <1>3, <1>5, <2>2 DEF Heard
  <2> QED BY <1>2, <1>5, <2>1, <2>3 DEF Emptied
<1>6. CASE /\ File(q) \in Contents /\ InfoOf[File(q)] # Invalid /\ UNCHANGED phase
           /\ targetInfo' = Set(targetInfo, InfoOf[File(q)].pid, InfoOf[File(q)].pvs)
  <2> DEFINE new == InfoOf[File(q)].pid
  <2>1. /\ DOMAIN targetInfo' = DOMAIN targetInfo \cup {new}
        /\ targetInfo'[new] = InfoOf[File(q)].pvs
        /\ \A pid \in DOMAIN targetInfo : pid # new => targetInfo'[pid] = targetInfo[pid]
    BY <1>6 DEF Set
  <2>2. Declares(q, new) /\ \A pid : Declares(q, pid) => pid = new
    BY <1>6 DEF Declares, File
  <2> HIDE DEF new
  <2>3. Heard'
    <3>1. \A p \in Dirs, pid \in Pids :
            Declares(p, pid) => p \in hits \/ pid \in DOMAIN targetInfo
      BY <1>2 DEF Heard
    <3>2. ASSUME NEW p \in Dirs, NEW pid \in Pids, Declares(p, pid)'
          PROVE  p \in hits' \/ pid \in DOMAIN targetInfo'
      BY <1>1, <1>3, <2>1, <2>2, <3>1, <3>2
    <3> QED BY <3>2 DEF Heard
  <2>4. ASSUME NEW pid \in DOMAIN targetInfo' PROVE \E p \in Dirs : Source(p, pid)'
    <3>1. CASE pid = new
      BY <1>2, <1>3, <2>1, <2>2, <3>1 DEF Source
    <3>2. CASE pid # new
      <4>1. PICK p \in Dirs : Source(p, pid)
        BY <2>1, <3>2 DEF Sourced
      <4> QED BY <1>3, <2>1, <3>2, <4>1 DEF Source
    <3> QED BY <3>1, <3>2
  <2> QED BY <1>2, <1>6, <2>3, <2>4 DEF Sourced, Emptied
<1> QED BY <1>1, <1>4, <1>5, <1>6

LEMMA NextInfo == TypeOK /\ InfoInv /\ [Next]_vars => InfoInv'
<1> SUFFICES ASSUME TypeOK, InfoInv, [Next]_vars, Fixed' PROVE (Heard /\ Sourced /\ Emptied)'
  BY DEF InfoInv
<1>1. Fixed /\ UNCHANGED tree
  BY FixedFiles
<1>2. Heard /\ Sourced /\ Emptied
  BY <1>1 DEF InfoInv
<1>3. /\ \A p : File(p)' = File(p)
      /\ \A p, pid : Declares(p, pid)' = Declares(p, pid)
  BY <1>1 DEF File, Declares, TreeAt
<1>4. ASSUME UNCHANGED <<phase, hits, targetInfo>> PROVE (Heard /\ Sourced /\ Emptied)'
  <2>1. Heard'
    BY <1>2, <1>3, <1>4 DEF Heard
  <2>2. Sourced'
    BY <1>2, <1>3, <1>4 DEF Sourced, Source
  <2> QED BY <1>2, <1>4, <2>1, <2>2 DEF Emptied
<1>5. CASE Search
  <2>1. /\ phase' = "load" /\ UNCHANGED targetInfo
        /\ hits' = {p \in Dirs : File(p) # Missing}
    BY <1>5 DEF Search, Dirs, File
  <2>2. \A p, pid : Declares(p, pid) => File(p) # Missing
    BY CollateralAssumption DEF Declares, File
  <2>3. Heard'
    BY <1>3, <2>1, <2>2 DEF Heard
  <2>4. Sourced'
    BY <1>2, <1>3, <2>1 DEF Sourced, Source
  <2> QED BY <2>1, <2>3, <2>4 DEF Emptied
<1>6. CASE LoadInfo
  BY <1>1, <1>2, <1>6, LoadAdds DEF TypeOK, Dirs
<1>7. CASE Created
  <2>1. phase = "load" /\ phase' = "ready" /\ hits = {} /\ UNCHANGED <<hits, targetInfo>>
    BY <1>7 DEF Created
  <2>2. Heard'
    BY <1>2, <1>3, <2>1 DEF Heard
  <2>3. Sourced'
    BY <1>2, <1>3, <2>1 DEF Sourced, Source
  <2> QED BY <2>1, <2>2, <2>3 DEF Emptied
<1>8. CASE Lookup
  <2>1. phase \in {"ready", "fetch"} /\ phase' \in {"ready", "fetch"}
        /\ UNCHANGED <<hits, targetInfo>>
    BY <1>8, LookupPhases
  <2>2. Sourced'
    BY <1>2, <1>3, <2>1 DEF Sourced, Source
  <2> QED BY <1>2, <1>3, <2>1, <2>2 DEF Heard, Emptied
<1>9. CASE Edit
  BY <1>4, <1>9 DEF Edit
<1>10. CASE UNCHANGED vars
  BY <1>4, <1>10 DEF vars
<1> QED BY <1>5, <1>6, <1>7, <1>8, <1>9, <1>10 DEF Next, Create

(* A manager created on files that stay as they are knows exactly the      *)
(* product IDs some file declares, each as a product one of them names,    *)
(* whatever the order the files were loaded in.                            *)
THEOREM ProductsAreKnown == Spec => []ProductsKnown
<1>1. TypeOK /\ InfoInv => ProductsKnown
  <2> SUFFICES ASSUME TypeOK, InfoInv, Fixed, phase = "ready", NEW pid \in Pids
               PROVE  (\E p \in Dirs : Declares(p, pid)) <=>
                      /\ pid \in DOMAIN targetInfo
                      /\ \E p \in Dirs : Source(p, pid)
    BY DEF ProductsKnown, Dirs, Source, File
  <2>1. Heard /\ Sourced /\ hits = {}
    BY DEF InfoInv, Emptied
  <2>2. \A p \in Dirs : Declares(p, pid) => pid \in DOMAIN targetInfo
    BY <2>1 DEF Heard
  <2> QED BY <2>1, <2>2 DEF Sourced, Source
<1> QED BY TypeCorrect, InitInfo, NextInfo, <1>1, PTL DEF Spec
=============================================================================
