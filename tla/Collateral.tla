--------------------------- MODULE Collateral ---------------------------
(***************************************************************************)
(* CollateralManager (lib/src/collateral.rs): the product information it  *)
(* loads when it is created (collateral/target_info.rs) and the items it   *)
(* fetches from the collateral tree and keeps in one cache for its three  *)
(* lookups.                                                                *)
(*                                                                         *)
(* A store is a tree with the changes its files may undergo while the     *)
(* manager lives: none for collateral/embedded.rs, some for fs.rs.         *)
(***************************************************************************)
EXTENDS Integers, FiniteSets

CONSTANTS
    Pvs,        \* product/variant/stepping triples
    AllPvs,     \* all/all/all
    Paths,      \* item paths
    InfoPath,   \* the path target_info.json
    Contents,   \* contents of an item
    Missing,    \* what the tree answers: no such item ...
    Unreadable, \* ... or an item that cannot be read
    Pids,       \* product IDs found in record headers
    InfoOf,     \* [Contents -> [pid, pvs] or Invalid], serde_json::from_slice
    Invalid,
    Stores,     \* what the manager may be created on: [tree, edits], an edit
                \* being [place, answer]
    Asked       \* the places the callers ask for

(* The security levels, in the order fetch_item tries them.                *)
Levels == <<"red", "white", "green", "all">>
Security == {Levels[i] : i \in 1 .. 4}

Places == Pvs \X Security \X Paths
Answers == Contents \cup {Missing, Unreadable}

ASSUME CollateralAssumption ==
    /\ AllPvs \in Pvs
    /\ InfoPath \in Paths
    /\ Missing \notin Contents /\ Unreadable \notin Contents /\ Missing # Unreadable
    /\ \A s \in Stores :
         /\ s.tree \in [Places -> Answers]
         /\ \A e \in s.edits : e.place \in Places /\ e.answer \in Answers
    /\ Asked \subseteq Places
    /\ \A c \in Contents : InfoOf[c] # Invalid =>
         InfoOf[c].pid \in Pids /\ InfoOf[c].pvs \in Pvs

VARIABLES
    tree,        \* the collateral tree, in the binary or in the file system
    edits,       \* the changes its files may undergo
    phase,       \* search, load, ready, fetch or failed
    hits,        \* the directories search returned, still to load
    targetInfo,  \* target_info: product ID -> product and variant
    items,       \* the cache: ItemIndex -> content
    filler,      \* history: the lookup that put an item in the cache
    fetch,       \* the fetch_item in progress: the level to try next
    lacked,      \* history: the levels without a file at some moment of it
    answer       \* the answer of the last lookup

vars == <<tree, edits, phase, hits, targetInfo, items, filler, fetch, lacked, answer>>

Error == [ok |-> FALSE]
NoAnswer == [op |-> "none", result |-> Error]
NoFetch == [op |-> "none"]
Ok(c) == [ok |-> TRUE, content |-> c]

Empty == [x \in {} |-> x]
Set(f, x, v) == [y \in DOMAIN f \cup {x} |-> IF y = x THEN v ELSE f[y]]

Init ==
    /\ \E s \in Stores : tree = s.tree /\ edits = s.edits
    /\ phase = "search"
    /\ hits = {}
    /\ targetInfo = Empty
    /\ items = Empty
    /\ filler = Empty
    /\ fetch = NoFetch
    /\ lacked = {}
    /\ answer = NoAnswer

---------------------------------------------------------------------------
(* CollateralTree::get. *)
TreeAt(pvs, security, path) == tree[<<pvs, security, path>>]

(* CollateralManager::new and update_target_info.                         *)

Search ==
    /\ phase = "search"
    /\ hits' = {p \in Pvs \X Security : TreeAt(p[1], p[2], InfoPath) # Missing}
    /\ phase' = "load"
    /\ UNCHANGED <<tree, edits, targetInfo, items, filler, fetch, lacked, answer>>

(* mutant: a file that does not parse ends the loop *)
RestBreaks(p, c) == IF c \in Contents /\ InfoOf[c] = Invalid THEN {} ELSE hits \ {p}

(* The directories left once c, the file found in p, has been read.        *)
Rest(p, c) == hits \ {p}

(* The hits come in the order of a hash map or of read_dir. Of two files   *)
(* with one product ID the later wins; a file that no longer reads ends    *)
(* the construction, one that does not parse is skipped.                   *)
LoadInfo ==
    /\ phase = "load"
    /\ \E p \in hits :
         LET c == TreeAt(p[1], p[2], InfoPath) IN
         /\ hits' = Rest(p, c)
         /\ \/ /\ c \notin Contents
               /\ phase' = "failed"
               /\ UNCHANGED targetInfo
            \/ /\ c \in Contents
               /\ targetInfo' = IF InfoOf[c] = Invalid THEN targetInfo
                                ELSE Set(targetInfo, InfoOf[c].pid, InfoOf[c].pvs)
               /\ UNCHANGED phase
    /\ UNCHANGED <<tree, edits, items, filler, fetch, lacked, answer>>

Created ==
    /\ phase = "load"
    /\ hits = {}
    /\ phase' = "ready"
    /\ UNCHANGED <<tree, edits, hits, targetInfo, items, filler, fetch, lacked, answer>>

---------------------------------------------------------------------------
(* The lookups.                                                           *)

Respond(op, i, r) == answer' = [op |-> op, index |-> i, result |-> r]

NoFill == UNCHANGED <<items, filler, phase, fetch, lacked>>

Hit(op, i) ==
    /\ i \in DOMAIN items
    /\ Respond(op, i, Ok(items[i]))
    /\ NoFill

(* get_item_with_pvss on an item that is not cached. *)
FetchExact(i) ==
    /\ i \notin DOMAIN items
    /\ \/ /\ tree[i] \in Contents
          /\ items' = Set(items, i, tree[i])
          /\ filler' = Set(filler, i, "pvss")
          /\ Respond("pvss", i, Ok(tree[i]))
          /\ UNCHANGED <<phase, fetch, lacked>>
       \/ /\ tree[i] \notin Contents
          /\ Respond("pvss", i, Error)
          /\ NoFill

(* fetch_item reads the levels one by one, and the files may change in     *)
(* between. The read of a level is one step: what counts is the moment the *)
(* file is opened; one that vanishes or fails on the way is an error.      *)
FileAt(t, i, n) == t[<<i[1], Levels[n], i[3]>>]
Lacking(t, i) == {n \in 1 .. 4 : FileAt(t, i, n) \notin Contents}

(* mutants: the item is fetched although it is cached; the search starts   *)
(* at the level the index asks for; it ends at an error that is no missing *)
(* item                                                                    *)
BeginAgain(op, i) ==
    /\ phase' = "fetch"
    /\ fetch' = [op |-> op, index |-> i, level |-> 1]
    /\ lacked' = Lacking(tree, i)
    /\ UNCHANGED <<items, filler, answer>>

BeginAtLevel(op, i) ==
    /\ i \notin DOMAIN items
    /\ phase' = "fetch"
    /\ fetch' = [op |-> op, index |-> i, level |-> CHOOSE n \in 1 .. 4 : Levels[n] = i[2]]
    /\ lacked' = Lacking(tree, i)
    /\ UNCHANGED <<items, filler, answer>>

BeginFetch(op, i) ==
    /\ i \notin DOMAIN items
    /\ phase' = "fetch"
    /\ fetch' = [op |-> op, index |-> i, level |-> 1]
    /\ lacked' = Lacking(tree, i)
    /\ UNCHANGED <<items, filler, answer>>

FetchEnds == phase' = "ready" /\ fetch' = NoFetch /\ lacked' = {}

LastLevelOrError ==
    fetch.level = 4 \/ FileAt(tree, fetch.index, fetch.level) = Unreadable
LastLevel == fetch.level = 4

FetchLevel ==
    /\ phase = "fetch"
    /\ LET i == fetch.index  c == FileAt(tree, i, fetch.level) IN
       \/ /\ c \in Contents
          /\ items' = Set(items, i, c)
          /\ filler' = Set(filler, i, "pvs")
          /\ Respond(fetch.op, i, Ok(c))
          /\ FetchEnds
       \/ /\ c \notin Contents
          /\ \/ /\ LastLevel
                /\ Respond(fetch.op, i, Error)
                /\ FetchEnds
             \/ /\ ~LastLevel
                /\ fetch' = [fetch EXCEPT !.level = @ + 1]
                /\ UNCHANGED <<phase, lacked, answer>>
          /\ UNCHANGED <<items, filler>>
    /\ UNCHANGED <<tree, edits, hits, targetInfo>>

GetWithPvss(i) ==
    /\ phase = "ready"
    /\ Hit("pvss", i) \/ FetchExact(i)
    /\ UNCHANGED <<tree, edits, hits, targetInfo>>

GetWithPvs(i) ==
    /\ phase = "ready"
    /\ Hit("pvs", i) \/ BeginFetch("pvs", i)
    /\ UNCHANGED <<tree, edits, hits, targetInfo>>

(* Header::pvss: product ID 0 stands for every product, an ID without a    *)
(* target_info file is an error.                                           *)
PvssOf(pid) == IF pid \in DOMAIN targetInfo THEN {targetInfo[pid]}
               ELSE IF pid = 0 THEN {AllPvs} ELSE {}

GetWithHeader(pid, path) ==
    /\ phase = "ready"
    /\ \/ \E p \in PvssOf(pid) :
            LET i == <<p, "all", path>> IN
            Hit("header", i) \/ BeginFetch("header", i)
       \/ /\ PvssOf(pid) = {}
          /\ Respond("header", <<AllPvs, "all", path>>, Error)
          /\ NoFill
    /\ UNCHANGED <<tree, edits, hits, targetInfo>>

---------------------------------------------------------------------------
(* The environment: a file is written, removed or becomes unreadable, at   *)
(* any time, the middle of a lookup included.                              *)
Edit ==
    /\ \E e \in edits : tree' = [tree EXCEPT ![e.place] = e.answer]
    /\ lacked' = IF phase = "fetch" THEN lacked \cup Lacking(tree', fetch.index) ELSE lacked
    /\ UNCHANGED <<edits, phase, hits, targetInfo, items, filler, fetch, answer>>

Create == Search \/ LoadInfo \/ Created

Lookup == \/ \E i \in Asked : GetWithPvss(i) \/ GetWithPvs(i)
          \/ \E pid \in Pids, path \in {i[3] : i \in Asked} : GetWithHeader(pid, path)
          \/ FetchLevel

Next == Create \/ Lookup \/ Edit

Spec == Init /\ [][Next]_vars

---------------------------------------------------------------------------
(* Type invariant. *)
TypeOK ==
    /\ tree \in [Places -> Answers]
    /\ \A e \in edits : e.place \in Places /\ e.answer \in Answers
    /\ phase \in {"search", "load", "ready", "fetch", "failed"}
    /\ hits \subseteq Pvs \X Security
    /\ DOMAIN targetInfo \subseteq Pids
    /\ \A pid \in DOMAIN targetInfo : targetInfo[pid] \in Pvs
    /\ DOMAIN items \subseteq Places
    /\ \A i \in DOMAIN items : items[i] \in Contents
    /\ DOMAIN filler = DOMAIN items
    /\ \A i \in DOMAIN filler : filler[i] \in {"pvss", "pvs"}
    /\ phase = "fetch" =>
         fetch \in [op : {"pvs", "header"}, index : Places, level : 1 .. 4]

(* An item, once given out, is the same for the life of the manager: no   *)
(* lookup of any kind replaces or drops a cached item, though the files   *)
(* change (collateral.rs, the contains_key checks). Decoding two records  *)
(* of one product never mixes two versions of a layout.                    *)
ItemsFrozen ==
    [][\A i \in DOMAIN items : i \in DOMAIN items' /\ items'[i] = items[i]]_vars

(* An item newly in the cache comes from the tree, under the rule of the   *)
(* lookup that filled it: get_item_with_pvss caches the item of that very  *)
(* security level, fetch_item one for which every higher level lacked at   *)
(* some moment of that lookup. A higher level that was there throughout is *)
(* never passed over, though the files change between its four reads; one  *)
(* that appears behind the loop may be (collateral.rs:143-158).            *)
FilledByRule ==
    [][\A i \in DOMAIN items' \ DOMAIN items :
         IF filler'[i] = "pvss" THEN items'[i] = tree[i]
         ELSE \E n \in 1 .. 4 : /\ items'[i] = FileAt(tree, i, n)
                                /\ 1 .. (n - 1) \subseteq lacked]_vars

(* While the files stay as they are, the answers are right unless the two  *)
(* kinds of lookup met on one index: an item that get_item_with_pvs        *)
(* fetched is the highest level there is, one that get_item_with_pvss      *)
(* fetched is the level asked for, and an error means there is nothing.    *)
Fixed == edits = {}

Readable(i) == 1 .. 4 \ Lacking(tree, i)
First(s) == CHOOSE n \in s : \A m \in s : n <= m
Highest(i) == FileAt(tree, i, First(Readable(i)))

AnswersRight ==
    Fixed /\ answer.op \in {"pvss", "pvs"} =>
        LET i == answer.index  r == answer.result IN
        /\ r.ok /\ filler[i] = answer.op =>
             r.content = IF answer.op = "pvss" THEN tree[i] ELSE Highest(i)
        /\ ~r.ok => IF answer.op = "pvss" THEN tree[i] \notin Contents
                    ELSE Readable(i) = {}

(* With fixed files, every product ID that a valid target_info file        *)
(* declares is known once the manager is created, and maps to a product    *)
(* that declares it, whatever the order of the files.                      *)
Declares(p, pid) ==
    LET c == TreeAt(p[1], p[2], InfoPath) IN
    c \in Contents /\ InfoOf[c] # Invalid /\ InfoOf[c].pid = pid

ProductsKnown ==
    Fixed /\ phase = "ready" =>
        \A pid \in Pids :
            (\E p \in Pvs \X Security : Declares(p, pid)) <=>
            /\ pid \in DOMAIN targetInfo
            /\ \E p \in Pvs \X Security :
                 /\ Declares(p, pid)
                 /\ InfoOf[TreeAt(p[1], p[2], InfoPath)].pvs = targetInfo[pid]

(* The documented promise of get_item_with_pvs: "ignores the security     *)
(* specified in the PVSS and returns the item with the highest security   *)
(* level" (collateral.rs:106-107).                                         *)
ReturnsHighest ==
    answer.op = "pvs" /\ answer.result.ok =>
        answer.result.content = Highest(answer.index)
=============================================================================
