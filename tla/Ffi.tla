-------------------------------- MODULE Ffi --------------------------------
(***************************************************************************)
(* The C interface (ffi.rs): objects are allocated for a caller that has   *)
(* to give each of them back, by a release function or, for an iterator,   *)
(* by asking until there is nothing left.                                  *)
(*                                                                         *)
(* The caller keeps to the safety sections of the documentation and to the *)
(* lifetime in CrashLogNodeChildren<'a>, and makes its calls in any order. *)
(* A call that returns NULL, zero or false and changes nothing, as those   *)
(* given NULL for a crash log, a list of them, a node, an iterator or an   *)
(* export do, is a stuttering step; so is the read of the value of a node. *)
(* No call checks a data pointer, a buffer or a path, and only             *)
(* crashlog_decode the context; the safety sections rule NULL out there.   *)
(***************************************************************************)
EXTENDS Integers, Sequences

CONSTANTS
    Logs,       \* crash logs
    EventLogs,  \* sequences of crash logs the Windows event log may hold
    Bytes,
    Cper,       \* the bytes of a crash log as CPER
    Json,       \* the bytes of the tree of a crash log as JSON
    Names,      \* the names of nodes, sequences of bytes other than nul
    Trees,      \* the tree of a crash log: the names of the children of the
                \* node at each path, in the order of the map
    Handles,    \* addresses; as many objects as there are exist at once
    MaxBuffer,  \* the largest buffer the caller passes
    Word        \* usize is Word values wide

ASSUME FfiAssumption ==
    /\ EventLogs \subseteq Seq(Logs)
    /\ Cper \in [Logs -> Seq(Bytes)]
    /\ Json \in [Logs -> Seq(Bytes)]
    /\ DOMAIN Trees = Logs
    /\ \A l \in Logs :
         /\ << >> \in DOMAIN Trees[l]
         /\ \A p \in DOMAIN Trees[l] :
              /\ p \in Seq(Names) /\ Trees[l][p] \in Seq(Names)
              /\ \A i \in DOMAIN Trees[l][p] : Append(p, Trees[l][p][i]) \in DOMAIN Trees[l]
    /\ Names \subseteq Seq(Bytes)
    /\ Word \in Nat /\ MaxBuffer \in 0 .. Word - 1

VARIABLES
    heap,     \* what is allocated: Handles to objects
    held,     \* history: what the documentation says the caller has to dispose of
    node,     \* the nodes the caller has, at most one that is no root
    story,    \* history: what an iterator or export holds, all, and has given, got
    said,     \* history: what the last call has told the caller
    closing,  \* the caller does nothing but dispose of what it holds
    aborted   \* a panic cannot cross the C interface

vars == <<heap, held, node, story, said, closing, aborted>>

Context == [kind |-> "context"]
CrashLog(l) == [kind |-> "crashlog", log |-> l]
CrashLogs(s) == [kind |-> "crashlogs", left |-> s]
Tree(l) == [kind |-> "tree", log |-> l]
Export(s) == [kind |-> "export", left |-> s]
Children(t, p, s) == [kind |-> "children", tree |-> t, path |-> p, left |-> s]

Iterators == {"crashlogs", "children"}
(* What the caller can pass on. *)
Of(kinds) == {h \in held \cap DOMAIN heap : heap[h].kind \in kinds}

With(f, h, v) == [x \in DOMAIN f \cup {h} |-> IF x = h THEN v ELSE f[x]]
Without(f, h) == [x \in DOMAIN f \ {h} |-> f[x]]

Quiet == [call |-> "quiet"]

Init ==
    /\ heap = [h \in {} |-> Context]
    /\ held = {}
    /\ node = {}
    /\ story = [h \in {} |-> << >>]
    /\ said = Quiet
    /\ closing = FALSE
    /\ aborted = FALSE

---------------------------------------------------------------------------
(* alloc: which of the free addresses it is makes no difference. One of    *)
(* them is left to the crash logs that iterators still hold.               *)
Free == Handles \ DOMAIN heap
New == CHOOSE h \in Free : TRUE
Room == \E g, h \in Free : g # h

InContext == Of({"context"}) # {}

(* A call that returns a new object. *)
Open(object) ==
    /\ ~closing
    /\ Room
    /\ heap' = With(heap, New, object)
    /\ held' = held \cup {New}
    /\ said' = Quiet

(* crashlog_init *)
InitContext == Open(Context) /\ UNCHANGED <<node, story>>

(* crashlog_read_from_*: whatever the source, the result is a crash log *)
Read ==
    /\ InContext
    /\ \E l \in Logs : Open(CrashLog(l))
    /\ UNCHANGED <<node, story>>

(* crashlog_read_from_windows_event_logs *)
ReadEventLogs ==
    /\ InContext
    /\ \E s \in EventLogs :
         /\ Open(CrashLogs(s))
         /\ story' = With(story, New, [all |-> s, got |-> << >>])
    /\ UNCHANGED node

(* crashlog_decode; the root is a node the caller has. *)
Decode ==
    /\ InContext
    /\ \E h \in Of({"crashlog"}) :
         /\ Open(Tree(heap[h].log))
         /\ node' = node \cup {[tree |-> New, path |-> << >>]}
    /\ UNCHANGED story

OpenExport(bytes) ==
    /\ InContext
    /\ Open(Export(bytes))
    /\ story' = With(story, New, [all |-> bytes, got |-> << >>])
    /\ UNCHANGED node

(* crashlog_export_to_cper, crashlog_export_to_json *)
ExportToCper == \E h \in Of({"crashlog"}) : OpenExport(Cper[heap[h].log])
ExportToJson == \E h \in Of({"tree"}) : OpenExport(Json[heap[h].log])

TreeOf(nd) == Trees[heap[nd.tree].log]

(* crashlog_get_node_children *)
GetChildren ==
    /\ InContext
    /\ \E nd \in node :
         LET names == TreeOf(nd)[nd.path] IN
         /\ Open(Children(nd.tree, nd.path, names))
         /\ story' = With(story, New, [all |-> names, got |-> << >>])
    /\ UNCHANGED node

---------------------------------------------------------------------------
(* The iterators *)

(* mutant: the iterator is not freed when it has ended *)
PoppedNotFreed(h) ==
    IF heap[h].left = << >> THEN heap ELSE [heap EXCEPT ![h].left = Tail(@)]

(* mutant: the iterator is freed with the last thing it returns *)
PoppedEarly(h) ==
    IF Len(heap[h].left) <= 1 THEN Without(heap, h)
    ELSE [heap EXCEPT ![h].left = Tail(@)]

(* mutant: the first thing is looked at and stays where it is *)
Peeked(h) ==
    IF heap[h].left = << >> THEN Without(heap, h)
    ELSE IF heap[h].kind = "crashlogs" THEN [heap EXCEPT ![h].left = Tail(@)] ELSE heap

(* What the next call makes of an iterator. *)
Popped(h) ==
    IF heap[h].left = << >> THEN Without(heap, h)
    ELSE [heap EXCEPT ![h].left = Tail(@)]

(* NULL: the caller must not use the iterator again. *)
Ends(h) ==
    /\ heap[h].left = << >>
    /\ heap' = Popped(h)
    /\ held' = held \ {h}
    /\ said' = [call |-> "next", all |-> story[h].all, got |-> story[h].got]
    /\ story' = Without(story, h)
    /\ UNCHANGED node

Gives(h) ==
    /\ heap[h].left # << >>
    /\ story' = [story EXCEPT ![h].got = Append(@, Head(heap[h].left))]
    /\ said' = Quiet

(* crashlog_next *)
NextLog(h) ==
    /\ InContext
    /\ h \in Of({"crashlogs"})
    /\ \/ Ends(h)
       \/ /\ Gives(h)
          /\ Free # {}
          /\ heap' = With(Popped(h), New, CrashLog(Head(heap[h].left)))
          /\ held' = held \cup {New}
          /\ UNCHANGED node

Roots == {nd \in node : nd.path = << >>}

(* crashlog_get_next_node_child *)
NextChild(h) ==
    /\ InContext
    /\ h \in Of({"children"})
    /\ \/ Ends(h)
       \/ /\ Gives(h)
          /\ heap' = Popped(h)
          /\ node' = Roots \cup {[tree |-> heap[h].tree,
                                  path |-> Append(heap[h].path, Head(heap[h].left))]}
          /\ UNCHANGED held

---------------------------------------------------------------------------
(* Reading *)

(* crashlog_get_node_by_path *)
GetByPath ==
    /\ ~closing /\ InContext
    /\ \E nd \in node :
         \E p \in DOMAIN TreeOf(nd) :
           /\ Len(p) > Len(nd.path)
           /\ SubSeq(p, 1, Len(nd.path)) = nd.path
           /\ node' = Roots \cup {[tree |-> nd.tree, path |-> p]}
    /\ said' = Quiet
    /\ UNCHANGED <<heap, held, story>>

(* How much a buffer of this size takes. *)
Chunk(bytes, size) == IF Len(bytes) < size THEN Len(bytes) ELSE size

(* mutant: the byte that no longer fits has been popped all the same *)
RestBehindByte(bytes, size) == SubSeq(bytes, Chunk(bytes, size) + 2, Len(bytes))

(* What is left in the export. *)
Rest(bytes, size) == SubSeq(bytes, Chunk(bytes, size) + 1, Len(bytes))

(* crashlog_read_export: what the caller gets is what is in its buffer, as *)
(* far as the count returned.                                              *)
ReadExport ==
    /\ ~closing /\ InContext
    /\ \E h \in Of({"export"}), size \in 0 .. MaxBuffer :
         LET bytes == heap[h].left
             got == story[h].got \o SubSeq(bytes, 1, Chunk(bytes, size)) IN
         /\ heap' = [heap EXCEPT ![h].left = Rest(bytes, size)]
         /\ story' = [story EXCEPT ![h].got = got]
         /\ said' = IF Chunk(bytes, size) = 0 /\ size > 0
                    THEN [call |-> "read", all |-> story[h].all, got |-> got] ELSE Quiet
    /\ UNCHANGED <<held, node>>

NameOf(nd) == IF nd.path = << >> THEN << >> ELSE nd.path[Len(nd.path)]

(* mutant: no place is kept for the nul *)
NulBehind(name, size) == IF Len(name) < size THEN Len(name) ELSE size

(* The place of the nul. *)
NulAt(name, size) ==
    LET room == (size - 1) % Word IN IF Len(name) < room THEN Len(name) ELSE room

(* crashlog_get_node_name: the write of the nul is checked against the     *)
(* size of the buffer, and without one it panics.                          *)
GetName ==
    /\ ~closing /\ InContext
    /\ \E nd \in node, size \in 0 .. MaxBuffer :
         LET name == NameOf(nd)
             end == NulAt(name, size)
         IN /\ aborted' = (end >= size)
            /\ said' = [call |-> "name", name |-> name, size |-> size,
                        text |-> IF end >= size THEN << >> ELSE SubSeq(name, 1, end),
                        needs |-> Len(name) + 1]
    /\ UNCHANGED <<heap, held, node, story, closing>>

---------------------------------------------------------------------------
(* Giving back *)

(* While its tree is in use by an iterator, the caller keeps it. *)
Lent(h) == \E i \in Of({"children"}) : heap[i].tree = h

(* crashlog_release, crashlog_release_nodes, crashlog_release_export *)
Release(h) ==
    /\ h \in Of({"crashlog", "tree", "export"})
    /\ ~Lent(h)
    /\ heap' = Without(heap, h)
    /\ held' = held \ {h}
    /\ node' = {nd \in node : nd.tree # h}
    /\ story' = Without(story, h)
    /\ said' = Quiet

(* crashlog_deinit; a caller that is closing needs a context for iterators *)
Deinit(h) ==
    /\ h \in Of({"context"})
    /\ closing => Of(Iterators) = {}
    /\ heap' = Without(heap, h)
    /\ held' = held \ {h}
    /\ said' = Quiet
    /\ UNCHANGED <<node, story>>

Dispose(h) == NextLog(h) \/ NextChild(h) \/ Release(h) \/ Deinit(h)

(* The caller decides to make no new calls but those it owes. *)
Close ==
    /\ InContext
    /\ ~closing
    /\ closing' = TRUE
    /\ said' = Quiet
    /\ UNCHANGED <<heap, held, node, story, aborted>>

Call ==
    \/ InitContext \/ Read \/ ReadEventLogs \/ Decode
    \/ ExportToCper \/ ExportToJson \/ GetChildren
    \/ GetByPath \/ ReadExport
    \/ \E h \in Handles : Dispose(h)

Next ==
    /\ ~aborted
    /\ \/ Call /\ UNCHANGED <<closing, aborted>>
       \/ GetName
       \/ Close

(* Only of a caller that has begun to give back everything it holds. *)
GiveBack ==
    /\ ~aborted /\ closing
    /\ \E h \in Handles : Dispose(h)
    /\ UNCHANGED <<closing, aborted>>

Spec == Init /\ [][Next]_vars /\ WF_vars(GiveBack)

---------------------------------------------------------------------------
(* Properties *)

Objects ==
    {Context} \cup {CrashLog(l) : l \in Logs} \cup {Tree(l) : l \in Logs}
    \cup [kind : {"crashlogs"}, left : Seq(Logs)]
    \cup [kind : {"export"}, left : Seq(Bytes)]
    \cup [kind : {"children"}, tree : Handles, path : Seq(Names), left : Seq(Names)]

(* The variables have their types. *)
TypeOK ==
    /\ heap \in [DOMAIN heap -> Objects] /\ DOMAIN heap \subseteq Handles
    /\ held \subseteq Handles
    /\ node \subseteq [tree : Handles, path : Seq(Names)]
    /\ closing \in BOOLEAN /\ aborted \in BOOLEAN

(* What is allocated is exactly what the caller has been given and has not *)
(* given back by the rules of the documentation (ffi.rs:200, 491): nothing *)
(* leaks that it could not free, and nothing is freed under its hands. The *)
(* nodes and iterators it may use are those of trees that are still there. *)
HandlesLive ==
    /\ DOMAIN heap = held
    /\ \A nd \in node : nd.tree \in Of({"tree"}) /\ nd.path \in DOMAIN TreeOf(nd)
    /\ \A h \in Of({"children"}) : heap[h].tree \in Of({"tree"})

(* An iterator returns everything it was made for, in order and once,      *)
(* before it says that it has ended (ffi.rs:209, 501), whatever other      *)
(* iterators are used and whatever is released in between.                 *)
IteratesAll ==
    /\ \A h \in Of(Iterators) :
         \E k \in 0 .. Len(story[h].all) : story[h].got = SubSeq(story[h].all, 1, k)
    /\ said.call = "next" => said.got = said.all

(* The pieces read from an export, with buffers of any sizes, make up the  *)
(* export, and zero from a buffer that is not empty means that they are    *)
(* all of it (ffi.rs:342), though the crash log may have been released.    *)
ExportWhole ==
    /\ \A h \in Of({"export"}) :
         \E k \in 0 .. Len(story[h].all) : story[h].got = SubSeq(story[h].all, 1, k)
    /\ said.call = "read" => said.got = said.all

(* A buffer that is not empty gets as much of the name as fits before the  *)
(* nul, and all of it just when the size returned is no more than its own  *)
(* (ffi.rs:385): a second call with that size gets the whole name.         *)
NameFits ==
    said.call = "name" /\ said.size > 0 =>
        /\ ~aborted
        /\ Len(said.text) < said.size
        /\ said.text = said.name \/ Len(said.text) = said.size - 1
        /\ said.text = SubSeq(said.name, 1, Len(said.text))
        /\ (said.needs <= said.size) = (said.text = said.name)

(* A caller that goes on asking its iterators and releasing its objects,   *)
(* trees after the iterators over them, gets everything freed.             *)
AllFreed == closing ~> (heap = [h \in {} |-> Context])
=============================================================================
