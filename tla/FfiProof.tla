------------------------------ MODULE FfiProof ------------------------------
(***************************************************************************)
(* What the C interface owes its caller, for any crash logs and any number *)
(* of addresses. The invariants of Ffi say what a caller has seen; the     *)
(* inductive one adds what the objects still hold.                         *)
(***************************************************************************)
EXTENDS Ffi, SequenceTheorems, TLAPS

Items == Logs \cup Names \cup Bytes
Sources == {"crashlogs", "children", "export"}

TreesHeld == {h \in DOMAIN heap : heap[h].kind = "tree"}

(* Every object is held. *)
Own ==
    /\ DOMAIN heap \subseteq Handles
    /\ held = DOMAIN heap
    /\ \A h \in DOMAIN heap : heap[h] \in Objects

(* What an object has given and what it still holds make up the whole. *)
Stories ==
    /\ DOMAIN story = {h \in DOMAIN heap : heap[h].kind \in Sources}
    /\ \A h \in DOMAIN story :
         /\ story[h] \in [all : Seq(Items), got : Seq(Items)]
         /\ story[h].all = story[h].got \o heap[h].left

(* The nodes of the caller are nodes of trees. *)
Nodes == \A nd \in node : nd.tree \in TreesHeld /\ nd.path \in DOMAIN TreeOf(nd)

(* Iterators over children are over trees, and still have nodes of these. *)
Borrows ==
    \A h \in DOMAIN heap :
        heap[h].kind = "children" =>
            /\ heap[h].tree \in TreesHeld
            /\ \A i \in DOMAIN heap[h].left :
                 Append(heap[h].path, heap[h].left[i]) \in DOMAIN Trees[heap[heap[h].tree].log]

Told == said.call \in {"next", "read"} => said.got = said.all

IInv == Own /\ Stories /\ Nodes /\ Borrows /\ Told

(* An object has the fields of its kind. *)
LEMMA Kinds ==
    ASSUME NEW o \in Objects
    PROVE  /\ o.kind \in {"crashlog", "tree"} => o.log \in Logs
           /\ o.kind = "crashlogs" => o.left \in Seq(Logs)
           /\ o.kind = "export" => o.left \in Seq(Bytes)
           /\ o.kind = "children" => /\ o.tree \in Handles /\ o.path \in Seq(Names)
                                     /\ o.left \in Seq(Names)
           /\ o.kind \in Sources => o.left \in Seq(Items)
  <1>1. /\ o.kind \in {"crashlog", "tree"} => o.log \in Logs
        /\ o.kind = "crashlogs" => o.left \in Seq(Logs)
        /\ o.kind = "export" => o.left \in Seq(Bytes)
        /\ o.kind = "children" => /\ o.tree \in Handles /\ o.path \in Seq(Names)
                                  /\ o.left \in Seq(Names)
    BY DEF Objects, Context, CrashLog, Tree
  <1>2. /\ Seq(Logs) \subseteq Seq(Items) /\ Seq(Names) \subseteq Seq(Items)
        /\ Seq(Bytes) \subseteq Seq(Items)
    BY DEF Items
  <1>3. QED BY <1>1, <1>2 DEF Sources

(* The constructors build objects. *)
LEMMA Built ==
    /\ Context \in Objects
    /\ \A l \in Logs : CrashLog(l) \in Objects /\ Tree(l) \in Objects
    /\ \A s \in Seq(Logs) : CrashLogs(s) \in Objects
    /\ \A s \in Seq(Bytes) : Export(s) \in Objects
    /\ \A t \in Handles, p \in Seq(Names), s \in Seq(Names) : Children(t, p, s) \in Objects
  BY DEF Objects, Context, CrashLog, Tree, CrashLogs, Export, Children

(* alloc returns an address that is not in use. *)
LEMMA NewIsFree == ASSUME Free # {} PROVE New \in Handles /\ New \notin DOMAIN heap
  BY DEF New, Free

(* A new object disturbs no other. *)
LEMMA Opening ==
    ASSUME IInv, NEW o \in Objects, Open(o)
    PROVE  /\ Own' /\ Told'
           /\ node' = node => Nodes'
           /\ o.kind # "children" => Borrows'
           /\ o.kind \notin Sources /\ story' = story => Stories'
           /\ o.kind \in Sources /\ story' = With(story, New, [all |-> o.left, got |-> << >>])
                => Stories'
           /\ DOMAIN heap' = DOMAIN heap \cup {New} /\ heap'[New] = o
           /\ \A h \in DOMAIN heap : heap'[h] = heap[h]
  <1> DEFINE g == New
  <1>1. g \in Handles /\ g \notin DOMAIN heap
    BY NewIsFree DEF Open, Room
  <1> HIDE DEF g
  <1>2. /\ DOMAIN heap' = DOMAIN heap \cup {g}
        /\ heap'[g] = o
        /\ \A h \in DOMAIN heap : heap'[h] = heap[h]
    BY <1>1 DEF Open, With, g
  <1>3. Own'
    BY <1>1, <1>2 DEF IInv, Own, Open, g
  <1>4. Told'
    BY DEF Open, Told, Quiet
  <1>5. /\ TreesHeld \subseteq TreesHeld'
        /\ \A h \in TreesHeld : heap'[h] = heap[h]
    BY <1>2 DEF TreesHeld
  <1>6. ASSUME node' = node PROVE Nodes'
    BY <1>5, <1>6 DEF IInv, Nodes, TreeOf, TreesHeld
  <1>7. ASSUME o.kind # "children" PROVE Borrows'
    <2> SUFFICES ASSUME NEW h \in DOMAIN heap', heap'[h].kind = "children"
                 PROVE  /\ heap'[h].tree \in TreesHeld'
                        /\ \A i \in DOMAIN heap'[h].left :
                             Append(heap'[h].path, heap'[h].left[i])
                               \in DOMAIN Trees[heap'[heap'[h].tree].log]
      BY DEF Borrows
    <2>1. h \in DOMAIN heap /\ heap'[h] = heap[h]
      BY <1>2, <1>7
    <2>2. QED BY <2>1, <1>5 DEF IInv, Borrows
  <1>8. ASSUME o.kind \notin Sources, story' = story PROVE Stories'
    BY <1>1, <1>2, <1>8 DEF IInv, Stories
  <1>9. ASSUME o.kind \in Sources, story' = With(story, g, [all |-> o.left, got |-> << >>])
        PROVE  Stories'
    <2>1. g \notin DOMAIN story /\ DOMAIN story' = DOMAIN story \cup {g}
      BY <1>1, <1>9 DEF IInv, Stories, With
    <2>2. story'[g] = [all |-> o.left, got |-> << >>]
      BY <1>9, <2>1 DEF With
    <2>3. \A h \in DOMAIN story : story'[h] = story[h] /\ heap'[h] = heap[h]
      BY <1>2, <1>9, <2>1 DEF With, IInv, Stories
    <2>4. /\ << >> \in Seq(Items) /\ o.left \in Seq(Items)
          /\ o.left = << >> \o o.left
      BY <1>9, Kinds
    <2>5. DOMAIN story' = {h \in DOMAIN heap' : heap'[h].kind \in Sources}
      BY <2>1, <1>2, <1>9 DEF IInv, Stories
    <2>6. ASSUME NEW h \in DOMAIN story'
          PROVE  /\ story'[h] \in [all : Seq(Items), got : Seq(Items)]
                 /\ story'[h].all = story'[h].got \o heap'[h].left
      <3>1. CASE h = g
        <4>1. story'[h].all = o.left BY <3>1, <2>2
        <4>2. story'[h].got = << >> BY <3>1, <2>2
        <4>3. heap'[h].left = o.left BY <3>1, <1>2
        <4>4. story'[h] \in [all : Seq(Items), got : Seq(Items)] BY <3>1, <2>2, <2>4
        <4>5. QED BY <4>1, <4>2, <4>3, <4>4, <2>4
      <3>2. CASE h # g
        BY <3>2, <2>1, <2>3, <2>6 DEF IInv, Stories
      <3>3. QED BY <3>1, <3>2
    <2>7. QED BY <2>5, <2>6 DEF Stories
  <1>10. QED BY <1>2, <1>3, <1>4, <1>6, <1>7, <1>8, <1>9 DEF g

(* An object that nobody else refers to can go. *)
LEMMA Closing ==
    ASSUME IInv, NEW h \in DOMAIN heap,
           heap' = Without(heap, h), held' = held \ {h},
           DOMAIN story' = DOMAIN story \ {h},
           \A x \in DOMAIN story' : story'[x] = story[x],
           \A nd \in node' : nd \in node /\ nd.tree # h,
           \A i \in DOMAIN heap : heap[i].kind = "children" => heap[i].tree # h
    PROVE  Own' /\ Stories' /\ Nodes' /\ Borrows'
  <1>1. /\ DOMAIN heap' = DOMAIN heap \ {h}
        /\ \A x \in DOMAIN heap' : heap'[x] = heap[x]
    BY DEF Without
  <1>2. Own'
    BY <1>1 DEF IInv, Own
  <1>3. Stories'
    BY <1>1 DEF IInv, Stories
  <1>4. \A x \in TreesHeld : x # h => x \in TreesHeld' /\ heap'[x] = heap[x]
    BY <1>1 DEF TreesHeld
  <1>5. Nodes'
    BY <1>4 DEF IInv, Nodes, TreeOf
  <1>6. Borrows'
    BY <1>1, <1>4 DEF IInv, Borrows
  <1>7. QED BY <1>2, <1>3, <1>5, <1>6

(* An object passes on the first part of what it has left, and perhaps     *)
(* crash logs of their own.                                                *)
PassOn(h, rest, extra) ==
    /\ extra \cap DOMAIN heap = {}
    /\ DOMAIN heap' = DOMAIN heap \cup extra
    /\ held' = held \cup extra
    /\ [heap[h] EXCEPT !.left = rest] \in Objects
    /\ heap'[h] = [heap[h] EXCEPT !.left = rest]
    /\ \A x \in DOMAIN heap : x # h => heap'[x] = heap[x]
    /\ \A x \in extra : heap'[x] \in Objects /\ heap'[x].kind = "crashlog"

Remember(h, given) ==
    /\ DOMAIN story' = DOMAIN story
    /\ story'[h] = [all |-> story[h].all, got |-> story[h].got \o given]
    /\ \A x \in DOMAIN story : x # h => story'[x] = story[x]

(* What goes from an object to the caller stays part of the whole; a crash *)
(* log the caller gets is an object of its own.                            *)
LEMMA Passing ==
    ASSUME IInv, NEW h \in DOMAIN story, NEW given \in Seq(Items), NEW rest \in Seq(Items),
           heap[h].left = given \o rest,
           NEW extra \in SUBSET Handles, PassOn(h, rest, extra), Remember(h, given)
    PROVE  Own' /\ Stories' /\ Borrows' /\ (node' = node => Nodes')
  <1>a. /\ extra \cap DOMAIN heap = {}
        /\ DOMAIN heap' = DOMAIN heap \cup extra /\ held' = held \cup extra
        /\ [heap[h] EXCEPT !.left = rest] \in Objects
        /\ heap'[h] = [heap[h] EXCEPT !.left = rest]
    BY DEF PassOn
  <1>b. /\ \A x \in DOMAIN heap : x # h => heap'[x] = heap[x]
        /\ \A x \in extra : heap'[x] \in Objects /\ heap'[x].kind = "crashlog"
    BY DEF PassOn
  <1>c. /\ DOMAIN story' = DOMAIN story
        /\ story'[h] = [all |-> story[h].all, got |-> story[h].got \o given]
        /\ \A x \in DOMAIN story : x # h => story'[x] = story[x]
    BY DEF Remember
  <1>1. /\ h \in DOMAIN heap /\ heap[h].kind \in Sources /\ heap[h] \in Objects
        /\ story[h].got \in Seq(Items) /\ story[h].all \in Seq(Items)
    BY DEF IInv, Stories, Own
  <1>2. heap'[h].kind = heap[h].kind
    BY <1>1, <1>a DEF Objects, Context, CrashLog, Tree, Sources
  <1>3. heap[h].kind = "children" => heap'[h].tree = heap[h].tree /\ heap'[h].path = heap[h].path
    BY <1>1, <1>a DEF Objects, Context, CrashLog, Tree
  <1>4. heap'[h].left = rest
    BY <1>1, <1>a DEF Objects, Context, CrashLog, Tree, Sources
  <1>5. Own'
    BY <1>a, <1>b DEF IInv, Own
  <1>6. Stories'
    <2>1. DOMAIN story' = {x \in DOMAIN heap' : heap'[x].kind \in Sources}
      <3>1. DOMAIN story = {x \in DOMAIN heap : heap[x].kind \in Sources}
        BY DEF IInv, Stories
      <3>2. \A x \in DOMAIN heap : heap'[x].kind = heap[x].kind
        BY <1>2, <1>b
      <3>3. \A x \in extra : heap'[x].kind \notin Sources
        BY <1>b DEF Sources
      <3>4. QED BY <3>1, <3>2, <3>3, <1>a, <1>c
    <2>2. /\ story'[h].got = story[h].got \o given /\ story'[h].all = story[h].all
          /\ story'[h] \in [all : Seq(Items), got : Seq(Items)]
      BY <1>1, <1>c
    <2>3. story'[h].all = story'[h].got \o heap'[h].left
      <3>1. story[h].all = story[h].got \o (given \o rest)
        BY DEF IInv, Stories
      <3>2. story[h].got \o (given \o rest) = (story[h].got \o given) \o rest
        <4>1. \A g \in Seq(Items) : g \o (given \o rest) = (g \o given) \o rest
          OBVIOUS
        <4>2. QED BY ONLY <4>1, <1>1
      <3>3. QED BY <3>1, <3>2, <1>4, <2>2
    <2>4. \A x \in DOMAIN story : x # h =>
            /\ story'[x] \in [all : Seq(Items), got : Seq(Items)]
            /\ story'[x].all = story'[x].got \o heap'[x].left
      BY <1>b, <1>c DEF IInv, Stories
    <2>5. QED BY <2>1, <2>2, <2>3, <2>4, <1>c DEF Stories
  <1>7. \A x \in TreesHeld : x # h /\ x \in TreesHeld' /\ heap'[x] = heap[x]
    BY <1>1, <1>a, <1>b DEF TreesHeld, Sources
  <1>8. Borrows'
    <2> SUFFICES ASSUME NEW x \in DOMAIN heap', heap'[x].kind = "children"
                 PROVE  /\ heap'[x].tree \in TreesHeld'
                        /\ \A i \in DOMAIN heap'[x].left :
                             Append(heap'[x].path, heap'[x].left[i])
                               \in DOMAIN Trees[heap'[heap'[x].tree].log]
      BY DEF Borrows
    <2>1. x \in DOMAIN heap
      BY <1>a, <1>b
    <2>2. CASE x # h
      BY <2>1, <2>2, <1>7, <1>b DEF IInv, Borrows
    <2>3. CASE x = h
      <3>1. /\ heap[h].kind = "children" /\ heap[h].tree \in TreesHeld
            /\ \A i \in DOMAIN heap[h].left :
                 Append(heap[h].path, heap[h].left[i]) \in DOMAIN Trees[heap[heap[h].tree].log]
        BY <2>3, <1>1, <1>2 DEF IInv, Borrows
      <3>2. \A i \in DOMAIN rest : /\ Len(given) + i \in DOMAIN heap[h].left
                                   /\ heap[h].left[Len(given) + i] = rest[i]
        OBVIOUS
      <3>3. /\ heap'[x].tree = heap[h].tree /\ heap'[x].path = heap[h].path
            /\ heap'[x].left = rest
        BY <2>3, <3>1, <1>3, <1>4
      <3>4. heap'[heap[h].tree] = heap[heap[h].tree] /\ heap[h].tree \in TreesHeld'
        BY <3>1, <1>7
      <3>5. ASSUME NEW i \in DOMAIN heap'[x].left
            PROVE  Append(heap'[x].path, heap'[x].left[i])
                     \in DOMAIN Trees[heap'[heap'[x].tree].log]
        <4>1. /\ Len(given) + i \in DOMAIN heap[h].left
              /\ heap'[x].left[i] = heap[h].left[Len(given) + i]
          BY <3>2, <3>3
        <4>2. Append(heap[h].path, heap[h].left[Len(given) + i])
                \in DOMAIN Trees[heap[heap[h].tree].log]
          BY <3>1, <4>1
        <4>3. QED BY <3>3, <3>4, <4>1, <4>2
      <3>6. QED BY <3>3, <3>4, <3>5
    <2>4. QED BY <2>2, <2>3
  <1>9. ASSUME node' = node PROVE Nodes'
    BY <1>7, <1>9 DEF IInv, Nodes, TreeOf
  <1>10. QED BY <1>5, <1>6, <1>8, <1>9

---------------------------------------------------------------------------
(* A caller begins with nothing. *)
LEMMA InitHolds == Init => IInv
  BY DEF Init, IInv, Own, Stories, Nodes, Borrows, Told, Quiet

(* What ends is an iterator: nothing is over it. *)
LEMMA EndHolds ==
    ASSUME IInv, NEW h \in Of(Iterators), Ends(h)
    PROVE  IInv'
  <1>1. h \in DOMAIN heap /\ heap[h].kind \in Iterators /\ h \in DOMAIN story
    BY DEF Of, IInv, Stories, Iterators, Sources
  <1>2. heap' = Without(heap, h) /\ held' = held \ {h} /\ story' = Without(story, h) /\ node' = node
    BY DEF Ends, Popped
  <1>3. /\ DOMAIN story' = DOMAIN story \ {h}
        /\ \A x \in DOMAIN story' : story'[x] = story[x]
    BY <1>2 DEF Without
  <1>4. \A nd \in node' : nd \in node /\ nd.tree # h
    BY <1>1, <1>2 DEF IInv, Nodes, TreesHeld, Iterators
  <1>5. \A i \in DOMAIN heap : heap[i].kind = "children" => heap[i].tree # h
    BY <1>1 DEF IInv, Borrows, TreesHeld, Iterators
  <1>6. Own' /\ Stories' /\ Nodes' /\ Borrows'
    BY <1>1, <1>2, <1>3, <1>4, <1>5, Closing
  <1>7. Told'
    <2>1. story[h].got \in Seq(Items) /\ story[h].all = story[h].got \o << >>
      BY <1>1 DEF IInv, Stories, Ends
    <2>2. \A g \in Seq(Items) : g \o << >> = g
      OBVIOUS
    <2>3. story[h].all = story[h].got
      BY <2>1, <2>2
    <2>4. QED BY <2>3 DEF Told, Ends
  <1>8. QED BY <1>6, <1>7 DEF IInv

(* What an iterator gives is the first of what is left. *)
LEMMA PopFacts ==
    ASSUME NEW S, NEW s \in Seq(S), s # << >>
    PROVE  Head(s) \in S /\ Tail(s) \in Seq(S) /\ s = <<Head(s)>> \o Tail(s)
  OBVIOUS

(* An iterator that goes on, with the crash log it may allocate. *)
LEMMA GiveHolds ==
    ASSUME IInv, NEW h \in Of(Iterators), Gives(h),
           NEW extra \in SUBSET Handles, extra \cap DOMAIN heap = {},
           DOMAIN heap' = DOMAIN heap \cup extra, held' = held \cup extra,
           heap'[h] = [heap[h] EXCEPT !.left = Tail(@)],
           \A x \in DOMAIN heap : x # h => heap'[x] = heap[x],
           \A x \in extra : heap'[x] \in Objects /\ heap'[x].kind = "crashlog"
    PROVE  Own' /\ Stories' /\ Borrows' /\ Told' /\ (node' = node => Nodes')
  <1> DEFINE left == heap[h].left
  <1>0. left = heap[h].left /\ (left # << >>)
    BY DEF Gives
  <1> HIDE DEF left
  <1>1. /\ h \in DOMAIN heap /\ h \in DOMAIN story /\ heap[h] \in Objects
        /\ heap[h].kind \in Iterators /\ heap[h].kind \in Sources
        /\ story[h] \in [all : Seq(Items), got : Seq(Items)]
    BY DEF Of, IInv, Own, Stories, Iterators, Sources
  <1>2. /\ left \in Seq(Items) /\ left # << >>
        /\ heap[h].kind = "crashlogs" => left \in Seq(Logs)
        /\ heap[h].kind = "children" => left \in Seq(Names)
    BY <1>0, <1>1, Kinds
  <1>3. /\ <<Head(left)>> \in Seq(Items) /\ Tail(left) \in Seq(Items)
        /\ left = <<Head(left)>> \o Tail(left)
    BY <1>2, PopFacts
  <1>4. [heap[h] EXCEPT !.left = Tail(left)] \in Objects
    <2>1. CASE heap[h].kind = "crashlogs"
      <3>1. Tail(left) \in Seq(Logs) BY <1>2, <2>1, PopFacts
      <3>2. heap[h] \in [kind : {"crashlogs"}, left : Seq(Logs)]
        BY <1>1, <2>1 DEF Objects, Context, CrashLog, Tree
      <3>3. [heap[h] EXCEPT !.left = Tail(left)] \in [kind : {"crashlogs"}, left : Seq(Logs)]
        BY <3>1, <3>2
      <3>4. QED BY <3>3 DEF Objects
    <2>2. CASE heap[h].kind = "children"
      <3>1. Tail(left) \in Seq(Names) BY <1>2, <2>2, PopFacts
      <3>2. heap[h] \in [kind : {"children"}, tree : Handles, path : Seq(Names), left : Seq(Names)]
        BY <1>1, <2>2 DEF Objects, Context, CrashLog, Tree
      <3>3. [heap[h] EXCEPT !.left = Tail(left)]
              \in [kind : {"children"}, tree : Handles, path : Seq(Names), left : Seq(Names)]
        BY <3>1, <3>2
      <3>4. QED BY <3>3 DEF Objects
    <2>3. QED BY <1>1, <2>1, <2>2 DEF Iterators
  <1>5. /\ DOMAIN story' = DOMAIN story
        /\ story'[h] = [all |-> story[h].all, got |-> Append(story[h].got, Head(left))]
        /\ \A x \in DOMAIN story : x # h => story'[x] = story[x]
    BY <1>0, <1>1 DEF Gives
  <1>6. Append(story[h].got, Head(left)) = story[h].got \o <<Head(left)>>
    <2>1. story[h].got \in Seq(Items) BY <1>1 DEF IInv, Stories
    <2>2. \A g \in Seq(Items), x \in Items : Append(g, x) = g \o <<x>> OBVIOUS
    <2>3. QED BY <1>2, <2>1, <2>2, PopFacts
  <1>7. heap'[h] = [heap[h] EXCEPT !.left = Tail(left)]
    BY <1>0
  <1>8. Told'
    BY DEF Gives, Told, Quiet
  <1> DEFINE given == <<Head(left)>>
             rest == Tail(left)
  <1>9. /\ given \in Seq(Items) /\ rest \in Seq(Items)
        /\ heap[h].left = given \o rest
        /\ [heap[h] EXCEPT !.left = rest] \in Objects
        /\ heap'[h] = [heap[h] EXCEPT !.left = rest]
    BY <1>0, <1>3, <1>4, <1>7
  <1>10. story'[h] = [all |-> story[h].all, got |-> story[h].got \o given]
    BY <1>5, <1>6
  <1> HIDE DEF given, rest
  <1>11. PassOn(h, rest, extra)
    BY <1>9 DEF PassOn
  <1>12. Remember(h, given)
    BY <1>5, <1>10 DEF Remember
  <1>13. Own' /\ Stories' /\ Borrows' /\ (node' = node => Nodes')
    BY <1>1, <1>9, <1>11, <1>12, Passing
  <1>14. QED BY <1>8, <1>13

(* crashlog_next, at the end and before it. *)
LEMMA NextLogHolds == ASSUME IInv, NEW h \in Handles, NextLog(h) PROVE IInv'
  <1>1. h \in Of(Iterators) /\ h \in DOMAIN heap /\ heap[h] \in Objects /\ heap[h].kind = "crashlogs"
    BY DEF NextLog, Of, Iterators, IInv, Own
  <1>2. CASE Ends(h)
    BY <1>1, <1>2, EndHolds
  <1>3. CASE ~Ends(h)
    <2>1. /\ Gives(h) /\ Free # {} /\ node' = node
          /\ heap' = With(Popped(h), New, CrashLog(Head(heap[h].left)))
          /\ held' = held \cup {New}
      BY <1>3 DEF NextLog
    <2> DEFINE g == New
    <2>2. g \in Handles /\ g \notin DOMAIN heap
      BY <2>1, NewIsFree
    <2> HIDE DEF g
    <2>3. Popped(h) = [heap EXCEPT ![h].left = Tail(@)]
      BY <2>1 DEF Popped, Gives
    <2>4. /\ DOMAIN heap' = DOMAIN heap \cup {g}
          /\ heap'[h] = [heap[h] EXCEPT !.left = Tail(@)]
          /\ \A x \in DOMAIN heap : x # h => heap'[x] = heap[x]
          /\ heap'[g] = CrashLog(Head(heap[h].left))
      BY <1>1, <2>1, <2>2, <2>3 DEF With, g
    <2>5. heap'[g] \in Objects /\ heap'[g].kind = "crashlog"
      <3>1. Head(heap[h].left) \in Logs
        BY <1>1, <2>1, Kinds, PopFacts DEF Gives
      <3>2. QED BY <3>1, <2>4, Built DEF CrashLog
    <2>6. Own' /\ Stories' /\ Borrows' /\ Told' /\ (node' = node => Nodes')
      <3> DEFINE extra == {g}
      <3>1. /\ extra \in SUBSET Handles /\ extra \cap DOMAIN heap = {}
            /\ DOMAIN heap' = DOMAIN heap \cup extra /\ held' = held \cup extra
            /\ \A x \in extra : heap'[x] \in Objects /\ heap'[x].kind = "crashlog"
        BY <2>1, <2>2, <2>4, <2>5 DEF g
      <3> HIDE DEF extra
      <3>2. QED BY <1>1, <2>1, <2>4, <3>1, GiveHolds, Zenon
    <2>7. QED BY <2>1, <2>6 DEF IInv
  <1>4. QED BY <1>2, <1>3

(* crashlog_get_next_node_child, at the end and before it. *)
LEMMA NextChildHolds == ASSUME IInv, NEW h \in Handles, NextChild(h) PROVE IInv'
  <1>1. h \in Of(Iterators) /\ h \in DOMAIN heap /\ heap[h] \in Objects /\ heap[h].kind = "children"
    BY DEF NextChild, Of, Iterators, IInv, Own
  <1>2. CASE Ends(h)
    BY <1>1, <1>2, EndHolds
  <1>3. CASE ~Ends(h)
    <2>1. /\ Gives(h) /\ heap' = Popped(h) /\ held' = held
          /\ node' = Roots \cup {[tree |-> heap[h].tree,
                                  path |-> Append(heap[h].path, Head(heap[h].left))]}
      BY <1>3 DEF NextChild
    <2>2. heap' = [heap EXCEPT ![h].left = Tail(@)]
      BY <2>1 DEF Popped, Gives
    <2>3. /\ DOMAIN heap' = DOMAIN heap
          /\ heap'[h] = [heap[h] EXCEPT !.left = Tail(@)]
          /\ \A x \in DOMAIN heap : x # h => heap'[x] = heap[x]
      BY <1>1, <2>2
    <2>4. Own' /\ Stories' /\ Borrows' /\ Told'
      <3> DEFINE extra == {}
      <3>1. /\ extra \in SUBSET Handles /\ extra \cap DOMAIN heap = {}
            /\ DOMAIN heap' = DOMAIN heap \cup extra /\ held' = held \cup extra
            /\ \A x \in extra : heap'[x] \in Objects /\ heap'[x].kind = "crashlog"
        BY <2>1, <2>3
      <3> HIDE DEF extra
      <3>2. QED BY <1>1, <2>1, <2>3, <3>1, GiveHolds, Zenon
    <2>5. \A x \in TreesHeld : x \in TreesHeld' /\ heap'[x] = heap[x]
      BY <1>1, <2>3 DEF TreesHeld
    <2>6. /\ heap[h].tree \in TreesHeld
          /\ Append(heap[h].path, Head(heap[h].left)) \in DOMAIN Trees[heap[heap[h].tree].log]
      <3>1. heap[h].left \in Seq(Names) /\ heap[h].left # << >>
        BY <1>1, <2>1, Kinds DEF Gives
      <3>2. 1 \in DOMAIN heap[h].left /\ Head(heap[h].left) = heap[h].left[1]
        BY <3>1
      <3>3. QED BY <1>1, <3>2 DEF IInv, Borrows
    <2>7. Nodes'
      <3> DEFINE child == [tree |-> heap[h].tree,
                           path |-> Append(heap[h].path, Head(heap[h].left))]
      <3>1. \A nd \in node : nd.tree \in TreesHeld /\ nd.path \in DOMAIN TreeOf(nd)
        BY DEF IInv, Nodes
      <3>2. child.tree \in TreesHeld /\ child.path \in DOMAIN TreeOf(child)
        BY <2>6 DEF TreeOf
      <3> HIDE DEF child
      <3>3. \A nd \in node' : nd \in node \/ nd = child
        BY <2>1 DEF Roots, child
      <3>4. \A nd \in node' : nd.tree \in TreesHeld /\ nd.path \in DOMAIN TreeOf(nd)
        BY <3>1, <3>2, <3>3
      <3>5. QED BY <3>4, <2>5 DEF Nodes, TreeOf
    <2>8. QED BY <2>4, <2>7 DEF IInv
  <1>4. QED BY <1>2, <1>3

(* A chunk and what is left behind it are the bytes that were there. *)
LEMMA ChunkFacts ==
    ASSUME NEW bytes \in Seq(Bytes), NEW size \in Nat
    PROVE  LET n == Chunk(bytes, size) IN
           /\ SubSeq(bytes, 1, n) \in Seq(Bytes) /\ Rest(bytes, size) \in Seq(Bytes)
           /\ bytes = SubSeq(bytes, 1, n) \o Rest(bytes, size)
           /\ n = 0 /\ size > 0 => bytes = << >>
  <1> DEFINE n == Chunk(bytes, size)
  <1>1. n \in 0 .. Len(bytes) /\ (n = 0 /\ size > 0 => Len(bytes) = 0)
    BY DEF Chunk
  <1>2. Rest(bytes, size) = SubSeq(bytes, n + 1, Len(bytes))
    BY DEF Rest
  <1> HIDE DEF n
  <1>3. /\ SubSeq(bytes, 1, n) \in Seq(Bytes) /\ SubSeq(bytes, n + 1, Len(bytes)) \in Seq(Bytes)
    BY <1>1
  <1>4. bytes = SubSeq(bytes, 1, n) \o SubSeq(bytes, n + 1, Len(bytes))
    <2>1. SubSeq(bytes, 1, Len(bytes)) = bytes
      BY SubSeqFull
    <2>2. SubSeq(bytes, 1, n) \o SubSeq(bytes, n + 1, Len(bytes)) = SubSeq(bytes, 1, Len(bytes))
      <3>1. 1 \in 1 .. Len(bytes) + 1 /\ n \in 1 - 1 .. Len(bytes) /\ Len(bytes) \in n .. Len(bytes)
        BY <1>1
      <3>2. QED BY ONLY <3>1, bytes \in Seq(Bytes), ConcatAdjacentSubSeq
    <2>3. QED BY <2>1, <2>2
  <1>5. n = 0 /\ size > 0 => bytes = << >>
    BY <1>1
  <1>6. QED BY <1>2, <1>3, <1>4, <1>5 DEF n

(* crashlog_read_export, for a buffer of any size. *)
LEMMA ReadExportHolds == ASSUME IInv, ReadExport PROVE IInv'
  <1>1. PICK h \in Of({"export"}), size \in 0 .. MaxBuffer :
          LET bytes == heap[h].left
              got == story[h].got \o SubSeq(bytes, 1, Chunk(bytes, size)) IN
          /\ heap' = [heap EXCEPT ![h].left = Rest(bytes, size)]
          /\ story' = [story EXCEPT ![h].got = got]
          /\ said' = IF Chunk(bytes, size) = 0 /\ size > 0
                     THEN [call |-> "read", all |-> story[h].all, got |-> got] ELSE Quiet
    BY DEF ReadExport
  <1> DEFINE given == SubSeq(heap[h].left, 1, Chunk(heap[h].left, size))
             rest == Rest(heap[h].left, size)
             extra == {}
  <1>2. /\ h \in DOMAIN heap /\ h \in DOMAIN story /\ heap[h] \in Objects /\ heap[h].kind = "export"
        /\ story[h] \in [all : Seq(Items), got : Seq(Items)]
        /\ story[h].all = story[h].got \o heap[h].left
    BY DEF Of, IInv, Own, Stories, Sources
  <1>3. heap[h].left \in Seq(Bytes) /\ size \in Nat
    BY <1>2, Kinds, FfiAssumption
  <1>4. /\ given \in Seq(Bytes) /\ rest \in Seq(Bytes)
        /\ heap[h].left = given \o rest
        /\ Chunk(heap[h].left, size) = 0 /\ size > 0 => heap[h].left = << >>
    BY <1>3, ChunkFacts
  <1>5. /\ heap' = [heap EXCEPT ![h].left = rest]
        /\ story' = [story EXCEPT ![h].got = story[h].got \o given]
        /\ node' = node /\ held' = held
    BY <1>1 DEF ReadExport
  <1>6. said' = IF Chunk(heap[h].left, size) = 0 /\ size > 0
                THEN [call |-> "read", all |-> story[h].all, got |-> story[h].got \o given] ELSE Quiet
    BY <1>1
  <1> HIDE DEF given, rest
  <1>7. given \in Seq(Items) /\ rest \in Seq(Items)
    BY <1>4 DEF Items
  <1>8. [heap[h] EXCEPT !.left = rest] \in Objects
    BY <1>2, <1>4 DEF Objects, Context, CrashLog, Tree
  <1>9. /\ DOMAIN heap' = DOMAIN heap
        /\ heap'[h] = [heap[h] EXCEPT !.left = rest]
        /\ \A x \in DOMAIN heap : x # h => heap'[x] = heap[x]
    BY <1>2, <1>5
  <1>10. /\ DOMAIN story' = DOMAIN story
         /\ story'[h] = [all |-> story[h].all, got |-> story[h].got \o given]
         /\ \A x \in DOMAIN story : x # h => story'[x] = story[x]
    BY <1>2, <1>5
  <1>11. /\ extra \in SUBSET Handles /\ extra \cap DOMAIN heap = {}
         /\ DOMAIN heap' = DOMAIN heap \cup extra /\ held' = held \cup extra
         /\ \A x \in extra : heap'[x] \in Objects /\ heap'[x].kind = "crashlog"
    BY <1>5, <1>9
  <1> HIDE DEF extra
  <1>a. PassOn(h, rest, extra)
    BY <1>8, <1>9, <1>11 DEF PassOn
  <1>b. Remember(h, given)
    BY <1>10 DEF Remember
  <1>12. Own' /\ Stories' /\ Borrows' /\ (node' = node => Nodes')
    BY <1>2, <1>4, <1>7, <1>11, <1>a, <1>b, Passing
  <1>13. Told'
    <2>1. CASE Chunk(heap[h].left, size) = 0 /\ size > 0
      <3>1. heap[h].left = << >> BY <1>4, <2>1
      <3>2. given = << >>
        BY <2>1, SubSeqEmpty DEF given
      <3>3. story[h].all = story[h].got \o given BY <1>2, <3>1, <3>2
      <3>4. QED BY <3>3, <2>1, <1>6 DEF Told
    <2>2. CASE ~(Chunk(heap[h].left, size) = 0 /\ size > 0)
      BY <2>2, <1>6 DEF Told, Quiet
    <2>3. QED BY <2>1, <2>2
  <1>14. QED BY <1>5, <1>12, <1>13 DEF IInv

(* The calls whose new object refers to no other. *)
LEMMA OpensHold ==
    ASSUME IInv,
           InitContext \/ Read \/ ReadEventLogs \/ Decode \/ ExportToCper \/ ExportToJson
    PROVE  IInv'
  <1>1. ASSUME InitContext PROVE IInv'
    <2>1. Open(Context) /\ node' = node /\ story' = story BY <1>1 DEF InitContext
    <2>2. Context.kind \notin Sources BY DEF Context, Sources
    <2>3. Context.kind # "children" BY DEF Context
    <2>4. QED BY <2>1, <2>2, <2>3, Built, Opening DEF IInv
  <1>2. ASSUME Read PROVE IInv'
    <2>1. PICK l \in Logs : Open(CrashLog(l)) BY <1>2 DEF Read
    <2>2. CrashLog(l).kind \notin Sources /\ CrashLog(l).kind # "children"
      BY DEF CrashLog, Sources
    <2>3. node' = node /\ story' = story BY <1>2 DEF Read
    <2>4. QED BY <2>1, <2>2, <2>3, Built, Opening DEF IInv
  <1>3. ASSUME ReadEventLogs PROVE IInv'
    <2>1. PICK s \in EventLogs :
            Open(CrashLogs(s)) /\ story' = With(story, New, [all |-> s, got |-> << >>])
      BY <1>3 DEF ReadEventLogs
    <2> DEFINE o == CrashLogs(s)
    <2>2. o \in Objects BY Built, FfiAssumption
    <2>3. o.kind \in Sources /\ o.kind # "children" /\ o.left = s
      BY DEF CrashLogs, Sources
    <2>4. node' = node BY <1>3 DEF ReadEventLogs
    <2> HIDE DEF o
    <2>5. Open(o) /\ story' = With(story, New, [all |-> o.left, got |-> << >>])
      BY <2>1, <2>3 DEF o
    <2>6. QED BY <2>2, <2>3, <2>4, <2>5, Opening DEF IInv
  <1>4. ASSUME Decode PROVE IInv'
    <2>1. PICK h \in Of({"crashlog"}) :
            Open(Tree(heap[h].log)) /\ node' = node \cup {[tree |-> New, path |-> << >>]}
      BY <1>4 DEF Decode
    <2> DEFINE o == Tree(heap[h].log)
    <2>2. heap[h].log \in Logs BY Kinds DEF Of, IInv, Own
    <2>3. o \in Objects BY <2>2, Built
    <2>4. o.kind = "tree" /\ o.kind \notin Sources /\ o.log \in Logs
      BY <2>2 DEF Tree, Sources
    <2>5. story' = story BY <1>4 DEF Decode
    <2> HIDE DEF o
    <2>6. Open(o) BY <2>1 DEF o
    <2>7. /\ Own' /\ Told' /\ Borrows' /\ Stories'
          /\ DOMAIN heap' = DOMAIN heap \cup {New} /\ heap'[New] = o
          /\ \A x \in DOMAIN heap : heap'[x] = heap[x]
      BY <2>3, <2>4, <2>5, <2>6, Opening
    <2>8. Nodes'
      <3> DEFINE root == [tree |-> New, path |-> << >>]
      <3>1. \A nd \in node : nd.tree \in TreesHeld' /\ nd.path \in DOMAIN TreeOf(nd)'
        BY <2>7 DEF IInv, Nodes, TreesHeld, TreeOf
      <3>2. root.tree \in TreesHeld' /\ root.path \in DOMAIN Trees[heap'[root.tree].log]
        BY <2>4, <2>7, FfiAssumption DEF TreesHeld
      <3> HIDE DEF root
      <3>3. \A nd \in node' : nd \in node \/ nd = root
        BY <2>1 DEF root
      <3>4. QED BY <3>1, <3>2, <3>3 DEF Nodes, TreeOf
    <2>9. QED BY <2>7, <2>8 DEF IInv
  <1>5. ASSUME NEW bytes \in Seq(Bytes), OpenExport(bytes) PROVE IInv'
    <2> DEFINE o == Export(bytes)
    <2>1. o \in Objects BY Built
    <2>2. o.kind \in Sources /\ o.kind # "children" /\ o.left = bytes
      BY DEF Export, Sources
    <2>3. Open(o) /\ node' = node /\ story' = With(story, New, [all |-> bytes, got |-> << >>])
      BY <1>5 DEF OpenExport
    <2> HIDE DEF o
    <2>4. QED BY <2>1, <2>2, <2>3, Opening DEF IInv
  <1>6. ASSUME ExportToCper PROVE IInv'
    <2>1. PICK h \in Of({"crashlog"}) : OpenExport(Cper[heap[h].log]) BY <1>6 DEF ExportToCper
    <2>2. heap[h].log \in Logs BY Kinds DEF Of, IInv, Own
    <2>3. Cper[heap[h].log] \in Seq(Bytes) BY <2>2, FfiAssumption
    <2>4. QED BY <2>1, <2>3, <1>5
  <1>7. ASSUME ExportToJson PROVE IInv'
    <2>1. PICK h \in Of({"tree"}) : OpenExport(Json[heap[h].log]) BY <1>7 DEF ExportToJson
    <2>2. heap[h].log \in Logs BY Kinds DEF Of, IInv, Own
    <2>3. Json[heap[h].log] \in Seq(Bytes) BY <2>2, FfiAssumption
    <2>4. QED BY <2>1, <2>3, <1>5
  <1>8. QED BY <1>1, <1>2, <1>3, <1>4, <1>6, <1>7

(* crashlog_get_node_children: its object refers to a tree that is there. *)
LEMMA GetChildrenHolds == ASSUME IInv, GetChildren PROVE IInv'
  <1>1. PICK nd \in node :
          /\ Open(Children(nd.tree, nd.path, TreeOf(nd)[nd.path]))
          /\ story' = With(story, New, [all |-> TreeOf(nd)[nd.path], got |-> << >>])
    BY DEF GetChildren
  <1> DEFINE names == TreeOf(nd)[nd.path]
             o == Children(nd.tree, nd.path, names)
  <1>2. /\ nd.tree \in TreesHeld /\ nd.path \in DOMAIN TreeOf(nd)
        /\ heap[nd.tree].log \in Logs /\ nd.tree \in Handles
    BY Kinds DEF IInv, Own, Nodes, TreesHeld
  <1>3. /\ nd.path \in Seq(Names) /\ names \in Seq(Names)
        /\ \A i \in DOMAIN names : Append(nd.path, names[i]) \in DOMAIN TreeOf(nd)
    BY <1>2, FfiAssumption DEF TreeOf
  <1>4. o \in Objects
    BY <1>2, <1>3, Built
  <1>5. /\ o.kind = "children" /\ o.left = names /\ o.tree = nd.tree /\ o.path = nd.path
        /\ o.kind \in Sources
    BY DEF Children, Sources
  <1>6. Open(o) /\ node' = node /\ story' = With(story, New, [all |-> o.left, got |-> << >>])
    BY <1>1, <1>5 DEF GetChildren
  <1>7. /\ \A i \in DOMAIN o.left : Append(o.path, o.left[i]) \in DOMAIN Trees[heap[o.tree].log]
        /\ o.tree \in TreesHeld
    BY <1>2, <1>3, <1>5 DEF TreeOf
  <1> HIDE DEF o, names
  <1>8. /\ Own' /\ Told' /\ Nodes' /\ Stories'
        /\ DOMAIN heap' = DOMAIN heap \cup {New} /\ heap'[New] = o
        /\ \A x \in DOMAIN heap : heap'[x] = heap[x]
    BY <1>4, <1>5, <1>6, Opening
  <1>9. \A x \in TreesHeld : x \in TreesHeld' /\ heap'[x] = heap[x]
    BY <1>8 DEF TreesHeld
  <1>10. Borrows'
    <2> SUFFICES ASSUME NEW x \in DOMAIN heap', heap'[x].kind = "children"
                 PROVE  /\ heap'[x].tree \in TreesHeld'
                        /\ \A i \in DOMAIN heap'[x].left :
                             Append(heap'[x].path, heap'[x].left[i])
                               \in DOMAIN Trees[heap'[heap'[x].tree].log]
      BY DEF Borrows
    <2>1. CASE x \in DOMAIN heap
      BY <2>1, <1>8, <1>9 DEF IInv, Borrows
    <2>2. CASE x = New
      BY <2>2, <1>7, <1>8, <1>9
    <2>3. QED BY <1>8, <2>1, <2>2
  <1>11. QED BY <1>8, <1>10 DEF IInv

(* crashlog_get_node_by_path gives a node of the same tree. *)
LEMMA GetByPathHolds == ASSUME IInv, GetByPath PROVE IInv'
  <1>1. PICK nd \in node : \E p \in DOMAIN TreeOf(nd) :
          node' = Roots \cup {[tree |-> nd.tree, path |-> p]}
    BY DEF GetByPath
  <1>2. PICK p \in DOMAIN TreeOf(nd) : node' = Roots \cup {[tree |-> nd.tree, path |-> p]}
    BY <1>1
  <1>3. heap' = heap /\ held' = held /\ story' = story /\ said' = Quiet
    BY DEF GetByPath
  <1>4. Nodes'
    BY <1>2, <1>3 DEF IInv, Nodes, Roots, TreeOf, TreesHeld
  <1>5. QED BY <1>3, <1>4 DEF IInv, Own, Stories, Borrows, TreesHeld, Told, Quiet

(* The release functions, of an object no iterator needs. *)
LEMMA ReleaseHolds == ASSUME IInv, NEW h \in Handles, Release(h) PROVE IInv'
  <1>1. /\ h \in DOMAIN heap /\ heap' = Without(heap, h) /\ held' = held \ {h}
        /\ node' = {nd \in node : nd.tree # h} /\ story' = Without(story, h) /\ said' = Quiet
    BY DEF Release, Of
  <1>2. \A i \in DOMAIN heap : heap[i].kind = "children" => heap[i].tree # h
    BY DEF Release, Lent, Of, IInv, Own
  <1>3. /\ DOMAIN story' = DOMAIN story \ {h}
        /\ \A x \in DOMAIN story' : story'[x] = story[x]
    BY <1>1 DEF Without
  <1>4. \A nd \in node' : nd \in node /\ nd.tree # h
    BY <1>1
  <1>5. Own' /\ Stories' /\ Nodes' /\ Borrows'
    BY <1>1, <1>2, <1>3, <1>4, Closing
  <1>6. QED BY <1>1, <1>5 DEF IInv, Told, Quiet

(* crashlog_deinit: no object refers to a context. *)
LEMMA DeinitHolds == ASSUME IInv, NEW h \in Handles, Deinit(h) PROVE IInv'
  <1>1. /\ h \in DOMAIN heap /\ heap[h].kind = "context"
        /\ heap' = Without(heap, h) /\ held' = held \ {h}
        /\ node' = node /\ story' = story /\ said' = Quiet
    BY DEF Deinit, Of
  <1>2. \A i \in DOMAIN heap : heap[i].kind = "children" => heap[i].tree # h
    BY <1>1 DEF IInv, Borrows, TreesHeld
  <1>3. /\ DOMAIN story' = DOMAIN story \ {h}
        /\ \A x \in DOMAIN story' : story'[x] = story[x]
    BY <1>1 DEF IInv, Stories, Sources
  <1>4. \A nd \in node' : nd \in node /\ nd.tree # h
    BY <1>1 DEF IInv, Nodes, TreesHeld
  <1>5. Own' /\ Stories' /\ Nodes' /\ Borrows'
    BY <1>1, <1>2, <1>3, <1>4, Closing
  <1>6. QED BY <1>1, <1>5 DEF IInv, Told, Quiet

(* Every call, and every stuttering step. *)
LEMMA NextHolds == IInv /\ [Next]_vars => IInv'
  <1> SUFFICES ASSUME IInv, [Next]_vars PROVE IInv'
    OBVIOUS
  <1>1. CASE UNCHANGED vars
    BY <1>1 DEF vars, IInv, Own, Stories, Nodes, Borrows, Told, TreesHeld, TreeOf
  <1>2. CASE Call
    <2>1. CASE InitContext \/ Read \/ ReadEventLogs \/ Decode \/ ExportToCper \/ ExportToJson
      BY <2>1, OpensHold
    <2>2. CASE GetChildren
      BY <2>2, GetChildrenHolds
    <2>3. CASE GetByPath
      BY <2>3, GetByPathHolds
    <2>4. CASE ReadExport
      BY <2>4, ReadExportHolds
    <2>5. CASE \E h \in Handles : Dispose(h)
      BY <2>5, NextLogHolds, NextChildHolds, ReleaseHolds, DeinitHolds DEF Dispose
    <2>6. QED BY <1>2, <2>1, <2>2, <2>3, <2>4, <2>5 DEF Call
  <1>3. CASE GetName \/ Close
    <2>1. /\ heap' = heap /\ held' = held /\ node' = node /\ story' = story
          /\ said'.call \notin {"next", "read"}
      BY <1>3 DEF GetName, Close, Quiet
    <2>2. QED
      BY <2>1 DEF IInv, Own, Stories, Nodes, Borrows, Told, TreesHeld, TreeOf
  <1>4. QED BY <1>1, <1>2, <1>3 DEF Next

---------------------------------------------------------------------------
(* The objects in memory are those the caller has yet to give back, and    *)
(* what it may use is there: alloc and free (ffi.rs:558, 562) and the      *)
(* iterators that free themselves agree with the rules the caller follows. *)
THEOREM ObjectsAreOwned == Spec => []HandlesLive
  <1>1. IInv => HandlesLive
    BY DEF IInv, Own, Nodes, Borrows, HandlesLive, Of, TreesHeld
  <1>2. QED BY <1>1, InitHolds, NextHolds, PTL DEF Spec

(* The first part of a sequence put together is found at its start. *)
LEMMA GivenIsPrefix ==
    ASSUME NEW g \in Seq(Items), NEW t \in Seq(Items)
    PROVE  Len(g) \in 0 .. Len(g \o t) /\ g = SubSeq(g \o t, 1, Len(g))
  <1>1. Len(g \o t) = Len(g) + Len(t) /\ g \o t \in Seq(Items)
    OBVIOUS
  <1>2. \A i \in 1 .. Len(g) : (g \o t)[i] = g[i]
    OBVIOUS
  <1>3. QED BY <1>1, <1>2

(* What an object has given is the beginning of what it was made for. *)
LEMMA GivenInOrder ==
    ASSUME IInv, NEW h \in DOMAIN heap, heap[h].kind \in Sources
    PROVE  \E k \in 0 .. Len(story[h].all) : story[h].got = SubSeq(story[h].all, 1, k)
  <1>1. /\ story[h].got \in Seq(Items) /\ story[h].all = story[h].got \o heap[h].left
    BY DEF IInv, Stories
  <1>2. heap[h].left \in Seq(Items)
    BY Kinds DEF IInv, Own
  <1>3. QED BY <1>1, <1>2, GivenIsPrefix

(* Nothing an iterator was made for is skipped, given twice, or kept back  *)
(* (crashlog_next, crashlog_get_next_node_child).                          *)
THEOREM IteratorsAreComplete == Spec => []IteratesAll
  <1>1. IInv => IteratesAll
    BY GivenInOrder DEF IInv, Told, IteratesAll, Of, Iterators, Sources
  <1>2. QED BY <1>1, InitHolds, NextHolds, PTL DEF Spec

(* However the caller cuts an export into pieces, it gets the whole of it  *)
(* (crashlog_read_export).                                                 *)
THEOREM ExportsAreWhole == Spec => []ExportWhole
  <1>1. IInv => ExportWhole
    BY GivenInOrder DEF IInv, Told, ExportWhole, Of, Sources
  <1>2. QED BY <1>1, InitHolds, NextHolds, PTL DEF Spec
---------------------------------------------------------------------------
(* What a buffer gets of a name. *)
LEMMA TextFacts ==
    ASSUME NEW name \in Seq(Bytes), NEW size \in 1 .. MaxBuffer, NEW end, end = NulAt(name, size)
    PROVE  /\ end \in 0 .. Len(name) /\ end < size
           /\ SubSeq(name, 1, end) \in Seq(Bytes) /\ Len(SubSeq(name, 1, end)) = end
           /\ SubSeq(name, 1, end) = name \/ end = size - 1
           /\ (Len(name) + 1 <= size) = (SubSeq(name, 1, end) = name)
  <1> DEFINE max == MaxBuffer
  <1>0. Word \in Nat /\ max \in 0 .. Word - 1
    BY FfiAssumption
  <1> HIDE DEF max
  <1>1. size - 1 \in 0 .. Word - 1 /\ size \in Nat /\ Len(name) \in Nat
    <2>1. size \in 1 .. max
      BY DEF max
    <2>2. QED BY <1>0, <2>1
  <1>2. (size - 1) % Word = size - 1
    BY <1>0, <1>1
  <1>3. end = IF Len(name) < size - 1 THEN Len(name) ELSE size - 1
    BY <1>2 DEF NulAt
  <1>4. end \in 0 .. Len(name) /\ end < size
    BY <1>1, <1>3
  <1>5. SubSeq(name, 1, end) \in Seq(Bytes) /\ Len(SubSeq(name, 1, end)) = end
    BY <1>4
  <1>6. end = Len(name) => SubSeq(name, 1, end) = name
    BY <1>5
  <1>7. end # Len(name) => SubSeq(name, 1, end) # name
    BY <1>5
  <1>8. Len(name) + 1 <= size <=> end = Len(name)
    BY <1>1, <1>3
  <1>9. end = Len(name) \/ end = size - 1
    BY <1>3
  <1>10. QED BY <1>4, <1>5, <1>6, <1>7, <1>8, <1>9

(* A node the caller has is of a tree and has a name of bytes. *)
LEMMA NamesAreBytes ==
    ASSUME IInv, NEW nd \in node PROVE NameOf(nd) \in Seq(Bytes)
  <1>1. nd.tree \in TreesHeld /\ nd.path \in DOMAIN Trees[heap[nd.tree].log]
    BY DEF IInv, Nodes, TreeOf
  <1>2. heap[nd.tree].log \in Logs
    BY <1>1, Kinds DEF IInv, Own, TreesHeld
  <1>3. nd.path \in Seq(Names)
    BY <1>1, <1>2, FfiAssumption
  <1>4. nd.path # << >> => nd.path[Len(nd.path)] \in Names
    BY <1>3
  <1>5. << >> \in Seq(Bytes)
    OBVIOUS
  <1>6. QED BY <1>4, <1>5, FfiAssumption DEF NameOf

LEMMA GetNameFits == ASSUME IInv, GetName PROVE NameFits'
  <1>1. PICK nd \in node, size \in 0 .. MaxBuffer :
          LET name == NameOf(nd)
              end == NulAt(name, size)
          IN /\ aborted' = (end >= size)
             /\ said' = [call |-> "name", name |-> name, size |-> size,
                         text |-> IF end >= size THEN << >> ELSE SubSeq(name, 1, end),
                         needs |-> Len(name) + 1]
    BY DEF GetName
  <1> DEFINE name == NameOf(nd)
             end == NulAt(name, size)
  <1>2. /\ said'.size = size /\ said'.name = name /\ said'.needs = Len(name) + 1
        /\ said'.text = IF end >= size THEN << >> ELSE SubSeq(name, 1, end)
        /\ aborted' = (end >= size)
    BY <1>1
  <1>3. name \in Seq(Bytes)
    BY NamesAreBytes
  <1> HIDE DEF name
  <1>4. ASSUME size > 0
        PROVE  /\ end \in 0 .. Len(name) /\ end < size
               /\ SubSeq(name, 1, end) \in Seq(Bytes) /\ Len(SubSeq(name, 1, end)) = end
               /\ SubSeq(name, 1, end) = name \/ end = size - 1
               /\ (Len(name) + 1 <= size) = (SubSeq(name, 1, end) = name)
    <2>1. size \in 1 .. MaxBuffer
      BY <1>4, FfiAssumption
    <2>2. QED BY <1>3, <2>1, TextFacts
  <1> HIDE DEF end
  <1>5. ASSUME size > 0 PROVE ~(end >= size)
    <2>1. size \in Nat /\ Len(name) \in Nat
      BY <1>3, FfiAssumption
    <2>2. QED BY <1>4, <1>5, <2>1
  <1>6. ASSUME size > 0
        PROVE  /\ ~aborted' /\ Len(said'.text) < said'.size
               /\ said'.text = said'.name \/ Len(said'.text) = said'.size - 1
               /\ said'.text = SubSeq(said'.name, 1, Len(said'.text))
               /\ (said'.needs <= said'.size) = (said'.text = said'.name)
    <2>1. said'.text = SubSeq(name, 1, end)
      BY <1>2, <1>5, <1>6
    <2>2. QED BY <1>2, <1>4, <1>5, <1>6, <2>1
  <1>7. QED BY <1>2, <1>6 DEF NameFits

(* A buffer that is not empty gets what fits of a name, and the size that  *)
(* crashlog_get_node_name returns is the one that is enough.               *)
THEOREM NamesFit == Spec => []NameFits
  <1>1. Init => NameFits
    BY DEF Init, NameFits, Quiet
  <1>2. IInv /\ NameFits /\ [Next]_vars => NameFits'
    <2> SUFFICES ASSUME IInv, NameFits, [Next]_vars PROVE NameFits'
      OBVIOUS
    <2>1. CASE UNCHANGED vars
      BY <2>1 DEF vars, NameFits
    <2>2. CASE GetName
      BY <2>2, GetNameFits
    <2>3. CASE Call \/ Close
      <3>1. CASE Close \/ InitContext \/ Read \/ ReadEventLogs \/ Decode
                 \/ ExportToCper \/ ExportToJson \/ GetChildren \/ GetByPath
        <4>1. said' = Quiet
          BY <3>1 DEF Close, InitContext, Read, ReadEventLogs, Decode, ExportToCper,
                      ExportToJson, OpenExport, GetChildren, GetByPath, Open
        <4>2. QED BY <4>1 DEF NameFits, Quiet
      <3>2. CASE ReadExport
        <4>1. said'.call # "name"
          BY <3>2 DEF ReadExport, Quiet
        <4>2. QED BY <4>1 DEF NameFits
      <3>3. CASE \E h \in Handles : Dispose(h)
        <4>1. said'.call # "name"
          BY <3>3 DEF Dispose, NextLog, NextChild, Release, Deinit, Ends, Gives, Quiet
        <4>2. QED BY <4>1 DEF NameFits
      <3>4. QED BY <2>3, <3>1, <3>2, <3>3 DEF Call
    <2>4. QED BY <2>1, <2>2, <2>3 DEF Next
  <1>3. QED BY <1>1, <1>2, InitHolds, NextHolds, PTL DEF Spec
=============================================================================
