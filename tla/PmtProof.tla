---------------------------- MODULE PmtProof ----------------------------
(***************************************************************************)
(* Theorems about Pmt, for every set of endpoints and PCI devices, every   *)
(* command line, and however devices come and go and firmware writes while *)
(* the command runs.                                                       *)
(***************************************************************************)
EXTENDS Pmt, FiniteSetTheorems, SequenceTheorems, TLAPS

---------------------------------------------------------------------------
(* What the sequence operators do to the elements.                         *)

LEMMA NoElements == Elements(<< >>) = {}
BY DEF Elements

LEMMA AppendElements ==
    ASSUME NEW S, NEW s \in Seq(S), NEW x \in S
    PROVE  Elements(Append(s, x)) = Elements(s) \cup {x}
<1> DEFINE t == Append(s, x)
<1>1. /\ Len(s) \in Nat /\ DOMAIN s = 1 .. Len(s)
      /\ DOMAIN t = 1 .. Len(s) + 1 /\ t[Len(s) + 1] = x
      /\ \A i \in 1 .. Len(s) : t[i] = s[i]
  OBVIOUS
<1> HIDE DEF t
<1>2. ASSUME NEW e \in Elements(t) PROVE e \in Elements(s) \cup {x}
  <2>1. PICK i \in 1 .. Len(s) + 1 : e = t[i]
    BY <1>1, <1>2 DEF Elements
  <2>2. i \in 1 .. Len(s) \/ i = Len(s) + 1
    BY <1>1, <2>1
  <2> QED BY <1>1, <2>1, <2>2 DEF Elements
<1>3. ASSUME NEW e \in Elements(s) PROVE e \in Elements(t)
  <2>1. PICK i \in 1 .. Len(s) : e = s[i]
    BY <1>1, <1>3 DEF Elements
  <2>2. i \in 1 .. Len(s) + 1
    BY <1>1, <2>1
  <2> QED BY <1>1, <2>1, <2>2 DEF Elements
<1>4. x \in Elements(t)
  <2>1. Len(s) + 1 \in DOMAIN t
    BY <1>1
  <2> QED BY <1>1, <2>1 DEF Elements
<1>5. Elements(t) = Elements(s) \cup {x}
  BY <1>2, <1>3, <1>4
<1> QED BY <1>5 DEF t

LEMMA TailElements ==
    ASSUME NEW S, NEW s \in Seq(S), s # << >>
    PROVE  /\ Tail(s) \in Seq(S) /\ Head(s) \in S /\ Len(Tail(s)) = Len(s) - 1
           /\ Head(s) = s[1] /\ \A i \in DOMAIN Tail(s) : Tail(s)[i] = s[i + 1]
           /\ Elements(s) = {Head(s)} \cup Elements(Tail(s))
<1> DEFINE t == Tail(s)
<1>1. /\ Len(s) \in Nat \ {0} /\ DOMAIN s = 1 .. Len(s)
      /\ t \in Seq(S) /\ Len(t) = Len(s) - 1 /\ DOMAIN t = 1 .. Len(s) - 1
      /\ \A i \in 1 .. Len(s) - 1 : t[i] = s[i + 1]
      /\ Head(s) = s[1] /\ Head(s) \in S
  OBVIOUS
<1> HIDE DEF t
<1>2. ASSUME NEW e \in Elements(s) PROVE e \in {Head(s)} \cup Elements(t)
  <2>1. PICK i \in 1 .. Len(s) : e = s[i]
    BY <1>1, <1>2 DEF Elements
  <2>2. CASE i = 1
    BY <1>1, <2>1, <2>2
  <2>3. CASE i # 1
    <3>1. i - 1 \in DOMAIN t /\ t[i - 1] = e
      BY <1>1, <2>1, <2>3
    <3> QED BY <3>1 DEF Elements
  <2> QED BY <2>2, <2>3
<1>3. ASSUME NEW e \in Elements(t) PROVE e \in Elements(s)
  <2>1. PICK i \in 1 .. Len(s) - 1 : e = t[i]
    BY <1>1, <1>3 DEF Elements
  <2>2. i + 1 \in DOMAIN s /\ s[i + 1] = e
    BY <1>1, <2>1
  <2> QED BY <2>2 DEF Elements
<1>4. Head(s) \in Elements(s)
  <2>1. 1 \in DOMAIN s
    BY <1>1
  <2> QED BY <1>1, <2>1 DEF Elements
<1>5. Elements(s) = {Head(s)} \cup Elements(t)
  BY <1>2, <1>3, <1>4
<1> QED BY <1>1, <1>5 DEF t

LEMMA ConcatElements ==
    ASSUME NEW S, NEW s \in Seq(S), NEW r \in Seq(S)
    PROVE  Elements(s \o r) = Elements(s) \cup Elements(r)
<1> DEFINE t == s \o r
<1>1. /\ Len(s) \in Nat /\ DOMAIN s = 1 .. Len(s)
      /\ Len(r) \in Nat /\ DOMAIN r = 1 .. Len(r)
      /\ DOMAIN t = 1 .. Len(s) + Len(r)
      /\ \A i \in 1 .. Len(s) + Len(r) : t[i] = IF i <= Len(s) THEN s[i] ELSE r[i - Len(s)]
  OBVIOUS
<1> HIDE DEF t
<1>2. ASSUME NEW e \in Elements(t) PROVE e \in Elements(s) \cup Elements(r)
  <2>1. PICK i \in 1 .. Len(s) + Len(r) : e = t[i]
    BY <1>1, <1>2 DEF Elements
  <2>2. CASE i <= Len(s)
    <3>1. i \in DOMAIN s /\ s[i] = e
      BY <1>1, <2>1, <2>2
    <3> QED BY <3>1 DEF Elements
  <2>3. CASE ~(i <= Len(s))
    <3>1. i - Len(s) \in DOMAIN r /\ r[i - Len(s)] = e
      BY <1>1, <2>1, <2>3
    <3> QED BY <3>1 DEF Elements
  <2> QED BY <2>2, <2>3
<1>3. ASSUME NEW e \in Elements(s) PROVE e \in Elements(t)
  <2>1. PICK i \in 1 .. Len(s) : e = s[i]
    BY <1>1, <1>3 DEF Elements
  <2>2. i \in DOMAIN t /\ t[i] = e
    BY <1>1, <2>1
  <2> QED BY <2>2 DEF Elements
<1>4. ASSUME NEW e \in Elements(r) PROVE e \in Elements(t)
  <2>1. PICK i \in 1 .. Len(r) : e = r[i]
    BY <1>1, <1>4 DEF Elements
  <2>2. Len(s) + i \in DOMAIN t /\ t[Len(s) + i] = e
    BY <1>1, <2>1
  <2> QED BY <2>2 DEF Elements
<1>5. Elements(t) = Elements(s) \cup Elements(r)
  BY <1>2, <1>3, <1>4
<1> QED BY <1>5 DEF t

(* The orders of a finite set are sequences, of exactly its elements.      *)
LEMMA OrderFacts ==
    ASSUME NEW S, IsFiniteSet(S), NEW f \in Orders(S)
    PROVE  f \in Seq(S) /\ Elements(f) = S
<1>1. Cardinality(S) \in Nat
  BY FS_CardinalityType
<1>2. f \in [1 .. Cardinality(S) -> S] /\ \A x \in S : \E i \in DOMAIN f : f[i] = x
  BY DEF Orders
<1>3. f \in Seq(S)
  BY <1>1, <1>2, SeqDef
<1> QED BY <1>2, <1>3 DEF Elements

(* The directory entries and the devices that discover() turns to sources. *)
NamesOf(E) == {ByName(e) : e \in E}
HomesOf(E) == {Home[e] : e \in E}
DevicesOf(B) == {[kind |-> "bdf", of |-> b] : b \in B}

LEMMA Discovered ==
    ASSUME NEW E \in SUBSET Endpoints, NEW B \in SUBSET HomesOf(E)
    PROVE  /\ IsFiniteSet(NamesOf(E)) /\ NamesOf(E) \subseteq Source
           /\ IsFiniteSet(DevicesOf(B)) /\ DevicesOf(B) \subseteq Source
<1>1. IsFiniteSet(E)
  BY PmtAssumption, FS_Subset
<1>2. IsFiniteSet(NamesOf(E))
  <2> DEFINE f == [e \in E |-> ByName(e)]
  <2>1. f \in Surjection(E, NamesOf(E))
    BY DEF Surjection, NamesOf
  <2> QED BY <1>1, <2>1, FS_Surjection
<1>3. IsFiniteSet(HomesOf(E))
  <2> DEFINE f == [e \in E |-> Home[e]]
  <2>1. f \in Surjection(E, HomesOf(E))
    BY DEF Surjection, HomesOf
  <2> QED BY <1>1, <2>1, FS_Surjection
<1>4. IsFiniteSet(DevicesOf(B))
  <2> DEFINE f == [b \in B |-> [kind |-> "bdf", of |-> b]]
  <2>1. f \in Surjection(B, DevicesOf(B))
    BY DEF Surjection, DevicesOf
  <2>2. IsFiniteSet(B)
    BY <1>3, FS_Subset
  <2> QED BY <2>1, <2>2, FS_Surjection
<1>5. NamesOf(E) \subseteq Source
  BY DEF NamesOf, ByName, Source
<1>6. DevicesOf(B) \subseteq Source
  BY PmtAssumption DEF DevicesOf, HomesOf, Source
<1> QED BY <1>2, <1>4, <1>5, <1>6

(* What the two directories of discover() answer, however much of them     *)
(* could be read.                                                          *)
LEMMA ClassAnswers ==
    ASSUME TypeOK, DiscoverFromClass
    PROVE  \E given \in SUBSET there :
             /\ left' \in Seq(Source) /\ Elements(left') = NamesOf(given)
             /\ \A e \in there \ given : <<ByName(e), e>> \in missed'
             /\ missed' \subseteq Source \X Endpoints /\ missed \subseteq missed'
<1>1. PICK given \in SUBSET there :
        /\ left' \in Orders(NamesOf(given))
        /\ missed' = missed \cup {<<ByName(e), e>> : e \in there \ given}
  BY DEF DiscoverFromClass, NamesOf, Miss
<1>2. given \subseteq Endpoints /\ there \subseteq Endpoints
      /\ missed \subseteq Source \X Endpoints
  BY DEF TypeOK
<1>3. IsFiniteSet(NamesOf(given)) /\ NamesOf(given) \subseteq Source
  <2>1. {} \in SUBSET HomesOf(given)
    OBVIOUS
  <2> QED BY <1>2, <2>1, Discovered
<1>4. left' \in Seq(NamesOf(given)) /\ Elements(left') = NamesOf(given)
  BY <1>1, <1>3, OrderFacts
<1>5. left' \in Seq(Source)
  BY <1>3, <1>4, SeqMonotonic
<1>6. \A e \in Endpoints : ByName(e) \in Source
  BY DEF ByName, Source
<1> QED BY <1>1, <1>2, <1>4, <1>5, <1>6

LEMMA PciAnswers ==
    ASSUME TypeOK, DiscoverFromPci
    PROVE  \E given \in SUBSET HomesOf(there) :
             /\ left' \in Seq(Source) /\ Elements(left') = Elements(left) \cup DevicesOf(given)
             /\ \A e \in there : Home[e] \notin given => <<ByDevice(e), e>> \in missed'
             /\ missed' \subseteq Source \X Endpoints /\ missed \subseteq missed'
<1>1. PICK given \in SUBSET HomesOf(there) :
        /\ \E more \in Orders(DevicesOf(given)) : left' = left \o more
        /\ missed' = missed \cup {<<ByDevice(e), e>> : e \in {x \in there : Home[x] \notin given}}
  BY DEF DiscoverFromPci, DevicesOf, HomesOf, Miss
<1>2. there \subseteq Endpoints /\ missed \subseteq Source \X Endpoints /\ left \in Seq(Source)
  BY DEF TypeOK
<1>3. PICK more \in Orders(DevicesOf(given)) : left' = left \o more
  BY <1>1
<1>4. IsFiniteSet(DevicesOf(given)) /\ DevicesOf(given) \subseteq Source
  BY <1>2, Discovered
<1>5. more \in Seq(DevicesOf(given)) /\ Elements(more) = DevicesOf(given)
  BY <1>4, OrderFacts
<1>6. more \in Seq(Source)
  BY <1>4, <1>5, SeqMonotonic
<1>7. left' \in Seq(Source)
  BY <1>2, <1>3, <1>6
<1>8. Elements(left') = Elements(left) \cup DevicesOf(given)
  BY <1>2, <1>3, <1>5, <1>6, ConcatElements
<1>9. \A e \in Endpoints : ByDevice(e) \in Source
  BY PmtAssumption DEF ByDevice, Source
<1> QED BY <1>1, <1>2, <1>7, <1>8, <1>9
---------------------------------------------------------------------------
(* The state keeps its shape.                                              *)

LEMMA InitTypes == Init => TypeOK
<1> SUFFICES ASSUME Init PROVE TypeOK
  OBVIOUS
<1>1. \A S : << >> \in Seq(S)
  OBVIOUS
<1> QED BY <1>1, PmtAssumption DEF Init, TypeOK

LEMMA NextTypes == TypeOK /\ [Next]_vars => TypeOK'
<1> SUFFICES ASSUME TypeOK, [Next]_vars PROVE TypeOK'
  OBVIOUS
<1> USE DEF TypeOK, sysfs
<1>1. CASE Start
  BY <1>1 DEF Start
<1>2. CASE DiscoverFromClass
  <2>1. left' \in Seq(Source) /\ missed' \subseteq Source \X Endpoints
    BY <1>2, ClassAnswers
  <2> QED BY <1>2, <2>1 DEF DiscoverFromClass
<1>3. CASE DiscoverFromPci
  <2>1. left' \in Seq(Source) /\ missed' \subseteq Source \X Endpoints
    BY <1>3, PciAnswers
  <2> QED BY <1>3, <2>1 DEF DiscoverFromPci
<1>4. CASE NextSource
  <2>1. Head(left) \in Source
    BY <1>4 DEF NextSource
  <2>2. Reach(Head(left)) \subseteq Endpoints
    BY <2>1 DEF Reach, Source
  <2>3. pending' \subseteq Endpoints /\ missed' \subseteq Source \X Endpoints
    BY <1>4, <2>1, <2>2 DEF NextSource, Miss
  <2> QED BY <1>4, <2>3 DEF NextSource
<1>5. CASE RefuseSource
  BY <1>5 DEF RefuseSource
<1>6. CASE CheckEntry
  <2>1. PICK e \in pending :
          /\ pending' = pending \ {e}
          /\ \/ /\ todo' = Append(todo, e) /\ listed' = Append(listed, e)
                /\ missed' = missed
             \/ /\ UNCHANGED <<todo, listed>>
                /\ missed' = missed \cup ({Head(left)} \X ({e} \cap there))
    BY <1>6 DEF CheckEntry, Miss
  <2>2. todo' \in Seq(Endpoints) /\ listed' \in Seq(Endpoints)
    <3>1. e \in Endpoints
      BY <2>1
    <3>2. Append(todo, e) \in Seq(Endpoints) /\ Append(listed, e) \in Seq(Endpoints)
      BY <3>1
    <3> QED BY <2>1, <3>2
  <2>3. Head(left) \in Source
    BY <1>6 DEF CheckEntry
  <2>4. missed' \subseteq Source \X Endpoints
    BY <2>1, <2>3
  <2> QED BY <1>6, <2>1, <2>2, <2>4 DEF CheckEntry
<1>7. CASE Listed
  <2>1. left # << >> => left' \in Seq(Source)
    BY <1>7 DEF Listed
  <2>2. left = << >> => left' \in Seq(Source)
    BY <1>7 DEF Listed
  <2> QED BY <1>7, <2>1, <2>2 DEF Listed
<1>8. CASE WriteCommand
  <2>1. applied' \in Seq(Endpoints) /\ todo' \in Seq(Endpoints)
    BY <1>8 DEF WriteCommand, Commanding
  <2> QED BY <1>8, <2>1 DEF WriteCommand
<1>9. CASE WriteFails
  BY <1>9 DEF WriteFails, Commanding
<1>10. CASE ReadRecords
  <2>1. got' \in Seq(Endpoints) /\ todo' \in Seq(Endpoints)
    BY <1>10 DEF ReadRecords, Extracting
  <2> QED BY <1>10, <2>1 DEF ReadRecords
<1>11. CASE ReadNothing
  <2>1. todo' \in Seq(Endpoints)
    BY <1>11 DEF ReadNothing, Extracting
  <2> QED BY <1>11, <2>1 DEF ReadNothing
<1>12. CASE SourceFails
  BY <1>12 DEF SourceFails, Extracting
<1>13. CASE SourceDone
  <2>1. results' \in Seq(Endpoints) /\ got' \in Seq(Endpoints)
    BY <1>13 DEF SourceDone
  <2> QED BY <1>13, <2>1 DEF SourceDone
<1>14. CASE Finish
  BY <1>14 DEF Finish
<1>15. CASE Plug
  <2>1. Changing \subseteq Endpoints
    BY DEF Changing
  <2> QED BY <1>15, <2>1 DEF Plug
<1>16. CASE Collect
  <2>1. Changing \subseteq Endpoints
    BY DEF Changing
  <2> QED BY <1>16, <2>1 DEF Collect
<1>17. CASE UNCHANGED vars
  BY <1>17 DEF vars
<1> QED BY <1>1, <1>2, <1>3, <1>4, <1>5, <1>6, <1>7, <1>8, <1>9, <1>10, <1>11, <1>12,
           <1>13, <1>14, <1>15, <1>16, <1>17 DEF Next, Run

(* Whatever comes and goes in the sysfs, the command's state keeps its     *)
(* shape, and it has an exit code exactly when it has ended.               *)
THEOREM TypeCorrect == Spec => []TypeOK
BY InitTypes, NextTypes, PTL DEF Spec
---------------------------------------------------------------------------
(* What goes on outside the command leaves its own state alone; what the   *)
(* environment has not touched is as it was.                               *)
own == <<request, pc, left, pending, todo, applied, got, results, outcome, listed, missed>>

LEMMA Outside ==
    ASSUME [Next]_vars, ~Run
    PROVE  UNCHANGED own
BY DEF Next, Plug, Collect, vars, own

LEMMA StepFacts ==
    ASSUME TypeOK, [Next]_vars
    PROVE  /\ request' = request /\ entries' = entries /\ touched \subseteq touched'
           /\ missed \subseteq missed'
           /\ \A e \in Endpoints : e \notin touched' =>
                (e \in there' <=> e \in there) /\ content'[e] = content[e]
<1>1. CASE Run
  <2>1. request' = request
    BY <1>1 DEF Run, Start, DiscoverFromClass, DiscoverFromPci, NextSource, RefuseSource,
                CheckEntry, Listed, WriteCommand, WriteFails, ReadRecords, ReadNothing,
                SourceFails, SourceDone, Finish
  <2>2. UNCHANGED sysfs
    BY <1>1 DEF Run, Start, DiscoverFromClass, DiscoverFromPci, NextSource, RefuseSource,
                CheckEntry, Listed, WriteCommand, WriteFails, ReadRecords, ReadNothing,
                SourceFails, SourceDone, Finish
  <2>3. missed \subseteq missed'
    BY <1>1 DEF Run, Start, DiscoverFromClass, DiscoverFromPci, NextSource, RefuseSource,
                CheckEntry, Listed, WriteCommand, WriteFails, ReadRecords, ReadNothing,
                SourceFails, SourceDone, Finish, Miss
  <2> QED BY <2>1, <2>2, <2>3 DEF sysfs
<1>2. CASE Plug
  BY <1>2 DEF Plug
<1>3. CASE Collect
  <2>1. PICK e \in Changing, c \in Content :
          content' = [content EXCEPT ![e] = c] /\ touched' = touched \cup {e}
    BY <1>3 DEF Collect
  <2>2. request' = request /\ entries' = entries /\ there' = there /\ missed' = missed
    BY <1>3 DEF Collect
  <2> QED BY <2>1, <2>2 DEF TypeOK
<1>4. CASE UNCHANGED vars
  BY <1>4 DEF vars
<1> QED BY <1>1, <1>2, <1>3, <1>4 DEF Next

LEMMA ReachType == ASSUME NEW s \in Source PROVE Reach(s) \subseteq Endpoints
BY DEF Reach, Source

(* What is still as it was at the start only fades; what may have made a   *)
(* source fail stays.                                                      *)
LEMMA Fading ==
    ASSUME TypeOK, [Next]_vars, NEW s \in Source
    PROVE  /\ Found(s)' \subseteq Found(s)
           /\ Steady(s)' \subseteq Steady(s)
           /\ MustFail(s)' => MustFail(s)
           /\ MayFail(s) => MayFail(s)'
<1>1. /\ entries' = entries /\ touched \subseteq touched' /\ missed \subseteq missed'
      /\ \A e \in Endpoints : e \notin touched' =>
           (e \in there' <=> e \in there) /\ content'[e] = content[e]
  BY StepFacts
<1>2. /\ Reach(s) \subseteq Endpoints
      /\ Reach(s)' = Reach(s)
  BY ReachType DEF Reach
<1>3. Found(s)' \subseteq Found(s)
  BY <1>1, <1>2 DEF Found, Untouched
<1>4. \A e \in Found(s)' : (CanRead(e) <=> CanRead(e)') /\ content'[e] = content[e]
  BY <1>1, <1>2 DEF Found, Untouched, CanRead
<1>5. Steady(s)' \subseteq Steady(s)
  BY <1>1, <1>3, <1>4 DEF Steady, HasRecord, Found, Untouched
<1>6. MustFail(s)' => MustFail(s)
  BY <1>3, <1>4 DEF MustFail
<1>7. MayFail(s) => MayFail(s)'
  BY <1>1, <1>2 DEF MayFail, CanRead
<1> QED BY <1>3, <1>5, <1>6, <1>7

---------------------------------------------------------------------------
(* Where the command stands: which of its lists are empty, and that an     *)
(* extraction meets no source it does not support.                         *)
Supported ==
    request.op = "extract" =>
      /\ \A i \in DOMAIN request.sources : request.sources[i].kind # "other"
      /\ \A i \in DOMAIN left : left[i].kind # "other"

Lists ==
    /\ pc # "list" => pending = {}
    /\ pc = "list" => left # << >>
    /\ got # << >> => pc = "run" /\ request.op = "extract"
    /\ pc \in {"start", "pci"} => todo = << >> /\ applied = << >> /\ listed = << >> /\ results = << >>
    /\ pc = "start" => left = << >>

Stands ==
    /\ pc = "pci" => Everything
    /\ pc = "next" /\ (~Everything \/ left = << >>) => todo = << >>
    /\ pc = "run" /\ Everything => left = << >>
    /\ pc = "done" /\ (request.op = "extract" \/ outcome = "ok") => left = << >> /\ todo = << >>

Shape == Supported /\ Lists /\ Stands

LEMMA InitShape == Init => Shape
<1> SUFFICES ASSUME Init PROVE Shape
  OBVIOUS
<1>1. /\ pc = "start" /\ left = << >> /\ pending = {} /\ todo = << >>
      /\ applied = << >> /\ got = << >> /\ results = << >> /\ listed = << >>
  BY DEF Init
<1>2. Supported
  BY <1>1, PmtAssumption DEF Init, Supported
<1> QED BY <1>1, <1>2 DEF Shape, Lists, Stands

LEMMA NextShape == TypeOK /\ Shape /\ [Next]_vars => Shape'
<1> SUFFICES ASSUME TypeOK, Shape, [Next]_vars PROVE Shape'
  OBVIOUS
<1>1. /\ request' = request
      /\ Everything' = Everything
  BY StepFacts DEF Everything
<1>2. Lists'
  <2>1. CASE Run
    <3>1. WriteFails => request.op # "extract"
      BY DEF WriteFails, Commanding, Control
    <3> QED BY <2>1, <3>1, <1>1
            DEF Shape, Lists, Run, Start, DiscoverFromClass, DiscoverFromPci, NextSource,
                RefuseSource, CheckEntry, Listed, WriteCommand, WriteFails, ReadRecords,
                ReadNothing, SourceFails, SourceDone, Finish, Commanding, Extracting
  <2>2. CASE ~Run
    BY <2>2, Outside DEF Shape, Lists, own
  <2> QED BY <2>1, <2>2
<1>3. Supported'
  <2>1. ASSUME left' = left \/ (left # << >> /\ left' = Tail(left)) PROVE Supported'
    <3>1. CASE left' = left
      BY <1>1, <3>1 DEF Shape, Supported
    <3>2. CASE left # << >> /\ left' = Tail(left)
      <4>1. \A i \in DOMAIN left' : \E j \in DOMAIN left : left'[i] = left[j]
        BY <3>2 DEF TypeOK
      <4> QED BY <1>1, <4>1 DEF Shape, Supported
    <3> QED BY <2>1, <3>1, <3>2
  <2>2. CASE Start
    BY <1>1, <2>2 DEF Start, Shape, Supported
  <2>3. CASE DiscoverFromClass
    <3>1. PICK given \in SUBSET there : Elements(left') = NamesOf(given)
      BY <2>3, ClassAnswers
    <3>2. \A i \in DOMAIN left' : left'[i] \in NamesOf(given)
      BY <3>1 DEF Elements
    <3>3. \A i \in DOMAIN left' : left'[i].kind # "other"
      BY <3>2 DEF NamesOf, ByName
    <3> QED BY <1>1, <3>3 DEF Shape, Supported
  <2>4. CASE DiscoverFromPci
    <3>1. PICK given \in SUBSET HomesOf(there) :
                 Elements(left') = Elements(left) \cup DevicesOf(given)
      BY <2>4, PciAnswers
    <3>2. request.op = "extract" => \A x \in Elements(left) : x.kind # "other"
      BY DEF Shape, Supported, Elements
    <3>3. request.op = "extract" => \A i \in DOMAIN left' : left'[i].kind # "other"
      <4>1. \A x \in DevicesOf(given) : x.kind # "other"
        BY DEF DevicesOf
      <4>2. \A i \in DOMAIN left' : left'[i] \in Elements(left')
        BY DEF Elements
      <4> QED BY <3>1, <3>2, <4>1, <4>2
    <3> QED BY <1>1, <3>3 DEF Shape, Supported
  <2>5. CASE ~Start /\ ~DiscoverFromClass /\ ~DiscoverFromPci
    <3>1. CASE Run
      BY <2>1, <2>5, <3>1
         DEF Run, NextSource, RefuseSource, CheckEntry, Listed, WriteCommand, WriteFails,
             ReadRecords, ReadNothing, SourceFails, SourceDone, Finish, Shape, Lists
    <3>2. CASE ~Run
      BY <2>1, <3>2, Outside DEF own
    <3> QED BY <3>1, <3>2
  <2> QED BY <2>2, <2>3, <2>4, <2>5
<1>4. Stands'
  <2>1. CASE Start
    BY <1>1, <2>1 DEF Start, Stands, Shape, Lists
  <2>2. CASE DiscoverFromClass \/ DiscoverFromPci
    BY <1>1, <2>2 DEF DiscoverFromClass, DiscoverFromPci, Stands, Shape, Lists
  <2>3. CASE NextSource \/ CheckEntry \/ ReadRecords \/ ReadNothing \/ WriteCommand
    BY <1>1, <2>3 DEF NextSource, CheckEntry, ReadRecords, ReadNothing, WriteCommand,
                      Commanding, Extracting, Stands, Shape
  <2>4. CASE Listed
    BY <1>1, <2>4 DEF Listed, Stands, Shape
  <2>5. CASE RefuseSource
    <3>1. left # << >> /\ Head(left).kind = "other" /\ outcome' = "error" /\ pc' = "done"
      BY <2>5 DEF RefuseSource
    <3>2. 1 \in DOMAIN left /\ Head(left) = left[1]
      BY <3>1 DEF TypeOK
    <3>3. request.op # "extract"
      BY <3>1, <3>2 DEF Shape, Supported
    <3> QED BY <1>1, <3>1, <3>3 DEF Stands, Shape
  <2>6. CASE WriteFails
    <3>1. request.op # "extract"
      BY <2>6 DEF WriteFails, Commanding, Control
    <3> QED BY <1>1, <2>6, <3>1 DEF WriteFails, Stands
  <2>7. CASE SourceFails \/ SourceDone
    BY <1>1, <2>7 DEF SourceFails, SourceDone, Extracting, Stands, Shape
  <2>8. CASE Finish
    BY <1>1, <2>8 DEF Finish, Stands, Shape
  <2>9. CASE ~Run
    BY <1>1, <2>9, Outside DEF own, Stands, Shape
  <2> QED BY <2>1, <2>2, <2>3, <2>4, <2>5, <2>6, <2>7, <2>8, <2>9 DEF Run
<1> QED BY <1>2, <1>3, <1>4 DEF Shape
---------------------------------------------------------------------------
(* The endpoints of the source in hand: those that have stayed in place    *)
(* are still to look up or still to visit.                                 *)
Listing ==
    pc = "list" =>
      /\ pending \subseteq Reach(Head(left))
      /\ Found(Head(left)) \subseteq pending \cup Elements(todo)

(* A control command has been written to the endpoints listed so far, in   *)
(* their order, but for those still to visit; a source that is not waiting *)
(* has been listed.                                                        *)
Commands ==
    request.op \in Control =>
      /\ listed = applied \o todo
      /\ pc # "start" =>
           \A i \in DOMAIN request.sources :
             \/ request.sources[i] \in Elements(left)
             \/ Found(request.sources[i]) \subseteq Elements(listed)

(* An extraction of everything still has before it, or has in hand, every  *)
(* record that was there all along, by each of the two ways to it, unless  *)
(* a directory read missed it on that way.                                 *)
Pulled(s, e) ==
    \/ <<s, e>> \in missed
    \/ s \in Elements(left)
    \/ e \in Elements(todo) \cup Elements(got) \cup Elements(results)

Pulls ==
    Everything =>
      \A e \in Endpoints : HasRecord(e) =>
        /\ pc # "start" => Pulled(ByName(e), e)
        /\ pc \notin {"start", "pci"} => Pulled(ByDevice(e), e)

(* An extraction of named sources takes them in order; the one that it     *)
(* runs on has left the list already.                                      *)
Named == request.op = "extract" /\ ~Everything
Taken == Len(request.sources) - Len(left)
Current == request.sources[Taken]

InOrder ==
    /\ Len(left) <= Len(request.sources)
    /\ pc = "run" => Taken >= 1
    /\ \A j \in DOMAIN left : left[j] = request.sources[Taken + j]

Settled(s) == Steady(s) \subseteq Elements(results) \/ MayFail(s)

Behind == \A i \in 1 .. Taken : (pc = "run" /\ i = Taken) \/ Settled(request.sources[i])

(* What is to visit or has been read is of the source in hand, and what    *)
(* is to visit was there when it was listed.                               *)
Owned ==
    /\ pc = "list" => Elements(todo) \subseteq Reach(Head(left))
    /\ pc = "run" => Elements(todo) \cup Elements(got) \subseteq Reach(Current)
    /\ Elements(todo) \subseteq there \cup touched

(* Of the endpoints of the running source, the garbage is still to meet    *)
(* and the records are read or still to read.                              *)
Holding ==
    pc = "run" =>
      \A e \in Found(Current) : CanRead(e) /\ content[e] # "marker" =>
        e \in Elements(todo) \/ (content[e] = "record" /\ e \in Elements(got))

(* What has been given out came from a source that need not fail.          *)
Sound(e) ==
    \E j \in DOMAIN request.sources :
      e \in Reach(request.sources[j]) /\ ~MustFail(request.sources[j])

Given == \A e \in Elements(results) : Sound(e)

Extracts == Named /\ pc # "start" => InOrder /\ Behind /\ Owned /\ Holding /\ Given

LEMMA InitLists == Init => Listing /\ Commands /\ Pulls /\ Extracts
<1> SUFFICES ASSUME Init PROVE Listing /\ Commands /\ Pulls /\ Extracts
  OBVIOUS
<1>1. /\ pc = "start" /\ left = << >> /\ todo = << >> /\ applied = << >> /\ listed = << >>
  BY DEF Init
<1>2. << >> \o << >> = << >>
  OBVIOUS
<1> QED BY <1>1, <1>2 DEF Listing, Commands, Pulls, Extracts

---------------------------------------------------------------------------
(* The step from a source's directory entries to its endpoints.            *)

LEMMA HeadOfLeft ==
    ASSUME TypeOK, left # << >>
    PROVE  /\ Head(left) \in Source /\ 1 \in DOMAIN left /\ Head(left) = left[1]
           /\ Elements(left) = {Head(left)} \cup Elements(Tail(left))
<1>1. left \in Seq(Source)
  BY DEF TypeOK
<1>2. 1 \in DOMAIN left
  BY <1>1
<1> QED BY <1>1, <1>2, TailElements

LEMMA HeadOfTodo ==
    ASSUME TypeOK, todo # << >>
    PROVE  /\ Head(todo) \in Endpoints /\ Head(todo) \in Elements(todo)
           /\ Elements(todo) = {Head(todo)} \cup Elements(Tail(todo))
<1>1. todo \in Seq(Endpoints)
  BY DEF TypeOK
<1> QED BY <1>1, TailElements

LEMMA EntryChecked ==
    ASSUME TypeOK, CheckEntry
    PROVE  \E e \in pending :
             /\ pending' = pending \ {e}
             /\ \/ /\ e \in there
                   /\ Elements(todo') = Elements(todo) \cup {e}
                   /\ Elements(listed') = Elements(listed) \cup {e}
                \/ /\ UNCHANGED <<todo, listed>>
                   /\ e \in there => <<Head(left), e>> \in missed'
<1>1. PICK e \in pending :
        /\ pending' = pending \ {e}
        /\ \/ /\ e \in there
              /\ todo' = Append(todo, e) /\ listed' = Append(listed, e)
           \/ /\ UNCHANGED <<todo, listed>>
              /\ missed' = missed \cup ({Head(left)} \X ({e} \cap there))
  BY DEF CheckEntry, Miss
<1>2. e \in Endpoints /\ todo \in Seq(Endpoints) /\ listed \in Seq(Endpoints)
  BY DEF TypeOK
<1>3. CASE /\ e \in there
           /\ todo' = Append(todo, e) /\ listed' = Append(listed, e)
  BY <1>1, <1>2, <1>3, AppendElements
<1>4. CASE /\ UNCHANGED <<todo, listed>>
           /\ missed' = missed \cup ({Head(left)} \X ({e} \cap there))
  BY <1>1, <1>4
<1> QED BY <1>1, <1>3, <1>4

LEMMA NextListing == TypeOK /\ Shape /\ Listing /\ [Next]_vars => Listing'
<1> SUFFICES ASSUME TypeOK, Shape, Listing, [Next]_vars, pc' = "list"
             PROVE  /\ pending' \subseteq Reach(Head(left'))
                    /\ Found(Head(left))' \subseteq pending' \cup Elements(todo')
  BY DEF Listing
<1>2. CASE NextSource
  <2>1. left # << >> /\ Head(left) \in Source /\ left' = left /\ UNCHANGED sysfs /\ UNCHANGED todo
    BY <1>2, HeadOfLeft DEF NextSource
  <2>2. /\ Reach(Head(left))' = Reach(Head(left))
        /\ \A e \in Found(Head(left))' :
             e \in Reach(Head(left)) \cap there /\ <<Head(left), e>> \notin missed'
    BY <2>1 DEF Found, Untouched, Reach, sysfs
  <2>3. /\ pending' \subseteq Reach(Head(left))
        /\ \A e \in Reach(Head(left)) \cap there :
             e \in pending' \/ <<Head(left), e>> \in missed'
    BY <1>2 DEF NextSource, Miss
  <2> QED BY <2>1, <2>2, <2>3
<1>3. CASE CheckEntry
  <2>1. PICK e \in pending :
             /\ pending' = pending \ {e}
             /\ \/ /\ e \in there
                   /\ Elements(todo') = Elements(todo) \cup {e}
                \/ /\ UNCHANGED todo
                   /\ e \in there => <<Head(left), e>> \in missed'
    BY <1>3, EntryChecked
  <2>2. pc = "list" /\ left' = left /\ left # << >>
    BY <1>3 DEF CheckEntry, Shape, Lists
  <2>3. Found(Head(left))' \subseteq Found(Head(left))
    BY <2>2, HeadOfLeft, Fading
  <2>4. \A x \in Found(Head(left))' : <<Head(left), x>> \notin missed'
    BY <2>2 DEF Found
  <2>5. Found(Head(left)) \subseteq there
    BY DEF Found, Untouched
  <2> QED BY <2>1, <2>2, <2>3, <2>4, <2>5 DEF Listing
<1>4. CASE ~Run
  <2>1. pc = "list" /\ left' = left /\ left # << >> /\ UNCHANGED <<pending, todo>>
    BY <1>4, Outside DEF own, Shape, Lists
  <2>2. Found(Head(left))' \subseteq Found(Head(left))
    BY <2>1, HeadOfLeft, Fading
  <2> QED BY <2>1, <2>2 DEF Listing
<1>5. CASE Run /\ ~NextSource /\ ~CheckEntry
  BY <1>5 DEF Run, Start, DiscoverFromClass, DiscoverFromPci, RefuseSource, Listed,
              WriteCommand, WriteFails, ReadRecords, ReadNothing, SourceFails, SourceDone,
              Finish, Commanding, Extracting
<1> QED BY <1>2, <1>3, <1>4, <1>5
---------------------------------------------------------------------------
(* The control commands.                                                   *)

LEMMA NextCommands == TypeOK /\ Shape /\ Listing /\ Commands /\ [Next]_vars => Commands'
<1> SUFFICES ASSUME TypeOK, Shape, Listing, Commands, [Next]_vars, request'.op \in Control
             PROVE  /\ listed' = applied' \o todo'
                    /\ pc' # "start" =>
                         \A i \in DOMAIN request'.sources :
                           \/ request'.sources[i] \in Elements(left')
                           \/ Found(request.sources[i])' \subseteq Elements(listed')
  BY DEF Commands
<1>1. request' = request /\ request.op \in Control /\ request.op # "extract" /\ ~Everything
  BY StepFacts DEF Control, Everything
<1>2. listed = applied \o todo
  BY <1>1 DEF Commands
<1>3. \A i \in DOMAIN request.sources :
        /\ request.sources[i] \in Source
        /\ Found(request.sources[i])' \subseteq Found(request.sources[i])
  <2> SUFFICES ASSUME NEW i \in DOMAIN request.sources
               PROVE  /\ request.sources[i] \in Source
                      /\ Found(request.sources[i])' \subseteq Found(request.sources[i])
    OBVIOUS
  <2>1. request.sources[i] \in Source
    BY DEF TypeOK
  <2> QED BY <1>1, <2>1, Fading
<1>4. listed' = applied' \o todo'
  <2>0. todo \in Seq(Endpoints) /\ applied \in Seq(Endpoints) /\ listed \in Seq(Endpoints)
    BY DEF TypeOK
  <2>1. CASE CheckEntry
    <3>1. PICK e \in pending :
            \/ todo' = Append(todo, e) /\ listed' = Append(listed, e)
            \/ UNCHANGED <<todo, listed>>
      BY <2>1 DEF CheckEntry
    <3>2. e \in Endpoints /\ applied' = applied
      BY <2>1 DEF TypeOK, CheckEntry
    <3>3. Append(applied \o todo, e) = applied \o Append(todo, e)
      BY <2>0, <3>2
    <3> QED BY <1>2, <3>1, <3>2, <3>3
  <2>2. CASE WriteCommand
    <3>1. applied' = Append(applied, Head(todo)) /\ todo' = Tail(todo) /\ todo # << >>
          /\ listed' = listed
      BY <2>2 DEF WriteCommand, Commanding
    <3>2. Append(applied, Head(todo)) \o Tail(todo) = applied \o todo
      BY <2>0, <3>1
    <3> QED BY <1>2, <3>1, <3>2
  <2>3. CASE ~CheckEntry /\ ~WriteCommand /\ Run
    <3>1. UNCHANGED <<listed, applied, todo>>
      BY <1>1, <2>3 DEF Run, Start, DiscoverFromClass, DiscoverFromPci, NextSource,
           RefuseSource, Listed, WriteFails, ReadRecords, ReadNothing, SourceFails,
           SourceDone, Finish, Extracting
    <3> QED BY <1>2, <3>1
  <2>4. CASE ~Run
    BY <1>2, <2>4, Outside DEF own
  <2> QED BY <2>1, <2>2, <2>3, <2>4
<1>5. ASSUME NEW i \in DOMAIN request.sources, pc' # "start",
             request.sources[i] \notin Elements(left')
      PROVE  Found(request.sources[i])' \subseteq Elements(listed')
  <2> DEFINE s == request.sources[i]
  <2>1. s \in Source /\ Found(s)' \subseteq Found(s)
    BY <1>3
  <2>2. CASE Start
    BY <1>5, <2>2 DEF Start, Elements
  <2>3. CASE Listed
    <3>1. left # << >> /\ left' = Tail(left) /\ pending = {} /\ pc = "list" /\ listed' = listed
      BY <2>3 DEF Listed, Shape, Lists
    <3>2. CASE s = Head(left)
      <4>1. Found(s) \subseteq Elements(todo)
        BY <3>1, <3>2 DEF Listing
      <4>2. Elements(todo) \subseteq Elements(listed)
        BY <1>2, ConcatElements DEF TypeOK
      <4> QED BY <2>1, <3>1, <4>1, <4>2
    <3>3. CASE s # Head(left)
      <4>1. s \notin Elements(left)
        BY <1>5, <3>1, <3>3, HeadOfLeft
      <4> QED BY <1>1, <2>1, <3>1, <4>1 DEF Commands
    <3> QED BY <3>2, <3>3
  <2>4. CASE CheckEntry
    <3>1. Elements(listed) \subseteq Elements(listed')
      BY <2>4, EntryChecked
    <3>2. left' = left /\ pc # "start"
      BY <2>4 DEF CheckEntry
    <3> QED BY <1>1, <1>5, <2>1, <3>1, <3>2 DEF Commands
  <2>5. ASSUME UNCHANGED <<left, listed>>, pc # "start"
        PROVE  Found(s)' \subseteq Elements(listed')
    BY <1>1, <1>5, <2>1, <2>5 DEF Commands
  <2>6. CASE Run /\ ~Start /\ ~Listed /\ ~CheckEntry
    <3>1. UNCHANGED <<left, listed>> /\ pc # "start"
      BY <1>1, <2>6 DEF Run, DiscoverFromClass, DiscoverFromPci, NextSource,
           RefuseSource, WriteCommand, WriteFails, ReadRecords, ReadNothing, SourceFails,
           SourceDone, Finish, Commanding, Extracting, Shape, Stands
    <3> QED BY <2>5, <3>1
  <2>7. CASE ~Run
    BY <1>5, <2>5, <2>7, Outside DEF own
  <2> QED BY <2>2, <2>3, <2>4, <2>6, <2>7
<1> QED BY <1>1, <1>4, <1>5

---------------------------------------------------------------------------
(* The extraction of everything.                                           *)

(* The records that were there all along before a step: they were there    *)
(* all along after the step before.                                        *)
LEMMA RecordsFade ==
    ASSUME TypeOK, [Next]_vars, NEW e \in Endpoints, HasRecord(e)'
    PROVE  HasRecord(e)
BY StepFacts DEF HasRecord, CanRead

LEMMA NextPulled ==
    ASSUME TypeOK, Shape, Listing, [Next]_vars, Everything, pc # "start",
           NEW s \in Source, NEW e \in Reach(s), HasRecord(e)', Pulled(s, e)
    PROVE  \/ <<s, e>> \in missed'
           \/ s \in Elements(left')
           \/ e \in Elements(todo') \cup Elements(got') \cup Elements(results')
<1>1. missed \subseteq missed' /\ e \in Endpoints /\ HasRecord(e)
  BY StepFacts, RecordsFade, ReachType
<1>2. /\ e \in there /\ e \notin touched /\ CanRead(e) /\ content[e] = "record"
  BY <1>1 DEF HasRecord
<1>3. \/ <<s, e>> \in missed'
      \/ s \in Elements(left)
      \/ e \in Elements(todo) \cup Elements(got) \cup Elements(results)
  BY <1>1 DEF Pulled
<1>4. /\ todo \in Seq(Endpoints) /\ got \in Seq(Endpoints) /\ results \in Seq(Endpoints)
      /\ left \in Seq(Source)
  BY DEF TypeOK
<1>5. CASE DiscoverFromPci
  <2>1. Elements(left) \subseteq Elements(left')
    BY <1>5, PciAnswers
  <2> QED BY <1>3, <1>5, <2>1 DEF DiscoverFromPci
<1>6. CASE Listed
  <2>1. left # << >> /\ left' = Tail(left) /\ pending = {} /\ pc = "list"
        /\ UNCHANGED <<todo, got, results>>
    BY <1>6 DEF Listed, Shape, Lists
  <2>2. CASE s = Head(left)
    <3>1. CASE <<s, e>> \in missed
      BY <1>1, <3>1
    <3>2. CASE <<s, e>> \notin missed
      <4>1. e \in Found(Head(left))
        BY <1>2, <2>2, <3>2 DEF Found, Untouched
      <4> QED BY <2>1, <4>1 DEF Listing
    <3> QED BY <3>1, <3>2
  <2>3. CASE s # Head(left)
    BY <1>3, <2>1, <2>3, HeadOfLeft
  <2> QED BY <2>2, <2>3
<1>7. CASE CheckEntry
  <2>1. Elements(todo) \subseteq Elements(todo')
    BY <1>7, EntryChecked
  <2> QED BY <1>3, <1>7, <2>1 DEF CheckEntry
<1>8. CASE ReadRecords
  <2>1. todo # << >> /\ todo' = Tail(todo) /\ got' = Append(got, Head(todo))
        /\ UNCHANGED <<left, results>> /\ pc = "run"
    BY <1>8 DEF ReadRecords, Extracting
  <2>2. Elements(got') = Elements(got) \cup {Head(todo)}
    BY <1>4, <2>1, HeadOfTodo, AppendElements
  <2> QED BY <1>3, <2>1, <2>2, HeadOfTodo
<1>9. CASE ReadNothing
  <2>1. todo # << >> /\ todo' = Tail(todo) /\ Skips(Head(todo))
        /\ UNCHANGED <<left, got, results>> /\ pc = "run"
    BY <1>9 DEF ReadNothing, Extracting
  <2>2. Head(todo) # e
    BY <1>2, <2>1 DEF Skips
  <2> QED BY <1>3, <2>1, <2>2, HeadOfTodo
<1>10. CASE SourceDone
  <2>1. todo = << >> /\ todo' = todo /\ left' = left /\ results' = results \o got /\ pc = "run"
    BY <1>10 DEF SourceDone
  <2>2. Elements(results') = Elements(results) \cup Elements(got)
    BY <1>4, <2>1, ConcatElements
  <2> QED BY <1>3, <2>1, <2>2
<1>11. CASE Start \/ DiscoverFromClass \/ SourceFails \/ WriteCommand \/ WriteFails
  BY <1>11 DEF Start, DiscoverFromClass, SourceFails, WriteCommand, WriteFails,
                     Commanding, Control, Everything
<1>12. CASE NextSource \/ RefuseSource \/ Finish
  BY <1>3, <1>12 DEF NextSource, RefuseSource, Finish
<1>13. CASE ~Run
  BY <1>3, <1>13, Outside DEF own
<1> QED BY <1>5, <1>6, <1>7, <1>8, <1>9, <1>10, <1>11, <1>12, <1>13 DEF Run
LEMMA NextPulls == TypeOK /\ Shape /\ Listing /\ Pulls /\ [Next]_vars => Pulls'
<1> SUFFICES ASSUME TypeOK, Shape, Listing, Pulls, [Next]_vars, Everything',
                    NEW e \in Endpoints, HasRecord(e)'
             PROVE  /\ pc' # "start" => Pulled(ByName(e), e)'
                    /\ pc' \notin {"start", "pci"} => Pulled(ByDevice(e), e)'
  BY DEF Pulls
<1>1. request' = request /\ Everything /\ HasRecord(e)
  BY StepFacts, RecordsFade DEF Everything
<1>2. /\ ByName(e) \in Source /\ e \in Reach(ByName(e)) /\ ByName(e)' = ByName(e)
      /\ ByDevice(e) \in Source /\ e \in Reach(ByDevice(e)) /\ ByDevice(e)' = ByDevice(e)
  BY PmtAssumption DEF ByName, ByDevice, Source, Reach
<1>3. /\ pc # "start" => Pulled(ByName(e), e)
      /\ pc \notin {"start", "pci"} => Pulled(ByDevice(e), e)
  BY <1>1 DEF Pulls
<1>4. ASSUME pc # "start" PROVE Pulled(ByName(e), e)'
  BY <1>1, <1>2, <1>3, <1>4, NextPulled DEF Pulled
<1>5. ASSUME pc \notin {"start", "pci"} PROVE Pulled(ByDevice(e), e)'
  BY <1>1, <1>2, <1>3, <1>5, NextPulled DEF Pulled
<1>6. CASE DiscoverFromClass
  <2>1. PICK given \in SUBSET there :
          /\ Elements(left') = NamesOf(given)
          /\ \A x \in there \ given : <<ByName(x), x>> \in missed'
    BY <1>6, ClassAnswers
  <2>2. e \in there /\ pc' = "pci"
    BY <1>1, <1>6 DEF HasRecord, DiscoverFromClass
  <2>3. ByName(e) \in Elements(left') \/ <<ByName(e), e>> \in missed'
    BY <2>1, <2>2 DEF NamesOf
  <2> QED BY <1>2, <2>2, <2>3 DEF Pulled
<1>7. CASE DiscoverFromPci
  <2>1. PICK given \in SUBSET HomesOf(there) :
          /\ Elements(left') = Elements(left) \cup DevicesOf(given)
          /\ \A x \in there : Home[x] \notin given => <<ByDevice(x), x>> \in missed'
    BY <1>7, PciAnswers
  <2>2. e \in there /\ pc # "start"
    BY <1>1, <1>7 DEF HasRecord, DiscoverFromPci
  <2>3. ByDevice(e) \in Elements(left') \/ <<ByDevice(e), e>> \in missed'
    BY <2>1, <2>2 DEF DevicesOf, ByDevice
  <2> QED BY <1>2, <1>4, <2>2, <2>3 DEF Pulled
<1>8. CASE ~DiscoverFromClass /\ ~DiscoverFromPci
  <2>1. ~Start
    BY <1>1 DEF Start
  <2>2. pc = "start" => pc' = "start"
    <3>1. CASE Run
      BY <1>8, <2>1, <3>1
         DEF Run, NextSource, RefuseSource, CheckEntry, Listed, WriteCommand, WriteFails,
             ReadRecords, ReadNothing, SourceFails, SourceDone, Finish, Commanding, Extracting
    <3>2. CASE ~Run
      BY <3>2, Outside DEF own
    <3> QED BY <3>1, <3>2
  <2>3. pc = "pci" => pc' = "pci"
    <3>1. CASE Run
      BY <1>8, <2>1, <3>1
         DEF Run, NextSource, RefuseSource, CheckEntry, Listed, WriteCommand, WriteFails,
             ReadRecords, ReadNothing, SourceFails, SourceDone, Finish, Commanding, Extracting
    <3>2. CASE ~Run
      BY <3>2, Outside DEF own
    <3> QED BY <3>1, <3>2
  <2> QED BY <1>4, <1>5, <2>2, <2>3
<1> QED BY <1>6, <1>7, <1>8
---------------------------------------------------------------------------
(* The extraction of named sources.                                        *)

LEMMA NamedRun ==
    ASSUME TypeOK, Shape, Named, Run
    PROVE  \/ Start \/ NextSource \/ CheckEntry \/ Listed \/ ReadRecords \/ ReadNothing
           \/ SourceFails \/ SourceDone \/ Finish
<1>1. request.op \notin Control /\ ~Everything
  BY DEF Named, Control
<1>2. ~RefuseSource
  <2> SUFFICES ASSUME left # << >> PROVE Head(left).kind # "other"
    BY DEF RefuseSource
  <2> QED BY HeadOfLeft DEF Shape, Supported, Named
<1>3. ~DiscoverFromClass /\ ~DiscoverFromPci
  BY <1>1 DEF DiscoverFromClass, DiscoverFromPci, Shape, Stands
<1>4. ~WriteCommand /\ ~WriteFails
  BY <1>1 DEF WriteCommand, WriteFails, Commanding
<1> QED BY <1>2, <1>3, <1>4 DEF Run

LEMMA SourceType ==
    ASSUME TypeOK
    PROVE  /\ Len(request.sources) \in Nat /\ DOMAIN request.sources = 1 .. Len(request.sources)
           /\ \A i \in 1 .. Len(request.sources) : request.sources[i] \in Source
           /\ Len(left) \in Nat /\ DOMAIN left = 1 .. Len(left)
BY DEF TypeOK

(* The source in hand: at the head of the list while its entries are       *)
(* looked up, just off it while its endpoints are read.                    *)
LEMMA CurrentFacts ==
    ASSUME TypeOK, InOrder
    PROVE  /\ Taken \in 0 .. Len(request.sources)
           /\ pc = "run" => Taken \in DOMAIN request.sources /\ Current \in Source
           /\ left # << >> => Head(left) = request.sources[Taken + 1]
<1>1. Taken \in 0 .. Len(request.sources)
  BY SourceType DEF InOrder, Taken
<1>2. ASSUME pc = "run" PROVE Taken \in DOMAIN request.sources /\ Current \in Source
  <2>1. Taken \in 1 .. Len(request.sources)
    BY <1>1, <1>2, SourceType DEF InOrder
  <2> QED BY <2>1, SourceType DEF Current
<1>3. ASSUME left # << >> PROVE Head(left) = request.sources[Taken + 1]
  <2>1. 1 \in DOMAIN left /\ Head(left) = left[1]
    BY <1>3, HeadOfLeft
  <2> QED BY <2>1 DEF InOrder
<1> QED BY <1>1, <1>2, <1>3

LEMMA NextInOrder ==
    ASSUME TypeOK, Shape, Named, [Next]_vars, pc # "start" => InOrder, pc' # "start"
    PROVE  InOrder'
<1>1. request' = request
  BY StepFacts
<1>2. /\ Len(request.sources) \in Nat /\ DOMAIN request.sources = 1 .. Len(request.sources)
      /\ Len(left) \in Nat /\ DOMAIN left = 1 .. Len(left)
  BY SourceType
<1>3. CASE Start
  <2>1. left' = request.sources /\ pc' = "next"
    BY <1>3 DEF Start
  <2>2. Len(left') = Len(request.sources)
    BY <2>1
  <2>3. Taken' = 0
    BY <1>1, <1>2, <2>2 DEF Taken
  <2>4. \A j \in DOMAIN left' : left'[j] = request'.sources[0 + j]
    BY <1>1, <1>2, <2>1
  <2> QED BY <1>1, <1>2, <2>1, <2>2, <2>3, <2>4 DEF InOrder
<1>4. CASE Listed
  <2>1. left # << >> /\ left' = Tail(left) /\ pc # "start"
    BY <1>4 DEF Listed, Shape, Lists
  <2>2. /\ Len(left') = Len(left) - 1 /\ \A j \in DOMAIN left' : left'[j] = left[j + 1]
        /\ DOMAIN left' = 1 .. Len(left) - 1
    BY <2>1, TailElements DEF TypeOK
  <2>3. Taken' = Taken + 1 /\ Taken \in Nat
    BY <1>1, <1>2, <2>1, <2>2 DEF Taken, InOrder
  <2>4. ASSUME NEW j \in DOMAIN left' PROVE left'[j] = request'.sources[Taken' + j]
    <3>1. j + 1 \in DOMAIN left /\ left'[j] = left[j + 1]
      BY <1>2, <2>2
    <3>2. left[j + 1] = request.sources[Taken + (j + 1)]
      BY <2>1, <3>1 DEF InOrder
    <3>3. Taken + (j + 1) = Taken' + j
      BY <2>2, <2>3, <1>2
    <3> QED BY <1>1, <3>1, <3>2, <3>3
  <2> QED BY <1>1, <1>2, <2>1, <2>2, <2>3, <2>4 DEF InOrder
<1>5. CASE \/ NextSource \/ CheckEntry \/ ReadRecords \/ ReadNothing
           \/ SourceFails \/ SourceDone \/ Finish
  BY <1>1, <1>5 DEF NextSource, CheckEntry, ReadRecords, ReadNothing, SourceFails, SourceDone,
                    Finish, Extracting, InOrder, Taken
<1>6. CASE ~Run
  BY <1>6, Outside DEF own, InOrder, Taken
<1> QED BY <1>3, <1>4, <1>5, <1>6, NamedRun

LEMMA SettledStays ==
    ASSUME TypeOK, [Next]_vars, NEW s \in Source, Settled(s),
           Elements(results) \subseteq Elements(results')
    PROVE  Settled(s)'
<1>1. Steady(s)' \subseteq Steady(s) /\ (MayFail(s) => MayFail(s)')
  BY Fading
<1> QED BY <1>1 DEF Settled, Elements

(* A source that fails had an endpoint that may make it fail; one that is  *)
(* done has given every record that was there all along.                   *)
LEMMA NextBehind ==
    ASSUME TypeOK, Shape, Named, [Next]_vars, pc' # "start",
           pc # "start" => InOrder /\ Behind /\ Owned /\ Holding
    PROVE  Behind'
<1>1. request' = request
  BY StepFacts
<1>2. /\ Len(request.sources) \in Nat
      /\ \A i \in 1 .. Len(request.sources) : request.sources[i] \in Source
      /\ Len(left) \in Nat
  BY SourceType
<1>3. CASE Start
  <2>1. Taken' = 0
    BY <1>1, <1>2, <1>3 DEF Start, Taken
  <2> QED BY <2>1 DEF Behind
<1>4. ASSUME pc # "start" PROVE Taken \in 0 .. Len(request.sources)
  BY <1>4, CurrentFacts
<1>5. ASSUME NEW s \in Source, Settled(s), results' = results \/ SourceDone PROVE Settled(s)'
  <2>1. Elements(results) \subseteq Elements(results')
    <3>1. CASE SourceDone
      BY <3>1, ConcatElements DEF SourceDone, TypeOK
    <3> QED BY <1>5, <3>1
  <2> QED BY <1>5, <2>1, SettledStays
<1>6. CASE Listed
  <2>1. left # << >> /\ left' = Tail(left) /\ pc = "list" /\ pc' = "run" /\ results' = results
    BY <1>6 DEF Listed, Shape, Lists, Named
  <2>2. Taken' = Taken + 1
    BY <1>1, <1>2, <2>1, TailElements DEF Taken, TypeOK
  <2>3. ASSUME NEW i \in 1 .. Taken', ~(pc' = "run" /\ i = Taken')
        PROVE  Settled(request.sources[i])'
    <3>1. i \in 1 .. Taken /\ i \in 1 .. Len(request.sources)
      BY <1>4, <2>1, <2>2, <2>3
    <3>2. Settled(request.sources[i])
      BY <2>1, <3>1 DEF Behind
    <3> QED BY <1>1, <1>2, <1>5, <2>1, <3>1, <3>2
  <2> QED BY <1>1, <2>3 DEF Behind
<1>7. CASE SourceFails \/ SourceDone
  <2>1. pc = "run" /\ left' = left /\ pc' = "next"
    BY <1>7 DEF SourceFails, SourceDone, Extracting
  <2>2. Taken' = Taken
    BY <1>1, <2>1 DEF Taken
  <2>3. Taken \in DOMAIN request.sources /\ Current \in Source
    BY <2>1, CurrentFacts
  <2>4. ASSUME SourceFails PROVE MayFail(Current)
    <3>1. todo # << >> /\ (CanRead(Head(todo)) => content[Head(todo)] = "garbage")
      BY <2>4 DEF SourceFails, Extracting
    <3>2. Head(todo) \in Elements(todo)
      BY <3>1, HeadOfTodo
    <3>3. Head(todo) \in Reach(Current) /\ Head(todo) \in there \cup touched
      BY <2>1, <3>2 DEF Owned
    <3> QED BY <3>1, <3>3 DEF MayFail
  <2>5. ASSUME SourceDone PROVE Steady(Current) \subseteq Elements(results')
    <3>1. todo = << >> /\ results' = results \o got
      BY <2>5 DEF SourceDone
    <3>2. Elements(results') = Elements(results) \cup Elements(got)
      BY <3>1, ConcatElements DEF TypeOK
    <3>3. \A e \in Steady(Current) : e \in Elements(todo) \/ e \in Elements(got)
      BY <2>1 DEF Holding, Steady, HasRecord
    <3> QED BY <3>1, <3>2, <3>3, NoElements
  <2>6. ASSUME NEW s \in Source, s = Current PROVE Settled(s)'
    <3>1. Steady(s)' \subseteq Steady(s) /\ (MayFail(s) => MayFail(s)')
      BY Fading
    <3>2. CASE SourceFails
      BY <2>4, <2>6, <3>1, <3>2 DEF Settled
    <3>3. CASE SourceDone
      BY <2>5, <2>6, <3>1, <3>3 DEF Settled, Elements
    <3> QED BY <1>7, <3>2, <3>3
  <2>7. ASSUME NEW i \in 1 .. Taken PROVE Settled(request.sources[i])'
    <3>1. i \in 1 .. Len(request.sources) /\ request.sources[i] \in Source
      BY <1>2, <1>4, <2>1
    <3>2. CASE i = Taken
      BY <1>1, <2>3, <2>6, <3>1, <3>2 DEF Current
    <3>3. CASE i # Taken
      <4>1. Settled(request.sources[i])
        BY <2>1, <3>3 DEF Behind
      <4>2. results' = results \/ SourceDone
        BY <1>7 DEF SourceFails
      <4> QED BY <1>1, <1>5, <3>1, <4>1, <4>2
    <3> QED BY <3>2, <3>3
  <2> QED BY <1>1, <2>2, <2>7 DEF Behind
<1>8. CASE \/ NextSource \/ CheckEntry \/ ReadRecords \/ ReadNothing \/ Finish \/ ~Run
  <2>1. UNCHANGED <<left, results>> /\ pc # "start" /\ (pc = "run" <=> pc' = "run")
    <3>1. CASE ~Run
      BY <3>1, Outside DEF own
    <3> QED BY <1>8, <3>1 DEF NextSource, CheckEntry, ReadRecords, ReadNothing, Finish, Extracting
  <2>2. Taken' = Taken
    BY <1>1, <2>1 DEF Taken
  <2>3. ASSUME NEW i \in 1 .. Taken, ~(pc' = "run" /\ i = Taken)
        PROVE  Settled(request.sources[i])'
    <3>1. i \in 1 .. Len(request.sources) /\ request.sources[i] \in Source
      BY <1>2, <1>4, <2>1
    <3>2. Settled(request.sources[i])
      BY <2>1, <2>3 DEF Behind
    <3> QED BY <1>1, <1>5, <2>1, <3>1, <3>2
  <2> QED BY <1>1, <2>2, <2>3 DEF Behind
<1> QED BY <1>3, <1>6, <1>7, <1>8, NamedRun
LEMMA NextOwned ==
    ASSUME TypeOK, Shape, Listing, Named, [Next]_vars, pc # "start" => InOrder /\ Owned
    PROVE  pc' # "start" => Owned'
<1> SUFFICES ASSUME pc' # "start" PROVE Owned'
  OBVIOUS
<1>1. request' = request
  BY StepFacts
<1>2. Elements(todo) \subseteq Endpoints /\ Elements(todo') \subseteq Endpoints
  BY NextTypes DEF Elements, TypeOK
<1>3. \A e \in Endpoints : e \in there \cup touched => e \in there' \cup touched'
  BY StepFacts
<1>4. ASSUME Elements(todo') \subseteq Elements(todo), pc # "start"
      PROVE  Elements(todo') \subseteq there' \cup touched'
  BY <1>2, <1>3, <1>4 DEF Owned
<1>5. ASSUME left' = left PROVE Taken' = Taken /\ Current' = Current
  BY <1>1, <1>5 DEF Taken, Current
<1>6. CASE Start \/ NextSource \/ SourceFails \/ SourceDone \/ Finish
  <2>1. todo' = << >> /\ pc' # "run"
    BY <1>6 DEF Start, NextSource, SourceFails, SourceDone, Finish, Extracting, Shape, Lists,
                Stands, Named
  <2> QED BY <2>1, NoElements DEF Owned
<1>7. CASE CheckEntry
  <2>1. PICK e \in pending :
               \/ e \in there /\ Elements(todo') = Elements(todo) \cup {e}
               \/ UNCHANGED todo
    BY <1>7, EntryChecked
  <2>2. pc = "list" /\ pc' = pc /\ left' = left /\ UNCHANGED sysfs
    BY <1>7 DEF CheckEntry
  <2>3. e \in Reach(Head(left)) /\ Elements(todo) \subseteq Reach(Head(left))
    BY <2>2 DEF Listing, Owned
  <2>4. Elements(todo') \subseteq there' \cup touched'
    BY <2>1, <2>2 DEF Owned, sysfs
  <2> QED BY <2>1, <2>2, <2>3, <2>4 DEF Owned, Reach
<1>8. CASE Listed
  <2>1. left # << >> /\ left' = Tail(left) /\ pc = "list" /\ pc' = "run"
        /\ UNCHANGED <<todo, got>> /\ got = << >>
    BY <1>8 DEF Listed, Shape, Lists, Named
  <2>2. Taken' = Taken + 1
    BY <1>1, <2>1, SourceType, TailElements DEF Taken, TypeOK
  <2>3. Current' = Head(left)
    BY <1>1, <2>1, <2>2, CurrentFacts DEF Current
  <2>4. Elements(todo) \subseteq Reach(Head(left))
    BY <2>1 DEF Owned
  <2>5. Reach(Current)' = Reach(Head(left))
    BY <2>3 DEF Reach
  <2> QED BY <1>4, <2>1, <2>4, <2>5, NoElements DEF Owned
<1>9. CASE ReadRecords \/ ReadNothing
  <2>1. todo # << >> /\ todo' = Tail(todo) /\ left' = left /\ pc = "run" /\ pc' = "run"
        /\ (got' = got \/ got' = Append(got, Head(todo)))
    BY <1>9 DEF ReadRecords, ReadNothing, Extracting
  <2>2. Elements(got') \subseteq Elements(got) \cup {Head(todo)}
    <3>1. CASE got' = Append(got, Head(todo))
      BY <2>1, <3>1, HeadOfTodo, AppendElements DEF TypeOK
    <3> QED BY <2>1, <3>1
  <2>3. Elements(todo') \cup Elements(got') \subseteq Reach(Current)
    BY <2>1, <2>2, HeadOfTodo DEF Owned
  <2>4. Reach(Current)' = Reach(Current)
    BY <1>5, <2>1 DEF Reach
  <2> QED BY <1>4, <2>1, <2>3, <2>4, HeadOfTodo DEF Owned
<1>10. CASE ~Run
  <2>1. UNCHANGED <<pc, left, todo, got>>
    BY <1>10, Outside DEF own
  <2>2. Reach(Current)' = Reach(Current)
    BY <1>5, <2>1 DEF Reach
  <2>3. Reach(Head(left))' = Reach(Head(left))
    BY <2>1 DEF Reach
  <2> QED BY <1>4, <2>1, <2>2, <2>3 DEF Owned
<1> QED BY <1>6, <1>7, <1>8, <1>9, <1>10, NamedRun

(* An endpoint still untouched after a step reads as it did before it.     *)
LEMMA FoundSame ==
    ASSUME TypeOK, [Next]_vars, NEW s \in Source, NEW e \in Found(s)'
    PROVE  /\ e \in Found(s) /\ (CanRead(e)' <=> CanRead(e)) /\ content'[e] = content[e]
<1>1. e \in Endpoints /\ e \notin touched'
  BY ReachType DEF Found, Untouched, Reach
<1> QED BY <1>1, Fading, StepFacts DEF CanRead

LEMMA NextHolding ==
    ASSUME TypeOK, Shape, Listing, Named, [Next]_vars,
           pc # "start" => InOrder /\ Holding
    PROVE  Holding'
<1> SUFFICES ASSUME pc' = "run" PROVE Holding'
  BY DEF Holding
<1>1. request' = request
  BY StepFacts
<1>2. ASSUME left' = left PROVE Taken' = Taken /\ Current' = Current
  BY <1>1, <1>2 DEF Taken, Current
<1> DEFINE Held(e) == \/ e \in Elements(todo')
                      \/ content'[e] = "record" /\ e \in Elements(got')
<1>3. CASE Listed
  <2>1. left # << >> /\ left' = Tail(left) /\ pc = "list" /\ pending = {} /\ todo' = todo
    BY <1>3 DEF Listed, Shape, Lists
  <2>2. Taken' = Taken + 1
    BY <1>1, <2>1, SourceType, TailElements DEF Taken, TypeOK
  <2>3. Current' = Head(left)
    BY <1>1, <2>1, <2>2, CurrentFacts DEF Current
  <2>4. ASSUME NEW s \in Source, s = Head(left), NEW e \in Found(s)' PROVE Held(e)
    <3>1. e \in Found(s)
      BY <2>4, FoundSame
    <3>2. Found(Head(left)) \subseteq Elements(todo)
      BY <2>1 DEF Listing
    <3> QED BY <2>1, <2>4, <3>1, <3>2
  <2>5. Head(left) \in Source
    BY <2>1, HeadOfLeft
  <2> QED BY <2>3, <2>4, <2>5 DEF Holding, Found, Untouched
<1>4. ASSUME pc = "run", left' = left,
             \A e \in Elements(todo) \cup Elements(got) :
               CanRead(e) /\ content[e] = content'[e] /\ content[e] # "marker"
                 /\ (e \in Elements(todo) \/ content[e] = "record") => Held(e)
      PROVE  Holding'
  <2>1. Current \in Source /\ Current' = Current
    BY <1>2, <1>4, CurrentFacts
  <2>2. ASSUME NEW s \in Source, s = Current, NEW e \in Found(s)',
               CanRead(e)', content'[e] # "marker"
        PROVE  Held(e)
    <3>1. e \in Found(Current) /\ CanRead(e) /\ content'[e] = content[e]
      BY <2>2, FoundSame
    <3>2. e \in Elements(todo) \/ (content[e] = "record" /\ e \in Elements(got))
      BY <1>4, <2>2, <3>1 DEF Holding
    <3> QED BY <1>4, <2>2, <3>1, <3>2
  <2> QED BY <2>1, <2>2 DEF Holding, Found, Untouched
<1>5. CASE ReadRecords
  <2>1. todo # << >> /\ todo' = Tail(todo) /\ left' = left /\ pc = "run"
        /\ got' = Append(got, Head(todo)) /\ content[Head(todo)] = "record"
    BY <1>5 DEF ReadRecords, Extracting
  <2>2. Elements(got') = Elements(got) \cup {Head(todo)}
    BY <2>1, HeadOfTodo, AppendElements DEF TypeOK
  <2> QED BY <1>4, <2>1, <2>2, HeadOfTodo
<1>6. CASE ReadNothing
  <2>1. todo # << >> /\ todo' = Tail(todo) /\ left' = left /\ pc = "run" /\ got' = got
        /\ content[Head(todo)] = "marker"
    BY <1>6 DEF ReadNothing, Extracting, Skips, Named
  <2> QED BY <1>4, <2>1, HeadOfTodo
<1>7. CASE ~Run
  <2>1. UNCHANGED <<pc, left, todo, got>>
    BY <1>7, Outside DEF own
  <2> QED BY <1>4, <2>1
<1>8. CASE Start \/ NextSource \/ CheckEntry \/ SourceFails \/ SourceDone \/ Finish
  BY <1>8 DEF Start, NextSource, CheckEntry, SourceFails, SourceDone, Finish
<1> QED BY <1>3, <1>5, <1>6, <1>7, <1>8, NamedRun
(* A source that is done met no garbage, so it need not fail.              *)
LEMMA NextGiven ==
    ASSUME TypeOK, Shape, Named, [Next]_vars,
           pc # "start" => InOrder /\ Owned /\ Holding /\ Given
    PROVE  Given'
<1>1. request' = request
  BY StepFacts
<1>2. ASSUME NEW e, Sound(e) PROVE Sound(e)'
  <2>1. PICK j \in DOMAIN request.sources :
               e \in Reach(request.sources[j]) /\ ~MustFail(request.sources[j])
    BY <1>2 DEF Sound
  <2>2. request.sources[j] \in Source
    BY SourceType
  <2>3. ASSUME NEW s \in Source, s = request.sources[j]
        PROVE  e \in Reach(s) /\ ~MustFail(s)'
    BY <2>1, <2>3, Fading
  <2>4. ~MustFail(request.sources[j])'
    BY <1>1, <2>2, <2>3 DEF MustFail, Found, Untouched
  <2>5. e \in Reach(request.sources[j])'
    BY <1>1, <2>1 DEF Reach
  <2> QED BY <1>1, <2>4, <2>5 DEF Sound
<1>4. CASE SourceDone
  <2>1. pc = "run" /\ todo = << >> /\ results' = results \o got
    BY <1>4 DEF SourceDone
  <2>2. Elements(results') = Elements(results) \cup Elements(got)
    BY <2>1, ConcatElements DEF TypeOK
  <2>3. Taken \in DOMAIN request.sources
    BY <2>1, CurrentFacts
  <2>4. ~MustFail(Current)
    BY <2>1, NoElements DEF MustFail, Holding
  <2>5. ASSUME NEW e \in Elements(got) PROVE Sound(e)
    BY <2>1, <2>3, <2>4, <2>5 DEF Owned, Current, Sound
  <2> QED BY <1>2, <2>1, <2>2, <2>5 DEF Given
<1>5. CASE pc # "start" /\ results' = results
  BY <1>2, <1>5 DEF Given
<1>6. CASE pc = "start" /\ results' = results
  BY <1>6, NoElements DEF Shape, Lists, Given
<1>7. SourceDone \/ results' = results
  <2>1. CASE Run
    BY <2>1, NamedRun DEF Start, NextSource, CheckEntry, Listed, ReadRecords, ReadNothing,
                          SourceFails, Finish
  <2>2. CASE ~Run
    BY <2>2, Outside DEF own
  <2> QED BY <2>1, <2>2
<1> QED BY <1>4, <1>5, <1>6, <1>7

LEMMA NextExtracts == TypeOK /\ Shape /\ Listing /\ Extracts /\ [Next]_vars => Extracts'
<1> SUFFICES ASSUME TypeOK, Shape, Listing, Extracts, [Next]_vars, Named', pc' # "start"
             PROVE  (InOrder /\ Behind /\ Owned /\ Holding /\ Given)'
  BY DEF Extracts
<1>1. Named
  BY StepFacts DEF Named, Everything
<1>2. pc # "start" => InOrder /\ Behind /\ Owned /\ Holding /\ Given
  BY <1>1 DEF Extracts
<1>3. InOrder'
  BY <1>1, <1>2, NextInOrder
<1>4. Behind'
  BY <1>1, <1>2, NextBehind
<1>5. Owned'
  BY <1>1, <1>2, NextOwned
<1>6. Holding'
  BY <1>1, <1>2, NextHolding
<1>7. Given'
  BY <1>1, <1>2, NextGiven
<1> QED BY <1>3, <1>4, <1>5, <1>6, <1>7

---------------------------------------------------------------------------
PInv == Shape /\ Listing /\ Commands /\ Pulls /\ Extracts

LEMMA Always == Spec => [](TypeOK /\ PInv)
<1>1. Init => PInv
  BY InitShape, InitLists DEF PInv
<1>2. TypeOK /\ PInv /\ [Next]_vars => PInv'
  BY NextShape, NextListing, NextCommands, NextPulls, NextExtracts DEF PInv
<1> QED BY TypeCorrect, <1>1, <1>2, PTL DEF Spec

(* A control command passes over no endpoint it has found: it is written   *)
(* to the first of those listed, and a command that ends well to all of    *)
(* them, which are all that the named devices kept and that no directory   *)
(* read missed.                                                            *)
THEOREM CommandsReachAll == Spec => []CommandsAll
<1>1. TypeOK /\ PInv => CommandsAll
  <2> SUFFICES ASSUME TypeOK, Shape, Commands, request.op \in Control
               PROVE  /\ Len(applied) <= Len(listed)
                      /\ \A i \in DOMAIN applied : applied[i] = listed[i]
                      /\ outcome = "ok" =>
                           /\ applied = listed
                           /\ \A i \in DOMAIN request.sources :
                                Found(request.sources[i]) \subseteq Elements(applied)
    BY DEF PInv, CommandsAll
  <2>1. listed = applied \o todo /\ applied \in Seq(Endpoints) /\ todo \in Seq(Endpoints)
    BY DEF Commands, TypeOK
  <2>2. Len(applied) <= Len(listed) /\ \A i \in DOMAIN applied : applied[i] = listed[i]
    BY <2>1
  <2>3. ASSUME outcome = "ok"
        PROVE  /\ applied = listed
               /\ \A i \in DOMAIN request.sources :
                    Found(request.sources[i]) \subseteq Elements(applied)
    <3>1. pc = "done" /\ left = << >> /\ todo = << >>
      BY <2>3 DEF TypeOK, Shape, Stands
    <3>2. applied = listed
      BY <2>1, <3>1
    <3> QED BY <3>1, <3>2, NoElements DEF Commands
  <2> QED BY <2>2, <2>3
<1> QED BY <1>1, Always, PTL

(* An extraction of everything gets every record that was there all along  *)
(* and that the directory reads of one of the two ways to it did not miss, *)
(* whatever other endpoints fail, vanish or change meanwhile.              *)
THEOREM EverythingIsExtracted == Spec => []ExtractsEverything
<1>1. TypeOK /\ PInv => ExtractsEverything
  <2> SUFFICES ASSUME TypeOK, Shape, Pulls, pc = "done", Everything,
                      NEW e \in Endpoints, HasRecord(e)
               PROVE  e \in Elements(results) \/ Missed(e)
    BY DEF PInv, ExtractsEverything
  <2>1. Pulled(ByName(e), e) /\ Pulled(ByDevice(e), e)
    BY DEF Pulls
  <2>2. left = << >> /\ todo = << >> /\ got = << >>
    BY DEF Shape, Lists, Stands, Everything
  <2> QED BY <2>1, <2>2, NoElements DEF Pulled, Missed
<1> QED BY <1>1, Always, PTL

(* A named source gives all the records it has found or fails as a whole.  *)
THEOREM NamedAreExtracted == Spec => []ExtractsNamed
<1>1. TypeOK /\ PInv => ExtractsNamed
  <2> SUFFICES ASSUME TypeOK, Shape, Extracts, pc = "done", Named,
                      NEW i \in DOMAIN request.sources
               PROVE  LET s == request.sources[i] IN
                      /\ Steady(s) \subseteq Elements(results) \/ MayFail(s)
                      /\ MustFail(s) =>
                           \A e \in Elements(results) :
                             \E j \in DOMAIN request.sources \ {i} : e \in Reach(request.sources[j])
    BY DEF PInv, ExtractsNamed, Named
  <2>1. InOrder /\ Behind /\ Given
    BY DEF Extracts
  <2>2. left = << >>
    BY DEF Shape, Stands, Named
  <2>3. Taken = Len(request.sources)
    BY <2>2, SourceType DEF Taken
  <2>4. Settled(request.sources[i])
    BY <2>1, <2>3, SourceType DEF Behind
  <2>5. ASSUME MustFail(request.sources[i]), NEW e \in Elements(results)
        PROVE  \E j \in DOMAIN request.sources \ {i} : e \in Reach(request.sources[j])
    <3>1. PICK j \in DOMAIN request.sources :
                 e \in Reach(request.sources[j]) /\ ~MustFail(request.sources[j])
      BY <2>1, <2>5 DEF Given, Sound
    <3>2. j # i
      BY <2>5, <3>1
    <3> QED BY <3>1, <3>2
  <2> QED BY <2>4, <2>5 DEF Settled
<1> QED BY <1>1, Always, PTL
=============================================================================
