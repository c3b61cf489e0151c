--------------------------- MODULE WindowsProof ---------------------------
(***************************************************************************)
(* Theorems about Windows, the extract and unpack commands with the event  *)
(* log below them: for any number of processes, any command lines, files   *)
(* and events, and however the processes and the system's logging          *)
(* interleave.                                                             *)
(***************************************************************************)
EXTENDS Windows, SequenceTheorems, TLAPS

---------------------------------------------------------------------------
(* The event log.  An event taken is one of the running query; what it has *)
(* collected are the sound events up to the one in hand.                   *)

Found == [of : Events!Log \X Nat, time : Events!Log \X Nat, computer : Events!Log \X Nat]

LogTypes ==
    /\ logs \in [Events!Log -> Seq(Events!Event)] /\ before \in [Events!Log -> Nat]
    /\ \A l \in Events!Log : before[l] <= Len(logs[l])
    /\ turn \in {1, 2} /\ pos \in Nat
    /\ values \in Events!Log \X Nat
    /\ crashlogs \in Seq(Found) /\ first \in Seq(Found)

Holding == at \in {"size", "fill", "parse"}
Upto == IF Holding THEN pos - 1 ELSE pos

AtEvent ==
    /\ Holding => pos \in Events!Matches(turn)
    /\ at = "parse" => values = <<Events!Place, pos>>
    /\ at \in {"query", "context"} => pos = 0 /\ crashlogs = << >>
    /\ at # "done" => pos <= Len(logs[Events!Place])
    /\ outcome # "none" => at = "done"

Collected == Events!Tells(turn, Upto, crashlogs)

(* An event without a time that holds a crash log is still to meet.        *)
Dated == \A n \in Events!Undated(turn) : n > Upto

Clean(q) == \A n \in Events!Undated(q) : n > before[Events!Target(q)]
Told(q, found) == \E n \in Events!Since(q) : Events!Tells(q, n, found)

Running ==
    at # "done" =>
      /\ Collected /\ Dated
      /\ turn = 1 => first = << >>
      /\ turn = 2 => Told(1, first) /\ Clean(1)

Ended ==
    /\ outcome = "ok" => Events!Complete /\ Clean(1) /\ Clean(2)
    /\ outcome = "error" => /\ first = << >>
                            /\ broken \/ Events!Undated(1) \cup Events!Undated(2) # {}

LogInv == LogTypes /\ AtEvent /\ Running /\ Ended

LEMMA TargetType == \A q \in {1, 2} : Events!Target(q) \in Events!Log
<1>1. Events!Queries[1].channel \in Events!Log /\ Events!Queries[2].channel \in Events!Log
  BY DEF Events!Queries, Events!Log
<1>2. "file" \in Events!Log
  BY DEF Events!Log
<1> QED BY <1>1, <1>2 DEF Events!Target

LEMMA MatchesType ==
    ASSUME LogTypes, NEW q \in {1, 2}
    PROVE  Events!Matches(q) \subseteq 1 .. Len(logs[Events!Target(q)])
<1>1. logs[Events!Target(q)] \in Seq(Events!Event)
  BY TargetType DEF LogTypes
<1> QED BY <1>1 DEF Events!Matches

---------------------------------------------------------------------------
(* An event logged meanwhile changes nothing of what came before it.       *)
Grown ==
    /\ fromFile' = fromFile /\ before' = before
    /\ logs' \in [Events!Log -> Seq(Events!Event)]
    /\ \A l \in Events!Log :
         /\ Len(logs[l]) <= Len(logs'[l])
         /\ \A n \in 1 .. Len(logs[l]) : logs'[l][n] = logs[l][n]

LEMMA AppendFacts ==
    ASSUME NEW S, NEW s \in Seq(S), NEW x \in S
    PROVE  /\ Append(s, x) \in Seq(S) /\ Len(s) \in Nat
           /\ Len(Append(s, x)) = Len(s) + 1
           /\ Append(s, x)[Len(s) + 1] = x
           /\ \A n \in 1 .. Len(s) : Append(s, x)[n] = s[n]
OBVIOUS

LEMMA ArrivalGrows ==
    ASSUME LogTypes, Events!Arrive PROVE Grown
<1>1. PICK l \in Events!Log : \E e \in Arriving : logs' = [logs EXCEPT ![l] = Append(@, e)]
  BY DEF Events!Arrive, Events!Log
<1>2. PICK e \in Arriving : logs' = [logs EXCEPT ![l] = Append(@, e)]
  BY <1>1
<1>3. e \in Events!Event
  BY WindowsAssumption DEF Events!EventLogAssumption
<1>4. fromFile' = fromFile /\ before' = before
  BY DEF Events!Arrive
<1>5. logs[l] \in Seq(Events!Event)
  BY <1>3 DEF LogTypes
<1> DEFINE longer == Append(logs[l], e)
<1>6. /\ longer \in Seq(Events!Event) /\ Len(longer) = Len(logs[l]) + 1 /\ Len(logs[l]) \in Nat
      /\ \A n \in 1 .. Len(logs[l]) : longer[n] = logs[l][n]
  BY <1>3, <1>5, AppendFacts
<1>7. logs' = [logs EXCEPT ![l] = longer]
  BY <1>2
<1> HIDE DEF longer
<1>8. logs' \in [Events!Log -> Seq(Events!Event)]
  BY <1>6, <1>7 DEF LogTypes
<1>9. \A k \in Events!Log : logs'[k] = IF k = l THEN longer ELSE logs[k]
  BY <1>7 DEF LogTypes
<1>10. ASSUME NEW k \in Events!Log
       PROVE  /\ Len(logs[k]) <= Len(logs'[k])
              /\ \A n \in 1 .. Len(logs[k]) : logs'[k][n] = logs[k][n]
  <2>1. Len(logs[k]) \in Nat
    BY DEF LogTypes
  <2> QED BY <1>6, <1>9, <2>1
<1> QED BY <1>4, <1>8, <1>10 DEF Grown

LEMMA MatchesStay ==
    ASSUME LogTypes, Grown, NEW q \in {1, 2}
    PROVE  /\ Events!Target(q)' = Events!Target(q)
           /\ \A n \in 1 .. Len(logs[Events!Target(q)]) :
                /\ n \in Events!Matches(q)' <=> n \in Events!Matches(q)
                /\ logs'[Events!Target(q)][n] = logs[Events!Target(q)][n]
<1>1. Events!Target(q)' = Events!Target(q)
  BY DEF Events!Target, Grown
<1> DEFINE l == Events!Target(q)
<1>2. /\ l \in Events!Log /\ logs[l] \in Seq(Events!Event) /\ logs'[l] \in Seq(Events!Event)
      /\ Len(logs[l]) <= Len(logs'[l])
      /\ \A n \in 1 .. Len(logs[l]) : logs'[l][n] = logs[l][n]
  BY TargetType DEF LogTypes, Grown
<1>3. \A n : n \in Events!Matches(q) <=>
               n \in DOMAIN logs[l] /\ logs[l][n].provider = Events!Queries[q].provider
  BY DEF Events!Matches
<1>4. \A n : n \in Events!Matches(q)' <=>
               n \in DOMAIN logs'[l] /\ logs'[l][n].provider = Events!Queries[q].provider
  BY <1>1 DEF Events!Matches
<1> HIDE DEF l
<1>5. \A n \in 1 .. Len(logs[l]) : n \in DOMAIN logs[l] /\ n \in DOMAIN logs'[l]
  BY <1>2
<1>6. \A n \in 1 .. Len(logs[l]) : n \in Events!Matches(q)' <=> n \in Events!Matches(q)
  BY <1>2, <1>3, <1>4, <1>5
<1> QED BY <1>1, <1>2, <1>6 DEF l
(* What has been collected stays what the events up to n tell, for an n    *)
(* within the log.                                                         *)
LEMMA TellsStay ==
    ASSUME LogTypes, Grown, NEW q \in {1, 2}, NEW found,
           NEW n \in 0 .. Len(logs[Events!Target(q)]), Events!Tells(q, n, found)
    PROVE  Events!Tells(q, n, found)'
<1> DEFINE l == Events!Target(q)
<1>1. /\ Events!Target(q)' = l /\ l \in Events!Log /\ Len(logs[l]) \in Nat
      /\ \A m \in 1 .. Len(logs[l]) :
           /\ m \in Events!Matches(q)' <=> m \in Events!Matches(q)
           /\ logs'[l][m] = logs[l][m]
  BY MatchesStay, TargetType DEF LogTypes
<1>2. Events!Matches(q) \subseteq 1 .. Len(logs[l])
  BY MatchesType
<1>3. Events!Matches(q)' \subseteq Nat \ {0}
  <2>1. logs'[l] \in Seq(Events!Event)
    BY <1>1 DEF Grown
  <2> QED BY <1>1, <2>1 DEF Events!Matches
<1> HIDE DEF l
<1>4. Events!Sounds(q, n)' = Events!Sounds(q, n)
  <2>1. \A m : m \in Events!Sounds(q, n) <=>
                 m \in Events!Matches(q) /\ m <= n /\ logs[l][m].data = "sound"
    BY DEF Events!Sounds, l
  <2>2. \A m : m \in Events!Sounds(q, n)' <=>
                 m \in Events!Matches(q)' /\ m <= n /\ logs'[l][m].data = "sound"
    BY <1>1 DEF Events!Sounds
  <2>3. \A m \in Nat \ {0} : m <= n => m \in 1 .. Len(logs[l])
    BY <1>1 DEF l
  <2> QED BY <1>1, <1>2, <1>3, <2>1, <2>2, <2>3
<1>5. Events!Sounds(q, n) \subseteq 1 .. Len(logs[l])
  BY <1>2 DEF Events!Sounds
<1>6. \A i \in DOMAIN found : \E m \in 1 .. Len(logs[l]) : found[i].of = <<l, m>>
  BY <1>5 DEF Events!Tells, l
<1>7. ASSUME NEW id, NEW m \in 1 .. Len(logs[l]), id = <<l, m>>
      PROVE  Events!EventAt(id)' = Events!EventAt(id)
  <2>1. id[1] = l /\ id[2] = m
    BY <1>7
  <2>2. logs'[l][m] = logs[l][m]
    BY <1>1
  <2> QED BY <2>1, <2>2 DEF Events!EventAt
<1>8. \A i \in DOMAIN found : Events!EventAt(found[i].of)' = Events!EventAt(found[i].of)
  <2> SUFFICES ASSUME NEW i \in DOMAIN found
               PROVE  Events!EventAt(found[i].of)' = Events!EventAt(found[i].of)
    OBVIOUS
  <2>1. PICK m \in 1 .. Len(logs[l]) : found[i].of = <<l, m>>
    BY <1>6
  <2> QED BY <1>7, <2>1
<1> QED BY <1>1, <1>4, <1>8 DEF Events!Tells, Events!Nothing, l

LEMMA UndatedStay ==
    ASSUME LogTypes, Grown, NEW q \in {1, 2}
    PROVE  /\ Events!Undated(q)' \subseteq Nat
           /\ \A n \in 1 .. Len(logs[Events!Target(q)]) :
                n \in Events!Undated(q)' <=> n \in Events!Undated(q)
           /\ Events!Undated(q) \subseteq Events!Undated(q)'
<1> DEFINE l == Events!Target(q)
<1>1. /\ Events!Target(q)' = l /\ l \in Events!Log
      /\ \A m \in 1 .. Len(logs[l]) :
           /\ m \in Events!Matches(q)' <=> m \in Events!Matches(q)
           /\ logs'[l][m] = logs[l][m]
  BY MatchesStay, TargetType
<1>2. Events!Matches(q) \subseteq 1 .. Len(logs[l])
  BY MatchesType
<1>3. Events!Matches(q)' \subseteq Nat
  <2>1. logs'[l] \in Seq(Events!Event)
    BY <1>1 DEF Grown
  <2> QED BY <1>1, <2>1 DEF Events!Matches
<1>4. \A n : n \in Events!Undated(q) <=>
               n \in Events!Matches(q) /\ logs[l][n].data = "sound" /\ logs[l][n].time = "invalid"
  BY DEF Events!Undated
<1>5. \A n : n \in Events!Undated(q)' <=>
               n \in Events!Matches(q)' /\ logs'[l][n].data = "sound" /\ logs'[l][n].time = "invalid"
  BY <1>1 DEF Events!Undated
<1> HIDE DEF l
<1>6. \A n \in 1 .. Len(logs[l]) : n \in Events!Undated(q)' <=> n \in Events!Undated(q)
  BY <1>1, <1>4, <1>5
<1> QED BY <1>2, <1>3, <1>4, <1>5, <1>6 DEF l

LEMMA CleanStays ==
    ASSUME LogTypes, Grown, NEW q \in {1, 2}, Clean(q)
    PROVE  Clean(q)'
<1>1. Events!Target(q)' = Events!Target(q) /\ before' = before
  BY MatchesStay DEF Grown
<1>2. before[Events!Target(q)] <= Len(logs[Events!Target(q)])
      /\ before[Events!Target(q)] \in Nat /\ Len(logs[Events!Target(q)]) \in Nat
  BY TargetType DEF LogTypes
<1>3. ASSUME NEW n \in Events!Undated(q)' PROVE n > before[Events!Target(q)]
  <2>1. n \in Nat
    BY UndatedStay, <1>3
  <2>2. CASE n \in 1 .. Len(logs[Events!Target(q)])
    BY <1>3, <2>2, UndatedStay DEF Clean
  <2>3. CASE n = 0 \/ n > Len(logs[Events!Target(q)])
    <3>1. n # 0
      <4>1. logs'[Events!Target(q)] \in Seq(Events!Event)
        BY TargetType DEF Grown
      <4> QED BY <1>1, <1>3, <4>1 DEF Events!Undated, Events!Matches
    <3> QED BY <1>2, <2>1, <2>3, <3>1
  <2> QED BY <1>2, <2>1, <2>2, <2>3
<1> QED BY <1>1, <1>3 DEF Clean
LEMMA ArrivalKeeps == LogInv /\ Events!Arrive => LogInv'
<1> SUFFICES ASSUME LogInv, Events!Arrive PROVE LogInv'
  OBVIOUS
<1>1. LogTypes /\ AtEvent /\ Grown
  BY ArrivalGrows DEF LogInv
<1>2. /\ at # "done" /\ outcome = "none"
      /\ UNCHANGED <<at, turn, pos, values, crashlogs, first, outcome, broken>>
  BY <1>1 DEF Events!Arrive, AtEvent
<1>3. turn \in {1, 2} /\ Events!Place = Events!Target(turn) /\ Events!Target(turn) \in Events!Log
  BY <1>1, TargetType DEF LogTypes, Events!Place
<1>4. Len(logs[Events!Target(turn)]) \in Nat /\ pos \in Nat
  BY <1>1, <1>3 DEF LogTypes
<1>5. Upto \in 0 .. Len(logs[Events!Target(turn)])
  <2>1. Holding => pos \in 1 .. Len(logs[Events!Target(turn)])
    BY <1>1, <1>3, MatchesType DEF AtEvent
  <2>2. pos <= Len(logs[Events!Target(turn)])
    BY <1>1, <1>2, <1>3 DEF AtEvent
  <2> QED BY <1>4, <2>1, <2>2 DEF Upto
<1>6. ASSUME NEW q \in {1, 2}, q = turn, NEW n, n = Upto, NEW found, found = crashlogs
      PROVE  Collected' /\ Dated' /\ AtEvent'
  <2>1. Events!Tells(q, n, found)'
    BY <1>1, <1>2, <1>5, <1>6, TellsStay DEF LogInv, Running, Collected
  <2>2. n = Upto'
    BY <1>2, <1>6 DEF Upto, Holding
  <2>3. Collected'
    BY <1>2, <1>6, <2>1, <2>2
       DEF Collected, Events!Tells, Events!Target, Events!Sounds, Events!Matches
  <2>4. \A x \in Events!Undated(q)' : x > n
    <3> SUFFICES ASSUME NEW x \in Events!Undated(q)' PROVE x > n
      OBVIOUS
    <3>1. x \in Nat
      BY <1>1, UndatedStay
    <3>2. CASE x \in 1 .. Len(logs[Events!Target(q)])
      <4>1. x \in Events!Undated(q)
        BY <1>1, <3>2, UndatedStay
      <4> QED BY <1>2, <1>6, <4>1 DEF LogInv, Running, Dated
    <3>3. CASE x > Len(logs[Events!Target(q)])
      BY <1>4, <1>5, <1>6, <3>1, <3>3
    <3>4. CASE x = 0
      <4>1. logs'[Events!Target(q)] \in Seq(Events!Event) /\ Events!Target(q)' = Events!Target(q)
        BY <1>1, TargetType, MatchesStay DEF Grown
      <4>2. x \in DOMAIN logs'[Events!Target(q)]
        BY <4>1 DEF Events!Undated, Events!Matches
      <4> QED BY <3>4, <4>1, <4>2
    <3> QED BY <1>4, <1>6, <3>1, <3>2, <3>3, <3>4
  <2>5. Dated'
    BY <1>2, <1>6, <2>2, <2>4 DEF Dated, Events!Undated, Events!Target, Events!Matches
  <2>6. Holding' => pos' \in Events!Matches(q)'
    <3>1. Holding => pos \in Events!Matches(q) /\ pos \in 1 .. Len(logs[Events!Target(q)])
      BY <1>1, <1>6, MatchesType DEF AtEvent
    <3> QED BY <1>1, <1>2, <3>1, MatchesStay DEF Holding
  <2>7. pos' <= Len(logs'[Events!Target(q)]) /\ Events!Target(q)' = Events!Target(q)
    <3>1. pos <= Len(logs[Events!Target(q)])
      BY <1>1, <1>2, <1>3, <1>6 DEF AtEvent
    <3>2. Len(logs[Events!Target(q)]) <= Len(logs'[Events!Target(q)])
      BY <1>1, <1>3, <1>6 DEF Grown
    <3>3. Len(logs'[Events!Target(q)]) \in Nat
      BY <1>1, <1>3, <1>6 DEF Grown
    <3> QED BY <1>1, <1>2, <1>4, <1>6, <3>1, <3>2, <3>3, MatchesStay
  <2>8. Events!Place' = Events!Place /\ Events!Place = Events!Target(q)
    BY <1>2, <1>3, <1>6, <2>7 DEF Events!Place, Events!Target
  <2>9. AtEvent'
    BY <1>1, <1>2, <1>6, <2>6, <2>7, <2>8 DEF AtEvent, Events!Matches, Events!Target
  <2> QED BY <2>3, <2>5, <2>9
<1>7. Collected' /\ Dated' /\ AtEvent'
  BY <1>3, <1>6
<1>8. ASSUME turn = 2 PROVE Told(1, first)' /\ Clean(1)'
  <2>1. Told(1, first) /\ Clean(1)
    BY <1>2, <1>8 DEF LogInv, Running
  <2>2. ASSUME NEW found, found = first, NEW n \in Events!Since(1), Events!Tells(1, n, found)
        PROVE  Told(1, first)'
    <3>1. /\ Events!Target(1) \in Events!Log /\ Events!Target(1)' = Events!Target(1)
          /\ before[Events!Target(1)] \in Nat /\ before' = before
          /\ Len(logs[Events!Target(1)]) \in Nat /\ Len(logs'[Events!Target(1)]) \in Nat
          /\ Len(logs[Events!Target(1)]) <= Len(logs'[Events!Target(1)])
      BY <1>1, TargetType, MatchesStay DEF LogTypes, Grown
    <3>2. n \in 0 .. Len(logs[Events!Target(1)]) /\ n \in Events!Since(1)'
      BY <2>2, <3>1 DEF Events!Since
    <3>3. Events!Tells(1, n, found)'
      BY <1>1, <2>2, <3>2, TellsStay
    <3>4. Events!Tells(1, n, first)'
      BY <1>2, <2>2, <3>3 DEF Events!Tells
    <3> QED BY <3>2, <3>4 DEF Told
  <2> QED BY <1>1, <2>1, <2>2, CleanStays DEF Told
<1>9. Running'
  BY <1>2, <1>7, <1>8 DEF LogInv, Running
<1>10. Ended'
  BY <1>2 DEF Ended
<1>11. LogTypes'
  <2>1. \A l \in Events!Log : before'[l] <= Len(logs'[l])
    <3> SUFFICES ASSUME NEW l \in Events!Log PROVE before'[l] <= Len(logs'[l])
      OBVIOUS
    <3>1. /\ before[l] <= Len(logs[l]) /\ Len(logs[l]) <= Len(logs'[l]) /\ before[l] \in Nat
          /\ Len(logs[l]) \in Nat /\ Len(logs'[l]) \in Nat /\ before' = before
      BY <1>1 DEF LogTypes, Grown
    <3> QED BY <3>1
  <2>2. logs' \in [Events!Log -> Seq(Events!Event)] /\ before' = before
    BY <1>1 DEF Grown
  <2> QED BY <1>1, <1>2, <2>1, <2>2 DEF LogTypes
<1> QED BY <1>7, <1>9, <1>10, <1>11 DEF LogInv
---------------------------------------------------------------------------
(* The steps of the extraction.                                            *)

(* The log as it is: what holds of it holds after the step.                *)
LEMMA Carried ==
    ASSUME UNCHANGED Events!input, NEW q, NEW n, NEW found
    PROVE  /\ q = turn' /\ n = Upto' /\ found = crashlogs' /\ Events!Tells(q, n, found) => Collected'
           /\ q = turn' /\ n = Upto' /\ (\A x \in Events!Undated(q) : x > n) => Dated'
           /\ found = first' /\ Told(q, found) => Told(q, first)'
           /\ Clean(q) => Clean(q)'
           /\ Events!Undated(q)' = Events!Undated(q)
           /\ Events!Matches(q)' = Events!Matches(q)
           /\ Events!Target(q)' = Events!Target(q)
<1>1. fromFile' = fromFile /\ logs' = logs /\ before' = before
  BY DEF Events!input
<1>2. \A p : /\ Events!Target(p)' = Events!Target(p)
             /\ Events!Matches(p)' = Events!Matches(p)
             /\ Events!Undated(p)' = Events!Undated(p)
             /\ Events!Since(p)' = Events!Since(p)
  BY <1>1 DEF Events!Target, Events!Matches, Events!Undated, Events!Since
<1>3. \A p, m : Events!Sounds(p, m)' = Events!Sounds(p, m)
  BY <1>1, <1>2 DEF Events!Sounds
<1>4. \A id : Events!EventAt(id)' = Events!EventAt(id)
  BY <1>1 DEF Events!EventAt
<1>5. \A p, m : Events!Tells(p, m, found)' <=> Events!Tells(p, m, found)
  BY <1>2, <1>3, <1>4 DEF Events!Tells, Events!Nothing
<1>6. ASSUME q = turn', n = Upto', found = crashlogs', Events!Tells(q, n, found)
      PROVE  Collected'
  <2>1. Events!Tells(q, n, found)'
    BY <1>5, <1>6
  <2> QED BY <1>6, <2>1 DEF Collected, Events!Tells, Events!Target, Events!Sounds, Events!Matches
<1>7. ASSUME q = turn', n = Upto', \A x \in Events!Undated(q) : x > n PROVE Dated'
  <2>1. \A x \in Events!Undated(q)' : x > n
    BY <1>2, <1>7
  <2> QED BY <1>7, <2>1 DEF Dated, Events!Undated, Events!Target, Events!Matches
<1>8. ASSUME found = first', Told(q, found) PROVE Told(q, first)'
  <2>1. PICK m \in Events!Since(q) : Events!Tells(q, m, found)
    BY <1>8 DEF Told
  <2>2. m \in Events!Since(q)' /\ Events!Tells(q, m, found)'
    BY <1>2, <1>5, <2>1
  <2>3. Events!Tells(q, m, first)'
    BY <1>8, <2>2 DEF Events!Tells
  <2> QED BY <2>2, <2>3 DEF Told
<1>9. Clean(q) => Clean(q)'
  BY <1>1, <1>2 DEF Clean
<1> QED BY <1>2, <1>6, <1>7, <1>8, <1>9

(* A step that passes over no sound event tells the same.                  *)
LEMMA TellsFurther ==
    ASSUME LogTypes, NEW q \in {1, 2}, NEW a \in Int, NEW b \in Int, a <= b, NEW found,
           Events!Tells(q, a, found),
           \A m \in Events!Matches(q) :
             a < m /\ m <= b => logs[Events!Target(q)][m].data # "sound"
    PROVE  Events!Tells(q, b, found)
<1>1. Events!Matches(q) \subseteq Nat
  <2>1. \A k : k \in 1 .. Len(logs[Events!Target(q)]) => k \in Nat
    BY TargetType DEF LogTypes
  <2> QED BY <2>1, MatchesType
<1>2. Events!Sounds(q, a) = Events!Sounds(q, b)
  <2>1. \A m \in Events!Matches(q) :
          m <= a /\ logs[Events!Target(q)][m].data = "sound"
            <=> m <= b /\ logs[Events!Target(q)][m].data = "sound"
    BY <1>1
  <2> QED BY <2>1 DEF Events!Sounds
<1> QED BY <1>2 DEF Events!Tells

(* The event in hand is kept or not.                                       *)
LEMMA InHand ==
    ASSUME LogTypes, AtEvent, Holding
    PROVE  /\ turn \in {1, 2} /\ pos \in Nat /\ pos >= 1 /\ Upto = pos - 1
           /\ pos \in Events!Matches(turn) /\ Events!Place = Events!Target(turn)
           /\ Events!EventAt(<<Events!Place, pos>>) = logs[Events!Target(turn)][pos]
           /\ at # "done" /\ outcome = "none"
<1>1. pos \in 1 .. Len(logs[Events!Target(turn)]) /\ turn \in {1, 2} /\ pos \in Nat
  BY MatchesType DEF AtEvent, LogTypes
<1>2. Events!EventAt(<<Events!Place, pos>>) = logs[Events!Place][pos]
  BY DEF Events!EventAt
<1> QED BY <1>1, <1>2 DEF AtEvent, Upto, Holding, Events!Place

LEMMA PassEvent ==
    ASSUME LogInv, Holding, UNCHANGED Events!input,
           at' = "next", UNCHANGED <<turn, pos, values, crashlogs, first, outcome, broken>>,
           LET e == logs[Events!Target(turn)][pos] IN e.data # "sound"
    PROVE  LogInv'
<1>1. LogTypes /\ AtEvent /\ Running
  BY DEF LogInv
<1>2. /\ turn \in {1, 2} /\ pos \in Nat /\ pos >= 1 /\ Upto = pos - 1
      /\ pos \in Events!Matches(turn) /\ at # "done" /\ outcome = "none"
  BY <1>1, InHand
<1>3. Upto' = pos
  BY DEF Upto, Holding
<1>4. Collected /\ Dated
  BY <1>1, <1>2 DEF Running
<1>5. \A m \in Events!Matches(turn) : m \in Nat
  BY <1>1, <1>2, MatchesType
<1>6. Events!Tells(turn, pos, crashlogs)
  <2>1. \A m \in Events!Matches(turn) :
          pos - 1 < m /\ m <= pos => logs[Events!Target(turn)][m].data # "sound"
    <3> SUFFICES ASSUME NEW m \in Events!Matches(turn), pos - 1 < m, m <= pos
                 PROVE  m = pos
      OBVIOUS
    <3> QED BY <1>2, <1>5
  <2>2. Events!Tells(turn, pos - 1, crashlogs)
    BY <1>2, <1>4 DEF Collected
  <2>3. pos - 1 \in Int /\ pos \in Int /\ pos - 1 <= pos
    BY <1>2
  <2> QED BY <1>1, <1>2, <2>1, <2>2, <2>3, TellsFurther
<1>7. \A x \in Events!Undated(turn) : x > pos
  <2>1. \A x \in Events!Undated(turn) : x > pos - 1 /\ x \in Nat
    BY <1>2, <1>4, <1>5 DEF Dated, Events!Undated
  <2>2. pos \notin Events!Undated(turn)
    BY DEF Events!Undated
  <2> QED BY <1>2, <2>1, <2>2
<1>8. Collected' /\ Dated'
  BY <1>3, <1>6, <1>7, Carried
<1>9. turn = 2 => Told(1, first)' /\ Clean(1)'
  BY <1>1, <1>2, Carried DEF Running
<1>10. Running'
  BY <1>1, <1>2, <1>8, <1>9 DEF Running
<1>11. LogTypes'
  BY <1>1 DEF LogTypes, Events!input
<1>12. AtEvent'
  BY <1>1, <1>2 DEF AtEvent, Holding, Events!Place, Events!Target, Events!input
<1>13. Ended'
  BY <1>2 DEF Ended
<1> QED BY <1>10, <1>11, <1>12, <1>13 DEF LogInv
(* A step that moves on and changes nothing that has been collected.       *)
LEMMA Quiet ==
    ASSUME LogInv, at # "done", at' # "done", UNCHANGED Events!input,
           UNCHANGED <<turn, pos, crashlogs, first, outcome, broken>>,
           values' \in Events!Log \X Nat, Upto' = Upto, AtEvent'
    PROVE  LogInv'
<1>1. LogTypes /\ AtEvent /\ Running
  BY DEF LogInv
<1>2. Collected /\ Dated /\ outcome = "none"
  BY <1>1 DEF Running, AtEvent
<1>3. Collected' /\ Dated'
  BY <1>2, Carried DEF Collected, Dated
<1>4. turn = 2 => Told(1, first)' /\ Clean(1)'
  BY <1>1, Carried DEF Running
<1>5. Running'
  BY <1>1, <1>3, <1>4 DEF Running
<1>6. LogTypes'
  BY <1>1 DEF LogTypes, Events!input
<1>7. Ended'
  BY <1>2 DEF Ended
<1> QED BY <1>5, <1>6, <1>7 DEF LogInv

(* The end of an extraction that fails: an error, or the panic.            *)
LEMMA Fails ==
    ASSUME LogInv, UNCHANGED Events!input, at' = "done",
           UNCHANGED <<turn, pos, values>>,
           crashlogs' \in Seq(Found), first' \in Seq(Found),
           \/ outcome' = "panic"
           \/ /\ outcome' = "error" /\ first' = << >>
              /\ broken' \/ Events!Undated(1) \cup Events!Undated(2) # {}
    PROVE  LogInv'
<1>1. LogTypes
  BY DEF LogInv
<1>2. LogTypes'
  BY <1>1 DEF LogTypes, Events!input
<1>3. \A q : Events!Undated(q)' = Events!Undated(q)
  BY Carried
<1>4. Ended'
  BY <1>3 DEF Ended
<1>5. AtEvent'
  BY DEF AtEvent, Holding
<1>6. Running'
  BY DEF Running
<1> QED BY <1>2, <1>4, <1>5, <1>6 DEF LogInv

LEMMA CallKeeps ==
    ASSUME LogInv,
           Events!Query \/ Events!CreateContext \/ Events!AllocateValues \/ Events!Render
    PROVE  LogInv'
<1>1. LogTypes /\ AtEvent /\ values \in Events!Log \X Nat
  BY DEF LogInv, LogTypes
<1>2. /\ at # "done" /\ at' # "done" /\ UNCHANGED Events!input
      /\ UNCHANGED <<turn, pos, crashlogs, first, outcome, broken>>
  BY DEF Events!Query, Events!CreateContext, Events!AllocateValues, Events!Render
<1>3. Events!Place' = Events!Place /\ Events!Matches(turn)' = Events!Matches(turn)
  BY <1>2 DEF Events!Place, Events!Target, Events!Matches, Events!input
<1>4. Events!Place \in Events!Log /\ pos \in Nat
  BY <1>1, TargetType DEF LogTypes, Events!Place
<1>5. CASE Events!Query \/ Events!CreateContext
  <2>1. values' = values /\ at \in {"query", "context"} /\ at' \in {"context", "next"}
    BY <1>5 DEF Events!Query, Events!CreateContext
  <2>2. ~Holding /\ ~Holding' /\ Upto' = Upto
    BY <1>2, <2>1 DEF Upto, Holding
  <2>3. AtEvent'
    BY <1>1, <1>2, <1>3, <2>1, <2>2 DEF AtEvent, Events!input
  <2> QED BY <1>1, <1>2, <2>1, <2>2, <2>3, Quiet
<1>6. CASE Events!AllocateValues
  <2>1. values' = values /\ at = "size" /\ at' = "fill"
    BY <1>6 DEF Events!AllocateValues
  <2>2. Holding /\ Holding' /\ Upto' = Upto
    BY <1>2, <2>1 DEF Upto, Holding
  <2>3. AtEvent'
    BY <1>1, <1>2, <1>3, <2>1, <2>2 DEF AtEvent, Events!input
  <2> QED BY <1>1, <1>2, <2>1, <2>2, <2>3, Quiet
<1>7. CASE Events!Render
  <2>1. values' = <<Events!Place, pos>> /\ at = "fill" /\ at' = "parse"
    BY <1>7 DEF Events!Render
  <2>2. Holding /\ Holding' /\ Upto' = Upto
    BY <1>2, <2>1 DEF Upto, Holding
  <2>3. AtEvent'
    BY <1>1, <1>2, <1>3, <2>1, <2>2 DEF AtEvent, Events!input
  <2>4. values' \in Events!Log \X Nat
    BY <1>4, <2>1
  <2> QED BY <1>2, <2>2, <2>3, <2>4, Quiet
<1> QED BY <1>5, <1>6, <1>7

LEMMA NextKeeps == ASSUME LogInv, Events!NextEvent PROVE LogInv'
<1>1. LogTypes /\ AtEvent /\ Running
  BY DEF LogInv
<1>2. PICK n \in Events!Ahead : (\A m \in Events!Ahead : n <= m) /\ pos' = n
  BY DEF Events!NextEvent
<1>3. /\ at = "next" /\ at' = "size" /\ UNCHANGED Events!input
      /\ UNCHANGED <<turn, values, crashlogs, first, outcome, broken>>
  BY DEF Events!NextEvent
<1>4. turn \in {1, 2} /\ pos \in Nat /\ Events!Place = Events!Target(turn)
  BY <1>1 DEF LogTypes, Events!Place
<1>5. \A m \in Events!Matches(turn) : m \in Nat /\ m <= Len(logs[Events!Target(turn)])
  <2>1. Len(logs[Events!Target(turn)]) \in Nat
    BY <1>1, <1>4, TargetType DEF LogTypes
  <2> QED BY <1>1, <1>4, <2>1, MatchesType
<1>6. n \in Events!Matches(turn) /\ n > pos /\ n \in Nat
  BY <1>2, <1>5 DEF Events!Ahead
<1>7. \A m \in Events!Matches(turn) : m > pos => n <= m
  BY <1>2 DEF Events!Ahead
<1>8. Upto = pos /\ Upto' = n - 1
  BY <1>2, <1>3 DEF Upto, Holding
<1>9. Collected /\ Dated /\ outcome = "none"
  BY <1>1, <1>3 DEF Running, AtEvent
<1>10. Events!Tells(turn, n - 1, crashlogs)
  <2>1. \A m \in Events!Matches(turn) :
          pos < m /\ m <= n - 1 => logs[Events!Target(turn)][m].data # "sound"
    <3> SUFFICES ASSUME NEW m \in Events!Matches(turn), pos < m, m <= n - 1 PROVE FALSE
      OBVIOUS
    <3> QED BY <1>4, <1>5, <1>6, <1>7
  <2>2. Events!Tells(turn, pos, crashlogs)
    BY <1>8, <1>9 DEF Collected
  <2>3. pos \in Int /\ n - 1 \in Int /\ pos <= n - 1
    BY <1>4, <1>6
  <2> QED BY <1>1, <1>4, <2>1, <2>2, <2>3, TellsFurther
<1>11. \A x \in Events!Undated(turn) : x > n - 1
  <2> SUFFICES ASSUME NEW x \in Events!Undated(turn) PROVE x > n - 1
    OBVIOUS
  <2>1. x \in Events!Matches(turn) /\ x > pos
    BY <1>8, <1>9 DEF Events!Undated, Dated
  <2> QED BY <1>5, <1>6, <1>7, <2>1
<1>12. Collected' /\ Dated'
  BY <1>3, <1>8, <1>10, <1>11, Carried
<1>13. turn = 2 => Told(1, first)' /\ Clean(1)'
  BY <1>1, <1>3, Carried DEF Running
<1>14. Running'
  BY <1>1, <1>3, <1>12, <1>13 DEF Running
<1>15. LogTypes'
  BY <1>1, <1>2, <1>3, <1>6 DEF LogTypes, Events!input
<1>16. AtEvent'
  <2>1. Events!Matches(turn)' = Events!Matches(turn) /\ Events!Place' = Events!Target(turn)
        /\ logs' = logs
    BY <1>3 DEF Events!Matches, Events!Place, Events!Target, Events!input
  <2>2. Events!Matches(turn') = Events!Matches(turn)
    BY <1>3
  <2> QED BY <1>2, <1>3, <1>5, <1>6, <1>9, <2>1, <2>2 DEF AtEvent, Holding
<1>17. Ended'
  BY <1>3, <1>9 DEF Ended
<1> QED BY <1>14, <1>15, <1>16, <1>17 DEF LogInv
(* A crash log put at the end of what has been collected tells of one more *)
(* event.                                                                  *)
LEMMA TellsOneMore ==
    ASSUME LogTypes, NEW q \in {1, 2}, NEW n \in Events!Matches(q),
           NEW found \in Seq(Found), Events!Tells(q, n - 1, found),
           logs[Events!Target(q)][n].data = "sound",
           NEW c \in Found, c.of = <<Events!Target(q), n>>, c.time = c.of,
           c.computer = IF Events!EventAt(c.of).computer = "text" THEN c.of ELSE Events!Nothing
    PROVE  Events!Tells(q, n, Append(found, c))
<1> DEFINE more == Append(found, c)
<1>1. /\ Len(found) \in Nat /\ DOMAIN found = 1 .. Len(found) /\ DOMAIN more = 1 .. Len(found) + 1
      /\ more[Len(found) + 1] = c
      /\ \A i \in 1 .. Len(found) : more[i] = found[i]
  OBVIOUS
<1> HIDE DEF more
<1>2. \A m \in Events!Matches(q) : m \in Nat
  <2>1. \A k : k \in 1 .. Len(logs[Events!Target(q)]) => k \in Nat
    BY TargetType DEF LogTypes
  <2> QED BY <2>1, MatchesType
<1>3. \A m : m \in Events!Sounds(q, n) <=> m \in Events!Sounds(q, n - 1) \/ m = n
  <2>1. \A m \in Events!Matches(q) : m <= n <=> m <= n - 1 \/ m = n
    BY <1>2
  <2>2. ~(n <= n - 1)
    BY <1>2
  <2> QED BY <2>1, <2>2 DEF Events!Sounds
<1>4. \A i \in 1 .. Len(found) :
         \E m \in Events!Sounds(q, n - 1) : found[i].of = <<Events!Target(q), m>>
  BY <1>1 DEF Events!Tells
<1>5. \A m \in Events!Sounds(q, n - 1) :
         \E i \in 1 .. Len(found) : found[i].of = <<Events!Target(q), m>>
  <2> SUFFICES ASSUME NEW m \in Events!Sounds(q, n - 1)
               PROVE  \E i \in 1 .. Len(found) : found[i].of = <<Events!Target(q), m>>
    OBVIOUS
  <2>1. <<Events!Target(q), m>> \in {<<Events!Target(q), k>> : k \in Events!Sounds(q, n - 1)}
    OBVIOUS
  <2>2. <<Events!Target(q), m>> \in {found[i].of : i \in DOMAIN found}
    BY <2>1, Zenon DEF Events!Tells
  <2> QED BY <1>1, <2>2
<1>6. {more[i].of : i \in DOMAIN more} = {<<Events!Target(q), m>> : m \in Events!Sounds(q, n)}
  <2>1. ASSUME NEW i \in DOMAIN more
        PROVE  \E m \in Events!Sounds(q, n) : more[i].of = <<Events!Target(q), m>>
    <3>1. CASE i \in 1 .. Len(found)
      <4>1. PICK m \in Events!Sounds(q, n - 1) : found[i].of = <<Events!Target(q), m>>
        BY <1>4, <3>1
      <4>2. more[i] = found[i] /\ m \in Events!Sounds(q, n)
        BY <1>1, <1>3, <3>1, <4>1
      <4> QED BY <4>1, <4>2
    <3>2. CASE i = Len(found) + 1
      <4>1. more[i] = c /\ n \in Events!Sounds(q, n)
        BY <1>1, <1>3, <3>2
      <4> QED BY <4>1
    <3> QED BY <1>1, <2>1, <3>1, <3>2
  <2>2. ASSUME NEW m \in Events!Sounds(q, n)
        PROVE  \E i \in DOMAIN more : more[i].of = <<Events!Target(q), m>>
    <3>1. CASE m \in Events!Sounds(q, n - 1)
      <4>1. PICK i \in 1 .. Len(found) : found[i].of = <<Events!Target(q), m>>
        BY <1>5, <3>1
      <4>2. i \in DOMAIN more /\ more[i] = found[i]
        BY <1>1
      <4> QED BY <4>1, <4>2
    <3>2. CASE m = n
      <4>1. Len(found) + 1 \in DOMAIN more
        BY <1>1
      <4> QED BY <1>1, <3>2, <4>1
    <3> QED BY <1>3, <2>2, <3>1, <3>2
  <2> QED BY <2>1, <2>2
<1>7. ASSUME NEW i \in 1 .. Len(found) PROVE found[i].of[2] < n /\ found[i].of[2] \in Nat
  <2>1. PICK m \in Events!Sounds(q, n - 1) : found[i].of = <<Events!Target(q), m>>
    BY <1>4, <1>7
  <2>2. m \in Nat /\ m <= n - 1 /\ n \in Nat
    BY <1>2, <2>1 DEF Events!Sounds
  <2>3. found[i].of[2] = m
    BY <2>1
  <2> QED BY <2>2, <2>3
<1>8. ASSUME NEW i \in DOMAIN more, NEW j \in DOMAIN more, i < j
      PROVE  more[i].of[2] < more[j].of[2]
  <2>1. i \in 1 .. Len(found) /\ more[i] = found[i]
    BY <1>1, <1>8
  <2>2. CASE j \in 1 .. Len(found)
    <3>1. found[i].of[2] < found[j].of[2]
      BY <1>1, <1>8, <2>1, <2>2 DEF Events!Tells
    <3> QED BY <1>1, <2>1, <2>2, <3>1
  <2>3. CASE j = Len(found) + 1
    <3>1. more[j].of[2] = n
      BY <1>1, <2>3
    <3> QED BY <1>7, <2>1, <3>1
  <2> QED BY <1>1, <1>8, <2>2, <2>3
<1>9. ASSUME NEW i \in DOMAIN more
      PROVE  /\ more[i].time = more[i].of
             /\ more[i].computer = IF Events!EventAt(more[i].of).computer = "text"
                                   THEN more[i].of ELSE Events!Nothing
  <2>1. CASE i \in 1 .. Len(found)
    <3>1. more[i] = found[i] /\ i \in DOMAIN found
      BY <1>1, <2>1
    <3> QED BY <3>1 DEF Events!Tells
  <2>2. CASE i = Len(found) + 1
    <3>1. more[i] = c
      BY <1>1, <2>2
    <3> QED BY <3>1
  <2> QED BY <1>1, <1>9, <2>1, <2>2
<1>10. Events!Tells(q, n, more)
  BY <1>6, <1>8, <1>9 DEF Events!Tells
<1> QED BY <1>10 DEF more

LEMMA KeepKeeps == ASSUME LogInv, Events!KeepCrashLog PROVE LogInv'
<1>1. LogTypes /\ AtEvent /\ Running
  BY DEF LogInv
<1>2. /\ at = "parse" /\ at' = "next" /\ UNCHANGED Events!input
      /\ UNCHANGED <<turn, pos, values, first, outcome, broken>>
      /\ crashlogs' = Append(crashlogs, Events!WithMetadata(values))
      /\ Events!Parsed.data = "sound" /\ Events!Parsed.time = "valid"
  BY DEF Events!KeepCrashLog
<1>3. /\ turn \in {1, 2} /\ pos \in Nat /\ pos >= 1 /\ Upto = pos - 1
      /\ pos \in Events!Matches(turn) /\ Events!Place = Events!Target(turn)
      /\ Events!EventAt(<<Events!Place, pos>>) = logs[Events!Target(turn)][pos]
      /\ outcome = "none"
  BY <1>1, <1>2, InHand DEF Holding
<1>4. values = <<Events!Target(turn), pos>>
  BY <1>1, <1>2, <1>3 DEF AtEvent
<1>5. logs[Events!Target(turn)][pos].data = "sound" /\ logs[Events!Target(turn)][pos].time = "valid"
  BY <1>2, <1>3, <1>4 DEF Events!Parsed
<1>6. Collected /\ Dated
  BY <1>1, <1>2 DEF Running
<1>7. Upto' = pos
  BY <1>2 DEF Upto, Holding
<1> DEFINE c == Events!WithMetadata(values)
<1>8. /\ c \in Found /\ c.of = <<Events!Target(turn), pos>> /\ c.time = c.of
      /\ c.computer = IF Events!EventAt(c.of).computer = "text" THEN c.of ELSE Events!Nothing
  <2>1. Events!Nothing \in Events!Log \X Nat
    BY DEF Events!Nothing, Events!Log
  <2>2. values \in Events!Log \X Nat
    BY <1>1 DEF LogTypes
  <2>3. c = [of |-> values, time |-> values,
             computer |-> IF Events!EventAt(values).computer = "text" THEN values ELSE Events!Nothing]
    BY DEF Events!WithMetadata
  <2>4. (IF Events!EventAt(values).computer = "text" THEN values ELSE Events!Nothing)
          \in Events!Log \X Nat
    BY <2>1, <2>2
  <2> HIDE DEF c
  <2>5. c \in Found
    BY <2>2, <2>3, <2>4 DEF Found
  <2> QED BY <1>4, <2>3, <2>5
<1>9. crashlogs' = Append(crashlogs, c) /\ crashlogs \in Seq(Found)
  BY <1>1, <1>2 DEF LogTypes
<1> HIDE DEF c
<1>10. Events!Tells(turn, pos, crashlogs')
  <2>1. Events!Tells(turn, pos - 1, crashlogs)
    BY <1>3, <1>6 DEF Collected
  <2>2. Events!Tells(turn, pos, Append(crashlogs, c))
    BY <1>1, <1>3, <1>5, <1>8, <1>9, <2>1, TellsOneMore
  <2> QED BY <1>9, <2>2
<1>11. \A x \in Events!Undated(turn) : x > pos
  <2>1. \A x \in Events!Undated(turn) : x > pos - 1 /\ x \in Nat
    <3>1. \A k : k \in 1 .. Len(logs[Events!Target(turn)]) => k \in Nat
      BY <1>1, <1>3, TargetType DEF LogTypes
    <3>2. Events!Matches(turn) \subseteq Nat
      BY <1>1, <1>3, <3>1, MatchesType
    <3> QED BY <1>3, <1>6, <3>2 DEF Dated, Events!Undated
  <2>2. pos \notin Events!Undated(turn)
    BY <1>5 DEF Events!Undated
  <2> QED BY <1>3, <2>1, <2>2
<1>12. Collected' /\ Dated'
  BY <1>2, <1>7, <1>10, <1>11, Carried
<1>13. turn = 2 => Told(1, first)' /\ Clean(1)'
  BY <1>1, <1>2, Carried DEF Running
<1>14. Running'
  BY <1>1, <1>2, <1>12, <1>13 DEF Running
<1>15. LogTypes'
  <2>1. crashlogs' \in Seq(Found)
    BY <1>8, <1>9
  <2> QED BY <1>1, <1>2, <2>1 DEF LogTypes, Events!input
<1>16. AtEvent'
  BY <1>1, <1>2, <1>3 DEF AtEvent, Holding, Events!Place, Events!Target, Events!input
<1>17. Ended'
  BY <1>2, <1>3 DEF Ended
<1> QED BY <1>14, <1>15, <1>16, <1>17 DEF LogInv

LEMMA PassKeeps ==
    ASSUME LogInv, Events!RenderNothing \/ Events!SkipEvent
    PROVE  LogInv'
<1>1. LogTypes /\ AtEvent
  BY DEF LogInv
<1>2. /\ Holding /\ UNCHANGED Events!input /\ at' = "next"
      /\ UNCHANGED <<turn, pos, values, crashlogs, first, outcome, broken>>
  BY DEF Events!RenderNothing, Events!SkipEvent, Holding
<1>3. Events!EventAt(<<Events!Place, pos>>) = logs[Events!Target(turn)][pos]
  BY <1>1, <1>2, InHand
<1>4. at = "parse" => values = <<Events!Place, pos>>
  BY <1>1 DEF AtEvent
<1>5. logs[Events!Target(turn)][pos].data # "sound"
  <2>1. CASE Events!RenderNothing
    BY <1>3, <2>1 DEF Events!RenderNothing
  <2>2. CASE Events!SkipEvent
    BY <1>3, <1>4, <2>2 DEF Events!SkipEvent, Events!Parsed
  <2> QED BY <2>1, <2>2
<1> QED BY <1>2, <1>5, PassEvent

LEMMA FailKeeps ==
    ASSUME LogInv, Events!NullSlice \/ Events!TimeInvalid \/ Events!CallFails
    PROVE  LogInv'
<1>1. LogTypes /\ AtEvent
  BY DEF LogInv
<1>2. << >> \in Seq(Found) /\ crashlogs \in Seq(Found) /\ first \in Seq(Found)
  BY <1>1 DEF LogTypes
<1>3. CASE Events!NullSlice
  <2>1. /\ UNCHANGED Events!input /\ at' = "done" /\ UNCHANGED <<turn, pos, values>>
        /\ crashlogs' = crashlogs /\ first' = first /\ outcome' = "panic"
    BY <1>3 DEF Events!NullSlice
  <2> QED BY <1>2, <2>1, Fails
<1>4. CASE Events!TimeInvalid
  <2>1. /\ UNCHANGED Events!input /\ at' = "done" /\ UNCHANGED <<turn, pos, values>>
        /\ crashlogs' = << >> /\ first' = << >> /\ outcome' = "error"
        /\ at = "parse" /\ Events!Parsed.data = "sound" /\ Events!Parsed.time = "invalid"
    BY <1>4 DEF Events!TimeInvalid, Events!Abort
  <2>2. /\ Events!EventAt(<<Events!Place, pos>>) = logs[Events!Target(turn)][pos]
        /\ pos \in Events!Matches(turn) /\ turn \in {1, 2} /\ values = <<Events!Place, pos>>
    BY <1>1, <2>1, InHand DEF AtEvent, Holding
  <2>3. pos \in Events!Undated(turn)
    BY <2>1, <2>2 DEF Events!Undated, Events!Parsed
  <2>4. Events!Undated(1) \cup Events!Undated(2) # {}
    BY <2>2, <2>3
  <2> QED BY <1>2, <2>1, <2>4, Fails
<1>5. CASE Events!CallFails
  <2>1. /\ UNCHANGED Events!input /\ at' = "done" /\ UNCHANGED <<turn, pos, values>>
        /\ crashlogs' = << >> /\ first' = << >> /\ outcome' = "error" /\ broken'
    BY <1>5 DEF Events!CallFails, Events!Abort
  <2> QED BY <1>2, <2>1, Fails
<1> QED BY <1>3, <1>4, <1>5
LEMMA SplitBoth ==
    ASSUME NEW S, NEW s \in Seq(S), NEW t \in Seq(S)
    PROVE  /\ Len(s) \in 0 .. Len(s \o t)
           /\ SubSeq(s \o t, 1, Len(s)) = s
           /\ SubSeq(s \o t, Len(s) + 1, Len(s \o t)) = t
BY SubSeqOfConcat1, SubSeqOfConcat2, SubSeqFull
LEMMA EndKeeps == ASSUME LogInv, Events!NoMoreEvents PROVE LogInv'
<1>1. LogTypes /\ AtEvent /\ Running
  BY DEF LogInv
<1>2. /\ at = "next" /\ UNCHANGED Events!input /\ Events!Ahead = {}
      /\ first' = first \o crashlogs /\ crashlogs' = << >> /\ pos' = 0
      /\ values' = values /\ broken' = broken
  BY DEF Events!NoMoreEvents
<1>3. turn \in {1, 2} /\ pos \in Nat /\ first \in Seq(Found) /\ crashlogs \in Seq(Found)
  BY <1>1 DEF LogTypes
<1>4. Collected /\ Dated /\ outcome = "none" /\ Upto = pos
  BY <1>1, <1>2 DEF Running, AtEvent, Upto, Holding
<1>5. ASSUME NEW q \in {1, 2}
      PROVE  /\ Len(logs[Events!Target(q)]) \in Nat
             /\ before[Events!Target(q)] \in Nat
             /\ before[Events!Target(q)] <= Len(logs[Events!Target(q)])
             /\ \A m \in Events!Matches(q) :
                  m \in Nat /\ m >= 1 /\ m <= Len(logs[Events!Target(q)])
  <2>1. /\ Len(logs[Events!Target(q)]) \in Nat
        /\ before[Events!Target(q)] \in Nat
        /\ before[Events!Target(q)] <= Len(logs[Events!Target(q)])
    BY <1>1, TargetType DEF LogTypes
  <2> QED BY <1>1, <2>1, MatchesType
<1>6. \A m \in Events!Matches(turn) : ~(m > pos)
  BY <1>2 DEF Events!Ahead
<1>7. \A q \in {1, 2} : q = turn => Told(q, crashlogs) /\ Clean(q)
  <2> SUFFICES ASSUME NEW q \in {1, 2}, q = turn PROVE Told(q, crashlogs) /\ Clean(q)
    OBVIOUS
  <2> DEFINE n == Len(logs[Events!Target(q)])
  <2>1. pos <= n /\ n \in Nat /\ pos \in Int /\ n \in Int
    BY <1>1, <1>2, <1>3, <1>5 DEF AtEvent, Events!Place
  <2>2. Events!Tells(q, pos, crashlogs)
    BY <1>4 DEF Collected
  <2>3. n \in Events!Since(q)
    BY <1>5 DEF Events!Since
  <2> HIDE DEF n
  <2>4. \A m \in Events!Matches(q) :
          pos < m /\ m <= n => logs[Events!Target(q)][m].data # "sound"
    BY <1>3, <1>5, <1>6
  <2>5. Events!Tells(q, n, crashlogs)
    BY <1>1, <2>1, <2>2, <2>4, TellsFurther
  <2>6. \A x \in Events!Undated(q) : FALSE
    <3>1. \A x \in Events!Undated(q) : x \in Events!Matches(q) /\ x > pos
      BY <1>4 DEF Dated, Events!Undated
    <3> QED BY <1>6, <3>1
  <2> QED BY <2>3, <2>5, <2>6 DEF Told, Clean
<1>8. LogTypes'
  <2>1. first' \in Seq(Found) /\ crashlogs' \in Seq(Found) /\ turn' \in {1, 2}
    <3>1. first \o crashlogs \in Seq(Found)
      BY <1>3
    <3>2. turn' \in {1, 2}
      BY <1>3 DEF Events!NoMoreEvents
    <3> QED BY <1>2, <3>1, <3>2
  <2> QED BY <1>1, <1>2, <2>1 DEF LogTypes, Events!input
<1>9. CASE turn = 1
  <2>1. turn' = 2 /\ at' = "query" /\ outcome' = outcome
    BY <1>9 DEF Events!NoMoreEvents
  <2>2. first = << >>
    BY <1>1, <1>2, <1>9 DEF Running
  <2>3. first' = crashlogs
    BY <1>2, <1>3, <2>2
  <2>4. Told(1, first)' /\ Clean(1)'
    BY <1>2, <1>7, <1>9, <2>3, Carried
  <2>5. Events!Tells(2, 0, << >>)
    <3>1. Events!Sounds(2, 0) = {}
      BY <1>5 DEF Events!Sounds
    <3> QED BY <3>1 DEF Events!Tells
  <2>6. \A x \in Events!Undated(2) : x > 0
    BY <1>5 DEF Events!Undated
  <2>7. Upto' = 0
    BY <1>2, <2>1 DEF Upto, Holding
  <2>8. Collected' /\ Dated'
    BY <1>2, <2>1, <2>5, <2>6, <2>7, Carried
  <2>9. Running'
    BY <2>1, <2>4, <2>8 DEF Running
  <2>10. Ended'
    BY <1>4, <2>1 DEF Ended
  <2>11. AtEvent'
    <3>1. ~Holding' /\ at' = "query" /\ pos' = 0 /\ crashlogs' = << >> /\ outcome' = "none"
      BY <1>2, <1>4, <2>1 DEF Holding
    <3>2. pos' <= Len(logs[Events!Place])'
      <4>1. Len(logs[Events!Target(2)]) \in Nat
        BY <1>5
      <4>2. Events!Place' = Events!Target(2) /\ logs' = logs
        BY <1>2, <2>1 DEF Events!Place, Events!Target, Events!input
      <4> QED BY <1>2, <4>1, <4>2
    <3> QED BY <3>1, <3>2 DEF AtEvent
  <2> QED BY <1>8, <2>9, <2>10, <2>11 DEF LogInv
<1>10. CASE turn = 2
  <2>1. turn' = turn /\ at' = "done" /\ outcome' = "ok"
    BY <1>10 DEF Events!NoMoreEvents
  <2>2. Told(1, first) /\ Clean(1) /\ Told(2, crashlogs) /\ Clean(2)
    BY <1>1, <1>2, <1>7, <1>10 DEF Running
  <2>3. Events!Complete'
    <3> DEFINE both == first \o crashlogs
               k == Len(first)
    <3>1. PICK m \in Events!Since(1) : Events!Tells(1, m, first)
      BY <2>2 DEF Told
    <3>2. PICK n \in Events!Since(2) : Events!Tells(2, n, crashlogs)
      BY <2>2 DEF Told
    <3>3. /\ k \in 0 .. Len(both)
          /\ SubSeq(both, 1, k) = first
          /\ SubSeq(both, k + 1, Len(both)) = crashlogs
      BY <1>3, SplitBoth
    <3>4. k \in 0 .. Len(first') /\ SubSeq(first', 1, k) = first
          /\ SubSeq(first', k + 1, Len(first')) = crashlogs
      BY <1>2, <3>3
    <3> HIDE DEF both, k
    <3>5. Events!Complete' <=>
            (outcome' = "ok" =>
               \E j \in 0 .. Len(first') :
                 /\ \E x \in Events!Since(1) : Events!Tells(1, x, SubSeq(first', 1, j))
                 /\ \E x \in Events!Since(2) : Events!Tells(2, x, SubSeq(first', j + 1, Len(first'))))
      BY <1>2 DEF Events!Complete, Events!Since, Events!Tells, Events!Sounds, Events!Matches,
                  Events!Target, Events!EventAt, Events!Nothing, Events!input
    <3> QED BY <3>1, <3>2, <3>4, <3>5
  <2>4. Clean(1)' /\ Clean(2)'
    BY <1>2, <2>2, Carried
  <2>5. Ended'
    BY <2>1, <2>3, <2>4 DEF Ended
  <2>6. Running' /\ AtEvent'
    BY <2>1 DEF Running, AtEvent, Holding
  <2> QED BY <1>8, <2>5, <2>6 DEF LogInv
<1> QED BY <1>3, <1>9, <1>10

LEMMA RunKeeps == LogInv /\ Events!Run => LogInv'
BY CallKeeps, NextKeeps, EndKeeps, PassKeeps, KeepKeeps, FailKeeps DEF Events!Run

LEMMA LogStarts == Events!Init => LogInv
<1> SUFFICES ASSUME Events!Init PROVE LogInv
  OBVIOUS
<1>1. /\ at = "query" /\ turn = 1 /\ pos = 0 /\ values = Events!Nothing
      /\ crashlogs = << >> /\ first = << >> /\ outcome = "none"
      /\ before = [l \in Events!Log |-> Len(logs[l])]
  BY DEF Events!Init
<1>2. logs \in [Events!Log -> Seq(Events!Event)]
  BY WindowsAssumption DEF Events!Init, Events!EventLogAssumption
<1>3. LogTypes
  <2>1. \A l \in Events!Log : before[l] = Len(logs[l]) /\ Len(logs[l]) \in Nat
    BY <1>1, <1>2
  <2>2. before \in [Events!Log -> Nat]
    BY <1>1, <2>1
  <2>3. values \in Events!Log \X Nat
    BY <1>1 DEF Events!Nothing, Events!Log
  <2> QED BY <1>1, <1>2, <2>1, <2>2, <2>3 DEF LogTypes
<1>4. \A m \in Events!Matches(1) : m \in Nat /\ m >= 1
  <2>1. Len(logs[Events!Target(1)]) \in Nat
    BY <1>2, TargetType
  <2> QED BY <1>3, <2>1, MatchesType
<1>5. ~Holding /\ Upto = 0
  BY <1>1 DEF Holding, Upto
<1>6. Collected
  <2>1. Events!Sounds(1, 0) = {}
    BY <1>4 DEF Events!Sounds
  <2>2. Events!Tells(1, 0, << >>)
    BY <2>1 DEF Events!Tells
  <2> QED BY <1>1, <1>5, <2>2 DEF Collected
<1>7. Dated
  BY <1>1, <1>4, <1>5 DEF Dated, Events!Undated
<1>8. AtEvent
  <2>1. Len(logs[Events!Target(1)]) \in Nat /\ Events!Place = Events!Target(1)
    BY <1>1, <1>2, TargetType DEF Events!Place
  <2> QED BY <1>1, <1>5, <2>1 DEF AtEvent
<1>9. Running /\ Ended
  BY <1>1, <1>6, <1>7 DEF Running, Ended
<1> QED BY <1>3, <1>8, <1>9 DEF LogInv
LEMMA StillKeeps == LogInv /\ UNCHANGED reading => LogInv'
<1> SUFFICES ASSUME LogInv, UNCHANGED reading PROVE LogInv'
  OBVIOUS
<1>1. /\ UNCHANGED Events!input
      /\ UNCHANGED <<at, turn, pos, values, crashlogs, first, outcome, broken>>
  BY DEF reading, Events!input
<1>2. LogTypes' /\ Upto' = Upto
  BY <1>1 DEF LogInv, LogTypes, Upto, Holding, Events!input
<1>3. /\ Events!Place' = Events!Place /\ logs' = logs
      /\ Events!Matches(turn)' = Events!Matches(turn)
  BY <1>1 DEF Events!Place, Events!Target, Events!Matches, Events!input
<1>4. AtEvent'
  BY <1>1, <1>3 DEF LogInv, AtEvent, Holding
<1>5. Running'
  <2>1. Collected /\ Dated => Collected' /\ Dated'
    BY <1>1, <1>2, Carried DEF Collected, Dated
  <2>2. Told(1, first) /\ Clean(1) => Told(1, first)' /\ Clean(1)'
    BY <1>1, Carried
  <2> QED BY <1>1, <2>1, <2>2 DEF LogInv, Running
<1>6. Ended'
  <2>1. \A q : /\ Clean(q) => Clean(q)'
               /\ Events!Undated(q)' = Events!Undated(q)
    BY <1>1, Carried
  <2>2. Events!Complete => Events!Complete'
    <3>1. fromFile' = fromFile /\ logs' = logs /\ before' = before
          /\ first' = first /\ outcome' = outcome
      BY <1>1 DEF Events!input
    <3>2. Events!Since(1)' = Events!Since(1) /\ Events!Since(2)' = Events!Since(2)
      BY <3>1 DEF Events!Since, Events!Target
    <3>3. \A p, m : Events!Sounds(p, m)' = Events!Sounds(p, m)
      BY <3>1 DEF Events!Sounds, Events!Matches, Events!Target
    <3>4. \A p : Events!Target(p)' = Events!Target(p)
      BY <3>1 DEF Events!Target
    <3>5. \A id : Events!EventAt(id)' = Events!EventAt(id)
      BY <3>1 DEF Events!EventAt
    <3>6. ASSUME NEW p, NEW m, NEW found
          PROVE  Events!Tells(p, m, found)' <=> Events!Tells(p, m, found)
      BY <3>3, <3>4, <3>5 DEF Events!Tells, Events!Nothing
    <3>7. ASSUME NEW j \in 0 .. Len(first),
                 NEW m \in Events!Since(1), Events!Tells(1, m, SubSeq(first, 1, j)),
                 NEW n \in Events!Since(2), Events!Tells(2, n, SubSeq(first, j + 1, Len(first)))
          PROVE  Events!Complete'
      <4>1. ASSUME NEW a, a = SubSeq(first, 1, j), NEW b, b = SubSeq(first, j + 1, Len(first))
            PROVE  Events!Complete'
        <5>1. Events!Tells(1, m, a)' /\ Events!Tells(2, n, b)'
          BY <3>6, <3>7, <4>1
        <5>2. /\ a = SubSeq(first', 1, j) /\ b = SubSeq(first', j + 1, Len(first'))
              /\ j \in 0 .. Len(first') /\ m \in Events!Since(1)' /\ n \in Events!Since(2)'
          BY <3>1, <3>2, <3>7, <4>1
        <5>3. Events!Tells(1, m, SubSeq(first, 1, j))'
          BY <5>1, <5>2 DEF Events!Tells
        <5>4. Events!Tells(2, n, SubSeq(first, j + 1, Len(first)))'
          BY <5>1, <5>2 DEF Events!Tells
        <5>5. \E k \in (0 .. Len(first))' :
                /\ (\E x \in Events!Since(1) : Events!Tells(1, x, SubSeq(first, 1, k)))'
                /\ (\E x \in Events!Since(2) : Events!Tells(2, x, SubSeq(first, k + 1, Len(first))))'
          BY <5>2, <5>3, <5>4
        <5> QED BY <5>5 DEF Events!Complete
      <4> QED BY <4>1
    <3>8. outcome = "ok" /\ Events!Complete => Events!Complete'
      BY <3>7 DEF Events!Complete
    <3>9. outcome # "ok" => Events!Complete'
      BY <3>1 DEF Events!Complete
    <3> QED BY <3>8, <3>9
  <2> QED BY <1>1, <2>1, <2>2 DEF LogInv, Ended
<1> QED BY <1>2, <1>4, <1>5, <1>6 DEF LogInv

(* What the extraction has in hand is right at every step of the program.  *)
LEMMA LogHolds == WindowsSpec => []LogInv
<1>1. WindowsInit => LogInv
  BY LogStarts DEF WindowsInit
<1>2. LogInv /\ [WindowsNext]_<<vars, reading>> => LogInv'
  <2> SUFFICES ASSUME LogInv, [WindowsNext]_<<vars, reading>> PROVE LogInv'
    OBVIOUS
  <2>1. CASE LogMore
    BY <2>1, ArrivalKeeps DEF LogMore
  <2>2. CASE \E p \in Procs : WindowsStep(p)
    <3>1. PICK p \in Procs : WindowsStep(p)
      BY <2>2
    <3>2. Events!Run \/ UNCHANGED reading
      BY <3>1 DEF WindowsStep, ReaderStep, ReadLog, Answer, Stopped, UnpackOne, UnpackFails,
                  UnpackEnds
    <3> QED BY <3>2, RunKeeps, StillKeeps
  <2>3. CASE UNCHANGED <<vars, reading>>
    BY <2>3, StillKeeps
  <2> QED BY <2>1, <2>2, <2>3 DEF WindowsNext
<1> QED BY <1>1, <1>2, PTL DEF WindowsSpec

(* The answer of the event log is complete, in order, and each crash log   *)
(* in it carries the time and computer of its own event, however much is   *)
(* logged while query_crashlogs reads.                                     *)
THEOREM LogIsComplete == WindowsSpec => []Complete
<1>1. LogInv => Complete
  BY DEF LogInv, Ended, Complete, Events!Complete
<1> QED BY <1>1, LogHolds, PTL

(* An extraction fails only for a call or a time that failed, and as a     *)
(* whole; it never succeeds past such a crash log (the ? of                *)
(* extract_crashlogs and query_crashlogs).                                 *)
THEOREM LogIsAllOrNothing == WindowsSpec => []AllOrNothing
<1>1. LogInv => AllOrNothing
  BY DEF LogInv, Ended, Clean, AllOrNothing, Events!AllOrNothing
<1> QED BY <1>1, LogHolds, PTL
---------------------------------------------------------------------------
(* The files.  What is in a file, and what a process may write over.       *)

(* No prover knows a literal to be in STRING.                              *)
Name == STRING \cup {"minute", "host-minute"}

FileTypes ==
    /\ cli \in [Procs -> CommandLines]
    /\ pc \in [Procs -> {"gather", "look", "write", "unpack", "done"}]
    /\ src \in [Procs -> Nat \ {0}]
    /\ result \in [Procs -> Seq(Name)]
    /\ log \in [Procs -> Nat \ {0}]
    /\ idx \in [Procs -> Nat]
    /\ \A p \in Procs : /\ pc[p] = "gather" => log[p] = 1
                        /\ pc[p] = "unpack" => cli[p].out = "beside"

(* A file holds no crash log its process has not come to.                  *)
IdsBehind ==
    \A path \in DOMAIN fs : \A p \in Procs : \A n \in Nat \ {0} :
        fs[path] = Id(p, n) => n < log[p]

(* A file found free may be there by now, but then it is another's.        *)
WriteSafe ==
    \A p \in Procs : pc[p] = "write" /\ Exists(p) =>
        /\ fs[Path(p)] # Old
        /\ \A n \in Nat \ {0} : fs[Path(p)] # Id(p, n)

(* Where the n-th crash log of p is, or what has taken its place, is not   *)
(* the file p is about to write.                                           *)
Taken(p, n, path) ==
    \/ fs[path] = Id(p, n) \/ fs[path] = Partial
    \/ \E q \in Procs \ {p} : \E m \in 1 .. log[q] - 1 : fs[path] = Id(q, m)

Kept(p, n) ==
    \/ Id(p, n) \in failed
    \/ \E path \in In(cli[p].out, result[p][n]) :
         /\ pc[p] = "write" => path # Path(p)
         /\ Taken(p, n, path)

AllKept ==
    \A p \in Procs : cli[p].out \in {"cwd", "dir"} => \A n \in 1 .. log[p] - 1 : Kept(p, n)

FileInv == FileTypes /\ IdsBehind /\ WriteSafe /\ NamesTrue /\ AllKept

---------------------------------------------------------------------------
(* What a step of one process does to the files, and what it does to the   *)
(* process.                                                                *)

Moved(p) ==
    /\ cli' = cli /\ FileTypes' /\ failed \subseteq failed'
    /\ \A q \in Procs : q # p => /\ pc'[q] = pc[q] /\ result'[q] = result[q]
                                 /\ log'[q] = log[q] /\ idx'[q] = idx[q]
    /\ log'[p] \in {log[p], log[p] + 1}
    /\ pc[p] = "gather" \/ result'[p] = result[p]

(* Nothing is written; a crash log is passed over only when its file is    *)
(* there or its write failed.                                              *)
Unwritten(p) ==
    /\ fs' = fs
    /\ log'[p] # log[p] => cli[p].out = "file" \/ Id(p, log[p]) \in failed'
    /\ pc'[p] = "write" => /\ pc[p] = "look" /\ ~Exists(p)
                           /\ result'[p] = result[p] /\ log'[p] = log[p] /\ idx'[p] = idx[p]

(* The file the name was found for.                                        *)
Written(p) ==
    /\ pc[p] = "write" /\ pc'[p] = "look" /\ log'[p] = log[p] + 1
    /\ \/ Put(Path(p), Id(p, log[p]))
       \/ Put(Path(p), Partial) /\ Id(p, log[p]) \in failed'

(* A file beside the one that is unpacked.                                 *)
Beside(p) ==
    /\ pc'[p] # "write" /\ cli[p].out = "beside"
    /\ \E n \in Nat :
         \/ Put(<<"beside", n>>, Id(p, log[p])) /\ log'[p] = log[p] + 1
         \/ Put(<<"beside", n>>, Partial)

LEMMA CallType ==
    ASSUME FileTypes, NEW p \in Procs, src[p] <= Len(Calls(p))
    PROVE  Calls(p)[src[p]].names \subseteq STRING /\ Calls(p)[src[p]].max \in Nat
<1>1. cli[p] \in CommandLines /\ src[p] \in Nat \ {0}
  BY DEF FileTypes
<1>2. Calls(p) \in Seq(Call)
  BY <1>1, ExtractAssumption DEF Calls
<1>3. Calls(p)[src[p]] \in Call
  BY <1>1, <1>2
<1> QED BY <1>3 DEF Call

LEMMA GatherMoves ==
    ASSUME FileTypes, NEW p \in Procs, Gather(p)
    PROVE  Moved(p) /\ Unwritten(p)
<1>1. /\ pc[p] = "gather" /\ src[p] <= Len(Calls(p)) /\ src' = [src EXCEPT ![p] = @ + 1]
      /\ UNCHANGED <<fs, cli, pc, log, idx, failed>>
  BY DEF Gather
<1>2. PICK n \in 0 .. Calls(p)[src[p]].max :
        \E more \in [1 .. n -> Calls(p)[src[p]].names] : result' = [result EXCEPT ![p] = @ \o more]
  BY DEF Gather
<1>3. PICK more \in [1 .. n -> Calls(p)[src[p]].names] : result' = [result EXCEPT ![p] = @ \o more]
  BY <1>2
<1>4. more \in Seq(Name)
  <2>1. n \in Nat /\ more \in [1 .. n -> Name]
    BY <1>1, CallType DEF Name
  <2> QED BY <2>1
<1>5. result[p] \o more \in Seq(Name)
  BY <1>4 DEF FileTypes
<1>6. result' \in [Procs -> Seq(Name)] /\ \A q \in Procs : q # p => result'[q] = result[q]
  BY <1>3, <1>5 DEF FileTypes
<1>7. FileTypes'
  <2>1. src' \in [Procs -> Nat \ {0}]
    <3>1. src[p] + 1 \in Nat \ {0} /\ src \in [Procs -> Nat \ {0}]
      BY DEF FileTypes
    <3> QED BY <1>1, <3>1
  <2>2. UNCHANGED <<cli, pc, log, idx>>
    BY <1>1
  <2> QED BY <1>6, <2>1, <2>2 DEF FileTypes
<1> QED BY <1>1, <1>6, <1>7 DEF Moved, Unwritten

LEMMA StoreMoves ==
    ASSUME FileTypes, NEW p \in Procs, Gathered(p) \/ Store(p)
    PROVE  Moved(p) /\ (Unwritten(p) \/ Written(p))
<1>1. /\ log[p] \in Nat \ {0} /\ idx[p] \in Nat /\ IdxWord \in Nat \ {0}
      /\ log[p] + 1 \in Nat \ {0} /\ (idx[p] + 1) % IdxWord \in Nat
  BY ExtractAssumption DEF FileTypes
<1>2. CASE Gathered(p) \/ FindFree(p) \/ Finish(p)
  <2>1. /\ UNCHANGED <<fs, cli, src, result, log, idx, failed>> /\ pc[p] \in {"gather", "look"}
        /\ \E l \in {"look", "write", "done"} :
             pc' = [pc EXCEPT ![p] = l] /\ (l = "write" => pc[p] = "look" /\ ~Exists(p))
    BY <1>2 DEF Gathered, FindFree, Finish, Looking
  <2>2. FileTypes'
    BY <2>1 DEF FileTypes
  <2> QED BY <2>1, <2>2 DEF Moved, Unwritten, FileTypes
<1>3. CASE TryNext(p)
  <2>1. /\ UNCHANGED <<fs, cli, pc, src, result, log, failed>> /\ pc[p] = "look"
        /\ idx' = [idx EXCEPT ![p] = (@ + 1) % IdxWord]
    BY <1>3 DEF TryNext, Looking
  <2>2. FileTypes'
    BY <1>1, <2>1 DEF FileTypes
  <2> QED BY <2>1, <2>2 DEF Moved, Unwritten, FileTypes
<1>4. ASSUME NextLog(p), UNCHANGED <<cli, src, result>>, failed \subseteq failed',
             pc[p] \in {"look", "write"}
      PROVE  Moved(p) /\ pc'[p] = "look" /\ log'[p] = log[p] + 1
  <2>1. /\ log' = [log EXCEPT ![p] = @ + 1] /\ idx' = [idx EXCEPT ![p] = 0]
        /\ pc' = [pc EXCEPT ![p] = "look"]
    BY <1>4 DEF NextLog
  <2>2. FileTypes'
    BY <1>1, <1>4, <2>1 DEF FileTypes
  <2> QED BY <1>4, <2>1, <2>2 DEF Moved, FileTypes
<1>5. CASE GiveUp(p)
  <2>1. /\ NextLog(p) /\ UNCHANGED <<fs, cli, src, result, failed>> /\ pc[p] = "look"
        /\ cli[p].out = "file"
    BY <1>5 DEF GiveUp, Looking, IsFile
  <2> QED BY <1>4, <2>1 DEF Unwritten
<1>6. CASE Write(p)
  <2>1. /\ NextLog(p) /\ UNCHANGED <<cli, src, result, failed>> /\ pc[p] = "write"
        /\ Put(Path(p), Id(p, log[p]))
    BY <1>6 DEF Write
  <2> QED BY <1>4, <2>1 DEF Written
<1>7. CASE WriteFails(p)
  <2>1. /\ NextLog(p) /\ UNCHANGED <<cli, src, result>> /\ pc[p] = "write"
        /\ failed' = failed \cup {Id(p, log[p])}
        /\ Put(Path(p), Partial) \/ UNCHANGED fs
    BY <1>7 DEF WriteFails
  <2> QED BY <1>4, <2>1 DEF Written, Unwritten
<1> QED BY <1>2, <1>3, <1>5, <1>6, <1>7 DEF Store

LEMMA ReaderMoves ==
    ASSUME FileTypes, LogTypes, Answer \/ Stopped \/ UnpackOne \/ UnpackFails \/ UnpackEnds
    PROVE  Moved(Reader) /\ (Unwritten(Reader) \/ Beside(Reader))
<1>1. Reader \in Procs /\ log[Reader] \in Nat \ {0} /\ log[Reader] + 1 \in Nat \ {0}
  BY WindowsAssumption DEF FileTypes
<1>2. CASE Answer
  <2>1. /\ pc[Reader] = "gather" /\ UNCHANGED <<fs, cli, log, idx, failed>>
        /\ result' = [result EXCEPT ![Reader] = [i \in DOMAIN first |-> NameOf(first[i])]]
        /\ src' = [src EXCEPT ![Reader] = 2]
        /\ pc' = [pc EXCEPT ![Reader] = IF Unpacks(Reader) THEN "unpack" ELSE "gather"]
    BY <1>2 DEF Answer, AtLog
  <2>2. [i \in DOMAIN first |-> NameOf(first[i])] \in Seq(Name)
    <3>1. first \in Seq(Found)
      BY DEF LogTypes
    <3>2. \A x : NameOf(x) \in Name
      BY DEF NameOf, Name
    <3> QED BY <3>1, <3>2
  <2>3. FileTypes'
    BY <1>1, <2>1, <2>2 DEF FileTypes, Unpacks
  <2> QED BY <1>1, <2>1, <2>3 DEF Moved, Unwritten, FileTypes
<1>3. CASE Stopped \/ UnpackEnds
  <2>1. /\ UNCHANGED <<fs, cli, src, result, log, idx, failed>>
        /\ pc' = [pc EXCEPT ![Reader] = "done"]
    BY <1>3 DEF Stopped, UnpackEnds
  <2>2. FileTypes'
    BY <1>1, <2>1 DEF FileTypes
  <2> QED BY <1>1, <2>1, <2>2 DEF Moved, Unwritten, FileTypes
<1>4. CASE UnpackOne
  <2>1. /\ pc[Reader] = "unpack" /\ Put(Unpacked, Id(Reader, log[Reader]))
        /\ log' = [log EXCEPT ![Reader] = @ + 1]
        /\ UNCHANGED <<cli, pc, src, result, idx, failed>>
    BY <1>4 DEF UnpackOne, Unpacking
  <2>2. FileTypes'
    BY <1>1, <2>1 DEF FileTypes
  <2>3. log'[Reader] = log[Reader] + 1 /\ cli[Reader].out = "beside" /\ pc'[Reader] # "write"
    BY <1>1, <2>1 DEF FileTypes
  <2>4. Beside(Reader)
    BY <1>1, <2>1, <2>3 DEF Beside, Unpacked
  <2> QED BY <1>1, <2>1, <2>2, <2>3, <2>4 DEF Moved, FileTypes
<1>5. CASE UnpackFails
  <2>1. /\ pc[Reader] = "unpack"
        /\ Put(Unpacked, Partial) \/ UNCHANGED fs
        /\ pc' = [pc EXCEPT ![Reader] = "done"] /\ failed \subseteq failed'
        /\ UNCHANGED <<cli, src, result, log, idx>>
    BY <1>5 DEF UnpackFails, Unpacking
  <2>2. FileTypes'
    BY <1>1, <2>1 DEF FileTypes
  <2>3. cli[Reader].out = "beside" /\ pc'[Reader] # "write"
    BY <1>1, <2>1 DEF FileTypes
  <2>4. Unwritten(Reader) \/ Beside(Reader)
    BY <1>1, <2>1, <2>3 DEF Beside, Unwritten, Unpacked
  <2> QED BY <1>1, <2>1, <2>2, <2>4 DEF Moved, FileTypes
<1> QED BY <1>2, <1>3, <1>4, <1>5
---------------------------------------------------------------------------
LEMMA IdFacts ==
    \A p, q : \A m, n \in Nat \ {0} :
        /\ Id(p, m) = Id(q, n) => p = q /\ m = n
        /\ Id(p, m) # Old /\ Id(p, m) # Partial /\ Old # Partial
BY DEF Id, Old, Partial

LEMMA PutFacts ==
    ASSUME NEW w, NEW c, Put(w, c)
    PROVE  /\ DOMAIN fs' = DOMAIN fs \cup {w} /\ fs'[w] = c
           /\ \A x \in DOMAIN fs : x # w => fs'[x] = fs[x]
BY DEF Put

(* The process that does not move looks for the same file.                 *)
LEMMA PathStays ==
    ASSUME NEW p \in Procs, Moved(p), NEW q \in Procs, q # p
    PROVE  Path(q)' = Path(q) /\ pc'[q] = pc[q] /\ result'[q] = result[q] /\ log'[q] = log[q]
BY DEF Moved, Path

LEMMA MoveTypes ==
    ASSUME FileTypes, NEW p \in Procs, Moved(p)
    PROVE  /\ \A q \in Procs : log[q] \in Nat \ {0} /\ log'[q] \in Nat \ {0} /\ log[q] <= log'[q]
           /\ \A q \in Procs : DOMAIN result[q] \subseteq Nat \ {0}
           /\ \A q \in Procs : DOMAIN result'[q] \subseteq Nat \ {0}
           /\ \A q \in Procs : log[q] > 1 => result'[q] = result[q]
<1>1. \A q \in Procs : log[q] \in Nat \ {0} /\ log'[q] \in Nat \ {0} /\ log[q] <= log'[q]
  BY DEF FileTypes, Moved
<1>2. \A q \in Procs : result[q] \in Seq(Name) /\ result'[q] \in Seq(Name)
  BY DEF FileTypes, Moved
<1>3. \A q \in Procs : DOMAIN result[q] \subseteq Nat \ {0} /\ DOMAIN result'[q] \subseteq Nat \ {0}
  <2> SUFFICES ASSUME NEW q \in Procs
               PROVE  DOMAIN result[q] \subseteq Nat \ {0} /\ DOMAIN result'[q] \subseteq Nat \ {0}
    OBVIOUS
  <2>1. Len(result[q]) \in Nat /\ DOMAIN result[q] = 1 .. Len(result[q])
    BY <1>2
  <2>2. Len(result'[q]) \in Nat /\ DOMAIN result'[q] = 1 .. Len(result'[q])
    BY <1>2
  <2> QED BY <2>1, <2>2
<1>4. \A q \in Procs : log[q] > 1 => result'[q] = result[q]
  BY DEF FileTypes, Moved
<1> QED BY <1>1, <1>3, <1>4

LEMMA UnwrittenKeeps ==
    ASSUME FileInv, NEW p \in Procs, Moved(p), Unwritten(p)
    PROVE  FileInv'
<1>1. FileTypes /\ IdsBehind /\ WriteSafe /\ NamesTrue /\ AllKept
  BY DEF FileInv
<1>2. FileTypes' /\ cli' = cli /\ fs' = fs /\ failed \subseteq failed'
  BY DEF Moved, Unwritten
<1>3. /\ \A q \in Procs : log[q] \in Nat \ {0} /\ log'[q] \in Nat \ {0} /\ log[q] <= log'[q]
      /\ \A q \in Procs : DOMAIN result[q] \subseteq Nat \ {0}
      /\ \A q \in Procs : DOMAIN result'[q] \subseteq Nat \ {0}
      /\ \A q \in Procs : log[q] > 1 => result'[q] = result[q]
  BY <1>1, MoveTypes
<1>4. IdsBehind'
  <2> SUFFICES ASSUME NEW path \in DOMAIN fs', NEW q \in Procs, NEW n \in Nat \ {0},
                      fs'[path] = Id(q, n)
               PROVE  n < log'[q]
    BY DEF IdsBehind, Id
  <2>1. n < log[q]
    BY <1>1, <1>2 DEF IdsBehind
  <2> QED BY <1>3, <2>1
<1>5. pc'[p] = "write" => ~Exists(p) /\ Path(p)' = Path(p)
  BY <1>2 DEF Unwritten, Path
<1>6. WriteSafe'
  <2> SUFFICES ASSUME NEW q \in Procs, pc'[q] = "write", Exists(q)'
               PROVE  fs'[Path(q)'] # Old /\ \A n \in Nat \ {0} : fs'[Path(q)'] # Id(q, n)
    BY DEF WriteSafe, Id, Old
  <2>1. q # p
    BY <1>2, <1>5 DEF Exists
  <2>2. Path(q)' = Path(q) /\ pc[q] = "write" /\ Exists(q)
    BY <1>2, <2>1, PathStays DEF Exists
  <2> QED BY <1>1, <1>2, <2>2 DEF WriteSafe
<1>7. NamesTrue'
  <2> SUFFICES ASSUME NEW path \in DOMAIN fs', Len(path) = 3, NEW q \in Procs,
                      NEW n \in DOMAIN result'[q], fs'[path] = Id(q, n)
               PROVE  path[2] = result'[q][n]
    BY DEF NamesTrue, Id
  <2>1. n \in Nat \ {0} /\ n < log[q]
    BY <1>1, <1>2, <1>3 DEF IdsBehind
  <2>2. result'[q] = result[q]
    BY <1>3, <2>1
  <2> QED BY <1>1, <1>2, <2>2 DEF NamesTrue
<1>8. AllKept'
  <2> SUFFICES ASSUME NEW q \in Procs, cli[q].out \in {"cwd", "dir"}, NEW n \in 1 .. log'[q] - 1
               PROVE  Kept(q, n)'
    BY <1>2 DEF AllKept
  <2>1. CASE n \in 1 .. log[q] - 1
    <3>1. log[q] > 1 /\ result'[q] = result[q]
      BY <1>3, <2>1
    <3>2. Kept(q, n)
      BY <1>1, <2>1 DEF AllKept
    <3>3. CASE Id(q, n) \in failed
      BY <1>2, <3>3 DEF Kept, Id
    <3>4. ASSUME NEW path \in In(cli[q].out, result[q][n]),
                 pc[q] = "write" => path # Path(q), Taken(q, n, path)
          PROVE  Kept(q, n)'
      <4>1. path \in In(cli[q].out, result[q][n])' /\ path \in DOMAIN fs
        BY <1>2, <3>1, <3>4 DEF In
      <4>2. Taken(q, n, path)'
        <5>1. \A r \in Procs : \A m \in 1 .. log[r] - 1 : m \in 1 .. log'[r] - 1
          BY <1>3
        <5> QED BY <1>2, <3>4, <5>1 DEF Taken, Id, Partial
      <4>3. pc'[q] = "write" => path # Path(q)'
        <5>1. CASE q = p
          BY <1>5, <4>1, <5>1 DEF Exists
        <5>2. CASE q # p
          BY <3>4, <5>2, PathStays
        <5> QED BY <5>1, <5>2
      <4> QED BY <1>2, <3>1, <4>1, <4>2, <4>3 DEF Kept, In
    <3> QED BY <3>2, <3>3, <3>4 DEF Kept
  <2>2. CASE n \notin 1 .. log[q] - 1
    <3>1. n = log[q] /\ log'[q] # log[q] /\ q = p
      BY <1>3, <2>2 DEF Moved
    <3>2. Id(q, n) \in failed'
      BY <3>1 DEF Unwritten
    <3> QED BY <3>2 DEF Kept, Id
  <2> QED BY <2>1, <2>2
<1> QED BY <1>2, <1>4, <1>6, <1>7, <1>8 DEF FileInv
(* A crash log, or what is left of it, put into a file w that is no place  *)
(* where a crash log of p lies.                                            *)
LEMMA PutKeeps ==
    ASSUME FileInv, NEW p \in Procs, Moved(p), NEW w, NEW c, Put(w, c), pc'[p] # "write",
           \/ c = Partial
           \/ c = Id(p, log[p]) /\ log'[p] = log[p] + 1,
           Len(w) = 3 => w[2] = result[p][log[p]] /\ pc[p] = "write",
           cli[p].out \in {"cwd", "dir"} =>
             /\ pc[p] = "write" /\ log'[p] = log[p] + 1
             /\ w = Path(p) /\ (c = Partial => Id(p, log[p]) \in failed')
    PROVE  FileInv'
<1>1. FileTypes /\ IdsBehind /\ WriteSafe /\ NamesTrue /\ AllKept
  BY DEF FileInv
<1>2. FileTypes' /\ cli' = cli /\ failed \subseteq failed'
  BY DEF Moved
<1>3. /\ \A q \in Procs : log[q] \in Nat \ {0} /\ log'[q] \in Nat \ {0} /\ log[q] <= log'[q]
      /\ \A q \in Procs : DOMAIN result[q] \subseteq Nat \ {0}
      /\ \A q \in Procs : DOMAIN result'[q] \subseteq Nat \ {0}
      /\ \A q \in Procs : log[q] > 1 => result'[q] = result[q]
  BY <1>1, MoveTypes
<1>4. /\ DOMAIN fs' = DOMAIN fs \cup {w} /\ fs'[w] = c
      /\ \A x \in DOMAIN fs : x # w => fs'[x] = fs[x]
  BY PutFacts
<1>5. \A q \in Procs : \A n \in Nat \ {0} :
        c = Id(q, n) => q = p /\ n = log[p] /\ log'[p] = log[p] + 1
  BY <1>3, IdFacts
<1>6. IdsBehind'
  <2> SUFFICES ASSUME NEW path \in DOMAIN fs', NEW q \in Procs, NEW n \in Nat \ {0},
                      fs'[path] = Id(q, n)
               PROVE  n < log'[q]
    BY DEF IdsBehind, Id
  <2>1. CASE path = w
    <3>1. q = p /\ n = log[p] /\ log'[p] = log[p] + 1
      BY <1>4, <1>5, <2>1
    <3>2. log[p] \in Nat
      BY <1>3
    <3> QED BY <3>1, <3>2
  <2>2. CASE path # w
    <3>1. n < log[q]
      BY <1>1, <1>4, <2>2 DEF IdsBehind
    <3> QED BY <1>3, <3>1
  <2> QED BY <2>1, <2>2
<1>7. WriteSafe'
  <2> SUFFICES ASSUME NEW q \in Procs, pc'[q] = "write", Exists(q)'
               PROVE  fs'[Path(q)'] # Old /\ \A n \in Nat \ {0} : fs'[Path(q)'] # Id(q, n)
    BY DEF WriteSafe, Id, Old
  <2>1. q # p
    OBVIOUS
  <2>2. Path(q)' = Path(q) /\ pc[q] = "write" /\ Path(q) \in DOMAIN fs'
    BY <2>1, PathStays DEF Exists
  <2>3. CASE Path(q) = w
    <3>1. c # Old /\ \A n \in Nat \ {0} : c # Id(q, n)
      <4>1. c # Old
        BY <1>3, IdFacts
      <4> QED BY <1>5, <2>1, <4>1
    <3> QED BY <1>4, <2>2, <2>3, <3>1
  <2>4. CASE Path(q) # w
    <3>1. Exists(q) /\ fs'[Path(q)] = fs[Path(q)]
      BY <1>4, <2>2, <2>4 DEF Exists
    <3> QED BY <1>1, <2>2, <3>1 DEF WriteSafe
  <2> QED BY <2>3, <2>4
<1>8. NamesTrue'
  <2> SUFFICES ASSUME NEW path \in DOMAIN fs', Len(path) = 3, NEW q \in Procs,
                      NEW n \in DOMAIN result'[q], fs'[path] = Id(q, n)
               PROVE  path[2] = result'[q][n]
    BY DEF NamesTrue, Id
  <2>1. n \in Nat \ {0}
    BY <1>3
  <2>2. CASE path = w
    <3>1. q = p /\ n = log[p]
      BY <1>4, <1>5, <2>1, <2>2
    <3>2. w[2] = result[p][log[p]] /\ pc[p] = "write"
      BY <2>2
    <3>3. result'[p] = result[p]
      BY <3>2 DEF Moved
    <3> QED BY <2>2, <3>1, <3>2, <3>3
  <2>3. CASE path # w
    <3>1. path \in DOMAIN fs /\ fs[path] = Id(q, n)
      BY <1>4, <2>3
    <3>2. n < log[q]
      BY <1>1, <2>1, <3>1 DEF IdsBehind
    <3>3. result'[q] = result[q]
      BY <1>3, <2>1, <3>2
    <3> QED BY <1>1, <3>1, <3>3 DEF NamesTrue
  <2> QED BY <2>2, <2>3
<1>9. AllKept'
  <2> SUFFICES ASSUME NEW q \in Procs, cli[q].out \in {"cwd", "dir"}, NEW n \in 1 .. log'[q] - 1
               PROVE  Kept(q, n)'
    BY <1>2 DEF AllKept
  <2>1. CASE n \in 1 .. log[q] - 1
    <3>1. log[q] > 1 /\ result'[q] = result[q]
      BY <1>3, <2>1
    <3>2. Kept(q, n)
      BY <1>1, <2>1 DEF AllKept
    <3>3. CASE Id(q, n) \in failed
      BY <1>2, <3>3 DEF Kept, Id
    <3>4. ASSUME NEW path \in In(cli[q].out, result[q][n]),
                 pc[q] = "write" => path # Path(q), Taken(q, n, path)
          PROVE  Kept(q, n)'
      <4>1. path \in In(cli[q].out, result[q][n])' /\ path \in DOMAIN fs
        BY <1>2, <1>4, <3>1, <3>4 DEF In
      <4>2. Taken(q, n, path)'
        <5>1. \A r \in Procs : \A m \in 1 .. log[r] - 1 : m \in 1 .. log'[r] - 1
          BY <1>3
        <5>2. CASE path # w
          <6>1. fs'[path] = fs[path]
            BY <1>4, <4>1, <5>2
          <6> QED BY <3>4, <5>1, <6>1 DEF Taken, Id, Partial
        <5>3. CASE path = w
          <6>1. q # p
            BY <3>4, <5>3
          <6>2. CASE c = Partial
            BY <1>4, <5>3, <6>2 DEF Taken, Partial
          <6>3. CASE c = Id(p, log[p]) /\ log'[p] = log[p] + 1
            <7>1. log[p] \in 1 .. log'[p] - 1
              BY <1>3, <6>3
            <7> QED BY <1>4, <5>3, <6>1, <6>3, <7>1 DEF Taken, Id
          <6> QED BY <6>2, <6>3
        <5> QED BY <5>2, <5>3
      <4>3. pc'[q] = "write" => path # Path(q)'
        BY <3>4, PathStays
      <4> QED BY <1>2, <3>1, <4>1, <4>2, <4>3 DEF Kept, In
    <3> QED BY <3>2, <3>3, <3>4 DEF Kept
  <2>2. CASE n \notin 1 .. log[q] - 1
    <3>1. n = log[q] /\ log'[q] # log[q] /\ q = p
      BY <1>3, <2>2 DEF Moved
    <3>2. pc[p] = "write" /\ w = Path(p) /\ (c = Partial => Id(p, log[p]) \in failed')
      BY <3>1
    <3>3. CASE c = Partial
      BY <3>1, <3>2, <3>3 DEF Kept, Id
    <3>4. CASE c = Id(p, log[p])
      <4>1. result'[q] = result[q]
        BY <3>1, <3>2 DEF Moved
      <4>2. w = <<cli[q].out, result[q][n], idx[q]>>
        BY <3>1, <3>2 DEF Path
      <4>3. w \in In(cli[q].out, result[q][n])'
        BY <1>2, <1>4, <4>1, <4>2 DEF In
      <4>4. Taken(q, n, w)'
        BY <1>4, <3>1, <3>4 DEF Taken, Id
      <4> QED BY <1>2, <3>1, <4>1, <4>3, <4>4 DEF Kept, In
    <3> QED BY <3>3, <3>4
  <2> QED BY <2>1, <2>2
<1> QED BY <1>2, <1>6, <1>7, <1>8, <1>9 DEF FileInv

LEMMA WrittenKeeps ==
    ASSUME FileInv, NEW p \in Procs, Moved(p), Written(p)
    PROVE  FileInv'
<1>1. pc[p] = "write" /\ pc'[p] # "write" /\ log'[p] = log[p] + 1
  BY DEF Written
<1>2. Len(Path(p)) = 3 => Path(p)[2] = result[p][log[p]]
  BY DEF Path
<1>3. CASE Put(Path(p), Id(p, log[p]))
  <2>1. Id(p, log[p]) # Partial
    BY IdFacts DEF FileInv, FileTypes
  <2> QED BY <1>1, <1>2, <1>3, <2>1, PutKeeps
<1>4. CASE Put(Path(p), Partial) /\ Id(p, log[p]) \in failed'
  BY <1>1, <1>2, <1>4, PutKeeps
<1> QED BY <1>3, <1>4 DEF Written

LEMMA BesideKeeps ==
    ASSUME FileInv, NEW p \in Procs, Moved(p), Beside(p)
    PROVE  FileInv'
<1>1. PICK n \in Nat : \/ Put(<<"beside", n>>, Id(p, log[p])) /\ log'[p] = log[p] + 1
                       \/ Put(<<"beside", n>>, Partial)
  BY DEF Beside
<1>2. pc'[p] # "write" /\ ~(cli[p].out \in {"cwd", "dir"})
  BY DEF Beside
<1>3. Len(<<"beside", n>>) # 3
  OBVIOUS
<1>4. CASE Put(<<"beside", n>>, Id(p, log[p])) /\ log'[p] = log[p] + 1
  BY <1>2, <1>3, <1>4, PutKeeps
<1>5. CASE Put(<<"beside", n>>, Partial)
  BY <1>2, <1>3, <1>5, PutKeeps
<1> QED BY <1>1, <1>4, <1>5
LEMMA FilesStart == WindowsInit => FileInv
<1> SUFFICES ASSUME WindowsInit PROVE FileInv
  OBVIOUS
<1>1. PICK s \in OldFiles : fs = [path \in s |-> Old]
  BY DEF WindowsInit, Init
<1>2. FileTypes
  <2>1. result \in [Procs -> Seq(Name)]
    <3>1. << >> \in Seq(Name)
      OBVIOUS
    <3> QED BY <3>1 DEF WindowsInit, Init
  <2> QED BY <2>1 DEF WindowsInit, Init, FileTypes
<1>3. \A path \in DOMAIN fs : fs[path] = Old
  BY <1>1
<1>4. IdsBehind
  BY <1>3, IdFacts DEF IdsBehind
<1>5. NamesTrue
  BY DEF WindowsInit, Init, NamesTrue
<1>6. WriteSafe /\ AllKept
  BY DEF WindowsInit, Init, WriteSafe, AllKept
<1> QED BY <1>2, <1>4, <1>5, <1>6 DEF FileInv

LEMMA FilesStill == FileInv /\ UNCHANGED vars => FileInv'
<1> SUFFICES ASSUME FileInv, UNCHANGED vars PROVE FileInv'
  OBVIOUS
<1>1. UNCHANGED <<fs, cli, pc, src, result, log, idx, failed>>
  BY DEF vars
<1>2. FileTypes' /\ IdsBehind' /\ NamesTrue'
  BY <1>1 DEF FileInv, FileTypes, IdsBehind, NamesTrue, Id
<1>3. \A p : Path(p)' = Path(p)
  BY <1>1 DEF Path
<1>4. WriteSafe'
  BY <1>1, <1>3 DEF FileInv, WriteSafe, Exists, Id, Old
<1>5. \A p, n : Kept(p, n) => Kept(p, n)'
  BY <1>1, <1>3 DEF Kept, Taken, In, Id, Partial
<1>6. AllKept'
  BY <1>1, <1>5 DEF FileInv, AllKept
<1> QED BY <1>2, <1>4, <1>6 DEF FileInv

(* Every step is one of these.                                             *)
LEMMA Steps ==
    ASSUME FileTypes, LogTypes, [WindowsNext]_<<vars, reading>>
    PROVE  \/ UNCHANGED vars
           \/ \E p \in Procs : Moved(p) /\ (Unwritten(p) \/ Written(p) \/ Beside(p))
<1>1. CASE LogMore \/ UNCHANGED <<vars, reading>>
  BY <1>1 DEF LogMore
<1>2. CASE \E p \in Procs : WindowsStep(p)
  <2>1. PICK p \in Procs : WindowsStep(p)
    BY <1>2
  <2>2. CASE Gather(p)
    BY <2>2, GatherMoves
  <2>3. CASE Gathered(p) \/ Store(p)
    BY <2>3, StoreMoves
  <2>4. CASE p = Reader /\ ReaderStep
    <3>1. CASE ReadLog
      BY <3>1 DEF ReadLog
    <3>2. CASE Answer \/ Stopped \/ UnpackOne \/ UnpackFails \/ UnpackEnds
      BY <2>4, <3>2, ReaderMoves
    <3> QED BY <2>4, <3>1, <3>2 DEF ReaderStep
  <2> QED BY <2>1, <2>2, <2>3, <2>4 DEF WindowsStep
<1> QED BY <1>1, <1>2 DEF WindowsNext

LEMMA FilesHold == WindowsSpec => []FileInv
<1>1. WindowsInit => FileInv
  BY FilesStart
<1>2. LogInv /\ FileInv /\ [WindowsNext]_<<vars, reading>> => FileInv'
  <2> SUFFICES ASSUME LogInv, FileInv, [WindowsNext]_<<vars, reading>> PROVE FileInv'
    OBVIOUS
  <2>1. \/ UNCHANGED vars
        \/ \E p \in Procs : Moved(p) /\ (Unwritten(p) \/ Written(p) \/ Beside(p))
    BY Steps DEF LogInv, FileInv
  <2> QED BY <2>1, FilesStill, UnwrittenKeeps, WrittenKeeps, BesideKeeps
<1> QED BY <1>1, <1>2, LogHolds, PTL DEF WindowsSpec

(* What a file is called is what it holds: extract names it after the      *)
(* crash log it then writes, whatever other processes do meanwhile.        *)
THEOREM NamesAreTrue == WindowsSpec => []NamesTrue
<1>1. FileInv => NamesTrue
  BY DEF FileInv
<1> QED BY <1>1, FilesHold, PTL

(* Every crash log handled is in a file of its name, or its write failed,  *)
(* or another process came between the look for a free name and the write. *)
THEOREM NoneIsLost == WindowsSpec => []NothingLost
<1>1. FileInv => NothingLost
  <2> SUFFICES ASSUME FileInv, NEW p \in Procs, cli[p].out \in {"cwd", "dir"},
                      NEW n \in 1 .. log[p] - 1
               PROVE  \/ \E path \in In(cli[p].out, result[p][n]) : fs[path] = Id(p, n)
                      \/ Id(p, n) \in failed
                      \/ \E path \in In(cli[p].out, result[p][n]) :
                           \/ fs[path] = Partial
                           \/ \E q \in Procs \ {p} : \E m \in 1 .. log[q] - 1 : fs[path] = Id(q, m)
    BY DEF NothingLost
  <2>1. Kept(p, n)
    BY DEF FileInv, AllKept
  <2> QED BY <2>1 DEF Kept, Taken
<1> QED BY <1>1, FilesHold, PTL

(* No file from before and none of its own is written over by a process    *)
(* that extracts (the exists() loop of extract.rs).                        *)
THEOREM OwnFilesAreKept == WindowsSpec => OwnFilesKept
<1> DEFINE Safe == \A path \in DOMAIN fs :
                     path \in DOMAIN fs' /\ fs'[path] # fs[path] /\ path[1] # "beside" =>
                       /\ fs[path] # Old
                       /\ \A p \in Procs : \A m, n \in 1 .. Len(result[p]) :
                            ~(fs[path] = Id(p, m) /\ fs'[path] = Id(p, n))
<1>1. LogInv /\ FileInv /\ [WindowsNext]_<<vars, reading>> => [Safe]_vars
  <2> SUFFICES ASSUME LogInv, FileInv, [WindowsNext]_<<vars, reading>>, ~UNCHANGED vars,
                      NEW path \in DOMAIN fs, path \in DOMAIN fs', fs'[path] # fs[path],
                      path[1] # "beside"
               PROVE  /\ fs[path] # Old
                      /\ \A p \in Procs : \A m, n \in 1 .. Len(result[p]) :
                            ~(fs[path] = Id(p, m) /\ fs'[path] = Id(p, n))
    OBVIOUS
  <2>1. PICK p \in Procs : Moved(p) /\ (Unwritten(p) \/ Written(p) \/ Beside(p))
    BY Steps DEF LogInv, FileInv
  <2>2. ~Unwritten(p)
    BY DEF Unwritten
  <2>3. ~Beside(p)
    <3> SUFFICES ASSUME NEW k \in Nat, NEW c, Put(<<"beside", k>>, c) PROVE FALSE
      BY DEF Beside
    <3>1. path # <<"beside", k>>
      OBVIOUS
    <3> QED BY <3>1, PutFacts
  <2>4. pc[p] = "write" /\ log[p] \in Nat \ {0}
    BY <2>1, <2>2, <2>3 DEF Written, FileInv, FileTypes
  <2>5. PICK c : Put(Path(p), c) /\ c \in {Id(p, log[p]), Partial}
    BY <2>1, <2>2, <2>3 DEF Written
  <2>6. path = Path(p) /\ fs'[path] = c /\ Exists(p)
    BY <2>5, PutFacts DEF Exists
  <2>7. fs[path] # Old /\ \A n \in Nat \ {0} : fs[path] # Id(p, n)
    BY <2>4, <2>6 DEF FileInv, WriteSafe
  <2>8. ASSUME NEW q \in Procs, NEW m \in 1 .. Len(result[q]), NEW n \in 1 .. Len(result[q]),
               fs[path] = Id(q, m), fs'[path] = Id(q, n)
        PROVE  FALSE
    <3>1. m \in Nat \ {0} /\ n \in Nat \ {0}
      <4>1. Len(result[q]) \in Nat
        BY DEF FileInv, FileTypes
      <4> QED BY <4>1
    <3>2. q = p
      BY <2>4, <2>5, <2>6, <2>8, <3>1, IdFacts
    <3> QED BY <2>7, <2>8, <3>1, <3>2
  <2> QED BY <2>7, <2>8
<1> QED BY <1>1, LogHolds, FilesHold, PTL DEF WindowsSpec, OwnFilesKept
=============================================================================
