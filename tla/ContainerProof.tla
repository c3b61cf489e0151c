------------------------- MODULE ContainerProof -------------------------
(***************************************************************************)
(* Theorems about Container, for all files firmware makes: what a read of  *)
(* a file, cut or not, and any number of exports leave of a crash log.     *)
(***************************************************************************)
EXTENDS Container, FiniteSetTheorems, TLAPS

---------------------------------------------------------------------------
(* Induction on the numbers up to N, and functions defined step by step.   *)

LEMMA LeastOf ==
    ASSUME NEW T \in SUBSET Nat, T # {}
    PROVE  \E k \in T : \A m \in T : k <= m
<1> DEFINE Below == {0 .. k : k \in T}
           R == StrictSubsetOrdering(Nat)
<1>1. IsWellFoundedOn(R, FiniteSubsetsOf(Nat))
  BY FS_StrictSubsetOrderingWellFounded
<1>2. Below \subseteq FiniteSubsetsOf(Nat) /\ Below # {}
  <2>1. \A k \in T : k \in Nat
    OBVIOUS
  <2>2. \A k \in Nat : IsFiniteSet(0 .. k) /\ 0 .. k \in SUBSET Nat
    BY FS_Interval
  <2> QED BY <2>1, <2>2 DEF FiniteSubsetsOf
<1> HIDE DEF R
<1>3. PICK B \in Below : \A C \in Below : ~ (<<C, B>> \in R)
  BY <1>1, <1>2, WFMin
<1>4. PICK k \in T : B = 0 .. k
  BY <1>3
<1>5. ASSUME NEW m \in T, m < k PROVE FALSE
  <2>1. m \in Nat /\ k \in Nat
    OBVIOUS
  <2>2. 0 .. m \in Below
    OBVIOUS
  <2>3. 0 .. m \subseteq 0 .. k /\ 0 .. m # 0 .. k
    <3>1. k \in 0 .. k /\ k \notin 0 .. m
      BY <1>5, <2>1
    <3> QED BY <1>5, <2>1, <3>1
  <2>4. <<0 .. m, 0 .. k>> \in R
    BY <2>1, <2>3 DEF R, StrictSubsetOrdering
  <2> QED BY <1>3, <1>4, <2>2, <2>4
<1>6. k \in Nat /\ \A m \in T : m \in Nat /\ ~(m < k)
  BY <1>5
<1> HIDE DEF Below
<1>7. \A m \in T : k <= m
  BY <1>6
<1> QED BY <1>7

LEMMA Induction ==
    ASSUME NEW N \in Nat, NEW T, 0 \in T, \A k \in 1 .. N : k - 1 \in T => k \in T
    PROVE  \A k \in 0 .. N : k \in T
<1> DEFINE Out == {k \in 0 .. N : k \notin T}
<1> SUFFICES ASSUME Out # {} PROVE FALSE
  OBVIOUS
<1>1. Out \in SUBSET Nat
  OBVIOUS
<1>2. PICK k \in Out : \A m \in Out : k <= m
  <2> HIDE DEF Out
  <2> QED BY <1>1, LeastOf
<1>3. k \in 0 .. N /\ k \notin T /\ k # 0
  OBVIOUS
<1>4. k \in 1 .. N /\ k - 1 \in 0 .. N /\ ~(k <= k - 1)
  BY <1>3
<1>5. k - 1 \notin Out
  BY <1>2, <1>4
<1> QED BY <1>3, <1>4, <1>5

Steps(N, S, a, Step, f) ==
    /\ f \in [0 .. N -> S]
    /\ f[0] = a
    /\ \A k \in 1 .. N : f[k] = Step[k][f[k - 1]]
IsStep(N, S, Step) == Step \in [1 .. N -> [S -> S]]

LEMMA Recursion ==
    ASSUME NEW N \in Nat, NEW S, NEW a \in S, NEW Step, IsStep(N, S, Step)
    PROVE  \E f : Steps(N, S, a, Step, f)
<1> DEFINE Up(k, f) == f[0] = a /\ \A j \in 1 .. k : f[j] = Step[j][f[j - 1]]
           T == {k \in 0 .. N : \E f \in [0 .. k -> S] : Up(k, f)}
<1>1. 0 \in T
  <2> DEFINE f == [j \in 0 .. 0 |-> a]
  <2>1. f \in [0 .. 0 -> S] /\ Up(0, f) /\ 0 \in 0 .. N
    OBVIOUS
  <2> QED BY <2>1
<1>2. ASSUME NEW k \in 1 .. N, k - 1 \in T PROVE k \in T
  <2>1. PICK f \in [0 .. k - 1 -> S] : Up(k - 1, f)
    BY <1>2
  <2> DEFINE g == [j \in 0 .. k |-> IF j < k THEN f[j] ELSE Step[k][f[k - 1]]]
  <2>2. k \in Nat /\ k # 0 /\ k - 1 \in 0 .. k - 1 /\ k \in 0 .. N
    OBVIOUS
  <2>3. \A j \in 0 .. k : j < k => j \in 0 .. k - 1
    BY <2>2
  <2>4. Step[k][f[k - 1]] \in S
    BY <2>2 DEF IsStep
  <2>5. g \in [0 .. k -> S]
    BY <2>3, <2>4
  <2>6. \A j \in 0 .. k - 1 : g[j] = f[j]
    BY <2>2
  <2>7. g[k] = Step[k][f[k - 1]]
    BY <2>2
  <2> HIDE DEF g
  <2>8. 0 \in 0 .. k - 1 /\ \A j \in 1 .. k : j - 1 \in 0 .. k - 1 /\ (j \in 1 .. k - 1 \/ j = k)
    BY <2>2
  <2>9. \A j \in 1 .. k - 1 : j \in 0 .. k - 1
    BY <2>2
  <2>10. Up(k, g)
    BY <2>1, <2>6, <2>7, <2>8, <2>9
  <2> QED BY <2>2, <2>5, <2>10
<1>3. N \in T
  <2> HIDE DEF T
  <2>1. \A k \in 0 .. N : k \in T
    BY <1>1, <1>2, Induction
  <2> QED BY <2>1
<1> QED BY <1>3 DEF Steps

---------------------------------------------------------------------------
(* Sequences, one behind the other. *)

Joined(s, S, f) ==
    /\ f \in [0 .. Len(s) -> Seq(S)]
    /\ f[0] = << >>
    /\ \A k \in 1 .. Len(s) : f[k] = f[k - 1] \o s[k]

IsCat(S, a, b) ==
    /\ a \o b \in Seq(S) /\ Len(a) \in Nat /\ Len(b) \in Nat
    /\ Len(a \o b) = Len(a) + Len(b)
    /\ DOMAIN a = 1 .. Len(a) /\ DOMAIN b = 1 .. Len(b)
    /\ DOMAIN (a \o b) = 1 .. Len(a) + Len(b)
    /\ \A i \in 1 .. Len(a) : (a \o b)[i] = a[i]
    /\ \A i \in 1 .. Len(b) : (a \o b)[Len(a) + i] = b[i]
    /\ \A i \in 1 .. Len(a) + Len(b) :
         i > Len(a) => i - Len(a) \in 1 .. Len(b) /\ (a \o b)[i] = b[i - Len(a)]

LEMMA Cat ==
    ASSUME NEW S, NEW a \in Seq(S), NEW b \in Seq(S)
    PROVE  /\ a \o b \in Seq(S) /\ Len(a) \in Nat /\ Len(b) \in Nat
           /\ Len(a \o b) = Len(a) + Len(b)
           /\ DOMAIN a = 1 .. Len(a) /\ DOMAIN b = 1 .. Len(b)
           /\ DOMAIN (a \o b) = 1 .. Len(a) + Len(b)
           /\ \A i \in 1 .. Len(a) : (a \o b)[i] = a[i]
           /\ \A i \in 1 .. Len(b) : (a \o b)[Len(a) + i] = b[i]
           /\ \A i \in 1 .. Len(a) + Len(b) :
                i > Len(a) => i - Len(a) \in 1 .. Len(b) /\ (a \o b)[i] = b[i - Len(a)]
OBVIOUS

LEMMA CatIs ==
    ASSUME NEW S, NEW a \in Seq(S), NEW b \in Seq(S)
    PROVE  IsCat(S, a, b)
BY Cat DEF IsCat

Grows(s, S, f) ==
    /\ Len(s) \in Nat /\ f[0] = << >>
    /\ \A k \in 0 .. Len(s) : f[k] \in Seq(S) /\ Len(f[k]) \in Nat
    /\ \A k \in 1 .. Len(s) :
         /\ k - 1 \in 0 .. Len(s) /\ k \in 0 .. Len(s)
         /\ s[k] \in Seq(S) /\ Len(s[k]) \in Nat
         /\ f[k - 1] \in Seq(S) /\ f[k] = f[k - 1] \o s[k]
         /\ Len(f[k - 1]) \in Nat /\ Len(f[k]) = Len(f[k - 1]) + Len(s[k])
         /\ \A j \in 1 .. Len(f[k - 1]) : f[k][j] = f[k - 1][j]
         /\ \A j \in 1 .. Len(s[k]) : f[k][Len(f[k - 1]) + j] = s[k][j]

LEMMA JoinedFacts ==
    ASSUME NEW S, NEW s \in Seq(Seq(S)), NEW f, Joined(s, S, f)
    PROVE  Grows(s, S, f)
<1>1. Len(s) \in Nat /\ \A k \in 1 .. Len(s) : s[k] \in Seq(S)
  OBVIOUS
<1>2. \A k \in 1 .. Len(s) : k - 1 \in 0 .. Len(s) /\ k \in 0 .. Len(s)
  BY <1>1
<1>3. f[0] = << >> /\ \A k \in 0 .. Len(s) : f[k] \in Seq(S)
  BY DEF Joined
<1>4. \A k \in 1 .. Len(s) : f[k] = f[k - 1] \o s[k]
  BY DEF Joined
<1>5. \A x \in Seq(S) : Len(x) \in Nat
  OBVIOUS
<1>6. ASSUME NEW k \in 1 .. Len(s)
      PROVE  /\ f[k - 1] \in Seq(S) /\ Len(f[k - 1]) \in Nat
             /\ Len(f[k]) = Len(f[k - 1]) + Len(s[k])
             /\ \A j \in 1 .. Len(f[k - 1]) : f[k][j] = f[k - 1][j]
             /\ \A j \in 1 .. Len(s[k]) : f[k][Len(f[k - 1]) + j] = s[k][j]
  <2> DEFINE a == f[k - 1]
             b == s[k]
  <2>1. a \in Seq(S) /\ b \in Seq(S) /\ f[k] = a \o b
    BY <1>1, <1>2, <1>3, <1>4
  <2> HIDE DEF a, b
  <2>2. /\ a \in Seq(S) /\ Len(a) \in Nat /\ Len(a \o b) = Len(a) + Len(b)
        /\ \A j \in 1 .. Len(a) : (a \o b)[j] = a[j]
        /\ \A j \in 1 .. Len(b) : (a \o b)[Len(a) + j] = b[j]
    BY <2>1, Cat
  <2>3. /\ a \in Seq(S) /\ Len(a) \in Nat /\ Len(f[k]) = Len(a) + Len(b)
        /\ \A j \in 1 .. Len(a) : f[k][j] = a[j]
        /\ \A j \in 1 .. Len(b) : f[k][Len(a) + j] = b[j]
    BY <2>1, <2>2
  <2> QED BY <2>3 DEF a, b
<1> QED BY <1>1, <1>2, <1>3, <1>4, <1>5, <1>6 DEF Grows

LEMMA Pieces ==
    ASSUME NEW S, NEW s \in Seq(Seq(S))
    PROVE  \E f : Joined(s, S, f) /\ FlattenSeq(s) = f[Len(s)]
<1> DEFINE N == Len(s)
           Step == [k \in 1 .. N |-> [x \in Seq(S) |-> x \o s[k]]]
           flat[k \in 1 .. Len(s)] == IF k = 1 THEN s[k] ELSE flat[k - 1] \o s[k]
           Up(f) == f = [k \in 1 .. Len(s) |-> IF k = 1 THEN s[k] ELSE f[k - 1] \o s[k]]
<1>1. N \in Nat /\ << >> \in Seq(S) /\ \A k \in 1 .. N : s[k] \in Seq(S)
  OBVIOUS
<1>2. IsStep(N, Seq(S), Step)
  BY <1>1 DEF IsStep
<1>3. PICK f : Steps(N, Seq(S), << >>, Step, f)
  <2> HIDE DEF Step
  <2> QED BY <1>1, <1>2, Recursion
<1>4. \A k \in 0 .. N : k = 0 \/ (k \in 1 .. N /\ k - 1 \in 0 .. N)
  BY <1>1
<1>5. ASSUME NEW k \in 1 .. N PROVE f[k] = f[k - 1] \o s[k]
  <2>1. f[k - 1] \in Seq(S) /\ f[k] = Step[k][f[k - 1]]
    <3>1. k - 1 \in 0 .. N
      BY <1>1
    <3> HIDE DEF Step
    <3> QED BY <1>3, <3>1 DEF Steps
  <2> QED BY <2>1
<1>6. f \in [0 .. N -> Seq(S)] /\ f[0] = << >>
  <2> HIDE DEF Step
  <2> QED BY <1>3 DEF Steps
<1>7. Joined(s, S, f)
  BY <1>5, <1>6 DEF Joined
<1>8. CASE N = 0
  <2>1. s = << >>
    BY <1>8
  <2>2. FlattenSeq(s) = f[Len(s)]
    BY <1>6, <1>8, <2>1 DEF FlattenSeq
  <2> QED BY <1>7, <2>2
<1>9. CASE N # 0
  <2>1. FlattenSeq(s) = flat[Len(s)]
    BY <1>9 DEF FlattenSeq
  <2>2. Up([k \in 1 .. N |-> f[k]])
    <3> DEFINE g == [k \in 1 .. N |-> f[k]]
    <3>1. \A k \in 1 .. N : k # 1 => k - 1 \in 1 .. N
      BY <1>1
    <3>2. \A k \in 1 .. N : g[k] = IF k = 1 THEN s[k] ELSE g[k - 1] \o s[k]
      <4> SUFFICES ASSUME NEW k \in 1 .. N PROVE g[k] = IF k = 1 THEN s[k] ELSE g[k - 1] \o s[k]
        OBVIOUS
      <4>1. CASE k = 1
        <5>1. f[1] = f[0] \o s[1] /\ s[1] \in Seq(S)
          <6>1. 1 \in 1 .. N /\ 1 - 1 = 0
            BY <4>1
          <6>2. f[1] = f[1 - 1] \o s[1]
            BY <1>5, <6>1
          <6> QED BY <1>1, <6>1, <6>2
        <5>2. << >> \o s[1] = s[1]
          BY <5>1
        <5> QED BY <1>6, <4>1, <5>1, <5>2
      <4>2. CASE k # 1
        BY <1>5, <3>1, <4>2
      <4> QED BY <4>1, <4>2
    <3> QED BY <3>2
  <2> DEFINE r == CHOOSE g : Up(g)
  <2>3. flat = r
    OBVIOUS
  <2>4. Up(r)
    <3> HIDE DEF Up
    <3> QED BY <2>2
  <2> HIDE DEF flat, r
  <2>5. \A k \in 1 .. N : r[k] = IF k = 1 THEN s[k] ELSE r[k - 1] \o s[k]
    BY <2>4
  <2> DEFINE T == {k \in 0 .. N : k = 0 \/ r[k] = f[k]}
  <2>6. ASSUME NEW k \in 1 .. N, k - 1 \in T PROVE k \in T
    <3>1. CASE k = 1
      <4>1. f[1] = f[0] \o s[1] /\ s[1] \in Seq(S) /\ r[1] = s[1]
        <5>1. 1 \in 1 .. N /\ 1 - 1 = 0
          BY <3>1
        <5>2. f[1] = f[1 - 1] \o s[1]
          BY <1>5, <5>1
        <5> QED BY <1>1, <2>5, <5>1, <5>2
      <4>2. << >> \o s[1] = s[1]
        BY <4>1
      <4> QED BY <1>6, <3>1, <4>1, <4>2
    <3>2. CASE k # 1
      <4>1. r[k - 1] = f[k - 1]
        BY <2>6, <3>2
      <4>2. r[k] = r[k - 1] \o s[k]
        BY <2>5, <3>2
      <4>3. k \in 0 .. N
        BY <1>1
      <4> QED BY <1>5, <4>1, <4>2, <4>3
    <3> QED BY <3>1, <3>2
  <2>7. 0 \in T
    BY <1>1
  <2>8. \A k \in 0 .. N : k \in T
    <3> HIDE DEF T
    <3> QED BY <1>1, <2>6, <2>7, Induction
  <2>9. r[N] = f[N]
    BY <1>1, <1>9, <2>8
  <2> QED BY <1>7, <2>1, <2>3, <2>9
<1> QED BY <1>8, <1>9

(* What is behind one another does not depend on what follows.             *)
Agree(s, t, n) == n <= Len(s) /\ n <= Len(t) /\ \A k \in 1 .. n : s[k] = t[k]

LEMMA JoinedAgree ==
    ASSUME NEW S, NEW s \in Seq(Seq(S)), NEW t \in Seq(Seq(S)), NEW f, NEW g,
           Joined(s, S, f), Joined(t, S, g), NEW n \in Nat, Agree(s, t, n)
    PROVE  f[n] = g[n]
<1> DEFINE T == {k \in 0 .. n : f[k] = g[k]}
<1>1. 0 \in T
  BY DEF Joined
<1>2. ASSUME NEW k \in 1 .. n, k - 1 \in T PROVE k \in T
  <2>1. k \in 1 .. Len(s) /\ k \in 1 .. Len(t) /\ k \in 0 .. n /\ s[k] = t[k]
    BY DEF Agree
  <2>2. f[k] = f[k - 1] \o s[k] /\ g[k] = g[k - 1] \o t[k]
    BY <2>1 DEF Joined
  <2> QED BY <1>2, <2>1, <2>2
<1> HIDE DEF T
<1>3. \A k \in 0 .. n : k \in T
  BY <1>1, <1>2, Induction
<1> QED BY <1>3 DEF T

LEMMA FlattenType ==
    ASSUME NEW S, NEW s \in Seq(Seq(S))
    PROVE  FlattenSeq(s) \in Seq(S)
<1>1. PICK f : Joined(s, S, f) /\ FlattenSeq(s) = f[Len(s)]
  BY Pieces
<1>2. Len(s) \in 0 .. Len(s)
  OBVIOUS
<1> QED BY <1>1, <1>2 DEF Joined

LEMMA FlattenAppend ==
    ASSUME NEW S, NEW s \in Seq(Seq(S)), NEW x \in Seq(S)
    PROVE  FlattenSeq(Append(s, x)) = FlattenSeq(s) \o x
<1> DEFINE t == Append(s, x)
<1>1. /\ t \in Seq(Seq(S)) /\ Len(t) = Len(s) + 1 /\ Len(s) \in Nat
      /\ t[Len(s) + 1] = x /\ \A k \in 1 .. Len(s) : s[k] = t[k]
  OBVIOUS
<1> HIDE DEF t
<1>2. PICK f : Joined(s, S, f) /\ FlattenSeq(s) = f[Len(s)]
  BY Pieces
<1>3. PICK g : Joined(t, S, g) /\ FlattenSeq(t) = g[Len(t)]
  BY <1>1, Pieces
<1>4. f[Len(s)] = g[Len(s)]
  <2>1. Agree(s, t, Len(s))
    BY <1>1 DEF Agree
  <2> QED BY <1>1, <1>2, <1>3, <2>1, JoinedAgree
<1>5. g[Len(t)] = g[Len(t) - 1] \o t[Len(t)]
  <2>1. Len(t) \in 1 .. Len(t)
    BY <1>1
  <2>2. Grows(t, S, g)
    BY <1>1, <1>3, JoinedFacts
  <2> HIDE DEF t
  <2> QED BY <2>1, <2>2 DEF Grows
<1>6. Len(t) - 1 = Len(s) /\ t[Len(t)] = x
  BY <1>1
<1> QED BY <1>2, <1>3, <1>4, <1>5, <1>6 DEF t

(* Each piece is where the earlier ones end. *)
LEMMA FlattenPlaces ==
    ASSUME NEW S, NEW s \in Seq(Seq(S))
    PROVE  \E p \in [0 .. Len(s) -> Nat] :
              /\ p[0] = 0 /\ p[Len(s)] = Len(FlattenSeq(s))
              /\ \A i \in 1 .. Len(s) :
                    /\ p[i] = p[i - 1] + Len(s[i])
                    /\ p[i] <= Len(FlattenSeq(s))
                    /\ \A k \in 1 .. Len(s[i]) : FlattenSeq(s)[p[i - 1] + k] = s[i][k]
<1> DEFINE N == Len(s)
<1>1. PICK f : Joined(s, S, f) /\ FlattenSeq(s) = f[N]
  BY Pieces
<1>2. /\ N \in Nat /\ \A k \in 0 .. N : f[k] \in Seq(S) /\ Len(f[k]) \in Nat
      /\ f[0] = << >>
  <2>1. Grows(s, S, f)
    BY <1>1, JoinedFacts
  <2> QED BY <2>1 DEF Grows
<1>3. \A i \in 1 .. N :
        /\ i - 1 \in 0 .. N /\ i \in 0 .. N /\ Len(s[i]) \in Nat
        /\ Len(f[i - 1]) \in Nat /\ Len(f[i]) = Len(f[i - 1]) + Len(s[i])
        /\ \A j \in 1 .. Len(f[i - 1]) : f[i][j] = f[i - 1][j]
        /\ \A j \in 1 .. Len(s[i]) : f[i][Len(f[i - 1]) + j] = s[i][j]
  <2>1. Grows(s, S, f)
    BY <1>1, JoinedFacts
  <2> QED BY <2>1 DEF Grows
<1>4. ASSUME NEW i \in 0 .. N
      PROVE  Len(f[i]) <= Len(f[N]) /\ \A k \in 1 .. Len(f[i]) : f[N][k] = f[i][k]
  <2> DEFINE Above(j) == Len(f[i]) <= Len(f[j]) /\ \A k \in 1 .. Len(f[i]) : f[j][k] = f[i][k]
             T == {j \in 0 .. N : j >= i => Above(j)}
  <2>1. 0 \in T
    BY <1>2
  <2>2. ASSUME NEW j \in 1 .. N, j - 1 \in T PROVE j \in T
    <3> SUFFICES ASSUME j >= i PROVE Above(j)
      BY <1>3
    <3>1. CASE j = i
      BY <1>2, <3>1
    <3>2. CASE j # i
      <4>1. Above(j - 1)
        BY <2>2, <3>2
      <4>2. /\ Len(f[j]) = Len(f[j - 1]) + Len(s[j]) /\ Len(s[j]) \in Nat
            /\ Len(f[j - 1]) \in Nat /\ Len(f[i]) \in Nat
        BY <1>2, <1>3
      <4>3. \A k \in 1 .. Len(f[i]) : k \in 1 .. Len(f[j - 1])
        BY <4>1, <4>2
      <4>4. \A k \in 1 .. Len(f[j - 1]) : f[j][k] = f[j - 1][k]
        BY <1>3
      <4>5. \A k \in 1 .. Len(f[i]) : f[j - 1][k] = f[i][k]
        BY <4>1
      <4>6. \A k \in 1 .. Len(f[i]) : f[j][k] = f[i][k]
        BY <4>3, <4>4, <4>5, Zenon
      <4>7. Len(f[i]) <= Len(f[j])
        <5>1. \A a, b, c, d \in Nat : a <= b /\ c = b + d => a <= c
          OBVIOUS
        <5>2. Len(f[j]) \in Nat
          BY <1>2
        <5> QED BY <4>1, <4>2, <5>1, <5>2
      <4> QED BY <4>6, <4>7
    <3> QED BY <3>1, <3>2
  <2>3. \A j \in 0 .. N : j \in T
    <3> HIDE DEF T
    <3> QED BY <1>2, <2>1, <2>2, Induction
  <2>4. N \in T /\ N >= i
    BY <1>2, <2>3
  <2> QED BY <2>4
<1> DEFINE p == [i \in 0 .. N |-> Len(f[i])]
<1>5. p \in [0 .. N -> Nat] /\ p[0] = 0 /\ p[N] = Len(FlattenSeq(s))
  BY <1>1, <1>2
<1>6. ASSUME NEW i \in 1 .. N
      PROVE  /\ p[i] = p[i - 1] + Len(s[i])
             /\ p[i] <= Len(FlattenSeq(s))
             /\ \A k \in 1 .. Len(s[i]) : FlattenSeq(s)[p[i - 1] + k] = s[i][k]
  <2>1. p[i] = Len(f[i]) /\ p[i - 1] = Len(f[i - 1])
    BY <1>3
  <2>2. \A k \in 1 .. Len(s[i]) : f[i][Len(f[i - 1]) + k] = s[i][k]
    BY <1>3
  <2>3. ASSUME NEW k \in 1 .. Len(s[i]) PROVE Len(f[i - 1]) + k \in 1 .. Len(f[i])
    <3>1. /\ Len(f[i - 1]) \in Nat /\ Len(f[i]) = Len(f[i - 1]) + Len(s[i]) /\ Len(s[i]) \in Nat
      BY <1>3
    <3>2. \A m, n \in Nat : k \in 1 .. n => m + k \in 1 .. m + n
      OBVIOUS
    <3>3. Len(f[i - 1]) + k \in 1 .. Len(f[i - 1]) + Len(s[i])
      BY <3>1, <3>2
    <3> QED BY <3>1, <3>3
  <2>4. Len(f[i]) <= Len(f[N]) /\ \A k \in 1 .. Len(f[i]) : f[N][k] = f[i][k]
    BY <1>3, <1>4
  <2> QED BY <1>1, <1>3, <2>1, <2>2, <2>3, <2>4
<1> HIDE DEF p
<1> QED BY <1>5, <1>6

LEMMA CatMembers ==
    ASSUME NEW S, NEW a \in Seq(S), NEW b \in Seq(S)
    PROVE  ToSet(a \o b) = ToSet(a) \cup ToSet(b)
<1>1. ASSUME NEW x \in ToSet(a \o b) PROVE x \in ToSet(a) \cup ToSet(b)
  <2>1. PICK i \in 1 .. Len(a) + Len(b) : x = (a \o b)[i]
    BY Cat DEF ToSet
  <2>2. CASE i <= Len(a)
    <3>1. i \in 1 .. Len(a) /\ x = a[i]
      BY <2>1, <2>2, Cat
    <3> QED BY <3>1, Cat DEF ToSet
  <2>3. CASE i > Len(a)
    <3>1. x = b[i - Len(a)] /\ i - Len(a) \in 1 .. Len(b)
      BY <2>1, <2>3, Cat
    <3> QED BY <3>1, Cat DEF ToSet
  <2>4. Len(a) \in Nat
    BY Cat
  <2> QED BY <2>1, <2>2, <2>3, <2>4
<1>2. ASSUME NEW x \in ToSet(a) PROVE x \in ToSet(a \o b)
  <2>1. PICK i \in 1 .. Len(a) : x = a[i]
    BY Cat DEF ToSet
  <2>2. i \in DOMAIN (a \o b) /\ (a \o b)[i] = x
    BY <2>1, Cat
  <2> QED BY <2>2 DEF ToSet
<1>3. ASSUME NEW x \in ToSet(b) PROVE x \in ToSet(a \o b)
  <2>1. PICK i \in 1 .. Len(b) : x = b[i]
    BY Cat DEF ToSet
  <2>2. Len(a) + i \in DOMAIN (a \o b) /\ (a \o b)[Len(a) + i] = x
    <3>1. Len(a) \in Nat /\ Len(b) \in Nat
      BY Cat
    <3> QED BY <2>1, <3>1, Cat
  <2> QED BY <2>2 DEF ToSet
<1> QED BY <1>1, <1>2, <1>3

LEMMA FlattenMembers ==
    ASSUME NEW S, NEW s \in Seq(Seq(S))
    PROVE  ToSet(FlattenSeq(s)) = UNION {ToSet(s[i]) : i \in 1 .. Len(s)}
<1> DEFINE N == Len(s)
<1>1. PICK f : Joined(s, S, f) /\ FlattenSeq(s) = f[N]
  BY Pieces
<1>2. N \in Nat /\ (\A k \in 0 .. N : f[k] \in Seq(S)) /\ f[0] = << >>
  <2>1. Grows(s, S, f)
    BY <1>1, JoinedFacts
  <2> QED BY <2>1 DEF Grows
<1> DEFINE T == {k \in 0 .. N : ToSet(f[k]) = UNION {ToSet(s[i]) : i \in 1 .. k}}
<1>3. 0 \in T
  <2>1. 1 .. 0 = {} /\ 0 \in 0 .. N
    BY <1>2
  <2>2. ToSet(f[0]) = {}
    BY <1>2 DEF ToSet
  <2> QED BY <2>1, <2>2
<1>4. ASSUME NEW k \in 1 .. N, k - 1 \in T PROVE k \in T
  <2>1. f[k] = f[k - 1] \o s[k] /\ f[k - 1] \in Seq(S) /\ s[k] \in Seq(S) /\ k \in 0 .. N
    <3>1. Grows(s, S, f)
      BY <1>1, JoinedFacts
    <3> QED BY <3>1 DEF Grows
  <2>2. ToSet(f[k - 1] \o s[k]) = ToSet(f[k - 1]) \cup ToSet(s[k])
    BY <2>1, CatMembers
  <2>3. 1 .. k = (1 .. k - 1) \cup {k}
    BY <1>2
  <2> QED BY <1>4, <2>1, <2>2, <2>3
<1>5. \A k \in 0 .. N : k \in T
  <2> HIDE DEF T
  <2> QED BY <1>2, <1>3, <1>4, Induction
<1>6. N \in T
  <2>1. N \in 0 .. N
    BY <1>2
  <2> HIDE DEF T
  <2> QED BY <1>5, <2>1
<1> QED BY <1>1, <1>6

(* The pieces of one element, some empty ones before and behind them.      *)
Amid(s, x, n) ==
    /\ n + Len(x) <= Len(s)
    /\ \A i \in 1 .. Len(s) :
          s[i] = IF i > n /\ i <= n + Len(x) THEN <<x[i - n]>> ELSE << >>

LEMMA FlattenAmid ==
    ASSUME NEW S, NEW s \in Seq(Seq(S)), NEW x \in Seq(S), NEW n \in Nat, Amid(s, x, n)
    PROVE  FlattenSeq(s) = x
<1> DEFINE m(k) == IF k <= n THEN 0 ELSE IF k <= n + Len(x) THEN k - n ELSE Len(x)
           first(k) == [j \in 1 .. m(k) |-> x[j]]
<1>1. PICK f : Joined(s, S, f) /\ FlattenSeq(s) = f[Len(s)]
  BY Pieces
<1>2. Grows(s, S, f)
  BY <1>1, JoinedFacts
<1>3. Len(s) \in Nat /\ Len(x) \in Nat /\ n + Len(x) <= Len(s)
  BY DEF Amid
<1> DEFINE T == {k \in 0 .. Len(s) : f[k] = first(k)}
<1>4. 0 \in T
  <2>1. m(0) = 0 /\ 0 \in 0 .. Len(s)
    BY <1>3
  <2>2. first(0) = << >>
    BY <2>1
  <2> QED BY <1>2, <2>1, <2>2 DEF Grows
<1>5. ASSUME NEW k \in 1 .. Len(s), k - 1 \in T PROVE k \in T
  <2>1. f[k] = f[k - 1] \o s[k] /\ k \in 0 .. Len(s)
    BY <1>2 DEF Grows
  <2>2. f[k - 1] = first(k - 1) /\ k \in Nat /\ k - 1 \in Nat
    BY <1>5
  <2>3. CASE k > n /\ k <= n + Len(x)
    <3>1. s[k] = <<x[k - n]>>
      BY <2>3 DEF Amid
    <3>2. m(k) = k - n /\ m(k - 1) = k - n - 1 /\ k - n \in 1 .. Len(x)
      BY <1>3, <2>2, <2>3
    <3> DEFINE a == k - n
    <3>3. a \in 1 .. Len(x) /\ a - 1 \in Nat /\ a \in Nat
      BY <3>2
    <3> HIDE DEF a, m
    <3>4. [j \in 1 .. a - 1 |-> x[j]] \o <<x[a]>> = [j \in 1 .. a |-> x[j]]
      <4> DEFINE u == [j \in 1 .. a - 1 |-> x[j]]
      <4>1. \A j \in 1 .. a - 1 : x[j] \in S
        BY <1>3, <3>3
      <4>2. u \in Seq(S) /\ Len(u) = a - 1 /\ x[a] \in S
        BY <3>3, <4>1
      <4>3. \A j \in 1 .. a - 1 : u[j] = x[j]
        OBVIOUS
      <4> HIDE DEF u
      <4>4. u \o <<x[a]>> = [j \in 1 .. a |-> x[j]]
        BY <3>3, <4>2, <4>3
      <4> QED BY <4>4 DEF u
    <3> QED BY <2>1, <2>2, <3>1, <3>2, <3>4 DEF a
  <2>4. CASE ~(k > n /\ k <= n + Len(x))
    <3>1. s[k] = << >>
      BY <2>4 DEF Amid
    <3>2. m(k) = m(k - 1)
      BY <1>3, <2>2, <2>4
    <3>3. f[k - 1] \in Seq(S)
      BY <1>2 DEF Grows
    <3>4. f[k - 1] \o << >> = f[k - 1]
      BY <3>3
    <3> HIDE DEF m
    <3> QED BY <2>1, <2>2, <3>1, <3>2, <3>4
  <2> QED BY <2>3, <2>4
<1>6. \A k \in 0 .. Len(s) : k \in T
  <2> HIDE DEF T
  <2> QED BY <1>3, <1>4, <1>5, Induction
<1>7. f[Len(s)] = first(Len(s))
  <2>1. Len(s) \in T
    <3>1. Len(s) \in 0 .. Len(s)
      BY <1>3
    <3> HIDE DEF T
    <3> QED BY <1>6, <3>1
  <2> QED BY <2>1
<1>8. m(Len(s)) = Len(x)
  BY <1>3
<1>9. [j \in 1 .. Len(x) |-> x[j]] = x
  OBVIOUS
<1> QED BY <1>1, <1>7, <1>8, <1>9

---------------------------------------------------------------------------
(* Section bodies and their bytes. *)

LEMMA Heads ==
    ASSUME NEW w \in Word
    PROVE  /\ w \in Header => w \notin Plain
           /\ IsHeader(w, "cper") => w.count \in Nat
           /\ IsHeader(w, "descriptor") => w.kind \in Kinds /\ w.at \in Nat /\ w.len \in Nat
           /\ IsHeader(w, "fer") => w.rev \in 0 .. 2
           /\ IsHeader(w, "entry") => w.kind \in Kinds /\ w.rev3 \in BOOLEAN /\ w.len \in Nat
           /\ IsHeader(w, "length") => w.len \in Nat
           /\ w \in Plain => \A tag : ~IsHeader(w, tag)
BY ContainerAssumption DEF Word, Header, IsHeader

LEMMA BodyFacts ==
    ASSUME NEW b \in Body
    PROVE  /\ b.data \in Seq(Word) /\ Len(b.data) \in Nat /\ b.kind \in Kinds
           /\ BodyLen(b) \in Nat /\ Sound(b) \in BOOLEAN
           /\ b.kind = "fer" => /\ b.rev \in 0 .. 2 /\ b.guid \in Word
                                /\ b = Fer(b.rev, b.guid, b.data)
                                /\ b.rev < 2 => b.guid = Zero
           /\ b.kind # "fer" => b = Unknown(b.data)
<1>1. CASE b \in [kind : {"fer"}, rev : {2}, guid : Word, data : Seq(Word)]
  BY <1>1 DEF Fer, Kinds, BodyLen, FerHeaderSize, Sound
<1>2. CASE b \in [kind : {"fer"}, rev : 0 .. 1, guid : {Zero}, data : Seq(Word)]
  <2>1. Zero \in Word
    BY DEF Word, Plain
  <2> QED BY <1>2, <2>1 DEF Fer, Kinds, BodyLen, FerHeaderSize, Sound
<1>3. CASE b \in [kind : {"unknown"}, data : Seq(Word)]
  BY <1>3 DEF Unknown, Kinds, BodyLen, Sound
<1> QED BY <1>1, <1>2, <1>3 DEF Body

LEMMA BodyTypes ==
    ASSUME NEW d \in Seq(Word)
    PROVE  /\ Unknown(d) \in Body
           /\ \A g \in Word : Fer(2, g, d) \in Body
           /\ \A r \in 0 .. 1 : Fer(r, Zero, d) \in Body
BY DEF Unknown, Fer, Body

(* What a read of bytes gives. *)
LEMMA ReadType ==
    ASSUME NEW kind \in Kinds, NEW s \in Seq(Word)
    PROVE  /\ BodyFrom(kind, s) \in Seq(Body) /\ Len(BodyFrom(kind, s)) <= 1
           /\ \A i \in DOMAIN BodyFrom(kind, s) :
                ~Sound(BodyFrom(kind, s)[i]) => BodyFrom(kind, s)[i].guid = Zero
<1>1. CASE kind # "fer"
  <2>1. BodyFrom(kind, s) = <<Unknown(s)>> /\ Unknown(s) \in Body
    BY <1>1, BodyTypes DEF BodyFrom
  <2>2. Sound(Unknown(s))
    BY DEF Sound, Unknown
  <2> QED BY <2>1, <2>2
<1>2. CASE kind = "fer" /\ s = << >>
  BY <1>2 DEF BodyFrom, FerFrom, Only
<1>3. CASE kind = "fer" /\ s # << >>
  <2> DEFINE r == Revision(s)
             n == FerHeaderSize(r)
             b == Fer(r, IF r >= 2 THEN s[5] ELSE Zero, SubSeq(s, n + 1, Len(s)))
  <2>1. s[1] \in Word /\ Len(s) \in Nat
    BY <1>3
  <2>2. r \in 0 .. 2
    BY <2>1, Heads DEF Revision
  <2>3. n \in Nat /\ (r >= 2 => n >= 5)
    BY <2>2 DEF FerHeaderSize
  <2>4. SubSeq(s, n + 1, Len(s)) \in Seq(Word)
    BY <2>1, <2>3
  <2>5. ASSUME Len(s) >= n PROVE b \in Body /\ (~Sound(b) => b.guid = Zero)
    <3>1. CASE r >= 2
      <4>1. r = 2 /\ s[5] \in Word
        BY <2>1, <2>2, <2>3, <2>5, <3>1
      <4>2. Fer(2, s[5], SubSeq(s, n + 1, Len(s))) \in Body
        <5> HIDE DEF n
        <5> QED BY <2>4, <4>1, BodyTypes
      <4>3. b = Fer(2, s[5], SubSeq(s, n + 1, Len(s)))
        BY <4>1
      <4>4. Sound(Fer(2, s[5], SubSeq(s, n + 1, Len(s))))
        BY DEF Sound, Fer
      <4> HIDE DEF n, b
      <4> QED BY <4>2, <4>3, <4>4
    <3>2. CASE ~(r >= 2)
      <4>1. r \in 0 .. 1
        BY <2>2, <3>2
      <4>2. Fer(r, Zero, SubSeq(s, n + 1, Len(s))) \in Body
        <5> HIDE DEF r, n
        <5> QED BY <2>4, <4>1, BodyTypes
      <4> QED BY <3>2, <4>2 DEF Fer
    <3> QED BY <3>1, <3>2
  <2>6. BodyFrom(kind, s) = IF Len(s) >= n THEN <<b>> ELSE << >>
    BY <1>3 DEF BodyFrom, FerFrom, Only
  <2> HIDE DEF b, n, r
  <2>7. CASE Len(s) >= n
    BY <2>5, <2>6, <2>7
  <2>8. CASE ~(Len(s) >= n)
    BY <2>6, <2>8
  <2> QED BY <2>7, <2>8
<1> QED BY <1>1, <1>2, <1>3

LEMMA ZerosFacts ==
    ASSUME NEW n \in Nat
    PROVE  /\ Zeros(n) \in Seq(Word) /\ Len(Zeros(n)) = n
           /\ \A i \in 1 .. n : Zeros(n)[i] = Zero
<1>1. Zero \in Word
  BY DEF Word, Plain
<1> QED BY <1>1 DEF Zeros

LEMMA HeaderThenZeros ==
    ASSUME NEW w \in Word, NEW n \in Nat
    PROVE  /\ <<w>> \o Zeros(n) \in Seq(Word) /\ Len(<<w>> \o Zeros(n)) = n + 1
           /\ (<<w>> \o Zeros(n))[1] = w
<1>1. Zeros(n) \in Seq(Word) /\ Len(Zeros(n)) = n
  BY ZerosFacts
<1>2. <<w>> \in Seq(Word) /\ Len(<<w>>) = 1 /\ <<w>>[1] = w
  OBVIOUS
<1> DEFINE a == <<w>>
           b == Zeros(n)
<1> HIDE DEF a, b
<1>3. a \o b \in Seq(Word) /\ Len(a \o b) = Len(a) + Len(b) /\ (a \o b)[1] = a[1]
  <2>1. a \in Seq(Word) /\ b \in Seq(Word) /\ 1 \in 1 .. Len(a)
    BY <1>1, <1>2 DEF a, b
  <2> QED BY <2>1, Cat
<1> QED BY <1>1, <1>2, <1>3 DEF a, b

FerHeader(rev) == [tag |-> "fer", rev |-> rev]

LEMMA FerHeaderIs ==
    ASSUME NEW rev \in 0 .. 2
    PROVE  /\ FerHeader(rev) \in Word /\ IsHeader(FerHeader(rev), "fer")
           /\ FerHeader(rev).rev = rev
<1>1. FerHeader(rev) \in Header
  BY DEF FerHeader, Header
<1> QED BY <1>1, ContainerAssumption DEF FerHeader, Word, IsHeader

(* The head of a firmware error record in front of its data.               *)
FerHead(rev, guid) == <<FerHeader(rev)>> \o Zeros(3) \o <<guid>> \o Zeros(3)

LEMMA FerHeadIs ==
    ASSUME NEW rev \in 0 .. 2, NEW guid \in Word
    PROVE  /\ FerHead(rev, guid) \in Seq(Word) /\ Len(FerHead(rev, guid)) = 8
           /\ FerHead(rev, guid)[1] = FerHeader(rev) /\ FerHead(rev, guid)[5] = guid
<1> DEFINE a == <<FerHeader(rev)>> \o Zeros(3)
           b == <<guid>> \o Zeros(3)
<1>1. /\ a \in Seq(Word) /\ Len(a) = 4 /\ a[1] = FerHeader(rev)
      /\ b \in Seq(Word) /\ Len(b) = 4 /\ b[1] = guid
  <2>1. FerHeader(rev) \in Word /\ 3 \in Nat /\ 3 + 1 = 4
    BY FerHeaderIs
  <2>2. a \in Seq(Word) /\ Len(a) = 3 + 1 /\ a[1] = FerHeader(rev)
    BY <2>1, HeaderThenZeros
  <2>3. b \in Seq(Word) /\ Len(b) = 3 + 1 /\ b[1] = guid
    BY <2>1, HeaderThenZeros
  <2> QED BY <2>1, <2>2, <2>3
<1>2. FerHead(rev, guid) = a \o b
  <2>1. Zeros(3) \in Seq(Word) /\ <<guid>> \in Seq(Word)
    BY ZerosFacts
  <2>2. \A u, v, w \in Seq(Word) : (u \o v) \o w = u \o (v \o w)
    OBVIOUS
  <2> QED BY <1>1, <2>1, <2>2 DEF FerHead
<1> HIDE DEF a, b
<1>3. /\ a \o b \in Seq(Word) /\ Len(a \o b) = 8
      /\ (a \o b)[1] = a[1] /\ (a \o b)[4 + 1] = b[1]
  <2>1. /\ a \o b \in Seq(Word) /\ Len(a \o b) = Len(a) + Len(b)
        /\ \A i \in 1 .. Len(a) : (a \o b)[i] = a[i]
        /\ \A i \in 1 .. Len(b) : (a \o b)[Len(a) + i] = b[i]
    <3>1. IsCat(Word, a, b)
      BY <1>1, CatIs
    <3> QED BY <3>1 DEF IsCat
  <2>2. 1 \in 1 .. Len(a) /\ 1 \in 1 .. Len(b) /\ Len(a) + 1 = 4 + 1 /\ Len(a) + Len(b) = 8
    BY <1>1
  <2>3. (a \o b)[1] = a[1]
    BY <2>1, <2>2
  <2>4. (a \o b)[Len(a) + 1] = b[1]
    BY <2>1, <2>2
  <2> QED BY <2>1, <2>2, <2>3, <2>4
<1> QED BY <1>1, <1>2, <1>3

LEMMA Behind ==
    ASSUME NEW S, NEW a \in Seq(S), NEW b \in Seq(S)
    PROVE  SubSeq(a \o b, Len(a) + 1, Len(a \o b)) = b
<1> DEFINE c == SubSeq(a \o b, Len(a) + 1, Len(a \o b))
<1>1. /\ a \o b \in Seq(S) /\ Len(a \o b) = Len(a) + Len(b)
      /\ Len(a) \in Nat /\ Len(b) \in Nat
      /\ \A i \in 1 .. Len(b) : (a \o b)[Len(a) + i] = b[i]
  BY Cat
<1>2. c \in Seq(S) /\ Len(c) = Len(b)
  BY <1>1
<1>3. ASSUME NEW i \in 1 .. Len(b) PROVE c[i] = b[i]
  <2>1. c[i] = (a \o b)[Len(a) + 1 + i - 1]
    BY <1>1, <1>2
  <2>2. Len(a) + 1 + i - 1 = Len(a) + i
    BY <1>1
  <2> QED BY <1>1, <2>1, <2>2
<1> HIDE DEF c
<1> QED BY <1>2, <1>3 DEF c

(* A body, whatever its sort, is read back from firmware's bytes for it.   *)
LEMMA ReadBack ==
    ASSUME NEW b \in Body
    PROVE  /\ FirmwareBytes(b) \in Seq(Word) /\ Len(FirmwareBytes(b)) = BodyLen(b)
           /\ BodyFrom(b.kind, FirmwareBytes(b)) = <<b>>
           /\ Sound(b) => BodyBytes(b) = FirmwareBytes(b)
           /\ b.kind \in Kinds
<1>1. CASE b.kind # "fer"
  BY <1>1, BodyFacts DEF FirmwareBytes, BodyBytes, BodyLen, BodyFrom
<1>2. CASE b.kind = "fer" /\ b.rev < 2
  <2> DEFINE h == <<FerHeader(b.rev)>> \o Zeros(3)
             s == h \o b.data
  <2>1. /\ b.rev \in 0 .. 1 /\ b.guid = Zero /\ b = Fer(b.rev, Zero, b.data)
        /\ b.data \in Seq(Word) /\ Len(b.data) \in Nat /\ ~Sound(b)
    BY <1>2, BodyFacts DEF Sound
  <2>2. h \in Seq(Word) /\ Len(h) = 4 /\ h[1] = FerHeader(b.rev)
    <3>1. FerHeader(b.rev) \in Word /\ 3 \in Nat /\ 3 + 1 = 4
      BY <2>1, FerHeaderIs
    <3>2. h \in Seq(Word) /\ Len(h) = 3 + 1 /\ h[1] = FerHeader(b.rev)
      BY <3>1, HeaderThenZeros
    <3> QED BY <3>1, <3>2
  <2>3. FirmwareBytes(b) = s
    BY <1>2 DEF FirmwareBytes, FerHeader
  <2> HIDE DEF h
  <2>4. s \in Seq(Word) /\ Len(s) = Len(b.data) + 4 /\ s[1] = h[1]
    <3>1. 1 \in 1 .. Len(h)
      BY <2>2
    <3>2. IsCat(Word, h, b.data)
      BY <2>1, <2>2, CatIs
    <3>3. s \in Seq(Word) /\ s[1] = h[1] /\ Len(s) = Len(h) + Len(b.data)
      BY <3>1, <3>2 DEF IsCat
    <3> QED BY <2>1, <2>2, <3>3
  <2>5. Revision(s) = b.rev /\ FerHeaderSize(b.rev) = 4
    BY <2>1, <2>2, <2>4, FerHeaderIs DEF Revision, FerHeaderSize
  <2>6. SubSeq(s, 4 + 1, Len(s)) = b.data
    BY <2>1, <2>2, Behind
  <2>7. s # << >>
    BY <2>1, <2>4
  <2> HIDE DEF s
  <2>8. ~(b.rev >= 2) /\ Len(s) >= 4
    BY <2>1, <2>4
  <2>9. FerFrom(s) = <<Fer(b.rev, Zero, b.data)>>
    BY <2>5, <2>6, <2>7, <2>8 DEF FerFrom, Only
  <2>10. BodyLen(b) = Len(b.data) + 4
    BY <1>2, <2>5 DEF BodyLen
  <2> QED BY <1>2, <2>1, <2>3, <2>4, <2>9, <2>10, BodyFacts DEF BodyFrom
<1>3. CASE b.kind = "fer" /\ ~(b.rev < 2)
  <2> DEFINE h == FerHead(b.rev, b.guid)
             s == h \o b.data
  <2>1. /\ b.rev = 2 /\ b.guid \in Word /\ b = Fer(b.rev, b.guid, b.data)
        /\ b.data \in Seq(Word) /\ Len(b.data) \in Nat
    BY <1>3, BodyFacts
  <2>2. h \in Seq(Word) /\ Len(h) = 8 /\ h[1] = FerHeader(b.rev) /\ h[5] = b.guid
    BY <2>1, FerHeadIs
  <2>3. FirmwareBytes(b) = s /\ BodyBytes(b) = s
    BY <1>3 DEF FirmwareBytes, BodyBytes, FerHead, FerHeader
  <2> HIDE DEF h
  <2>4. s \in Seq(Word) /\ Len(s) = Len(b.data) + 8 /\ s[1] = h[1] /\ s[5] = h[5]
    <3>1. 1 \in 1 .. Len(h) /\ 5 \in 1 .. Len(h)
      BY <2>2
    <3>2. /\ h \o b.data \in Seq(Word) /\ Len(h \o b.data) = Len(h) + Len(b.data)
          /\ \A i \in 1 .. Len(h) : (h \o b.data)[i] = h[i]
      <4>1. IsCat(Word, h, b.data)
        BY <2>1, <2>2, CatIs
      <4> QED BY <4>1 DEF IsCat
    <3> QED BY <2>1, <2>2, <3>1, <3>2
  <2>5. Revision(s) = 2 /\ FerHeaderSize(2) = 8
    BY <2>1, <2>2, <2>4, FerHeaderIs DEF Revision, FerHeaderSize
  <2>6. SubSeq(s, 8 + 1, Len(s)) = b.data
    BY <2>1, <2>2, Behind
  <2>7. s # << >>
    BY <2>1, <2>4
  <2> HIDE DEF s
  <2>8. Len(s) >= 8
    BY <2>1, <2>4
  <2>9. FerFrom(s) = <<Fer(2, b.guid, b.data)>>
    <3>1. s[5] = b.guid
      BY <2>2, <2>4
    <3>2. FerFrom(s) = <<Fer(2, s[5], SubSeq(s, 8 + 1, Len(s)))>>
      BY <2>5, <2>7, <2>8 DEF FerFrom, Only
    <3> QED BY <2>6, <3>1, <3>2
  <2>10. BodyLen(b) = Len(b.data) + 8
    BY <1>3, <2>1, <2>5 DEF BodyLen
  <2> QED BY <1>3, <2>1, <2>3, <2>4, <2>9, <2>10, BodyFacts DEF BodyFrom
<1> QED BY <1>1, <1>2, <1>3

(* What a read of the bytes of a body gives: the body, or, of a firmware   *)
(* error record of revision 0 or 1, another one.                           *)
Gives(b, s) ==
    /\ Sound(b) => BodyFrom(b.kind, s) = <<b>>
    /\ ~Sound(b) => \E c \in Body : BodyFrom(b.kind, s) = <<c>> /\ ~Sound(c)

LEMMA FirmwareGives ==
    ASSUME NEW b \in Body PROVE Gives(b, FirmwareBytes(b))
BY ReadBack DEF Gives

LEMMA ResizeFacts ==
    ASSUME NEW s \in Seq(Word), NEW n \in Nat
    PROVE  /\ Resize(s, n) \in Seq(Word) /\ Len(Resize(s, n)) = n
           /\ Len(s) = n => Resize(s, n) = s
           /\ n >= 1 /\ s # << >> => Resize(s, n)[1] = s[1]
<1>1. Zero \in Word
  BY DEF Word, Plain
<1>2. \A i \in 1 .. n : (IF i <= Len(s) THEN s[i] ELSE Zero) \in Word
  BY <1>1
<1> QED BY <1>2 DEF Resize

LEMMA ExportGives ==
    ASSUME NEW b \in Body
    PROVE  LET s == Resize(BodyBytes(b), BodyLen(b)) IN
           s \in Seq(Word) /\ Len(s) = BodyLen(b) /\ Gives(b, s)
<1> DEFINE s == Resize(BodyBytes(b), BodyLen(b))
<1>1. CASE Sound(b)
  <2>1. BodyBytes(b) \in Seq(Word) /\ Len(BodyBytes(b)) = BodyLen(b) /\ BodyLen(b) \in Nat
    BY <1>1, ReadBack, BodyFacts
  <2>2. s = FirmwareBytes(b)
    BY <1>1, <2>1, ReadBack, ResizeFacts
  <2> QED BY <2>2, ReadBack, FirmwareGives
<1>2. CASE ~Sound(b)
  <2>1. /\ b.kind = "fer" /\ b.rev \in 0 .. 1 /\ b.rev \in 0 .. 2 /\ ~(b.rev >= 2)
        /\ b.data \in Seq(Word) /\ Len(b.data) \in Nat /\ b.guid \in Word
    BY <1>2, BodyFacts DEF Sound
  <2>2. FerHeaderSize(b.rev) = 4 /\ BodyLen(b) = Len(b.data) + 4
    BY <2>1 DEF FerHeaderSize, BodyLen
  <2> DEFINE h == FerHead(b.rev, b.guid)
  <2>3. h \in Seq(Word) /\ Len(h) = 8 /\ h[1] = FerHeader(b.rev)
    BY <2>1, FerHeadIs
  <2>4. BodyBytes(b) = h \o b.data
    BY <2>1 DEF BodyBytes, FerHead, FerHeader
  <2> HIDE DEF h
  <2>5. BodyBytes(b) \in Seq(Word) /\ BodyBytes(b) # << >> /\ BodyBytes(b)[1] = FerHeader(b.rev)
    <3>1. h \o b.data \in Seq(Word) /\ Len(h \o b.data) = 8 + Len(b.data) /\ (h \o b.data)[1] = h[1]
      <4>1. 1 \in 1 .. Len(h)
        BY <2>3
      <4>2. IsCat(Word, h, b.data)
        BY <2>1, <2>3, CatIs
      <4> QED BY <2>3, <4>1, <4>2 DEF IsCat
    <3> QED BY <2>1, <2>3, <2>4, <3>1
  <2>6. s \in Seq(Word) /\ Len(s) = BodyLen(b) /\ s[1] = FerHeader(b.rev)
    <3>1. BodyLen(b) \in Nat /\ BodyLen(b) >= 1
      BY <2>1, <2>2
    <3> QED BY <2>5, <3>1, ResizeFacts
  <2> HIDE DEF s
  <2>7. Revision(s) = b.rev /\ Len(s) >= 4 /\ s # << >>
    BY <2>1, <2>2, <2>6, FerHeaderIs DEF Revision
  <2> DEFINE c == Fer(b.rev, Zero, SubSeq(s, 4 + 1, Len(s)))
  <2>8. FerFrom(s) = <<c>>
    BY <2>1, <2>2, <2>7 DEF FerFrom, Only
  <2>9. c \in Body
    <3>1. SubSeq(s, 4 + 1, Len(s)) \in Seq(Word)
      BY <2>6, <2>7
    <3> QED BY <2>1, <3>1, BodyTypes
  <2>10. ~Sound(c)
    BY <2>1 DEF Sound, Fer
  <2> HIDE DEF c
  <2>11. BodyFrom(b.kind, s) = <<c>>
    BY <2>1, <2>8 DEF BodyFrom
  <2>12. Gives(b, s)
    BY <1>2, <2>9, <2>10, <2>11 DEF Gives
  <2> QED BY <2>6, <2>12 DEF s
<1> QED BY <1>1, <1>2

---------------------------------------------------------------------------
(* Parts of a file. *)

IsPart(S, w, x, e, s) ==
    /\ s \in Seq(S) /\ Len(s) = e - x
    /\ \A k \in 1 .. e - x : s[k] = w[x + k]

LEMMA PartIs ==
    ASSUME NEW S, NEW w \in Seq(S), NEW x \in Nat, NEW e \in Nat, x <= e, e <= Len(w)
    PROVE  IsPart(S, w, x, e, SubSeq(w, x + 1, e))
<1> DEFINE s == SubSeq(w, x + 1, e)
<1>1. s \in Seq(S) /\ Len(s) = e - x
  OBVIOUS
<1>2. ASSUME NEW k \in 1 .. e - x PROVE s[k] = w[x + k]
  <2>1. s[k] = w[x + 1 + k - 1] /\ x + 1 + k - 1 = x + k
    BY <1>1
  <2> QED BY <2>1
<1> HIDE DEF s
<1> QED BY <1>1, <1>2 DEF IsPart, s

LEMMA PartUnique ==
    ASSUME NEW S, NEW w \in Seq(S), NEW x \in Nat, NEW e \in Nat, x <= e, e <= Len(w),
           NEW s, IsPart(S, w, x, e, s)
    PROVE  SubSeq(w, x + 1, e) = s
<1> DEFINE t == SubSeq(w, x + 1, e)
<1>1. IsPart(S, w, x, e, t)
  BY PartIs
<1> HIDE DEF t
<1>2. t \in Seq(S) /\ s \in Seq(S) /\ Len(t) = Len(s) /\ Len(s) = e - x
  BY <1>1 DEF IsPart
<1>3. \A k \in 1 .. Len(s) : t[k] = s[k]
  BY <1>1, <1>2 DEF IsPart
<1>4. t = s
  BY <1>2, <1>3
<1> QED BY <1>4 DEF t

(* What lies before the cut is still there. *)
LEMMA PartOfCut ==
    ASSUME NEW S, NEW w \in Seq(S), NEW n \in 0 .. Len(w), NEW x \in Nat, NEW e \in Nat,
           x <= e, e <= n
    PROVE  /\ SubSeq(w, 1, n) \in Seq(S) /\ Len(SubSeq(w, 1, n)) = n
           /\ SubSeq(SubSeq(w, 1, n), x + 1, e) = SubSeq(w, x + 1, e)
<1> DEFINE v == SubSeq(w, 1, n)
           s == SubSeq(w, x + 1, e)
<1>1. v \in Seq(S) /\ Len(v) = n /\ \A k \in 1 .. n : v[k] = w[k]
  OBVIOUS
<1>2. IsPart(S, w, x, e, s)
  BY PartIs
<1> HIDE DEF v, s
<1>3. IsPart(S, v, x, e, s)
  <2>1. s \in Seq(S) /\ Len(s) = e - x
    BY <1>2 DEF IsPart
  <2>2. ASSUME NEW k \in 1 .. e - x PROVE s[k] = v[x + k]
    <3>1. x + k \in 1 .. n
      OBVIOUS
    <3>2. s[k] = w[x + k]
      BY <1>2 DEF IsPart
    <3> QED BY <1>1, <3>1, <3>2
  <2> QED BY <2>1, <2>2 DEF IsPart
<1>4. SubSeq(v, x + 1, e) = s
  BY <1>1, <1>3, PartUnique
<1> QED BY <1>1, <1>4 DEF v, s

LEMMA PartOfPart ==
    ASSUME NEW S, NEW w \in Seq(S), NEW x \in Nat, NEW e \in Nat, NEW y \in Nat,
           x <= y, y <= e, e <= Len(w)
    PROVE  SubSeq(w, y + 1, e) = SubSeq(SubSeq(w, x + 1, e), y - x + 1, e - x)
<1> DEFINE v == SubSeq(w, x + 1, e)
           s == SubSeq(w, y + 1, e)
           m == y - x
           n == e - x
<1>1. IsPart(S, w, x, e, v) /\ IsPart(S, w, y, e, s)
  BY PartIs
<1> HIDE DEF v, s
<1>2. m \in Nat /\ n \in Nat /\ m <= n /\ n <= Len(v) /\ v \in Seq(S) /\ n - m = e - y
  BY <1>1 DEF IsPart
<1>3. IsPart(S, v, m, n, s)
  <2>1. s \in Seq(S) /\ Len(s) = n - m
    BY <1>1, <1>2 DEF IsPart
  <2>2. ASSUME NEW k \in 1 .. n - m PROVE s[k] = v[m + k]
    <3>1. k \in 1 .. e - y /\ m + k \in 1 .. e - x /\ x + (m + k) = y + k
      OBVIOUS
    <3>2. s[k] = w[y + k]
      BY <1>1, <3>1 DEF IsPart
    <3>3. v[m + k] = w[x + (m + k)]
      BY <1>1, <3>1 DEF IsPart
    <3> QED BY <3>1, <3>2, <3>3
  <2> QED BY <2>1, <2>2 DEF IsPart
<1> HIDE DEF m, n
<1>4. SubSeq(v, m + 1, n) = s
  BY <1>2, <1>3, PartUnique
<1> QED BY <1>4 DEF v, s, m, n

(* The pieces of a sequence that is behind another one.                    *)
IsPlaces(s, p) ==
    /\ p \in [0 .. Len(s) -> Nat]
    /\ p[0] = 0 /\ p[Len(s)] = Len(FlattenSeq(s))
    /\ \A i \in 1 .. Len(s) :
          /\ p[i] = p[i - 1] + Len(s[i])
          /\ p[i] <= Len(FlattenSeq(s))
          /\ \A k \in 1 .. Len(s[i]) : FlattenSeq(s)[p[i - 1] + k] = s[i][k]

LEMMA PlacesOf ==
    ASSUME NEW S, NEW s \in Seq(Seq(S)) PROVE \E p : IsPlaces(s, p)
BY FlattenPlaces DEF IsPlaces

PieceAt(S, a, s, p, i, j) ==
    LET w == a \o FlattenSeq(s) IN
    /\ p[j] \in Nat /\ p[i] \in Nat /\ p[i] = p[j] + Len(s[i])
    /\ Len(a) + p[i] <= Len(w) /\ w \in Seq(S)
    /\ SubSeq(w, Len(a) + p[j] + 1, Len(a) + p[i]) = s[i]

LEMMA PieceBehind ==
    ASSUME NEW S, NEW a \in Seq(S), NEW s \in Seq(Seq(S)), NEW p, IsPlaces(s, p),
           NEW i \in 1 .. Len(s), NEW j, j = i - 1
    PROVE  PieceAt(S, a, s, p, i, j)
<1> DEFINE q == FlattenSeq(s)
           w == a \o q
           x == Len(a) + p[j]
           e == Len(a) + p[i]
<1>1. q \in Seq(S) /\ s[i] \in Seq(S) /\ Len(s[i]) \in Nat
  BY FlattenType
<1>2. /\ p[j] \in Nat /\ p[i] \in Nat /\ p[i] = p[j] + Len(s[i]) /\ p[i] <= Len(q)
      /\ \A k \in 1 .. Len(s[i]) : q[p[j] + k] = s[i][k]
  <2>1. i \in 0 .. Len(s) /\ i - 1 \in 0 .. Len(s)
    OBVIOUS
  <2>2. p[i - 1] \in Nat /\ p[i] \in Nat
    BY <2>1 DEF IsPlaces
  <2>3. /\ p[i] = p[i - 1] + Len(s[i]) /\ p[i] <= Len(q)
        /\ \A k \in 1 .. Len(s[i]) : q[p[i - 1] + k] = s[i][k]
    BY DEF IsPlaces
  <2> QED BY <2>2, <2>3
<1> HIDE DEF q
<1>3. IsCat(S, a, q)
  BY <1>1, CatIs
<1>4. w \in Seq(S) /\ Len(w) = Len(a) + Len(q) /\ Len(a) \in Nat /\ Len(q) \in Nat
  BY <1>3 DEF IsCat
<1>5. IsPart(S, w, x, e, s[i])
  <2>1. e - x = Len(s[i])
    <3> DEFINE A == Len(a)
               P == p[j]
               L == Len(s[i])
    <3>1. A \in Nat /\ P \in Nat /\ L \in Nat /\ x = A + P /\ e = A + (P + L)
      BY <1>1, <1>2, <1>4
    <3> HIDE DEF A, P, L, x, e
    <3>2. e - x = L
      BY <3>1
    <3> QED BY <3>2 DEF L
  <2>2. ASSUME NEW k \in 1 .. Len(s[i]) PROVE s[i][k] = w[x + k]
    <3>0. k \in Nat /\ k >= 1 /\ k <= Len(s[i])
      BY <1>1
    <3>1. p[j] + k \in 1 .. Len(q) /\ x + k = Len(a) + (p[j] + k)
      <4> DEFINE A == Len(a)
                 P == p[j]
                 L == Len(s[i])
                 Q == Len(q)
      <4>1. /\ A \in Nat /\ P \in Nat /\ L \in Nat /\ Q \in Nat /\ P + L <= Q
            /\ x = A + P
        BY <1>1, <1>2, <1>4
      <4>2. k \in Nat /\ k >= 1 /\ k <= L
        BY <3>0
      <4> HIDE DEF A, P, L, Q, x
      <4>3. P + k \in 1 .. Q /\ x + k = A + (P + k)
        BY <4>1, <4>2
      <4> QED BY <4>3 DEF A, P, Q
    <3>2. w[Len(a) + (p[j] + k)] = q[p[j] + k]
      BY <1>3, <3>1 DEF IsCat
    <3>3. q[p[j] + k] = s[i][k]
      BY <1>2
    <3> QED BY <3>1, <3>2, <3>3
  <2> QED BY <1>1, <2>1, <2>2 DEF IsPart
<1>6. x \in Nat /\ e \in Nat /\ x <= e /\ e <= Len(w)
  <2> DEFINE A == Len(a)
             P == p[j]
             L == Len(s[i])
             Q == Len(q)
  <2>1. /\ A \in Nat /\ P \in Nat /\ L \in Nat /\ Q \in Nat /\ P + L <= Q
        /\ x = A + P /\ e = A + (P + L) /\ Len(w) = A + Q
    BY <1>1, <1>2, <1>4
  <2> HIDE DEF A, P, L, Q, x, e, w
  <2> QED BY <2>1
<1> HIDE DEF w, x, e
<1>7. SubSeq(w, x + 1, e) = s[i]
  BY <1>4, <1>5, <1>6, PartUnique
<1> QED BY <1>2, <1>4, <1>6, <1>7 DEF w, x, e, q, PieceAt

LEMMA CursorIs ==
    ASSUME NEW bodies \in Seq(Body), NEW start \in Nat, NEW header \in Nat
    PROVE  LET c == Cursor(bodies, start, header) IN
           /\ c \in [0 .. Len(bodies) -> Nat] /\ c[0] = start
           /\ \A k \in 1 .. Len(bodies) : c[k] = c[k - 1] + header + BodyLen(bodies[k])
<1> DEFINE N == Len(bodies)
           Step == [k \in 1 .. N |-> [x \in Nat |-> x + header + BodyLen(bodies[k])]]
           Up(f) == f = [i \in 0 .. Len(bodies) |->
                           IF i = 0 THEN start ELSE f[i - 1] + header + BodyLen(bodies[i])]
<1>1. N \in Nat /\ start \in Nat /\ IsStep(N, Nat, Step)
  <2>1. \A k \in 1 .. N : BodyLen(bodies[k]) \in Nat
    BY BodyFacts
  <2> QED BY <2>1 DEF IsStep
<1>2. PICK f : Steps(N, Nat, start, Step, f)
  <2> HIDE DEF Step
  <2> QED BY <1>1, Recursion
<1>3. \A k \in 0 .. N : k = 0 \/ (k \in 1 .. N /\ k - 1 \in 0 .. N)
  BY <1>1
<1>4. ASSUME NEW k \in 1 .. N PROVE f[k] = f[k - 1] + header + BodyLen(bodies[k])
  <2>1. f[k - 1] \in Nat /\ f[k] = Step[k][f[k - 1]]
    <3>1. k - 1 \in 0 .. N
      BY <1>1
    <3> HIDE DEF Step
    <3> QED BY <1>2, <3>1 DEF Steps
  <2> QED BY <2>1
<1>5. f \in [0 .. N -> Nat] /\ f[0] = start
  <2> HIDE DEF Step
  <2> QED BY <1>2 DEF Steps
<1>6. Up(f)
  <2>1. \A k \in 0 .. N : f[k] = IF k = 0 THEN start ELSE f[k - 1] + header + BodyLen(bodies[k])
    BY <1>3, <1>4, <1>5
  <2> QED BY <1>5, <2>1
<1> DEFINE r == CHOOSE g : Up(g)
<1>7. Cursor(bodies, start, header) = r
  BY DEF Cursor
<1>8. Up(r)
  <2> HIDE DEF Up
  <2> QED BY <1>6
<1> HIDE DEF r
<1>9. /\ r = [k \in 0 .. N |-> r[k]] /\ r[0] = start
      /\ \A k \in 1 .. N : r[k] = r[k - 1] + header + BodyLen(bodies[k])
  <2>1. \A k \in 0 .. N : r[k] = IF k = 0 THEN start ELSE r[k - 1] + header + BodyLen(bodies[k])
    BY <1>8
  <2>2. \A k \in 1 .. N : k \in 0 .. N /\ k # 0
    BY <1>1
  <2>3. 0 \in 0 .. N
    BY <1>1
  <2>4. r = [k \in 0 .. N |-> r[k]]
    BY <1>8
  <2> QED BY <2>1, <2>2, <2>3, <2>4
<1> DEFINE T == {k \in 0 .. N : r[k] \in Nat}
<1>10. 0 \in T
  BY <1>1, <1>9
<1>11. ASSUME NEW k \in 1 .. N, k - 1 \in T PROVE k \in T
  <2>1. k \in 0 .. N /\ BodyLen(bodies[k]) \in Nat
    <3>1. bodies[k] \in Body /\ k \in 0 .. N
      BY <1>1
    <3> QED BY <3>1, BodyFacts
  <2>2. r[k] = r[k - 1] + header + BodyLen(bodies[k])
    BY <1>9
  <2> QED BY <1>11, <2>1, <2>2
<1>12. \A k \in 0 .. N : k \in T
  <2> HIDE DEF T
  <2> QED BY <1>1, <1>10, <1>11, Induction
<1>13. r \in [0 .. N -> Nat]
  BY <1>9, <1>12
<1> QED BY <1>7, <1>9, <1>13

---------------------------------------------------------------------------
(* A CPER, whole or cut: the descriptors and bodies it still has are those *)
(* of its layout.                                                          *)

Table(n) == RecordHeaderSize + SectionDescriptorSize * n
DescriptorOf(p) == [tag |-> "descriptor", kind |-> p.body.kind, at |-> p.at, len |-> p.len]
Readable(bytes, p) ==
    End(p) <= Len(bytes) => Gives(p.body, SubSeq(bytes, p.at + 1, End(p)))

CperOf(bytes, places, whole) ==
    /\ bytes # << >> => bytes[1] = [tag |-> "cper", count |-> Count(places)]
    /\ \A i \in 1 .. Len(places) :
          /\ Len(bytes) > Table(i - 1) => bytes[Table(i - 1) + 1] = DescriptorOf(places[i])
          /\ places[i].at >= Table(Len(places))
          /\ Readable(bytes, places[i])
    /\ whole => /\ Len(bytes) >= Table(Len(places))
                /\ \A i \in 1 .. Len(places) : End(places[i]) <= Len(bytes)

LEMMA PlaceFacts ==
    ASSUME NEW p \in Place
    PROVE  /\ p.body \in Body /\ p.at \in Nat /\ p.len \in Nat
           /\ End(p) \in Nat /\ p.at <= End(p) /\ End(p) = p.at + p.len
BY DEF Place, End

LEMMA CountFacts ==
    ASSUME NEW s, Len(s) \in Nat
    PROVE  /\ Count(s) \in Nat /\ Count(s) <= Len(s)
           /\ Len(s) < 65536 => Count(s) = Len(s)
<1> DEFINE n == Len(s)
<1>1. n \in Nat
  OBVIOUS
<1> HIDE DEF n
<1>2. n % 65536 \in Nat /\ n % 65536 <= n /\ (n < 65536 => n % 65536 = n)
  BY <1>1
<1>3. Count(s) = n % 65536
  BY DEF Count, n
<1> QED BY <1>2, <1>3 DEF n

Told(f, i) ==
    LET p == f.layout[i] IN
    /\ p.at >= RecordHeaderSize + SectionDescriptorSize * Len(f.layout)
    /\ Holding(f.bytes, p)
    /\ f.bytes[RecordHeaderSize + SectionDescriptorSize * (i - 1) + 1]
          = [tag |-> "descriptor", kind |-> p.body.kind, at |-> p.at, len |-> p.len]

LEMMA CperTells ==
    ASSUME NEW f, IsCperFile(f), NEW i \in DOMAIN f.layout
    PROVE  Told(f, i)
BY DEF IsCperFile, Told

LEMMA FirmwareCper ==
    ASSUME NEW f, f.bytes \in Seq(Word), f.layout \in Seq(Place), IsCperFile(f)
    PROVE  CperOf(f.bytes, f.layout, TRUE)
<1> DEFINE bytes == f.bytes
           places == f.layout
<1>1. /\ Len(places) \in Nat /\ Len(places) < 65536 /\ Len(bytes) \in Nat
      /\ DOMAIN places = 1 .. Len(places)
  BY DEF IsCperFile
<1>2. Count(places) = Len(places)
  BY <1>1, CountFacts
<1>3. bytes[1] = [tag |-> "cper", count |-> Len(places)] /\ Len(bytes) >= Table(Len(places))
  BY DEF IsCperFile, Table
<1>4. ASSUME NEW i \in 1 .. Len(places)
      PROVE  /\ bytes[Table(i - 1) + 1] = DescriptorOf(places[i])
             /\ places[i].at >= Table(Len(places))
             /\ End(places[i]) <= Len(bytes) /\ Readable(bytes, places[i])
  <2>1. /\ bytes[Table(i - 1) + 1] = DescriptorOf(places[i])
        /\ places[i].at >= Table(Len(places)) /\ Holding(bytes, places[i])
    <3>1. i \in DOMAIN f.layout
      BY <1>1
    <3>2. Told(f, i)
      BY <3>1, CperTells
    <3> QED BY <3>2 DEF Told, Table, DescriptorOf
  <2>2. places[i].body \in Body
    BY PlaceFacts
  <2>3. Gives(places[i].body, SubSeq(bytes, places[i].at + 1, End(places[i])))
    BY <2>1, <2>2, FirmwareGives DEF Holding
  <2>4. End(places[i]) <= Len(bytes)
    BY <2>1 DEF Holding
  <2> QED BY <2>1, <2>3, <2>4 DEF Readable
<1> HIDE DEF bytes, places
<1>5. CperOf(bytes, places, TRUE)
  BY <1>2, <1>3, <1>4 DEF CperOf
<1> QED BY <1>5 DEF bytes, places

LEMMA CutCper ==
    ASSUME NEW bytes \in Seq(Word), NEW places \in Seq(Place), NEW whole, CperOf(bytes, places, whole),
           NEW n \in 0 .. Len(bytes)
    PROVE  CperOf(SubSeq(bytes, 1, n), places, FALSE)
<1> DEFINE v == SubSeq(bytes, 1, n)
<1>1. v \in Seq(Word) /\ Len(v) = n /\ Len(bytes) \in Nat /\ Len(places) \in Nat
      /\ \A k \in 1 .. n : v[k] = bytes[k]
  OBVIOUS
<1>2. v # << >> => v[1] = bytes[1] /\ bytes # << >>
  BY <1>1
<1>3. ASSUME NEW i \in 1 .. Len(places)
      PROVE  /\ Len(v) > Table(i - 1) => v[Table(i - 1) + 1] = DescriptorOf(places[i])
             /\ places[i].at >= Table(Len(places))
             /\ Readable(v, places[i])
  <2>1. places[i] \in Place /\ Table(i - 1) \in Nat
    BY <1>1 DEF Table, RecordHeaderSize, SectionDescriptorSize
  <2>2. ASSUME Len(v) > Table(i - 1) PROVE v[Table(i - 1) + 1] = DescriptorOf(places[i])
    <3>1. Table(i - 1) + 1 \in 1 .. n /\ Len(bytes) > Table(i - 1)
      BY <1>1, <2>1, <2>2
    <3>2. bytes[Table(i - 1) + 1] = DescriptorOf(places[i])
      BY <3>1 DEF CperOf
    <3> QED BY <1>1, <3>1, <3>2
  <2>3. ASSUME End(places[i]) <= Len(v)
        PROVE  Gives(places[i].body, SubSeq(v, places[i].at + 1, End(places[i])))
    <3> DEFINE x == places[i].at
               e == End(places[i])
    <3>1. x \in Nat /\ e \in Nat /\ x <= e /\ e <= n /\ e <= Len(bytes)
      BY <1>1, <2>1, <2>3, PlaceFacts
    <3>2. Gives(places[i].body, SubSeq(bytes, x + 1, e))
      BY <3>1 DEF CperOf, Readable
    <3> HIDE DEF x, e
    <3>3. SubSeq(v, x + 1, e) = SubSeq(bytes, x + 1, e)
      BY <3>1, PartOfCut
    <3> QED BY <3>2, <3>3 DEF x, e
  <2>4. places[i].at >= Table(Len(places))
    BY DEF CperOf
  <2> HIDE DEF v
  <2> QED BY <2>2, <2>3, <2>4 DEF Readable
<1>4. bytes # << >> => bytes[1] = [tag |-> "cper", count |-> Count(places)]
  BY DEF CperOf
<1> HIDE DEF v
<1>5. CperOf(v, places, FALSE)
  BY <1>2, <1>3, <1>4 DEF CperOf
<1> QED BY <1>5 DEF v

(* The layout of an export. *)
LEMMA LayoutFacts ==
    ASSUME NEW bodies \in Seq(Body), NEW start \in Nat, NEW header \in Nat
    PROVE  LET l == LayoutOf(bodies, start, header)
               c == Cursor(bodies, start, header)
           IN /\ l \in Seq(Place) /\ Len(l) = Len(bodies)
              /\ \A i \in 1 .. Len(bodies) :
                    /\ l[i].body = bodies[i] /\ l[i].len = BodyLen(bodies[i])
                    /\ l[i].at = c[i - 1] + header /\ End(l[i]) = c[i]
                    /\ c[i - 1] \in Nat /\ c[i] \in Nat
<1> DEFINE c == Cursor(bodies, start, header)
           l == LayoutOf(bodies, start, header)
<1>1. /\ c \in [0 .. Len(bodies) -> Nat]
      /\ \A k \in 1 .. Len(bodies) : c[k] = c[k - 1] + header + BodyLen(bodies[k])
  BY CursorIs
<1>2. l = [i \in 1 .. Len(bodies) |->
             [body |-> bodies[i], len |-> BodyLen(bodies[i]), at |-> c[i - 1] + header]]
  BY DEF LayoutOf
<1> HIDE DEF c, l
<1>3. ASSUME NEW i \in 1 .. Len(bodies)
      PROVE  /\ c[i - 1] \in Nat /\ c[i] \in Nat /\ bodies[i] \in Body
             /\ BodyLen(bodies[i]) \in Nat
             /\ c[i] = c[i - 1] + header + BodyLen(bodies[i])
  <2>1. i - 1 \in 0 .. Len(bodies) /\ i \in 0 .. Len(bodies) /\ bodies[i] \in Body
    OBVIOUS
  <2> QED BY <1>1, <2>1, BodyFacts
<1>4. \A i \in 1 .. Len(bodies) :
         [body |-> bodies[i], len |-> BodyLen(bodies[i]), at |-> c[i - 1] + header] \in Place
  BY <1>3 DEF Place
<1>5. l \in Seq(Place) /\ Len(l) = Len(bodies)
  BY <1>2, <1>4
<1>6. ASSUME NEW i \in 1 .. Len(bodies)
      PROVE  /\ l[i].body = bodies[i] /\ l[i].len = BodyLen(bodies[i])
             /\ l[i].at = c[i - 1] + header /\ End(l[i]) = c[i]
  <2>1. l[i] = [body |-> bodies[i], len |-> BodyLen(bodies[i]), at |-> c[i - 1] + header]
    BY <1>2
  <2> QED BY <1>3, <2>1 DEF End
<1> QED BY <1>3, <1>5, <1>6 DEF c, l

(* Pieces of the length of the bodies and their headers are at the places  *)
(* of the layout.                                                          *)
LEMMA CursorPlaces ==
    ASSUME NEW bodies \in Seq(Body), NEW start \in Nat, NEW header \in Nat,
           NEW s \in Seq(Seq(Word)), Len(s) = Len(bodies), NEW p, IsPlaces(s, p),
           \A i \in 1 .. Len(s) : Len(s[i]) = header + BodyLen(bodies[i])
    PROVE  \A i \in 0 .. Len(bodies) : Cursor(bodies, start, header)[i] = start + p[i]
<1> DEFINE c == Cursor(bodies, start, header)
           T == {i \in 0 .. Len(bodies) : c[i] = start + p[i]}
<1>1. /\ c[0] = start /\ c \in [0 .. Len(bodies) -> Nat]
      /\ \A k \in 1 .. Len(bodies) : c[k] = c[k - 1] + header + BodyLen(bodies[k])
  BY CursorIs
<1> HIDE DEF c
<1>2. 0 \in T
  BY <1>1 DEF IsPlaces
<1>3. ASSUME NEW k \in 1 .. Len(bodies), k - 1 \in T PROVE k \in T
  <2>1. k - 1 \in 0 .. Len(bodies) /\ k \in 0 .. Len(bodies) /\ bodies[k] \in Body
    OBVIOUS
  <2>2. p[k] = p[k - 1] + Len(s[k]) /\ p[k - 1] \in Nat
    BY <2>1 DEF IsPlaces
  <2>3. BodyLen(bodies[k]) \in Nat /\ Len(s[k]) = header + BodyLen(bodies[k])
    BY <2>1, BodyFacts
  <2>4. c[k] = c[k - 1] + header + BodyLen(bodies[k]) /\ c[k - 1] = start + p[k - 1]
    BY <1>1, <1>3
  <2>5. \A a, b, h, n \in Nat : a + b + h + n = a + (b + (h + n))
    OBVIOUS
  <2>6. c[k] = start + p[k]
    BY <2>2, <2>3, <2>4, <2>5
  <2> QED BY <2>1, <2>6
<1>4. Len(bodies) \in Nat
  OBVIOUS
<1> HIDE DEF T
<1>5. \A i \in 0 .. Len(bodies) : i \in T
  BY <1>2, <1>3, <1>4, Induction
<1> QED BY <1>5 DEF T, c

LEMMA DescriptorPlaces ==
    ASSUME NEW s \in Seq(Seq(Word)), NEW p, IsPlaces(s, p),
           \A i \in 1 .. Len(s) : Len(s[i]) = SectionDescriptorSize
    PROVE  \A i \in 0 .. Len(s) : p[i] = SectionDescriptorSize * i
<1> DEFINE T == {i \in 0 .. Len(s) : p[i] = 18 * i}
<1>1. 0 \in T /\ Len(s) \in Nat
  BY DEF IsPlaces
<1>2. ASSUME NEW k \in 1 .. Len(s), k - 1 \in T PROVE k \in T
  <2>1. p[k] = p[k - 1] + Len(s[k])
    BY DEF IsPlaces
  <2>2. Len(s[k]) = 18 /\ k \in 0 .. Len(s) /\ k \in Nat /\ p[k - 1] = 18 * (k - 1)
    BY <1>2 DEF SectionDescriptorSize
  <2>3. p[k] = 18 * k
    BY <2>1, <2>2
  <2> QED BY <2>2, <2>3
<1> HIDE DEF T
<1>3. \A i \in 0 .. Len(s) : i \in T
  BY <1>1, <1>2, Induction
<1> QED BY <1>3 DEF T, SectionDescriptorSize

LEMMA DescriptorIs ==
    ASSUME NEW p \in Place
    PROVE  LET d == Descriptor(p.body.kind, p.at, p.len) IN
           /\ d \in Seq(Word) /\ Len(d) = SectionDescriptorSize /\ d[1] = DescriptorOf(p)
<1>1. DescriptorOf(p) \in Word
  <2>1. p.body.kind \in Kinds /\ p.at \in Nat /\ p.len \in Nat
    BY PlaceFacts, BodyFacts
  <2> QED BY <2>1 DEF DescriptorOf, Word, Header
<1>2. Descriptor(p.body.kind, p.at, p.len) = <<DescriptorOf(p)>> \o Zeros(17)
  <2>1. SectionDescriptorSize - 1 = 17
    BY DEF SectionDescriptorSize
  <2> QED BY <2>1 DEF Descriptor, DescriptorOf
<1>3. 17 \in Nat /\ 17 + 1 = SectionDescriptorSize
  BY DEF SectionDescriptorSize
<1> DEFINE d == <<DescriptorOf(p)>> \o Zeros(17)
<1>4. d \in Seq(Word) /\ Len(d) = 17 + 1 /\ d[1] = DescriptorOf(p)
  BY <1>1, <1>3, HeaderThenZeros
<1> QED BY <1>2, <1>3, <1>4

LEMMA CperHeadIs ==
    ASSUME NEW count \in Nat
    PROVE  /\ CperHead(count) \in Seq(Word) /\ Len(CperHead(count)) = RecordHeaderSize
           /\ CperHead(count)[1] = [tag |-> "cper", count |-> count]
<1> DEFINE w == [tag |-> "cper", count |-> count]
           d == <<w>> \o Zeros(31)
<1>1. w \in Word
  BY DEF Word, Header
<1>2. CperHead(count) = d
  <2>1. RecordHeaderSize - 1 = 31
    BY DEF RecordHeaderSize
  <2> QED BY <2>1 DEF CperHead
<1>3. 31 \in Nat /\ 31 + 1 = RecordHeaderSize
  BY DEF RecordHeaderSize
<1>4. d \in Seq(Word) /\ Len(d) = 31 + 1 /\ d[1] = w
  <2> HIDE DEF w
  <2> QED BY <1>1, <1>3, HeaderThenZeros
<1> QED BY <1>2, <1>3, <1>4

(* An export reads back, section by section. *)
LEMMA ExportedCper ==
    ASSUME NEW B \in Seq(Body)
    PROVE  /\ CperBytes(B) \in Seq(Word) /\ CperLayout(B) \in Seq(Place)
           /\ CperOf(CperBytes(B), CperLayout(B), TRUE)
<1> DEFINE N == Len(B)
           l == CperLayout(B)
           c == Cursor(B, Table(N), 0)
           head == CperHead(Count(B))
           ds == [i \in DOMAIN B |-> Descriptor(B[i].kind, l[i].at, l[i].len)]
           ps == [i \in DOMAIN B |-> Resize(BodyBytes(B[i]), l[i].len)]
           h == head \o FlattenSeq(ds)
           w == h \o FlattenSeq(ps)
<1>0. N \in Nat /\ DOMAIN B = 1 .. N /\ Table(N) \in Nat
  BY DEF Table, RecordHeaderSize, SectionDescriptorSize
<1>1. l \in Seq(Place) /\ Len(l) = N /\ Count(l) = Count(B)
  <2>1. l = LayoutOf(B, Table(N), 0)
    BY DEF CperLayout, Table
  <2>2. l \in Seq(Place) /\ Len(l) = N
    BY <1>0, <2>1, LayoutFacts
  <2> QED BY <2>2 DEF Count
<1>2. ASSUME NEW i \in 1 .. N
      PROVE  /\ l[i] \in Place /\ B[i] \in Body /\ l[i].body = B[i] /\ l[i].len = BodyLen(B[i])
             /\ l[i].at = c[i - 1] /\ End(l[i]) = c[i] /\ c[i - 1] \in Nat /\ c[i] \in Nat
  <2>1. l = LayoutOf(B, Table(N), 0)
    BY DEF CperLayout, Table
  <2>2. /\ l[i].body = B[i] /\ l[i].len = BodyLen(B[i])
        /\ l[i].at = c[i - 1] + 0 /\ End(l[i]) = c[i] /\ c[i - 1] \in Nat /\ c[i] \in Nat
    BY <1>0, <2>1, LayoutFacts
  <2>3. l[i] \in Place /\ B[i] \in Body
    BY <1>1
  <2> HIDE DEF l, c
  <2> QED BY <2>2, <2>3
<1>3. /\ head \in Seq(Word) /\ Len(head) = RecordHeaderSize
      /\ head[1] = [tag |-> "cper", count |-> Count(l)]
  BY <1>0, <1>1, CountFacts, CperHeadIs
<1>4. CperBytes(B) = w
  BY DEF CperBytes
<1>5. /\ ds \in Seq(Seq(Word)) /\ Len(ds) = N
      /\ \A i \in 1 .. N : Len(ds[i]) = SectionDescriptorSize /\ ds[i][1] = DescriptorOf(l[i])
  <2>1. ASSUME NEW i \in 1 .. N
        PROVE  /\ Descriptor(B[i].kind, l[i].at, l[i].len) \in Seq(Word)
               /\ Len(Descriptor(B[i].kind, l[i].at, l[i].len)) = SectionDescriptorSize
               /\ Descriptor(B[i].kind, l[i].at, l[i].len)[1] = DescriptorOf(l[i])
    <3>1. l[i] \in Place /\ l[i].body.kind = B[i].kind
      BY <1>2
    <3> HIDE DEF l
    <3> QED BY <3>1, DescriptorIs
  <2> HIDE DEF l
  <2> QED BY <1>0, <2>1
<1>6. /\ ps \in Seq(Seq(Word)) /\ Len(ps) = N
      /\ \A i \in 1 .. N : Len(ps[i]) = BodyLen(B[i]) /\ Gives(B[i], ps[i])
  <2>1. ASSUME NEW i \in 1 .. N
        PROVE  /\ Resize(BodyBytes(B[i]), l[i].len) \in Seq(Word)
               /\ Len(Resize(BodyBytes(B[i]), l[i].len)) = BodyLen(B[i])
               /\ Gives(B[i], Resize(BodyBytes(B[i]), l[i].len))
    <3>1. B[i] \in Body /\ l[i].len = BodyLen(B[i])
      BY <1>2
    <3> HIDE DEF l
    <3> QED BY <3>1, ExportGives
  <2> HIDE DEF l
  <2> QED BY <1>0, <2>1
<1> HIDE DEF head, ds, ps, l, c
<1>7. PICK p : IsPlaces(ds, p)
  BY <1>5, PlacesOf
<1>8. PICK q : IsPlaces(ps, q)
  BY <1>6, PlacesOf
<1>9. \A i \in 0 .. N : p[i] = SectionDescriptorSize * i
  <2> HIDE DEF N
  <2> QED BY <1>5, <1>7, DescriptorPlaces
<1>10. \A i \in 0 .. N : c[i] = Table(N) + q[i]
  <2>1. \A i \in 1 .. Len(ps) : Len(ps[i]) = 0 + BodyLen(B[i])
    <3>1. \A i \in 1 .. N : B[i] \in Body /\ BodyLen(B[i]) \in Nat
      BY <1>2, BodyFacts
    <3> QED BY <1>6, <3>1
  <2>2. Table(N) \in Nat /\ 0 \in Nat /\ Len(ps) = Len(B)
    BY <1>0, <1>6
  <2>3. \A i \in 0 .. Len(B) : Cursor(B, Table(N), 0)[i] = Table(N) + q[i]
    BY <1>6, <1>8, <2>1, <2>2, CursorPlaces
  <2> QED BY <2>3 DEF c
<1>11. /\ h \in Seq(Word) /\ Len(h) = Table(N) /\ h[1] = head[1]
       /\ \A i \in 1 .. N : h[Table(i - 1) + 1] = DescriptorOf(l[i])
  <2> DEFINE flat == FlattenSeq(ds)
  <2>1. flat \in Seq(Word)
    BY <1>5, FlattenType
  <2>2. IsCat(Word, head, flat)
    BY <1>3, <2>1, CatIs
  <2>3. Len(flat) = SectionDescriptorSize * N
    <3>1. Len(flat) = p[N] /\ N \in 0 .. N
      BY <1>0, <1>5, <1>7 DEF IsPlaces
    <3> QED BY <1>9, <3>1
  <2>4. h \in Seq(Word) /\ Len(h) = Len(head) + Len(flat) /\ h[1] = head[1]
    <3>1. 1 \in 1 .. Len(head)
      BY <1>3 DEF RecordHeaderSize
    <3> HIDE DEF flat
    <3> QED BY <2>2, <3>1 DEF IsCat, flat
  <2>5. Len(h) = Table(N)
    BY <1>3, <2>3, <2>4 DEF Table
  <2>6. ASSUME NEW i \in 1 .. N PROVE h[Table(i - 1) + 1] = DescriptorOf(l[i])
    <3>1. i \in 1 .. Len(ds) /\ 1 \in 1 .. Len(ds[i]) /\ i - 1 \in 0 .. N /\ i \in 0 .. N
      BY <1>0, <1>5 DEF SectionDescriptorSize
    <3>2. flat[p[i - 1] + 1] = ds[i][1] /\ p[i] = p[i - 1] + Len(ds[i]) /\ p[i] <= Len(flat)
      BY <1>7, <3>1 DEF IsPlaces
    <3>3. p[i - 1] = 18 * (i - 1) /\ Len(ds[i]) = 18 /\ i \in Nat
      BY <1>5, <1>9, <3>1 DEF SectionDescriptorSize
    <3>4. p[i - 1] + 1 \in 1 .. Len(flat) /\ Len(head) = 32
      BY <1>0, <1>3, <2>1, <3>2, <3>3 DEF RecordHeaderSize
    <3>5. h[Len(head) + (p[i - 1] + 1)] = flat[p[i - 1] + 1]
      <4> HIDE DEF flat
      <4> QED BY <2>2, <3>4 DEF IsCat, flat
    <3>6. Len(head) + (p[i - 1] + 1) = Table(i - 1) + 1
      BY <3>3, <3>4 DEF Table, RecordHeaderSize, SectionDescriptorSize
    <3> QED BY <1>5, <3>2, <3>5, <3>6
  <2> QED BY <2>4, <2>5, <2>6
<1> HIDE DEF h
<1>12. IsCat(Word, h, FlattenSeq(ps))
  BY <1>6, <1>11, FlattenType, CatIs
<1>13. w \in Seq(Word) /\ Len(w) >= Table(N) /\ \A k \in 1 .. Table(N) : w[k] = h[k]
  <2> DEFINE flat == FlattenSeq(ps)
  <2> HIDE DEF flat
  <2> QED BY <1>0, <1>11, <1>12 DEF IsCat, flat
<1>14. ASSUME NEW i \in 1 .. N
       PROVE  /\ w[Table(i - 1) + 1] = DescriptorOf(l[i])
              /\ l[i].at >= Table(N)
              /\ End(l[i]) <= Len(w)
              /\ Readable(w, l[i])
  <2>1. Table(i - 1) + 1 \in 1 .. Table(N)
    BY <1>0 DEF Table, RecordHeaderSize, SectionDescriptorSize
  <2>2. i \in 1 .. Len(ps) /\ i - 1 \in 0 .. N /\ i \in 0 .. N
    BY <1>0, <1>6
  <2> DEFINE j == i - 1
  <2>3. /\ q[j] \in Nat /\ q[i] \in Nat
        /\ Table(N) + q[i] <= Len(w)
        /\ SubSeq(w, Table(N) + q[j] + 1, Table(N) + q[i]) = ps[i]
    <3>1. /\ q[j] \in Nat /\ q[i] \in Nat
          /\ Len(h) + q[i] <= Len(w)
          /\ SubSeq(w, Len(h) + q[j] + 1, Len(h) + q[i]) = ps[i]
      <4>1. j = i - 1 /\ ps \in Seq(Seq(Word)) /\ h \in Seq(Word)
        BY <1>6, <1>11
      <4> HIDE DEF j
      <4>2. PieceAt(Word, h, ps, q, i, j)
        BY <1>8, <2>2, <4>1, PieceBehind
      <4> QED BY <4>2 DEF PieceAt
    <3> QED BY <1>11, <3>1
  <2>4. l[i].at = Table(N) + q[j] /\ End(l[i]) = Table(N) + q[i]
    BY <1>2, <1>10, <2>2
  <2>5. Gives(l[i].body, SubSeq(w, l[i].at + 1, End(l[i])))
    BY <1>2, <1>6, <2>3, <2>4
  <2>6. w[Table(i - 1) + 1] = DescriptorOf(l[i])
    BY <1>11, <1>13, <2>1
  <2>7. l[i].at >= Table(N)
    BY <1>0, <2>3, <2>4
  <2>8. End(l[i]) <= Len(w)
    BY <2>3, <2>4
  <2> HIDE DEF w, N
  <2> QED BY <2>5, <2>6, <2>7, <2>8 DEF Readable
<1>15. w[1] = [tag |-> "cper", count |-> Count(l)]
  <2>1. 1 \in 1 .. Table(N)
    BY <1>0 DEF Table, RecordHeaderSize, SectionDescriptorSize
  <2> QED BY <1>3, <1>11, <1>13, <2>1
<1>16. CperOf(w, l, TRUE)
  <2> HIDE DEF w
  <2> QED BY <1>1, <1>13, <1>14, <1>15 DEF CperOf
<1> QED BY <1>1, <1>4, <1>13, <1>16 DEF l

---------------------------------------------------------------------------
(* A BERT: of a whole one every entry reads back; of a cut one the length  *)
(* of the entries is beyond its end.                                       *)

Start(bytes) == StatusBlockSize + IF IsHeader(bytes[1], "berr") THEN 1 ELSE BertSize
From(places, start, i) == IF i = 1 THEN start ELSE End(places[i - 1])
EntryOf(p, rev3) == [tag |-> "entry", kind |-> p.body.kind, rev3 |-> rev3, len |-> p.len]

EntryIs(bytes, places, start, i) ==
    /\ End(places[i]) <= Len(bytes)
    /\ BodyFrom(places[i].body.kind, SubSeq(bytes, places[i].at + 1, End(places[i])))
         = <<places[i].body>>
    /\ \E rev3 \in BOOLEAN :
          /\ places[i].at = From(places, start, i) + EntryHeaderSize(rev3)
          /\ bytes[From(places, start, i) + 1] = EntryOf(places[i], rev3)

EntriesAre(bytes, places, start) ==
    /\ \A i \in 1 .. Len(places) : EntryIs(bytes, places, start, i)
    /\ \A k \in From(places, start, Len(places) + 1) + 1 .. Len(bytes) : bytes[k] = Zero

BertOf(bytes, places, whole) ==
    /\ bytes # << >> => IsHeader(bytes[1], "bert") \/ IsHeader(bytes[1], "berr")
    /\ bytes # << >> /\ Len(bytes) >= Start(bytes) =>
         /\ bytes[Start(bytes) - 1].len \in Nat
         /\ IF whole THEN Start(bytes) + bytes[Start(bytes) - 1].len = Len(bytes)
                     ELSE Start(bytes) + bytes[Start(bytes) - 1].len > Len(bytes)
    /\ whole => /\ bytes # << >> /\ Len(bytes) >= Start(bytes)
                /\ EntriesAre(bytes, places, Start(bytes))

LEMMA StartFacts == \A bytes : Start(bytes) \in Nat /\ Start(bytes) >= 6
BY DEF Start, StatusBlockSize, BertSize

LEMMA FirmwareBert ==
    ASSUME NEW f, f.bytes \in Seq(Word), f.layout \in Seq(Place), IsBertFile(f)
    PROVE  BertOf(f.bytes, f.layout, TRUE)
<1> DEFINE bytes == f.bytes
           places == f.layout
           start == Start(bytes)
<1>1. /\ IsHeader(bytes[1], "bert") \/ IsHeader(bytes[1], "berr")
      /\ Len(bytes) >= start
      /\ bytes[start - 1] = [tag |-> "length", len |-> Len(bytes) - start]
  BY DEF IsBertFile, Start
<1>2. start \in Nat /\ start >= 6 /\ Len(bytes) \in Nat /\ Len(places) \in Nat
  BY StartFacts
<1>3. bytes # << >>
  BY <1>1, <1>2
<1>4. bytes[start - 1].len \in Nat /\ start + bytes[start - 1].len = Len(bytes)
  BY <1>1, <1>2
<1>5. ASSUME NEW i \in 1 .. Len(places) PROVE EntryIs(bytes, places, start, i)
  <2>1. i \in DOMAIN f.layout /\ places[i].body \in Body
    BY PlaceFacts
  <2>2. /\ Holding(bytes, places[i])
        /\ \E rev3 \in BOOLEAN :
              /\ places[i].at = From(places, start, i) + EntryHeaderSize(rev3)
              /\ bytes[From(places, start, i) + 1] = EntryOf(places[i], rev3)
    BY <2>1 DEF IsBertFile, Start, From, EntryOf
  <2>3. BodyFrom(places[i].body.kind, SubSeq(bytes, places[i].at + 1, End(places[i])))
          = <<places[i].body>>
    BY <2>1, <2>2, ReadBack DEF Holding
  <2>4. End(places[i]) <= Len(bytes)
    BY <2>2 DEF Holding
  <2> HIDE DEF bytes, places, start
  <2> QED BY <2>2, <2>3, <2>4 DEF EntryIs
<1>6. \A k \in From(places, start, Len(places) + 1) + 1 .. Len(bytes) : bytes[k] = Zero
  BY DEF IsBertFile, Start, From
<1> HIDE DEF bytes, places
<1>7. EntriesAre(bytes, places, start)
  BY <1>5, <1>6 DEF EntriesAre
<1>8. BertOf(bytes, places, TRUE)
  BY <1>1, <1>3, <1>4, <1>7 DEF BertOf
<1> QED BY <1>8 DEF bytes, places

LEMMA CutBert ==
    ASSUME NEW bytes \in Seq(Word), NEW places \in Seq(Place), BertOf(bytes, places, TRUE),
           NEW n \in 0 .. Len(bytes) - 1
    PROVE  BertOf(SubSeq(bytes, 1, n), places, FALSE)
<1> DEFINE v == SubSeq(bytes, 1, n)
<1>1. v \in Seq(Word) /\ Len(v) = n /\ Len(bytes) \in Nat /\ n < Len(bytes)
      /\ \A k \in 1 .. n : v[k] = bytes[k]
  OBVIOUS
<1>2. v # << >> => v[1] = bytes[1] /\ bytes # << >>
  BY <1>1
<1> HIDE DEF v
<1>3. v # << >> => Start(v) = Start(bytes)
  BY <1>2 DEF Start
<1>4. ASSUME v # << >>, Len(v) >= Start(v)
      PROVE  v[Start(v) - 1].len \in Nat /\ Start(v) + v[Start(v) - 1].len > Len(v)
  <2>1. Start(v) - 1 \in 1 .. n /\ Start(v) \in Nat
    BY <1>1, <1>4, StartFacts
  <2>2. v[Start(v) - 1] = bytes[Start(bytes) - 1]
    BY <1>1, <1>3, <1>4, <2>1
  <2>3. /\ bytes[Start(bytes) - 1].len \in Nat
        /\ Start(bytes) + bytes[Start(bytes) - 1].len = Len(bytes)
    BY DEF BertOf
  <2> QED BY <1>1, <1>3, <1>4, <2>2, <2>3
<1>5. v # << >> => IsHeader(v[1], "bert") \/ IsHeader(v[1], "berr")
  BY <1>2 DEF BertOf
<1>6. BertOf(v, places, FALSE)
  BY <1>4, <1>5 DEF BertOf
<1> QED BY <1>6 DEF v

LEMMA BertTableIs ==
    /\ BertTable \in Seq(Word) /\ Len(BertTable) = 12
    /\ IsHeader(BertTable[1], "bert") /\ ~IsHeader(BertTable[1], "berr")
    /\ ~BertTable[1].sized
<1> DEFINE w == [tag |-> "bert", sized |-> FALSE]
           d == <<w>> \o Zeros(11)
<1>1. w \in Word /\ w \in Header
  BY DEF Word, Header
<1>2. BertTable = d
  <2>1. BertSize - 1 = 11
    BY DEF BertSize
  <2> QED BY <2>1 DEF BertTable
<1>3. 11 \in Nat /\ 11 + 1 = 12
  OBVIOUS
<1>4. d \in Seq(Word) /\ Len(d) = 11 + 1 /\ d[1] = w
  <2> HIDE DEF w
  <2> QED BY <1>1, <1>3, HeaderThenZeros
<1>5. IsHeader(w, "bert") /\ ~IsHeader(w, "berr") /\ ~w.sized
  BY <1>1, ContainerAssumption DEF IsHeader
<1> QED BY <1>2, <1>3, <1>4, <1>5

LEMMA StatusIs ==
    ASSUME NEW len \in Nat
    PROVE  /\ Status(len) \in Seq(Word) /\ Len(Status(len)) = 5
           /\ Status(len)[4] = [tag |-> "length", len |-> len]
<1> DEFINE w == [tag |-> "length", len |-> len]
           d == <<w>> \o Zeros(1)
<1>1. w \in Word
  BY DEF Word, Header
<1> HIDE DEF w
<1>2. d \in Seq(Word) /\ Len(d) = 2 /\ d[1] = w
  <2>1. d \in Seq(Word) /\ Len(d) = 1 + 1 /\ d[1] = w
    <3>1. 1 \in Nat
      OBVIOUS
    <3> QED BY <1>1, <3>1, HeaderThenZeros
  <2> QED BY <2>1
<1>3. Zeros(3) \in Seq(Word) /\ Len(Zeros(3)) = 3 /\ Zeros(1) \in Seq(Word)
  BY ZerosFacts
<1>4. Status(len) = Zeros(3) \o d
  <2>1. <<w>> \in Seq(Word)
    BY <1>1
  <2>2. \A u, v, x \in Seq(Word) : (u \o v) \o x = u \o (v \o x)
    OBVIOUS
  <2> QED BY <1>3, <2>1, <2>2 DEF Status, w
<1> HIDE DEF d
<1> DEFINE z == Zeros(3)
<1> HIDE DEF z
<1>5. IsCat(Word, z, d)
  BY <1>2, <1>3, CatIs DEF z
<1>6. Len(z) = 3 /\ Len(d) = 2 /\ 1 \in 1 .. Len(d)
  BY <1>2, <1>3 DEF z
<1>7. z \o d \in Seq(Word) /\ Len(z \o d) = 5 /\ (z \o d)[Len(z) + 1] = d[1]
  BY <1>5, <1>6 DEF IsCat
<1>8. Len(z) + 1 = 4
  BY <1>6
<1> QED BY <1>2, <1>4, <1>7, <1>8 DEF z, w

LEMMA EntryPiece ==
    ASSUME NEW b \in Body, Sound(b)
    PROVE  LET e == Entry(TRUE, b) IN
           /\ e \in Seq(Word) /\ Len(e) = 18 + BodyLen(b)
           /\ e[1] = [tag |-> "entry", kind |-> b.kind, rev3 |-> TRUE, len |-> BodyLen(b)]
           /\ SubSeq(e, 18 + 1, Len(e)) = FirmwareBytes(b)
<1> DEFINE w == [tag |-> "entry", kind |-> b.kind, rev3 |-> TRUE, len |-> BodyLen(b)]
           d == <<w>> \o Zeros(17)
           e == d \o FirmwareBytes(b)
<1>1. /\ FirmwareBytes(b) \in Seq(Word) /\ Len(FirmwareBytes(b)) = BodyLen(b)
      /\ BodyBytes(b) = FirmwareBytes(b) /\ BodyLen(b) \in Nat /\ b.kind \in Kinds
  BY ReadBack, BodyFacts
<1>2. w \in Word
  BY <1>1 DEF Word, Header
<1>3. Entry(TRUE, b) = e
  <2>1. EntryHeaderSize(TRUE) - 1 = 17
    BY DEF EntryHeaderSize
  <2> QED BY <1>1, <2>1 DEF Entry
<1> HIDE DEF w
<1>4. d \in Seq(Word) /\ Len(d) = 18 /\ d[1] = w
  <2>1. 17 \in Nat /\ 17 + 1 = 18
    OBVIOUS
  <2>2. d \in Seq(Word) /\ Len(d) = 17 + 1 /\ d[1] = w
    BY <1>2, <2>1, HeaderThenZeros
  <2> QED BY <2>1, <2>2
<1> HIDE DEF d
<1>5. IsCat(Word, d, FirmwareBytes(b))
  BY <1>1, <1>4, CatIs
<1>6. e \in Seq(Word) /\ Len(e) = 18 + BodyLen(b) /\ e[1] = d[1]
  <2>1. 1 \in 1 .. Len(d)
    BY <1>4
  <2> QED BY <1>1, <1>4, <1>5, <2>1 DEF IsCat
<1>7. SubSeq(e, Len(d) + 1, Len(e)) = FirmwareBytes(b)
  BY <1>1, <1>4, Behind
<1> HIDE DEF e
<1> QED BY <1>3, <1>4, <1>6, <1>7 DEF w

LEMMA ExportedBert ==
    ASSUME NEW B \in Seq(Body), \A i \in 1 .. Len(B) : Sound(B[i])
    PROVE  /\ BertBytes(B) \in Seq(Word) /\ BertLayout(B) \in Seq(Place)
           /\ BertOf(BertBytes(B), BertLayout(B), TRUE)
           /\ ~BertBytes(B)[1].sized
<1> DEFINE N == Len(B)
           l == BertLayout(B)
           c == Cursor(B, 17, 18)
           es == [i \in DOMAIN B |-> Entry(TRUE, B[i])]
           payload == FlattenSeq(es)
           status == Status(Len(payload))
           head == BertTable \o status
           w == head \o payload
<1>0. N \in Nat /\ DOMAIN B = 1 .. N
  OBVIOUS
<1>1. BertBytes(B) = w
  BY DEF BertBytes
<1>2. l = LayoutOf(B, 17, 18) /\ 17 \in Nat /\ 18 \in Nat
  BY DEF BertLayout, BertSize, StatusBlockSize, EntryHeaderSize
<1>3. l \in Seq(Place) /\ Len(l) = N
  BY <1>2, LayoutFacts
<1>4. ASSUME NEW i \in 1 .. N
      PROVE  /\ l[i] \in Place /\ B[i] \in Body /\ l[i].body = B[i] /\ l[i].len = BodyLen(B[i])
             /\ l[i].at = c[i - 1] + 18 /\ End(l[i]) = c[i] /\ c[i - 1] \in Nat /\ c[i] \in Nat
  <2>1. /\ l[i].body = B[i] /\ l[i].len = BodyLen(B[i])
        /\ l[i].at = c[i - 1] + 18 /\ End(l[i]) = c[i] /\ c[i - 1] \in Nat /\ c[i] \in Nat
    <3> DEFINE k == LayoutOf(B, 17, 18)
    <3>1. /\ k[i].body = B[i] /\ k[i].len = BodyLen(B[i])
          /\ k[i].at = c[i - 1] + 18 /\ End(k[i]) = c[i] /\ c[i - 1] \in Nat /\ c[i] \in Nat
      BY <1>2, LayoutFacts
    <3> HIDE DEF k, l, c
    <3>2. l = k
      BY <1>2 DEF k
    <3> QED BY <3>1, <3>2
  <2>2. l[i] \in Place /\ B[i] \in Body
    BY <1>3
  <2> QED BY <2>1, <2>2
<1>5. c[0] = 17
  BY <1>2, CursorIs
<1>6. ASSUME NEW i \in 1 .. N
      PROVE  /\ es[i] \in Seq(Word) /\ Len(es[i]) = 18 + BodyLen(B[i])
             /\ es[i][1] = EntryOf(l[i], TRUE)
             /\ SubSeq(es[i], 18 + 1, Len(es[i])) = FirmwareBytes(B[i])
  <2>1. B[i] \in Body /\ Sound(B[i]) /\ es[i] = Entry(TRUE, B[i])
    <3>1. i \in DOMAIN B
      BY <1>0
    <3>2. es[i] = Entry(TRUE, B[i])
      BY <3>1
    <3> HIDE DEF es
    <3> QED BY <3>2
  <2> HIDE DEF es
  <2>2. /\ es[i] \in Seq(Word) /\ Len(es[i]) = 18 + BodyLen(B[i])
        /\ es[i][1] = [tag |-> "entry", kind |-> B[i].kind, rev3 |-> TRUE, len |-> BodyLen(B[i])]
        /\ SubSeq(es[i], 18 + 1, Len(es[i])) = FirmwareBytes(B[i])
    BY <2>1, EntryPiece
  <2>3. l[i].body = B[i] /\ l[i].len = BodyLen(B[i])
    BY <1>4
  <2> HIDE DEF l
  <2> QED BY <2>2, <2>3 DEF EntryOf
<1>7. es \in Seq(Seq(Word)) /\ Len(es) = N
  <2>1. es = [i \in 1 .. N |-> es[i]]
    BY <1>0
  <2>2. \A i \in 1 .. N : es[i] \in Seq(Word)
    BY <1>6
  <2> HIDE DEF es
  <2> QED BY <1>0, <2>1, <2>2
<1> HIDE DEF l, c, es
<1>8. payload \in Seq(Word) /\ Len(payload) \in Nat
  BY <1>7, FlattenType
<1> HIDE DEF payload
<1>9. status \in Seq(Word) /\ Len(status) = 5 /\ status[4] = [tag |-> "length", len |-> Len(payload)]
  BY <1>8, StatusIs
<1> HIDE DEF status
<1>10. /\ head \in Seq(Word) /\ Len(head) = 17 /\ head[1] = BertTable[1]
       /\ head[16] = [tag |-> "length", len |-> Len(payload)]
  <2>1. IsCat(Word, BertTable, status)
    BY <1>9, BertTableIs, CatIs
  <2>2. Len(BertTable) = 12 /\ 1 \in 1 .. Len(BertTable) /\ 4 \in 1 .. Len(status)
    BY <1>9, BertTableIs
  <2>3. head \in Seq(Word) /\ Len(head) = 17 /\ head[1] = BertTable[1]
    BY <1>9, <2>1, <2>2 DEF IsCat
  <2>4. head[Len(BertTable) + 4] = status[4]
    BY <2>1, <2>2 DEF IsCat
  <2>5. Len(BertTable) + 4 = 16
    BY <2>2
  <2> QED BY <1>9, <2>3, <2>4, <2>5
<1> HIDE DEF head
<1>11. IsCat(Word, head, payload)
  BY <1>8, <1>10, CatIs
<1>12. /\ w \in Seq(Word) /\ Len(w) = 17 + Len(payload) /\ w # << >>
       /\ \A k \in 1 .. 17 : w[k] = head[k]
       /\ \A k \in 1 .. Len(payload) : w[17 + k] = payload[k]
  <2>1. w \in Seq(Word) /\ Len(w) = 17 + Len(payload)
    BY <1>10, <1>11 DEF IsCat
  <2>2. \A k \in 1 .. 17 : w[k] = head[k]
    BY <1>10, <1>11 DEF IsCat
  <2>3. \A k \in 1 .. Len(payload) : w[17 + k] = payload[k]
    BY <1>10, <1>11 DEF IsCat
  <2>4. w # << >>
    BY <1>8, <2>1
  <2> QED BY <2>1, <2>2, <2>3, <2>4
<1>13. IsHeader(w[1], "bert") /\ Start(w) = 17 /\ ~w[1].sized
  <2>1. w[1] = BertTable[1]
    BY <1>10, <1>12
  <2> HIDE DEF w
  <2> QED BY <2>1, BertTableIs DEF Start, StatusBlockSize, BertSize
<1>14. w[17 - 1] = [tag |-> "length", len |-> Len(payload)]
  <2>1. 17 - 1 = 16 /\ 16 \in 1 .. 17
    OBVIOUS
  <2>2. w[16] = head[16]
    BY <1>12, <2>1
  <2> QED BY <1>10, <2>1, <2>2
<1>15. PICK p : IsPlaces(es, p)
  BY <1>7, PlacesOf
<1>16. \A i \in 0 .. N : c[i] = 17 + p[i]
  <2>1. \A i \in 1 .. Len(es) : Len(es[i]) = 18 + BodyLen(B[i])
    BY <1>6, <1>7
  <2>2. Len(es) = Len(B)
    BY <1>7
  <2>3. \A i \in 0 .. Len(B) : Cursor(B, 17, 18)[i] = 17 + p[i]
    BY <1>2, <1>7, <1>15, <2>1, <2>2, CursorPlaces
  <2> QED BY <2>3 DEF c
<1>17. ASSUME NEW i \in 1 .. N + 1 PROVE From(l, 17, i) = c[i - 1]
  <2>1. CASE i = 1
    BY <1>5, <2>1 DEF From
  <2>2. CASE i # 1
    <3>1. i - 1 \in 1 .. N
      BY <1>0, <2>2
    <3>2. End(l[i - 1]) = c[i - 1]
      BY <1>4, <3>1
    <3> QED BY <2>2, <3>2 DEF From
  <2> QED BY <2>1, <2>2
<1>18. ASSUME NEW i \in 1 .. N PROVE EntryIs(w, l, 17, i)
  <2> DEFINE j == i - 1
             x == c[j]
             e == c[i]
  <2>1. i \in 1 .. Len(es) /\ i \in 0 .. N /\ j \in 0 .. N /\ i \in 1 .. N + 1 /\ j = i - 1
    BY <1>0, <1>7
  <2> HIDE DEF j
  <2>2. PieceAt(Word, head, es, p, i, j)
    BY <1>7, <1>10, <1>15, <2>1, PieceBehind
  <2>3. /\ p[j] \in Nat /\ p[i] \in Nat /\ p[i] = p[j] + Len(es[i])
        /\ Len(head) + p[i] <= Len(w)
        /\ SubSeq(w, Len(head) + p[j] + 1, Len(head) + p[i]) = es[i]
    BY <2>2 DEF PieceAt, payload
  <2>4. x = 17 + p[j] /\ e = 17 + p[i]
    BY <1>16, <2>1
  <2> HIDE DEF x, e, w
  <2>5. /\ x \in Nat /\ e \in Nat /\ e <= Len(w) /\ e = x + Len(es[i])
        /\ SubSeq(w, x + 1, e) = es[i]
    <3>1. /\ Len(head) + p[j] = x /\ Len(head) + p[i] = e /\ x \in Nat /\ e \in Nat
          /\ e = x + Len(es[i])
      <4>1. Len(es[i]) \in Nat
        BY <2>1, <1>7
      <4> DEFINE m == Len(es[i])
                 a == p[j]
                 b == p[i]
      <4>2. m \in Nat /\ a \in Nat /\ b = a + m /\ x = 17 + a /\ e = 17 + b /\ Len(head) = 17
        BY <1>10, <2>3, <2>4, <4>1
      <4> HIDE DEF m, a, b
      <4>3. Len(head) + a = x /\ Len(head) + b = e /\ x \in Nat /\ e \in Nat /\ e = x + m
        BY <4>2
      <4> QED BY <4>3 DEF m, a, b
    <3> QED BY <2>3, <3>1
  <2>6. /\ es[i] \in Seq(Word) /\ Len(es[i]) = 18 + BodyLen(B[i])
        /\ es[i][1] = EntryOf(l[i], TRUE)
        /\ SubSeq(es[i], 18 + 1, Len(es[i])) = FirmwareBytes(B[i])
    BY <1>6
  <2>7. /\ l[i].body = B[i] /\ B[i] \in Body /\ BodyLen(B[i]) \in Nat
        /\ l[i].at = x + 18 /\ End(l[i]) = e /\ From(l, 17, i) = x
    <3>1. l[i].body = B[i] /\ B[i] \in Body /\ l[i].at = c[i - 1] + 18 /\ End(l[i]) = c[i]
      BY <1>4
    <3>2. From(l, 17, i) = c[i - 1]
      BY <1>17, <2>1
    <3>3. BodyLen(B[i]) \in Nat
      BY <3>1, BodyFacts
    <3> QED BY <3>1, <3>2, <3>3 DEF x, e, j
  <2> DEFINE m == Len(es[i])
  <2>12. m \in Nat /\ m >= 18
    BY <2>6, <2>7
  <2> HIDE DEF m
  <2>13. x \in Nat /\ e \in Nat /\ e <= Len(w) /\ e = x + m
    BY <2>5 DEF m
  <2>8. SubSeq(w, x + 18 + 1, e) = FirmwareBytes(B[i])
    <3> DEFINE y == x + 18
    <3>0. y = x + 18
      OBVIOUS
    <3> HIDE DEF y
    <3>1. y \in Nat /\ x <= y /\ y <= e /\ y - x = 18 /\ e - x = m
      BY <2>12, <2>13, <3>0
    <3>2. SubSeq(w, y + 1, e) = SubSeq(SubSeq(w, x + 1, e), y - x + 1, e - x)
      <4>1. w \in Seq(Word)
        BY <1>12 DEF w
      <4>2. x \in Nat /\ y \in Nat /\ e \in Nat /\ x <= y /\ y <= e /\ e <= Len(w)
        BY <2>13, <3>1
      <4> QED BY <4>1, <4>2, PartOfPart
    <3>3. SubSeq(w, y + 1, e) = FirmwareBytes(B[i])
      BY <2>5, <2>6, <3>1, <3>2 DEF m
    <3> QED BY <3>3 DEF y
  <2>9. w[x + 1] = EntryOf(l[i], TRUE)
    <3>1. x <= e /\ 1 \in 1 .. e - x
      BY <2>12, <2>13
    <3>2. IsPart(Word, w, x, e, SubSeq(w, x + 1, e))
      <4>1. w \in Seq(Word)
        BY <1>12 DEF w
      <4> QED BY <2>13, <3>1, <4>1, PartIs
    <3>3. SubSeq(w, x + 1, e)[1] = w[x + 1]
      BY <3>1, <3>2 DEF IsPart
    <3> QED BY <2>5, <2>6, <3>3
  <2>10. BodyFrom(l[i].body.kind, SubSeq(w, l[i].at + 1, End(l[i]))) = <<l[i].body>>
    BY <2>7, <2>8, ReadBack
  <2>11. l[i].at = From(l, 17, i) + EntryHeaderSize(TRUE)
    BY <2>7 DEF EntryHeaderSize
  <2> QED BY <2>5, <2>7, <2>9, <2>10, <2>11 DEF EntryIs
<1>19. \A k \in From(l, 17, Len(l) + 1) + 1 .. Len(w) : w[k] = Zero
  <2>1. N + 1 \in 1 .. N + 1 /\ N + 1 - 1 = N /\ N \in 0 .. N
    BY <1>0
  <2>2. From(l, 17, Len(l) + 1) = c[N]
    BY <1>3, <1>17, <2>1
  <2>3. c[N] = 17 + p[N] /\ p[N] = Len(payload)
    BY <1>7, <1>15, <1>16, <2>1 DEF IsPlaces, payload
  <2>4. Len(w) = 17 + Len(payload) /\ Len(payload) \in Nat
    BY <1>8, <1>12
  <2> HIDE DEF w, l, c, payload
  <2>5. From(l, 17, Len(l) + 1) = Len(w) /\ Len(w) \in Nat
    BY <2>2, <2>3, <2>4
  <2>6. \A n \in Nat : n + 1 .. n = {}
    OBVIOUS
  <2> QED BY <2>5, <2>6
<1>20. EntriesAre(w, l, 17)
  <2> HIDE DEF w
  <2> QED BY <1>3, <1>18, <1>19 DEF EntriesAre
<1>21. BertOf(w, l, TRUE)
  <2>1. w # << >> /\ Len(w) = 17 + Len(payload) /\ Len(payload) \in Nat
    BY <1>8, <1>12
  <2> HIDE DEF w
  <2> QED BY <1>13, <1>14, <1>20, <2>1 DEF BertOf
<1> QED BY <1>1, <1>3, <1>12, <1>13, <1>21 DEF l

---------------------------------------------------------------------------
(* Regions in the bytes of a section. *)

Region == Seq(Records) \ {<< >>}

Begins(r, o) == Len(r) <= Len(o) /\ \A i \in 1 .. Len(r) : r[i] = o[i]

LEMMA PrefixIs ==
    ASSUME NEW S, NEW r \in Seq(S), NEW o \in Seq(S)
    PROVE  IsPrefix(r, o) <=> Begins(r, o)
<1>1. Len(r) \in Nat /\ Len(o) \in Nat
  OBVIOUS
<1>2. ASSUME Len(r) <= Len(o)
      PROVE  /\ SubSeq(r, 1, Len(r)) = r
             /\ SubSeq(o, 1, Len(r)) \in Seq(S) /\ Len(SubSeq(o, 1, Len(r))) = Len(r)
             /\ \A i \in 1 .. Len(r) : SubSeq(o, 1, Len(r))[i] = o[i]
  BY <1>1, <1>2
<1>3. ASSUME IsPrefix(r, o) PROVE Begins(r, o)
  <2>1. Len(r) <= Len(o) /\ SubSeq(r, 1, Len(r)) = SubSeq(o, 1, Len(r))
    BY <1>3 DEF IsPrefix
  <2> QED BY <1>2, <2>1 DEF Begins
<1>4. ASSUME Begins(r, o) PROVE IsPrefix(r, o)
  <2>1. Len(r) <= Len(o) /\ \A i \in 1 .. Len(r) : r[i] = o[i]
    BY <1>4 DEF Begins
  <2> DEFINE v == SubSeq(o, 1, Len(r))
  <2>2. v \in Seq(S) /\ Len(v) = Len(r) /\ \A i \in 1 .. Len(r) : v[i] = r[i]
    BY <1>2, <2>1
  <2> HIDE DEF v
  <2>3. v = r
    BY <2>2
  <2> QED BY <1>2, <2>1, <2>3 DEF IsPrefix, v
<1> QED BY <1>3, <1>4

Run(s, n) ==
    /\ \A i \in 1 .. n : s[i] \in Records
    /\ n < Len(s) => s[n + 1] \notin Records

LEMMA RunOf ==
    ASSUME NEW s \in Seq(Word)
    PROVE  \E n \in 0 .. Len(s) : Run(s, n)
<1> DEFINE T == {k \in 1 .. Len(s) + 1 : k = Len(s) + 1 \/ s[k] \notin Records}
<1>1. Len(s) \in Nat /\ T \in SUBSET Nat /\ Len(s) + 1 \in T
  OBVIOUS
<1>2. PICK k \in T : \A m \in T : k <= m
  <2> HIDE DEF T
  <2> QED BY <1>1, LeastOf
<1>3. k \in 1 .. Len(s) + 1 /\ (k = Len(s) + 1 \/ s[k] \notin Records)
  OBVIOUS
<1> DEFINE n == k - 1
<1>4. n \in 0 .. Len(s) /\ n + 1 = k
  BY <1>1, <1>3
<1>5. ASSUME NEW i \in 1 .. n PROVE s[i] \in Records
  <2>1. i \in 1 .. Len(s) + 1 /\ ~(k <= i)
    BY <1>1, <1>3
  <2>2. i \notin T
    BY <1>2, <2>1
  <2> QED BY <2>1, <2>2
<1>6. n < Len(s) => s[n + 1] \notin Records
  BY <1>1, <1>3, <1>4
<1> QED BY <1>4, <1>5, <1>6 DEF Run

LEMMA RunUnique ==
    ASSUME NEW s \in Seq(Word), NEW n \in 0 .. Len(s), NEW m \in 0 .. Len(s), Run(s, n), Run(s, m)
    PROVE  n = m
<1>1. Len(s) \in Nat
  OBVIOUS
<1>2. ASSUME NEW a \in 0 .. Len(s), NEW b \in 0 .. Len(s), Run(s, a), Run(s, b), a < b PROVE FALSE
  <2>1. a < Len(s) /\ a + 1 \in 1 .. b
    BY <1>1, <1>2
  <2> QED BY <1>2, <2>1 DEF Run
<1>3. ~(n < m) /\ ~(m < n)
  BY <1>2
<1> QED BY <1>3

LEMMA RegionRun ==
    ASSUME NEW s \in Seq(Word), NEW n \in 0 .. Len(s), Run(s, n)
    PROVE  RegionOf(s) = SubSeq(s, 1, n)
<1> DEFINE m == CHOOSE k \in 0 .. Len(s) : Run(s, k)
<1>1. m \in 0 .. Len(s) /\ Run(s, m)
  OBVIOUS
<1>2. RegionOf(s) = SubSeq(s, 1, m)
  BY DEF RegionOf, Run
<1> HIDE DEF m
<1>3. m = n
  BY <1>1, RunUnique
<1> QED BY <1>2, <1>3

LEMMA RegionFacts ==
    ASSUME NEW s \in Seq(Word)
    PROVE  /\ RegionOf(s) \in Seq(Records) /\ Begins(RegionOf(s), s)
           /\ s # << >> /\ s[1] \notin Records => RegionOf(s) = << >>
           /\ s = << >> => RegionOf(s) = << >>
<1>1. PICK n \in 0 .. Len(s) : Run(s, n)
  BY RunOf
<1>2. RegionOf(s) = SubSeq(s, 1, n)
  BY <1>1, RegionRun
<1>3. \A i \in 1 .. n : s[i] \in Records
  BY <1>1 DEF Run
<1>4. /\ Len(SubSeq(s, 1, n)) = n /\ SubSeq(s, 1, n) \in Seq(Records)
      /\ \A i \in 1 .. n : SubSeq(s, 1, n)[i] = s[i]
  BY <1>3
<1>5. n = 0 => SubSeq(s, 1, n) = << >>
  OBVIOUS
<1>6. s # << >> /\ s[1] \notin Records => n = 0
  BY <1>3
<1>7. s = << >> => n = 0
  OBVIOUS
<1> QED BY <1>2, <1>4, <1>5, <1>6, <1>7 DEF Begins

LEMMA RegionOfRecords ==
    ASSUME NEW s \in Seq(Records)
    PROVE  RegionOf(s) = s /\ s \in Seq(Word)
<1>1. Records \subseteq Word
  BY DEF Word, Plain
<1>2. s \in Seq(Word) /\ Len(s) \in 0 .. Len(s) /\ \A i \in 1 .. Len(s) : s[i] \in Records
  BY <1>1
<1>3. Run(s, Len(s))
  BY <1>2 DEF Run
<1>4. SubSeq(s, 1, Len(s)) = s
  OBVIOUS
<1> QED BY <1>2, <1>3, <1>4, RegionRun

LEMMA RegionOfCut ==
    ASSUME NEW s \in Seq(Word), NEW n \in 0 .. Len(s)
    PROVE  Begins(RegionOf(SubSeq(s, 1, n)), RegionOf(s))
<1> DEFINE v == SubSeq(s, 1, n)
<1>1. v \in Seq(Word) /\ Len(v) = n /\ (\A i \in 1 .. n : v[i] = s[i]) /\ Len(s) \in Nat
  OBVIOUS
<1> HIDE DEF v
<1>2. PICK m \in 0 .. Len(s) : Run(s, m)
  BY RunOf
<1>3. RegionOf(s) = SubSeq(s, 1, m)
  BY <1>2, RegionRun
<1> DEFINE k == IF m <= n THEN m ELSE n
<1>4. k \in 0 .. Len(v) /\ k <= m /\ k \in Nat
  BY <1>1
<1>5. Run(v, k)
  <2>1. ASSUME NEW i \in 1 .. k PROVE v[i] \in Records
    <3>1. i \in 1 .. m /\ i \in 1 .. n
      BY <1>1
    <3>2. v[i] = s[i] /\ s[i] \in Records
      BY <1>1, <1>2, <3>1 DEF Run
    <3> QED BY <3>2
  <2>2. ASSUME k < Len(v) PROVE v[k + 1] \notin Records
    <3>1. k = m /\ k + 1 \in 1 .. n /\ m < Len(s)
      BY <1>1, <2>2
    <3>2. s[m + 1] \notin Records
      BY <1>2, <3>1 DEF Run
    <3> QED BY <1>1, <3>1, <3>2
  <2> HIDE DEF k
  <2> QED BY <2>1, <2>2 DEF Run
<1> HIDE DEF k
<1>6. RegionOf(v) = SubSeq(v, 1, k)
  BY <1>1, <1>4, <1>5, RegionRun
<1>7. /\ Len(SubSeq(v, 1, k)) = k /\ Len(SubSeq(s, 1, m)) = m
      /\ \A i \in 1 .. k : SubSeq(v, 1, k)[i] = v[i]
      /\ \A i \in 1 .. m : SubSeq(s, 1, m)[i] = s[i]
  BY <1>1, <1>4
<1>8. \A i \in 1 .. k : SubSeq(v, 1, k)[i] = SubSeq(s, 1, m)[i]
  <2> SUFFICES ASSUME NEW i \in 1 .. k PROVE SubSeq(v, 1, k)[i] = SubSeq(s, 1, m)[i]
    OBVIOUS
  <2>1. i \in 1 .. m /\ i \in 1 .. n
    BY <1>1, <1>4
  <2> QED BY <1>1, <1>7, <2>1
<1>9. Begins(RegionOf(v), RegionOf(s))
  BY <1>3, <1>4, <1>6, <1>7, <1>8 DEF Begins
<1> QED BY <1>9 DEF v

LEMMA RegionInFacts ==
    ASSUME NEW b \in Body
    PROVE  /\ RegionIn(b) \in Seq(Region)
           /\ RegionIn(b) = << >> \/ RegionIn(b) = <<RegionOf(b.data)>>
           /\ ~Sound(b) => RegionIn(b) = << >>
<1>1. RegionOf(b.data) \in Seq(Records)
  BY BodyFacts, RegionFacts
<1>2. ~Sound(b) => b.kind = "fer" /\ b.guid = Zero
  BY BodyFacts DEF Sound
<1>3. CASE b.kind = "fer" /\ b.guid = CrashlogId /\ RegionOf(b.data) # << >>
  <2>1. RegionIn(b) = <<RegionOf(b.data)>>
    BY <1>3 DEF RegionIn, Only
  <2>2. RegionOf(b.data) \in Region
    BY <1>1, <1>3 DEF Region
  <2> DEFINE r == RegionOf(b.data)
  <2> HIDE DEF r
  <2>3. <<r>> \in Seq(Region)
    BY <2>2 DEF r
  <2> QED BY <1>2, <1>3, <2>1, <2>3, ContainerAssumption DEF r
<1>4. CASE ~(b.kind = "fer" /\ b.guid = CrashlogId /\ RegionOf(b.data) # << >>)
  <2>1. RegionIn(b) = << >>
    BY <1>4 DEF RegionIn, Only
  <2> QED BY <2>1
<1> QED BY <1>3, <1>4

LEMMA FerOfRegionFacts ==
    ASSUME NEW r \in Region
    PROVE  FerOfRegion(r) \in Body /\ Sound(FerOfRegion(r)) /\ RegionIn(FerOfRegion(r)) = <<r>>
<1>1. r \in Seq(Records) /\ r # << >>
  BY DEF Region
<1>2. RegionOf(r) = r /\ r \in Seq(Word)
  BY <1>1, RegionOfRecords
<1>3. CrashlogId \in Word
  BY DEF Word, Plain
<1>4. FerOfRegion(r) \in Body
  BY <1>2, <1>3, BodyTypes DEF FerOfRegion
<1>5. RegionIn(FerOfRegion(r)) = <<r>>
  BY <1>1, <1>2 DEF RegionIn, FerOfRegion, Fer, Only
<1>6. Sound(FerOfRegion(r))
  BY DEF Sound, FerOfRegion, Fer
<1> QED BY <1>4, <1>5, <1>6

---------------------------------------------------------------------------
(* The regions and the other sections of bodies. *)

Outer(bodies) == UNION {ToSet(RegionIn(b)) : b \in bodies}
Members(s, set) == \A x : x \in ToSet(s) <=> x \in set

LEMMA FlattenOf ==
    ASSUME NEW S, NEW N \in Nat, NEW s \in [1 .. N -> Seq(S)]
    PROVE  FlattenSeq(s) \in Seq(S) /\ ToSet(FlattenSeq(s)) = UNION {ToSet(s[i]) : i \in 1 .. N}
<1>1. s \in Seq(Seq(S)) /\ Len(s) = N
  OBVIOUS
<1> QED BY <1>1, FlattenType, FlattenMembers

LEMMA OnlySet ==
    ASSUME NEW S, NEW x \in S, NEW yes \in BOOLEAN
    PROVE  Only(x, yes) \in Seq(S) /\ ToSet(Only(x, yes)) = IF yes THEN {x} ELSE {}
<1>1. ToSet(<<x>>) = {x} /\ <<x>> \in Seq(S)
  BY DEF ToSet
<1>2. ToSet(<< >>) = {} /\ << >> \in Seq(S)
  BY DEF ToSet
<1>3. CASE yes
  <2>1. Only(x, yes) = <<x>>
    BY <1>3 DEF Only
  <2> QED BY <1>1, <1>3, <2>1, Zenon
<1>4. CASE ~yes
  <2>1. Only(x, yes) = << >>
    BY <1>4 DEF Only
  <2> QED BY <1>2, <1>4, <2>1, Zenon
<1> QED BY <1>3, <1>4

IsChosen(s, yes, c) == c = [i \in 1 .. Len(s) |-> Only(s[i], yes[i])]

LEMMA Chosen ==
    ASSUME NEW S, NEW s \in Seq(S), NEW yes \in [1 .. Len(s) -> BOOLEAN], NEW c,
           IsChosen(s, yes, c)
    PROVE  /\ FlattenSeq(c) \in Seq(S)
           /\ \A x : x \in ToSet(FlattenSeq(c)) <=> \E i \in 1 .. Len(s) : x = s[i] /\ yes[i]
<1>1. Len(s) \in Nat /\ \A i \in 1 .. Len(s) : s[i] \in S /\ yes[i] \in BOOLEAN
  OBVIOUS
<1>2. \A i \in 1 .. Len(s) :
         c[i] = Only(s[i], yes[i]) /\ c[i] \in Seq(S) /\ ToSet(c[i]) = IF yes[i] THEN {s[i]} ELSE {}
  BY <1>1, OnlySet DEF IsChosen
<1>3. c \in [1 .. Len(s) -> Seq(S)]
  BY <1>2 DEF IsChosen
<1>4. /\ FlattenSeq(c) \in Seq(S)
      /\ ToSet(FlattenSeq(c)) = UNION {ToSet(c[i]) : i \in 1 .. Len(s)}
  <2>1. Len(s) \in Nat
    BY <1>1
  <2> QED BY <1>3, <2>1, FlattenOf
<1>5. \A x : x \in UNION {ToSet(c[i]) : i \in 1 .. Len(s)}
              <=> \E i \in 1 .. Len(s) : x = s[i] /\ yes[i]
  BY <1>2
<1> QED BY <1>4, <1>5

LEMMA SoundSet ==
    ASSUME NEW s \in Seq(Body)
    PROVE  SoundOnes(s) \in Seq(Body) /\ ToSet(SoundOnes(s)) = {b \in ToSet(s) : Sound(b)}
<1> DEFINE yes == [i \in 1 .. Len(s) |-> Sound(s[i])]
           c == [i \in 1 .. Len(s) |-> Only(s[i], yes[i])]
<1>1. yes \in [1 .. Len(s) -> BOOLEAN] /\ IsChosen(s, yes, c)
  BY DEF Sound, IsChosen
<1>2. SoundOnes(s) = FlattenSeq(c)
  <2>1. DOMAIN s = 1 .. Len(s)
    OBVIOUS
  <2>2. [i \in DOMAIN s |-> Only(s[i], Sound(s[i]))] = c
    BY <2>1
  <2> QED BY <2>2 DEF SoundOnes
<1>3. \A i \in 1 .. Len(s) : yes[i] = Sound(s[i])
  OBVIOUS
<1> HIDE DEF yes, c
<1>4. /\ FlattenSeq(c) \in Seq(Body)
      /\ \A x : x \in ToSet(FlattenSeq(c)) <=> \E i \in 1 .. Len(s) : x = s[i] /\ yes[i]
  BY <1>1, Chosen
<1>5. \A x : x \in ToSet(s) <=> \E i \in 1 .. Len(s) : x = s[i]
  BY DEF ToSet
<1>6. ToSet(FlattenSeq(c)) = {b \in ToSet(s) : Sound(b)}
  BY <1>3, <1>4, <1>5
<1> QED BY <1>2, <1>4, <1>6

LEMMA OtherSet ==
    ASSUME NEW s \in Seq(Body)
    PROVE  /\ OtherSections(s) \in Seq(Body)
           /\ ToSet(OtherSections(s)) = {b \in ToSet(s) : RegionIn(b) = << >>}
<1> DEFINE yes == [i \in 1 .. Len(s) |-> RegionIn(s[i]) = << >>]
           c == [i \in 1 .. Len(s) |-> Only(s[i], yes[i])]
<1>1. yes \in [1 .. Len(s) -> BOOLEAN] /\ IsChosen(s, yes, c)
  BY DEF IsChosen
<1>2. OtherSections(s) = FlattenSeq(c)
  <2>1. DOMAIN s = 1 .. Len(s)
    OBVIOUS
  <2>2. [i \in DOMAIN s |-> Only(s[i], RegionIn(s[i]) = << >>)] = c
    BY <2>1
  <2> QED BY <2>2 DEF OtherSections
<1>3. \A i \in 1 .. Len(s) : yes[i] <=> RegionIn(s[i]) = << >>
  OBVIOUS
<1> HIDE DEF yes, c
<1>4. /\ FlattenSeq(c) \in Seq(Body)
      /\ \A x : x \in ToSet(FlattenSeq(c)) <=> \E i \in 1 .. Len(s) : x = s[i] /\ yes[i]
  BY <1>1, Chosen
<1>5. \A x : x \in ToSet(s) <=> \E i \in 1 .. Len(s) : x = s[i]
  BY DEF ToSet
<1>6. ToSet(FlattenSeq(c)) = {b \in ToSet(s) : RegionIn(b) = << >>}
  <2>1. \A x : x \in ToSet(FlattenSeq(c))
               <=> \E i \in 1 .. Len(s) : x = s[i] /\ RegionIn(s[i]) = << >>
    BY <1>3, <1>4, Zenon
  <2>2. \A x : x \in ToSet(FlattenSeq(c)) <=> x \in ToSet(s) /\ RegionIn(x) = << >>
    BY <1>5, <2>1, Zenon
  <2> QED BY <2>2
<1> QED BY <1>2, <1>4, <1>6

LEMMA RegionSet ==
    ASSUME NEW s \in Seq(Body)
    PROVE  RegionsOf(s) \in Seq(Region) /\ ToSet(RegionsOf(s)) = Outer(ToSet(s))
<1> DEFINE c == [i \in 1 .. Len(s) |-> RegionIn(s[i])]
<1>1. RegionsOf(s) = FlattenSeq(c)
  <2>1. DOMAIN s = 1 .. Len(s)
    OBVIOUS
  <2>2. [i \in DOMAIN s |-> RegionIn(s[i])] = c
    BY <2>1
  <2> QED BY <2>2 DEF RegionsOf
<1>2. Len(s) \in Nat /\ \A i \in 1 .. Len(s) : RegionIn(s[i]) \in Seq(Region)
  BY RegionInFacts
<1>3. c \in [1 .. Len(s) -> Seq(Region)] /\ \A i \in 1 .. Len(s) : c[i] = RegionIn(s[i])
  BY <1>2
<1> HIDE DEF c
<1>4. /\ FlattenSeq(c) \in Seq(Region)
      /\ ToSet(FlattenSeq(c)) = UNION {ToSet(c[i]) : i \in 1 .. Len(s)}
  BY <1>2, <1>3, FlattenOf
<1>5. \A x : x \in ToSet(s) <=> \E i \in 1 .. Len(s) : x = s[i]
  BY DEF ToSet
<1>6. UNION {ToSet(c[i]) : i \in 1 .. Len(s)} = UNION {ToSet(RegionIn(b)) : b \in ToSet(s)}
  BY <1>3, <1>5
<1> QED BY <1>1, <1>4, <1>6 DEF Outer

LEMMA InBoxesSet ==
    ASSUME NEW r \in Seq(Records)
    PROVE  InBoxes(r) \in Seq(Region) /\ ToSet(InBoxes(r)) = {Inside[x] : x \in ToSet(r)} \ {<< >>}
<1> DEFINE q == Reverse(r)
           c == [k \in 1 .. Len(r) |-> Only(Inside[q[k]], Inside[q[k]] # << >>)]
<1>1. Len(r) \in Nat /\ q = [k \in 1 .. Len(r) |-> r[(Len(r) - k) + 1]]
  BY DEF Reverse
<1>2. InBoxes(r) = FlattenSeq(c)
  <2>1. DOMAIN r = 1 .. Len(r)
    OBVIOUS
  <2>2. [k \in DOMAIN r |-> Only(Inside[Reverse(r)[k]], Inside[Reverse(r)[k]] # << >>)] = c
    BY <2>1
  <2> QED BY <2>2 DEF InBoxes
<1>3. \A k \in 1 .. Len(r) : (Len(r) - k) + 1 \in 1 .. Len(r) /\ q[k] = r[(Len(r) - k) + 1]
  BY <1>1
<1>4. \A k \in 1 .. Len(r) : (Len(r) - ((Len(r) - k) + 1)) + 1 = k
  BY <1>1
<1> HIDE DEF q
<1>5. \A x : x \in ToSet(r) <=> \E k \in 1 .. Len(r) : x = q[k]
  <2>1. \A x : x \in ToSet(r) <=> \E k \in 1 .. Len(r) : r[k] = x
    BY DEF ToSet
  <2>2. ASSUME NEW k \in 1 .. Len(r) PROVE \E j \in 1 .. Len(r) : q[j] = r[k]
    <3> DEFINE j == (Len(r) - k) + 1
    <3>1. j \in 1 .. Len(r) /\ (Len(r) - j) + 1 = k
      BY <1>3, <1>4
    <3> HIDE DEF j
    <3>2. q[j] = r[(Len(r) - j) + 1]
      BY <1>3, <3>1
    <3> QED BY <3>1, <3>2
  <2>3. \A k \in 1 .. Len(r) : \E j \in 1 .. Len(r) : r[j] = q[k]
    BY <1>3
  <2>4. ASSUME NEW x \in ToSet(r) PROVE \E k \in 1 .. Len(r) : x = q[k]
    BY <2>1, <2>2, <2>4, Zenon
  <2>5. ASSUME NEW k \in 1 .. Len(r) PROVE q[k] \in ToSet(r)
    BY <2>1, <2>3, Zenon
  <2> QED BY <2>4, <2>5, Zenon
<1>6. \A k \in 1 .. Len(r) : q[k] \in Records
  BY <1>3
<1>7. ASSUME NEW k \in 1 .. Len(r)
      PROVE  /\ c[k] \in Seq(Region)
             /\ ToSet(c[k]) = {Inside[q[k]]} \ {<< >>}
  <2> DEFINE x == Inside[q[k]]
  <2>1. x \in Seq(Records)
    BY <1>6, ContainerAssumption
  <2> HIDE DEF x
  <2>2. c[k] = Only(x, x # << >>)
    BY DEF x
  <2>3. CASE x = << >>
    <3>1. c[k] = << >>
      BY <2>2, <2>3 DEF Only
    <3>2. ToSet(<< >>) = {} /\ << >> \in Seq(Region)
      BY DEF ToSet
    <3> QED BY <2>3, <3>1, <3>2 DEF x
  <2>4. CASE x # << >>
    <3>1. x \in Region /\ c[k] = Only(x, TRUE)
      BY <2>1, <2>2, <2>4 DEF Region
    <3>2. c[k] \in Seq(Region) /\ ToSet(c[k]) = {x}
      BY <3>1, OnlySet
    <3> QED BY <2>4, <3>2 DEF x
  <2> QED BY <2>3, <2>4
<1>8. c \in [1 .. Len(r) -> Seq(Region)]
  BY <1>7
<1> HIDE DEF c
<1>9. /\ FlattenSeq(c) \in Seq(Region)
      /\ ToSet(FlattenSeq(c)) = UNION {ToSet(c[k]) : k \in 1 .. Len(r)}
  BY <1>1, <1>8, FlattenOf
<1> DEFINE u == UNION {ToSet(c[k]) : k \in 1 .. Len(r)}
           v == {Inside[x] : x \in ToSet(r)} \ {<< >>}
<1>10. u = v
  <2>1. \A k \in 1 .. Len(r) : ToSet(c[k]) = {Inside[q[k]]} \ {<< >>}
    BY <1>7
  <2>2. ASSUME NEW y \in u PROVE y \in v
    <3>1. PICK k \in 1 .. Len(r) : y \in ToSet(c[k])
      OBVIOUS
    <3>2. y = Inside[q[k]] /\ y # << >>
      BY <2>1, <3>1
    <3>3. q[k] \in ToSet(r)
      BY <1>5
    <3> QED BY <3>2, <3>3
  <2>3. ASSUME NEW y \in v PROVE y \in u
    <3>1. PICK x \in ToSet(r) : y = Inside[x]
      OBVIOUS
    <3>2. PICK k \in 1 .. Len(r) : x = q[k]
      BY <1>5
    <3>3. y \in ToSet(c[k])
      BY <2>1, <3>1, <3>2
    <3> QED BY <3>3
  <2> HIDE DEF u, v
  <2> QED BY <2>2, <2>3
<1> QED BY <1>2, <1>9, <1>10

LEMMA ExpandSet ==
    ASSUME NEW rs \in Seq(Region)
    PROVE  Expand(rs) \in Seq(Region) /\ ToSet(Expand(rs)) = ToSet(rs) \cup Boxed(ToSet(rs))
<1> DEFINE c == [i \in 1 .. Len(rs) |-> <<rs[i]>> \o InBoxes(rs[i])]
<1>1. Expand(rs) = FlattenSeq(c)
  <2>1. DOMAIN rs = 1 .. Len(rs)
    OBVIOUS
  <2>2. [i \in DOMAIN rs |-> <<rs[i]>> \o InBoxes(rs[i])] = c
    BY <2>1
  <2> QED BY <2>2 DEF Expand
<1>2. Len(rs) \in Nat /\ \A i \in 1 .. Len(rs) : rs[i] \in Region
  OBVIOUS
<1>3. ASSUME NEW i \in 1 .. Len(rs)
      PROVE  /\ c[i] \in Seq(Region)
             /\ ToSet(c[i]) = {rs[i]} \cup ({Inside[x] : x \in ToSet(rs[i])} \ {<< >>})
  <2> DEFINE a == <<rs[i]>>
             b == InBoxes(rs[i])
  <2>1. rs[i] \in Region /\ rs[i] \in Seq(Records)
    BY <1>2 DEF Region
  <2>2. a \in Seq(Region) /\ ToSet(a) = {rs[i]}
    BY <2>1 DEF ToSet
  <2>3. b \in Seq(Region) /\ ToSet(b) = {Inside[x] : x \in ToSet(rs[i])} \ {<< >>}
    BY <2>1, InBoxesSet
  <2> HIDE DEF a, b
  <2>4. a \o b \in Seq(Region) /\ ToSet(a \o b) = ToSet(a) \cup ToSet(b)
    BY <2>2, <2>3, CatMembers
  <2>5. c[i] = a \o b
    BY DEF a, b
  <2> QED BY <2>2, <2>3, <2>4, <2>5
<1>4. c \in [1 .. Len(rs) -> Seq(Region)]
  BY <1>3
<1> HIDE DEF c
<1>5. /\ FlattenSeq(c) \in Seq(Region)
      /\ ToSet(FlattenSeq(c)) = UNION {ToSet(c[i]) : i \in 1 .. Len(rs)}
  BY <1>2, <1>4, FlattenOf
<1>6. \A r : r \in ToSet(rs) <=> \E i \in 1 .. Len(rs) : r = rs[i]
  BY DEF ToSet
<1> DEFINE u == UNION {ToSet(c[i]) : i \in 1 .. Len(rs)}
           v == ToSet(rs) \cup Boxed(ToSet(rs))
<1>7. u = v
  <2>1. \A i \in 1 .. Len(rs) :
           ToSet(c[i]) = {rs[i]} \cup ({Inside[x] : x \in ToSet(rs[i])} \ {<< >>})
    BY <1>3
  <2>2. \A y : y \in Boxed(ToSet(rs)) <=>
           y # << >> /\ \E r \in ToSet(rs) : \E x \in ToSet(r) : y = Inside[x]
    BY DEF Boxed
  <2>3. ASSUME NEW y \in u PROVE y \in v
    <3>1. PICK i \in 1 .. Len(rs) : y \in ToSet(c[i])
      OBVIOUS
    <3>2. y = rs[i] \/ (y # << >> /\ \E x \in ToSet(rs[i]) : y = Inside[x])
      <4>1. y \in {rs[i]} \cup ({Inside[x] : x \in ToSet(rs[i])} \ {<< >>})
        BY <2>1, <3>1, Zenon
      <4> QED BY <4>1
    <3>3. rs[i] \in ToSet(rs)
      BY <1>6
    <3> QED BY <2>2, <3>2, <3>3
  <2>4. ASSUME NEW y \in v PROVE y \in u
    <3>1. \E i \in 1 .. Len(rs) : y \in ToSet(c[i])
      <4>1. CASE y \in ToSet(rs)
        <5>1. PICK i \in 1 .. Len(rs) : y = rs[i]
          BY <1>6, <4>1
        <5>2. y \in {rs[i]}
          BY <5>1
        <5> QED BY <2>1, <5>2, Zenon
      <4>2. CASE y \in Boxed(ToSet(rs))
        <5>1. PICK r \in ToSet(rs) : y # << >> /\ \E x \in ToSet(r) : y = Inside[x]
          BY <2>2, <4>2
        <5>2. PICK i \in 1 .. Len(rs) : r = rs[i]
          BY <1>6
        <5> QED BY <2>1, <5>1, <5>2
      <4> QED BY <4>1, <4>2
    <3> QED BY <3>1
  <2> HIDE DEF u, v
  <2> QED BY <2>3, <2>4
<1> QED BY <1>1, <1>5, <1>7

LEMMA ExpandPlain ==
    ASSUME NEW rs \in Seq(Region),
           \A i \in 1 .. Len(rs) : \A x \in ToSet(rs[i]) : Inside[x] = << >>
    PROVE  Expand(rs) = rs
<1> DEFINE c == [i \in 1 .. Len(rs) |-> <<rs[i]>> \o InBoxes(rs[i])]
<1>1. Expand(rs) = FlattenSeq(c)
  <2>1. DOMAIN rs = 1 .. Len(rs)
    OBVIOUS
  <2>2. [i \in DOMAIN rs |-> <<rs[i]>> \o InBoxes(rs[i])] = c
    BY <2>1
  <2> QED BY <2>2 DEF Expand
<1>2. ASSUME NEW i \in 1 .. Len(rs) PROVE c[i] = <<rs[i]>> /\ <<rs[i]>> \in Seq(Region)
  <2>1. rs[i] \in Region /\ rs[i] \in Seq(Records)
    <3>1. rs[i] \in Region
      OBVIOUS
    <3> QED BY <3>1 DEF Region
  <2>2. InBoxes(rs[i]) \in Seq(Region) /\ ToSet(InBoxes(rs[i])) = {}
    <3>1. /\ InBoxes(rs[i]) \in Seq(Region)
          /\ ToSet(InBoxes(rs[i])) = {Inside[x] : x \in ToSet(rs[i])} \ {<< >>}
      BY <2>1, InBoxesSet
    <3>2. {Inside[x] : x \in ToSet(rs[i])} \ {<< >>} = {}
      OBVIOUS
    <3> QED BY <3>1, <3>2
  <2>3. \A s \in Seq(Region) : ToSet(s) = {} => s = << >>
    <3> SUFFICES ASSUME NEW s \in Seq(Region), ToSet(s) = {} PROVE s = << >>
      OBVIOUS
    <3>1. Len(s) # 0 => s[1] \in ToSet(s)
      BY DEF ToSet
    <3> QED BY <3>1
  <2>4. InBoxes(rs[i]) = << >>
    BY <2>2, <2>3
  <2>5. \A x \in Region : <<x>> \o << >> = <<x>> /\ <<x>> \in Seq(Region)
    OBVIOUS
  <2> QED BY <2>1, <2>4, <2>5
<1>3. c \in Seq(Seq(Region)) /\ Len(c) = Len(rs) /\ Len(rs) \in Nat
  <2>1. \A i \in 1 .. Len(rs) : <<rs[i]>> \o InBoxes(rs[i]) \in Seq(Region)
    BY <1>2
  <2> QED BY <2>1
<1> HIDE DEF c
<1>4. Amid(c, rs, 0)
  <2>1. \A i \in 1 .. Len(rs) : i > 0 /\ i <= 0 + Len(rs) /\ i - 0 = i
    BY <1>3
  <2>2. \A i \in 1 .. Len(c) : c[i] = <<rs[i]>>
    BY <1>2, <1>3
  <2>3. ASSUME NEW i \in 1 .. Len(c)
        PROVE  c[i] = IF i > 0 /\ i <= 0 + Len(rs) THEN <<rs[i - 0]>> ELSE << >>
    <3>1. c[i] = <<rs[i]>> /\ i > 0 /\ i <= 0 + Len(rs) /\ i - 0 = i
      BY <1>3, <2>1, <2>2
    <3> QED BY <3>1
  <2>4. 0 + Len(rs) <= Len(c)
    BY <1>3
  <2> QED BY <2>3, <2>4 DEF Amid
<1>5. FlattenSeq(c) = rs
  BY <1>3, <1>4, FlattenAmid
<1> QED BY <1>1, <1>5

---------------------------------------------------------------------------
(* What a file is, whole or cut, and what was read of it so far.           *)

(* A region with anything behind it. *)
RawOf(bytes, places, whole) ==
    /\ bytes \in Seq(Plain) /\ Len(places) = 1
    /\ places[1].body = FerOfRegion(places[1].body.data)
    /\ Begins(bytes, places[1].body.data)
    /\ whole => bytes = places[1].body.data

Is(what, bytes, places, whole) ==
    /\ what = "cper" => CperOf(bytes, places, whole)
    /\ what = "bert" => BertOf(bytes, places, whole)
    /\ what = "raw" => RawOf(bytes, places, whole)

Types ==
    /\ file \in Seq(Word) /\ layout \in Seq(Place)
    /\ made \in Seq({"cper", "bert", "raw"}) /\ Len(made) > 0
    /\ pc \in {"file", "descriptors", "entries", "read", "failed"}
    /\ at \in Nat /\ until \in Nat
    /\ sections \in Seq(Body) /\ regions \in Seq(Region) /\ extra \in Seq(Body)
    /\ cut \in {"no", "now", "before"}

FileIs ==
    /\ cut # "now" => Is(Last(made), file, layout, TRUE)
    /\ cut = "now" => Is(Last(made), file, layout, FALSE)

WholeUpTo(read, bytes, places, n) ==
    SoundOnes(read) =
        FlattenSeq([i \in 1 .. n |->
            Only(places[i].body, Sound(places[i].body) /\ End(places[i]) <= Len(bytes))])

Descriptors ==
    pc = "descriptors" =>
        /\ Last(made) = "cper" /\ Len(file) >= RecordHeaderSize
        /\ until = Count(layout) /\ at <= until
        /\ WholeUpTo(sections, file, layout, at)

(* The sections that entry after entry gives; behind the last entry, blank *)
(* ones.                                                                   *)
EntriesRead(read, bytes, places, next) ==
    /\ \A i \in 1 .. Len(read) :
          read[i] = IF i <= Len(places) THEN places[i].body ELSE Unknown(<< >>)
    /\ Len(read) < Len(places) => next = From(places, Start(bytes), Len(read) + 1)
    /\ Len(read) >= Len(places) => next >= From(places, Start(bytes), Len(places) + 1)

Entries ==
    pc = "entries" =>
        /\ Last(made) = "bert" /\ file # << >> /\ Len(file) >= Start(file)
        /\ until = Start(file) + file[Start(file) - 1].len
        /\ cut # "now" => EntriesRead(sections, file, layout, at)

(* Every record of the regions is the front of a container, or behind one. *)
AllBogus(rs) == \A r \in rs : ToSet(r) \subseteq Bogus

BertRead ==
    pc = "read" /\ Last(made) = "bert" =>
        /\ cut = "now" => Len(made) = 1 /\ AllBogus(ToSet(regions))
        /\ cut # "now" =>
             /\ Len(sections) >= Len(layout)
             /\ \A i \in 1 .. Len(sections) :
                   sections[i] = IF i <= Len(layout) THEN layout[i].body ELSE Unknown(<< >>)

(* The table of an exported BERT says a length of 0 (Bert::dummy), which no *)
(* record has.                                                             *)
Unsized ==
    Last(made) = "bert" /\ Len(made) > 1 /\ file # << >> => ~file[1].sized

ReadInv == Types /\ FileIs /\ Descriptors /\ Entries /\ BertRead /\ Unsized

LEMMA Kinded ==
    ASSUME Types, FileIs
    PROVE  /\ IsBert => Last(made) = "bert"
           /\ IsCper => Last(made) = "cper" /\ file[1] = [tag |-> "cper", count |-> Count(layout)]
           /\ CperFront => Last(made) = "cper"
           /\ BertFront => Last(made) = "bert"
           /\ RegionOf(file) # << >> => Last(made) = "raw"
           /\ Last(made) \in {"cper", "bert", "raw"}
<1>1. Last(made) \in {"cper", "bert", "raw"}
  BY DEF Types, Last
<1>2. file # << >> => file[1] \in Word
  BY DEF Types
<1>3. Last(made) = "cper" /\ file # << >> => file[1] = [tag |-> "cper", count |-> Count(layout)]
  BY DEF FileIs, Is, CperOf
<1>4. Last(made) = "bert" /\ file # << >> =>
         IsHeader(file[1], "bert") \/ IsHeader(file[1], "berr")
  BY DEF FileIs, Is, BertOf
<1>5. Last(made) = "raw" /\ file # << >> => file[1] \in Plain
  <2> SUFFICES ASSUME Last(made) = "raw", file # << >> PROVE file[1] \in Plain
    OBVIOUS
  <2>1. file \in Seq(Plain)
    BY DEF FileIs, Is, RawOf
  <2> QED BY <2>1
<1>6. [tag |-> "cper", count |-> Count(layout)].tag = "cper"
  OBVIOUS
<1>7. \A w : IsHeader(w, "bert") \/ IsHeader(w, "berr") => ~IsHeader(w, "cper") /\ w \notin Plain
  BY DEF IsHeader
<1>8. [tag |-> "cper", count |-> Count(layout)] \notin Plain
  <2>1. Count(layout) \in Nat
    BY CountFacts DEF Types
  <2>2. [tag |-> "cper", count |-> Count(layout)] \in Header
    BY <2>1 DEF Header
  <2> QED BY <2>2, ContainerAssumption
<1>9. RegionOf(file) # << >> => file # << >> /\ file[1] \in Records
  BY RegionFacts DEF Types
<1>10. IsBert => Last(made) = "bert"
  BY <1>1, <1>3, <1>5, <1>6 DEF IsBert, HasTag, IsHeader
<1>11. IsCper => Last(made) = "cper" /\ file[1] = [tag |-> "cper", count |-> Count(layout)]
  BY <1>1, <1>3, <1>4, <1>5, <1>7 DEF IsCper, HasTag, IsHeader
<1>12. RegionOf(file) # << >> => Last(made) = "raw"
  BY <1>1, <1>3, <1>4, <1>7, <1>8, <1>9 DEF Plain
<1>13. CperFront => Last(made) = "cper"
  BY <1>1, <1>4, <1>5, <1>7 DEF CperFront, HasTag, IsHeader
<1>14. BertFront => Last(made) = "bert"
  BY <1>1, <1>3, <1>5, <1>6 DEF BertFront, HasTag, IsHeader
<1> QED BY <1>1, <1>10, <1>11, <1>12, <1>13, <1>14

(* What is tried as a region: the region there is, or, of a container that *)
(* lost its end, bogus records.                                            *)
RawIs(r) ==
    /\ r \in Seq(Records)
    /\ \/ r = RegionOf(file) /\ (r # << >> => Last(made) = "raw")
       \/ ToSet(r) \subseteq Bogus /\ Last(made) = "cper"
       \/ ToSet(r) \subseteq Bogus /\ Last(made) = "bert" /\ file # << >> /\ file[1].sized

LEMMA RawRegionsAre ==
    ASSUME Types, FileIs, NEW r \in RawRegions
    PROVE  RawIs(r)
<1>1. CASE r = RegionOf(file)
  <2>1. r \in Seq(Records)
    BY <1>1, RegionFacts DEF Types
  <2> QED BY <1>1, <2>1, Kinded DEF RawIs
<1>2. CASE r # RegionOf(file)
  <2>1. r \in Mistakes /\ (CperFront \/ BertFront)
    BY <1>2 DEF RawRegions
  <2>2. r \in Seq(Bogus) /\ Bogus \subseteq Records
    BY <2>1, ContainerAssumption
  <2>3. r \in Seq(Records) /\ ToSet(r) \subseteq Bogus
    BY <2>2 DEF ToSet
  <2>4. BertFront => file # << >> /\ file[1].sized
    BY DEF BertFront, HasTag
  <2> QED BY <2>1, <2>3, <2>4, Kinded DEF RawIs
<1> QED BY <1>1, <1>2

(* A container is tried as a region only if it was cut.                    *)
LEMMA WholeIsOpened ==
    ASSUME Types, FileIs, pc = "file", ~IsBert, ~IsCper, cut # "now"
    PROVE  Last(made) = "raw"
<1>1. /\ file \in Seq(Word) /\ layout \in Seq(Place) /\ Len(file) \in Nat
      /\ Len(layout) \in Nat
  BY DEF Types
<1>2. Is(Last(made), file, layout, TRUE)
  BY DEF FileIs
<1>3. Last(made) # "bert"
  <2> SUFFICES ASSUME Last(made) = "bert" PROVE FALSE
    OBVIOUS
  <2>1. BertOf(file, layout, TRUE)
    BY <1>2 DEF Is
  <2>2. /\ file # << >> /\ Len(file) >= Start(file)
        /\ IsHeader(file[1], "bert") \/ IsHeader(file[1], "berr")
    BY <2>1 DEF BertOf
  <2>3. BerrStart + StatusBlockSize = Start(file)
    BY <2>2 DEF HasTag, BerrStart, Start, StatusBlockSize, BertSize
  <2> QED BY <2>2, <2>3 DEF IsBert, HasTag
<1>4. Last(made) # "cper"
  <2> SUFFICES ASSUME Last(made) = "cper" PROVE FALSE
    OBVIOUS
  <2>1. CperOf(file, layout, TRUE)
    BY <1>2 DEF Is
  <2>2. Len(file) >= RecordHeaderSize /\ file # << >>
    <3>1. Len(file) >= Table(Len(layout))
      BY <2>1 DEF CperOf
    <3>2. Table(Len(layout)) >= 32 /\ Table(Len(layout)) \in Nat
      BY <1>1 DEF Table, RecordHeaderSize, SectionDescriptorSize
    <3>3. Len(file) >= 32
      BY <1>1, <3>1, <3>2
    <3> QED BY <3>3 DEF RecordHeaderSize
  <2>3. file[1] = [tag |-> "cper", count |-> Count(layout)]
    BY <2>1, <2>2 DEF CperOf
  <2>4. file[1] \in Header
    <3>1. Count(layout) \in Nat
      BY <1>1, CountFacts
    <3> QED BY <2>3, <3>1 DEF Header
  <2>5. IsHeader(file[1], "cper")
    BY <2>3, <2>4, ContainerAssumption DEF IsHeader
  <2> QED BY <2>2, <2>5 DEF IsCper, HasTag
<1> QED BY <1>3, <1>4, Kinded

(* Neither does a whole BERT end behind its file.                          *)
LEMMA ShortIsCut ==
    ASSUME Types, FileIs, Entries, pc = "entries", until > Len(file)
    PROVE  cut = "now" /\ Last(made) = "bert"
<1>1. /\ Last(made) = "bert" /\ file # << >> /\ Len(file) >= Start(file)
      /\ until = Start(file) + file[Start(file) - 1].len /\ Len(file) \in Nat
  BY DEF Entries, Types
<1>2. ASSUME cut # "now" PROVE FALSE
  <2>1. BertOf(file, layout, TRUE)
    BY <1>1, <1>2 DEF FileIs, Is
  <2>2. Start(file) + file[Start(file) - 1].len = Len(file)
    BY <1>1, <2>1 DEF BertOf
  <2> QED BY <1>1, <2>2
<1> QED BY <1>1, <1>2

ReadsAt(p) ==
    /\ End(p) > Len(file) => SectionAt = << >>
    /\ End(p) <= Len(file) /\ Sound(p.body) => SectionAt = <<p.body>>
    /\ End(p) <= Len(file) /\ ~Sound(p.body) =>
          \E c \in Body : SectionAt = <<c>> /\ ~Sound(c)

LEMMA SectionRead ==
    ASSUME file \in Seq(Word), layout \in Seq(Place), NEW whole, CperOf(file, layout, whole),
           at \in Nat, at < Len(layout)
    PROVE  ReadsAt(layout[at + 1])
<1> DEFINE p == layout[at + 1]
           n == Len(layout)
<1>1. /\ p \in Place /\ n \in Nat /\ at + 1 \in 1 .. n /\ (at + 1) - 1 = at
      /\ Len(file) \in Nat
  OBVIOUS
<1>2. /\ p.at \in Nat /\ p.len \in Nat /\ End(p) = p.at + p.len /\ p.body \in Body
      /\ End(p) \in Nat
  BY <1>1, PlaceFacts
<1>3. /\ Len(file) > Table(at) => file[Table(at) + 1] = DescriptorOf(p)
      /\ p.at >= Table(n) /\ Readable(file, p)
  BY <1>1 DEF CperOf
<1>4. /\ Table(at) \in Nat /\ Table(n) \in Nat /\ Table(n) >= Table(at) + 18
      /\ DescriptorPlace = Table(at)
  BY <1>1 DEF Table, RecordHeaderSize, SectionDescriptorSize, DescriptorPlace
<1>5. /\ DescriptorOf(p).at = p.at /\ DescriptorOf(p).len = p.len
      /\ DescriptorOf(p).kind = p.body.kind
  BY DEF DescriptorOf
<1> HIDE DEF p, n
<1>6. ASSUME End(p) > Len(file) PROVE SectionAt = << >>
  <2>1. CASE Table(at) + 13 > Len(file)
    BY <1>4, <2>1 DEF SectionAt
  <2>2. CASE Table(at) + 13 <= Len(file)
    <3>1. file[Table(at) + 1] = DescriptorOf(p)
      BY <1>1, <1>3, <1>4, <2>2
    <3>2. DescriptorOf(p).at + DescriptorOf(p).len > Len(file)
      BY <1>2, <1>5, <1>6
    <3> QED BY <1>4, <3>1, <3>2 DEF SectionAt
  <2> QED BY <1>1, <1>4, <2>1, <2>2
<1>7. ASSUME End(p) <= Len(file)
      PROVE  SectionAt = BodyFrom(p.body.kind, SubSeq(file, p.at + 1, End(p)))
  <2>1. Table(at) + 18 <= Len(file)
    BY <1>1, <1>2, <1>3, <1>4, <1>7
  <2>2. file[Table(at) + 1] = DescriptorOf(p) /\ ~(Table(at) + 13 > Len(file))
    BY <1>1, <1>3, <1>4, <2>1
  <2>3. ~(p.at + p.len > Len(file))
    BY <1>1, <1>2, <1>7
  <2> QED BY <1>2, <1>4, <1>5, <2>2, <2>3 DEF SectionAt
<1>8. End(p) <= Len(file) => Gives(p.body, SubSeq(file, p.at + 1, End(p)))
  BY <1>3 DEF Readable
<1>9. ReadsAt(p)
  BY <1>6, <1>7, <1>8 DEF ReadsAt, Gives
<1> QED BY <1>9 DEF p

LEMMA NoneRead == \A bytes, places : WholeUpTo(<< >>, bytes, places, 0)
<1> SUFFICES ASSUME NEW bytes, NEW places PROVE WholeUpTo(<< >>, bytes, places, 0)
  OBVIOUS
<1> DEFINE e == [i \in DOMAIN << >> |-> Only(<< >>[i], Sound(<< >>[i]))]
           f == [i \in 1 .. 0 |->
                   Only(places[i].body, Sound(places[i].body) /\ End(places[i]) <= Len(bytes))]
<1>1. DOMAIN << >> = 1 .. 0
  OBVIOUS
<1>2. e = f
  BY <1>1
<1> QED BY <1>2 DEF WholeUpTo, SoundOnes

LEMMA OneMoreRead ==
    ASSUME NEW read \in Seq(Body), NEW bytes \in Seq(Word), NEW places \in Seq(Place), NEW n \in Nat,
           n < Len(places), WholeUpTo(read, bytes, places, n), NEW x,
           End(places[n + 1]) <= Len(bytes) /\ Sound(places[n + 1].body)
             => x = <<places[n + 1].body>>,
           ~(End(places[n + 1]) <= Len(bytes) /\ Sound(places[n + 1].body))
             => x = << >> \/ \E c \in Body : x = <<c>> /\ ~Sound(c)
    PROVE  read \o x \in Seq(Body) /\ WholeUpTo(read \o x, bytes, places, n + 1)
<1> DEFINE yes(i) == Sound(places[i].body) /\ End(places[i]) <= Len(bytes)
           f == [i \in 1 .. n |-> Only(places[i].body, yes(i))]
           g == [i \in 1 .. n + 1 |-> Only(places[i].body, yes(i))]
           y == Only(places[n + 1].body, yes(n + 1))
           e == [i \in 1 .. Len(read) |-> Only(read[i], Sound(read[i]))]
<1>1. \A i \in 1 .. n + 1 : places[i] \in Place /\ places[i].body \in Body /\ yes(i) \in BOOLEAN
  BY PlaceFacts DEF Sound
<1>2. \A i \in 1 .. n + 1 : Only(places[i].body, yes(i)) \in Seq(Body)
  <2> HIDE DEF yes
  <2> QED BY <1>1, OnlySet
<1>3. f \in Seq(Seq(Body)) /\ g \in Seq(Seq(Body)) /\ y \in Seq(Body) /\ Len(f) = n
  <2> HIDE DEF yes
  <2> QED BY <1>2
<1>4. g = Append(f, y)
  <2> HIDE DEF yes
  <2>1. Len(g) = n + 1 /\ \A i \in 1 .. n : g[i] = f[i]
    OBVIOUS
  <2>2. g[n + 1] = y
    OBVIOUS
  <2> HIDE DEF f, g, y
  <2> QED BY <1>3, <2>1, <2>2
<1>5. FlattenSeq(g) = FlattenSeq(f) \o y
  <2> HIDE DEF f, g, y
  <2> QED BY <1>3, <1>4, FlattenAppend
<1>6. SoundOnes(read) = FlattenSeq(f)
  BY DEF WholeUpTo
<1>7. \A b \in Body : Sound(b) \in BOOLEAN /\ Only(b, Sound(b)) \in Seq(Body)
  BY BodyFacts, OnlySet
<1>8. ASSUME NEW c \in Body
      PROVE  SoundOnes(read \o <<c>>) = SoundOnes(read) \o Only(c, Sound(c))
  <2> DEFINE z == Only(c, Sound(c))
             s == read \o <<c>>
             h == [i \in 1 .. Len(read) + 1 |-> Only(s[i], Sound(s[i]))]
  <2>1. /\ s \in Seq(Body) /\ Len(s) = Len(read) + 1 /\ s[Len(read) + 1] = c
        /\ DOMAIN s = 1 .. Len(read) + 1 /\ \A i \in 1 .. Len(read) : s[i] = read[i]
    OBVIOUS
  <2>2. SoundOnes(s) = FlattenSeq(h)
    <3> HIDE DEF s
    <3> QED BY <2>1 DEF SoundOnes
  <2>3. SoundOnes(read) = FlattenSeq(e)
    <3>1. DOMAIN read = 1 .. Len(read)
      OBVIOUS
    <3> QED BY <3>1 DEF SoundOnes
  <2>4. z \in Seq(Body) /\ e \in Seq(Seq(Body)) /\ Len(e) = Len(read) /\ Len(read) \in Nat
    BY <1>7
  <2>5. h = Append(e, z)
    <3> HIDE DEF s
    <3>1. h \in Seq(Seq(Body)) /\ Len(h) = Len(read) + 1
      <4>1. \A i \in 1 .. Len(read) + 1 : s[i] \in Body
        BY <2>1
      <4>2. \A i \in 1 .. Len(read) + 1 : Only(s[i], Sound(s[i])) \in Seq(Body)
        BY <1>7, <4>1
      <4> QED BY <2>4, <4>2
    <3>2. h[Len(read) + 1] = z
      BY <2>1, <2>4
    <3>3. \A i \in 1 .. Len(read) : h[i] = e[i]
      BY <2>1, <2>4
    <3> HIDE DEF h, e, z
    <3> QED BY <2>4, <3>1, <3>2, <3>3
  <2> HIDE DEF h, e, z
  <2>6. FlattenSeq(h) = FlattenSeq(e) \o z
    BY <2>4, <2>5, FlattenAppend
  <2> QED BY <2>2, <2>3, <2>6 DEF z
<1>9. SoundOnes(read) \in Seq(Body)
  BY SoundSet
<1>10. CASE yes(n + 1)
  <2>1. x = <<places[n + 1].body>> /\ y = <<places[n + 1].body>> /\ places[n + 1].body \in Body
    BY <1>1, <1>10 DEF Only
  <2>2. Only(places[n + 1].body, Sound(places[n + 1].body)) = y
    BY <1>10 DEF Only
  <2>3. SoundOnes(read \o x) = SoundOnes(read) \o y
    BY <1>8, <2>1, <2>2
  <2>4. read \o x \in Seq(Body)
    BY <2>1
  <2> QED BY <1>5, <1>6, <2>3, <2>4 DEF WholeUpTo
<1>11. CASE ~yes(n + 1)
  <2>1. y = << >>
    BY <1>11 DEF Only
  <2>2. SoundOnes(read) \o y = SoundOnes(read)
    BY <1>9, <2>1
  <2>3. CASE x = << >>
    <3>1. read \o x = read
      BY <2>3
    <3> QED BY <1>5, <1>6, <2>2, <3>1 DEF WholeUpTo
  <2>4. CASE \E c \in Body : x = <<c>> /\ ~Sound(c)
    <3>1. PICK c \in Body : x = <<c>> /\ ~Sound(c)
      BY <2>4
    <3>2. Only(c, Sound(c)) = << >>
      BY <3>1 DEF Only
    <3>3. SoundOnes(read \o x) = SoundOnes(read) \o << >>
      BY <1>8, <3>1, <3>2
    <3>4. read \o x \in Seq(Body)
      BY <3>1
    <3> QED BY <1>5, <1>6, <1>9, <2>1, <3>3, <3>4 DEF WholeUpTo
  <2> QED BY <1>11, <2>3, <2>4
<1> QED BY <1>10, <1>11

---------------------------------------------------------------------------
(* Every step keeps ReadInv. *)

Fers(rs) == [i \in DOMAIN rs |-> FerOfRegion(rs[i])]

LEMMA FersFacts ==
    ASSUME NEW rs \in Seq(Region)
    PROVE  /\ Fers(rs) \in Seq(Body) /\ Len(Fers(rs)) = Len(rs)
           /\ \A i \in 1 .. Len(rs) :
                 /\ Fers(rs)[i] = FerOfRegion(rs[i]) /\ Sound(Fers(rs)[i])
                 /\ RegionIn(Fers(rs)[i]) = <<rs[i]>>
<1>1. DOMAIN rs = 1 .. Len(rs) /\ Len(rs) \in Nat /\ \A i \in 1 .. Len(rs) : rs[i] \in Region
  OBVIOUS
<1>2. \A i \in 1 .. Len(rs) :
         /\ FerOfRegion(rs[i]) \in Body /\ Sound(FerOfRegion(rs[i]))
         /\ RegionIn(FerOfRegion(rs[i])) = <<rs[i]>>
  BY <1>1, FerOfRegionFacts
<1>3. Fers(rs) = [i \in 1 .. Len(rs) |-> FerOfRegion(rs[i])]
  BY <1>1 DEF Fers
<1> QED BY <1>1, <1>2, <1>3

LEMMA BodiesFacts ==
    ASSUME Types
    PROVE  Bodies = Fers(regions) \o extra /\ Bodies \in Seq(Body) /\ Fers(regions) \in Seq(Body)
<1>1. Fers(regions) \in Seq(Body) /\ extra \in Seq(Body)
  BY FersFacts DEF Types
<1>2. Bodies = Fers(regions) \o extra
  BY DEF Bodies, Fers
<1> QED BY <1>1, <1>2

LEMMA InitReads == Init => ReadInv
<1> SUFFICES ASSUME Init PROVE ReadInv
  OBVIOUS
<1>1. PICK f \in Files : file = f.bytes /\ layout = f.layout /\ made = <<f.kind>>
  BY DEF Init
<1>2. /\ f.bytes \in Seq(Word) /\ f.layout \in Seq(Place)
      /\ \/ f.kind = "cper" /\ IsCperFile(f)
         \/ f.kind = "bert" /\ IsBertFile(f)
         \/ f.kind = "raw" /\ IsRawFile(f)
  BY ContainerAssumption
<1>3. Types
  BY <1>1, <1>2 DEF Types, Init
<1>8. Unsized
  BY <1>1 DEF Unsized
<1>4. Last(made) = f.kind
  BY <1>1 DEF Last
<1>5. Is(f.kind, file, layout, TRUE)
  <2>1. CASE f.kind = "cper"
    <3>1. CperOf(file, layout, TRUE)
      BY <1>1, <1>2, <2>1, FirmwareCper
    <3> QED BY <2>1, <3>1 DEF Is
  <2>2. CASE f.kind = "bert"
    <3>1. BertOf(file, layout, TRUE)
      BY <1>1, <1>2, <2>2, FirmwareBert
    <3> QED BY <2>2, <3>1 DEF Is
  <2>3. CASE f.kind = "raw"
    <3>1. /\ file \in Seq(Plain) /\ Len(layout) = 1
          /\ layout[1].body = FerOfRegion(file)
      BY <1>1, <1>2, <2>3 DEF IsRawFile
    <3>2. FerOfRegion(file).data = file
      BY DEF FerOfRegion, Fer
    <3>3. Begins(file, file)
      BY <3>1 DEF Begins
    <3>4. RawOf(file, layout, TRUE)
      BY <3>1, <3>2, <3>3 DEF RawOf
    <3> QED BY <2>3, <3>4 DEF Is
  <2> QED BY <1>2, <2>1, <2>2, <2>3
<1>6. FileIs
  BY <1>4, <1>5 DEF FileIs, Init
<1>7. Descriptors /\ Entries /\ BertRead
  BY DEF Init, Descriptors, Entries, BertRead
<1> QED BY <1>3, <1>6, <1>7, <1>8 DEF ReadInv

(* A step that leaves the file as it is. *)
LEMMA FileKept ==
    ASSUME ReadInv, UNCHANGED <<file, layout, made, cut>>
    PROVE  FileIs' /\ Unsized'
BY DEF ReadInv, FileIs, Unsized

LEMMA OpenBertReads == ReadInv /\ OpenBert => ReadInv'
<1> SUFFICES ASSUME ReadInv, OpenBert PROVE ReadInv'
  OBVIOUS
<1>1. Types /\ FileIs /\ IsBert /\ Last(made) = "bert"
  <2>1. Types /\ FileIs /\ IsBert
    BY DEF ReadInv, OpenBert
  <2> QED BY <2>1, Kinded
<1>2. file # << >> /\ BerrStart + StatusBlockSize = Start(file) /\ Len(file) >= Start(file)
  BY <1>1 DEF IsBert, HasTag, BerrStart, Start, StatusBlockSize, BertSize
<1>3. BerrStart + 4 = Start(file) - 1 /\ Start(file) \in Nat
  BY <1>2, StartFacts DEF BerrStart, StatusBlockSize, BertSize
<1>4. file[Start(file) - 1].len \in Nat
  <2>1. BertOf(file, layout, TRUE) \/ BertOf(file, layout, FALSE)
    BY <1>1 DEF FileIs, Is
  <2> QED BY <1>2, <2>1 DEF BertOf
<1>5. UNCHANGED <<file, layout, made, regions, extra, cut>> /\ pc' = "entries" /\ sections' = << >>
  BY DEF OpenBert
<1>6. at' = Start(file) /\ until' = Start(file) + file[Start(file) - 1].len
  BY <1>2, <1>3 DEF OpenBert
<1>10. at' \in Nat /\ until' \in Nat
  BY <1>3, <1>4, <1>6
<1>7. Types'
  BY <1>1, <1>5, <1>10 DEF Types
<1>8. FileIs' /\ Unsized'
  BY <1>1, <1>5, FileKept
<1>9. Descriptors' /\ BertRead'
  BY <1>5 DEF Descriptors, BertRead
<1>12. EntriesRead(<< >>, file, layout, Start(file))
  <2>1. Len(layout) \in Nat /\ Len(<< >>) = 0
    BY <1>1 DEF Types
  <2>2. From(layout, Start(file), 1) = Start(file)
    BY DEF From
  <2>3. Len(<< >>) < Len(layout) => Start(file) = From(layout, Start(file), Len(<< >>) + 1)
    BY <2>1, <2>2
  <2>4. Len(<< >>) >= Len(layout) => Start(file) >= From(layout, Start(file), Len(layout) + 1)
    BY <1>3, <2>1, <2>2
  <2> QED BY <2>1, <2>3, <2>4 DEF EntriesRead
<1>11. Entries'
  BY <1>1, <1>2, <1>5, <1>6, <1>12 DEF Entries
<1> QED BY <1>7, <1>8, <1>9, <1>11 DEF ReadInv

LEMMA OpenCperReads == ReadInv /\ OpenCper => ReadInv'
<1> SUFFICES ASSUME ReadInv, OpenCper PROVE ReadInv'
  OBVIOUS
<1>1. /\ Types /\ FileIs /\ IsCper /\ Last(made) = "cper"
      /\ file[1] = [tag |-> "cper", count |-> Count(layout)]
  <2>1. Types /\ FileIs /\ IsCper
    BY DEF ReadInv, OpenCper
  <2> QED BY <2>1, Kinded
<1>2. Len(file) >= RecordHeaderSize
  BY <1>1 DEF IsCper
<1>3. Count(layout) \in Nat
  BY <1>1, CountFacts DEF Types
<1>4. UNCHANGED <<file, layout, made, regions, extra, cut>> /\ pc' = "descriptors" /\ sections' = << >>
  BY DEF OpenCper
<1>5. at' = 0 /\ until' = Count(layout)
  BY <1>1 DEF OpenCper
<1>6. Types'
  BY <1>1, <1>3, <1>4, <1>5 DEF Types
<1>7. FileIs' /\ Unsized'
  BY <1>1, <1>4, FileKept
<1>8. Entries' /\ BertRead'
  BY <1>4 DEF Entries, BertRead
<1>9. Descriptors'
  BY <1>1, <1>2, <1>3, <1>4, <1>5, NoneRead DEF Descriptors
<1> QED BY <1>6, <1>7, <1>8, <1>9 DEF ReadInv

LEMMA BogusExpand ==
    ASSUME NEW rs \in Seq(Region), AllBogus(ToSet(rs))
    PROVE  AllBogus(ToSet(Expand(rs)))
<1>1. ToSet(Expand(rs)) = ToSet(rs) \cup Boxed(ToSet(rs))
  BY ExpandSet
<1>2. ASSUME NEW y \in Boxed(ToSet(rs)) PROVE ToSet(y) \subseteq Bogus
  <2>1. PICK r \in ToSet(rs) : \E x \in ToSet(r) : y = Inside[x]
    BY DEF Boxed
  <2>2. PICK x \in ToSet(r) : y = Inside[x]
    BY <2>1
  <2>3. x \in Bogus
    BY DEF AllBogus
  <2>4. y \in Seq(Bogus)
    BY <2>2, <2>3, ContainerAssumption
  <2> QED BY <2>4 DEF ToSet
<1> QED BY <1>1, <1>2 DEF AllBogus

(* What comes of trying the file as a region. *)
RawRead(r) ==
    /\ UNCHANGED <<file, layout, made, at, until, origin, cut>>
    /\ extra' = << >> /\ sections' = << >>
    /\ r = << >> => pc' = "failed" /\ regions' = << >>
    /\ r # << >> => pc' = "read" /\ regions' = Expand(<<r>>) /\ <<r>> \in Seq(Region)
                      /\ ToSet(<<r>>) = {r}

LEMMA FromRawRead ==
    ASSUME Types, FileIs, FromRaw
    PROVE  \E r \in RawRegions : RawIs(r) /\ RawRead(r)
<1>1. PICK r \in RawRegions :
         /\ regions' = IF r = << >> THEN << >> ELSE Expand(<<r>>)
         /\ pc' = IF r = << >> THEN "failed" ELSE "read"
  BY DEF FromRaw
<1>2. RawIs(r)
  BY RawRegionsAre
<1>3. r # << >> => <<r>> \in Seq(Region)
  <2>1. r # << >> => r \in Region
    BY <1>2 DEF RawIs, Region
  <2> QED BY <2>1
<1>4. ToSet(<<r>>) = {r}
  BY DEF ToSet
<1>5. /\ UNCHANGED <<file, layout, made, at, until, origin, cut>>
      /\ extra' = << >> /\ sections' = << >>
  BY DEF FromRaw
<1>6. RawRead(r)
  BY <1>1, <1>3, <1>4, <1>5 DEF RawRead
<1> QED BY <1>2, <1>6

LEMMA FromRawReads ==
    ASSUME ReadInv, FromRaw, cut # "now" => Last(made) = "raw"
    PROVE  ReadInv'
<1>1. Types /\ FileIs /\ Unsized
  BY DEF ReadInv
<1>2. PICK r \in RawRegions : RawIs(r) /\ RawRead(r)
  BY <1>1, FromRawRead
<1>3. UNCHANGED <<file, layout, made, at, until, cut>> /\ extra' = << >> /\ sections' = << >>
      /\ pc' \in {"failed", "read"}
  BY <1>2 DEF RawRead
<1>4. regions' \in Seq(Region)
  <2>1. CASE r = << >>
    <3>1. regions' = << >>
      BY <1>2, <2>1 DEF RawRead
    <3> QED BY <3>1
  <2>2. CASE r # << >>
    <3> DEFINE rs == <<r>>
    <3>1. rs \in Seq(Region) /\ regions' = Expand(rs)
      BY <1>2, <2>2 DEF RawRead
    <3> HIDE DEF rs
    <3> QED BY <3>1, ExpandSet
  <2> QED BY <2>1, <2>2
<1>5. Types'
  BY <1>1, <1>3, <1>4 DEF Types
<1>6. FileIs' /\ Unsized'
  BY <1>1, <1>3, FileKept
<1>7. Descriptors' /\ Entries'
  BY <1>3 DEF Descriptors, Entries
<1>8. BertRead'
  <2> SUFFICES ASSUME pc' = "read", Last(made) = "bert"
               PROVE  cut = "now" /\ Len(made) = 1 /\ AllBogus(ToSet(regions'))
    BY <1>3 DEF BertRead
  <2>1. cut = "now"
    OBVIOUS
  <2> DEFINE rs == <<r>>
  <2>2. r # << >> /\ rs \in Seq(Region) /\ ToSet(rs) = {r} /\ regions' = Expand(rs)
    BY <1>2 DEF RawRead
  <2>3. ToSet(r) \subseteq Bogus /\ file # << >> /\ file[1].sized
    BY <1>2, <2>2 DEF RawIs
  <2>4. Len(made) = 1
    <3>1. Len(made) \in Nat /\ Len(made) > 0
      BY <1>1 DEF Types
    <3>2. ~(Len(made) > 1)
      BY <1>1, <2>3 DEF Unsized
    <3> QED BY <3>1, <3>2
  <2> HIDE DEF rs
  <2>5. AllBogus(ToSet(rs))
    BY <2>2, <2>3 DEF AllBogus
  <2>6. AllBogus(ToSet(Expand(rs)))
    BY <2>2, <2>5, BogusExpand
  <2> QED BY <2>1, <2>2, <2>4, <2>6
<1> QED BY <1>5, <1>6, <1>7, <1>8 DEF ReadInv

LEMMA OpenRawReads == ReadInv /\ OpenRaw => ReadInv'
<1> SUFFICES ASSUME ReadInv, OpenRaw PROVE ReadInv'
  OBVIOUS
<1>1. Types /\ FileIs /\ pc = "file" /\ ~IsBert /\ ~IsCper /\ FromRaw
  BY DEF ReadInv, OpenRaw
<1>2. cut # "now" => Last(made) = "raw"
  BY <1>1, WholeIsOpened
<1> QED BY <1>1, <1>2, FromRawReads

LEMMA BertTooShortReads == ReadInv /\ BertTooShort => ReadInv'
<1> SUFFICES ASSUME ReadInv, BertTooShort PROVE ReadInv'
  OBVIOUS
<1>1. Types /\ FileIs /\ Entries /\ pc = "entries" /\ until > Len(file) /\ FromRaw
  BY DEF ReadInv, BertTooShort
<1>2. cut = "now"
  BY <1>1, ShortIsCut
<1> QED BY <1>1, <1>2, FromRawReads

LEMMA ReadSectionReads == ReadInv /\ ReadSection => ReadInv'
<1> SUFFICES ASSUME ReadInv, ReadSection PROVE ReadInv'
  OBVIOUS
<1> DEFINE p == layout[at + 1]
<1>1. Types /\ FileIs /\ Descriptors /\ pc = "descriptors" /\ at < until
  BY DEF ReadInv, ReadSection
<1>2. /\ Last(made) = "cper" /\ Len(file) >= RecordHeaderSize /\ until = Count(layout)
      /\ WholeUpTo(sections, file, layout, at)
  BY <1>1 DEF Descriptors
<1>3. /\ file \in Seq(Word) /\ layout \in Seq(Place) /\ sections \in Seq(Body)
      /\ at \in Nat /\ Len(layout) \in Nat
  BY <1>1 DEF Types
<1>4. at < Len(layout) /\ at + 1 <= until
  BY <1>1, <1>2, <1>3, CountFacts
<1>5. ReadsAt(p)
  <2>1. CperOf(file, layout, TRUE) \/ CperOf(file, layout, FALSE)
    BY <1>1, <1>2 DEF FileIs, Is
  <2> QED BY <1>3, <1>4, <2>1, SectionRead
<1>6. p \in Place /\ End(p) \in Nat /\ Len(file) \in Nat /\ Sound(p.body) \in BOOLEAN
  BY <1>3, <1>4, PlaceFacts DEF Sound
<1>7. /\ sections \o SectionAt \in Seq(Body)
      /\ WholeUpTo(sections \o SectionAt, file, layout, at + 1)
  <2>1. End(p) <= Len(file) /\ Sound(p.body) => SectionAt = <<p.body>>
    BY <1>5 DEF ReadsAt
  <2>2. ~(End(p) <= Len(file) /\ Sound(p.body))
          => SectionAt = << >> \/ \E c \in Body : SectionAt = <<c>> /\ ~Sound(c)
    BY <1>5, <1>6 DEF ReadsAt
  <2> QED BY <1>2, <1>3, <1>4, <2>1, <2>2, OneMoreRead
<1>8. /\ UNCHANGED <<file, layout, made, pc, until, regions, extra, cut>>
      /\ sections' = sections \o SectionAt /\ at' = at + 1
  BY DEF ReadSection
<1> HIDE DEF p
<1>9. Types'
  BY <1>1, <1>3, <1>7, <1>8 DEF Types
<1>10. FileIs' /\ Unsized'
  BY <1>1, <1>8, FileKept
<1>11. Entries' /\ BertRead'
  BY <1>1, <1>8 DEF Entries, BertRead
<1>12. Descriptors'
  BY <1>2, <1>4, <1>7, <1>8 DEF Descriptors
<1> QED BY <1>9, <1>10, <1>11, <1>12 DEF ReadInv

LEMMA RegionsRead ==
    ASSUME Types
    PROVE  /\ Expand(RegionsOf(sections)) \in Seq(Region)
           /\ OtherSections(sections) \in Seq(Body)
<1>1. sections \in Seq(Body)
  BY DEF Types
<1>2. RegionsOf(sections) \in Seq(Region) /\ OtherSections(sections) \in Seq(Body)
  BY <1>1, RegionSet, OtherSet
<1>3. Expand(RegionsOf(sections)) \in Seq(Region)
  BY <1>2, ExpandSet
<1> QED BY <1>2, <1>3

LEMMA FromCperReads == ReadInv /\ FromCper => ReadInv'
<1> SUFFICES ASSUME ReadInv, FromCper PROVE ReadInv'
  OBVIOUS
<1>1. Types /\ FileIs /\ Descriptors /\ pc = "descriptors"
  BY DEF ReadInv, FromCper
<1>2. Last(made) = "cper"
  BY <1>1 DEF Descriptors
<1>3. UNCHANGED <<file, layout, made, at, until, sections, cut>> /\ pc' \in {"failed", "read"}
  BY DEF FromCper
<1>4. /\ regions' = regions \/ regions' = Expand(RegionsOf(sections))
      /\ extra' = extra \/ extra' = OtherSections(sections)
  BY DEF FromCper
<1>5. Expand(RegionsOf(sections)) \in Seq(Region) /\ OtherSections(sections) \in Seq(Body)
  BY <1>1, RegionsRead
<1>6. Types'
  BY <1>1, <1>3, <1>4, <1>5 DEF Types
<1>7. FileIs' /\ Unsized'
  BY <1>1, <1>3, FileKept
<1>8. Descriptors' /\ Entries' /\ BertRead'
  BY <1>2, <1>3 DEF Descriptors, Entries, BertRead
<1> QED BY <1>6, <1>7, <1>8 DEF ReadInv

(* A BERT that is read is whole. *)
LEMMA BertWhole ==
    ASSUME Types, FileIs, Entries, pc = "entries", until <= Len(file)
    PROVE  /\ cut # "now" /\ until = Len(file) /\ Last(made) = "bert"
           /\ EntriesAre(file, layout, Start(file))
           /\ EntriesRead(sections, file, layout, at)
<1>1. /\ Last(made) = "bert" /\ file # << >> /\ Len(file) >= Start(file)
      /\ until = Start(file) + file[Start(file) - 1].len
      /\ cut # "now" => EntriesRead(sections, file, layout, at)
  BY DEF Entries
<1>2. until \in Nat /\ Len(file) \in Nat
  BY DEF Types
<1>3. ASSUME cut = "now" PROVE FALSE
  <2>1. BertOf(file, layout, FALSE)
    BY <1>1, <1>3 DEF FileIs, Is
  <2>2. Start(file) + file[Start(file) - 1].len > Len(file)
    BY <1>1, <2>1 DEF BertOf
  <2> QED BY <1>1, <1>2, <2>2
<1>4. BertOf(file, layout, TRUE)
  BY <1>1, <1>3 DEF FileIs, Is
<1>5. /\ Start(file) + file[Start(file) - 1].len = Len(file)
      /\ EntriesAre(file, layout, Start(file))
  BY <1>1, <1>4 DEF BertOf
<1> QED BY <1>1, <1>3, <1>5

NextIs(b, next) == EntryBody = <<b>> /\ at + EntrySize = next

LEMMA NextEntry ==
    ASSUME Types, FileIs, Entries, pc = "entries", until <= Len(file)
    PROVE  /\ Len(sections) < Len(layout) =>
                NextIs(layout[Len(sections) + 1].body, End(layout[Len(sections) + 1]))
           /\ Len(sections) >= Len(layout) /\ EntryBody # << >> =>
                \E next \in Nat : next >= at /\ NextIs(Unknown(<< >>), next)
<1> DEFINE start == Start(file)
<1>1. /\ until = Len(file) /\ EntriesAre(file, layout, start)
      /\ EntriesRead(sections, file, layout, at)
  BY BertWhole
<1>2. /\ file \in Seq(Word) /\ layout \in Seq(Place) /\ at \in Nat
      /\ Len(sections) \in Nat /\ Len(layout) \in Nat /\ Len(file) \in Nat
  BY DEF Types
<1>3. start \in Nat
  BY StartFacts
<1> HIDE DEF start
<1>4. ASSUME Len(sections) < Len(layout)
      PROVE  NextIs(layout[Len(sections) + 1].body, End(layout[Len(sections) + 1]))
  <2> DEFINE i == Len(sections) + 1
             p == layout[i]
             x == From(layout, start, i)
  <2>1. i \in 1 .. Len(layout) /\ p \in Place
    BY <1>2, <1>4
  <2>2. /\ p.body \in Body /\ p.at \in Nat /\ p.len \in Nat /\ End(p) \in Nat
        /\ End(p) = p.at + p.len /\ p.body.kind \in Kinds
    BY <2>1, PlaceFacts, BodyFacts
  <2>3. at = x
    BY <1>1, <1>4 DEF EntriesRead, start
  <2>4. EntryIs(file, layout, start, i)
    BY <1>1, <2>1 DEF EntriesAre
  <2>5. PICK rev3 \in BOOLEAN :
           p.at = x + EntryHeaderSize(rev3) /\ file[x + 1] = EntryOf(p, rev3)
    BY <2>4 DEF EntryIs
  <2>6. /\ End(p) <= Len(file)
        /\ BodyFrom(p.body.kind, SubSeq(file, p.at + 1, End(p))) = <<p.body>>
    BY <2>4 DEF EntryIs
  <2> DEFINE e == EntryOf(p, rev3)
  <2>7. e \in Header /\ e.tag = "entry" /\ e.kind = p.body.kind /\ e.rev3 = rev3 /\ e.len = p.len
    BY <2>2 DEF EntryOf, Header
  <2> HIDE DEF e, p, x, i
  <2>8. IsHeader(e, "entry")
    BY <2>7, ContainerAssumption DEF IsHeader
  <2>9. file[at + 1] = e
    BY <2>3, <2>5 DEF e
  <2>10. EntryHeader = e
    BY <2>8, <2>9 DEF EntryHeader
  <2>11. EntryHeaderSize(rev3) \in Nat /\ EntryHeaderSize(rev3) >= 16
    BY DEF EntryHeaderSize
  <2>12. EntrySize = EntryHeaderSize(rev3) + p.len
    BY <2>7, <2>10 DEF EntrySize
  <2>13. /\ at + EntryHeaderSize(EntryHeader.rev3) = p.at /\ at + EntrySize = End(p)
    <3> DEFINE h == EntryHeaderSize(rev3)
               n == p.len
    <3>1. at \in Nat /\ h \in Nat /\ n \in Nat
      BY <1>2, <2>2, <2>11
    <3>2. at + h = p.at /\ EntryHeaderSize(EntryHeader.rev3) = h
      BY <2>3, <2>5, <2>7, <2>10
    <3>3. EntrySize = h + n /\ End(p) = p.at + n
      BY <2>2, <2>12
    <3> HIDE DEF h, n
    <3>4. at + (h + n) = (at + h) + n
      BY <3>1
    <3> QED BY <3>2, <3>3, <3>4
  <2>14. at < until /\ at + EntrySize <= until
    BY <1>1, <1>2, <2>2, <2>6, <2>11, <2>12, <2>13
  <2>15. EntryBody = BodyFrom(p.body.kind, SubSeq(file, p.at + 1, End(p)))
    BY <2>7, <2>10, <2>13, <2>14 DEF EntryBody
  <2> QED BY <2>6, <2>13, <2>15 DEF NextIs, p, i
<1>5. ASSUME Len(sections) >= Len(layout), EntryBody # << >>
      PROVE  \E next \in Nat : next >= at /\ NextIs(Unknown(<< >>), next)
  <2> DEFINE x == From(layout, start, Len(layout) + 1)
  <2>1. at >= x
    BY <1>1, <1>5 DEF EntriesRead, start
  <2>2. x \in Nat
    <3>1. CASE Len(layout) = 0
      BY <1>3, <3>1 DEF From
    <3>2. CASE Len(layout) # 0
      <4>1. Len(layout) \in 1 .. Len(layout) /\ (Len(layout) + 1) - 1 = Len(layout)
            /\ Len(layout) + 1 # 1
        BY <1>2, <3>2
      <4>2. layout[Len(layout)] \in Place
        BY <1>2, <4>1
      <4>3. End(layout[Len(layout)]) \in Nat
        BY <4>2, PlaceFacts
      <4> QED BY <4>1, <4>3 DEF From
    <3> QED BY <3>1, <3>2
  <2>3. at < until /\ at + EntrySize <= until
    BY <1>5 DEF EntryBody
  <2>4. \A k \in x + 1 .. Len(file) : file[k] = Zero
    BY <1>1 DEF EntriesAre
  <2> HIDE DEF x
  <2>5. at + 1 \in x + 1 .. Len(file)
    BY <1>1, <1>2, <2>1, <2>2, <2>3
  <2>6. file[at + 1] = Zero /\ Zero \in Plain
    BY <2>4, <2>5 DEF Plain
  <2>7. EntryHeader = Blank
    BY <2>6 DEF EntryHeader, IsHeader
  <2>8. EntryHeaderSize(EntryHeader.rev3) = 16 /\ EntrySize = 16 /\ EntryHeader.kind = "unknown"
    BY <2>7 DEF EntrySize, EntryHeaderSize, Blank
  <2>9. SubSeq(file, at + 16 + 1, at + 16) = << >>
    BY <1>2
  <2>10. EntryBody = <<Unknown(<< >>)>>
    BY <2>3, <2>8, <2>9 DEF EntryBody, BodyFrom
  <2>11. at + 16 \in Nat /\ at + 16 >= at
    BY <1>2
  <2> QED BY <2>8, <2>10, <2>11 DEF NextIs
<1> QED BY <1>4, <1>5

LEMMA ReadEntryReads == ReadInv /\ ReadEntry => ReadInv'
<1> SUFFICES ASSUME ReadInv, ReadEntry PROVE ReadInv'
  OBVIOUS
<1> DEFINE n == Len(sections)
           b == IF n < Len(layout) THEN layout[n + 1].body ELSE Unknown(<< >>)
<1>1. Types /\ FileIs /\ Entries /\ pc = "entries" /\ until <= Len(file) /\ EntryBody # << >>
  BY DEF ReadInv, ReadEntry
<1>2. /\ cut # "now" /\ EntriesRead(sections, file, layout, at)
  BY <1>1, BertWhole
<1>3. /\ n < Len(layout) => NextIs(layout[n + 1].body, End(layout[n + 1]))
      /\ n >= Len(layout) => \E next \in Nat : next >= at /\ NextIs(Unknown(<< >>), next)
  BY <1>1, NextEntry
<1>4. /\ sections \in Seq(Body) /\ layout \in Seq(Place) /\ at \in Nat
      /\ n \in Nat /\ Len(layout) \in Nat
  BY <1>1 DEF Types
<1>5. /\ UNCHANGED <<file, layout, made, pc, until, regions, extra, cut>>
      /\ sections' = sections \o EntryBody /\ at' = at + EntrySize
  BY DEF ReadEntry
<1>6. b \in Body
  <2>1. n < Len(layout) => layout[n + 1] \in Place
    BY <1>4
  <2>2. << >> \in Seq(Word)
    OBVIOUS
  <2>3. Unknown(<< >>) \in Body
    BY <2>2, BodyTypes
  <2> QED BY <2>1, <2>3, PlaceFacts
<1>7. /\ sections' = Append(sections, b)
      /\ n < Len(layout) => at' = End(layout[n + 1])
      /\ n >= Len(layout) => at' \in Nat /\ at' >= at
  <2>1. EntryBody = <<b>>
    BY <1>3, <1>4 DEF NextIs
  <2>2. sections \o <<b>> = Append(sections, b)
    <3> HIDE DEF b
    <3> QED BY <1>4, <1>6
  <2>3. /\ n < Len(layout) => at + EntrySize = End(layout[n + 1])
        /\ n >= Len(layout) => at + EntrySize \in Nat /\ at + EntrySize >= at
    BY <1>3 DEF NextIs
  <2> HIDE DEF b, n
  <2> QED BY <1>5, <2>1, <2>2, <2>3
<1>8. at' \in Nat
  <2>1. n < Len(layout) => layout[n + 1] \in Place
    BY <1>4
  <2> HIDE DEF n
  <2> QED BY <1>4, <1>7, <2>1, PlaceFacts
<1>9. EntriesRead(sections', file, layout, at')
  <2> DEFINE start == Start(file)
  <2>1. start \in Nat
    BY StartFacts
  <2> HIDE DEF b, start
  <2>2. /\ Len(sections') = n + 1 /\ sections'[n + 1] = b
        /\ \A i \in 1 .. n : sections'[i] = sections[i]
    BY <1>4, <1>6, <1>7
  <2>3. \A i \in 1 .. n + 1 :
           sections'[i] = IF i <= Len(layout) THEN layout[i].body ELSE Unknown(<< >>)
    <3> SUFFICES ASSUME NEW i \in 1 .. n + 1
                 PROVE  sections'[i] = IF i <= Len(layout) THEN layout[i].body ELSE Unknown(<< >>)
      OBVIOUS
    <3>1. CASE i \in 1 .. n
      BY <1>2, <2>2, <3>1 DEF EntriesRead
    <3>2. CASE i = n + 1
      <4>1. i <= Len(layout) <=> n < Len(layout)
        BY <1>4, <3>2
      <4> HIDE DEF n
      <4> QED BY <2>2, <3>2, <4>1 DEF b
    <3> QED BY <1>4, <3>1, <3>2
  <2>4. n + 1 < Len(layout) => at' = From(layout, start, (n + 1) + 1)
    <3> SUFFICES ASSUME n + 1 < Len(layout) PROVE at' = From(layout, start, (n + 1) + 1)
      OBVIOUS
    <3>1. n < Len(layout) /\ (n + 1) + 1 # 1 /\ ((n + 1) + 1) - 1 = n + 1
      BY <1>4
    <3> HIDE DEF n
    <3> QED BY <1>7, <3>1 DEF From
  <2>5. n + 1 >= Len(layout) => at' >= From(layout, start, Len(layout) + 1)
    <3> SUFFICES ASSUME n + 1 >= Len(layout)
                 PROVE  at' >= From(layout, start, Len(layout) + 1)
      OBVIOUS
    <3>1. CASE n < Len(layout)
      <4>1. Len(layout) = n + 1 /\ Len(layout) + 1 # 1 /\ (Len(layout) + 1) - 1 = n + 1
        BY <1>4, <3>1
      <4>2. From(layout, start, Len(layout) + 1) = at'
        BY <1>7, <3>1, <4>1 DEF From
      <4> QED BY <1>8, <4>2
    <3>2. CASE n >= Len(layout)
      <4> DEFINE x == From(layout, start, Len(layout) + 1)
      <4>1. at >= x
        BY <1>2, <3>2 DEF EntriesRead, start
      <4>2. x \in Nat
        <5>1. Len(layout) # 0 => layout[Len(layout)] \in Place
          BY <1>4
        <5>2. Len(layout) # 0 => End(layout[Len(layout)]) \in Nat
          BY <5>1, PlaceFacts
        <5>3. (Len(layout) + 1) - 1 = Len(layout) /\ (Len(layout) + 1 = 1 <=> Len(layout) = 0)
          BY <1>4
        <5> QED BY <2>1, <5>2, <5>3 DEF From
      <4>3. at' >= at /\ at \in Nat
        BY <1>4, <1>7, <3>2
      <4>4. \A k, l \in Nat : k >= l /\ l >= x => k >= x
        <5> HIDE DEF x
        <5> QED BY <4>2
      <4> HIDE DEF x
      <4>5. at' >= x
        BY <1>8, <4>1, <4>3, <4>4
      <4> QED BY <4>5 DEF x
    <3> QED BY <1>4, <3>1, <3>2
  <2> HIDE DEF n
  <2> QED BY <2>2, <2>3, <2>4, <2>5 DEF EntriesRead, start
<1> HIDE DEF n, b
<1>10. Types'
  <2>1. sections' \in Seq(Body)
    BY <1>4, <1>6, <1>7
  <2> QED BY <1>1, <1>5, <1>8, <2>1 DEF Types
<1>11. FileIs' /\ Unsized'
  BY <1>1, <1>5, FileKept
<1>12. Descriptors' /\ BertRead'
  BY <1>1, <1>5 DEF Descriptors, BertRead
<1>13. Entries'
  BY <1>1, <1>5, <1>9 DEF Entries
<1> QED BY <1>10, <1>11, <1>12, <1>13 DEF ReadInv

LEMMA FromBerrReads == ReadInv /\ FromBerr => ReadInv'
<1> SUFFICES ASSUME ReadInv, FromBerr PROVE ReadInv'
  OBVIOUS
<1>1. Types /\ FileIs /\ Entries /\ pc = "entries" /\ until <= Len(file) /\ EntryBody = << >>
  BY DEF ReadInv, FromBerr
<1>2. cut # "now" /\ EntriesRead(sections, file, layout, at)
  BY <1>1, BertWhole
<1>3. Len(sections) < Len(layout) =>
         NextIs(layout[Len(sections) + 1].body, End(layout[Len(sections) + 1]))
  BY <1>1, NextEntry
<1>4. ~(Len(sections) < Len(layout))
  BY <1>1, <1>3 DEF NextIs
<1>5. Len(sections) >= Len(layout)
  BY <1>1, <1>4 DEF Types
<1>6. /\ UNCHANGED <<file, layout, made, at, until, sections, cut>> /\ extra' = << >>
      /\ regions' = Expand(RegionsOf(sections)) /\ pc' \in {"failed", "read"}
  BY DEF FromBerr
<1>7. Expand(RegionsOf(sections)) \in Seq(Region)
  BY <1>1, RegionsRead
<1>8. Types'
  BY <1>1, <1>6, <1>7 DEF Types
<1>9. FileIs' /\ Unsized'
  BY <1>1, <1>6, FileKept
<1>10. Descriptors' /\ Entries'
  BY <1>6 DEF Descriptors, Entries
<1>11. BertRead'
  BY <1>2, <1>5, <1>6 DEF BertRead, EntriesRead
<1> QED BY <1>8, <1>9, <1>10, <1>11 DEF ReadInv

LEMMA ExportedReads ==
    ASSUME ReadInv, NEW bytes, NEW what, NEW places, Exported(bytes, what, places),
           bytes \in Seq(Word), places \in Seq(Place), what \in {"cper", "bert"},
           Is(what, bytes, places, TRUE), what = "bert" => ~bytes[1].sized
    PROVE  ReadInv'
<1>1. /\ file' = bytes /\ layout' = places /\ made' = Append(made, what) /\ pc' = "file"
      /\ cut' = (IF cut = "now" THEN "before" ELSE cut)
      /\ UNCHANGED <<at, until, sections, regions, extra>>
  BY DEF Exported
<1>2. Types
  BY DEF ReadInv
<1>3. Types'
  BY <1>1, <1>2 DEF Types
<1>4. Last(made)' = what /\ cut' # "now"
  BY <1>1, <1>2 DEF Types, Last
<1>5. FileIs' /\ Unsized'
  BY <1>1, <1>4 DEF FileIs, Unsized
<1>6. Descriptors' /\ Entries' /\ BertRead'
  BY <1>1 DEF Descriptors, Entries, BertRead
<1> QED BY <1>3, <1>5, <1>6 DEF ReadInv

LEMMA ExportReads == ReadInv /\ Export => ReadInv'
<1> SUFFICES ASSUME ReadInv, Export PROVE ReadInv'
  OBVIOUS
<1>1. Bodies \in Seq(Body)
  BY BodiesFacts DEF ReadInv
<1>2. /\ CperBytes(Bodies) \in Seq(Word) /\ CperLayout(Bodies) \in Seq(Place)
      /\ CperOf(CperBytes(Bodies), CperLayout(Bodies), TRUE)
  BY <1>1, ExportedCper
<1>3. Exported(CperBytes(Bodies), "cper", CperLayout(Bodies))
  BY DEF Export
<1>4. Is("cper", CperBytes(Bodies), CperLayout(Bodies), TRUE)
  BY <1>2 DEF Is
<1> QED BY <1>2, <1>3, <1>4, ExportedReads

LEMMA ExportBertReads == ReadInv /\ ExportBert => ReadInv'
<1> SUFFICES ASSUME ReadInv, ExportBert PROVE ReadInv'
  OBVIOUS
<1> DEFINE b == Fers(regions)
<1>1. b \in Seq(Body) /\ \A i \in 1 .. Len(b) : Sound(b[i])
  BY FersFacts DEF ReadInv, Types
<1>2. Exported(BertBytes(b), "bert", BertLayout(b))
  BY DEF ExportBert, Fers
<1> HIDE DEF b
<1>3. /\ BertBytes(b) \in Seq(Word) /\ BertLayout(b) \in Seq(Place)
      /\ BertOf(BertBytes(b), BertLayout(b), TRUE) /\ ~BertBytes(b)[1].sized
  BY <1>1, ExportedBert
<1>4. Is("bert", BertBytes(b), BertLayout(b), TRUE)
  BY <1>3 DEF Is
<1> QED BY <1>2, <1>3, <1>4, ExportedReads

LEMMA CutReads == ReadInv /\ Cut => ReadInv'
<1> SUFFICES ASSUME ReadInv, Cut PROVE ReadInv'
  OBVIOUS
<1>1. PICK n \in 0 .. Len(file) - 1 : file' = SubSeq(file, 1, n)
  BY DEF Cut
<1>2. /\ Types /\ FileIs /\ pc = "file" /\ cut # "now" /\ cut' = "now"
      /\ UNCHANGED <<layout, made, pc, at, until, sections, regions, extra>>
  BY DEF ReadInv, Cut
<1>3. /\ file \in Seq(Word) /\ layout \in Seq(Place) /\ Len(file) \in Nat /\ n \in 0 .. Len(file)
  BY <1>2 DEF Types
<1>4. file' \in Seq(Word)
  BY <1>1, <1>3
<1>5. Types'
  BY <1>2, <1>4 DEF Types
<1>6. Is(Last(made), file, layout, TRUE)
  BY <1>2 DEF FileIs
<1>7. Is(Last(made), SubSeq(file, 1, n), layout, FALSE)
  <2>1. ASSUME Last(made) = "cper" PROVE CperOf(SubSeq(file, 1, n), layout, FALSE)
    <3>1. CperOf(file, layout, TRUE)
      BY <1>6, <2>1 DEF Is
    <3> QED BY <1>3, <3>1, CutCper
  <2>2. ASSUME Last(made) = "bert" PROVE BertOf(SubSeq(file, 1, n), layout, FALSE)
    <3>1. BertOf(file, layout, TRUE)
      BY <1>6, <2>2 DEF Is
    <3> QED BY <1>1, <1>3, <3>1, CutBert
  <2>3. ASSUME Last(made) = "raw" PROVE RawOf(SubSeq(file, 1, n), layout, FALSE)
    <3>1. RawOf(file, layout, TRUE)
      BY <1>6, <2>3 DEF Is
    <3>2. /\ file \in Seq(Plain) /\ Len(layout) = 1 /\ file = layout[1].body.data
          /\ layout[1].body = FerOfRegion(layout[1].body.data)
      BY <3>1 DEF RawOf
    <3>3. /\ SubSeq(file, 1, n) \in Seq(Plain) /\ Len(SubSeq(file, 1, n)) = n
          /\ \A i \in 1 .. n : SubSeq(file, 1, n)[i] = file[i]
      BY <1>3, <3>2
    <3>4. Begins(SubSeq(file, 1, n), layout[1].body.data)
      BY <1>3, <3>2, <3>3 DEF Begins
    <3> QED BY <3>2, <3>3, <3>4 DEF RawOf
  <2> QED BY <2>1, <2>2, <2>3 DEF Is
<1>8. FileIs' /\ Unsized'
  <2>1. FileIs'
    BY <1>1, <1>2, <1>7 DEF FileIs
  <2>2. file' # << >> => file # << >> /\ file'[1] = file[1]
    BY <1>1, <1>3
  <2>3. Unsized'
    BY <1>2, <2>2 DEF ReadInv, Unsized
  <2> QED BY <2>1, <2>3
<1>9. Descriptors' /\ Entries' /\ BertRead'
  BY <1>2 DEF Descriptors, Entries, BertRead
<1> QED BY <1>5, <1>8, <1>9 DEF ReadInv

LEMMA NextReads == ReadInv /\ [Next]_vars => ReadInv'
<1> SUFFICES ASSUME ReadInv, [Next]_vars PROVE ReadInv'
  OBVIOUS
<1>2. CASE UNCHANGED vars
  <2>1. UNCHANGED <<file, layout, made, pc, at, until, sections, regions, extra, cut>>
    BY <1>2 DEF vars
  <2>2. Types' /\ FileIs' /\ Unsized'
    BY <2>1, FileKept DEF ReadInv, Types
  <2>3. Descriptors' /\ Entries' /\ BertRead'
    BY <2>1 DEF ReadInv, Descriptors, Entries, BertRead
  <2> QED BY <2>2, <2>3 DEF ReadInv
<1> QED
  BY <1>2, OpenBertReads, OpenCperReads, OpenRawReads, ReadSectionReads, FromCperReads,
     ReadEntryReads, FromBerrReads, BertTooShortReads, ExportReads, ExportBertReads, CutReads
     DEF Next

(* The invariant of all reads: what a file is, and what was read of it.    *)
THEOREM ReadsAreRight == Spec => []ReadInv
<1>1. Init => ReadInv
  BY InitReads
<1>2. ReadInv /\ [Next]_vars => ReadInv'
  BY NextReads
<1> QED BY <1>1, <1>2, PTL DEF Spec

(* Of a CPER cut anywhere, every section that lies whole before the cut is *)
(* read, in its order, and nothing else (Cper::from_slice).                *)
THEOREM EveryWholeSection == Spec => []WholeSectionsRead
<1>1. ReadInv => WholeSectionsRead
  BY DEF ReadInv, Descriptors, WholeUpTo, WholeSectionsRead
<1> QED BY <1>1, ReadsAreRight, PTL

(* A BERT is read whole or none of it (Berr::from_slice); but of a cut one *)
(* of firmware's, bogus records may be read (CrashLog::from_slice).        *)
THEOREM BertWholeOrNone == Spec => []BertAllOrNothing
<1>1. ReadInv => BertAllOrNothing
  <2> SUFFICES ASSUME ReadInv, Last(made) = "bert", pc = "read"
               PROVE  BertAllOrNothing
    BY DEF BertAllOrNothing
  <2>1. CASE cut = "now"
    <3>1. Len(made) = 1 /\ \A r \in ToSet(regions) : ToSet(r) \subseteq Bogus
      BY <2>1 DEF ReadInv, BertRead, AllBogus
    <3>2. UNION {ToSet(r) : r \in ToSet(regions)} \subseteq Bogus
      BY <3>1
    <3> QED BY <2>1, <3>1, <3>2 DEF BertAllOrNothing
  <2>2. CASE cut # "now"
    <3>1. /\ Len(sections) >= Len(layout)
          /\ \A i \in 1 .. Len(sections) :
                sections[i] = IF i <= Len(layout) THEN layout[i].body ELSE Unknown(<< >>)
      BY <2>2 DEF ReadInv, BertRead
    <3>2. Len(sections) \in Nat /\ Len(layout) \in Nat /\ DOMAIN layout = 1 .. Len(layout)
      BY DEF ReadInv, Types
    <3>3. \A i \in DOMAIN layout : i \in 1 .. Len(sections) /\ i <= Len(layout)
      BY <3>1, <3>2
    <3>4. \A i \in DOMAIN layout : sections[i] = layout[i].body
      BY <3>1, <3>3
    <3> QED BY <2>2, <3>1, <3>4 DEF BertAllOrNothing
  <2> QED BY <2>1, <2>2
<1> QED BY <1>1, ReadsAreRight, PTL

---------------------------------------------------------------------------
(* What a file and a crash log hold of what the first file held.           *)

BodiesOf(places) == {places[i].body : i \in 1 .. Len(places)}

Closed(held) ==
    /\ held.regions \subseteq Region
    /\ \A o \in held.regions : \A x \in ToSet(o) :
          Inside[x] # << >> => Inside[x] \in held.regions
    /\ \A b \in held.extra : Sound(b) /\ RegionIn(b) = << >>

(* Or made up by cutting. *)
OutOf(rs, held, lost) ==
    \A r \in rs : \/ \E o \in held.regions : Begins(r, o)
                  \/ lost /\ ToSet(r) \subseteq Bogus
Covers(rs, held) == held.regions \subseteq rs \cup Boxed(rs)

LEMMA OuterWithin ==
    ASSUME NEW A, NEW B, \A b \in A : RegionIn(b) # << >> => b \in B
    PROVE  Outer(A) \subseteq Outer(B)
<1>1. ToSet(<< >>) = {}
  BY DEF ToSet
<1>2. ASSUME NEW r \in Outer(A) PROVE r \in Outer(B)
  <2>1. PICK b \in A : r \in ToSet(RegionIn(b))
    BY DEF Outer
  <2>2. RegionIn(b) # << >>
    BY <1>1, <2>1
  <2>3. b \in B
    BY <2>2
  <2> QED BY <2>1, <2>3 DEF Outer
<1> QED BY <1>2

LEMMA OuterRegions ==
    ASSUME NEW A \in SUBSET Body PROVE Outer(A) \subseteq Region
<1> SUFFICES ASSUME NEW r \in Outer(A) PROVE r \in Region
  OBVIOUS
<1>1. PICK b \in A : r \in ToSet(RegionIn(b))
  BY DEF Outer
<1>2. RegionIn(b) \in Seq(Region)
  BY RegionInFacts
<1>3. \A s \in Seq(Region) : ToSet(s) \subseteq Region
  BY DEF ToSet
<1> QED BY <1>1, <1>2, <1>3

LEMMA InsideFacts ==
    ASSUME NEW x \in Records
    PROVE  /\ Inside[x] \in Seq(Records) /\ (Inside[x] # << >> => Inside[x] \in Region)
           /\ \A y \in ToSet(Inside[x]) : y \in Records /\ Inside[y] = << >>
<1>1. Inside[x] \in Seq(Records)
  BY ContainerAssumption
<1>2. \A k \in DOMAIN Inside[x] : Inside[Inside[x][k]] = << >>
  BY ContainerAssumption
<1> DEFINE s == Inside[x]
<1>3. s \in Seq(Records) /\ \A k \in DOMAIN s : Inside[s[k]] = << >>
  BY <1>1, <1>2
<1> HIDE DEF s
<1>4. s # << >> => s \in Region
  BY <1>3 DEF Region
<1>5. \A y \in ToSet(s) : y \in Records /\ Inside[y] = << >>
  BY <1>3 DEF ToSet
<1> QED BY <1>3, <1>4, <1>5 DEF s

LEMMA BoxedIs ==
    ASSUME NEW rs PROVE \A y : y \in Boxed(rs) <=>
                            y # << >> /\ \E r \in rs : \E x \in ToSet(r) : y = Inside[x]
BY DEF Boxed

LEMMA InRegion ==
    ASSUME NEW r \in Region
    PROVE  r \in Seq(Records) /\ \A x \in ToSet(r) : x \in Records
BY DEF Region, ToSet

(* A region and those in its boxes. *)
LEMMA HeldClosed ==
    ASSUME NEW A \in SUBSET Body, NEW held,
           held.regions = Outer(A) \cup Boxed(Outer(A)),
           held.extra = {b \in A : Sound(b) /\ RegionIn(b) = << >>}
    PROVE  Closed(held)
<1> DEFINE rs == Outer(A)
<1>1. rs \subseteq Region
  BY OuterRegions
<1>2. held.regions = rs \cup Boxed(rs)
  OBVIOUS
<1> HIDE DEF rs
<1>3. ASSUME NEW y \in Boxed(rs)
      PROVE  y \in Region /\ \A x \in ToSet(y) : Inside[x] = << >>
  <2>1. y # << >> /\ \E r \in rs : \E x \in ToSet(r) : y = Inside[x]
    BY BoxedIs
  <2>2. PICK r \in rs : \E x \in ToSet(r) : y = Inside[x]
    BY <2>1
  <2>3. PICK x \in ToSet(r) : y = Inside[x]
    BY <2>2
  <2>4. x \in Records
    BY <1>1, InRegion
  <2> QED BY <2>1, <2>3, <2>4, InsideFacts
<1>4. held.regions \subseteq Region
  BY <1>1, <1>2, <1>3
<1>5. ASSUME NEW o \in held.regions, NEW x \in ToSet(o), Inside[x] # << >>
      PROVE  Inside[x] \in held.regions
  <2>1. o \in rs
    BY <1>2, <1>3, <1>5
  <2>2. Inside[x] \in Boxed(rs)
    BY <1>5, <2>1, BoxedIs
  <2> QED BY <1>2, <2>2
<1>6. \A b \in held.extra : Sound(b) /\ RegionIn(b) = << >>
  OBVIOUS
<1> QED BY <1>4, <1>5, <1>6 DEF Closed

LEMMA BeginsFacts ==
    ASSUME NEW S, NEW a \in Seq(S), NEW b \in Seq(S), NEW c \in Seq(S)
    PROVE  /\ Begins(a, a)
           /\ Begins(a, b) /\ Begins(b, c) => Begins(a, c)
           /\ Begins(a, b) => ToSet(a) \subseteq ToSet(b)
<1>1. /\ Len(a) \in Nat /\ Len(b) \in Nat /\ Len(c) \in Nat
      /\ DOMAIN a = 1 .. Len(a) /\ DOMAIN b = 1 .. Len(b)
  OBVIOUS
<1>2. Begins(a, a)
  BY <1>1 DEF Begins
<1>3. ASSUME Begins(a, b), Begins(b, c) PROVE Begins(a, c)
  <2>1. Len(a) <= Len(c) /\ \A i \in 1 .. Len(a) : i \in 1 .. Len(b)
    BY <1>1, <1>3 DEF Begins
  <2>2. \A i \in 1 .. Len(a) : a[i] = c[i]
    BY <1>3, <2>1 DEF Begins
  <2> QED BY <2>1, <2>2 DEF Begins
<1>4. ASSUME Begins(a, b), NEW x \in ToSet(a) PROVE x \in ToSet(b)
  <2>1. PICK i \in 1 .. Len(a) : a[i] = x
    BY <1>1 DEF ToSet
  <2>2. i \in 1 .. Len(b) /\ b[i] = x
    BY <1>1, <1>4, <2>1 DEF Begins
  <2> QED BY <1>1, <2>2 DEF ToSet
<1> QED BY <1>2, <1>3, <1>4

LEMMA BeginsRegion ==
    ASSUME NEW s \in Seq(Word), NEW d \in Seq(Word), Begins(s, d)
    PROVE  Begins(RegionOf(s), RegionOf(d))
<1>1. Len(s) \in 0 .. Len(d) /\ Len(s) \in Nat
  BY DEF Begins
<1>2. /\ SubSeq(d, 1, Len(s)) \in Seq(Word) /\ Len(SubSeq(d, 1, Len(s))) = Len(s)
      /\ \A i \in 1 .. Len(s) : SubSeq(d, 1, Len(s))[i] = d[i]
  BY <1>1
<1> DEFINE v == SubSeq(d, 1, Len(s))
<1>3. v \in Seq(Word) /\ Len(v) = Len(s) /\ \A i \in 1 .. Len(s) : v[i] = s[i]
  BY <1>2 DEF Begins
<1>4. Begins(RegionOf(v), RegionOf(d))
  BY <1>1, RegionOfCut
<1> HIDE DEF v
<1>5. v = s
  BY <1>3
<1> QED BY <1>4, <1>5

LEMMA ExpandOut ==
    ASSUME NEW rs \in Seq(Region), NEW held, Closed(held), NEW lost \in BOOLEAN,
           OutOf(ToSet(rs), held, lost)
    PROVE  OutOf(ToSet(Expand(rs)), held, lost)
<1>1. ToSet(Expand(rs)) = ToSet(rs) \cup Boxed(ToSet(rs))
  BY ExpandSet
<1>2. ASSUME NEW y \in Boxed(ToSet(rs)), ~(lost /\ ToSet(y) \subseteq Bogus)
      PROVE  \E o \in held.regions : Begins(y, o)
  <2>1. y # << >> /\ \E r \in ToSet(rs) : \E x \in ToSet(r) : y = Inside[x]
    BY BoxedIs
  <2>2. PICK r \in ToSet(rs) : \E x \in ToSet(r) : y = Inside[x]
    BY <2>1
  <2>3. PICK x \in ToSet(r) : y = Inside[x]
    BY <2>2
  <2>10. ~(lost /\ ToSet(r) \subseteq Bogus)
    <3> SUFFICES ASSUME ToSet(r) \subseteq Bogus PROVE ToSet(y) \subseteq Bogus
      BY <1>2
    <3>1. y \in Seq(Bogus)
      BY <2>3, ContainerAssumption
    <3> QED BY <3>1 DEF ToSet
  <2>4. PICK o \in held.regions : Begins(r, o)
    BY <2>10 DEF OutOf
  <2>5. r \in Region /\ o \in Region
    <3>1. \A s \in Seq(Region) : ToSet(s) \subseteq Region
      BY DEF ToSet
    <3> QED BY <3>1 DEF Closed
  <2>6. x \in ToSet(o)
    <3>1. r \in Seq(Records) /\ o \in Seq(Records)
      BY <2>5, InRegion
    <3>2. ToSet(r) \subseteq ToSet(o)
      BY <2>4, <3>1, BeginsFacts
    <3> QED BY <3>2
  <2>7. y \in held.regions
    BY <2>1, <2>3, <2>6 DEF Closed
  <2>8. y \in Seq(Records)
    BY <2>7, InRegion DEF Closed
  <2>9. Begins(y, y)
    BY <2>8, BeginsFacts
  <2> QED BY <2>7, <2>9
<1> QED BY <1>1, <1>2 DEF OutOf

LEMMA ExpandCovers ==
    ASSUME NEW rs \in Seq(Region), NEW held, NEW X, Covers(X, held), X \subseteq ToSet(rs)
    PROVE  held.regions \subseteq ToSet(Expand(rs))
<1>1. ToSet(Expand(rs)) = ToSet(rs) \cup Boxed(ToSet(rs))
  BY ExpandSet
<1>2. Boxed(X) \subseteq Boxed(ToSet(rs))
  <2> SUFFICES ASSUME NEW y \in Boxed(X) PROVE y \in Boxed(ToSet(rs))
    OBVIOUS
  <2>1. y # << >> /\ \E r \in X : \E x \in ToSet(r) : y = Inside[x]
    BY BoxedIs
  <2>2. \E r \in ToSet(rs) : \E x \in ToSet(r) : y = Inside[x]
    BY <2>1
  <2> QED BY <2>1, <2>2, BoxedIs
<1> QED BY <1>1, <1>2 DEF Covers

(* What an export is made of. *)
LEMMA BodiesOfLayout ==
    ASSUME NEW bodies \in Seq(Body), NEW start \in Nat, NEW header \in Nat
    PROVE  BodiesOf(LayoutOf(bodies, start, header)) = ToSet(bodies)
<1> DEFINE l == LayoutOf(bodies, start, header)
<1>1. Len(l) = Len(bodies) /\ \A i \in 1 .. Len(bodies) : l[i].body = bodies[i]
  BY LayoutFacts
<1> HIDE DEF l
<1>2. DOMAIN bodies = 1 .. Len(bodies)
  OBVIOUS
<1>3. BodiesOf(l) = {bodies[i] : i \in 1 .. Len(bodies)}
  BY <1>1 DEF BodiesOf
<1>4. ToSet(bodies) = {bodies[i] : i \in 1 .. Len(bodies)}
  BY <1>2 DEF ToSet
<1> QED BY <1>3, <1>4 DEF l

LEMMA OuterOfExport ==
    ASSUME NEW rs \in Seq(Region), NEW x \in Seq(Body), \A b \in ToSet(x) : RegionIn(b) = << >>
    PROVE  /\ Outer(ToSet(Fers(rs) \o x)) = ToSet(rs)
           /\ ToSet(Fers(rs) \o x) = ToSet(Fers(rs)) \cup ToSet(x)
           /\ \A b \in ToSet(Fers(rs)) : RegionIn(b) # << >>
<1> DEFINE f == Fers(rs)
<1>1. /\ f \in Seq(Body) /\ Len(f) = Len(rs)
      /\ \A i \in 1 .. Len(rs) : RegionIn(f[i]) = <<rs[i]>>
  BY FersFacts
<1>2. DOMAIN f = 1 .. Len(rs) /\ DOMAIN rs = 1 .. Len(rs)
  BY <1>1
<1> HIDE DEF f
<1>3. ToSet(f \o x) = ToSet(f) \cup ToSet(x)
  BY <1>1, CatMembers
<1>4. ToSet(<< >>) = {} /\ \A r : ToSet(<<r>>) = {r} /\ <<r>> # << >>
  BY DEF ToSet
<1>5. \A b \in ToSet(f) : \E i \in 1 .. Len(rs) : b = f[i]
  BY <1>2 DEF ToSet
<1>6. \A i \in 1 .. Len(rs) : f[i] \in ToSet(f) /\ rs[i] \in ToSet(rs)
  BY <1>2 DEF ToSet
<1>7. \A r \in ToSet(rs) : \E i \in 1 .. Len(rs) : r = rs[i]
  BY <1>2 DEF ToSet
<1>8. ASSUME NEW r \in Outer(ToSet(f \o x)) PROVE r \in ToSet(rs)
  <2>1. PICK b \in ToSet(f \o x) : r \in ToSet(RegionIn(b))
    BY DEF Outer
  <2>2. b \in ToSet(f)
    BY <1>3, <1>4, <2>1
  <2>3. PICK i \in 1 .. Len(rs) : b = f[i]
    BY <1>5, <2>2
  <2>4. r = rs[i]
    BY <1>1, <1>4, <2>1, <2>3
  <2> QED BY <1>6, <2>4
<1>9. ASSUME NEW r \in ToSet(rs) PROVE r \in Outer(ToSet(f \o x))
  <2>1. PICK i \in 1 .. Len(rs) : r = rs[i]
    BY <1>7
  <2>2. r \in ToSet(RegionIn(f[i]))
    BY <1>1, <1>4, <2>1
  <2>3. f[i] \in ToSet(f \o x)
    BY <1>3, <1>6
  <2> QED BY <2>2, <2>3 DEF Outer
<1>10. Outer(ToSet(f \o x)) = ToSet(rs)
  BY <1>8, <1>9
<1>11. \A b \in ToSet(f) : RegionIn(b) # << >>
  BY <1>1, <1>4, <1>5
<1> QED BY <1>3, <1>10, <1>11 DEF f

LEMMA BodiesOfFacts ==
    ASSUME NEW places \in Seq(Place)
    PROVE  /\ BodiesOf(places) \subseteq Body
           /\ \A i \in 1 .. Len(places) : places[i].body \in BodiesOf(places)
BY PlaceFacts DEF BodiesOf

(* Of the first file comes all that a later one or a crash log holds.      *)
Kept ==
    /\ Closed(origin)
    /\ OutOf(Outer(BodiesOf(layout)), origin, cut # "no")
    /\ \A b \in BodiesOf(layout) : Sound(b) /\ RegionIn(b) = << >> => b \in origin.extra
    /\ pc = "read" =>
         /\ OutOf(ToSet(regions), origin, cut # "no")
         /\ \A b \in ToSet(extra) : RegionIn(b) = << >> /\ (Sound(b) => b \in origin.extra)

(* If nothing was cut, all of the first file is there, but for what a BERT *)
(* leaves out.                                                             *)
NoBert == "bert" \notin ToSet(made)
Complete ==
    cut = "no" =>
        /\ Covers(Outer(BodiesOf(layout)), origin)
        /\ NoBert => origin.extra \subseteq BodiesOf(layout)
        /\ pc = "read" => /\ origin.regions \subseteq ToSet(regions)
                          /\ NoBert => origin.extra \subseteq ToSet(extra)
        /\ pc = "failed" => origin.regions = {}

(* The count of the sections is an u16 (SectionDescriptors in              *)
(* Cper::normalize): an export of more than it counts loses the rest.      *)
Fits == Len(layout) < 65536

LEMMA InitKept == Init => Kept /\ Complete
<1> SUFFICES ASSUME Init PROVE Kept /\ Complete
  OBVIOUS
<1>1. PICK f \in Files :
         /\ layout = f.layout
         /\ origin = Holds([i \in DOMAIN f.layout |-> f.layout[i].body])
  BY DEF Init
<1>2. layout \in Seq(Place) /\ pc = "file"
  BY <1>1, ContainerAssumption DEF Init
<1> DEFINE bodies == [i \in 1 .. Len(layout) |-> layout[i].body]
           A == BodiesOf(layout)
<1>3. origin = Holds(bodies)
  <2>1. DOMAIN f.layout = 1 .. Len(layout)
    BY <1>1, <1>2
  <2> QED BY <1>1, <2>1
<1>4. A \in SUBSET Body
  BY <1>2, BodiesOfFacts
<1>5. DOMAIN bodies = 1 .. Len(layout) /\ ToSet(bodies) = A
  BY DEF ToSet, BodiesOf
<1>6. UNION {ToSet(RegionIn(bodies[i])) : i \in DOMAIN bodies} = Outer(A)
  <2>1. A = {bodies[i] : i \in DOMAIN bodies}
    BY <1>5 DEF BodiesOf
  <2> HIDE DEF A, bodies
  <2> QED BY <2>1 DEF Outer
<1> HIDE DEF A, bodies
<1>7. /\ origin.regions = Outer(A) \cup Boxed(Outer(A))
      /\ origin.extra = {b \in A : Sound(b) /\ RegionIn(b) = << >>}
  BY <1>3, <1>5, <1>6 DEF Holds
<1>8. Closed(origin)
  BY <1>4, <1>7, HeldClosed
<1>9. OutOf(Outer(A), origin, cut # "no")
  <2> SUFFICES ASSUME NEW r \in Outer(A) PROVE Begins(r, r)
    BY <1>7 DEF OutOf
  <2>1. r \in Seq(Records)
    BY <1>4, OuterRegions, InRegion
  <2> QED BY <2>1, BeginsFacts
<1>10. Covers(Outer(A), origin)
  BY <1>7 DEF Covers
<1>11. origin.extra \subseteq A
  BY <1>7
<1>12. Kept
  BY <1>2, <1>7, <1>8, <1>9 DEF Kept, A
<1>13. Complete
  BY <1>2, <1>10, <1>11 DEF Complete, A
<1> QED BY <1>12, <1>13

(* What is read of the sections of a CPER and of the entries of a BERT.    *)
SomeRead == \A b \in ToSet(sections) : RegionIn(b) # << >> => b \in BodiesOf(layout)
AllRead == \A b \in BodiesOf(layout) : RegionIn(b) # << >> => b \in ToSet(sections)

LEMMA RegionSound ==
    ASSUME NEW b \in Body, RegionIn(b) # << >> PROVE Sound(b)
BY RegionInFacts

LEMMA OfCper ==
    ASSUME ReadInv, pc = "descriptors"
    PROVE  /\ \A b \in ToSet(sections) : Sound(b) => b \in BodiesOf(layout)
           /\ cut # "now" /\ at >= until /\ Fits =>
                \A b \in BodiesOf(layout) : Sound(b) => b \in ToSet(sections)
<1> DEFINE s == [i \in 1 .. at |-> layout[i].body]
           yes == [i \in 1 .. at |-> Sound(layout[i].body) /\ End(layout[i]) <= Len(file)]
           c == [i \in 1 .. at |->
                   Only(layout[i].body, Sound(layout[i].body) /\ End(layout[i]) <= Len(file))]
<1>1. /\ file \in Seq(Word) /\ layout \in Seq(Place) /\ sections \in Seq(Body)
      /\ at \in Nat /\ until \in Nat /\ Len(layout) \in Nat
  BY DEF ReadInv, Types
<1>2. /\ until = Count(layout) /\ at <= until /\ Last(made) = "cper"
      /\ SoundOnes(sections) = FlattenSeq(c)
  BY DEF ReadInv, Descriptors, WholeUpTo
<1>3. at <= Len(layout)
  BY <1>1, <1>2, CountFacts
<1>4. \A i \in 1 .. at : i \in 1 .. Len(layout) /\ layout[i] \in Place /\ layout[i].body \in Body
  BY <1>1, <1>3, PlaceFacts
<1>5. /\ s \in Seq(Body) /\ Len(s) = at /\ yes \in [1 .. Len(s) -> BOOLEAN]
      /\ IsChosen(s, yes, c)
  BY <1>1, <1>4 DEF IsChosen, Sound
<1>6. \A i \in 1 .. at : /\ s[i] = layout[i].body
                         /\ yes[i] <=> Sound(layout[i].body) /\ End(layout[i]) <= Len(file)
  OBVIOUS
<1> HIDE DEF s, yes, c
<1>7. \A x : x \in ToSet(FlattenSeq(c)) <=> \E i \in 1 .. Len(s) : x = s[i] /\ yes[i]
  BY <1>5, Chosen
<1>8. ToSet(FlattenSeq(c)) = {b \in ToSet(sections) : Sound(b)}
  BY <1>1, <1>2, SoundSet
<1>9. \A b \in ToSet(sections) : Sound(b) => b \in BodiesOf(layout)
  <2> SUFFICES ASSUME NEW b \in ToSet(sections), Sound(b) PROVE b \in BodiesOf(layout)
    OBVIOUS
  <2>1. b \in ToSet(FlattenSeq(c))
    BY <1>8
  <2>2. PICK i \in 1 .. Len(s) : b = s[i] /\ yes[i]
    BY <1>7, <2>1
  <2>3. i \in 1 .. at /\ b = layout[i].body
    BY <1>5, <1>6, <2>2
  <2> QED BY <1>4, <2>3 DEF BodiesOf
<1>10. ASSUME cut # "now", at >= until, Fits, NEW b \in BodiesOf(layout), Sound(b)
       PROVE  b \in ToSet(sections)
  <2>1. CperOf(file, layout, TRUE)
    BY <1>2, <1>10 DEF ReadInv, FileIs, Is
  <2>2. at = Len(layout)
    BY <1>1, <1>2, <1>3, <1>10, CountFacts DEF Fits
  <2>3. PICK i \in 1 .. Len(layout) : b = layout[i].body
    BY DEF BodiesOf
  <2>4. End(layout[i]) <= Len(file)
    BY <2>1 DEF CperOf
  <2>5. i \in 1 .. Len(s) /\ s[i] = b /\ yes[i]
    BY <1>5, <1>6, <1>10, <2>2, <2>3, <2>4
  <2> QED BY <1>7, <1>8, <2>5
<1> QED BY <1>9, <1>10

LEMMA OfBert ==
    ASSUME ReadInv, pc = "entries", until <= Len(file), EntryBody = << >>
    PROVE  SomeRead /\ AllRead
<1>1. Types /\ FileIs /\ Entries
  BY DEF ReadInv
<1>2. /\ EntriesRead(sections, file, layout, at)
      /\ Len(sections) < Len(layout) =>
            NextIs(layout[Len(sections) + 1].body, End(layout[Len(sections) + 1]))
  BY <1>1, BertWhole, NextEntry
<1>3. /\ sections \in Seq(Body) /\ Len(sections) \in Nat /\ Len(layout) \in Nat
      /\ DOMAIN sections = 1 .. Len(sections)
  BY <1>1 DEF Types
<1>4. Len(sections) >= Len(layout)
  BY <1>2, <1>3 DEF NextIs
<1>5. \A i \in 1 .. Len(sections) :
         sections[i] = IF i <= Len(layout) THEN layout[i].body ELSE Unknown(<< >>)
  BY <1>2 DEF EntriesRead
<1>6. RegionIn(Unknown(<< >>)) = << >>
  BY DEF RegionIn, Unknown, Only
<1>7. ASSUME NEW b \in ToSet(sections), RegionIn(b) # << >> PROVE b \in BodiesOf(layout)
  <2>1. PICK i \in 1 .. Len(sections) : b = sections[i]
    BY <1>3 DEF ToSet
  <2>2. i <= Len(layout) /\ b = layout[i].body
    BY <1>5, <1>6, <1>7, <2>1
  <2>3. i \in 1 .. Len(layout)
    BY <1>3, <2>2
  <2> QED BY <2>2, <2>3 DEF BodiesOf
<1>8. ASSUME NEW b \in BodiesOf(layout) PROVE b \in ToSet(sections)
  <2>1. PICK i \in 1 .. Len(layout) : b = layout[i].body
    BY DEF BodiesOf
  <2>2. i \in 1 .. Len(sections) /\ i <= Len(layout)
    BY <1>3, <1>4
  <2>3. sections[i] = b
    BY <1>5, <2>1, <2>2
  <2> QED BY <1>3, <2>2, <2>3 DEF ToSet
<1> QED BY <1>7, <1>8 DEF SomeRead, AllRead

LEMMA SomeIsOut ==
    ASSUME ReadInv, Kept, SomeRead
    PROVE  OutOf(ToSet(Expand(RegionsOf(sections))), origin, cut # "no")
<1>1. sections \in Seq(Body)
  BY DEF ReadInv, Types
<1>2. RegionsOf(sections) \in Seq(Region) /\ ToSet(RegionsOf(sections)) = Outer(ToSet(sections))
  BY <1>1, RegionSet
<1>3. Outer(ToSet(sections)) \subseteq Outer(BodiesOf(layout))
  BY OuterWithin DEF SomeRead
<1>4. OutOf(ToSet(RegionsOf(sections)), origin, cut # "no") /\ Closed(origin)
  BY <1>2, <1>3 DEF Kept, OutOf
<1>5. (cut # "no") \in BOOLEAN
  OBVIOUS
<1> QED BY <1>2, <1>4, <1>5, ExpandOut

LEMMA AllCovers ==
    ASSUME ReadInv, AllRead, Covers(Outer(BodiesOf(layout)), origin)
    PROVE  /\ origin.regions \subseteq ToSet(Expand(RegionsOf(sections)))
           /\ RegionsOf(sections) = << >> => origin.regions = {}
<1>1. sections \in Seq(Body)
  BY DEF ReadInv, Types
<1>2. RegionsOf(sections) \in Seq(Region) /\ ToSet(RegionsOf(sections)) = Outer(ToSet(sections))
  BY <1>1, RegionSet
<1>3. Outer(BodiesOf(layout)) \subseteq Outer(ToSet(sections))
  BY OuterWithin DEF AllRead
<1>4. Outer(BodiesOf(layout)) \subseteq ToSet(RegionsOf(sections))
  BY <1>2, <1>3
<1>5. origin.regions \subseteq ToSet(Expand(RegionsOf(sections)))
  BY <1>2, <1>4, ExpandCovers
<1>6. ASSUME RegionsOf(sections) = << >> PROVE origin.regions = {}
  <2>1. ToSet(<< >>) = {} /\ Boxed({}) = {}
    BY DEF ToSet, Boxed
  <2>2. Outer(BodiesOf(layout)) = {}
    BY <1>4, <1>6, <2>1
  <2> QED BY <2>1, <2>2 DEF Covers
<1> QED BY <1>5, <1>6

(* A region short of its end. *)
LEMMA OutOfShorter ==
    ASSUME NEW rs, NEW held, NEW lost, Closed(held), OutOf(rs, held, lost), NEW q \in rs,
           q \in Seq(Records), NEW r \in Seq(Records), Begins(r, q)
    PROVE  OutOf({r}, held, lost)
<1>1. CASE \E o \in held.regions : Begins(q, o)
  <2>1. PICK o \in held.regions : Begins(q, o)
    BY <1>1
  <2>2. o \in Seq(Records)
    BY InRegion DEF Closed
  <2>3. Begins(r, o)
    BY <2>1, <2>2, BeginsFacts
  <2> QED BY <2>3 DEF OutOf
<1>2. CASE lost /\ ToSet(q) \subseteq Bogus
  <2>1. ToSet(r) \subseteq ToSet(q)
    BY BeginsFacts
  <2> QED BY <1>2, <2>1 DEF OutOf
<1> QED BY <1>1, <1>2 DEF OutOf

(* A bare region, whole or cut. *)
LEMMA OfRaw ==
    ASSUME ReadInv, Kept, Last(made) = "raw", RegionOf(file) # << >>
    PROVE  /\ <<RegionOf(file)>> \in Seq(Region)
           /\ OutOf(ToSet(<<RegionOf(file)>>), origin, cut # "no")
<1> DEFINE b == layout[1].body
           d == b.data
           r == RegionOf(file)
           q == RegionOf(d)
<1>1. file \in Seq(Word) /\ layout \in Seq(Place)
  BY DEF ReadInv, Types
<1>2. Len(layout) = 1 /\ b = FerOfRegion(d) /\ Begins(file, d)
  <2>1. RawOf(file, layout, TRUE) \/ RawOf(file, layout, FALSE)
    BY DEF ReadInv, FileIs, Is
  <2> QED BY <2>1 DEF RawOf
<1>3. b \in BodiesOf(layout) /\ b \in Body
  <2>1. 1 \in 1 .. Len(layout)
    BY <1>2
  <2>2. b \in BodiesOf(layout)
    BY <1>1, <2>1, BodiesOfFacts
  <2> QED BY <1>1, <2>2, BodiesOfFacts
<1>4. d \in Seq(Word)
  BY <1>3, BodyFacts
<1>5. b.kind = "fer" /\ b.guid = CrashlogId
  BY <1>2 DEF FerOfRegion, Fer
<1>6. Begins(r, q) /\ r \in Seq(Records) /\ q \in Seq(Records)
  BY <1>1, <1>2, <1>4, BeginsRegion, RegionFacts
<1>7. q # << >>
  <2> HIDE DEF r, q
  <2>1. r # << >>
    BY DEF r
  <2>2. Len(r) # 0 /\ Len(r) <= Len(q)
    BY <1>6, <2>1 DEF Begins
  <2> QED BY <1>6, <2>2
<1>8. RegionIn(b) = <<q>>
  BY <1>5, <1>7 DEF RegionIn, Only
<1>9. q \in Outer(BodiesOf(layout))
  <2>1. q \in ToSet(<<q>>)
    BY DEF ToSet
  <2> HIDE DEF b, q
  <2> QED BY <1>3, <1>8, <2>1 DEF Outer
<1>12. OutOf({r}, origin, cut # "no")
  <2> HIDE DEF r, q
  <2> QED BY <1>6, <1>9, OutOfShorter DEF Kept
<1>13. r \in Region
  BY <1>6 DEF Region
<1> HIDE DEF r
<1>14. ToSet(<<r>>) = {r} /\ <<r>> \in Seq(Region)
  BY <1>13 DEF ToSet
<1> QED BY <1>12, <1>14 DEF r

(* A step that leaves the file, and ends in no crash log.                  *)
LEMMA KeptWithout ==
    ASSUME Kept, UNCHANGED <<layout, origin>>, cut' = cut \/ cut' # "no", pc' # "read"
    PROVE  Kept'
BY DEF Kept, OutOf

LEMMA KeptExport ==
    ASSUME ReadInv, Kept, pc = "read", UNCHANGED origin, pc' = "file",
           cut' = (IF cut = "now" THEN "before" ELSE cut), NEW x \in Seq(Body),
           ToSet(x) \subseteq ToSet(extra), BodiesOf(layout') = ToSet(Fers(regions) \o x)
    PROVE  Kept' /\ Outer(BodiesOf(layout')) = ToSet(regions)
<1>1. regions \in Seq(Region)
  BY DEF ReadInv, Types
<1>2. \A b \in ToSet(x) : RegionIn(b) = << >> /\ (Sound(b) => b \in origin.extra)
  BY DEF Kept
<1>3. /\ Outer(ToSet(Fers(regions) \o x)) = ToSet(regions)
      /\ ToSet(Fers(regions) \o x) = ToSet(Fers(regions)) \cup ToSet(x)
      /\ \A b \in ToSet(Fers(regions)) : RegionIn(b) # << >>
  BY <1>1, <1>2, OuterOfExport
<1>4. Closed(origin) /\ OutOf(ToSet(regions), origin, cut' # "no")
  BY DEF Kept, OutOf
<1>5. \A b \in ToSet(Fers(regions) \o x) :
         Sound(b) /\ RegionIn(b) = << >> => b \in origin.extra
  BY <1>2, <1>3
<1>6. OutOf(Outer(BodiesOf(layout')), origin, cut' # "no")
  BY <1>3, <1>4
<1>7. Kept'
  BY <1>4, <1>5, <1>6 DEF Kept
<1> QED BY <1>3, <1>7

LEMMA ExportBodies ==
    ASSUME ReadInv
    PROVE  /\ Export => /\ layout' = CperLayout(Bodies)
                        /\ BodiesOf(layout') = ToSet(Fers(regions) \o extra)
           /\ ExportBert => BodiesOf(layout') = ToSet(Fers(regions) \o << >>)
<1>1. /\ Bodies = Fers(regions) \o extra /\ Bodies \in Seq(Body)
      /\ Fers(regions) \in Seq(Body)
  BY BodiesFacts DEF ReadInv
<1>2. ASSUME Export PROVE layout' = CperLayout(Bodies)
  BY <1>2 DEF Export, Exported
<1>3. \A n \in Nat : RecordHeaderSize + SectionDescriptorSize * n \in Nat
  BY DEF RecordHeaderSize, SectionDescriptorSize
<1>4. BodiesOf(CperLayout(Bodies)) = ToSet(Bodies)
  <2>1. Len(Bodies) \in Nat
    BY <1>1
  <2> DEFINE start == RecordHeaderSize + SectionDescriptorSize * Len(Bodies)
  <2>2. start \in Nat
    BY <1>3, <2>1
  <2>3. CperLayout(Bodies) = LayoutOf(Bodies, start, 0)
    BY DEF CperLayout
  <2> HIDE DEF start
  <2> QED BY <1>1, <2>2, <2>3, BodiesOfLayout
<1>5. ASSUME ExportBert PROVE BodiesOf(layout') = ToSet(Fers(regions) \o << >>)
  <2> DEFINE b == Fers(regions)
  <2>1. layout' = BertLayout(b)
    BY <1>5 DEF ExportBert, Exported, Fers
  <2> HIDE DEF b
  <2>2. BertLayout(b) = LayoutOf(b, 17, 18)
    BY DEF BertLayout, BertSize, StatusBlockSize, EntryHeaderSize
  <2>3. b \in Seq(Body) /\ b \o << >> = b
    BY <1>1 DEF b
  <2>4. BodiesOf(LayoutOf(b, 17, 18)) = ToSet(b)
    BY <2>3, BodiesOfLayout
  <2> QED BY <2>1, <2>2, <2>3, <2>4 DEF b
<1> QED BY <1>1, <1>2, <1>4, <1>5

LEMMA FromRawKept ==
    ASSUME ReadInv, Kept, FromRaw, cut # "now" => Last(made) = "raw"
    PROVE  Kept'
<1>1. Types /\ FileIs /\ Closed(origin)
  BY DEF ReadInv, Kept
<1>2. PICK r \in RawRegions : RawIs(r) /\ RawRead(r)
  BY <1>1, FromRawRead
<1>3. UNCHANGED <<layout, origin, cut>> /\ extra' = << >>
  BY <1>2 DEF RawRead
<1>4. CASE r = << >>
  <2>1. pc' = "failed"
    BY <1>2, <1>4 DEF RawRead
  <2> QED BY <1>3, <2>1, KeptWithout
<1>5. CASE r # << >>
  <2> DEFINE rs == <<r>>
  <2>1. rs \in Seq(Region) /\ ToSet(rs) = {r} /\ regions' = Expand(rs)
    BY <1>2, <1>5 DEF RawRead
  <2>2. OutOf(ToSet(rs), origin, cut # "no")
    <3>1. CASE r = RegionOf(file) /\ Last(made) = "raw"
      BY <1>5, <3>1, OfRaw
    <3>2. CASE ToSet(r) \subseteq Bogus /\ Last(made) # "raw"
      <4>1. cut # "no"
        BY <3>2
      <4> HIDE DEF rs
      <4> QED BY <2>1, <3>2, <4>1 DEF OutOf
    <3> QED BY <1>2, <1>5, <3>1, <3>2 DEF RawIs
  <2>3. (cut # "no") \in BOOLEAN
    OBVIOUS
  <2> HIDE DEF rs
  <2>4. OutOf(ToSet(Expand(rs)), origin, cut # "no")
    BY <1>1, <2>1, <2>2, <2>3, ExpandOut
  <2>5. ToSet(<< >>) = {}
    BY DEF ToSet
  <2> QED BY <1>3, <2>1, <2>4, <2>5 DEF Kept
<1> QED BY <1>4, <1>5

LEMMA NextKept == ReadInv /\ Kept /\ [Next]_vars => Kept'
<1> SUFFICES ASSUME ReadInv, Kept, [Next]_vars PROVE Kept'
  OBVIOUS
<1>1. CASE OpenBert
  BY <1>1, KeptWithout DEF OpenBert
<1>2. CASE OpenCper
  BY <1>2, KeptWithout DEF OpenCper
<1>3. CASE OpenRaw
  <2>1. Types /\ FileIs /\ pc = "file" /\ ~IsBert /\ ~IsCper /\ FromRaw
    BY <1>3 DEF ReadInv, OpenRaw
  <2>2. cut # "now" => Last(made) = "raw"
    BY <2>1, WholeIsOpened
  <2> QED BY <2>1, <2>2, FromRawKept
<1>4. CASE ReadSection
  BY <1>4, KeptWithout DEF ReadSection
<1>5. CASE FromCper
  <2>1. UNCHANGED <<layout, origin, cut>> /\ pc = "descriptors"
    BY <1>5 DEF FromCper
  <2>2. CASE pc' # "read"
    BY <2>1, <2>2, KeptWithout
  <2>3. CASE pc' = "read"
    <3>1. regions' = Expand(RegionsOf(sections)) /\ extra' = OtherSections(sections)
      BY <1>5, <2>3 DEF FromCper
    <3>2. \A b \in ToSet(sections) : Sound(b) => b \in BodiesOf(layout)
      BY <2>1, OfCper
    <3>3. sections \in Seq(Body) /\ \A b \in ToSet(sections) : b \in Body
      BY DEF ReadInv, Types, ToSet
    <3>4. SomeRead
      BY <3>2, <3>3, RegionSound DEF SomeRead
    <3>5. OutOf(ToSet(regions'), origin, cut # "no")
      BY <3>1, <3>4, SomeIsOut
    <3>6. ToSet(extra') = {b \in ToSet(sections) : RegionIn(b) = << >>}
      BY <3>1, <3>3, OtherSet
    <3>7. \A b \in ToSet(extra') : RegionIn(b) = << >> /\ (Sound(b) => b \in origin.extra)
      BY <3>2, <3>6 DEF Kept
    <3> QED BY <2>1, <3>5, <3>7 DEF Kept
  <2> QED BY <2>2, <2>3
<1>6. CASE ReadEntry
  BY <1>6, KeptWithout DEF ReadEntry
<1>7. CASE FromBerr
  <2>1. /\ UNCHANGED <<layout, origin, cut>> /\ pc = "entries" /\ until <= Len(file)
        /\ EntryBody = << >> /\ regions' = Expand(RegionsOf(sections)) /\ extra' = << >>
    BY <1>7 DEF FromBerr
  <2>2. SomeRead
    BY <2>1, OfBert
  <2>3. OutOf(ToSet(regions'), origin, cut # "no")
    BY <2>1, <2>2, SomeIsOut
  <2>4. ToSet(<< >>) = {}
    BY DEF ToSet
  <2> QED BY <2>1, <2>3, <2>4 DEF Kept
<1>8. CASE BertTooShort
  <2>1. Types /\ FileIs /\ Entries /\ pc = "entries" /\ until > Len(file) /\ FromRaw
    BY <1>8 DEF ReadInv, BertTooShort
  <2>2. cut = "now"
    BY <2>1, ShortIsCut
  <2> QED BY <2>1, <2>2, FromRawKept
<1>9. CASE Export
  <2>1. /\ pc = "read" /\ UNCHANGED origin /\ pc' = "file"
        /\ cut' = (IF cut = "now" THEN "before" ELSE cut)
    BY <1>9 DEF Export, Exported
  <2>2. BodiesOf(layout') = ToSet(Fers(regions) \o extra)
    BY <1>9, ExportBodies
  <2>3. extra \in Seq(Body)
    BY DEF ReadInv, Types
  <2> QED BY <2>1, <2>2, <2>3, KeptExport
<1>10. CASE ExportBert
  <2>1. /\ pc = "read" /\ UNCHANGED origin /\ pc' = "file"
        /\ cut' = (IF cut = "now" THEN "before" ELSE cut)
    BY <1>10 DEF ExportBert, Exported
  <2>2. BodiesOf(layout') = ToSet(Fers(regions) \o << >>)
    BY <1>10, ExportBodies
  <2>3. << >> \in Seq(Body) /\ ToSet(<< >>) \subseteq ToSet(extra)
    BY DEF ToSet
  <2> QED BY <2>1, <2>2, <2>3, KeptExport
<1>11. CASE Cut
  BY <1>11, KeptWithout DEF Cut
<1>12. CASE UNCHANGED vars
  BY <1>12 DEF Kept, vars
<1> QED
  BY <1>1, <1>2, <1>3, <1>4, <1>5, <1>6, <1>7, <1>8, <1>9, <1>10, <1>11, <1>12 DEF Next

LEMMA CompleteWithout ==
    ASSUME Complete, UNCHANGED <<layout, made, origin, cut>>, pc' \notin {"read", "failed"}
    PROVE  Complete'
BY DEF Complete, NoBert

(* The crash log of a whole file. *)
LEMMA CompleteRead ==
    ASSUME Complete, UNCHANGED <<layout, made, origin, cut>>,
           cut = "no" => /\ pc' = "read" => /\ origin.regions \subseteq ToSet(regions')
                                            /\ NoBert => origin.extra \subseteq ToSet(extra')
                         /\ pc' = "failed" => origin.regions = {}
    PROVE  Complete'
BY DEF Complete, NoBert

LEMMA OpenRawComplete ==
    ASSUME ReadInv, Kept, Complete, OpenRaw
    PROVE  Complete'
<1> DEFINE b == layout[1].body
           r == RegionOf(file)
           A == BodiesOf(layout)
<1>0. Types /\ FileIs /\ pc = "file" /\ ~IsBert /\ ~IsCper /\ FromRaw
  BY DEF ReadInv, OpenRaw
<1>1. UNCHANGED <<layout, made, origin, cut>> /\ extra' = << >>
  BY <1>0 DEF FromRaw
<1>2. SUFFICES ASSUME cut = "no"
               PROVE  /\ pc' = "read" => /\ origin.regions \subseteq ToSet(regions')
                                         /\ NoBert => origin.extra \subseteq ToSet(extra')
                      /\ pc' = "failed" => origin.regions = {}
  BY <1>1, CompleteRead
<1>3. /\ Types /\ FileIs /\ file \in Seq(Word) /\ layout \in Seq(Place) /\ Len(file) \in Nat
      /\ Len(layout) \in Nat
  BY DEF ReadInv, Types
<1>4. Is(Last(made), file, layout, TRUE)
  BY <1>2, <1>3 DEF FileIs
<1>7. Last(made) = "raw"
  BY <1>0, <1>2, WholeIsOpened
<1>15. /\ r = << >> => pc' = "failed"
       /\ r # << >> => pc' = "read" /\ regions' = Expand(<<r>>)
  <2>1. RawRegions = {r}
    BY <1>0, <1>7, Kinded DEF RawRegions
  <2>2. PICK q \in RawRegions : RawRead(q)
    BY <1>0, FromRawRead
  <2> HIDE DEF r
  <2>3. q = r
    BY <2>1
  <2> QED BY <2>2, <2>3 DEF RawRead
<1>8. Len(layout) = 1 /\ b = FerOfRegion(file)
  BY <1>4, <1>7 DEF Is, RawOf
<1>9. A = {b}
  BY <1>8 DEF BodiesOf
<1>10. Outer(A) = ToSet(RegionIn(b))
  <2> HIDE DEF A, b
  <2> QED BY <1>9 DEF Outer
<1>11. RegionIn(b) = IF r # << >> THEN <<r>> ELSE << >>
  BY <1>8 DEF RegionIn, Only, FerOfRegion, Fer
<1>12. Covers(Outer(A), origin) /\ (NoBert => origin.extra \subseteq A)
  BY <1>2 DEF Complete
<1> HIDE DEF A, b
<1>13. CASE r = << >>
  <2>1. ToSet(<< >>) = {} /\ Boxed({}) = {}
    BY DEF ToSet, Boxed
  <2>2. Outer(A) = {}
    BY <1>10, <1>11, <1>13, <2>1
  <2>3. origin.regions = {}
    BY <1>12, <2>1, <2>2 DEF Covers
  <2> QED BY <1>13, <1>15, <2>3
<1>14. CASE r # << >>
  <2> DEFINE rs == <<r>>
  <2>1. rs \in Seq(Region)
    BY <1>7, <1>14, OfRaw
  <2>2. Outer(A) = ToSet(rs)
    BY <1>10, <1>11, <1>14
  <2>3. regions' = Expand(rs) /\ pc' = "read"
    BY <1>14, <1>15
  <2> HIDE DEF rs
  <2>4. origin.regions \subseteq ToSet(Expand(rs))
    BY <1>12, <2>1, <2>2, ExpandCovers
  <2>5. RegionIn(b) # << >>
    BY <1>11, <1>14
  <2>6. NoBert => origin.extra = {}
    BY <1>9, <1>12, <2>5 DEF Kept, Closed
  <2> QED BY <2>3, <2>4, <2>6
<1> QED BY <1>13, <1>14

LEMMA NextComplete == ReadInv /\ Kept /\ Complete /\ Fits /\ [Next]_vars => Complete'
<1> SUFFICES ASSUME ReadInv, Kept, Complete, Fits, [Next]_vars PROVE Complete'
  OBVIOUS
<1>1. CASE OpenBert
  BY <1>1, CompleteWithout DEF OpenBert
<1>2. CASE OpenCper
  BY <1>2, CompleteWithout DEF OpenCper
<1>3. CASE OpenRaw
  BY <1>3, OpenRawComplete
<1>4. CASE ReadSection
  BY <1>4, CompleteWithout DEF ReadSection
<1>5. CASE FromCper
  <2>1. UNCHANGED <<layout, made, origin, cut>> /\ pc = "descriptors" /\ at >= until
    BY <1>5 DEF FromCper
  <2>2. SUFFICES ASSUME cut = "no"
                 PROVE  /\ pc' = "read" => /\ origin.regions \subseteq ToSet(regions')
                                           /\ NoBert => origin.extra \subseteq ToSet(extra')
                        /\ pc' = "failed" => origin.regions = {}
    BY <2>1, CompleteRead
  <2>3. \A b \in BodiesOf(layout) : Sound(b) => b \in ToSet(sections)
    BY <2>1, <2>2, OfCper
  <2>4. sections \in Seq(Body) /\ BodiesOf(layout) \subseteq Body
    BY BodiesOfFacts DEF ReadInv, Types
  <2>5. AllRead
    BY <2>3, <2>4, RegionSound DEF AllRead
  <2>6. Covers(Outer(BodiesOf(layout)), origin) /\ (NoBert => origin.extra \subseteq BodiesOf(layout))
    BY <2>2 DEF Complete
  <2>7. /\ origin.regions \subseteq ToSet(Expand(RegionsOf(sections)))
        /\ RegionsOf(sections) = << >> => origin.regions = {}
    BY <2>5, <2>6, AllCovers
  <2>8. CASE RegionsOf(sections) = << >>
    <3>1. pc' = "failed"
      BY <1>5, <2>8 DEF FromCper
    <3> QED BY <2>7, <2>8, <3>1
  <2>9. CASE RegionsOf(sections) # << >>
    <3>1. /\ pc' = "read" /\ regions' = Expand(RegionsOf(sections))
          /\ extra' = OtherSections(sections)
      BY <1>5, <2>9 DEF FromCper
    <3>2. ToSet(extra') = {b \in ToSet(sections) : RegionIn(b) = << >>}
      BY <2>4, <3>1, OtherSet
    <3>3. \A b \in origin.extra : Sound(b) /\ RegionIn(b) = << >>
      BY DEF Kept, Closed
    <3>4. NoBert => origin.extra \subseteq ToSet(extra')
      BY <2>3, <2>6, <3>2, <3>3
    <3> QED BY <2>7, <3>1, <3>4
  <2> QED BY <2>8, <2>9
<1>6. CASE ReadEntry
  BY <1>6, CompleteWithout DEF ReadEntry
<1>7. CASE FromBerr
  <2>1. /\ UNCHANGED <<layout, made, origin, cut>> /\ pc = "entries" /\ until <= Len(file)
        /\ EntryBody = << >> /\ regions' = Expand(RegionsOf(sections))
        /\ pc' = IF RegionsOf(sections) = << >> THEN "failed" ELSE "read"
    BY <1>7 DEF FromBerr
  <2>2. AllRead
    BY <2>1, OfBert
  <2>3. ~NoBert
    <3>1. Last(made) = "bert" /\ made \in Seq({"cper", "bert", "raw"}) /\ Len(made) > 0
      BY <2>1 DEF ReadInv, Entries, Types
    <3>2. Len(made) \in DOMAIN made /\ made[Len(made)] = "bert"
      BY <3>1 DEF Last
    <3> QED BY <3>2 DEF NoBert, ToSet
  <2>4. cut = "no" =>
           /\ origin.regions \subseteq ToSet(Expand(RegionsOf(sections)))
           /\ RegionsOf(sections) = << >> => origin.regions = {}
    BY <2>2, AllCovers DEF Complete
  <2>5. cut = "no" => /\ pc' = "read" => /\ origin.regions \subseteq ToSet(regions')
                                         /\ NoBert => origin.extra \subseteq ToSet(extra')
                      /\ pc' = "failed" => origin.regions = {}
    BY <2>1, <2>3, <2>4
  <2> QED BY <2>1, <2>5, CompleteRead
<1>8. CASE BertTooShort
  <2>1. /\ Types /\ FileIs /\ Entries /\ pc = "entries" /\ until > Len(file)
        /\ UNCHANGED cut
    BY <1>8 DEF ReadInv, BertTooShort, FromRaw
  <2>2. cut = "now"
    BY <2>1, ShortIsCut
  <2> QED BY <2>1, <2>2 DEF Complete
<1>9. CASE Export
  <2>1. /\ pc = "read" /\ UNCHANGED origin /\ pc' = "file" /\ made' = Append(made, "cper")
        /\ cut' = (IF cut = "now" THEN "before" ELSE cut)
        /\ cut' = "no" => cut = "no"
    BY <1>9 DEF Export, Exported
  <2>2. BodiesOf(layout') = ToSet(Fers(regions) \o extra)
    BY <1>9, ExportBodies
  <2>3. extra \in Seq(Body) /\ regions \in Seq(Region) /\ made \in Seq({"cper", "bert", "raw"})
    BY DEF ReadInv, Types
  <2>4. Outer(BodiesOf(layout')) = ToSet(regions)
    BY <2>1, <2>2, <2>3, KeptExport
  <2>5. ToSet(Fers(regions) \o extra) = ToSet(Fers(regions)) \cup ToSet(extra)
    <3>1. Fers(regions) \in Seq(Body)
      BY <2>3, FersFacts
    <3> QED BY <2>3, <3>1, CatMembers
  <2>6. NoBert' => NoBert
    <3>1. ToSet(made) \subseteq ToSet(Append(made, "cper"))
      BY <2>3 DEF ToSet
    <3> QED BY <2>1, <3>1 DEF NoBert
  <2>7. cut' = "no" => Covers(Outer(BodiesOf(layout')), origin)
    BY <2>1, <2>4 DEF Complete, Covers
  <2>8. cut' = "no" /\ NoBert' => origin.extra \subseteq BodiesOf(layout')
    BY <2>1, <2>2, <2>5, <2>6 DEF Complete
  <2> QED BY <2>1, <2>7, <2>8 DEF Complete
<1>10. CASE ExportBert
  <2>1. /\ pc = "read" /\ UNCHANGED origin /\ pc' = "file" /\ made' = Append(made, "bert")
        /\ cut' = (IF cut = "now" THEN "before" ELSE cut)
        /\ cut' = "no" => cut = "no"
    BY <1>10 DEF ExportBert, Exported
  <2>2. BodiesOf(layout') = ToSet(Fers(regions) \o << >>)
    BY <1>10, ExportBodies
  <2>3. << >> \in Seq(Body) /\ ToSet(<< >>) \subseteq ToSet(extra)
    BY DEF ToSet
  <2>4. Outer(BodiesOf(layout')) = ToSet(regions)
    BY <2>1, <2>2, <2>3, KeptExport
  <2>5. ~NoBert'
    <3>1. made \in Seq({"cper", "bert", "raw"})
      BY DEF ReadInv, Types
    <3>2. "bert" \in ToSet(Append(made, "bert"))
      <4>1. Len(made) + 1 \in DOMAIN Append(made, "bert") /\ Append(made, "bert")[Len(made) + 1] = "bert"
        BY <3>1
      <4> QED BY <4>1 DEF ToSet
    <3> QED BY <2>1, <3>2 DEF NoBert
  <2>6. cut' = "no" => Covers(Outer(BodiesOf(layout')), origin)
    BY <2>1, <2>4 DEF Complete, Covers
  <2> QED BY <2>1, <2>5, <2>6 DEF Complete
<1>11. CASE Cut
  <2>1. cut' = "now"
    BY <1>11 DEF Cut
  <2> QED BY <2>1 DEF Complete
<1>12. CASE UNCHANGED vars
  BY <1>12 DEF Complete, NoBert, vars
<1> QED
  BY <1>1, <1>2, <1>3, <1>4, <1>5, <1>6, <1>7, <1>8, <1>9, <1>10, <1>11, <1>12 DEF Next

(* What Faithful says of a crash log without a bound on its sections: its  *)
(* other sections are not made up, nor are its regions, but for those that *)
(* come of a file that was cut and hold bogus records alone.               *)
NothingInvented ==
    pc = "read" =>
        /\ \A r \in ToSet(regions) :
              \/ \E o \in origin.regions : IsPrefix(r, o)
              \/ cut # "no" /\ ToSet(r) \subseteq Bogus
        /\ ToSet(SoundOnes(extra)) \subseteq origin.extra

LEMMA KeptIsFaithful == ReadInv /\ Kept => NothingInvented
<1> SUFFICES ASSUME ReadInv, Kept, pc = "read"
             PROVE  /\ \A r \in ToSet(regions) :
                          \/ \E o \in origin.regions : IsPrefix(r, o)
                          \/ cut # "no" /\ ToSet(r) \subseteq Bogus
                    /\ ToSet(SoundOnes(extra)) \subseteq origin.extra
  BY DEF NothingInvented
<1>1. regions \in Seq(Region) /\ extra \in Seq(Body)
  BY DEF ReadInv, Types
<1>2. ASSUME NEW r \in ToSet(regions), ~(cut # "no" /\ ToSet(r) \subseteq Bogus)
      PROVE  \E o \in origin.regions : IsPrefix(r, o)
  <2>1. PICK o \in origin.regions : Begins(r, o)
    BY <1>2 DEF Kept, OutOf
  <2>2. r \in Region /\ o \in Region
    <3>1. \A s \in Seq(Region) : ToSet(s) \subseteq Region
      BY DEF ToSet
    <3> QED BY <1>1, <3>1 DEF Kept, Closed
  <2>3. r \in Seq(Records) /\ o \in Seq(Records)
    BY <2>2, InRegion
  <2> QED BY <2>1, <2>3, PrefixIs
<1>3. ToSet(SoundOnes(extra)) = {b \in ToSet(extra) : Sound(b)}
  BY <1>1, SoundSet
<1>4. \A b \in ToSet(extra) : Sound(b) => b \in origin.extra
  BY DEF Kept
<1> QED BY <1>2, <1>3, <1>4

(* Whatever is cut and however often it is exported, a crash log holds     *)
(* nothing that the file firmware made did not, but for regions of bogus   *)
(* records alone, that only a cut brings (CrashLog::from_slice).           *)
THEOREM NothingIsInvented == Spec => []NothingInvented
<1>1. Init => Kept
  BY InitKept
<1>2. ReadInv /\ Kept /\ [Next]_vars => Kept'
  BY NextKept
<1>3. ReadInv /\ Kept => NothingInvented
  BY KeptIsFaithful
<1> QED BY <1>1, <1>2, <1>3, ReadsAreRight, PTL DEF Spec

(* Faithful, as long as the u16 section_count holds the number of sections *)
(* of each export (Cper::normalize).                                       *)
THEOREM CrashLogsAreFaithful == Spec /\ []Fits => []Faithful
<1>1. Init => Kept /\ Complete
  BY InitKept
<1>2. ReadInv /\ Kept /\ [Next]_vars => Kept'
  BY NextKept
<1>3. ReadInv /\ Kept /\ Complete /\ Fits /\ [Next]_vars => Complete'
  BY NextComplete
<1>4. NothingInvented /\ Complete => Faithful
  BY DEF NothingInvented, Complete, NoBert, Faithful
<1>5. ReadInv /\ Kept => NothingInvented
  BY KeptIsFaithful
<1> QED BY <1>1, <1>2, <1>3, <1>4, <1>5, ReadsAreRight, PTL DEF Spec

---------------------------------------------------------------------------
(* Exporting what was read of an export. *)

Alike(read, places) ==
    \A i \in 1 .. Len(read) :
       /\ Sound(places[i].body) => read[i] = places[i].body
       /\ ~Sound(places[i].body) => ~Sound(read[i])

ExportOf(bytes, places, rs, others) ==
    /\ \A b \in ToSet(others) : RegionIn(b) = << >>
    /\ places = CperLayout(Fers(rs) \o others)
    /\ cut # "now" => bytes = CperBytes(Fers(rs) \o others)

(* An export, and what is read of a CPER that is not cut.                  *)
Repeats ==
    /\ Last(made) = "cper" /\ Len(made) > 1 =>
         \E rs \in Seq(Region), others \in Seq(Body) : ExportOf(file, layout, rs, others)
    /\ Last(made) = "cper" /\ cut # "now" =>
         /\ pc = "descriptors" => Len(sections) = at /\ Alike(sections, layout)
         /\ pc = "read" => /\ Len(sections) = Len(layout) /\ Alike(sections, layout)
                           /\ regions = Expand(RegionsOf(sections))
                           /\ extra = OtherSections(sections)

LEMMA RepeatsWithout ==
    ASSUME Repeats, UNCHANGED <<file, layout, made, cut>>, pc' \notin {"descriptors", "read"}
    PROVE  Repeats'
BY DEF Repeats, ExportOf

LEMMA RepeatsOther ==
    ASSUME Repeats, UNCHANGED <<file, layout, made, cut>>, Last(made) # "cper"
    PROVE  Repeats'
BY DEF Repeats, ExportOf

LEMMA RepeatsRead ==
    ASSUME Repeats, UNCHANGED <<file, layout, made, cut>>,
           cut # "now" =>
             /\ pc' = "descriptors" => Len(sections') = at' /\ Alike(sections', layout)
             /\ pc' = "read" => /\ Len(sections') = Len(layout) /\ Alike(sections', layout)
                                /\ regions' = Expand(RegionsOf(sections'))
                                /\ extra' = OtherSections(sections')
    PROVE  Repeats'
BY DEF Repeats, ExportOf

LEMMA NextRepeats == ReadInv /\ Kept /\ Repeats /\ Fits /\ [Next]_vars => Repeats'
<1> SUFFICES ASSUME ReadInv, Kept, Repeats, Fits, [Next]_vars PROVE Repeats'
  OBVIOUS
<1>1. CASE OpenBert
  BY <1>1, RepeatsWithout DEF OpenBert
<1>2. CASE OpenCper
  <2>1. /\ UNCHANGED <<file, layout, made, cut>> /\ pc' = "descriptors" /\ at' = 0
        /\ sections' = << >>
    BY <1>2 DEF OpenCper
  <2>2. Len(<< >>) = 0 /\ Alike(<< >>, layout)
    BY DEF Alike
  <2> QED BY <2>1, <2>2, RepeatsRead
<1>3. CASE OpenRaw
  <2>1. /\ Types /\ FileIs /\ pc = "file" /\ ~IsBert /\ ~IsCper
        /\ UNCHANGED <<file, layout, made, cut>> /\ pc' \in {"read", "failed"}
    BY <1>3 DEF ReadInv, OpenRaw, FromRaw
  <2>2. CASE cut # "now"
    <3>1. Last(made) # "cper"
      BY <2>1, <2>2, WholeIsOpened
    <3> QED BY <2>1, <3>1, RepeatsOther
  <2>3. CASE cut = "now"
    BY <2>1, <2>3, RepeatsRead
  <2> QED BY <2>2, <2>3
<1>4. CASE ReadSection
  <2>1. /\ UNCHANGED <<file, layout, made, cut, pc>> /\ pc = "descriptors" /\ at < until
        /\ sections' = sections \o SectionAt /\ at' = at + 1
    BY <1>4 DEF ReadSection
  <2>2. SUFFICES ASSUME cut # "now"
                 PROVE  Len(sections') = at' /\ Alike(sections', layout)
    BY <2>1, RepeatsRead
  <2>3. /\ file \in Seq(Word) /\ layout \in Seq(Place) /\ sections \in Seq(Body)
        /\ at \in Nat /\ Len(layout) \in Nat
    BY DEF ReadInv, Types
  <2>4. Last(made) = "cper" /\ until = Count(layout)
    BY <2>1 DEF ReadInv, Descriptors
  <2>5. CperOf(file, layout, TRUE)
    BY <2>2, <2>4 DEF ReadInv, FileIs, Is
  <2>6. at < Len(layout) /\ at + 1 \in 1 .. Len(layout)
    BY <2>1, <2>3, <2>4, CountFacts
  <2>7. Len(sections) = at /\ Alike(sections, layout)
    BY <2>1, <2>2, <2>4 DEF Repeats
  <2> DEFINE p == layout[at + 1]
  <2>8. End(p) <= Len(file)
    BY <2>5, <2>6 DEF CperOf
  <2>9. ReadsAt(p)
    BY <2>3, <2>5, <2>6, SectionRead
  <2>10. p.body \in Body /\ Sound(p.body) \in BOOLEAN
    BY <2>3, <2>6, PlaceFacts DEF Sound
  <2> HIDE DEF p
  <2>11. PICK c \in Body : /\ SectionAt = <<c>> /\ Sound(p.body) => c = p.body
                           /\ SectionAt = <<c>> /\ ~Sound(p.body) => ~Sound(c)
                           /\ SectionAt = <<c>>
    BY <2>8, <2>9, <2>10 DEF ReadsAt
  <2>12. /\ Len(sections') = at + 1 /\ sections'[at + 1] = c
         /\ \A i \in 1 .. at : sections'[i] = sections[i]
    BY <2>1, <2>3, <2>7, <2>11
  <2>13. \A i \in 1 .. at + 1 : i \in 1 .. at \/ i = at + 1
    BY <2>3
  <2>14. ASSUME NEW i \in 1 .. at + 1
         PROVE  /\ Sound(layout[i].body) => sections'[i] = layout[i].body
                /\ ~Sound(layout[i].body) => ~Sound(sections'[i])
    <3>1. CASE i \in 1 .. at
      BY <2>7, <2>12, <3>1 DEF Alike
    <3>2. CASE i = at + 1
      BY <2>11, <2>12, <3>2 DEF p
    <3> QED BY <2>13, <3>1, <3>2
  <2> QED BY <2>1, <2>12, <2>14 DEF Alike
<1>5. CASE FromCper
  <2>1. /\ UNCHANGED <<file, layout, made, cut, sections>> /\ pc = "descriptors" /\ at >= until
        /\ pc' = "failed" \/ (/\ regions' = Expand(RegionsOf(sections))
                              /\ extra' = OtherSections(sections) /\ pc' = "read")
    BY <1>5 DEF FromCper
  <2>2. /\ layout \in Seq(Place) /\ at \in Nat /\ until \in Nat /\ Len(layout) \in Nat
        /\ until = Count(layout) /\ at <= until /\ Last(made) = "cper"
    BY <2>1 DEF ReadInv, Types, Descriptors
  <2>3. at = Len(layout)
    BY <2>1, <2>2, CountFacts DEF Fits
  <2>4. cut # "now" => Len(sections) = at /\ Alike(sections, layout)
    BY <2>1, <2>2 DEF Repeats
  <2> QED BY <2>1, <2>3, <2>4, RepeatsRead
<1>6. CASE ReadEntry
  <2>1. UNCHANGED <<file, layout, made, cut, pc>> /\ pc = "entries"
    BY <1>6 DEF ReadEntry
  <2> QED BY <2>1, RepeatsWithout
<1>7. CASE FromBerr
  <2>1. UNCHANGED <<file, layout, made, cut>> /\ pc = "entries"
    BY <1>7 DEF FromBerr
  <2>2. Last(made) = "bert"
    BY <2>1 DEF ReadInv, Entries
  <2> QED BY <2>1, <2>2, RepeatsOther
<1>8. CASE BertTooShort
  <2>1. /\ Types /\ FileIs /\ Entries /\ pc = "entries" /\ until > Len(file)
        /\ UNCHANGED <<file, layout, made, cut>>
    BY <1>8 DEF ReadInv, BertTooShort, FromRaw
  <2>2. cut = "now"
    BY <2>1, ShortIsCut
  <2> QED BY <2>1, <2>2, RepeatsRead
<1>9. CASE Export
  <2>1. /\ pc = "read" /\ pc' = "file" /\ file' = CperBytes(Bodies) /\ layout' = CperLayout(Bodies)
    BY <1>9 DEF Export, Exported
  <2>2. /\ Bodies = Fers(regions) \o extra /\ regions \in Seq(Region) /\ extra \in Seq(Body)
    BY BodiesFacts DEF ReadInv, Types
  <2>3. \A b \in ToSet(extra) : RegionIn(b) = << >>
    BY <2>1 DEF Kept
  <2>4. ExportOf(file, layout, regions, extra)'
    <3>1. /\ \A b \in ToSet(extra) : RegionIn(b) = << >>
          /\ layout' = CperLayout(Fers(regions) \o extra)
          /\ file' = CperBytes(Fers(regions) \o extra)
          /\ UNCHANGED <<regions, extra>>
      BY <1>9, <2>1, <2>2, <2>3 DEF Export, Exported
    <3> QED BY <3>1 DEF ExportOf
  <2>5. UNCHANGED <<regions, extra>>
    BY <1>9 DEF Export, Exported
  <2>6. \E rs \in Seq(Region), others \in Seq(Body) : ExportOf(file, layout, rs, others)'
    BY <2>2, <2>4, <2>5
  <2> QED BY <2>1, <2>6 DEF Repeats
<1>10. CASE ExportBert
  <2>1. made' = Append(made, "bert")
    BY <1>10 DEF ExportBert, Exported
  <2>2. made \in Seq({"cper", "bert", "raw"})
    BY DEF ReadInv, Types
  <2>3. Last(made)' = "bert"
    BY <2>1, <2>2 DEF Last
  <2> QED BY <2>3 DEF Repeats
<1>11. CASE Cut
  <2>1. /\ UNCHANGED <<layout, made, pc>> /\ cut' = "now" /\ pc = "file"
    BY <1>11 DEF Cut
  <2>2. ASSUME Last(made) = "cper", Len(made) > 1
        PROVE  \E rs \in Seq(Region), others \in Seq(Body) : ExportOf(file, layout, rs, others)'
    <3>1. PICK rs \in Seq(Region), others \in Seq(Body) : ExportOf(file, layout, rs, others)
      BY <2>2 DEF Repeats
    <3>2. ExportOf(file, layout, rs, others)'
      BY <2>1, <3>1 DEF ExportOf
    <3> QED BY <3>2
  <2> QED BY <2>1, <2>2 DEF Repeats
<1>12. CASE UNCHANGED vars
  BY <1>12 DEF Repeats, ExportOf, vars
<1> QED
  BY <1>1, <1>2, <1>3, <1>4, <1>5, <1>6, <1>7, <1>8, <1>9, <1>10, <1>11, <1>12 DEF Next

(* Read back, an export gives what it was made of, but for the firmware    *)
(* error records of revision 0 or 1 in it.                                 *)
LEMMA ReadOfExport ==
    ASSUME NEW rs \in Seq(Region), NEW others \in Seq(Body), NEW read \in Seq(Body),
           \A b \in ToSet(others) : RegionIn(b) = << >>,
           NEW places, places = CperLayout(Fers(rs) \o others),
           Len(read) = Len(places), Alike(read, places)
    PROVE  /\ RegionsOf(read) = rs
           /\ OtherSections(read) = SoundOnes(OtherSections(read)) => OtherSections(read) = others
<1> DEFINE f == Fers(rs)
           B == f \o others
           m == Len(rs)
           n == Len(others)
           N == Len(read)
           X == [j \in 1 .. n |-> read[m + j]]
           c == [i \in 1 .. N |-> RegionIn(read[i])]
           d == [i \in 1 .. N |-> Only(read[i], RegionIn(read[i]) = << >>)]
<1>1. /\ f \in Seq(Body) /\ Len(f) = m /\ m \in Nat /\ n \in Nat
      /\ \A i \in 1 .. m : Sound(f[i]) /\ RegionIn(f[i]) = <<rs[i]>>
  BY FersFacts
<1> HIDE DEF f
<1>2. IsCat(Body, f, others)
  BY <1>1, CatIs
<1>3. B \in Seq(Body) /\ Len(B) = m + n
  BY <1>1, <1>2 DEF IsCat
<1> HIDE DEF B
<1>4. Len(places) = Len(B) /\ \A i \in 1 .. Len(B) : places[i].body = B[i]
  <2> DEFINE start == RecordHeaderSize + SectionDescriptorSize * Len(B)
  <2>1. start \in Nat
    BY <1>1, <1>3 DEF RecordHeaderSize, SectionDescriptorSize
  <2>2. places = LayoutOf(B, start, 0)
    BY DEF CperLayout, B, f
  <2> HIDE DEF start
  <2> QED BY <1>3, <2>1, <2>2, LayoutFacts
<1>5. N = m + n /\ N \in Nat /\ DOMAIN read = 1 .. N /\ \A i \in 1 .. N : read[i] \in Body
  BY <1>1, <1>3, <1>4
<1>6. \A i \in 1 .. N : /\ Sound(B[i]) => read[i] = B[i]
                        /\ ~Sound(B[i]) => ~Sound(read[i])
  BY <1>3, <1>4, <1>5 DEF Alike
<1>7. /\ \A i \in 1 .. m : i \in 1 .. N /\ B[i] = f[i]
      /\ \A j \in 1 .. n : m + j \in 1 .. N /\ B[m + j] = others[j] /\ others[j] \in ToSet(others)
  <2>1. \A i \in 1 .. m : i \in 1 .. N
    BY <1>1, <1>5
  <2>2. \A j \in 1 .. n : m + j \in 1 .. N /\ others[j] \in ToSet(others)
    BY <1>1, <1>5 DEF ToSet
  <2>3. (\A i \in 1 .. m : B[i] = f[i]) /\ \A j \in 1 .. n : B[m + j] = others[j]
    BY <1>1, <1>2 DEF IsCat, B
  <2> QED BY <2>1, <2>2, <2>3
<1> HIDE DEF N, m, n
<1>8. \A i \in 1 .. m : RegionIn(read[i]) = <<rs[i]>>
  BY <1>1, <1>6, <1>7
<1>9. ASSUME NEW j \in 1 .. n PROVE RegionIn(read[m + j]) = << >>
  <2>1. RegionIn(B[m + j]) = << >> /\ m + j \in 1 .. N /\ read[m + j] \in Body
    BY <1>5, <1>7
  <2>2. CASE Sound(B[m + j])
    BY <1>6, <2>1, <2>2
  <2>3. CASE ~Sound(B[m + j])
    BY <1>6, <2>1, <2>3, RegionInFacts
  <2> QED BY <2>2, <2>3
<1>10. \A i \in 1 .. N : i \in 1 .. m \/ (i > m /\ i - m \in 1 .. n /\ m + (i - m) = i)
  BY <1>1, <1>5
<1>11. RegionsOf(read) = rs
  <2>1. RegionsOf(read) = FlattenSeq(c)
    BY <1>5 DEF RegionsOf
  <2>2. \A i \in 1 .. N : RegionIn(read[i]) \in Seq(Region)
    BY <1>5, RegionInFacts
  <2>3. c \in Seq(Seq(Region)) /\ Len(c) = N /\ \A i \in 1 .. N : c[i] = RegionIn(read[i])
    <3>1. N \in Nat
      BY <1>5
    <3> QED BY <2>2, <3>1
  <2> HIDE DEF c
  <2>4. \A i \in 1 .. N : c[i] = IF i > 0 /\ i <= 0 + Len(rs) THEN <<rs[i - 0]>> ELSE << >>
    <3> SUFFICES ASSUME NEW i \in 1 .. N
                 PROVE  c[i] = IF i > 0 /\ i <= 0 + Len(rs) THEN <<rs[i - 0]>> ELSE << >>
      OBVIOUS
    <3>1. i > 0 /\ i - 0 = i /\ 0 + Len(rs) = m /\ Len(rs) = m
      BY <1>1 DEF m
    <3>2. CASE i \in 1 .. m
      <4>1. i <= m
        BY <3>2
      <4> QED BY <1>8, <2>3, <3>1, <3>2, <4>1
    <3>3. CASE i \notin 1 .. m
      <4>1. i - m \in 1 .. n /\ m + (i - m) = i /\ ~(i <= m)
        BY <1>1, <1>10, <3>3
      <4>2. RegionIn(read[i]) = << >>
        BY <1>9, <4>1
      <4> QED BY <2>3, <3>1, <4>1, <4>2
    <3> QED BY <3>2, <3>3
  <2>5. Amid(c, rs, 0)
    <3>1. 0 + Len(rs) <= Len(c)
      BY <1>1, <1>5, <2>3 DEF m
    <3> QED BY <2>3, <2>4, <3>1 DEF Amid
  <2>6. FlattenSeq(c) = rs
    <3>1. 0 \in Nat
      OBVIOUS
    <3> QED BY <2>3, <2>5, <3>1, FlattenAmid
  <2> QED BY <2>1, <2>6
<1>12. X \in Seq(Body) /\ Len(X) = n /\ \A j \in 1 .. n : X[j] = read[m + j]
  <2>1. \A j \in 1 .. n : read[m + j] \in Body
    BY <1>5, <1>7
  <2> QED BY <1>1, <2>1
<1> HIDE DEF X
<1>13. OtherSections(read) = X
  <2>1. OtherSections(read) = FlattenSeq(d)
    BY <1>5 DEF OtherSections
  <2>2. \A i \in 1 .. N : Only(read[i], RegionIn(read[i]) = << >>) \in Seq(Body)
    BY <1>5 DEF Only
  <2>3. /\ d \in Seq(Seq(Body)) /\ Len(d) = N
        /\ \A i \in 1 .. N : d[i] = Only(read[i], RegionIn(read[i]) = << >>)
    BY <1>5, <2>2
  <2> HIDE DEF d
  <2>4. \A i \in 1 .. N : d[i] = IF i > m /\ i <= m + Len(X) THEN <<X[i - m]>> ELSE << >>
    <3> SUFFICES ASSUME NEW i \in 1 .. N
                 PROVE  d[i] = IF i > m /\ i <= m + Len(X) THEN <<X[i - m]>> ELSE << >>
      OBVIOUS
    <3>1. CASE i \in 1 .. m
      <4>1. ~(i > m)
        BY <1>1, <3>1
      <4>2. RegionIn(read[i]) # << >>
        <5>1. \A x : <<x>> # << >>
          OBVIOUS
        <5>2. RegionIn(read[i]) = <<rs[i]>>
          BY <1>8, <3>1
        <5> QED BY <5>1, <5>2
      <4> QED BY <2>3, <4>1, <4>2 DEF Only
    <3>2. CASE i \notin 1 .. m
      <4>1. i > m /\ i - m \in 1 .. n /\ m + (i - m) = i
        BY <1>10, <3>2
      <4>2. i <= m + Len(X)
        BY <1>1, <1>12, <4>1
      <4>3. RegionIn(read[i]) = << >> /\ X[i - m] = read[i]
        BY <1>9, <1>12, <4>1
      <4> QED BY <2>3, <4>1, <4>2, <4>3 DEF Only
    <3> QED BY <3>1, <3>2
  <2>5. Amid(d, X, m)
    <3>1. m + Len(X) <= Len(d)
      BY <1>1, <1>5, <1>12, <2>3
    <3> QED BY <2>3, <2>4, <3>1 DEF Amid
  <2>6. FlattenSeq(d) = X
    BY <1>1, <1>12, <2>3, <2>5, FlattenAmid
  <2> QED BY <2>1, <2>6
<1>14. ASSUME X = SoundOnes(X) PROVE X = others
  <2>1. ToSet(X) = {b \in ToSet(X) : Sound(b)}
    BY <1>12, <1>14, SoundSet
  <2>2. \A j \in 1 .. n : X[j] \in ToSet(X)
    BY <1>12 DEF ToSet
  <2>3. \A j \in 1 .. n : Sound(read[m + j])
    BY <1>12, <2>1, <2>2
  <2>4. \A j \in 1 .. n : X[j] = others[j]
    BY <1>6, <1>7, <1>12, <2>3
  <2> QED BY <1>12, <2>4 DEF n
<1> QED BY <1>11, <1>13, <1>14

LEMMA ExportAgain ==
    ASSUME ReadInv, Repeats, Export, cut # "now", NoBoxes, extra = SoundOnes(extra),
           Len(made) > 1, Last(made) = "cper"
    PROVE  file' = file
<1>1. pc = "read" /\ file' = CperBytes(Bodies)
  BY DEF Export, Exported
<1>2. PICK rs \in Seq(Region), others \in Seq(Body) : ExportOf(file, layout, rs, others)
  BY DEF Repeats
<1>3. /\ Len(sections) = Len(layout) /\ Alike(sections, layout)
      /\ regions = Expand(RegionsOf(sections)) /\ extra = OtherSections(sections)
  BY <1>1 DEF Repeats
<1>4. sections \in Seq(Body) /\ regions \in Seq(Region) /\ Bodies = Fers(regions) \o extra
  BY BodiesFacts DEF ReadInv, Types
<1>5. RegionsOf(sections) = rs /\ extra = others
  <2>1. /\ \A b \in ToSet(others) : RegionIn(b) = << >>
        /\ layout = CperLayout(Fers(rs) \o others)
    BY <1>2 DEF ExportOf
  <2>2. /\ RegionsOf(sections) = rs
        /\ OtherSections(sections) = SoundOnes(OtherSections(sections))
             => OtherSections(sections) = others
    BY <1>3, <1>4, <2>1, ReadOfExport
  <2> QED BY <1>3, <2>2
<1>6. regions = rs
  <2>1. ToSet(rs) \subseteq ToSet(regions)
    BY <1>3, <1>5, ExpandSet
  <2>2. ASSUME NEW i \in 1 .. Len(rs), NEW x \in ToSet(rs[i]) PROVE Inside[x] = << >>
    <3>1. rs[i] \in ToSet(regions)
      <4>1. rs[i] \in ToSet(rs)
        BY DEF ToSet
      <4> QED BY <2>1, <4>1
    <3>2. PICK j \in DOMAIN regions : regions[j] = rs[i]
      BY <3>1 DEF ToSet
    <3>3. PICK k \in DOMAIN rs[i] : x = rs[i][k]
      BY DEF ToSet
    <3> QED BY <3>2, <3>3 DEF NoBoxes
  <2>3. Expand(rs) = rs
    BY <2>2, ExpandPlain
  <2> QED BY <1>3, <1>5, <2>3
<1>7. file = CperBytes(Fers(rs) \o others)
  BY <1>2 DEF ExportOf
<1> QED BY <1>1, <1>4, <1>5, <1>6, <1>7

(* Reading an export and exporting it again gives the same bytes           *)
(* (CrashLog::to_bytes), if there are no boxes in its regions and no       *)
(* records of revision 0 or 1 among its other sections, and if the u16     *)
(* section_count holds the number of sections.                             *)
THEOREM ExportsSettle == Spec /\ []Fits => Settles
<1>1. Init => Kept /\ Repeats
  <2>1. Init => Repeats
    <3> SUFFICES ASSUME Init PROVE Repeats
      OBVIOUS
    <3>1. pc = "file" /\ \E f \in Files : made = <<f.kind>>
      BY DEF Init
    <3>2. Len(made) = 1
      BY <3>1
    <3> QED BY <3>1, <3>2 DEF Repeats
  <2> QED BY <2>1, InitKept
<1>2. ReadInv /\ Kept /\ [Next]_vars => Kept'
  BY NextKept
<1>3. ReadInv /\ Kept /\ Repeats /\ Fits /\ [Next]_vars => Repeats'
  BY NextRepeats
<1>4. ReadInv /\ Repeats /\ [Next]_vars =>
        [/\ pc = "read" /\ cut # "now" /\ NoBoxes /\ extra = SoundOnes(extra)
         /\ Len(made) > 1 /\ Last(made) = "cper"
         /\ made' = Append(made, "cper")
         => file' = file]_vars
  <2> SUFFICES ASSUME ReadInv, Repeats, Next, pc = "read", cut # "now", NoBoxes,
                      extra = SoundOnes(extra), Len(made) > 1, Last(made) = "cper",
                      made' = Append(made, "cper")
               PROVE  file' = file
    OBVIOUS
  <2>1. made \in Seq({"cper", "bert", "raw"})
    BY DEF ReadInv, Types
  <2>2. Append(made, "cper") # made /\ Append(made, "cper") # Append(made, "bert")
    <3>1. Append(made, "cper")[Len(made) + 1] = "cper" /\ Append(made, "bert")[Len(made) + 1] = "bert"
      BY <2>1
    <3>2. Len(Append(made, "cper")) # Len(made)
      BY <2>1
    <3> QED BY <3>1, <3>2
  <2>3. Export
    BY <2>2 DEF Next, OpenBert, OpenCper, OpenRaw, ReadSection, FromCper, ReadEntry, FromBerr,
                BertTooShort, ExportBert, Exported, Cut
  <2> QED BY <2>3, ExportAgain
<1> QED BY <1>1, <1>2, <1>3, <1>4, ReadsAreRight, PTL DEF Spec, Settles

=============================================================================
