--------------------------- MODULE DecodeProof ---------------------------
(***************************************************************************)
(* Theorems about Decode, for every crash log, all layouts and target      *)
(* information: the trees, and what merging them does to their nodes.      *)
(***************************************************************************)
EXTENDS Triage, FiniteSetTheorems, TLAPS

---------------------------------------------------------------------------
(* Paths. *)
Path == Seq(Name)
Digits == 0 .. 9

LEMMA PathFacts ==
    ASSUME NEW S, NEW p \in Seq(S), p # << >>
    PROVE  /\ Front(p) \in Seq(S) /\ Last(p) \in S
           /\ Len(p) \in Nat \ {0} /\ DOMAIN p = 1 .. Len(p)
           /\ Len(Front(p)) = Len(p) - 1
           /\ \A i \in 1 .. Len(p) - 1 : Front(p)[i] = p[i]
           /\ p[Len(p)] = Last(p)
<1>1. /\ Len(p) \in Nat \ {0} /\ DOMAIN p = 1 .. Len(p)
      /\ \A i \in 1 .. Len(p) : p[i] \in S
  OBVIOUS
<1>2. Len(p) - 1 \in Nat /\ 1 .. Len(p) - 1 \subseteq 1 .. Len(p)
  BY <1>1
<1> DEFINE f == SubSeq(p, 1, Len(p) - 1)
<1>3. f \in Seq(S) /\ Len(f) = Len(p) - 1 /\ \A i \in 1 .. Len(p) - 1 : f[i] = p[i]
  BY <1>1, <1>2
<1>4. Last(p) = p[Len(p)] /\ Last(p) \in S
  BY <1>1 DEF Last
<1> QED BY <1>1, <1>3, <1>4 DEF Front

LEMMA AppendPath ==
    ASSUME NEW S, NEW p \in Seq(S), NEW x \in S
    PROVE  LET q == Append(p, x) IN
           /\ q \in Seq(S) /\ q # << >> /\ Len(q) = Len(p) + 1 /\ Len(p) \in Nat
           /\ \A i \in 1 .. Len(p) : q[i] = p[i]
           /\ q[Len(p) + 1] = x
           /\ Front(q) = p /\ Last(q) = x
<1> DEFINE q == Append(p, x)
<1>1. /\ q \in Seq(S) /\ q # << >> /\ Len(q) = Len(p) + 1 /\ Len(p) \in Nat
      /\ \A i \in 1 .. Len(p) : q[i] = p[i]
      /\ q[Len(p) + 1] = x
  OBVIOUS
<1>2. Last(q) = x
  BY <1>1 DEF Last
<1>3. Front(q) = p
  <2>1. Front(q) \in Seq(S) /\ Len(Front(q)) = Len(p) /\ \A i \in 1 .. Len(p) : Front(q)[i] = p[i]
    <3> HIDE DEF q
    <3>1. Len(q) - 1 = Len(p)
      BY <1>1
    <3>2. \A i \in 1 .. Len(p) : Front(q)[i] = q[i]
      BY <1>1, <3>1, PathFacts
    <3> QED BY <1>1, <3>1, <3>2, PathFacts
  <2> HIDE DEF q
  <2> QED BY <2>1
<1> QED BY <1>1, <1>2, <1>3

(* Two sequences are one if they agree. *)
LEMMA SameSequence ==
    ASSUME NEW S, NEW p \in Seq(S), NEW q \in Seq(S), Len(p) = Len(q),
           \A i \in 1 .. Len(p) : p[i] = q[i]
    PROVE  p = q
OBVIOUS

LEMMA FrontLast ==
    ASSUME NEW S, NEW p \in Seq(S), p # << >>
    PROVE  p = Append(Front(p), Last(p))
<1>1. /\ Front(p) \in Seq(S) /\ Last(p) \in S /\ Len(p) \in Nat \ {0}
      /\ Len(Front(p)) = Len(p) - 1
      /\ \A i \in 1 .. Len(p) - 1 : Front(p)[i] = p[i]
      /\ p[Len(p)] = Last(p)
  BY PathFacts
<1> DEFINE q == Append(Front(p), Last(p))
<1>2. /\ q \in Seq(S) /\ Len(q) = Len(p)
      /\ \A i \in 1 .. Len(p) - 1 : q[i] = p[i]
      /\ q[Len(p)] = p[Len(p)]
  BY <1>1, AppendPath
<1> HIDE DEF q
<1>3. \A i \in 1 .. Len(p) : i \in 1 .. Len(p) - 1 \/ i = Len(p)
  BY <1>1
<1>4. p = q
  BY <1>2, <1>3, SameSequence
<1> QED BY <1>4 DEF q

LEMMA PrefixFacts ==
    ASSUME NEW S, NEW p \in Seq(S), NEW q \in Seq(S)
    PROVE  IsPrefix(p, q) <=> Len(p) <= Len(q) /\ \A i \in 1 .. Len(p) : p[i] = q[i]
<1>1. CASE Len(p) <= Len(q)
  <2> DEFINE a == SubSeq(p, 1, Len(p))
             b == SubSeq(q, 1, Len(p))
  <2>1. /\ a \in Seq(S) /\ b \in Seq(S) /\ Len(a) = Len(p) /\ Len(b) = Len(p)
        /\ \A i \in 1 .. Len(p) : a[i] = p[i] /\ b[i] = q[i]
    BY <1>1
  <2> HIDE DEF a, b
  <2>2. a = b <=> \A i \in 1 .. Len(p) : p[i] = q[i]
    BY <2>1, SameSequence
  <2> QED BY <1>1, <2>2 DEF IsPrefix, a, b
<1>2. CASE ~(Len(p) <= Len(q))
  BY <1>2 DEF IsPrefix
<1> QED BY <1>1, <1>2

(* Below a node is below or at its parent's place. *)
LEMMA PrefixOfFront ==
    ASSUME NEW S, NEW p \in Seq(S), NEW q \in Seq(S), q # << >>
    PROVE  /\ IsStrictPrefix(p, q) <=> IsPrefix(p, Front(q))
           /\ IsStrictPrefix(Front(q), q)
           /\ IsPrefix(p, p)
<1>1. /\ Front(q) \in Seq(S) /\ Len(q) \in Nat \ {0} /\ Len(p) \in Nat
      /\ Len(Front(q)) = Len(q) - 1
      /\ \A i \in 1 .. Len(q) - 1 : Front(q)[i] = q[i]
  BY PathFacts
<1>2. ASSUME IsStrictPrefix(p, q) PROVE IsPrefix(p, Front(q))
  <2>1. Len(p) <= Len(q) /\ \A i \in 1 .. Len(p) : p[i] = q[i]
    BY <1>2, PrefixFacts DEF IsStrictPrefix
  <2>2. Len(p) # Len(q)
    BY <1>2, <2>1, SameSequence DEF IsStrictPrefix
  <2>3. Len(p) <= Len(Front(q)) /\ \A i \in 1 .. Len(p) : p[i] = Front(q)[i]
    BY <1>1, <2>1, <2>2
  <2> QED BY <1>1, <2>3, PrefixFacts
<1>3. ASSUME IsPrefix(p, Front(q)) PROVE IsStrictPrefix(p, q)
  <2>1. Len(p) <= Len(q) - 1 /\ \A i \in 1 .. Len(p) : p[i] = Front(q)[i]
    BY <1>1, <1>3, PrefixFacts
  <2>2. Len(p) <= Len(q) /\ \A i \in 1 .. Len(p) : p[i] = q[i]
    BY <1>1, <2>1
  <2>3. p # q
    BY <1>1, <2>1
  <2> QED BY <2>2, <2>3, PrefixFacts DEF IsStrictPrefix
<1>4. \A r \in Seq(S) : IsPrefix(r, r)
  <2> SUFFICES ASSUME NEW r \in Seq(S) PROVE IsPrefix(r, r)
    OBVIOUS
  <2>1. Len(r) <= Len(r)
    OBVIOUS
  <2> QED BY <2>1, PrefixFacts
<1>5. IsStrictPrefix(Front(q), q)
  <2>1. \A i \in 1 .. Len(Front(q)) : Front(q)[i] = q[i]
    BY <1>1
  <2>2. IsPrefix(Front(q), q)
    BY <1>1, <2>1, PrefixFacts
  <2>3. Front(q) # q
    BY <1>1
  <2> QED BY <2>2, <2>3 DEF IsStrictPrefix
<1> QED BY <1>2, <1>3, <1>4, <1>5

---------------------------------------------------------------------------
LEMMA LeastOf ==
    ASSUME NEW T \in SUBSET Nat, T # {}
    PROVE  \E k \in T : \A m \in T : k <= m
<1> DEFINE Below == {0 .. k : k \in T}
           R == StrictSubsetOrdering(Nat)
<1>1. IsWellFoundedOn(R, FiniteSubsetsOf(Nat))
  BY FS_StrictSubsetOrderingWellFounded
<1>2. Below \subseteq FiniteSubsetsOf(Nat) /\ Below # {}
  <2>1. \A k \in T : k \in Nat
    OBVIOUS
  <2>2. \A k \in Nat : IsFiniteSet(0 .. k) /\ 0 .. k \in SUBSET Nat
    BY FS_Interval
  <2> QED BY <2>1, <2>2 DEF FiniteSubsetsOf
<1> HIDE DEF R
<1>3. PICK B \in Below : \A C \in Below : ~ (<<C, B>> \in R)
  BY <1>1, <1>2, WFMin
<1>4. PICK k \in T : B = 0 .. k
  BY <1>3
<1>5. ASSUME NEW m \in T, m < k PROVE FALSE
  <2>1. m \in Nat /\ k \in Nat
    OBVIOUS
  <2>2. 0 .. m \in Below
    OBVIOUS
  <2>3. 0 .. m \subseteq 0 .. k /\ 0 .. m # 0 .. k
    <3>1. k \in 0 .. k /\ k \notin 0 .. m
      BY <1>5, <2>1
    <3> QED BY <1>5, <2>1, <3>1
  <2>4. <<0 .. m, 0 .. k>> \in R
    BY <2>1, <2>3 DEF R, StrictSubsetOrdering
  <2> QED BY <1>3, <1>4, <2>2, <2>4
<1>6. k \in Nat /\ \A m \in T : m \in Nat /\ ~(m < k)
  BY <1>5
<1> HIDE DEF Below
<1>7. \A m \in T : k <= m
  BY <1>6
<1> QED BY <1>7

(* Induction on the numbers up to N, and functions defined step by step.   *)

LEMMA Induction ==
    ASSUME NEW N \in Nat, NEW T, 0 \in T, \A k \in 1 .. N : k - 1 \in T => k \in T
    PROVE  \A k \in 0 .. N : k \in T
<1> DEFINE Out == {k \in 0 .. N : k \notin T}
<1> SUFFICES ASSUME Out # {} PROVE FALSE
  OBVIOUS
<1>1. Out \in SUBSET Nat
  OBVIOUS
<1>2. PICK k \in Out : \A m \in Out : k <= m
  <2> HIDE DEF Out
  <2> QED BY <1>1, LeastOf
<1>3. k \in 0 .. N /\ k \notin T /\ k # 0
  OBVIOUS
<1>4. k \in 1 .. N /\ k - 1 \in 0 .. N /\ ~(k <= k - 1)
  BY <1>3
<1>5. k - 1 \notin Out
  BY <1>2, <1>4
<1> QED BY <1>3, <1>4, <1>5

Steps(N, S, a, Step, f) ==
    /\ f \in [0 .. N -> S]
    /\ f[0] = a
    /\ \A k \in 1 .. N : f[k - 1] \in S /\ f[k] = Step[k][f[k - 1]]
IsStep(N, S, Step) == Step \in [1 .. N -> [S -> S]]

LEMMA Recursion ==
    ASSUME NEW N \in Nat, NEW S, NEW a \in S, NEW Step, IsStep(N, S, Step)
    PROVE  \E f : Steps(N, S, a, Step, f)
<1> DEFINE Up(k, f) == f[0] = a /\ \A j \in 1 .. k : f[j] = Step[j][f[j - 1]]
           T == {k \in 0 .. N : \E f \in [0 .. k -> S] : Up(k, f)}
<1>1. 0 \in T
  <2> DEFINE f == [j \in 0 .. 0 |-> a]
  <2>1. f \in [0 .. 0 -> S] /\ Up(0, f) /\ 0 \in 0 .. N
    OBVIOUS
  <2> QED BY <2>1
<1>2. ASSUME NEW k \in 1 .. N, k - 1 \in T PROVE k \in T
  <2>1. PICK f \in [0 .. k - 1 -> S] : Up(k - 1, f)
    BY <1>2
  <2> DEFINE g == [j \in 0 .. k |-> IF j < k THEN f[j] ELSE Step[k][f[k - 1]]]
  <2>2. k \in Nat /\ k # 0 /\ k - 1 \in 0 .. k - 1 /\ k \in 0 .. N
    OBVIOUS
  <2>3. \A j \in 0 .. k : j < k => j \in 0 .. k - 1
    BY <2>2
  <2>4. Step[k][f[k - 1]] \in S
    BY <2>2 DEF IsStep
  <2>5. g \in [0 .. k -> S]
    BY <2>3, <2>4
  <2>6. \A j \in 0 .. k - 1 : g[j] = f[j]
    BY <2>2
  <2>7. g[k] = Step[k][f[k - 1]]
    BY <2>2
  <2> HIDE DEF g
  <2>8. 0 \in 0 .. k - 1 /\ \A j \in 1 .. k : j - 1 \in 0 .. k - 1 /\ (j \in 1 .. k - 1 \/ j = k)
    BY <2>2
  <2>9. \A j \in 1 .. k - 1 : j \in 0 .. k - 1
    BY <2>2
  <2>10. Up(k, g)
    BY <2>1, <2>6, <2>7, <2>8, <2>9
  <2> QED BY <2>2, <2>5, <2>10
<1>3. N \in T
  <2> HIDE DEF T
  <2>1. \A k \in 0 .. N : k \in T
    BY <1>1, <1>2, Induction
  <2> QED BY <2>1
<1>4. \A k \in 1 .. N : k - 1 \in 0 .. N
  OBVIOUS
<1> QED BY <1>3, <1>4 DEF Steps

(* The order of the walk. Names, and paths that are not below each other,  *)
(* come one before the other; what is below a node is next to it.          *)

LEMMA FirstDifference ==
    ASSUME NEW S, NEW p \in Seq(S), NEW q \in Seq(S), ~IsPrefix(p, q), ~IsPrefix(q, p)
    PROVE  \E i \in Nat : /\ i \in 1 .. Len(p) /\ i \in 1 .. Len(q) /\ p[i] # q[i]
                          /\ \A j \in 1 .. i - 1 : p[j] = q[j]
<1> DEFINE D == {i \in 1 .. Len(p) : i <= Len(q) /\ p[i] # q[i]}
<1>1. Len(p) \in Nat /\ Len(q) \in Nat
  OBVIOUS
<1>2. D # {}
  <2>1. CASE Len(p) <= Len(q)
    BY <1>1, <2>1, PrefixFacts
  <2>2. CASE Len(q) <= Len(p)
    <3>1. PICK i \in 1 .. Len(q) : q[i] # p[i]
      BY <2>2, PrefixFacts
    <3>2. i \in D
      BY <1>1, <2>2, <3>1
    <3> QED BY <3>2
  <2> QED BY <1>1, <2>1, <2>2
<1>3. D \in SUBSET Nat
  BY <1>1
<1>4. PICK i \in D : \A j \in D : i <= j
  <2> HIDE DEF D
  <2> QED BY <1>2, <1>3, LeastOf
<1>5. ASSUME NEW j \in 1 .. i - 1 PROVE p[j] = q[j]
  <2>1. j \notin D
    BY <1>1, <1>4
  <2> QED BY <1>1, <1>4, <2>1
<1> QED BY <1>1, <1>4, <1>5

LEMMA LessTotal ==
    ASSUME NEW a \in Seq(Int), NEW b \in Seq(Int), a # b
    PROVE  Less(a, b) \/ Less(b, a)
<1>1. CASE IsPrefix(a, b) \/ IsPrefix(b, a)
  BY <1>1 DEF Less, IsStrictPrefix
<1>2. CASE ~IsPrefix(a, b) /\ ~IsPrefix(b, a)
  <2>1. PICK i \in Nat : /\ i \in 1 .. Len(a) /\ i \in 1 .. Len(b) /\ a[i] # b[i]
                         /\ \A j \in 1 .. i - 1 : a[j] = b[j]
    BY <1>2, FirstDifference
  <2>2. /\ i \in DOMAIN a \cap DOMAIN b /\ i \in DOMAIN b \cap DOMAIN a
        /\ a[i] < b[i] \/ b[i] < a[i]
        /\ \A j \in 1 .. i - 1 : b[j] = a[j]
    BY <2>1
  <2> QED BY <2>1, <2>2 DEF Less
<1> QED BY <1>1, <1>2

(* While nodes are left below x that came before z, z has to wait. *)
LEMMA NodesWait ==
    ASSUME NEW x \in Path, NEW y \in Path, NEW z \in Path,
           IsPrefix(x, y), ~IsPrefix(x, z), ~Before(z, x)
    PROVE  Before(y, z)
<1>1. ~IsPrefix(z, x)
  <2>1. z # x
    <3>1. Len(x) \in Nat
      BY DEF Path
    <3>2. IsPrefix(x, x)
      BY <3>1, PrefixFacts DEF Path
    <3> QED BY <3>2
  <2> QED BY <2>1 DEF Before, IsStrictPrefix
<1>2. PICK i \in Nat : /\ i \in 1 .. Len(x) /\ i \in 1 .. Len(z) /\ x[i] # z[i]
                       /\ \A j \in 1 .. i - 1 : x[j] = z[j]
  BY <1>1, FirstDifference DEF Path
<1>3. /\ DOMAIN x = 1 .. Len(x) /\ DOMAIN y = 1 .. Len(y) /\ DOMAIN z = 1 .. Len(z)
      /\ x[i] \in Seq(Int) /\ z[i] \in Seq(Int)
      /\ Len(x) \in Nat /\ Len(y) \in Nat /\ Len(z) \in Nat
  <2>1. \A w \in Path : /\ DOMAIN w = 1 .. Len(w) /\ Len(w) \in Nat
                        /\ \A j \in 1 .. Len(w) : w[j] \in Name
    BY DEF Path
  <2>2. \A a \in Name : a \in Seq(Int)
    BY DEF Name
  <2> QED BY <1>2, <2>1, <2>2
<1>4. ~Less(z[i], x[i])
  <2>1. i \in DOMAIN z \cap DOMAIN x /\ \A j \in 1 .. i - 1 : z[j] = x[j]
    BY <1>2, <1>3
  <2> QED BY <2>1, Zenon DEF Before
<1>5. Less(x[i], z[i])
  BY <1>2, <1>3, <1>4, LessTotal
<1>6. Len(x) <= Len(y) /\ \A j \in 1 .. Len(x) : x[j] = y[j]
  BY PrefixFacts DEF Path
<1>7. /\ i \in DOMAIN y \cap DOMAIN z /\ y[i] = x[i]
      /\ \A j \in 1 .. i - 1 : y[j] = z[j]
  <2>1. \A j \in 1 .. i - 1 : j \in 1 .. Len(x)
    BY <1>2, <1>3
  <2>2. i \in 1 .. Len(y)
    BY <1>2, <1>3, <1>6
  <2> QED BY <1>2, <1>3, <1>6, <2>1, <2>2
<1> QED BY <1>5, <1>7, Zenon DEF Before

---------------------------------------------------------------------------
(* Trees. *)

LEMMA SubFacts ==
    ASSUME NEW S, NEW q \in Seq(S), NEW i \in 1 .. Len(q)
    PROVE  /\ SubSeq(q, 1, i) \in Seq(S) /\ Len(SubSeq(q, 1, i)) = i
           /\ \A j \in 1 .. i : SubSeq(q, 1, i)[j] = q[j]
           /\ i = Len(q) => SubSeq(q, 1, i) = q
           /\ i # Len(q) => i \in 1 .. Len(Front(q)) /\ SubSeq(Front(q), 1, i) = SubSeq(q, 1, i)
<1>1. Len(q) \in Nat /\ i \in Nat /\ i <= Len(q) /\ i >= 1
  OBVIOUS
<1> DEFINE s == SubSeq(q, 1, i)
<1>2. s \in Seq(S) /\ Len(s) = i /\ \A j \in 1 .. i : s[j] = q[j]
  BY <1>1
<1>3. CASE i = Len(q)
  <2> HIDE DEF s
  <2>1. s = q
    BY <1>2, <1>3, SameSequence
  <2> QED BY <1>2, <1>3, <2>1 DEF s
<1>4. CASE i # Len(q)
  <2>1. q # << >>
    BY <1>1
  <2>2. /\ Front(q) \in Seq(S) /\ Len(Front(q)) = Len(q) - 1
        /\ \A j \in 1 .. Len(q) - 1 : Front(q)[j] = q[j]
    BY <2>1, PathFacts
  <2>3. i \in 1 .. Len(Front(q))
    BY <1>1, <1>4, <2>2
  <2> DEFINE r == SubSeq(Front(q), 1, i)
  <2>4. r \in Seq(S) /\ Len(r) = i /\ \A j \in 1 .. i : r[j] = Front(q)[j]
    BY <2>2, <2>3
  <2> HIDE DEF r, s
  <2>5. \A j \in 1 .. i : j \in 1 .. Len(q) - 1
    BY <1>1, <1>4
  <2>6. r = s
    BY <1>2, <2>2, <2>4, <2>5, SameSequence
  <2> QED BY <1>2, <1>4, <2>3, <2>6 DEF r, s
<1> QED BY <1>3, <1>4

LEMMA PrefixClosed ==
    ASSUME NEW t, IsTree(t), NEW q \in DOMAIN t, NEW p \in Path, p # << >>, IsPrefix(p, q)
    PROVE  p \in DOMAIN t
<1>1. q \in Path
  BY DEF IsTree, Path
<1>2. Len(p) <= Len(q) /\ \A i \in 1 .. Len(p) : p[i] = q[i]
  BY <1>1, PrefixFacts DEF Path
<1>3. Len(p) \in 1 .. Len(q)
  BY <1>1, <1>2 DEF Path
<1>4. /\ SubSeq(q, 1, Len(p)) \in Path /\ Len(SubSeq(q, 1, Len(p))) = Len(p)
      /\ \A j \in 1 .. Len(p) : SubSeq(q, 1, Len(p))[j] = q[j]
  BY <1>1, <1>3, SubFacts DEF Path
<1>5. SubSeq(q, 1, Len(p)) = p
  BY <1>2, <1>4, SameSequence DEF Path
<1>6. SubSeq(q, 1, Len(p)) \in DOMAIN t
  BY <1>3 DEF IsTree
<1> QED BY <1>5, <1>6

LEMMA TreeFacts ==
    ASSUME NEW t, IsTree(t), NEW q \in DOMAIN t
    PROVE  /\ q \in Path /\ q # << >> /\ IsNode(t[q])
           /\ Front(q) \in Path /\ Last(q) \in Name
           /\ Front(q) # << >> => Front(q) \in DOMAIN t
<1>1. q \in Path /\ q # << >> /\ IsNode(t[q])
  BY DEF IsTree, Path
<1>2. Front(q) \in Path /\ Last(q) \in Name
  BY <1>1, PathFacts DEF Path
<1>3. IsPrefix(Front(q), q)
  BY <1>1, PrefixOfFront DEF Path, IsStrictPrefix
<1> QED BY <1>1, <1>2, <1>3, PrefixClosed

---------------------------------------------------------------------------
(* The merge of a tree u into a tree t: the nodes in w are still to merge, *)
(* a says where the others have gone, and d are those among them that are  *)
(* new.                                                                    *)
Moving(t, u, w, a, d) ==
    /\ IsTree(t) /\ IsTree(u)
    /\ w \subseteq DOMAIN u
    /\ DOMAIN a = {<< >>} \cup (DOMAIN u \ w) /\ a[<< >>] = << >>
    /\ d \subseteq DOMAIN a \ {<< >>}

Alias(name, of) == \E d \in Seq(Digits) : name = of \o d

LEMMA ConcatFacts ==
    ASSUME NEW S, NEW p \in Seq(S), NEW r \in Seq(S)
    PROVE  /\ p \o r \in Seq(S) /\ Len(p \o r) = Len(p) + Len(r)
           /\ Len(p) \in Nat /\ Len(r) \in Nat
           /\ \A i \in 1 .. Len(p) : (p \o r)[i] = p[i]
           /\ \A i \in 1 .. Len(r) : (p \o r)[Len(p) + i] = r[i]
           /\ p \o << >> = p /\ << >> \o r = r
<1>1. /\ p \o r \in Seq(S) /\ Len(p \o r) = Len(p) + Len(r)
      /\ Len(p) \in Nat /\ Len(r) \in Nat
  OBVIOUS
<1>2. \A i \in 1 .. Len(p) : (p \o r)[i] = p[i]
  OBVIOUS
<1>3. ASSUME NEW i \in 1 .. Len(r) PROVE (p \o r)[Len(p) + i] = r[i]
  <2>1. Len(p) + i \in 1 .. Len(p) + Len(r) /\ ~(Len(p) + i <= Len(p)) /\ Len(p) + i - Len(p) = i
    BY <1>1
  <2> QED BY <1>1, <2>1
<1>4. p \o << >> = p /\ << >> \o r = r
  OBVIOUS
<1> QED BY <1>1, <1>2, <1>3, <1>4

LEMMA SelfAlias ==
    ASSUME NEW name \in Name
    PROVE  Alias(name, name)
<1>1. << >> \in Seq(Digits) /\ name \o << >> = name
  BY ConcatFacts DEF Name
<1> QED BY <1>1 DEF Alias

(* Each is below the place of its parent, under its name or a number of    *)
(* it. What is below a new node is new. What is not new has met a section, *)
(* below sections.                                                         *)
Settled(t, u, a, d) ==
    \A q \in DOMAIN a \ {<< >>} :
        /\ Front(q) \in DOMAIN a
        /\ a[q] \in DOMAIN t /\ Len(a[q]) = Len(q) /\ Front(a[q]) = a[Front(q)]
        /\ Alias(Last(a[q]), Last(q))
        /\ Front(q) \in d => q \in d /\ Last(a[q]) = Last(q)
        /\ q \in d => t[a[q]] = u[q]
        /\ q \notin d => \A i \in 1 .. Len(q) : t[SubSeq(a[q], 1, i)] = Section

InOrder(w, a) == \A x \in DOMAIN a \ {<< >>}, y \in w : ~Before(y, x)

Distinct(a, d) == \A x, y \in d : a[x] = a[y] => x = y

(* Below a new node there is nothing else, at least until all below it     *)
(* have gone there, and for ever if it is no section.                      *)
Full(t, u, w, a, d) ==
    \A x \in d :
        u[x] # Section \/ (\E y \in w : IsPrefix(x, y)) =>
          \A q \in DOMAIN t : IsStrictPrefix(a[x], q) =>
             \E y \in d : IsStrictPrefix(x, y) /\ a[y] = q

Merging(t, u, w, a, d) ==
    Moving(t, u, w, a, d) /\ Settled(t, u, a, d) /\ InOrder(w, a) /\ Distinct(a, d)
    /\ Full(t, u, w, a, d)

LEMMA GoneFacts ==
    ASSUME NEW t, NEW u, NEW w, NEW a, NEW d, Merging(t, u, w, a, d), NEW q \in DOMAIN a
    PROVE  /\ q \in Path /\ q \notin w
           /\ a[q] \in Path /\ Len(a[q]) = Len(q)
           /\ q # << >> => q \in DOMAIN u /\ a[q] \in DOMAIN t /\ a[q] # << >>
<1>1. CASE q = << >>
  <2>1. << >> \notin w
    BY TreeFacts DEF Merging, Moving
  <2>2. a[q] = << >> /\ << >> \in Path
    BY <1>1 DEF Merging, Moving, Path
  <2> QED BY <1>1, <2>1, <2>2
<1>2. CASE q # << >>
  <2>1. q \in DOMAIN u /\ q \notin w
    BY <1>2 DEF Merging, Moving
  <2>2. a[q] \in DOMAIN t /\ Len(a[q]) = Len(q)
    BY <1>2 DEF Merging, Settled
  <2>3. IsTree(t) /\ IsTree(u)
    BY DEF Merging, Moving
  <2> QED BY <2>1, <2>2, <2>3, TreeFacts
<1> QED BY <1>1, <1>2

(* The parent of the node that comes next has gone. *)
LEMMA ParentGone ==
    ASSUME NEW t, NEW u, NEW w, NEW a, NEW d, Merging(t, u, w, a, d),
           NEW z \in w, \A o \in w : ~Before(o, z)
    PROVE  Front(z) \in DOMAIN a
<1>1. z \in DOMAIN u /\ IsTree(u) /\ DOMAIN a = {<< >>} \cup (DOMAIN u \ w)
  BY DEF Merging, Moving
<1>2. /\ z \in Path /\ z # << >> /\ Front(z) \in Path
      /\ Front(z) # << >> => Front(z) \in DOMAIN u
  BY <1>1, TreeFacts
<1>3. Before(Front(z), z)
  BY <1>2, PrefixOfFront DEF Path, Before
<1> QED BY <1>1, <1>2, <1>3

(* It is below every node that has gone and has nodes left below it.       *)
LEMMA NextBelow ==
    ASSUME NEW t, NEW u, NEW w, NEW a, NEW d, Merging(t, u, w, a, d),
           NEW z \in w, \A o \in w : ~Before(o, z),
           NEW x \in DOMAIN a, x # << >>, NEW y \in w, IsPrefix(x, y)
    PROVE  IsStrictPrefix(x, z)
<1>1. x \in Path /\ x \notin w
  BY GoneFacts
<1>2. y \in Path /\ z \in Path
  BY TreeFacts DEF Merging, Moving
<1>3. ~Before(z, x) /\ ~Before(y, z)
  BY DEF Merging, InOrder
<1>4. IsPrefix(x, z)
  BY <1>1, <1>2, <1>3, NodesWait
<1> QED BY <1>1, <1>4 DEF IsStrictPrefix

(* Below a new node there is room. *)
LEMMA RoomBelow ==
    ASSUME NEW t, NEW u, NEW w, NEW a, NEW d, Merging(t, u, w, a, d),
           NEW z \in w, Front(z) \in d
    PROVE  Append(a[Front(z)], Last(z)) \notin DOMAIN t
<1> DEFINE x == Front(z)
           to == Append(a[x], Last(z))
<1> SUFFICES ASSUME to \in DOMAIN t PROVE FALSE
  OBVIOUS
<1>1. z \in Path /\ z # << >> /\ x \in Path /\ Last(z) \in Name
  BY TreeFacts DEF Merging, Moving
<1>2. x \in DOMAIN a /\ x # << >>
  BY DEF Merging, Moving
<1>3. a[x] \in Path /\ Len(a[x]) = Len(x)
  BY <1>2, GoneFacts
<1>4. /\ to \in Path /\ to # << >> /\ Front(to) = a[x] /\ Last(to) = Last(z) /\ Len(to) = Len(x) + 1
  BY <1>1, <1>3, AppendPath DEF Path
<1> HIDE DEF to
<1>5. IsStrictPrefix(a[x], to) /\ IsPrefix(x, z)
  BY <1>1, <1>3, <1>4, PrefixOfFront DEF Path, IsStrictPrefix
<1>6. PICK y \in d : IsStrictPrefix(x, y) /\ a[y] = to
  BY <1>5, Zenon DEF Merging, Full
<1>7. y \in DOMAIN a /\ y # << >> /\ y \in Path /\ y \notin w /\ Len(y) = Len(to)
  <2>1. y \in DOMAIN a /\ y # << >>
    BY DEF Merging, Moving
  <2> QED BY <2>1, <1>6, GoneFacts
<1>8. Front(y) = x
  <2>1. IsPrefix(x, Front(y)) /\ Front(y) \in Path /\ Len(Front(y)) = Len(y) - 1 /\ Len(y) \in Nat
    BY <1>1, <1>6, <1>7, PrefixOfFront, PathFacts DEF Path
  <2>2. Len(Front(y)) = Len(x)
    BY <1>1, <1>4, <1>7, <2>1 DEF Path
  <2>3. \A i \in 1 .. Len(x) : x[i] = Front(y)[i]
    BY <1>1, <2>1, PrefixFacts DEF Path
  <2> QED BY <1>1, <2>1, <2>2, <2>3, SameSequence DEF Path
<1>9. Last(y) = Last(z)
  BY <1>4, <1>6, <1>7, <1>8 DEF Merging, Settled
<1>10. y = z
  BY <1>1, <1>7, <1>8, <1>9, FrontLast DEF Path
<1> QED BY <1>7, <1>10

---------------------------------------------------------------------------
(* A new node. *)
LEMMA TreeGrows ==
    ASSUME NEW t, IsTree(t), NEW to \in Path, to # << >>, NEW x, IsNode(x),
           Front(to) # << >> => Front(to) \in DOMAIN t
    PROVE  IsTree(Insert(t, to, x))
<1> DEFINE t1 == Insert(t, to, x)
<1>1. /\ DOMAIN t1 = DOMAIN t \cup {to} /\ t1[to] = x
      /\ \A q \in DOMAIN t : q # to => t1[q] = t[q]
  BY DEF Insert
<1> HIDE DEF t1
<1>2. ASSUME NEW q \in DOMAIN t1
      PROVE  /\ q \in Path /\ q # << >> /\ IsNode(t1[q])
             /\ \A i \in 1 .. Len(q) : SubSeq(q, 1, i) \in DOMAIN t1
  <2>1. CASE q \in DOMAIN t /\ q # to
    BY <1>1, <2>1 DEF IsTree, Path
  <2>2. CASE q = to
    <3>1. ASSUME NEW i \in 1 .. Len(to) PROVE SubSeq(to, 1, i) \in DOMAIN t1
      <4>1. CASE i = Len(to)
        BY <1>1, <4>1, SubFacts DEF Path
      <4>2. CASE i # Len(to)
        <5>1. i \in 1 .. Len(Front(to)) /\ SubSeq(Front(to), 1, i) = SubSeq(to, 1, i)
          BY <4>2, SubFacts DEF Path
        <5>2. Front(to) # << >>
          BY <5>1
        <5>3. SubSeq(Front(to), 1, i) \in DOMAIN t
          BY <5>1, <5>2 DEF IsTree
        <5> QED BY <1>1, <5>1, <5>3
      <4> QED BY <4>1, <4>2
    <3> QED BY <1>1, <2>2, <3>1
  <2> QED BY <1>1, <2>1, <2>2
<1>3. IsFiniteSet(DOMAIN t1)
  BY <1>1, FS_AddElement DEF IsTree
<1>4. IsTree(t1)
  BY <1>2, <1>3 DEF IsTree, Path
<1> QED BY <1>4 DEF t1

(* A place that is new is not above another. *)
LEMMA NothingBelow ==
    ASSUME NEW t, IsTree(t), NEW to \in Path, to # << >>, to \notin DOMAIN t,
           NEW q \in DOMAIN t \cup {to}
    PROVE  ~IsStrictPrefix(to, q)
<1>1. CASE q = to
  BY <1>1 DEF IsStrictPrefix
<1>2. CASE q \in DOMAIN t
  BY <1>2, PrefixClosed DEF IsStrictPrefix
<1> QED BY <1>1, <1>2

LEMMA OrderKept ==
    ASSUME NEW t, NEW u, NEW w, NEW a, NEW d, Merging(t, u, w, a, d),
           NEW z \in w, \A o \in w : ~Before(o, z), NEW b, DOMAIN b = DOMAIN a \cup {z}
    PROVE  InOrder(w \ {z}, b)
BY DEF Merging, InOrder

LEMMA MergeNew ==
    ASSUME NEW t, NEW u, NEW w, NEW a, NEW d, Merging(t, u, w, a, d),
           NEW z \in w, \A o \in w : ~Before(o, z),
           NEW to \in Path, to # << >>, to \notin DOMAIN t,
           Front(to) = a[Front(z)], Alias(Last(to), Last(z)),
           Front(z) \in d => Last(to) = Last(z)
    PROVE  Merging(Insert(t, to, u[z]), u, w \ {z}, Insert(a, z, to), d \cup {z})
<1> DEFINE t1 == Insert(t, to, u[z])
           w1 == w \ {z}
           a1 == Insert(a, z, to)
           d1 == d \cup {z}
<1>1. /\ IsTree(t) /\ IsTree(u) /\ w \subseteq DOMAIN u
      /\ DOMAIN a = {<< >>} \cup (DOMAIN u \ w) /\ a[<< >>] = << >>
      /\ d \subseteq DOMAIN a \ {<< >>}
  BY DEF Merging, Moving
<1>2. z \in Path /\ z # << >> /\ IsNode(u[z]) /\ z \in DOMAIN u /\ Front(z) \in Path
  BY <1>1, TreeFacts
<1>3. Front(z) \in DOMAIN a
  BY ParentGone
<1>4. /\ DOMAIN t1 = DOMAIN t \cup {to} /\ t1[to] = u[z]
      /\ \A q \in DOMAIN t : t1[q] = t[q]
  BY DEF Insert
<1>5. z \notin DOMAIN a /\ z \notin d
  BY <1>1, <1>2
<1>6. /\ DOMAIN a1 = DOMAIN a \cup {z} /\ a1[z] = to
      /\ \A q \in DOMAIN a : a1[q] = a[q]
  BY <1>5 DEF Insert
<1> HIDE DEF t1, a1
<1>7. a[Front(z)] \in Path /\ Len(a[Front(z)]) = Len(Front(z))
      /\ (Front(z) # << >> => a[Front(z)] \in DOMAIN t)
  BY <1>3, GoneFacts
<1>8. Len(to) = Len(z) /\ Len(to) \in Nat \ {0}
  BY <1>2, <1>7, PathFacts DEF Path
<1>9. Moving(t1, u, w1, a1, d1)
  <2>1. Front(to) # << >> => Front(to) \in DOMAIN t
    <3>1. Front(z) = << >> => a[Front(z)] = << >>
      BY <1>1
    <3> QED BY <1>7, <3>1
  <2>2. IsTree(t1)
    BY <1>1, <1>2, <2>1, TreeGrows DEF t1
  <2>3. DOMAIN a1 = {<< >>} \cup (DOMAIN u \ w1)
    BY <1>1, <1>2, <1>6
  <2>4. a1[<< >>] = << >> /\ d1 \subseteq DOMAIN a1 \ {<< >>} /\ w1 \subseteq DOMAIN u
    BY <1>1, <1>2, <1>6
  <2> QED BY <1>1, <2>2, <2>3, <2>4 DEF Moving
<1>10. Settled(t1, u, a1, d1)
  <2>1. ASSUME NEW q \in DOMAIN a1 \ {<< >>}
        PROVE  /\ Front(q) \in DOMAIN a1
               /\ a1[q] \in DOMAIN t1 /\ Len(a1[q]) = Len(q) /\ Front(a1[q]) = a1[Front(q)]
               /\ Alias(Last(a1[q]), Last(q))
               /\ Front(q) \in d1 => q \in d1 /\ Last(a1[q]) = Last(q)
               /\ q \in d1 => t1[a1[q]] = u[q]
               /\ q \notin d1 => \A i \in 1 .. Len(q) : t1[SubSeq(a1[q], 1, i)] = Section
    <3>1. CASE q = z
      BY <1>3, <1>4, <1>6, <1>8, <3>1, <1>5
    <3>2. CASE q \in DOMAIN a \ {<< >>}
      <4>1. /\ Front(q) \in DOMAIN a
            /\ a[q] \in DOMAIN t /\ Len(a[q]) = Len(q) /\ Front(a[q]) = a[Front(q)]
            /\ Alias(Last(a[q]), Last(q))
            /\ Front(q) \in d => q \in d /\ Last(a[q]) = Last(q)
            /\ q \in d => t[a[q]] = u[q]
            /\ q \notin d => \A i \in 1 .. Len(q) : t[SubSeq(a[q], 1, i)] = Section
        BY <3>2, Zenon DEF Merging, Settled
      <4>2. q # z /\ Front(q) # z
        BY <1>5, <3>2, <4>1
      <4>3. \A i \in 1 .. Len(q) : SubSeq(a[q], 1, i) \in DOMAIN t
        BY <1>1, <4>1 DEF IsTree
      <4>4. a1[q] = a[q] /\ a1[Front(q)] = a[Front(q)] /\ t1[a[q]] = t[a[q]]
        BY <1>4, <1>6, <3>2, <4>1
      <4>5. q \notin d1 => \A i \in 1 .. Len(q) : t1[SubSeq(a1[q], 1, i)] = Section
        BY <1>4, <4>1, <4>3, <4>4
      <4> QED BY <1>4, <1>6, <4>1, <4>2, <4>4, <4>5
    <3> QED BY <1>6, <3>1, <3>2
  <2> QED BY <2>1, Zenon DEF Settled
<1>11. InOrder(w1, a1)
  BY <1>6, OrderKept
<1>12. \A x \in d : a[x] \in DOMAIN t /\ a1[x] = a[x] /\ x \in DOMAIN a /\ x # << >>
  BY <1>1, <1>6 DEF Merging, Settled
<1>13. Distinct(a1, d1)
  <2>1. ASSUME NEW x \in d1, NEW y \in d1, a1[x] = a1[y] PROVE x = y
    <3>1. CASE x \in d /\ y \in d
      BY <1>12, <2>1, <3>1 DEF Merging, Distinct
    <3> QED BY <1>6, <1>12, <2>1, <3>1
  <2> QED BY <2>1 DEF Distinct
<1>14. Full(t1, u, w1, a1, d1)
  <2> SUFFICES ASSUME NEW x \in d1, u[x] # Section \/ (\E y \in w1 : IsPrefix(x, y)),
                      NEW q \in DOMAIN t1, IsStrictPrefix(a1[x], q)
               PROVE  \E y \in d1 : IsStrictPrefix(x, y) /\ a1[y] = q
    BY Zenon DEF Full
  <2>1. x # z
    <3>1. ~IsStrictPrefix(to, q)
      BY <1>1, <1>4, NothingBelow
    <3> QED BY <1>6, <3>1
  <2>2. x \in d /\ x \in DOMAIN a /\ x # << >> /\ a1[x] = a[x] /\ a[x] \in DOMAIN t
    BY <2>1, <1>12
  <2>3. CASE q \in DOMAIN t
    <3>1. PICK y \in d : IsStrictPrefix(x, y) /\ a[y] = q
      <4>1. u[x] # Section \/ (\E y \in w : IsPrefix(x, y))
        OBVIOUS
      <4> QED BY <2>2, <2>3, <4>1, Zenon DEF Merging, Full
    <3> QED BY <1>12, <3>1
  <2>4. CASE q = to
    <3>1. IsStrictPrefix(x, z)
      <4>1. CASE \E y \in w1 : IsPrefix(x, y)
        BY <2>2, <4>1, NextBelow
      <4>2. CASE u[x] # Section
        <5> DEFINE f == Front(z)
        <5>1. x \in Path /\ a[x] \in Path /\ Len(a[x]) = Len(x) /\ a[x] # << >>
          BY <2>2, GoneFacts
        <5>2. IsPrefix(a[x], a[f])
          BY <2>2, <2>4, <5>1, PrefixOfFront DEF Path
        <5>3. f # << >>
          <6>1. Len(a[x]) # 0 /\ Len(a[x]) \in Nat
            BY <5>1 DEF Path
          <6>2. Len(a[x]) <= Len(a[f])
            BY <5>2 DEF IsPrefix
          <6> QED BY <1>1, <6>1, <6>2
        <5>4. f \in d
          <6> SUFFICES ASSUME f \notin d PROVE FALSE
            OBVIOUS
          <6>1. \A i \in 1 .. Len(f) : t[SubSeq(a[f], 1, i)] = Section
            BY <1>3, <5>3 DEF Merging, Settled
          <6>2. Len(a[x]) <= Len(a[f]) /\ \A i \in 1 .. Len(a[x]) : a[x][i] = a[f][i]
            BY <1>7, <5>1, <5>2, PrefixFacts DEF Path
          <6>3. Len(a[x]) \in 1 .. Len(a[f])
            BY <1>7, <5>1, <6>2 DEF Path
          <6> DEFINE b == SubSeq(a[f], 1, Len(a[x]))
          <6>4. b \in Path /\ Len(b) = Len(a[x]) /\ \A i \in 1 .. Len(a[x]) : b[i] = a[f][i]
            BY <1>7, <6>3, SubFacts DEF Path
          <6> HIDE DEF b
          <6>5. b = a[x]
            BY <5>1, <6>2, <6>4, SameSequence DEF Path
          <6>6. t[a[x]] = Section
            BY <1>7, <6>1, <6>3, <6>5 DEF b
          <6>7. t[a[x]] = u[x]
            BY <2>2 DEF Merging, Settled
          <6> QED BY <4>2, <6>6, <6>7
        <5>5. IsPrefix(x, f)
          <6>1. CASE a[x] = a[f]
            <7>1. x = f
              BY <2>2, <5>4, <6>1 DEF Merging, Distinct
            <7> QED BY <1>2, <7>1, PrefixOfFront DEF Path
          <6>2. CASE a[x] # a[f]
            <7>1. IsStrictPrefix(a[x], a[f]) /\ a[f] \in DOMAIN t
              BY <1>7, <5>2, <5>3, <6>2 DEF IsStrictPrefix
            <7>2. PICK y \in d : IsStrictPrefix(x, y) /\ a[y] = a[f]
              BY <2>2, <4>2, <7>1, Zenon DEF Merging, Full
            <7>3. y = f
              BY <5>4, <7>2 DEF Merging, Distinct
            <7> QED BY <7>2, <7>3 DEF IsStrictPrefix
          <6> QED BY <6>1, <6>2
        <5> QED BY <1>2, <5>1, <5>5, PrefixOfFront DEF Path
      <4> QED BY <4>1, <4>2
    <3> QED BY <1>6, <2>4, <3>1
  <2> QED BY <1>4, <2>3, <2>4
<1>15. Merging(t1, u, w1, a1, d1)
  BY <1>9, <1>10, <1>11, <1>13, <1>14 DEF Merging
<1> QED BY <1>15 DEF t1, a1

(* A section that is there already. *)
LEMMA MergeOld ==
    ASSUME NEW t, NEW u, NEW w, NEW a, NEW d, Merging(t, u, w, a, d),
           NEW z \in w, \A o \in w : ~Before(o, z), Front(z) \notin d,
           Append(a[Front(z)], Last(z)) \in DOMAIN t,
           t[Append(a[Front(z)], Last(z))] = Section
    PROVE  Merging(t, u, w \ {z}, Insert(a, z, Append(a[Front(z)], Last(z))), d)
<1> DEFINE to == Append(a[Front(z)], Last(z))
           w1 == w \ {z}
           a1 == Insert(a, z, to)
<1>1. /\ IsTree(t) /\ IsTree(u) /\ w \subseteq DOMAIN u
      /\ DOMAIN a = {<< >>} \cup (DOMAIN u \ w) /\ a[<< >>] = << >>
      /\ d \subseteq DOMAIN a \ {<< >>}
  BY DEF Merging, Moving
<1>2. z \in Path /\ z # << >> /\ z \in DOMAIN u /\ Front(z) \in Path /\ Last(z) \in Name
  BY <1>1, TreeFacts
<1>3. Front(z) \in DOMAIN a
  BY ParentGone
<1>4. a[Front(z)] \in Path /\ Len(a[Front(z)]) = Len(Front(z))
  BY <1>3, GoneFacts
<1>5. z \notin DOMAIN a /\ z \notin d
  BY <1>1, <1>2
<1>6. /\ DOMAIN a1 = DOMAIN a \cup {z} /\ a1[z] = to
      /\ \A q \in DOMAIN a : a1[q] = a[q]
  BY <1>5 DEF Insert
<1>7. /\ to \in Path /\ to # << >> /\ Front(to) = a[Front(z)] /\ Last(to) = Last(z)
      /\ to \in DOMAIN t /\ t[to] = Section
  BY <1>2, <1>4, AppendPath DEF Path
<1>8. Len(to) = Len(z) /\ Len(z) \in Nat
  <2>1. Len(to) = Len(a[Front(z)]) + 1
    BY <1>2, <1>4, AppendPath DEF Path
  <2>2. Len(Front(z)) = Len(z) - 1 /\ Len(z) \in Nat
    BY <1>2, PathFacts DEF Path
  <2> QED BY <1>4, <2>1, <2>2
<1> HIDE DEF to, a1
<1>9. Moving(t, u, w1, a1, d)
  <2>1. DOMAIN a1 = {<< >>} \cup (DOMAIN u \ w1)
    BY <1>1, <1>2, <1>6
  <2>2. a1[<< >>] = << >> /\ d \subseteq DOMAIN a1 \ {<< >>} /\ w1 \subseteq DOMAIN u
    BY <1>1, <1>2, <1>6
  <2> QED BY <1>1, <2>1, <2>2 DEF Moving
<1>10. Settled(t, u, a1, d)
  <2>1. ASSUME NEW q \in DOMAIN a1 \ {<< >>}
        PROVE  /\ Front(q) \in DOMAIN a1
               /\ a1[q] \in DOMAIN t /\ Len(a1[q]) = Len(q) /\ Front(a1[q]) = a1[Front(q)]
               /\ Alias(Last(a1[q]), Last(q))
               /\ Front(q) \in d => q \in d /\ Last(a1[q]) = Last(q)
               /\ q \in d => t[a1[q]] = u[q]
               /\ q \notin d => \A i \in 1 .. Len(q) : t[SubSeq(a1[q], 1, i)] = Section
    <3>1. CASE q = z
      <4>1. ASSUME NEW i \in 1 .. Len(z) PROVE t[SubSeq(to, 1, i)] = Section
        <5>1. CASE i = Len(z)
          BY <1>7, <1>8, <5>1, SubFacts DEF Path
        <5>2. CASE i # Len(z)
          <6>1. i \in 1 .. Len(a[Front(z)]) /\ SubSeq(a[Front(z)], 1, i) = SubSeq(to, 1, i)
            BY <1>7, <1>8, <5>2, SubFacts DEF Path
          <6>2. Front(z) # << >>
            <7>1. Len(a[<< >>]) = 0
              BY <1>1
            <7>2. Len(a[Front(z)]) # 0
              BY <6>1
            <7> QED BY <7>1, <7>2
          <6> DEFINE f == Front(z)
          <6>3. f \in DOMAIN a \ {<< >>} /\ f \notin d /\ i \in 1 .. Len(f)
            BY <1>3, <1>4, <6>1, <6>2
          <6>4. t[SubSeq(a[f], 1, i)] = Section
            <7> HIDE DEF f
            <7> QED BY <6>3 DEF Merging, Settled
          <6> QED BY <6>1, <6>4
        <5> QED BY <5>1, <5>2
      <4>2. Alias(Last(to), Last(z))
        BY <1>2, <1>7, SelfAlias
      <4> QED BY <1>3, <1>5, <1>6, <1>7, <1>8, <3>1, <4>1, <4>2
    <3>2. CASE q \in DOMAIN a \ {<< >>}
      <4>1. /\ Front(q) \in DOMAIN a
            /\ a[q] \in DOMAIN t /\ Len(a[q]) = Len(q) /\ Front(a[q]) = a[Front(q)]
            /\ Alias(Last(a[q]), Last(q))
            /\ Front(q) \in d => q \in d /\ Last(a[q]) = Last(q)
            /\ q \in d => t[a[q]] = u[q]
            /\ q \notin d => \A i \in 1 .. Len(q) : t[SubSeq(a[q], 1, i)] = Section
        BY <3>2, Zenon DEF Merging, Settled
      <4>2. a1[q] = a[q] /\ a1[Front(q)] = a[Front(q)]
        BY <1>6, <3>2, <4>1
      <4> QED BY <1>6, <4>1, <4>2
    <3> QED BY <1>6, <3>1, <3>2
  <2> QED BY <2>1, Zenon DEF Settled
<1>11. InOrder(w1, a1)
  BY <1>6, OrderKept
<1>12. \A x \in d : a1[x] = a[x]
  BY <1>1, <1>6
<1>13. Distinct(a1, d)
  BY <1>12 DEF Merging, Distinct
<1>14. Full(t, u, w1, a1, d)
  <2> SUFFICES ASSUME NEW x \in d, u[x] # Section \/ (\E y \in w1 : IsPrefix(x, y)),
                      NEW q \in DOMAIN t, IsStrictPrefix(a1[x], q)
               PROVE  \E y \in d : IsStrictPrefix(x, y) /\ a1[y] = q
    BY Zenon DEF Full
  <2>1. u[x] # Section \/ (\E y \in w : IsPrefix(x, y))
    OBVIOUS
  <2>2. PICK y \in d : IsStrictPrefix(x, y) /\ a[y] = q
    BY <1>12, <2>1, Zenon DEF Merging, Full
  <2> QED BY <1>12, <2>2
<1>15. Merging(t, u, w1, a1, d)
  BY <1>9, <1>10, <1>11, <1>13, <1>14 DEF Merging
<1> QED BY <1>15 DEF a1, to

---------------------------------------------------------------------------
(* Sequences put together. *)

LEMMA ConcatPrefix ==
    ASSUME NEW S, NEW p \in Seq(S), NEW r \in Seq(S), NEW i \in 1 .. Len(p \o r)
    PROVE  \/ i \in 1 .. Len(p) /\ SubSeq(p \o r, 1, i) = SubSeq(p, 1, i)
           \/ i - Len(p) \in 1 .. Len(r) /\ SubSeq(p \o r, 1, i) = p \o SubSeq(r, 1, i - Len(p))
<1> DEFINE q == p \o r
           s == SubSeq(q, 1, i)
<1>1. /\ q \in Seq(S) /\ Len(q) = Len(p) + Len(r)
      /\ Len(p) \in Nat /\ Len(r) \in Nat
      /\ \A j \in 1 .. Len(p) : q[j] = p[j]
      /\ \A j \in 1 .. Len(r) : q[Len(p) + j] = r[j]
  BY ConcatFacts
<1> HIDE DEF q
<1>2. s \in Seq(S) /\ Len(s) = i /\ \A j \in 1 .. i : s[j] = q[j]
  BY <1>1, SubFacts DEF q
<1> HIDE DEF s
<1>3. CASE i <= Len(p)
  <2>1. i \in 1 .. Len(p)
    BY <1>1, <1>3
  <2> DEFINE b == SubSeq(p, 1, i)
  <2>2. b \in Seq(S) /\ Len(b) = i /\ \A j \in 1 .. i : b[j] = p[j]
    BY <2>1, SubFacts
  <2> HIDE DEF b
  <2>3. \A j \in 1 .. i : j \in 1 .. Len(p)
    BY <1>1, <2>1
  <2>4. s = b
    BY <1>1, <1>2, <2>2, <2>3, SameSequence
  <2> QED BY <2>1, <2>4 DEF s, q, b
<1>4. CASE ~(i <= Len(p))
  <2> DEFINE m == i - Len(p)
  <2>1. m \in 1 .. Len(r) /\ i = Len(p) + m /\ m \in Nat /\ i \in Nat
    BY <1>1, <1>4 DEF q
  <2> DEFINE c == SubSeq(r, 1, m)
             b == p \o c
  <2>2. c \in Seq(S) /\ Len(c) = m /\ \A j \in 1 .. m : c[j] = r[j]
    BY <2>1, SubFacts
  <2> HIDE DEF c, m
  <2>3. /\ b \in Seq(S) /\ Len(b) = Len(p) + m
        /\ \A j \in 1 .. Len(p) : b[j] = p[j]
        /\ \A j \in 1 .. m : b[Len(p) + j] = c[j]
    <3>1. /\ b \in Seq(S) /\ Len(b) = Len(p) + Len(c)
          /\ \A j \in 1 .. Len(p) : b[j] = p[j]
          /\ \A j \in 1 .. Len(c) : b[Len(p) + j] = c[j]
      <4>1. \A x \in Seq(S) :
              /\ p \o x \in Seq(S) /\ Len(p \o x) = Len(p) + Len(x)
              /\ \A j \in 1 .. Len(p) : (p \o x)[j] = p[j]
              /\ \A j \in 1 .. Len(x) : (p \o x)[Len(p) + j] = x[j]
        BY ConcatFacts
      <4> QED BY <2>2, <4>1
    <3> HIDE DEF b
    <3> QED BY <2>2, <3>1
  <2> HIDE DEF b
  <2>4. \A j \in 1 .. i : s[j] = b[j]
    <3> SUFFICES ASSUME NEW j \in 1 .. i PROVE q[j] = b[j]
      BY <1>2
    <3>1. CASE j <= Len(p)
      <4>1. j \in 1 .. Len(p)
        BY <1>1, <3>1
      <4> QED BY <1>1, <2>3, <4>1
    <3>2. CASE ~(j <= Len(p))
      <4>1. j - Len(p) \in 1 .. m /\ j - Len(p) \in 1 .. Len(r) /\ j = Len(p) + (j - Len(p))
        BY <1>1, <2>1, <3>2
      <4>2. q[Len(p) + (j - Len(p))] = r[j - Len(p)] /\ b[Len(p) + (j - Len(p))] = c[j - Len(p)]
        BY <1>1, <2>3, <4>1
      <4> QED BY <2>2, <4>1, <4>2
    <3> QED BY <3>1, <3>2
  <2>5. s = b
    BY <1>2, <2>1, <2>3, <2>4, SameSequence
  <2> QED BY <2>1, <2>5 DEF s, q, b, c, m
<1> QED BY <1>3, <1>4

LEMMA ConcatSuffix ==
    ASSUME NEW S, NEW p \in Seq(S), NEW r \in Seq(S)
    PROVE  SubSeq(p \o r, Len(p) + 1, Len(p \o r)) = r
<1> DEFINE q == p \o r
           s == SubSeq(q, Len(p) + 1, Len(q))
<1>1. /\ q \in Seq(S) /\ Len(q) = Len(p) + Len(r)
      /\ Len(p) \in Nat /\ Len(r) \in Nat
      /\ \A j \in 1 .. Len(r) : q[Len(p) + j] = r[j]
  BY ConcatFacts
<1> HIDE DEF q
<1>2. s \in Seq(S) /\ Len(s) = Len(r) /\ \A j \in 1 .. Len(r) : s[j] = q[Len(p) + j]
  <2>1. /\ \A i \in Len(p) + 1 .. Len(q) : q[i] \in S
        /\ Len(q) - (Len(p) + 1) + 1 = Len(r)
    BY <1>1
  <2>2. s \in Seq(S) /\ Len(s) = Len(r)
    BY <1>1, <2>1
  <2>3. \A j \in 1 .. Len(r) : s[j] = q[Len(p) + 1 + j - 1]
    BY <1>1, <2>1
  <2>4. \A j \in 1 .. Len(r) : Len(p) + 1 + j - 1 = Len(p) + j
    BY <1>1
  <2> QED BY <2>2, <2>3, <2>4
<1> HIDE DEF s
<1>3. s = r
  BY <1>1, <1>2, SameSequence
<1> QED BY <1>3 DEF s, q

---------------------------------------------------------------------------
(* The trees the decoding puts together are trees. *)

LEMMA NoTreeIsTree == IsTree(NoTree) /\ DOMAIN NoTree = {}
BY FS_EmptySet DEF NoTree, IsTree

LEMMA ImageIsFinite ==
    ASSUME NEW S, IsFiniteSet(S), NEW T, NEW f \in [S -> T], \A y \in T : \E x \in S : f[x] = y
    PROVE  IsFiniteSet(T)
<1>1. f \in Surjection(S, T)
  BY DEF Surjection
<1> QED BY <1>1, FS_Surjection

LEMMA PrefixCut ==
    ASSUME NEW p \in Path, NEW o \in Prefixes(p) \ {<< >>}
    PROVE  \E i \in 1 .. Len(p) : o = SubSeq(p, 1, i)
<1>1. PICK i \in 0 .. Len(p) : o = SubSeq(p, 1, i)
  BY DEF Prefixes
<1>2. i # 0
  <2>1. SubSeq(p, 1, 0) = << >>
    BY DEF Path
  <2> QED BY <1>1, <2>1
<1>3. i \in 1 .. Len(p)
  BY <1>2
<1> QED BY <1>1, <1>3

LEMMA HierarchyIsTree ==
    ASSUME NEW t, IsTree(t), NEW p \in Path
    PROVE  /\ IsTree(Hierarchy(t, p))
           /\ p # << >> => p \in DOMAIN Hierarchy(t, p)
           /\ DOMAIN t \subseteq DOMAIN Hierarchy(t, p)
           /\ \A q \in DOMAIN t : Hierarchy(t, p)[q] = t[q]
           /\ \A q \in DOMAIN Hierarchy(t, p) \ DOMAIN t :
                 Hierarchy(t, p)[q] = Section /\ \E i \in 1 .. Len(p) : q = SubSeq(p, 1, i)
<1> DEFINE h == Hierarchy(t, p)
           P == Prefixes(p) \ {<< >>}
<1>1. Len(p) \in Nat
  BY DEF Path
<1>2. /\ DOMAIN h = DOMAIN t \cup P
      /\ \A q \in DOMAIN t : h[q] = t[q]
      /\ \A q \in P : q \notin DOMAIN t => h[q] = Section
  BY DEF Hierarchy
<1> HIDE DEF h
<1>3. ASSUME NEW q \in P PROVE \E i \in 1 .. Len(p) : q = SubSeq(p, 1, i)
  BY PrefixCut
<1>4. ASSUME NEW i \in 1 .. Len(p) PROVE SubSeq(p, 1, i) \in P
  <2>1. i \in 0 .. Len(p) /\ Len(SubSeq(p, 1, i)) = i /\ i # 0
    BY <1>1, SubFacts DEF Path
  <2>2. SubSeq(p, 1, i) # << >>
    BY <2>1
  <2> QED BY <2>1, <2>2 DEF Prefixes
<1> HIDE DEF P
<1>5. ASSUME NEW q \in DOMAIN h
      PROVE  /\ q \in Path /\ q # << >> /\ IsNode(h[q])
             /\ \A i \in 1 .. Len(q) : SubSeq(q, 1, i) \in DOMAIN h
  <2>1. CASE q \in DOMAIN t
    <3>1. q \in Path /\ q # << >> /\ IsNode(t[q]) /\ \A i \in 1 .. Len(q) : SubSeq(q, 1, i) \in DOMAIN t
      BY <2>1 DEF IsTree, Path
    <3> QED BY <1>2, <2>1, <3>1
  <2>2. CASE q \in P /\ q \notin DOMAIN t
    <3>1. PICK j \in 1 .. Len(p) : q = SubSeq(p, 1, j)
      BY <1>3, <2>2
    <3>2. q \in Path /\ Len(q) = j /\ \A k \in 1 .. j : q[k] = p[k]
      BY <3>1, SubFacts DEF Path
    <3>3. q # << >>
      BY <3>1, <3>2
    <3>4. ASSUME NEW i \in 1 .. Len(q) PROVE SubSeq(q, 1, i) \in DOMAIN h
      <4>1. i \in 1 .. Len(p) /\ \A k \in 1 .. i : k \in 1 .. j
        BY <1>1, <3>1, <3>2
      <4>2. /\ SubSeq(q, 1, i) \in Path /\ Len(SubSeq(q, 1, i)) = i
            /\ \A k \in 1 .. i : SubSeq(q, 1, i)[k] = q[k]
        BY <3>2, SubFacts DEF Path
      <4>3. /\ SubSeq(p, 1, i) \in Path /\ Len(SubSeq(p, 1, i)) = i
            /\ \A k \in 1 .. i : SubSeq(p, 1, i)[k] = p[k]
        BY <4>1, SubFacts DEF Path
      <4>4. SubSeq(q, 1, i) = SubSeq(p, 1, i)
        BY <3>2, <4>1, <4>2, <4>3, SameSequence DEF Path
      <4> QED BY <1>2, <1>4, <4>1, <4>4
    <3>5. IsNode(h[q])
      BY <1>2, <2>2 DEF IsNode
    <3> QED BY <3>2, <3>3, <3>4, <3>5
  <2> QED BY <1>2, <2>1, <2>2
<1>6. IsTree(h)
  <2> DEFINE f == [i \in 1 .. Len(p) |-> SubSeq(p, 1, i)]
  <2>1. IsFiniteSet(1 .. Len(p))
    BY <1>1, FS_Interval
  <2>2. f \in [1 .. Len(p) -> P] /\ \A q \in P : \E i \in 1 .. Len(p) : f[i] = q
    BY <1>3, <1>4
  <2> HIDE DEF f
  <2>3. IsFiniteSet(P)
    BY <2>1, <2>2, ImageIsFinite
  <2>4. IsFiniteSet(DOMAIN h)
    BY <1>2, <2>3, FS_Union DEF IsTree
  <2> QED BY <1>5, <2>4 DEF IsTree, Path
<1>7. p # << >> => p \in DOMAIN h
  <2> SUFFICES ASSUME p # << >> PROVE p \in P
    BY <1>2
  <2>1. Len(p) \in 1 .. Len(p)
    BY <1>1, PathFacts DEF Path
  <2>2. SubSeq(p, 1, Len(p)) = p
    BY <2>1, SubFacts DEF Path
  <2> QED BY <1>4, <2>1, <2>2
<1> QED BY <1>2, <1>3, <1>6, <1>7 DEF h

LEMMA GraftIsTree ==
    ASSUME NEW t, IsTree(t), NEW u, IsTree(u), NEW p \in Path, p # << >> => p \in DOMAIN t
    PROVE  /\ IsTree(Graft(t, p, u))
           /\ DOMAIN Graft(t, p, u) = DOMAIN t \cup {p \o r : r \in DOMAIN u}
           /\ \A q \in DOMAIN t : Graft(t, p, u)[q] = t[q]
           /\ \A r \in DOMAIN u : p \o r \notin DOMAIN t => Graft(t, p, u)[p \o r] = u[r]
<1> DEFINE g == Graft(t, p, u)
<1>1. /\ DOMAIN g = DOMAIN t \cup {p \o r : r \in DOMAIN u}
      /\ \A q \in DOMAIN t : g[q] = t[q]
      /\ \A q \in DOMAIN g : q \notin DOMAIN t => g[q] = u[SubSeq(q, Len(p) + 1, Len(q))]
  BY DEF Graft
<1> HIDE DEF g
<1>2. \A r \in DOMAIN u : r \in Path /\ r # << >> /\ IsNode(u[r])
  BY TreeFacts
<1>3. ASSUME NEW r \in DOMAIN u, p \o r \notin DOMAIN t PROVE g[p \o r] = u[r]
  <2>1. SubSeq(p \o r, Len(p) + 1, Len(p \o r)) = r
    BY <1>2, ConcatSuffix DEF Path
  <2> QED BY <1>1, <1>3, <2>1
<1>4. ASSUME NEW q \in DOMAIN g
      PROVE  /\ q \in Path /\ q # << >> /\ IsNode(g[q])
             /\ \A i \in 1 .. Len(q) : SubSeq(q, 1, i) \in DOMAIN g
  <2>1. CASE q \in DOMAIN t
    <3>1. q \in Path /\ q # << >> /\ IsNode(t[q]) /\ \A i \in 1 .. Len(q) : SubSeq(q, 1, i) \in DOMAIN t
      BY <2>1 DEF IsTree, Path
    <3> QED BY <1>1, <2>1, <3>1
  <2>2. CASE q \notin DOMAIN t
    <3>1. PICK r \in DOMAIN u : q = p \o r
      BY <1>1, <2>2
    <3>2. q \in Path /\ Len(q) = Len(p) + Len(r) /\ Len(p) \in Nat /\ Len(r) \in Nat \ {0}
      BY <1>2, <3>1, ConcatFacts, PathFacts DEF Path
    <3>3. q # << >>
      BY <3>2
    <3>4. IsNode(g[q])
      BY <1>2, <1>3, <2>2, <3>1
    <3>5. ASSUME NEW i \in 1 .. Len(q) PROVE SubSeq(q, 1, i) \in DOMAIN g
      <4>1. CASE i \in 1 .. Len(p) /\ SubSeq(q, 1, i) = SubSeq(p, 1, i)
        <5>1. p # << >>
          BY <4>1
        <5>2. SubSeq(p, 1, i) \in DOMAIN t
          BY <4>1, <5>1 DEF IsTree
        <5> QED BY <1>1, <4>1, <5>2
      <4>2. CASE i - Len(p) \in 1 .. Len(r) /\ SubSeq(q, 1, i) = p \o SubSeq(r, 1, i - Len(p))
        <5>1. SubSeq(r, 1, i - Len(p)) \in DOMAIN u
          BY <4>2 DEF IsTree
        <5> QED BY <1>1, <4>2, <5>1
      <4> QED BY <1>2, <3>1, <4>1, <4>2, ConcatPrefix DEF Path
    <3> QED BY <3>2, <3>3, <3>4, <3>5
  <2> QED BY <2>1, <2>2
<1>5. IsTree(g)
  <2> DEFINE f == [r \in DOMAIN u |-> p \o r]
             Q == {p \o r : r \in DOMAIN u}
  <2>1. f \in [DOMAIN u -> Q] /\ \A q \in Q : \E r \in DOMAIN u : f[r] = q
    OBVIOUS
  <2> HIDE DEF f, Q
  <2>2. IsFiniteSet(Q)
    BY <2>1, ImageIsFinite DEF IsTree
  <2>3. IsFiniteSet(DOMAIN g)
    BY <1>1, <2>2, FS_Union DEF IsTree, Q
  <2> QED BY <1>4, <2>3 DEF IsTree, Path
<1> QED BY <1>1, <1>3, <1>5 DEF g

---------------------------------------------------------------------------
(* Where the registers of a record go, and its layouts. *)

LEMMA MinOf ==
    ASSUME NEW T \in SUBSET Nat, T # {}
    PROVE  Min(T) \in T /\ \A m \in T : Min(T) <= m
BY LeastOf DEF Min

LEMMA DieNamesAre ==
    ASSUME NEW h, NEW name \in DieNames(h)
    PROVE  /\ name \in Name
           /\ h.product \in DOMAIN TargetInfo /\ h.die \in DOMAIN TargetInfo[h.product].dies
           /\ name = TargetInfo[h.product].dies[h.die]
<1>1. PICK p \in {p \in {h.product} \cap DOMAIN TargetInfo : h.die \in DOMAIN TargetInfo[p].dies} :
        name = TargetInfo[p].dies[h.die]
  BY DEF DieNames
<1>2. p = h.product /\ p \in DOMAIN TargetInfo /\ h.die \in DOMAIN TargetInfo[p].dies
  OBVIOUS
<1>3. TargetInfo[p].dies[h.die] \in Name
  BY <1>2, PlacesAssumption
<1> QED BY <1>1, <1>2, <1>3

LEMMA PathOfThree ==
    ASSUME NEW x \in Name, NEW y \in Name, NEW z \in Name
    PROVE  <<x, y, z>> \in Path
BY DEF Path

LEMMA LongerName ==
    ASSUME NEW name \in Name, NEW i \in Int
    PROVE  Append(name, i) \in Name
BY DEF Name

LEMMA NumberedName ==
    ASSUME NEW name \in Name, NEW d \in Seq(Digits)
    PROVE  name \o d \in Name /\ d \in Seq(Int) /\ (d # << >> => Last(name \o d) \in Digits)
<1>1. name \in Seq(Int) /\ Len(name) \in Nat \ {0}
  BY DEF Name
<1> d \in Seq(Int)
  BY DEF Digits
<1>2. /\ name \o d \in Seq(Int) /\ Len(name \o d) = Len(name) + Len(d)
      /\ \A i \in 1 .. Len(d) : (name \o d)[Len(name) + i] = d[i]
  BY <1>1, ConcatFacts
<1>3. ASSUME d # << >> PROVE Last(name \o d) \in Digits
  BY <1>2, <1>3 DEF Last
<1> QED BY <1>1, <1>2, <1>3 DEF Name

LEMMA RootIsPath ==
    ASSUME NEW r, WellFormed(r)
    PROVE  Root(r) \in Path
<1> DEFINE roots == <<NamedRoot(r.hdr), NamedRoot(r.parent), NumberedRoot(r.hdr), NumberedRoot(r.parent)>>
           some == {i \in 1 .. 4 : roots[i] # {}}
<1>1. ASSUME NEW h \in {r.hdr, r.parent} PROVE NamedRoot(h) \subseteq Path /\ NumberedRoot(h) \subseteq Path
  <2>1. h.socket \in Int /\ h.die \in Int
    BY DEF WellFormed
  <2>2. Append(Cpu, h.socket) \in Name /\ Append(Die, h.die) \in Name /\ Processors \in Name
    BY <2>1, LongerName, PlacesAssumption
  <2>3. \A name \in DieNames(h) : <<Processors, Append(Cpu, h.socket), name>> \in Path
    BY <2>2, DieNamesAre, PathOfThree
  <2>4. <<Processors, Append(Cpu, h.socket), Append(Die, h.die)>> \in Path
    BY <2>2, PathOfThree
  <2> QED BY <2>3, <2>4 DEF NamedRoot, NumberedRoot
<1>2. \A i \in 1 .. 4 : roots[i] \subseteq Path
  <2>1. roots[1] \subseteq Path /\ roots[2] \subseteq Path /\ roots[3] \subseteq Path /\ roots[4] \subseteq Path
    BY <1>1
  <2> HIDE DEF roots
  <2>2. \A i \in 1 .. 4 : i = 1 \/ i = 2 \/ i = 3 \/ i = 4
    OBVIOUS
  <2> QED BY <2>1, <2>2
<1>3. Root(r) = IF some = {} THEN << >> ELSE CHOOSE root \in roots[Min(some)] : TRUE
  BY DEF Root
<1> HIDE DEF roots
<1>4. CASE some = {}
  BY <1>3, <1>4 DEF Path
<1>5. CASE some # {}
  <2>1. some \in SUBSET Nat
    OBVIOUS
  <2>2. Min(some) \in some
    <3> HIDE DEF some
    <3> QED BY <1>5, <2>1, MinOf
  <2>3. Min(some) \in 1 .. 4 /\ roots[Min(some)] # {}
    BY <2>2
  <2> HIDE DEF some
  <2>4. (CHOOSE root \in roots[Min(some)] : TRUE) \in roots[Min(some)]
    BY <2>3
  <2> QED BY <1>2, <1>3, <1>5, <2>3, <2>4
<1> QED BY <1>4, <1>5

Found1(found) == found = << >> \/ \E lines \in Seq(LayoutLine) : found = <<lines>>

LEMMA LayoutsAre ==
    ASSUME NEW r, NEW d
    PROVE  Found1(LayoutsOf(r, d))
<1> DEFINE paths == LayoutPaths(r)
           Key(i) == LayoutKey(r, paths[i], d)
           some == {i \in DOMAIN paths : Key(i) \in DOMAIN Layouts}
<1>1. CASE Pvs(r.hdr) = {}
  BY <1>1 DEF LayoutsOf, Found1
<1>2. CASE Pvs(r.hdr) # {} /\ some = {}
  BY <1>2 DEF LayoutsOf, Found1
<1>3. CASE Pvs(r.hdr) # {} /\ some # {}
  <2>1. LayoutsOf(r, d) = <<Layouts[Key(Min(some))]>>
    BY <1>3 DEF LayoutsOf
  <2>2. DOMAIN paths \subseteq 1 .. 2
    <3>1. \A x, y : DOMAIN <<x, y>> = 1 .. 2 /\ DOMAIN <<x>> = 1 .. 1 /\ DOMAIN << >> = {}
      OBVIOUS
    <3> QED BY <3>1 DEF LayoutPaths
  <2> HIDE DEF paths
  <2>3. some \in SUBSET Nat
    BY <2>2
  <2>4. Min(some) \in some
    <3> HIDE DEF some
    <3> QED BY <1>3, <2>3, MinOf
  <2>5. Key(Min(some)) \in DOMAIN Layouts
    BY <2>4
  <2>6. Layouts[Key(Min(some))] \in Seq(LayoutLine)
    BY <2>5, PlacesAssumption
  <2> QED BY <2>1, <2>6 DEF Found1
<1> QED BY <1>1, <1>2, <1>3

---------------------------------------------------------------------------
(* The path of a line, and numbers. *)

LEMMA MoveIsPath ==
    ASSUME NEW current \in Path, NEW segment \in Seq(Int)
    PROVE  Move(current, segment) \in Path
<1>1. CASE segment # << >>
  <2>1. segment \in Name
    BY <1>1 DEF Name
  <2> QED BY <1>1, <2>1 DEF Move, Path
<1>2. CASE segment = << >> /\ current = << >>
  BY <1>2 DEF Move
<1>3. CASE segment = << >> /\ current # << >>
  <2>1. Front(current) \in Path
    BY <1>3, PathFacts DEF Path
  <2> QED BY <1>3, <2>1 DEF Move
<1> QED BY <1>1, <1>2, <1>3

(* A function that is defined step by step on 1 .. N, and one such there   *)
(* is, is where all its steps lead.                                        *)
Moves(name, current, go) ==
    /\ PathOf(name, current) = go[Len(name)]
    /\ \A i \in 1 .. Len(name) :
         go[i] = IF i > 1 THEN Move(go[i - 1], name[i])
                 ELSE IF name[1] # << >> THEN <<name[1]>> ELSE current

LEMMA PathOfGoes ==
    ASSUME NEW name \in Seq(Seq(Int)), name # << >>, NEW current \in Seq(Seq(Int))
    PROVE  \E go : Moves(name, current, go)
<1> DEFINE S == Seq(Seq(Int))
           first == IF name[1] # << >> THEN <<name[1]>> ELSE current
           N == Len(name)
           Goes(i, x) == IF i > 1 THEN Move(x, name[i]) ELSE first
           Step == [i \in 1 .. N |-> [x \in S |-> Goes(i, x)]]
           Go(f) == f = [i \in 1 .. N |-> IF i > 1 THEN Move(f[i - 1], name[i]) ELSE first]
           go == CHOOSE f : Go(f)
<1>1. N \in Nat \ {0} /\ \A i \in 1 .. N : name[i] \in Seq(Int)
  OBVIOUS
<1>2. ASSUME NEW i \in 1 .. N, NEW x \in S PROVE Goes(i, x) \in S
  <2>1. x # << >> => Front(x) \in S
    BY PathFacts
  <2> QED BY <1>1, <2>1 DEF Move
<1>3. PathOf(name, current) = go[N]
  BY DEF PathOf
<1> HIDE DEF first, N, Goes
<1>4. IsStep(N, S, Step)
  BY <1>2 DEF IsStep
<1>5. PICK f : Steps(N, S, current, Step, f)
  <2> HIDE DEF Step, S
  <2>1. current \in S
    BY DEF S
  <2> QED BY <1>1, <1>4, <2>1, Recursion
<1>6. \A i \in 1 .. N : f[i] = Goes(i, f[i - 1])
  <2> SUFFICES ASSUME NEW i \in 1 .. N PROVE f[i] = Goes(i, f[i - 1])
    OBVIOUS
  <2>1. f[i - 1] \in S /\ f[i] = Step[i][f[i - 1]]
    <3> HIDE DEF Step, S
    <3> QED BY <1>5 DEF Steps
  <2> HIDE DEF S
  <2> QED BY <2>1
<1> DEFINE g == [i \in 1 .. N |-> f[i]]
<1>7. Go(g)
  <2>1. \A i \in 1 .. N : i > 1 => g[i - 1] = f[i - 1]
    BY <1>1
  <2>2. g = [i \in 1 .. N |-> g[i]] /\ \A i \in 1 .. N : g[i] = f[i]
    OBVIOUS
  <2> HIDE DEF g
  <2> QED BY <1>6, <2>1, <2>2 DEF Goes
<1>8. Go(go)
  <2> HIDE DEF Go, g
  <2> QED BY <1>7
<1> HIDE DEF go
<1> QED BY <1>3, <1>8 DEF Moves, first, N

LEMMA PathOfIsPath ==
    ASSUME NEW name \in Seq(Seq(Int)), name # << >>, NEW current \in Path
    PROVE  PathOf(name, current) \in Path
<1> DEFINE first == IF name[1] # << >> THEN <<name[1]>> ELSE current
           N == Len(name)
<1>1. N \in Nat \ {0} /\ \A i \in 1 .. N : name[i] \in Seq(Int)
  OBVIOUS
<1>2. first \in Path
  <2>1. name[1] # << >> => name[1] \in Name
    BY <1>1 DEF Name
  <2> QED BY <2>1 DEF Path
<1> HIDE DEF first
<1>3. PICK go : Moves(name, current, go)
  <2>1. current \in Seq(Seq(Int))
    BY DEF Path, Name
  <2> QED BY <2>1, PathOfGoes
<1>4. /\ PathOf(name, current) = go[N]
      /\ \A i \in 1 .. N : go[i] = IF i > 1 THEN Move(go[i - 1], name[i]) ELSE first
  BY <1>3 DEF Moves, first
<1> HIDE DEF N
<1> DEFINE T == {k \in 0 .. N : k = 0 \/ go[k] \in Path}
<1>5. ASSUME NEW k \in 1 .. N, k - 1 \in T PROVE k \in T
  <2>1. CASE k = 1
    BY <1>1, <1>2, <1>4, <2>1
  <2>2. CASE k > 1
    <3>1. go[k - 1] \in Path /\ go[k] = Move(go[k - 1], name[k])
      BY <1>1, <1>4, <1>5, <2>2
    <3>2. go[k] \in Path
      BY <1>1, <3>1, MoveIsPath
    <3> QED BY <1>1, <3>2
  <2>3. k = 1 \/ k > 1
    BY <1>1
  <2> QED BY <2>1, <2>2, <2>3
<1>6. 0 \in T
  BY <1>1
<1> HIDE DEF T
<1>7. N \in T
  <2>1. \A k \in 0 .. N : k \in T
    BY <1>1, <1>5, <1>6, Induction
  <2> QED BY <1>1, <2>1
<1> QED BY <1>1, <1>4, <1>7 DEF T

(* How the number of a value comes about, bit by bit from the highest.     *)
BitOf(v, k) == IF 64 - k \in v THEN 1 ELSE 0

Doubling(v, sum) ==
    /\ Number(v) = sum[64] /\ sum[0] = 0
    /\ \A k \in 1 .. 64 : sum[k] = 2 * sum[k - 1] + BitOf(v, k)

LEMMA NumberDoubles ==
    ASSUME NEW v \in SUBSET (0 .. 63)
    PROVE  \E sum : Doubling(v, sum)
<1> DEFINE X(b) == BitOf(v, b)
           Low(b) == \A c \in v : c < 64 - b
           Up(f) == f = [b \in 0 .. 64 |-> IF Low(b) THEN 0 ELSE 2 * f[b - 1] + X(b)]
           Step == [b \in 1 .. 64 |-> [x \in Nat |-> 2 * x + X(b)]]
           sum == CHOOSE f : Up(f)
<1>1. Number(v) = sum[64]
  BY DEF Number, BitOf
<1>2. /\ Low(0)
      /\ \A b \in 1 .. 64 : X(b) \in Nat /\ (Low(b) => Low(b - 1) /\ X(b) = 0)
  BY DEF BitOf
<1> HIDE DEF Low, X
<1>3. PICK f : Steps(64, Nat, 0, Step, f)
  <2>1. IsStep(64, Nat, Step)
    BY <1>2 DEF IsStep
  <2> HIDE DEF Step
  <2> QED BY <2>1, Recursion
<1>4. ASSUME NEW b \in 1 .. 64 PROVE f[b] = 2 * f[b - 1] + X(b)
  <2>1. f[b - 1] \in Nat /\ f[b] = Step[b][f[b - 1]]
    <3> HIDE DEF Step
    <3> QED BY <1>3 DEF Steps
  <2> QED BY <2>1
<1> DEFINE T == {b \in 0 .. 64 : Low(b) => f[b] = 0}
<1>5. \A b \in 0 .. 64 : b \in T
  <2>1. 0 \in T
    BY <1>3 DEF Steps
  <2>2. ASSUME NEW b \in 1 .. 64, b - 1 \in T PROVE b \in T
    BY <1>2, <1>4, <2>2
  <2> HIDE DEF T
  <2> QED BY <2>1, <2>2, Induction
<1>6. Up(f)
  <2>1. f = [b \in 0 .. 64 |-> f[b]]
    BY <1>3 DEF Steps
  <2>2. ASSUME NEW b \in 0 .. 64 PROVE f[b] = IF Low(b) THEN 0 ELSE 2 * f[b - 1] + X(b)
    <3>1. b = 0 \/ b \in 1 .. 64
      OBVIOUS
    <3> QED BY <1>2, <1>4, <1>5, <3>1
  <2> QED BY <2>1, <2>2
<1>7. Up(sum)
  <2> HIDE DEF Up
  <2> QED BY <1>6
<1> HIDE DEF sum
<1>8. \A b \in 0 .. 64 : sum[b] = IF Low(b) THEN 0 ELSE 2 * sum[b - 1] + X(b)
  BY <1>7
<1>9. ASSUME NEW b \in 1 .. 64 PROVE sum[b] = 2 * sum[b - 1] + X(b)
  <2>1. b \in 0 .. 64 /\ b - 1 \in 0 .. 64
    OBVIOUS
  <2> QED BY <1>2, <1>8, <2>1
<1> QED BY <1>1, <1>2, <1>8, <1>9 DEF Doubling, X

LEMMA SumsAreNat ==
    ASSUME NEW v, NEW sum, Doubling(v, sum)
    PROVE  \A k \in 0 .. 64 : sum[k] \in Nat
<1> DEFINE T == {k \in 0 .. 64 : sum[k] \in Nat}
<1>1. 0 \in T
  BY DEF Doubling
<1>2. ASSUME NEW k \in 1 .. 64, k - 1 \in T PROVE k \in T
  BY <1>2 DEF Doubling, BitOf
<1>3. \A k \in 0 .. 64 : k \in T
  <2> HIDE DEF T
  <2> QED BY <1>1, <1>2, Induction
<1> QED BY <1>3

LEMMA NumberIsNat ==
    ASSUME NEW v \in SUBSET (0 .. 63)
    PROVE  Number(v) \in Nat
<1>1. PICK sum : Doubling(v, sum)
  BY NumberDoubles
<1>2. sum[64] \in Nat
  BY <1>1, SumsAreNat
<1> QED BY <1>1, <1>2 DEF Doubling

LEMMA LevelsIsPath ==
    ASSUME NEW t, IsTree(t)
    PROVE  Levels(t) \in Path
<1> DEFINE Id(level) == <<SubName>> \o Whoami[level]
           Given(level) == Id(level) \in DOMAIN t /\ t[Id(level)].kind = "field"
           Below(level) == IF Given(level) THEN <<Append(level, Number(t[Id(level)].value))>> ELSE << >>
<1>1. ASSUME NEW level \in {Thread, Core, Module} PROVE Below(level) \in Path
  <2>1. CASE Given(level)
    <3> HIDE DEF Id
    <3>1. Number(t[Id(level)].value) \in Int
      <4> DEFINE x == t[Id(level)]
      <4>1. IsNode(x) /\ x.kind = "field"
        BY <2>1, TreeFacts
      <4> HIDE DEF x
      <4>2. x.value \in SUBSET (0 .. 63)
        BY <4>1 DEF IsNode, Section, Record
      <4>3. Number(x.value) \in Nat
        BY <4>2, NumberIsNat
      <4> QED BY <4>3 DEF x
    <3>2. Append(level, Number(t[Id(level)].value)) \in Name
      BY <3>1, LongerName, DecodeAssumption
    <3> QED BY <2>1, <3>2 DEF Path
  <2>2. CASE ~Given(level)
    BY <2>2 DEF Path
  <2> QED BY <2>1, <2>2
<1>2. Levels(t) = Below(Module) \o Below(Core) \o Below(Thread)
  BY DEF Levels
<1> HIDE DEF Below
<1>3. Below(Module) \in Path /\ Below(Core) \in Path /\ Below(Thread) \in Path
  BY <1>1
<1>4. Below(Module) \o Below(Core) \in Path
  BY <1>3, ConcatFacts DEF Path
<1>5. (Below(Module) \o Below(Core)) \o Below(Thread) \in Path
  BY <1>3, <1>4, ConcatFacts DEF Path
<1> QED BY <1>2, <1>5

---------------------------------------------------------------------------
(* The trees of a record. *)

LEMMA HeaderTree ==
    ASSUME NEW name \in Name
    PROVE  /\ IsTree(Insert(NoTree, <<name>>, Record)) /\ <<name>> \in Path
           /\ DOMAIN Insert(NoTree, <<name>>, Record) = {<<name>>}
           /\ Insert(NoTree, <<name>>, Record)[<<name>>] = Record
<1>1. <<name>> \in Path /\ <<name>> # << >> /\ Front(<<name>>) = << >>
  <2>1. << >> \in Seq(Name) /\ Append(<< >>, name) = <<name>>
    OBVIOUS
  <2>2. Front(Append(<< >>, name)) = << >>
    BY <2>1, AppendPath
  <2> QED BY <2>1, <2>2 DEF Path
<1>2. IsNode(Record)
  BY DEF IsNode
<1>3. IsTree(Insert(NoTree, <<name>>, Record))
  BY <1>1, <1>2, NoTreeIsTree, TreeGrows
<1>4. DOMAIN Insert(NoTree, <<name>>, Record) = {<<name>>}
  BY NoTreeIsTree DEF Insert
<1>5. Insert(NoTree, <<name>>, Record)[<<name>>] = Record
  BY DEF Insert
<1> QED BY <1>1, <1>3, <1>4, <1>5

LEMMA WithRecordIsTree ==
    ASSUME NEW t, IsTree(t), NEW name \in Seq(Seq(Int)), name # << >>
    PROVE  IsTree(WithRecord(t, name))
<1>1. name[1] \in Seq(Int)
  OBVIOUS
<1>2. CASE name[1] = << >> \/ <<name[1]>> \in DOMAIN t
  BY <1>2 DEF WithRecord
<1>3. CASE ~(name[1] = << >> \/ <<name[1]>> \in DOMAIN t)
  <2> DEFINE x == name[1]
  <2>1. x \in Name
    BY <1>1, <1>3 DEF Name
  <2>2. <<x>> \in Path /\ <<x>> # << >> /\ Front(<<x>>) = << >>
    <3> HIDE DEF x
    <3>1. << >> \in Seq(Name) /\ Append(<< >>, x) = <<x>>
      OBVIOUS
    <3>2. Front(Append(<< >>, x)) = << >>
      BY <2>1, <3>1, AppendPath
    <3> QED BY <2>1, <3>1, <3>2 DEF Path
  <2>3. IsNode(Record)
    BY DEF IsNode
  <2>4. WithRecord(t, name) = Insert(t, <<x>>, Record)
    BY <1>3 DEF WithRecord
  <2> HIDE DEF x
  <2> QED BY <2>2, <2>3, <2>4, TreeGrows
<1> QED BY <1>2, <1>3

LEMMA OwnElements ==
    ASSUME NEW S, NEW s \in Seq(S)
    PROVE  s \in Seq(ToSet(s))
<1>1. Len(s) \in Nat /\ DOMAIN s = 1 .. Len(s) /\ s = [i \in 1 .. Len(s) |-> s[i]]
  OBVIOUS
<1>2. \A i \in 1 .. Len(s) : s[i] \in ToSet(s)
  BY <1>1 DEF ToSet
<1> QED BY <1>1, <1>2

LEMMA AppendElement ==
    ASSUME NEW s, s \in Seq(ToSet(s)), NEW x
    PROVE  /\ Append(s, x) \in Seq(ToSet(Append(s, x)))
           /\ Len(Append(s, x)) = Len(s) + 1 /\ Len(s) \in Nat
           /\ DOMAIN s = 1 .. Len(s) /\ DOMAIN Append(s, x) = 1 .. Len(s) + 1
           /\ \A i \in 1 .. Len(s) : Append(s, x)[i] = s[i]
           /\ Append(s, x)[Len(s) + 1] = x
<1> DEFINE S == ToSet(s) \cup {x}
<1>1. s \in Seq(S) /\ x \in S
  OBVIOUS
<1> HIDE DEF S
<1>2. Append(s, x) \in Seq(S) /\ Append(s, x) \in Seq(ToSet(Append(s, x)))
  <2> DEFINE e == Append(s, x)
  <2>1. e \in Seq(S)
    BY <1>1
  <2> HIDE DEF e
  <2>2. e \in Seq(ToSet(e))
    BY <2>1, OwnElements
  <2> QED BY <2>1, <2>2 DEF e
<1>3. /\ Len(Append(s, x)) = Len(s) + 1 /\ Len(s) \in Nat
      /\ \A i \in 1 .. Len(s) : Append(s, x)[i] = s[i]
      /\ Append(s, x)[Len(s) + 1] = x
  BY <1>1, AppendPath
<1>4. DOMAIN s = 1 .. Len(s)
  BY <1>1
<1>5. DOMAIN Append(s, x) = 1 .. Len(s) + 1
  BY <1>2, <1>3
<1> QED BY <1>2, <1>3, <1>4, <1>5

LEMMA MergeBegins ==
    ASSUME NEW t, IsTree(t), NEW u, IsTree(u)
    PROVE  Merging(t, u, DOMAIN u, Nowhere, {})
<1>1. DOMAIN Nowhere = {<< >>} /\ Nowhere[<< >>] = << >>
  BY DEF Nowhere
<1>2. Moving(t, u, DOMAIN u, Nowhere, {})
  <2>1. << >> \notin DOMAIN u
    BY DEF IsTree
  <2> QED BY <1>1, <2>1 DEF Moving
<1> QED BY <1>1, <1>2 DEF Merging, Settled, InOrder, Distinct, Full

LEMMA NodeChanged ==
    ASSUME NEW t, IsTree(t), NEW p, NEW x, IsNode(x)
    PROVE  IsTree([t EXCEPT ![p] = x])
<1> DEFINE t1 == [t EXCEPT ![p] = x]
<1>1. DOMAIN t1 = DOMAIN t /\ \A q \in DOMAIN t : t1[q] = t[q] \/ t1[q] = x
  OBVIOUS
<1> HIDE DEF t1
<1>2. IsTree(t1)
  BY <1>1 DEF IsTree
<1> QED BY <1>2 DEF t1

---------------------------------------------------------------------------
RecordOK ==
    /\ crashlog \in CrashLogs
    /\ n \in Nat /\ (pc # "done" => n \in 1 .. Len(crashlog))
DefNames == {"layout", "thread", "core", "sq", "module"}
LayoutOK ==
    /\ def.name \in DefNames /\ Found1(def.found)
    /\ line \in Nat \ {0} /\ path \in Path /\ bit \in Nat /\ value \in SUBSET (0 .. 63)
    /\ pc = "field" => Known /\ line <= Len(Lines)
TreesOK ==
    /\ IsTree(tree) /\ IsTree(base) /\ IsTree(result)
    /\ decoded \in Seq(ToSet(decoded))
    /\ \A k \in DOMAIN decoded : IsTree(decoded[k])
MergeOK == pc \in {"extend", "merge"} => Merging(Target, tree, todo, at, added)

TypeInv == RecordOK /\ LayoutOK /\ TreesOK /\ MergeOK

LEMMA RecIs ==
    ASSUME NEW c \in CrashLogs, NEW i \in 1 .. Len(c)
    PROVE  WellFormed(c[i]) /\ Len(c) \in Nat
<1>1. c \in Seq(ToSet(c)) /\ \A k \in DOMAIN c : WellFormed(c[k])
  BY DecodeAssumption
<1>2. Len(c) \in Nat /\ DOMAIN c = 1 .. Len(c)
  BY <1>1
<1> QED BY <1>1, <1>2

(* The trees that are merged in the end. *)
LEMMA DecodedTree ==
    ASSUME NEW r, WellFormed(r), NEW t, IsTree(t)
    PROVE  IsTree(Graft(Hierarchy(NoTree, Root(r)), Root(r), t))
<1>1. Root(r) \in Path
  BY RootIsPath
<1>2. /\ IsTree(Hierarchy(NoTree, Root(r)))
      /\ Root(r) # << >> => Root(r) \in DOMAIN Hierarchy(NoTree, Root(r))
  BY <1>1, NoTreeIsTree, HierarchyIsTree
<1> QED BY <1>1, <1>2, GraftIsTree

LEMMA HeaderIsTree ==
    ASSUME NEW r, WellFormed(r)
    PROVE  IsTree(Graft(Insert(NoTree, <<r.name>>, Record), <<r.name>>, r.header))
<1>1. r.name \in Name /\ IsTree(r.header)
  BY DEF WellFormed
<1> DEFINE name == r.name
<1> HIDE DEF name
<1>2. /\ IsTree(Insert(NoTree, <<name>>, Record)) /\ <<name>> \in Path
      /\ <<name>> \in DOMAIN Insert(NoTree, <<name>>, Record)
  BY <1>1, HeaderTree DEF name
<1>3. IsTree(Graft(Insert(NoTree, <<name>>, Record), <<name>>, r.header))
  BY <1>1, <1>2, GraftIsTree
<1> QED BY <1>3 DEF name

LEMMA ClosedIsTree ==
    ASSUME NEW name \in Name, NEW levels \in Path, NEW t, IsTree(t)
    PROVE  LET below == <<name>> \o levels
               node == Insert(NoTree, <<name>>, Record)
           IN IsTree(Graft(Hierarchy(node, below), below, t))
<1> DEFINE below == <<name>> \o levels
           node == Insert(NoTree, <<name>>, Record)
<1>1. IsTree(node) /\ <<name>> \in Path
  BY HeaderTree
<1>2. below \in Path
  BY <1>1, ConcatFacts DEF Path
<1> HIDE DEF below, node
<1>3. IsTree(Hierarchy(node, below)) /\ (below # << >> => below \in DOMAIN Hierarchy(node, below))
  BY <1>1, <1>2, HierarchyIsTree
<1>4. IsTree(Graft(Hierarchy(node, below), below, t))
  BY <1>2, <1>3, GraftIsTree
<1> QED BY <1>4 DEF below, node

---------------------------------------------------------------------------
LEMMA DecodedOK ==
    ASSUME TypeInv, NEW STATE t, IsTree(t), pc # "done", Decoded(t),
           UNCHANGED <<crashlog, bit, value>>
    PROVE  TypeInv'
<1>1. WellFormed(Rec)
  BY RecIs DEF TypeInv, RecordOK, Rec
<1> DEFINE u == Graft(Hierarchy(NoTree, Root(Rec)), Root(Rec), t)
<1>2. IsTree(u)
  BY <1>1, DecodedTree
<1> HIDE DEF u
<1>3. /\ tree' = u /\ todo' = DOMAIN u /\ at' = Nowhere /\ added' = {} /\ pc' = "merge"
      /\ UNCHANGED <<crashlog, bit, value, n, sub, def, line, path, base, result, decoded>>
  BY DEF Decoded, Begin, u
<1>4. RecordOK' /\ LayoutOK'
  BY <1>3 DEF TypeInv, RecordOK, LayoutOK
<1>5. TreesOK'
  BY <1>2, <1>3 DEF TypeInv, TreesOK
<1>6. Target' = result
  BY <1>3 DEF Target
<1>7. Merging(result, u, DOMAIN u, Nowhere, {})
  BY <1>2, MergeBegins DEF TypeInv, TreesOK
<1>8. MergeOK'
  BY <1>3, <1>6, <1>7 DEF MergeOK
<1> QED BY <1>4, <1>5, <1>8 DEF TypeInv

LEMMA HeaderOnlyOK ==
    ASSUME TypeInv, pc # "done"
    PROVE  IsTree(HeaderOnly)
<1>1. WellFormed(Rec)
  BY RecIs DEF TypeInv, RecordOK, Rec
<1> QED BY <1>1, HeaderIsTree DEF HeaderOnly, RecordNode

LEMMA ApplyOK ==
    ASSUME TypeInv, NEW CONSTANT d \in DefNames, pc # "done", Apply(Def(Rec, d)), pc' = "layout", IsTree(base'),
           UNCHANGED <<crashlog, bit, value, n, result, decoded>>
    PROVE  TypeInv'
<1>1. def' = Def(Rec, d) /\ line' = 1 /\ path' = << >> /\ tree' = NoTree
  BY DEF Apply
<1>2. def'.name \in DefNames /\ Found1(def'.found)
  BY <1>1, LayoutsAre DEF Def
<1>3. path' \in Path
  BY <1>1 DEF Path
<1>4. RecordOK' /\ LayoutOK'
  BY <1>1, <1>2, <1>3 DEF TypeInv, RecordOK, LayoutOK
<1>5. TreesOK'
  BY <1>1, NoTreeIsTree DEF TypeInv, TreesOK
<1> QED BY <1>4, <1>5 DEF TypeInv, MergeOK

LEMMA NextSubOK ==
    ASSUME TypeInv, pc # "done", NextSub, UNCHANGED <<crashlog, bit, value>>
    PROVE  TypeInv'
<1>1. CASE sub = "thread"
  <2>1. Apply(Def(Rec, "core")) /\ pc' = "layout" /\ base' = NoTree /\ UNCHANGED <<n, result, decoded>>
    BY <1>1 DEF NextSub
  <2>2. "core" \in DefNames
    BY DEF DefNames
  <2> QED BY <2>1, <2>2, NoTreeIsTree, ApplyOK
<1>2. CASE sub # "thread"
  BY <1>2, HeaderOnlyOK, DecodedOK DEF NextSub
<1> QED BY <1>1, <1>2

LEMMA CloseOK ==
    ASSUME TypeInv, NEW STATE t, IsTree(t), pc # "done", Close(t), UNCHANGED <<crashlog, bit, value>>
    PROVE  TypeInv'
<1>1. CASE <<SubName>> \notin DOMAIN t
  BY <1>1, NextSubOK DEF Close
<1>2. CASE <<SubName>> \in DOMAIN t
  <2>1. WellFormed(Rec) /\ Rec.name \in Name
    BY RecIs DEF TypeInv, RecordOK, Rec, WellFormed
  <2>2. Levels(t) \in Path
    BY LevelsIsPath
  <2> DEFINE below == <<Rec.name>> \o Levels(t)
             x == Graft(Hierarchy(RecordNode, below), below, t)
  <2>3. IsTree(x)
    BY <2>1, <2>2, ClosedIsTree DEF RecordNode
  <2>4. Decoded(x)
    BY <1>2 DEF Close
  <2> HIDE DEF x
  <2> QED BY <2>3, <2>4, DecodedOK
<1> QED BY <1>1, <1>2

LEMMA LineIs ==
    ASSUME TypeInv, Known, line <= Len(Lines)
    PROVE  /\ Lines[line].name \in Seq(Seq(Int)) /\ Lines[line].offset \in Nat
           /\ Lines[line].size \in Nat
<1>1. PICK lines \in Seq(LayoutLine) : def.found = <<lines>>
  BY DEF TypeInv, LayoutOK, Found1, Known
<1>2. Lines = lines
  BY <1>1 DEF Lines
<1>3. line \in 1 .. Len(lines)
  BY <1>2 DEF TypeInv, LayoutOK
<1>4. lines[line] \in LayoutLine
  BY <1>3
<1> QED BY <1>2, <1>4 DEF LayoutLine

(* What is read of a field fits into a value. *)
LEMMA MaskedFits ==
    ASSUME NEW b \in Nat, NEW size \in Nat, b < size, size <= 64,
           NEW m \in 0 .. Min({size - b, 8}) - 1
    PROVE  b + m \in 0 .. 63
<1> DEFINE T == {size - b, 8}
<1>1. T \in SUBSET Nat /\ T # {}
  OBVIOUS
<1>2. Min(T) \in T /\ \A x \in T : Min(T) <= x
  <2> HIDE DEF T
  <2> QED BY <1>1, MinOf
<1>3. Min(T) \in Nat /\ Min(T) <= size - b
  BY <1>1, <1>2
<1> HIDE DEF T
<1>4. m \in 0 .. Min(T) - 1
  BY DEF T
<1>5. m \in Nat /\ b + m <= size - 1
  BY <1>3, <1>4
<1> QED BY <1>5

LEMMA FieldStep ==
    ASSUME TypeInv, ReadChunk
    PROVE  TypeInv'
<1>1. Lines[line].size \in Nat /\ Lines[line].offset \in Nat /\ pc = "field"
  BY LineIs DEF ReadChunk, TypeInv, LayoutOK
<1>2. bit \in Nat /\ bit < Size /\ Size <= 64 /\ Size \in Nat
  BY <1>1 DEF ReadChunk, Readable, Size, TypeInv, LayoutOK
<1>3. Start + bit \in Int
  <2>1. Rec.extended \in Int
    BY <1>1, RecIs DEF TypeInv, RecordOK, Rec, WellFormed
  <2>2. Offset \in Int
    BY <2>1 DEF Offset
  <2> QED BY <1>1, <1>2, <2>2 DEF Start
<1>4. bit + 8 - BitOffset \in Nat
  <2> DEFINE s == Start + bit
  <2> HIDE DEF s
  <2>1. s % 8 \in 0 .. 7
    BY <1>3 DEF s
  <2>2. bit + 8 - (s % 8) \in Nat
    BY <1>2, <2>1
  <2> QED BY <2>2 DEF s, BitOffset
<1>5. Masked \subseteq 0 .. 63
  <2>1. \A m \in Mask : bit + m \in 0 .. 63
    BY <1>2, MaskedFits DEF Mask
  <2> QED BY <2>1 DEF Masked
<1>6. /\ bit' \in Nat /\ value' \in SUBSET (0 .. 63)
      /\ UNCHANGED <<crashlog, n, sub, def, pc, line, path, tree, base, todo, at, added, result, decoded>>
  BY <1>4, <1>5 DEF ReadChunk, TypeInv, LayoutOK
<1>7. RecordOK' /\ LayoutOK'
  BY <1>6 DEF TypeInv, RecordOK, LayoutOK, Known, Lines
<1>8. TreesOK' /\ MergeOK'
  BY <1>1, <1>6 DEF TypeInv, TreesOK, MergeOK
<1> QED BY <1>7, <1>8 DEF TypeInv

LEMMA TakeStep ==
    ASSUME TypeInv, TakeLine
    PROVE  TypeInv'
<1> DEFINE name == Lines[line].name
           to == PathOf(name, path)
<1>1. pc = "layout" /\ Known /\ line <= Len(Lines) /\ name # << >>
  BY DEF TakeLine, AtLine
<1>2. name \in Seq(Seq(Int))
  BY <1>1, LineIs
<1>3. path \in Path /\ IsTree(tree)
  BY DEF TypeInv, LayoutOK, TreesOK
<1>4. /\ path' = to /\ tree' = Hierarchy(WithRecord(tree, name), to)
      /\ bit' = 0 /\ value' = {} /\ pc' = "field"
      /\ UNCHANGED <<crashlog, n, sub, def, line, base, todo, at, added, result, decoded>>
  BY DEF TakeLine
<1> HIDE DEF name
<1>5. to \in Path
  BY <1>1, <1>2, <1>3, PathOfIsPath
<1> HIDE DEF to
<1>6. IsTree(tree')
  BY <1>1, <1>2, <1>3, <1>4, <1>5, WithRecordIsTree, HierarchyIsTree
<1>7. RecordOK' /\ LayoutOK'
  BY <1>1, <1>4, <1>5 DEF TypeInv, RecordOK, LayoutOK, Known, Lines
<1>8. TreesOK'
  BY <1>4, <1>6 DEF TypeInv, TreesOK
<1>9. MergeOK'
  BY <1>4 DEF MergeOK
<1> QED BY <1>7, <1>8, <1>9 DEF TypeInv

(* Where a node goes. *)
LEMMA DecimalIs ==
    ASSUME NEW i \in Nat
    PROVE  Decimal(i) \in Seq(Digits)
<1> DEFINE T == {10} \cup {k \in 1 .. 9 : i < Tens[k + 1]}
           count == Min(T)
<1>1. count \in 1 .. 10
  <2>1. T \in SUBSET Nat /\ T # {} /\ T \subseteq 1 .. 10
    OBVIOUS
  <2> HIDE DEF T
  <2> QED BY <2>1, MinOf
<1>2. \A k \in 1 .. 10 : Tens[k] \in Nat \ {0}
  BY DEF Tens
<1>3. ASSUME NEW k \in 1 .. 10 PROVE (i \div Tens[k]) % 10 \in Digits
  <2>1. \A q \in Nat : q % 10 \in Digits
    BY DEF Digits
  <2>2. \A x \in Nat \ {0} : i \div x \in Nat
    OBVIOUS
  <2> QED BY <1>2, <2>1, <2>2
<1>4. Decimal(i) = [k \in 1 .. count |-> (i \div Tens[count + 1 - k]) % 10]
  BY DEF Decimal
<1> HIDE DEF count
<1>5. ASSUME NEW k \in 1 .. count PROVE (i \div Tens[count + 1 - k]) % 10 \in Digits
  <2>1. count + 1 - k \in 1 .. 10
    BY <1>1
  <2> QED BY <1>3, <2>1
<1> QED BY <1>1, <1>4, <1>5

LEMMA PlaceIs ==
    ASSUME NEW t, IsTree(t), NEW node, NEW to \in Place(t, node)
    PROVE  LET home == Append(at[Front(node)], Last(node)) IN
           \/ /\ to = home
              /\ Front(node) \in added \/ home \notin DOMAIN t \/ t[home].kind = "section"
           \/ /\ home \in DOMAIN t /\ t[home].kind # "section" /\ Front(node) \notin added
              /\ \E d \in Seq(Digits) : to = Numbered(home, d) /\ to \notin DOMAIN t
<1>1. 0 .. Cardinality(DOMAIN t) \subseteq Nat
  BY FS_CardinalityType DEF IsTree
<1> QED BY <1>1, DecimalIs DEF Place, Instance

LEMMA SectionIs ==
    ASSUME NEW x, IsNode(x)
    PROVE  x.kind = "section" <=> x = Section
BY DEF IsNode, Section, Record, Field

(* The node that comes next, to where it is merged. *)
LEMMA MergeOne ==
    ASSUME NEW t, NEW u, NEW w, Merging(t, u, w, at, added),
           NEW z \in w, \A o \in w : ~Before(o, z), NEW to \in Place(t, z)
    PROVE  \/ /\ Front(z) \in added \/ to \notin DOMAIN t
              /\ to \notin DOMAIN t /\ to \in Path /\ to # << >>
              /\ Front(to) = at[Front(z)] /\ Alias(Last(to), Last(z))
              /\ Front(z) \in added => Last(to) = Last(z)
              /\ Last(to) # Last(z) =>
                   /\ Append(at[Front(z)], Last(z)) \in DOMAIN t
                   /\ t[Append(at[Front(z)], Last(z))] # Section
           \/ /\ Front(z) \notin added /\ to \in DOMAIN t
              /\ to = Append(at[Front(z)], Last(z)) /\ t[to] = Section
<1> DEFINE home == Append(at[Front(z)], Last(z))
<1>1. IsTree(t) /\ IsTree(u) /\ z \in DOMAIN u
  BY DEF Merging, Moving
<1>2. z \in Path /\ z # << >> /\ Last(z) \in Name
  BY <1>1, TreeFacts
<1>3. Front(z) \in DOMAIN at
  BY ParentGone
<1>4. at[Front(z)] \in Path
  BY <1>3, GoneFacts
<1>5. /\ home \in Path /\ home # << >> /\ Front(home) = at[Front(z)] /\ Last(home) = Last(z)
  BY <1>2, <1>4, AppendPath DEF Path
<1>6. Front(z) \in added => home \notin DOMAIN t
  BY RoomBelow
<1>7. home \in DOMAIN t => (t[home].kind = "section" <=> t[home] = Section)
  BY <1>1, TreeFacts, SectionIs
<1>8. \/ /\ to = home
         /\ Front(z) \in added \/ home \notin DOMAIN t \/ t[home].kind = "section"
      \/ /\ home \in DOMAIN t /\ t[home].kind # "section" /\ Front(z) \notin added
         /\ \E d \in Seq(Digits) : to = Numbered(home, d) /\ to \notin DOMAIN t
  BY <1>1, PlaceIs
<1>9. Alias(Last(z), Last(z))
  BY <1>2, SelfAlias
<1> HIDE DEF home
<1>10. CASE to = home
  <2>1. CASE home \notin DOMAIN t
    BY <1>5, <1>9, <1>10, <2>1
  <2>2. CASE home \in DOMAIN t
    <3>1. Front(z) \notin added /\ t[to] = Section
      BY <1>6, <1>7, <1>8, <1>10, <2>2
    <3> QED BY <1>10, <2>2, <3>1 DEF home
  <2> QED BY <2>1, <2>2
<1>11. CASE to # home
  <2>1. PICK d \in Seq(Digits) : to = Numbered(home, d) /\ to \notin DOMAIN t
    BY <1>8, <1>11
  <2>2. home \in DOMAIN t /\ t[home] # Section /\ Front(z) \notin added
    BY <1>7, <1>8, <1>11
  <2>3. Last(home) \o d \in Name
    BY <1>2, <1>5, NumberedName
  <2>4. /\ to \in Path /\ to # << >> /\ Front(to) = at[Front(z)] /\ Last(to) = Last(z) \o d
    <3> DEFINE name == Last(home) \o d
               p == at[Front(z)]
    <3>1. to = Append(p, name) /\ name = Last(z) \o d
      BY <1>5, <2>1 DEF Numbered
    <3>2. name \in Name /\ p \in Path
      BY <1>4, <2>3
    <3> HIDE DEF name, p
    <3>3. /\ Append(p, name) \in Path /\ Append(p, name) # << >>
          /\ Front(Append(p, name)) = p /\ Last(Append(p, name)) = name
      BY <3>2, AppendPath DEF Path
    <3> QED BY <3>1, <3>3 DEF p
  <2>5. Alias(Last(to), Last(z))
    BY <2>1, <2>4 DEF Alias
  <2> QED BY <2>1, <2>2, <2>4, <2>5 DEF home
<1> QED BY <1>10, <1>11

(* What a step of the merge does: a node becomes a new one, or it meets a  *)
(* section.                                                                *)
New(z, to) ==
    /\ to \notin DOMAIN Target /\ to # << >>
    /\ Front(to) = at[Front(z)] /\ Alias(Last(to), Last(z))
    /\ Front(z) \in added => Last(to) = Last(z)
    /\ Last(to) # Last(z) =>
         /\ Append(at[Front(z)], Last(z)) \in DOMAIN Target
         /\ Target[Append(at[Front(z)], Last(z))] # Section
    /\ added' = added \cup {z}
    /\ Target' = Insert(Target, to, tree[z])

Old(z, to) ==
    /\ Front(z) \notin added
    /\ to = Append(at[Front(z)], Last(z)) /\ to \in DOMAIN Target /\ Target[to] = Section
    /\ added' = added
    /\ Target' = Target

Goes(z, to) ==
    /\ \A o \in todo : ~Before(o, z)
    /\ todo' = todo \ {z} /\ at' = Insert(at, z, to)
    /\ New(z, to) \/ Old(z, to)

LEMMA MergeFacts ==
    ASSUME TypeInv, MergeNode
    PROVE  /\ \E z \in todo, to \in Path : Goes(z, to)
           /\ pc = "extend" => base' = Target' /\ result' = result
           /\ pc = "merge" => result' = Target' /\ base' = base
           /\ pc \in {"extend", "merge"}
           /\ UNCHANGED <<crashlog, n, sub, def, pc, line, path, bit, value, tree, decoded>>
<1>1. /\ pc \in {"extend", "merge"}
      /\ UNCHANGED <<crashlog, n, sub, def, pc, line, path, bit, value, tree, decoded>>
  BY DEF MergeNode
<1>2. PICK z \in todo : /\ \A o \in todo : ~Before(o, z)
                        /\ todo' = todo \ {z}
                        /\ \E to \in Place(Target, z) :
                             LET new == Front(z) \in added \/ to \notin DOMAIN Target
                                 merged == IF new THEN Insert(Target, to, tree[z]) ELSE Target
                             IN /\ at' = Insert(at, z, to)
                                /\ added' = IF new THEN added \cup {z} ELSE added
                                /\ base' = IF pc = "extend" THEN merged ELSE base
                                /\ result' = IF pc = "merge" THEN merged ELSE result
  BY DEF MergeNode
<1>3. PICK to \in Place(Target, z) :
        LET new == Front(z) \in added \/ to \notin DOMAIN Target
            merged == IF new THEN Insert(Target, to, tree[z]) ELSE Target
        IN /\ at' = Insert(at, z, to)
           /\ added' = IF new THEN added \cup {z} ELSE added
           /\ base' = IF pc = "extend" THEN merged ELSE base
           /\ result' = IF pc = "merge" THEN merged ELSE result
  BY <1>2
<1> DEFINE new == Front(z) \in added \/ to \notin DOMAIN Target
           merged == IF new THEN Insert(Target, to, tree[z]) ELSE Target
<1>4. /\ at' = Insert(at, z, to)
      /\ added' = IF new THEN added \cup {z} ELSE added
      /\ base' = IF pc = "extend" THEN merged ELSE base
      /\ result' = IF pc = "merge" THEN merged ELSE result
  BY <1>3
<1>5. Merging(Target, tree, todo, at, added)
  BY <1>1 DEF TypeInv, MergeOK
<1>6. \/ /\ to \notin DOMAIN Target /\ to \in Path /\ to # << >>
         /\ Front(to) = at[Front(z)] /\ Alias(Last(to), Last(z))
         /\ Front(z) \in added => Last(to) = Last(z)
         /\ Last(to) # Last(z) =>
              /\ Append(at[Front(z)], Last(z)) \in DOMAIN Target
              /\ Target[Append(at[Front(z)], Last(z))] # Section
      \/ /\ Front(z) \notin added /\ to \in DOMAIN Target
         /\ to = Append(at[Front(z)], Last(z)) /\ Target[to] = Section
  BY <1>2, <1>3, <1>5, MergeOne
<1>7. to \in Path
  <2>1. IsTree(Target)
    BY <1>5 DEF Merging, Moving
  <2> QED BY <1>6, <2>1, TreeFacts
<1>8. Target' = merged
  <2> HIDE DEF merged
  <2> QED BY <1>1, <1>4 DEF Target
<1>9. New(z, to) \/ Old(z, to)
  BY <1>4, <1>6, <1>8 DEF New, Old
<1>10. Goes(z, to)
  BY <1>2, <1>4, <1>9 DEF Goes
<1>11. /\ pc = "extend" => base' = merged /\ result' = result
       /\ pc = "merge" => result' = merged /\ base' = base
  <2> HIDE DEF merged
  <2> QED BY <1>4
<1> HIDE DEF merged
<1> QED BY <1>1, <1>7, <1>8, <1>10, <1>11

LEMMA MergeStep ==
    ASSUME TypeInv, MergeNode
    PROVE  TypeInv'
<1>1. PICK z \in todo, to \in Path : Goes(z, to)
  BY MergeFacts
<1>2. /\ pc = "extend" => base' = Target' /\ result' = result
      /\ pc = "merge" => result' = Target' /\ base' = base
      /\ pc \in {"extend", "merge"}
      /\ UNCHANGED <<crashlog, n, sub, def, pc, line, path, bit, value, tree, decoded>>
  BY MergeFacts
<1>3. Merging(Target, tree, todo, at, added)
  BY <1>2 DEF TypeInv, MergeOK
<1>4. Merging(Target', tree, todo', at', added')
  <2>1. CASE New(z, to)
    BY <1>1, <1>3, <2>1, MergeNew DEF Goes, New
  <2>2. CASE Old(z, to)
    BY <1>1, <1>3, <2>2, MergeOld DEF Goes, Old
  <2> QED BY <1>1, <2>1, <2>2 DEF Goes
<1>5. IsTree(Target')
  BY <1>4 DEF Merging, Moving
<1>6. RecordOK' /\ LayoutOK'
  BY <1>2 DEF TypeInv, RecordOK, LayoutOK, Known, Lines
<1>7. TreesOK'
  BY <1>2, <1>5 DEF TypeInv, TreesOK
<1>8. MergeOK'
  BY <1>2, <1>4 DEF MergeOK
<1> QED BY <1>6, <1>7, <1>8 DEF TypeInv

LEMMA TypeInit ==
    ASSUME Init
    PROVE  TypeInv
<1>1. crashlog \in CrashLogs /\ crashlog # << >> /\ crashlog \in Seq(ToSet(crashlog))
  BY DecodeAssumption DEF Init
<1>2. 1 \in 1 .. Len(crashlog)
  BY <1>1
<1>3. def.name \in DefNames /\ Found1(def.found)
  BY LayoutsAre DEF Init, FirstDef, Def, DefNames
<1>4. << >> \in Path /\ << >> \in Seq(ToSet(<< >>)) /\ DOMAIN << >> = {}
  BY DEF Path
<1>5. RecordOK /\ LayoutOK
  BY <1>1, <1>2, <1>3, <1>4 DEF Init, RecordOK, LayoutOK
<1>6. TreesOK
  BY <1>4, NoTreeIsTree DEF Init, TreesOK
<1> QED BY <1>5, <1>6 DEF Init, TypeInv, MergeOK

LEMMA TypeStep ==
    ASSUME TypeInv, Next
    PROVE  TypeInv'
<1>1. CASE SkipLine
  <2>1. /\ pc = "layout" /\ line' = line + 1
        /\ UNCHANGED <<crashlog, n, sub, def, pc, path, bit, value, tree, base, todo, at, added, result, decoded>>
    BY <1>1 DEF SkipLine, AtLine
  <2> QED BY <2>1 DEF TypeInv, RecordOK, LayoutOK, TreesOK, MergeOK
<1>2. CASE TakeLine
  BY <1>2, TakeStep
<1>3. CASE NodeMissing
  <2>1. /\ pc = "layout" /\ pc' = "panicked"
        /\ UNCHANGED <<crashlog, n, sub, def, line, path, bit, value, tree, base, todo, at, added, result, decoded>>
    BY <1>3 DEF NodeMissing, AtLine
  <2> QED BY <2>1 DEF TypeInv, RecordOK, LayoutOK, TreesOK, MergeOK
<1>4. CASE ReadChunk
  BY <1>4, FieldStep
<1>5. CASE FieldDone
  <2>1. /\ pc = "field" /\ pc' = "layout" /\ line' = line + 1
        /\ tree' = IF path = << >> THEN tree ELSE [tree EXCEPT ![path] = Field(value)]
        /\ UNCHANGED <<crashlog, n, sub, def, path, bit, value, base, todo, at, added, result, decoded>>
    BY <1>5 DEF FieldDone
  <2>2. IsNode(Field(value))
    BY DEF IsNode, Field, TypeInv, LayoutOK
  <2>3. IsTree(tree')
    BY <2>1, <2>2, NodeChanged DEF TypeInv, TreesOK
  <2> QED BY <2>1, <2>3 DEF TypeInv, RecordOK, LayoutOK, TreesOK, MergeOK
<1>6. CASE FieldMissing
  <2>1. /\ pc = "field" /\ pc' = "layout" /\ line' = line + 1
        /\ UNCHANGED <<crashlog, n, sub, def, path, bit, value, tree, base, todo, at, added, result, decoded>>
    BY <1>6 DEF FieldMissing
  <2> QED BY <2>1 DEF TypeInv, RecordOK, LayoutOK, TreesOK, MergeOK
<1>7. CASE LayoutDone
  <2>1. pc = "layout" /\ UNCHANGED <<crashlog, bit, value>> /\ IsTree(tree)
    BY <1>7 DEF LayoutDone, Complete, TypeInv, TreesOK
  <2>2. \/ Decoded(tree)
        \/ Close(tree)
        \/ /\ base' = tree /\ Apply(Def(Rec, "sq"))
           /\ UNCHANGED <<n, sub, pc, todo, at, added, result, decoded>>
        \/ /\ Begin(tree) /\ pc' = "extend"
           /\ UNCHANGED <<n, sub, def, line, path, base, result, decoded>>
    <3>1. def.name \in DefNames
      BY DEF TypeInv, LayoutOK
    <3> QED BY <1>7, <3>1, Zenon DEF LayoutDone, DefNames
  <2>3. CASE Decoded(tree)
    BY <2>1, <2>3, DecodedOK
  <2>4. CASE Close(tree)
    BY <2>1, <2>4, CloseOK
  <2>5. CASE /\ base' = tree /\ Apply(Def(Rec, "sq"))
             /\ UNCHANGED <<n, sub, pc, todo, at, added, result, decoded>>
    <3>1. "sq" \in DefNames /\ pc' = "layout" /\ IsTree(base')
      BY <2>1, <2>5 DEF DefNames
    <3> QED BY <2>1, <2>5, <3>1, ApplyOK
  <2>6. CASE /\ Begin(tree) /\ pc' = "extend"
             /\ UNCHANGED <<n, sub, def, line, path, base, result, decoded>>
    <3>1. /\ tree' = tree /\ todo' = DOMAIN tree /\ at' = Nowhere /\ added' = {}
          /\ pc' = "extend"
          /\ UNCHANGED <<crashlog, bit, value, n, sub, def, line, path, base, result, decoded>>
      BY <2>1, <2>6 DEF Begin
    <3>2. Merging(base, tree, DOMAIN tree, Nowhere, {})
      BY <2>1, MergeBegins DEF TypeInv, TreesOK
    <3>3. Target' = base
      BY <3>1 DEF Target
    <3>4. MergeOK'
      BY <3>1, <3>2, <3>3 DEF MergeOK
    <3> QED BY <2>1, <3>1, <3>4 DEF TypeInv, RecordOK, LayoutOK, TreesOK
  <2> QED BY <2>2, <2>3, <2>4, <2>5, <2>6
<1>8. CASE LayoutFails
  <2>1. pc = "layout" /\ UNCHANGED <<crashlog, bit, value>> /\ IsTree(base)
    BY <1>8 DEF LayoutFails, Failed, TypeInv, TreesOK
  <2>2. \/ Decoded(HeaderOnly)
        \/ NextSub
        \/ /\ Apply(Def(Rec, "module"))
           /\ UNCHANGED <<n, sub, pc, base, todo, at, added, result, decoded>>
        \/ Close(base)
    <3>1. def.name \in DefNames
      BY DEF TypeInv, LayoutOK
    <3> QED BY <1>8, <3>1, Zenon DEF LayoutFails, DefNames
  <2>3. CASE Decoded(HeaderOnly)
    BY <2>1, <2>3, HeaderOnlyOK, DecodedOK
  <2>4. CASE NextSub
    BY <2>1, <2>4, NextSubOK
  <2>5. CASE /\ Apply(Def(Rec, "module"))
             /\ UNCHANGED <<n, sub, pc, base, todo, at, added, result, decoded>>
    <3>1. "module" \in DefNames /\ pc' = "layout" /\ IsTree(base')
      BY <2>1, <2>5 DEF DefNames
    <3> QED BY <2>1, <2>5, <3>1, ApplyOK
  <2>6. CASE Close(base)
    BY <2>1, <2>6, CloseOK
  <2> QED BY <2>2, <2>3, <2>4, <2>5, <2>6
<1>9. CASE MergeNode
  BY <1>9, MergeStep
<1>10. CASE Extended
  BY <1>10, CloseOK DEF Extended, TypeInv, TreesOK
<1>11. CASE Merged
  <2>1. /\ pc = "merge" /\ decoded' = Append(decoded, tree) /\ n' = n + 1 /\ base' = NoTree
        /\ UNCHANGED <<crashlog, bit, value, todo, at, added, result>>
        /\ IF n < Len(crashlog)
           THEN Apply(FirstDef(crashlog[n + 1])) /\ pc' = "layout"
           ELSE pc' = "done" /\ UNCHANGED <<def, line, path, tree>>
    BY <1>11 DEF Merged
  <2>2. n \in 1 .. Len(crashlog) /\ Len(crashlog) \in Nat /\ crashlog \in CrashLogs
    BY <2>1, RecIs DEF TypeInv, RecordOK
  <2>3. IsTree(tree')  /\ Found1(def'.found) /\ def'.name \in DefNames /\ line' \in Nat \ {0} /\ path' \in Path
    <3>1. CASE n < Len(crashlog)
      <4>1. def' = FirstDef(crashlog[n + 1]) /\ line' = 1 /\ path' = << >> /\ tree' = NoTree
        BY <2>1, <3>1 DEF Apply
      <4>2. def'.name \in DefNames /\ Found1(def'.found)
        BY <4>1, LayoutsAre DEF FirstDef, Def, DefNames
      <4> QED BY <4>1, <4>2, NoTreeIsTree DEF Path
    <3>2. CASE ~(n < Len(crashlog))
      BY <2>1, <3>2 DEF TypeInv, LayoutOK, TreesOK
    <3> QED BY <3>1, <3>2
  <2>4. RecordOK'
    BY <2>1, <2>2 DEF TypeInv, RecordOK
  <2>5. LayoutOK'
    BY <2>1, <2>3 DEF TypeInv, LayoutOK
  <2>6. TreesOK'
    <3>1. /\ decoded' \in Seq(ToSet(decoded'))
          /\ DOMAIN decoded' = 1 .. Len(decoded) + 1 /\ DOMAIN decoded = 1 .. Len(decoded)
          /\ \A i \in 1 .. Len(decoded) : decoded'[i] = decoded[i]
          /\ decoded'[Len(decoded) + 1] = tree /\ Len(decoded) \in Nat
      BY <2>1, AppendElement DEF TypeInv, TreesOK
    <3>2. \A k \in 1 .. Len(decoded) + 1 : k \in 1 .. Len(decoded) \/ k = Len(decoded) + 1
      BY <3>1
    <3>3. \A k \in DOMAIN decoded' : IsTree(decoded'[k])
      BY <3>1, <3>2 DEF TypeInv, TreesOK
    <3> QED BY <2>1, <2>3, <3>1, <3>3, NoTreeIsTree DEF TypeInv, TreesOK
  <2>7. MergeOK'
    BY <2>1 DEF MergeOK
  <2> QED BY <2>4, <2>5, <2>6, <2>7 DEF TypeInv
<1> QED BY <1>1, <1>2, <1>3, <1>4, <1>5, <1>6, <1>7, <1>8, <1>9, <1>10, <1>11 DEF Next

(* Every tree has the nodes its nodes are below, each path is made of      *)
(* names, and the merge is always in the middle of a placement that is     *)
(* sound so far: each node that went was put below the place of its        *)
(* parent, under its name or a number of it; two new ones never share a    *)
(* place; and below a new one that is no section there is nothing else     *)
(* (node.rs, Node::merge and merge_instance).                              *)
THEOREM TreesSound == Spec => []TypeInv
<1>1. Init => TypeInv
  BY TypeInit
<1>2. TypeInv /\ [Next]_vars => TypeInv'
  <2>1. CASE UNCHANGED vars
    BY <2>1 DEF vars, TypeInv, RecordOK, LayoutOK, TreesOK, MergeOK, Target, Known, Lines
  <2> QED BY <2>1, TypeStep
<1> QED BY <1>1, <1>2, PTL DEF Spec

(* What is in the tree of the crash log stays as it is: a step adds nodes, *)
(* it takes none away and changes none (node.rs, Node::merge).             *)
ResultGrows == \A p \in DOMAIN result : p \in DOMAIN result' /\ result'[p] = result[p]

---------------------------------------------------------------------------
(* A node of a record goes where its path goes. *)
Leads(a, q) ==
    \A i \in 1 .. Len(q) : SubSeq(q, 1, i) \in DOMAIN a \ {<< >>} /\ a[SubSeq(q, 1, i)] = SubSeq(a[q], 1, i)

LEMMA PrefixGoes ==
    ASSUME NEW t, NEW u, NEW w, NEW a, NEW d, Merging(t, u, w, a, d),
           NEW q \in DOMAIN a, q # << >>
    PROVE  Leads(a, q)
<1> DEFINE Good(x) == \A j \in 1 .. Len(x) :
                        SubSeq(x, 1, j) \in DOMAIN a \ {<< >>} /\ a[SubSeq(x, 1, j)] = SubSeq(a[x], 1, j)
           Bad == {x \in DOMAIN a \ {<< >>} : ~Good(x)}
           T == {Len(x) : x \in Bad}
<1>1. \A x \in DOMAIN a \ {<< >>} :
         /\ x \in Path /\ a[x] \in Path /\ Len(a[x]) = Len(x) /\ Len(x) \in Nat \ {0}
         /\ Front(x) \in DOMAIN a /\ a[Front(x)] = Front(a[x]) /\ Len(Front(x)) = Len(x) - 1
  <2> SUFFICES ASSUME NEW x \in DOMAIN a \ {<< >>}
               PROVE  /\ x \in Path /\ a[x] \in Path /\ Len(a[x]) = Len(x) /\ Len(x) \in Nat \ {0}
                      /\ Front(x) \in DOMAIN a /\ a[Front(x)] = Front(a[x]) /\ Len(Front(x)) = Len(x) - 1
    OBVIOUS
  <2>1. x \in Path /\ a[x] \in Path /\ Len(a[x]) = Len(x)
    BY GoneFacts
  <2>2. Front(x) \in DOMAIN a /\ a[Front(x)] = Front(a[x])
    BY DEF Merging, Settled
  <2> QED BY <2>1, <2>2, PathFacts DEF Path
<1> SUFFICES ASSUME Bad # {} PROVE FALSE
  <2>1. Bad = {} => Good(q)
    OBVIOUS
  <2> QED BY <2>1 DEF Leads
<1>2. T \in SUBSET Nat /\ T # {}
  <2>1. \A x \in Bad : Len(x) \in Nat
    BY <1>1
  <2> HIDE DEF Bad
  <2> QED BY <2>1
<1>3. PICK k \in T : \A m \in T : k <= m
  <2> HIDE DEF T
  <2> QED BY <1>2, LeastOf
<1>4. PICK x \in Bad : k = Len(x)
  OBVIOUS
<1>5. x \in DOMAIN a \ {<< >>} /\ ~Good(x)
  OBVIOUS
<1>6. Front(x) # << >> => Good(Front(x))
  <2> SUFFICES ASSUME Front(x) # << >>, ~Good(Front(x)) PROVE FALSE
    OBVIOUS
  <2>1. Front(x) \in Bad
    BY <1>1, <1>5
  <2>2. Len(Front(x)) \in T /\ Len(Front(x)) = Len(x) - 1 /\ Len(x) \in Nat
    BY <1>1, <1>5, <2>1
  <2> HIDE DEF T, Bad, Good
  <2>3. k <= Len(x) - 1
    BY <1>3, <2>2
  <2> QED BY <1>4, <2>2, <2>3
<1> HIDE DEF Bad, T
<1>7. ASSUME NEW j \in 1 .. Len(x)
      PROVE  SubSeq(x, 1, j) \in DOMAIN a \ {<< >>} /\ a[SubSeq(x, 1, j)] = SubSeq(a[x], 1, j)
  <2>1. x \in Path /\ a[x] \in Path /\ Len(a[x]) = Len(x)
    BY <1>1, <1>5
  <2>2. CASE j = Len(x)
    <3>1. SubSeq(x, 1, j) = x
      BY <2>1, <2>2, SubFacts DEF Path
    <3>2. SubSeq(a[x], 1, j) = a[x]
      BY <2>1, <2>2, SubFacts DEF Path
    <3> QED BY <1>5, <3>1, <3>2
  <2>3. CASE j # Len(x)
    <3>1. j \in 1 .. Len(Front(x)) /\ SubSeq(Front(x), 1, j) = SubSeq(x, 1, j)
      BY <2>1, <2>3, SubFacts DEF Path
    <3>2. j \in 1 .. Len(Front(a[x])) /\ SubSeq(Front(a[x]), 1, j) = SubSeq(a[x], 1, j)
      BY <2>1, <2>3, SubFacts DEF Path
    <3>3. Front(x) # << >>
      BY <3>1
    <3>4. SubSeq(Front(x), 1, j) \in DOMAIN a \ {<< >>} /\ a[SubSeq(Front(x), 1, j)] = SubSeq(a[Front(x)], 1, j)
      BY <1>6, <3>1, <3>3
    <3>5. a[Front(x)] = Front(a[x])
      BY <1>1, <1>5
    <3> QED BY <3>1, <3>2, <3>4, <3>5
  <2> QED BY <2>2, <2>3
<1> QED BY <1>5, <1>7

(* What is below a new node goes with it. *)
LEMMA BelowGoes ==
    ASSUME NEW t, NEW u, NEW w, NEW a, NEW d, Merging(t, u, w, a, d),
           NEW p \in d, NEW r \in Path, p \o r \in DOMAIN a
    PROVE  p \o r \in d /\ a[p \o r] = a[p] \o r
<1> DEFINE Good(x) == p \o x \in d /\ a[p \o x] = a[p] \o x
           Bad == {x \in Path : p \o x \in DOMAIN a /\ ~Good(x)}
           T == {Len(x) : x \in Bad}
<1> SUFFICES ASSUME Bad # {} PROVE FALSE
  OBVIOUS
<1>1. p \in DOMAIN a /\ p # << >> /\ p \in Path /\ a[p] \in Path
  <2>1. p \in DOMAIN a /\ p # << >>
    BY DEF Merging, Moving
  <2> QED BY <2>1, GoneFacts
<1>2. T \in SUBSET Nat /\ T # {}
  <2>1. \A x \in Path : Len(x) \in Nat
    BY DEF Path
  <2> QED BY <2>1
<1>3. PICK k \in T : \A m \in T : k <= m
  <2> HIDE DEF T
  <2> QED BY <1>2, LeastOf
<1>4. PICK x \in Bad : k = Len(x)
  OBVIOUS
<1>5. x \in Path /\ p \o x \in DOMAIN a /\ ~Good(x) /\ Len(x) \in Nat
  BY DEF Path
<1>6. x # << >>
  <2>1. p \o << >> = p /\ a[p] \o << >> = a[p]
    BY <1>1, ConcatFacts DEF Path
  <2> QED BY <1>5, <2>1
<1>7. /\ Front(x) \in Path /\ Last(x) \in Name /\ x = Append(Front(x), Last(x))
      /\ Len(Front(x)) = Len(x) - 1
  BY <1>5, <1>6, PathFacts, FrontLast DEF Path
<1> DEFINE y == p \o Front(x)
<1>8. \A s \in Path : s \o x = Append(s \o Front(x), Last(x)) /\ s \o Front(x) \in Path
  <2> SUFFICES ASSUME NEW s \in Path
               PROVE  s \o x = Append(s \o Front(x), Last(x)) /\ s \o Front(x) \in Path
    OBVIOUS
  <2> DEFINE f == Front(x)
             e == Last(x)
  <2>1. f \in Seq(Name) /\ e \in Name /\ x = Append(f, e) /\ s \in Seq(Name)
    BY <1>7 DEF Path
  <2> HIDE DEF f, e
  <2>2. s \o Append(f, e) = Append(s \o f, e) /\ s \o f \in Seq(Name)
    BY <2>1, SMTT(60)
  <2> QED BY <2>1, <2>2 DEF f, e, Path
<1>9. p \o x = Append(y, Last(x)) /\ y \in Path /\ a[p] \o x = Append(a[p] \o Front(x), Last(x))
  BY <1>1, <1>8
<1>10. Front(p \o x) = y /\ Last(p \o x) = Last(x) /\ p \o x # << >>
  <2> HIDE DEF y
  <2>1. /\ Front(Append(y, Last(x))) = y /\ Last(Append(y, Last(x))) = Last(x)
        /\ Append(y, Last(x)) # << >>
    BY <1>7, <1>9, AppendPath, SMTT(60) DEF Path
  <2> QED BY <1>9, <2>1
<1>11. y \in DOMAIN a
  BY <1>5, <1>10 DEF Merging, Settled
<1>12. Good(Front(x))
  <2> SUFFICES ASSUME ~Good(Front(x)) PROVE FALSE
    OBVIOUS
  <2>1. Front(x) \in Bad
    BY <1>7, <1>11
  <2>2. Len(Front(x)) \in T
    BY <2>1
  <2> HIDE DEF T, Bad, Good
  <2>3. k <= Len(x) - 1
    BY <1>3, <1>7, <2>2
  <2> QED BY <1>4, <1>5, <2>3
<1>13. y \in d /\ a[y] = a[p] \o Front(x)
  BY <1>12
<1> HIDE DEF y
<1>14. /\ p \o x \in d /\ Last(a[p \o x]) = Last(x) /\ Front(a[p \o x]) = a[y]
  BY <1>5, <1>10, <1>13 DEF Merging, Settled
<1>15. a[p \o x] = Append(a[y], Last(x))
  <2>1. a[p \o x] \in Path /\ a[p \o x] # << >>
    <3> DEFINE z == p \o x
    <3>1. z \in DOMAIN a /\ z # << >>
      BY <1>5, <1>10
    <3> HIDE DEF z
    <3>2. a[z] \in Path /\ a[z] # << >>
      BY <3>1, GoneFacts
    <3> QED BY <3>2 DEF z
  <2> DEFINE v == a[p \o x]
  <2> HIDE DEF v
  <2>2. v = Append(Front(v), Last(v))
    BY <2>1, FrontLast DEF Path, v
  <2> QED BY <1>14, <2>2 DEF v
<1> QED BY <1>5, <1>9, <1>13, <1>14, <1>15

---------------------------------------------------------------------------
(* What another record has in the tree stays as it is. *)
LEMMA OtherStays ==
    ASSUME NEW t, NEW u, NEW a, NEW d, Merging(t, u, {}, a, d),
           NEW v, NEW w, NEW b, NEW e, Merging(t, v, w, b, e),
           \A x \in d, y \in e : a[x] # b[y],
           NEW f \in DOMAIN b, NEW to \in Path, to # << >>, to \notin DOMAIN t, Front(to) = b[f],
           NEW x, IsNode(x)
    PROVE  Merging(Insert(t, to, x), u, {}, a, d)
<1> DEFINE t1 == Insert(t, to, x)
<1>1. /\ IsTree(t) /\ IsTree(u)
      /\ DOMAIN a = {<< >>} \cup DOMAIN u /\ a[<< >>] = << >>
      /\ d \subseteq DOMAIN a \ {<< >>} /\ e \subseteq DOMAIN b \ {<< >>} /\ b[<< >>] = << >>
  BY DEF Merging, Moving
<1>2. b[f] \in Path /\ Len(b[f]) = Len(f) /\ f \in Path /\ (f # << >> => b[f] \in DOMAIN t)
  BY GoneFacts
<1>3. DOMAIN t1 = DOMAIN t \cup {to} /\ \A q \in DOMAIN t : t1[q] = t[q]
  BY DEF Insert
<1>4. IsTree(t1)
  <2>1. Front(to) # << >> => Front(to) \in DOMAIN t
    BY <1>1, <1>2
  <2> QED BY <1>1, <2>1, TreeGrows
<1> HIDE DEF t1
<1>5. Moving(t1, u, {}, a, d)
  BY <1>1, <1>4 DEF Moving
<1>6. Settled(t1, u, a, d)
  <2>1. ASSUME NEW q \in DOMAIN a \ {<< >>}
        PROVE  /\ Front(q) \in DOMAIN a
               /\ a[q] \in DOMAIN t1 /\ Len(a[q]) = Len(q) /\ Front(a[q]) = a[Front(q)]
               /\ Alias(Last(a[q]), Last(q))
               /\ Front(q) \in d => q \in d /\ Last(a[q]) = Last(q)
               /\ q \in d => t1[a[q]] = u[q]
               /\ q \notin d => \A i \in 1 .. Len(q) : t1[SubSeq(a[q], 1, i)] = Section
    <3>1. /\ Front(q) \in DOMAIN a
          /\ a[q] \in DOMAIN t /\ Len(a[q]) = Len(q) /\ Front(a[q]) = a[Front(q)]
          /\ Alias(Last(a[q]), Last(q))
          /\ Front(q) \in d => q \in d /\ Last(a[q]) = Last(q)
          /\ q \in d => t[a[q]] = u[q]
          /\ q \notin d => \A i \in 1 .. Len(q) : t[SubSeq(a[q], 1, i)] = Section
      BY Zenon DEF Merging, Settled
    <3>2. \A i \in 1 .. Len(q) : SubSeq(a[q], 1, i) \in DOMAIN t
      BY <1>1, <3>1 DEF IsTree
    <3>3. q \notin d => \A i \in 1 .. Len(q) : t1[SubSeq(a[q], 1, i)] = Section
      BY <1>3, <3>1, <3>2
    <3> QED BY <1>3, <3>1, <3>3
  <2> QED BY <2>1, Zenon DEF Settled
<1>7. InOrder({}, a)
  BY DEF InOrder
<1>8. Distinct(a, d)
  BY DEF Merging
<1>9. Full(t1, u, {}, a, d)
  <2> SUFFICES ASSUME NEW y \in d, u[y] # Section, NEW q \in DOMAIN t1, IsStrictPrefix(a[y], q)
               PROVE  \E z \in d : IsStrictPrefix(y, z) /\ a[z] = q
    BY Zenon DEF Full
  <2>1. CASE q \in DOMAIN t
    BY <2>1, Zenon DEF Merging, Full
  <2>2. CASE q = to
    <3> SUFFICES FALSE
      OBVIOUS
    <3>1. y \in DOMAIN a /\ y # << >> /\ a[y] \in DOMAIN t /\ t[a[y]] = u[y]
      BY <1>1 DEF Merging, Settled
    <3>2. a[y] \in Path /\ a[y] # << >>
      BY <1>1, <3>1, TreeFacts
    <3>3. IsPrefix(a[y], b[f])
      BY <2>2, <3>2, PrefixOfFront DEF Path
    <3>4. f # << >>
      <4>1. Len(a[y]) # 0 /\ Len(a[y]) \in Nat
        BY <3>2 DEF Path
      <4>2. Len(a[y]) <= Len(b[f])
        BY <3>3 DEF IsPrefix
      <4> QED BY <1>1, <4>1, <4>2
    <3>5. CASE f \in e
      <4>1. a[y] # b[f]
        BY <3>5
      <4>2. IsStrictPrefix(a[y], b[f]) /\ b[f] \in DOMAIN t
        BY <1>2, <3>3, <3>4, <4>1 DEF IsStrictPrefix
      <4>3. PICK z \in d : IsStrictPrefix(y, z) /\ a[z] = b[f]
        BY <4>2, Zenon DEF Merging, Full
      <4> QED BY <3>5, <4>3
    <3>6. CASE f \notin e
      <4>1. \A i \in 1 .. Len(f) : t[SubSeq(b[f], 1, i)] = Section
        BY <3>4, <3>6 DEF Merging, Settled
      <4>2. Len(a[y]) <= Len(b[f]) /\ \A i \in 1 .. Len(a[y]) : a[y][i] = b[f][i]
        BY <1>2, <3>2, <3>3, PrefixFacts DEF Path
      <4>3. Len(a[y]) \in 1 .. Len(b[f])
        BY <1>2, <3>2, <4>2 DEF Path
      <4> DEFINE s == SubSeq(b[f], 1, Len(a[y]))
      <4>4. s \in Path /\ Len(s) = Len(a[y]) /\ \A i \in 1 .. Len(a[y]) : s[i] = b[f][i]
        BY <1>2, <4>3, SubFacts DEF Path
      <4> HIDE DEF s
      <4>5. s = a[y]
        BY <3>2, <4>2, <4>4, SameSequence DEF Path
      <4>6. t[s] = Section
        BY <1>2, <4>1, <4>3 DEF s
      <4> QED BY <3>1, <4>5, <4>6
    <3> QED BY <3>5, <3>6
  <2> QED BY <1>3, <2>1, <2>2
<1>10. Merging(t1, u, {}, a, d)
  BY <1>5, <1>6, <1>7, <1>8, <1>9 DEF Merging
<1> QED BY <1>10 DEF t1

---------------------------------------------------------------------------
(* Where no name means a section in one record, and in another, or in the  *)
(* same one, a register or a record that is numbered or not, as far as     *)
(* only sections lead there, each section of a record is at home, and only *)
(* sections meet.                                                          *)
SectionsTo(u, q) == \A i \in 1 .. Len(q) : u[SubSeq(q, 1, i)] = Section

Clash(u, v) ==
    \E p \in DOMAIN u, q \in DOMAIN v :
        /\ u[p] # Section /\ SectionsTo(u, Front(p))
        /\ v[q] = Section /\ SectionsTo(v, Front(q))
        /\ \E d \in Seq(Digits) : q = Numbered(p, d)

Undisturbed(u, a, d) ==
    /\ \A q \in DOMAIN a \ {<< >>} : SectionsTo(u, q) => a[q] = q
    /\ \A q \in DOMAIN a \ {<< >>} : u[q] # Section => q \in d

LEMMA HomeIsSection ==
    ASSUME NEW t, NEW u, NEW w, NEW a, NEW d, Merging(t, u, w, a, d), Undisturbed(u, a, d),
           NEW f \in DOMAIN a, SectionsTo(u, f)
    PROVE  a[f] = f /\ SectionsTo(t, f)
<1>1. CASE f = << >>
  BY <1>1 DEF Merging, Moving, SectionsTo
<1>2. CASE f # << >>
  <2>1. a[f] = f
    BY <1>2 DEF Undisturbed
  <2>2. f \in Path
    BY GoneFacts
  <2>3. ASSUME NEW i \in 1 .. Len(f) PROVE t[SubSeq(f, 1, i)] = Section
    <3> DEFINE y == SubSeq(f, 1, i)
    <3>1. y \in DOMAIN a \ {<< >>} /\ a[y] = y
      <4>1. y \in DOMAIN a \ {<< >>} /\ a[y] = SubSeq(a[f], 1, i)
        <5>1. Leads(a, f)
          BY <1>2, PrefixGoes
        <5> QED BY <5>1 DEF Leads
      <4> QED BY <2>1, <4>1
    <3>2. u[y] = Section
      BY DEF SectionsTo
    <3> HIDE DEF y
    <3> SUFFICES t[y] = Section
      BY DEF y
    <3>3. CASE y \in d
      BY <3>1, <3>2, <3>3 DEF Merging, Settled
    <3>4. CASE y \notin d
      <4>1. y \in Path /\ Len(y) \in 1 .. Len(y)
        <5>1. y \in Path
          BY <3>1, GoneFacts
        <5> QED BY <3>1, <5>1, PathFacts DEF Path
      <4>2. SubSeq(y, 1, Len(y)) = y
        BY <4>1, SubFacts DEF Path
      <4>3. t[SubSeq(a[y], 1, Len(y))] = Section
        BY <3>1, <3>4, <4>1 DEF Merging, Settled
      <4> QED BY <3>1, <4>2, <4>3
    <3> QED BY <3>3, <3>4
  <2> QED BY <2>1, <2>3 DEF SectionsTo
<1> QED BY <1>1, <1>2

LEMMA OldIsSection ==
    ASSUME NEW t, NEW u, NEW w, NEW a, NEW d, Merging(t, u, w, a, d), Undisturbed(u, a, d),
           NEW f \in DOMAIN a, f \notin d \/ SectionsTo(t, a[f])
    PROVE  SectionsTo(u, f)
<1>1. CASE f = << >>
  BY <1>1 DEF SectionsTo
<1>2. CASE f # << >>
  <2>1. Len(a[f]) = Len(f) /\ \A i \in 1 .. Len(f) : t[SubSeq(a[f], 1, i)] = Section
    <3>1. Len(a[f]) = Len(f)
      BY GoneFacts
    <3>2. f \notin d => \A i \in 1 .. Len(f) : t[SubSeq(a[f], 1, i)] = Section
      BY <1>2 DEF Merging, Settled
    <3> QED BY <3>1, <3>2 DEF SectionsTo
  <2>2. ASSUME NEW i \in 1 .. Len(f) PROVE u[SubSeq(f, 1, i)] = Section
    <3> DEFINE y == SubSeq(f, 1, i)
    <3>1. y \in DOMAIN a \ {<< >>} /\ a[y] = SubSeq(a[f], 1, i)
      <4>1. Leads(a, f)
        BY <1>2, PrefixGoes
      <4> QED BY <4>1 DEF Leads
    <3>2. t[a[y]] = Section
      BY <2>1, <3>1
    <3> HIDE DEF y
    <3>3. y \in d => u[y] = Section
      BY <3>1, <3>2 DEF Merging, Settled
    <3>4. y \notin d => u[y] = Section
      BY <3>1 DEF Undisturbed
    <3> QED BY <3>3, <3>4 DEF y
  <2> QED BY <2>2 DEF SectionsTo
<1> QED BY <1>1, <1>2

(* A node below sections that are at home has come from there.             *)
LEMMA ComesFrom ==
    ASSUME NEW t, NEW u, NEW w, NEW a, NEW d, Merging(t, u, w, a, d), Undisturbed(u, a, d),
           NEW x \in d, SectionsTo(t, Front(a[x]))
    PROVE  /\ x \in DOMAIN u /\ u[x] = t[a[x]] /\ SectionsTo(u, Front(x))
           /\ \E s \in Seq(Digits) : a[x] = Numbered(x, s)
           /\ u[x] = Section => a[x] = x
<1>1. x \in DOMAIN a /\ x # << >> /\ x \in DOMAIN u
  <2>1. x \in DOMAIN a /\ x # << >>
    BY DEF Merging, Moving
  <2> QED BY <2>1, GoneFacts
<1>2. /\ x \in Path /\ a[x] \in Path /\ a[x] # << >> /\ Len(a[x]) = Len(x)
  BY <1>1, GoneFacts
<1> DEFINE f == Front(x)
<1>3. /\ f \in DOMAIN a /\ Front(a[x]) = a[f] /\ Alias(Last(a[x]), Last(x)) /\ u[x] = t[a[x]]
  BY <1>1 DEF Merging, Settled
<1>4. SectionsTo(u, f)
  BY <1>3, OldIsSection
<1>5. a[f] = f
  BY <1>3, <1>4, HomeIsSection
<1>6. a[x] = Append(f, Last(a[x])) /\ x = Append(f, Last(x))
  <2>1. x = Append(Front(x), Last(x))
    BY <1>1, <1>2, FrontLast DEF Path
  <2> DEFINE y == a[x]
  <2> HIDE DEF y
  <2>2. y \in Path /\ y # << >>
    BY <1>2 DEF y
  <2>3. y = Append(Front(y), Last(y))
    BY <2>2, FrontLast DEF Path
  <2> QED BY <1>3, <1>5, <2>1, <2>3 DEF y
<1>7. \E s \in Seq(Digits) : a[x] = Numbered(x, s)
  BY <1>3, <1>6 DEF Alias, Numbered
<1>8. ASSUME u[x] = Section PROVE a[x] = x
  <2>1. SectionsTo(u, x)
    <3> SUFFICES ASSUME NEW i \in 1 .. Len(x) PROVE u[SubSeq(x, 1, i)] = Section
      BY DEF SectionsTo
    <3>1. CASE i = Len(x)
      BY <1>2, <1>8, <3>1, SubFacts DEF Path
    <3>2. CASE i # Len(x)
      <4>1. i \in 1 .. Len(f) /\ SubSeq(f, 1, i) = SubSeq(x, 1, i)
        BY <1>2, <3>2, SubFacts DEF Path
      <4> QED BY <1>4, <4>1 DEF SectionsTo
    <3> QED BY <3>1, <3>2
  <2> QED BY <1>1, <2>1 DEF Undisturbed
<1> QED BY <1>1, <1>3, <1>4, <1>7, <1>8

(* One more node has gone. *)
LEMMA StaysUndisturbed ==
    ASSUME NEW t, NEW u, NEW w, NEW a, NEW d, Merging(t, u, w, a, d), Undisturbed(u, a, d),
           NEW z \in w, \A o \in w : ~Before(o, z),
           \A q \in DOMAIN t :
             \E v, g, b, e : /\ Merging(t, v, g, b, e) /\ Undisturbed(v, b, e)
                             /\ ~Clash(u, v) /\ ~Clash(v, u)
                             /\ \E x \in e : b[x] = q,
           NEW to \in Path, NEW e1,
           \/ /\ Front(to) = a[Front(z)] /\ e1 = d \cup {z} /\ to # << >>
              /\ Last(to) # Last(z) =>
                   /\ Append(a[Front(z)], Last(z)) \in DOMAIN t
                   /\ t[Append(a[Front(z)], Last(z))] # Section
           \/ /\ Front(z) \notin d /\ to = Append(a[Front(z)], Last(z)) /\ e1 = d
              /\ to \in DOMAIN t /\ t[to] = Section
    PROVE  Undisturbed(u, Insert(a, z, to), e1)
<1> DEFINE f == Front(z)
           home == Append(a[f], Last(z))
<1>1. z \in DOMAIN u /\ z \in Path /\ z # << >> /\ z = Append(f, Last(z))
  <2>1. z \in DOMAIN u /\ IsTree(u)
    BY DEF Merging, Moving
  <2>2. z \in Path /\ z # << >>
    BY <2>1, TreeFacts
  <2> QED BY <2>1, <2>2, FrontLast DEF Path
<1>2. f \in DOMAIN a
  BY ParentGone
<1>3. z \notin DOMAIN a
  BY <1>1 DEF Merging, Moving
<1>4. /\ DOMAIN Insert(a, z, to) = DOMAIN a \cup {z} /\ Insert(a, z, to)[z] = to
      /\ \A q \in DOMAIN a : Insert(a, z, to)[q] = a[q]
  BY <1>3 DEF Insert
<1>5. SectionsTo(u, z) => SectionsTo(u, f)
  <2> SUFFICES ASSUME SectionsTo(u, z), NEW i \in 1 .. Len(f) PROVE u[SubSeq(f, 1, i)] = Section
    BY DEF SectionsTo
  <2>1. Len(f) = Len(z) - 1 /\ Len(z) \in Nat
    BY <1>1, PathFacts DEF Path
  <2>2. i \in 1 .. Len(z) /\ i # Len(z)
    BY <2>1
  <2>3. SubSeq(f, 1, i) = SubSeq(z, 1, i)
    BY <1>1, <2>2, SubFacts DEF Path
  <2> QED BY <2>2, <2>3 DEF SectionsTo
<1>6. SectionsTo(u, f) => a[f] = f /\ home = z /\ SectionsTo(t, f)
  BY <1>1, <1>2, HomeIsSection
<1>7. ASSUME SectionsTo(u, f), z \in DOMAIN t
      PROVE  ~(t[z] # Section /\ u[z] = Section) /\ ~(t[z] = Section /\ u[z] # Section)
  <2>1. PICK v, g, b, e : /\ Merging(t, v, g, b, e) /\ Undisturbed(v, b, e)
                          /\ ~Clash(u, v) /\ ~Clash(v, u)
                          /\ \E x \in e : b[x] = z
    BY <1>7
  <2>2. PICK x \in e : b[x] = z
    BY <2>1
  <2>3. SectionsTo(t, Front(b[x]))
    BY <1>6, <1>7, <2>2
  <2>4. /\ x \in DOMAIN v /\ v[x] = t[z] /\ SectionsTo(v, Front(x))
        /\ \E s \in Seq(Digits) : z = Numbered(x, s)
        /\ v[x] = Section => z = x
    <3>1. /\ x \in DOMAIN v /\ v[x] = t[b[x]] /\ SectionsTo(v, Front(x))
          /\ \E s \in Seq(Digits) : b[x] = Numbered(x, s)
          /\ v[x] = Section => b[x] = x
      BY <2>1, <2>2, <2>3, ComesFrom
    <3> QED BY <2>2, <3>1
  <2>5. ASSUME t[z] # Section, u[z] = Section PROVE FALSE
    <3>1. Clash(v, u)
      BY <1>1, <1>7, <2>4, <2>5 DEF Clash
    <3> QED BY <2>1, <3>1
  <2>6. ASSUME t[z] = Section, u[z] # Section PROVE FALSE
    <3>1. Clash(u, v)
      BY <1>1, <1>7, <2>4, <2>6 DEF Clash
    <3> QED BY <2>1, <3>1
  <2> QED BY <2>5, <2>6
<1>8. SectionsTo(u, z) => u[z] = Section
  <2>1. Len(z) \in 1 .. Len(z)
    BY <1>1, PathFacts DEF Path
  <2>2. SubSeq(z, 1, Len(z)) = z
    BY <1>1, <2>1, SubFacts DEF Path
  <2> QED BY <2>1, <2>2 DEF SectionsTo
<1>9. SectionsTo(u, z) => to = z
  <2> SUFFICES ASSUME SectionsTo(u, z) PROVE to = z
    OBVIOUS
  <2>1. a[f] = f /\ home = z /\ SectionsTo(u, f)
    BY <1>5, <1>6
  <2>2. to = home \/ (Front(to) = a[f] /\ to # << >> /\ Last(to) = Last(z))
    <3>1. ~(z \in DOMAIN t /\ t[z] # Section)
      BY <1>7, <1>8, <2>1
    <3> QED BY <2>1, <3>1
  <2>3. CASE Front(to) = a[f] /\ to # << >> /\ Last(to) = Last(z)
    <3>1. to = Append(Front(to), Last(to))
      BY <2>3, FrontLast DEF Path
    <3> QED BY <2>1, <2>3, <3>1
  <2> QED BY <2>1, <2>2, <2>3
<1>10. u[z] # Section => z \in e1
  <2> SUFFICES ASSUME u[z] # Section, z \notin e1 PROVE FALSE
    OBVIOUS
  <2>1. f \notin d /\ to = home /\ to \in DOMAIN t /\ t[to] = Section
    OBVIOUS
  <2>2. SectionsTo(u, f)
    BY <1>2, <2>1, OldIsSection
  <2> QED BY <1>6, <1>7, <2>1, <2>2
<1>11. d \subseteq e1
  OBVIOUS
<1> QED BY <1>4, <1>9, <1>10, <1>11 DEF Undisturbed

(* For some way A of all nodes of the records, D being those among them    *)
(* that were new: each record has been merged that way, and the one that   *)
(* is being merged as far as it has gone; no two new nodes share a place;  *)
(* and each node of the tree has come from one of them.                    *)
Whole(A, D) == \A k \in DOMAIN decoded : Merging(result, decoded[k], {}, A[k], D[k])

Separate(A, D) ==
    /\ \A k, l \in DOMAIN decoded : \A x \in D[k], y \in D[l] : A[k][x] = A[l][y] => k = l /\ x = y
    /\ pc = "merge" => \A k \in DOMAIN decoded : \A x \in D[k], y \in added : A[k][x] # at[y]

Covered(A, D) ==
    \A q \in DOMAIN result :
        \/ \E k \in DOMAIN decoded : \E x \in D[k] : A[k][x] = q
        \/ pc = "merge" /\ \E x \in added : at[x] = q

(* No name of a register or of a record, numbered or not, is that of a     *)
(* section of this record or another, where only sections lead (node.rs:   *)
(* Node::merge merges what has the same name into a section).              *)
NamesApart == \A k, l \in DOMAIN decoded : ~Clash(decoded[k], decoded[l])

CurrentApart ==
    pc = "merge" =>
        /\ ~Clash(tree, tree)
        /\ \A k \in DOMAIN decoded : ~Clash(tree, decoded[k]) /\ ~Clash(decoded[k], tree)

Homed(A, D) ==
    NamesApart /\ CurrentApart =>
        /\ \A k \in DOMAIN decoded : Undisturbed(decoded[k], A[k], D[k])
        /\ pc = "merge" => Undisturbed(tree, at, added)

Kept(A, D) == Whole(A, D) /\ Separate(A, D) /\ Covered(A, D) /\ Homed(A, D)

---------------------------------------------------------------------------
LEMMA DecodedQuiet ==
    ASSUME NEW STATE t, Decoded(t)
    PROVE  UNCHANGED <<result, decoded>> /\ at' = Nowhere /\ added' = {}
BY DEF Decoded, Begin

LEMMA NextSubQuiet ==
    ASSUME NextSub
    PROVE  UNCHANGED <<result, decoded>> /\ (pc' = "merge" => at' = Nowhere /\ added' = {})
<1>1. CASE sub = "thread"
  BY <1>1 DEF NextSub
<1>2. CASE sub # "thread"
  BY <1>2, DecodedQuiet DEF NextSub
<1> QED BY <1>1, <1>2

LEMMA CloseQuiet ==
    ASSUME NEW STATE t, Close(t)
    PROVE  UNCHANGED <<result, decoded>> /\ (pc' = "merge" => at' = Nowhere /\ added' = {})
<1>1. CASE <<SubName>> \notin DOMAIN t
  BY <1>1, NextSubQuiet DEF Close
<1>2. CASE <<SubName>> \in DOMAIN t
  <2> DEFINE below == <<Rec.name>> \o Levels(t)
             x == Graft(Hierarchy(RecordNode, below), below, t)
  <2>1. Decoded(x)
    BY <1>2 DEF Close
  <2> HIDE DEF x
  <2> QED BY <2>1, DecodedQuiet
<1> QED BY <1>1, <1>2

(* All but the steps of the merge leave the tree alone. *)
LEMMA Quiet ==
    ASSUME TypeInv, Next, ~Merged, pc # "merge" \/ ~MergeNode
    PROVE  /\ pc # "merge" /\ UNCHANGED <<result, decoded>>
           /\ pc' = "merge" => at' = Nowhere /\ added' = {}
<1>0. def.name \in DefNames
  BY DEF TypeInv, LayoutOK
<1>1. CASE SkipLine \/ TakeLine \/ NodeMissing
  BY <1>1 DEF SkipLine, TakeLine, NodeMissing, AtLine
<1>2. CASE ReadChunk \/ FieldDone \/ FieldMissing
  BY <1>2 DEF ReadChunk, FieldDone, FieldMissing
<1>3. CASE LayoutDone
  <2>1. pc = "layout"
    BY <1>3 DEF LayoutDone, Complete
  <2>2. \/ Decoded(tree)
        \/ Close(tree)
        \/ UNCHANGED <<n, sub, pc, todo, at, added, result, decoded>>
        \/ pc' = "extend" /\ UNCHANGED <<n, sub, def, line, path, base, result, decoded>>
    BY <1>0, <1>3, Zenon DEF LayoutDone, DefNames
  <2> QED BY <2>1, <2>2, DecodedQuiet, CloseQuiet
<1>4. CASE LayoutFails
  <2>1. pc = "layout"
    BY <1>4 DEF LayoutFails, Failed
  <2>2. \/ Decoded(HeaderOnly)
        \/ NextSub
        \/ UNCHANGED <<n, sub, pc, base, todo, at, added, result, decoded>>
        \/ Close(base)
    BY <1>0, <1>4, Zenon DEF LayoutFails, DefNames
  <2> QED BY <2>1, <2>2, DecodedQuiet, CloseQuiet, NextSubQuiet
<1>5. CASE MergeNode
  <2>1. pc = "extend"
    BY <1>5, MergeFacts
  <2> QED BY <1>5, <2>1, MergeFacts
<1>6. CASE Extended
  <2>1. pc = "extend" /\ Close(base)
    BY <1>6 DEF Extended
  <2> QED BY <2>1, CloseQuiet
<1> QED BY <1>1, <1>2, <1>3, <1>4, <1>5, <1>6 DEF Next

LEMMA KeptQuiet ==
    ASSUME NEW CONSTANT A, NEW CONSTANT D, Kept(A, D),
           pc # "merge", UNCHANGED <<result, decoded>>,
           pc' = "merge" => at' = Nowhere /\ added' = {}
    PROVE  Kept(A, D)'
<1>1. Whole(A, D)'
  BY DEF Kept, Whole
<1>2. Separate(A, D)'
  BY DEF Kept, Separate
<1>3. Covered(A, D)'
  BY DEF Kept, Covered
<1>4. Homed(A, D)'
  <2> SUFFICES ASSUME NamesApart', CurrentApart'
               PROVE  /\ \A k \in DOMAIN decoded' : Undisturbed(decoded'[k], A[k], D[k])
                      /\ pc' = "merge" => Undisturbed(tree', at', added')
    BY DEF Homed
  <2>1. NamesApart /\ CurrentApart
    BY DEF NamesApart, CurrentApart
  <2>2. \A k \in DOMAIN decoded : Undisturbed(decoded[k], A[k], D[k])
    BY <2>1 DEF Kept, Homed
  <2>3. \A u : Undisturbed(u, Nowhere, {})
    <3>1. DOMAIN Nowhere \ {<< >>} = {}
      BY DEF Nowhere
    <3> QED BY <3>1 DEF Undisturbed
  <2> QED BY <2>2, <2>3
<1> QED BY <1>1, <1>2, <1>3, <1>4 DEF Kept

(* A node of a record is merged. *)
LEMMA KeptMerging ==
    ASSUME NEW CONSTANT A, NEW CONSTANT D, Kept(A, D), TypeInv, pc = "merge", MergeNode
    PROVE  Kept(A, D)'
<1>1. PICK z \in todo, to \in Path : Goes(z, to)
  BY MergeFacts
<1>2. /\ result' = Target' /\ Target = result /\ pc' = "merge"
      /\ UNCHANGED <<crashlog, n, sub, def, pc, line, path, bit, value, tree, decoded>>
  BY MergeFacts DEF Target
<1>3. Merging(result, tree, todo, at, added)
  BY <1>2 DEF TypeInv, MergeOK
<1>4. /\ \A o \in todo : ~Before(o, z)
      /\ todo' = todo \ {z} /\ at' = Insert(at, z, to)
      /\ New(z, to) \/ Old(z, to)
  BY <1>1 DEF Goes
<1>5. z \notin DOMAIN at /\ z \notin added /\ added \subseteq DOMAIN at
  <2>1. z # << >>
    BY <1>3, TreeFacts DEF Merging, Moving
  <2> QED BY <1>3, <2>1 DEF Merging, Moving
<1>6. at'[z] = to /\ \A q \in DOMAIN at : at'[q] = at[q]
  BY <1>4, <1>5 DEF Insert
<1>7. Front(z) \in DOMAIN at
  BY <1>3, <1>4, ParentGone
<1>8. IsNode(tree[z])
  BY <1>3, TreeFacts DEF Merging, Moving
<1>9. New(z, to) => /\ to \notin DOMAIN result /\ to # << >> /\ Front(to) = at[Front(z)]
                    /\ added' = added \cup {z} /\ result' = Insert(result, to, tree[z])
  BY <1>2 DEF New
<1>10. Old(z, to) => added' = added /\ result' = result
  BY <1>2 DEF Old
<1>11. Whole(A, D)'
  <2> SUFFICES ASSUME NEW k \in DOMAIN decoded
               PROVE  Merging(result', decoded[k], {}, A[k], D[k])
    BY <1>2 DEF Whole
  <2>1. Merging(result, decoded[k], {}, A[k], D[k]) /\ \A x \in D[k], y \in added : A[k][x] # at[y]
    BY DEF Kept, Whole, Separate
  <2>2. CASE New(z, to)
    <3> DEFINE r == Insert(result, to, tree[z])
    <3>1. Merging(r, decoded[k], {}, A[k], D[k])
      BY <1>3, <1>7, <1>8, <1>9, <2>1, <2>2, OtherStays
    <3> HIDE DEF r
    <3>2. result' = r
      BY <1>9, <2>2 DEF r
    <3> QED BY <3>1, <3>2
  <2>3. CASE Old(z, to)
    BY <1>10, <2>1, <2>3
  <2> QED BY <1>4, <2>2, <2>3
<1>12. \A k \in DOMAIN decoded : \A x \in D[k] : A[k][x] \in DOMAIN result
  BY DEF Kept, Whole, Merging, Settled, Moving
<1>13. Separate(A, D)'
  <2>1. ASSUME NEW k \in DOMAIN decoded, NEW x \in D[k], NEW y \in added' PROVE A[k][x] # at'[y]
    <3>1. CASE y \in added
      BY <1>2, <1>5, <1>6, <3>1 DEF Kept, Separate
    <3>2. CASE y = z /\ New(z, to)
      BY <1>6, <1>9, <1>12, <3>2
    <3> QED BY <1>4, <1>9, <1>10, <3>1, <3>2
  <2> QED BY <1>2, <2>1 DEF Kept, Separate
<1>14. Covered(A, D)'
  <2> SUFFICES ASSUME NEW q \in DOMAIN result'
               PROVE  \/ \E k \in DOMAIN decoded : \E x \in D[k] : A[k][x] = q
                      \/ \E x \in added' : at'[x] = q
    BY <1>2 DEF Covered
  <2>1. CASE q \in DOMAIN result
    <3>1. \/ \E k \in DOMAIN decoded : \E x \in D[k] : A[k][x] = q
          \/ \E x \in added : at[x] = q
      BY <2>1 DEF Kept, Covered
    <3>2. added \subseteq added'
      BY <1>4, <1>9, <1>10
    <3> QED BY <1>5, <1>6, <3>1, <3>2
  <2>2. CASE q \notin DOMAIN result
    <3>1. New(z, to) /\ q = to
      BY <1>4, <1>9, <1>10, <2>2 DEF Insert
    <3> QED BY <1>6, <1>9, <3>1
  <2> QED BY <2>1, <2>2
<1>15. Homed(A, D)'
  <2> SUFFICES ASSUME NamesApart', CurrentApart'
               PROVE  /\ \A k \in DOMAIN decoded : Undisturbed(decoded[k], A[k], D[k])
                      /\ Undisturbed(tree, at', added')
    BY <1>2 DEF Homed
  <2>1. NamesApart /\ CurrentApart
    BY <1>2 DEF NamesApart, CurrentApart
  <2>2. /\ \A k \in DOMAIN decoded : Undisturbed(decoded[k], A[k], D[k])
        /\ Undisturbed(tree, at, added)
    BY <2>1 DEF Kept, Homed
  <2>3. ASSUME NEW q \in DOMAIN result
        PROVE  \E v, g, b, e : /\ Merging(result, v, g, b, e) /\ Undisturbed(v, b, e)
                               /\ ~Clash(tree, v) /\ ~Clash(v, tree)
                               /\ \E x \in e : b[x] = q
    <3>1. CASE \E x \in added : at[x] = q
      BY <1>3, <2>1, <2>2, <3>1 DEF CurrentApart
    <3>2. CASE \E k \in DOMAIN decoded : \E x \in D[k] : A[k][x] = q
      <4>1. PICK k \in DOMAIN decoded : \E x \in D[k] : A[k][x] = q
        BY <3>2
      <4>2. Merging(result, decoded[k], {}, A[k], D[k])
        BY DEF Kept, Whole
      <4>3. Undisturbed(decoded[k], A[k], D[k]) /\ ~Clash(tree, decoded[k]) /\ ~Clash(decoded[k], tree)
        BY <2>1, <2>2 DEF CurrentApart
      <4> QED BY <4>1, <4>2, <4>3
    <3> QED BY <3>1, <3>2 DEF Kept, Covered
  <2>4. CASE New(z, to)
    <3>1. /\ Front(to) = at[Front(z)] /\ added' = added \cup {z} /\ to # << >>
          /\ Last(to) # Last(z) =>
               /\ Append(at[Front(z)], Last(z)) \in DOMAIN result
               /\ result[Append(at[Front(z)], Last(z))] # Section
      BY <1>2, <2>4 DEF New
    <3> DEFINE e1 == added \cup {z}
    <3>2. Undisturbed(tree, Insert(at, z, to), e1)
      BY <1>3, <1>4, <2>2, <2>3, <3>1, StaysUndisturbed
    <3> QED BY <1>4, <2>2, <3>1, <3>2
  <2>5. CASE Old(z, to)
    <3>1. /\ Front(z) \notin added /\ to = Append(at[Front(z)], Last(z)) /\ added' = added
          /\ to \in DOMAIN result /\ result[to] = Section
      BY <1>2, <2>5 DEF Old
    <3>2. Undisturbed(tree, Insert(at, z, to), added)
      BY <1>3, <1>4, <2>2, <2>3, <3>1, StaysUndisturbed
    <3> QED BY <1>4, <2>2, <3>1, <3>2
  <2> QED BY <1>4, <2>4, <2>5
<1> QED BY <1>11, <1>13, <1>14, <1>15 DEF Kept

(* The record that was merged is one of them. *)
LEMMA KeptMerged ==
    ASSUME NEW CONSTANT A, NEW CONSTANT D, Kept(A, D), TypeInv, Merged
    PROVE  \E B, E : Kept(B, E)'
<1> DEFINE m == Len(decoded) + 1
<1>1. /\ pc = "merge" /\ todo = {} /\ pc' # "merge" /\ decoded' = Append(decoded, tree)
      /\ UNCHANGED <<todo, at, added, result>>
  BY DEF Merged
<1>2. /\ DOMAIN decoded' = DOMAIN decoded \cup {m} /\ m \notin DOMAIN decoded
      /\ \A k \in DOMAIN decoded : decoded'[k] = decoded[k]
      /\ decoded'[m] = tree
  <2>1. /\ Len(decoded) \in Nat /\ DOMAIN decoded = 1 .. Len(decoded)
        /\ DOMAIN decoded' = 1 .. m
        /\ \A i \in 1 .. Len(decoded) : decoded'[i] = decoded[i]
        /\ decoded'[m] = tree
    BY <1>1, AppendElement DEF TypeInv, TreesOK
  <2>2. 1 .. m = (1 .. Len(decoded)) \cup {m} /\ m \notin 1 .. Len(decoded)
    BY <2>1
  <2> QED BY <2>1, <2>2
<1> HIDE DEF m
<1>3. PICK B, E : /\ \A k \in DOMAIN decoded : B[k] = A[k] /\ E[k] = D[k]
                  /\ B[m] = at /\ E[m] = added
  <2> DEFINE b == [k \in DOMAIN decoded \cup {m} |-> IF k = m THEN at ELSE A[k]]
             e == [k \in DOMAIN decoded \cup {m} |-> IF k = m THEN added ELSE D[k]]
  <2>1. /\ \A k \in DOMAIN decoded : b[k] = A[k] /\ e[k] = D[k]
        /\ b[m] = at /\ e[m] = added
    BY <1>2
  <2> HIDE DEF b, e
  <2> QED BY <2>1
<1>4. Merging(result, tree, {}, at, added)
  BY <1>1 DEF TypeInv, MergeOK, Target
<1>5. Whole(B, E)'
  BY <1>1, <1>2, <1>3, <1>4 DEF Kept, Whole
<1>6. Separate(B, E)'
  <2>1. ASSUME NEW k \in DOMAIN decoded', NEW l \in DOMAIN decoded', NEW x \in E[k], NEW y \in E[l],
               B[k][x] = B[l][y]
        PROVE  k = l /\ x = y
    <3>1. CASE k \in DOMAIN decoded /\ l \in DOMAIN decoded
      BY <1>3, <2>1, <3>1 DEF Kept, Separate
    <3>2. CASE k = m /\ l = m
      BY <1>3, <1>4, <2>1, <3>2 DEF Merging, Distinct
    <3>3. CASE k \in DOMAIN decoded /\ l = m
      BY <1>1, <1>3, <2>1, <3>3 DEF Kept, Separate
    <3>4. CASE k = m /\ l \in DOMAIN decoded
      BY <1>1, <1>3, <2>1, <3>4 DEF Kept, Separate
    <3> QED BY <1>2, <3>1, <3>2, <3>3, <3>4
  <2> QED BY <1>1, <2>1 DEF Separate
<1>7. Covered(B, E)'
  <2> SUFFICES ASSUME NEW q \in DOMAIN result
               PROVE  \E k \in DOMAIN decoded' : \E x \in E[k] : B[k][x] = q
    BY <1>1 DEF Covered
  <2>1. \/ \E k \in DOMAIN decoded : \E x \in D[k] : A[k][x] = q
        \/ \E x \in added : at[x] = q
    BY DEF Kept, Covered
  <2> QED BY <1>2, <1>3, <2>1
<1>8. Homed(B, E)'
  <2> SUFFICES ASSUME NamesApart', NEW k \in DOMAIN decoded' PROVE Undisturbed(decoded'[k], B[k], E[k])
    BY <1>1 DEF Homed
  <2>1. NamesApart /\ CurrentApart
    <3>1. NamesApart
      BY <1>2 DEF NamesApart
    <3>2. CurrentApart
      BY <1>2 DEF NamesApart, CurrentApart
    <3> QED BY <3>1, <3>2
  <2>2. /\ \A l \in DOMAIN decoded : Undisturbed(decoded[l], A[l], D[l])
        /\ Undisturbed(tree, at, added)
    BY <1>1, <2>1 DEF Kept, Homed
  <2> QED BY <1>2, <1>3, <2>2
<1>9. Kept(B, E)'
  BY <1>5, <1>6, <1>7, <1>8 DEF Kept
<1> QED BY <1>9

(* Every node of every record has its place in the tree of the crash log,  *)
(* and every node of that tree comes from one of them (node.rs,            *)
(* Node::merge).                                                           *)
Placed == \E A, D : Kept(A, D)

LEMMA PlacedInit ==
    ASSUME Init
    PROVE  Placed
<1>1. decoded = << >> /\ result = NoTree /\ pc = "layout"
  BY DEF Init
<1>2. DOMAIN decoded = {} /\ DOMAIN result = {}
  BY <1>1, NoTreeIsTree
<1>3. Kept(NoTree, NoTree)
  BY <1>1, <1>2 DEF Kept, Whole, Separate, Covered, Homed
<1> QED BY <1>3 DEF Placed

LEMMA PlacedStep ==
    ASSUME TypeInv, Placed, [Next]_vars
    PROVE  Placed'
<1>1. PICK A, D : Kept(A, D)
  BY DEF Placed
<1>2. CASE Merged
  <2>1. \E B, E : Kept(B, E)'
    BY <1>1, <1>2, KeptMerged
  <2> QED BY <2>1 DEF Placed
<1>3. CASE pc = "merge" /\ MergeNode
  <2>1. Kept(A, D)'
    BY <1>1, <1>3, KeptMerging
  <2> QED BY <2>1 DEF Placed
<1>4. CASE Next /\ ~Merged /\ ~(pc = "merge" /\ MergeNode)
  <2>1. /\ pc # "merge" /\ UNCHANGED <<result, decoded>>
        /\ pc' = "merge" => at' = Nowhere /\ added' = {}
    BY <1>4, Quiet
  <2>2. Kept(A, D)'
    BY <1>1, <2>1, KeptQuiet
  <2> QED BY <2>2 DEF Placed
<1>5. CASE UNCHANGED vars
  <2>1. Kept(A, D)'
    BY <1>1, <1>5 DEF vars, Kept, Whole, Separate, Covered, Homed, NamesApart, CurrentApart
  <2> QED BY <2>1 DEF Placed
<1> QED BY <1>2, <1>3, <1>4, <1>5

(* The steps of the merge change no node. *)
LEMMA GrowsStep ==
    ASSUME TypeInv, Next
    PROVE  ResultGrows
<1>1. CASE pc = "merge" /\ MergeNode
  <2>1. PICK z \in todo, to \in Path : Goes(z, to)
    BY <1>1, MergeFacts
  <2>2. result' = Target' /\ Target = result
    BY <1>1, MergeFacts DEF Target
  <2>3. CASE New(z, to)
    <3>1. to \notin DOMAIN result /\ result' = Insert(result, to, tree[z])
      BY <2>2, <2>3 DEF New
    <3> QED BY <3>1 DEF Insert, ResultGrows
  <2>4. CASE Old(z, to)
    BY <2>2, <2>4 DEF Old, ResultGrows
  <2> QED BY <2>1, <2>3, <2>4 DEF Goes
<1>2. CASE Merged
  BY <1>2 DEF Merged, ResultGrows
<1>3. CASE ~Merged /\ ~(pc = "merge" /\ MergeNode)
  BY <1>3, Quiet DEF ResultGrows
<1> QED BY <1>1, <1>2, <1>3

(* However many records are merged, none takes a node of an earlier one    *)
(* away or overwrites it (Node::merge keeps what is there).                *)
THEOREM NothingIsLost == Spec => [][ResultGrows]_vars
<1>1. TypeInv /\ [Next]_vars => [ResultGrows]_vars
  BY GrowsStep
<1> QED BY <1>1, TreesSound, PTL DEF Spec

(* For each record there is a way of all its nodes into the tree, no new   *)
(* node of one is where one of another is, and the tree has nothing else   *)
(* (Node::merge, merge_instance).                                          *)
THEOREM EachRecordIsPlaced == Spec => []Placed
<1>1. Init => Placed
  BY PlacedInit
<1>2. TypeInv /\ Placed /\ [Next]_vars => Placed'
  BY PlacedStep
<1> QED BY <1>1, <1>2, TreesSound, PTL DEF Spec

---------------------------------------------------------------------------
(* Where the registers of a record go is where they belong. *)
LEMMA RootIsHome ==
    ASSUME NEW r
    PROVE  AtHome(r, Root(r))
<1> DEFINE Called(h) == \E p \in DOMAIN TargetInfo : p = h.product /\ h.die \in DOMAIN TargetInfo[p].dies
           DieName(h) == IF Called(h) THEN TargetInfo[h.product].dies[h.die] ELSE Append(Die, h.die)
           At1(h) == <<Processors, Append(Cpu, h.socket), DieName(h)>>
           roots == <<NamedRoot(r.hdr), NamedRoot(r.parent), NumberedRoot(r.hdr), NumberedRoot(r.parent)>>
           some == {i \in 1 .. 4 : roots[i] # {}}
<1>1. ASSUME NEW h
      PROVE  /\ Called(h) => NamedRoot(h) = {At1(h)} /\ h.die # NoDie
             /\ ~Called(h) => NamedRoot(h) = {}
             /\ ~Called(h) /\ h.die # NoDie => NumberedRoot(h) = {At1(h)}
             /\ h.die # NoDie => NumberedRoot(h) # {}
             /\ h.die = NoDie => NumberedRoot(h) = {}
  <2>1. CASE Called(h)
    <3>1. h.product \in DOMAIN TargetInfo /\ h.die \in DOMAIN TargetInfo[h.product].dies
      BY <2>1
    <3>2. h.die # NoDie
      BY <3>1, PlacesAssumption
    <3>3. DieNames(h) = {TargetInfo[h.product].dies[h.die]}
      BY <3>1 DEF DieNames
    <3>4. NamedRoot(h) = {<<Processors, Append(Cpu, h.socket), TargetInfo[h.product].dies[h.die]>>}
      BY <3>3 DEF NamedRoot
    <3>5. DieName(h) = TargetInfo[h.product].dies[h.die]
      BY <2>1
    <3> HIDE DEF DieName, Called
    <3> QED BY <2>1, <3>2, <3>4, <3>5 DEF NumberedRoot
  <2>2. CASE ~Called(h)
    <3>1. DieNames(h) = {}
      BY <2>2 DEF DieNames
    <3>2. NamedRoot(h) = {}
      BY <3>1 DEF NamedRoot
    <3>3. DieName(h) = Append(Die, h.die)
      BY <2>2
    <3> HIDE DEF DieName, Called
    <3> QED BY <2>2, <3>2, <3>3 DEF NumberedRoot
  <2> QED BY <2>1, <2>2
<1> HIDE DEF Called, DieName
<1>2. /\ roots[1] = NamedRoot(r.hdr) /\ roots[2] = NamedRoot(r.parent)
      /\ roots[3] = NumberedRoot(r.hdr) /\ roots[4] = NumberedRoot(r.parent)
  OBVIOUS
<1>3. Root(r) = IF some = {} THEN << >> ELSE CHOOSE root \in roots[Min(some)] : TRUE
  BY DEF Root
<1> HIDE DEF roots
<1>4. ASSUME NEW k \in 1 .. 4, roots[k] # {}, \A j \in 1 .. 4 : j < k => roots[j] = {},
             NEW e, roots[k] = {e}
      PROVE  Root(r) = e
  <2>1. some \in SUBSET Nat /\ k \in some
    BY <1>4
  <2>2. Min(some) \in some /\ \A m \in some : Min(some) <= m
    <3> HIDE DEF some
    <3> QED BY <2>1, MinOf
  <2>3. Min(some) = k
    <3>1. Min(some) \in 1 .. 4 /\ roots[Min(some)] # {} /\ Min(some) <= k
      BY <2>1, <2>2
    <3> HIDE DEF some
    <3> QED BY <1>4, <3>1
  <2> HIDE DEF some
  <2> QED BY <1>3, <1>4, <2>1, <2>3
<1>5. \A k \in 1 .. 4 : k = 1 \/ k = 2 \/ k = 3 \/ k = 4
  OBVIOUS
<1>6. CASE Called(r.hdr)
  <2>1. Root(r) = At1(r.hdr) /\ r.hdr.die # NoDie
    <3> DEFINE e == At1(r.hdr)
    <3>1. roots[1] = {e} /\ r.hdr.die # NoDie
      BY <1>1, <1>2, <1>6
    <3> HIDE DEF e
    <3>2. roots[1] # {} /\ 1 \in 1 .. 4 /\ \A j \in 1 .. 4 : ~(j < 1)
      BY <3>1
    <3> QED BY <1>4, <3>1, <3>2 DEF e
  <2> QED BY <1>6, <2>1 DEF AtHome, Called, DieName
<1>7. CASE ~Called(r.hdr) /\ Called(r.parent)
  <2>1. Root(r) = At1(r.parent) /\ r.parent.die # NoDie
    <3> DEFINE e == At1(r.parent)
    <3>1. roots[2] = {e} /\ roots[1] = {} /\ r.parent.die # NoDie
      BY <1>1, <1>2, <1>7
    <3> HIDE DEF e
    <3>2. roots[2] # {} /\ 2 \in 1 .. 4 /\ \A j \in 1 .. 4 : j < 2 => j = 1
      BY <3>1
    <3> QED BY <1>4, <3>1, <3>2 DEF e
  <2> QED BY <1>7, <2>1 DEF AtHome, Called, DieName
<1>8. CASE ~Called(r.hdr) /\ ~Called(r.parent) /\ r.hdr.die # NoDie
  <2>1. Root(r) = At1(r.hdr)
    <3> DEFINE e == At1(r.hdr)
    <3>1. roots[3] = {e} /\ roots[1] = {} /\ roots[2] = {}
      BY <1>1, <1>2, <1>8
    <3> HIDE DEF e
    <3>2. roots[3] # {} /\ 3 \in 1 .. 4 /\ \A j \in 1 .. 4 : j < 3 => j = 1 \/ j = 2
      BY <3>1
    <3> QED BY <1>4, <3>1, <3>2 DEF e
  <2> QED BY <1>8, <2>1 DEF AtHome, Called, DieName
<1>9. CASE ~Called(r.hdr) /\ ~Called(r.parent) /\ r.hdr.die = NoDie /\ r.parent.die # NoDie
  <2>1. Root(r) = At1(r.parent)
    <3> DEFINE e == At1(r.parent)
    <3>1. roots[4] = {e} /\ roots[1] = {} /\ roots[2] = {} /\ roots[3] = {}
      BY <1>1, <1>2, <1>9
    <3> HIDE DEF e
    <3>2. roots[4] # {} /\ 4 \in 1 .. 4 /\ \A j \in 1 .. 4 : j < 4 => j = 1 \/ j = 2 \/ j = 3
      BY <3>1
    <3> QED BY <1>4, <3>1, <3>2 DEF e
  <2> QED BY <1>9, <2>1 DEF AtHome, Called, DieName
<1>10. CASE ~Called(r.hdr) /\ ~Called(r.parent) /\ r.hdr.die = NoDie /\ r.parent.die = NoDie
  <2>1. roots[1] = {} /\ roots[2] = {} /\ roots[3] = {} /\ roots[4] = {}
    BY <1>1, <1>2, <1>10
  <2>2. some = {}
    BY <1>5, <2>1
  <2>3. Root(r) = << >>
    BY <1>3, <2>2
  <2> QED BY <1>10, <2>3 DEF AtHome
<1> QED BY <1>6, <1>7, <1>8, <1>9, <1>10

---------------------------------------------------------------------------
(* The registers of a record are below its root. *)
Top(t) == \A q \in DOMAIN t : t[q] = Record =>
            Len(q) = 1 \/ \E s \in DOMAIN t : IsStrictPrefix(s, q) /\ t[s] = Record

Rooted(t, root) ==
    \A p \in DOMAIN t :
        t[p] = Record /\ (\A q \in DOMAIN t : IsStrictPrefix(q, p) => t[q] # Record) =>
          Front(p) = root /\ SectionsTo(t, root)

LEMMA ConcatStrict ==
    ASSUME NEW p \in Path, NEW s \in Path, NEW r \in Path
    PROVE  IsStrictPrefix(s, r) => IsStrictPrefix(p \o s, p \o r)
<1> SUFFICES ASSUME IsStrictPrefix(s, r) PROVE IsStrictPrefix(p \o s, p \o r)
  OBVIOUS
<1> DEFINE x == p \o s
           y == p \o r
<1>1. /\ x \in Path /\ Len(x) = Len(p) + Len(s)
      /\ \A i \in 1 .. Len(p) : x[i] = p[i]
      /\ \A i \in 1 .. Len(s) : x[Len(p) + i] = s[i]
  BY ConcatFacts DEF Path
<1>2. /\ y \in Path /\ Len(y) = Len(p) + Len(r)
      /\ \A i \in 1 .. Len(p) : y[i] = p[i]
      /\ \A i \in 1 .. Len(r) : y[Len(p) + i] = r[i]
      /\ Len(p) \in Nat /\ Len(s) \in Nat /\ Len(r) \in Nat
  <2>1. Len(p) \in Nat /\ Len(s) \in Nat /\ Len(r) \in Nat
    BY DEF Path
  <2> QED BY <2>1, ConcatFacts DEF Path
<1> HIDE DEF x, y
<1>3. Len(s) <= Len(r) /\ \A i \in 1 .. Len(s) : s[i] = r[i]
  BY PrefixFacts DEF IsStrictPrefix, Path
<1>4. s # r
  BY DEF IsStrictPrefix
<1>5. Len(s) # Len(r)
  BY <1>3, <1>4, SameSequence DEF Path
<1>6. ASSUME NEW i \in 1 .. Len(x) PROVE x[i] = y[i]
  <2>1. CASE i \in 1 .. Len(p)
    BY <1>1, <1>2, <2>1
  <2>2. CASE i \notin 1 .. Len(p)
    <3>1. i - Len(p) \in 1 .. Len(s) /\ i - Len(p) \in 1 .. Len(r) /\ Len(p) + (i - Len(p)) = i
      BY <1>1, <1>2, <1>3, <2>2
    <3>2. x[Len(p) + (i - Len(p))] = s[i - Len(p)] /\ y[Len(p) + (i - Len(p))] = r[i - Len(p)]
      BY <1>1, <1>2, <3>1
    <3> QED BY <1>3, <3>1, <3>2
  <2> QED BY <2>1, <2>2
<1>7. Len(x) <= Len(y) /\ Len(x) # Len(y)
  BY <1>1, <1>2, <1>3, <1>5
<1>8. IsPrefix(x, y) /\ x # y
  BY <1>1, <1>2, <1>6, <1>7, PrefixFacts DEF Path
<1> QED BY <1>8 DEF IsStrictPrefix, x, y

LEMMA GraftRooted ==
    ASSUME NEW root \in Path, NEW h, IsTree(h), root # << >> => root \in DOMAIN h,
           \A q \in DOMAIN h : h[q] = Section /\ Len(q) <= Len(root),
           NEW t, IsTree(t), Top(t)
    PROVE  Rooted(Graft(h, root, t), root)
<1> DEFINE g == Graft(h, root, t)
<1>3. /\ IsTree(g) /\ DOMAIN g = DOMAIN h \cup {root \o s : s \in DOMAIN t}
      /\ \A q \in DOMAIN h : g[q] = h[q]
      /\ \A s \in DOMAIN t : root \o s \notin DOMAIN h => g[root \o s] = t[s]
  <2>1. IsTree(g)
    BY GraftIsTree
  <2>2. /\ DOMAIN g = DOMAIN h \cup {root \o s : s \in DOMAIN t}
        /\ \A q \in DOMAIN h : g[q] = h[q]
        /\ \A q \in DOMAIN g : q \notin DOMAIN h => g[q] = t[SubSeq(q, Len(root) + 1, Len(q))]
    BY DEF Graft
  <2> HIDE DEF g
  <2>3. ASSUME NEW s \in DOMAIN t, root \o s \notin DOMAIN h PROVE g[root \o s] = t[s]
    <3>1. SubSeq(root \o s, Len(root) + 1, Len(root \o s)) = s
      BY TreeFacts, ConcatSuffix DEF Path
    <3> QED BY <2>2, <2>3, <3>1
  <2> QED BY <2>1, <2>2, <2>3
<1> HIDE DEF g
<1>4. ASSUME NEW s \in DOMAIN t
      PROVE  s \in Path /\ root \o s \in DOMAIN g /\ g[root \o s] = t[s]
  <2>1. s \in Path /\ s # << >>
    BY TreeFacts
  <2> DEFINE q == root \o s
  <2>2. Len(q) = Len(root) + Len(s) /\ Len(root) \in Nat /\ Len(s) \in Nat \ {0}
    BY <2>1, ConcatFacts, PathFacts DEF Path
  <2> HIDE DEF q
  <2>3. q \notin DOMAIN h
    <3> SUFFICES ASSUME q \in DOMAIN h PROVE FALSE
      OBVIOUS
    <3>1. Len(q) <= Len(root)
      OBVIOUS
    <3> QED BY <2>2, <3>1
  <2> QED BY <1>3, <2>1, <2>3 DEF q
<1>5. SectionsTo(g, root)
  <2> SUFFICES ASSUME NEW i \in 1 .. Len(root) PROVE g[SubSeq(root, 1, i)] = Section
    BY DEF SectionsTo
  <2>1. root # << >>
    OBVIOUS
  <2>2. SubSeq(root, 1, i) \in DOMAIN h
    BY <2>1 DEF IsTree
  <2> QED BY <1>3, <2>2
<1>6. ASSUME NEW p \in DOMAIN g, g[p] = Record, \A q \in DOMAIN g : IsStrictPrefix(q, p) => g[q] # Record
      PROVE  Front(p) = root
  <2>1. p \notin DOMAIN h
    BY <1>3, <1>6 DEF Section, Record
  <2>2. PICK s \in DOMAIN t : p = root \o s
    BY <1>3, <2>1
  <2>3. t[s] = Record /\ s \in Path
    BY <1>4, <1>6, <2>2
  <2>4. Len(s) = 1
    <3> SUFFICES ASSUME Len(s) # 1 PROVE FALSE
      OBVIOUS
    <3>1. PICK o \in DOMAIN t : IsStrictPrefix(o, s) /\ t[o] = Record
      BY <2>3 DEF Top
    <3>2. o \in Path /\ root \o o \in DOMAIN g /\ g[root \o o] = Record
      BY <1>4, <3>1
    <3>3. IsStrictPrefix(root \o o, root \o s)
      BY <2>3, <3>1, <3>2, ConcatStrict
    <3> QED BY <1>6, <2>2, <3>2, <3>3
  <2>5. s # << >> /\ s = Append(Front(s), Last(s)) /\ Front(s) = << >> /\ Last(s) \in Name
    <3>1. s # << >>
      BY <2>4
    <3>2. Front(s) \in Path /\ Len(Front(s)) = 0 /\ Last(s) \in Name
      BY <2>3, <2>4, <3>1, PathFacts DEF Path
    <3>3. Front(s) = << >>
      BY <3>2 DEF Path
    <3> QED BY <2>3, <3>1, <3>2, <3>3, FrontLast DEF Path
  <2>6. p = Append(root, Last(s))
    <3>1. s = <<Last(s)>>
      BY <2>5
    <3>2. \A e \in Name : root \o <<e>> = Append(root, e)
      BY DEF Path
    <3> QED BY <2>2, <2>5, <3>1, <3>2
  <2> QED BY <2>5, <2>6, AppendPath DEF Path
<1>7. Rooted(g, root)
  BY <1>5, <1>6 DEF Rooted
<1> QED BY <1>7 DEF g

LEMMA DecodedRooted ==
    ASSUME NEW root \in Path, NEW t, IsTree(t), Top(t)
    PROVE  Rooted(Graft(Hierarchy(NoTree, root), root, t), root)
<1> DEFINE h == Hierarchy(NoTree, root)
<1>1. /\ IsTree(h) /\ (root # << >> => root \in DOMAIN h)
      /\ \A q \in DOMAIN h : h[q] = Section /\ \E i \in 1 .. Len(root) : q = SubSeq(root, 1, i)
  BY NoTreeIsTree, HierarchyIsTree
<1>2. \A q \in DOMAIN h : Len(q) <= Len(root)
  <2>1. \A i \in 1 .. Len(root) : Len(SubSeq(root, 1, i)) <= Len(root)
    BY SubFacts DEF Path
  <2> QED BY <1>1, <2>1
<1> HIDE DEF h
<1>3. Rooted(Graft(h, root, t), root)
  BY <1>1, <1>2, GraftRooted
<1> QED BY <1>3 DEF h

---------------------------------------------------------------------------
(* Where the records of a tree are: at the top of what a layout gives, and *)
(* in what is made of it, below a record that is at the top.               *)
Flat(t) == \A q \in DOMAIN t : t[q] = Record => Len(q) = 1

Topped(t, name) ==
    /\ <<name>> \in DOMAIN t /\ t[<<name>>] = Record
    /\ \A q \in DOMAIN t : q[1] = name

LEMMA NoTreeIsFlat == Flat(NoTree)
BY NoTreeIsTree DEF Flat

LEMMA TakenIsFlat ==
    ASSUME NEW t, IsTree(t), Flat(t), NEW name \in Seq(Seq(Int)), name # << >>, NEW to \in Path
    PROVE  Flat(Hierarchy(WithRecord(t, name), to))
<1> DEFINE u == WithRecord(t, name)
<1>1. Flat(u)
  <2>1. CASE name[1] = << >> \/ <<name[1]>> \in DOMAIN t
    BY <2>1 DEF WithRecord
  <2>2. CASE ~(name[1] = << >> \/ <<name[1]>> \in DOMAIN t)
    <3> DEFINE q == <<name[1]>>
    <3>1. u = Insert(t, q, Record) /\ Len(q) = 1
      BY <2>2 DEF WithRecord
    <3> HIDE DEF q, u
    <3> QED BY <3>1 DEF Flat, Insert
  <2> QED BY <2>1, <2>2
<1>2. IsTree(u)
  BY WithRecordIsTree
<1> HIDE DEF u
<1>3. \A q \in DOMAIN Hierarchy(u, to) :
         \/ q \in DOMAIN u /\ Hierarchy(u, to)[q] = u[q]
         \/ Hierarchy(u, to)[q] = Section
  BY <1>2, HierarchyIsTree
<1>4. Section # Record
  BY DEF Section, Record
<1>5. Flat(Hierarchy(u, to))
  BY <1>1, <1>3, <1>4 DEF Flat
<1> QED BY <1>5 DEF u

LEMMA FilledIsFlat ==
    ASSUME NEW t, Flat(t), NEW p, NEW v
    PROVE  Flat([t EXCEPT ![p] = Field(v)])
<1>1. Field(v) # Record
  BY DEF Field, Record
<1> QED BY <1>1 DEF Flat

LEMMA ToppedIsTop ==
    ASSUME NEW name \in Name, NEW t, IsTree(t), Topped(t, name)
    PROVE  Top(t)
<1> DEFINE o == <<name>>
<1>1. o \in Path /\ Len(o) = 1 /\ o[1] = name /\ o \in DOMAIN t /\ t[o] = Record
  BY HeaderTree DEF Topped
<1> HIDE DEF o
<1>2. ASSUME NEW q \in DOMAIN t, Len(q) # 1 PROVE IsStrictPrefix(o, q)
  <2>1. q \in Path /\ q # << >> /\ q[1] = name
    BY TreeFacts DEF Topped
  <2>2. Len(q) \in Nat \ {0}
    BY <2>1, PathFacts DEF Path
  <2>3. Len(o) <= Len(q) /\ \A i \in 1 .. Len(o) : o[i] = q[i]
    BY <1>1, <2>1, <2>2
  <2> QED BY <1>1, <1>2, <2>1, <2>3, PrefixFacts DEF IsStrictPrefix, Path
<1> QED BY <1>1, <1>2 DEF Top

LEMMA ToppedHierarchy ==
    ASSUME NEW name, NEW t, IsTree(t), Topped(t, name), NEW p \in Path, p # << >> => p[1] = name
    PROVE  Topped(Hierarchy(t, p), name)
<1> DEFINE h == Hierarchy(t, p)
           o == <<name>>
<1>1. /\ DOMAIN t \subseteq DOMAIN h
      /\ \A q \in DOMAIN t : h[q] = t[q]
      /\ \A q \in DOMAIN h \ DOMAIN t : \E i \in 1 .. Len(p) : q = SubSeq(p, 1, i)
  BY HierarchyIsTree
<1> HIDE DEF h
<1>2. ASSUME NEW q \in DOMAIN h PROVE q[1] = name
  <2>1. CASE q \in DOMAIN t
    BY <2>1 DEF Topped
  <2>2. CASE q \notin DOMAIN t
    <3>1. PICK i \in 1 .. Len(p) : q = SubSeq(p, 1, i)
      BY <1>1, <2>2
    <3>2. p # << >> /\ 1 \in 1 .. i
      BY <3>1 DEF Path
    <3>3. SubSeq(p, 1, i)[1] = p[1]
      BY <3>2, SubFacts DEF Path
    <3> QED BY <3>1, <3>2, <3>3
  <2> QED BY <2>1, <2>2
<1>3. o \in DOMAIN t /\ t[o] = Record
  BY DEF Topped
<1> HIDE DEF o
<1>4. o \in DOMAIN h /\ h[o] = Record
  BY <1>1, <1>3
<1> QED BY <1>2, <1>4 DEF Topped, h, o

LEMMA ToppedGraft ==
    ASSUME NEW name, NEW h, IsTree(h), Topped(h, name), NEW u, IsTree(u),
           NEW p \in Path, p \in DOMAIN h
    PROVE  Topped(Graft(h, p, u), name)
<1> DEFINE g == Graft(h, p, u)
           o == <<name>>
<1>1. DOMAIN g = DOMAIN h \cup {p \o r : r \in DOMAIN u} /\ \A q \in DOMAIN h : g[q] = h[q]
  BY DEF Graft
<1> HIDE DEF g
<1>2. ASSUME NEW q \in DOMAIN g PROVE q[1] = name
  <2>1. CASE q \in DOMAIN h
    BY <2>1 DEF Topped
  <2>2. CASE q \notin DOMAIN h
    <3>1. PICK r \in DOMAIN u : q = p \o r
      BY <1>1, <2>2
    <3>2. r \in Path /\ p # << >> /\ p[1] = name
      BY TreeFacts DEF Topped
    <3>3. 1 \in 1 .. Len(p)
      BY <3>2, PathFacts DEF Path
    <3>4. (p \o r)[1] = p[1]
      BY <3>2, <3>3, ConcatFacts DEF Path
    <3> QED BY <3>1, <3>2, <3>4
  <2> QED BY <2>1, <2>2
<1>3. o \in DOMAIN h /\ h[o] = Record
  BY DEF Topped
<1> HIDE DEF o
<1>4. o \in DOMAIN g /\ g[o] = Record
  BY <1>1, <1>3
<1> QED BY <1>2, <1>4 DEF Topped, g, o

LEMMA NodeIsTopped ==
    ASSUME NEW name \in Name
    PROVE  Topped(Insert(NoTree, <<name>>, Record), name)
<1>1. <<name>>[1] = name
  OBVIOUS
<1> QED BY <1>1, HeaderTree DEF Topped

LEMMA HeaderIsTop ==
    ASSUME NEW name \in Name, NEW u, IsTree(u)
    PROVE  Top(Graft(Insert(NoTree, <<name>>, Record), <<name>>, u))
<1> DEFINE h == Insert(NoTree, <<name>>, Record)
           o == <<name>>
<1>1. Topped(h, name) /\ IsTree(h) /\ o \in Path /\ o \in DOMAIN h
  BY NodeIsTopped, HeaderTree
<1> HIDE DEF h, o
<1>2. Topped(Graft(h, o, u), name)
  BY <1>1, ToppedGraft
<1>3. IsTree(Graft(h, o, u))
  BY <1>1, GraftIsTree
<1>4. Top(Graft(h, o, u))
  BY <1>2, <1>3, ToppedIsTop
<1> QED BY <1>4 DEF h, o

LEMMA ClosedIsTop ==
    ASSUME NEW name \in Name, NEW levels \in Path, NEW u, IsTree(u)
    PROVE  LET below == <<name>> \o levels
               node == Insert(NoTree, <<name>>, Record)
           IN Top(Graft(Hierarchy(node, below), below, u))
<1> DEFINE o == <<name>>
           below == o \o levels
           node == Insert(NoTree, o, Record)
           h == Hierarchy(node, below)
<1>1. Topped(node, name) /\ IsTree(node) /\ o \in Path
  BY NodeIsTopped, HeaderTree
<1>2. below \in Path /\ below # << >> /\ below[1] = name
  <2>1. Len(o) = 1 /\ o[1] = name
    OBVIOUS
  <2> HIDE DEF o
  <2>2. below \in Path /\ Len(below) = 1 + Len(levels) /\ Len(levels) \in Nat /\ below[1] = o[1]
    BY <1>1, <2>1, ConcatFacts DEF Path
  <2> HIDE DEF below
  <2> QED BY <2>1, <2>2
<1> HIDE DEF below, node, o
<1>3. Topped(h, name) /\ IsTree(h) /\ below \in DOMAIN h
  BY <1>1, <1>2, HierarchyIsTree, ToppedHierarchy
<1> HIDE DEF h
<1>4. Topped(Graft(h, below, u), name)
  BY <1>2, <1>3, ToppedGraft
<1>5. IsTree(Graft(h, below, u))
  BY <1>2, <1>3, GraftIsTree
<1>6. Top(Graft(h, below, u))
  BY <1>4, <1>5, ToppedIsTop
<1> QED BY <1>6 DEF below, node, o, h

(* The registers of each record that has been decoded are below its root,  *)
(* the path of its die, and only sections lead there (record/decode.rs:    *)
(* the hierarchy of get_root_path_using_cm is what the record is put in).  *)
Sited ==
    /\ Len(decoded) = n - 1
    /\ \A k \in DOMAIN decoded : Rooted(decoded[k], Root(crashlog[k]))
    /\ pc \in {"layout", "field"} => Flat(tree)
    /\ pc = "merge" => Rooted(tree, Root(Rec))

LEMMA SitedInit ==
    ASSUME Init
    PROVE  Sited
<1>1. decoded = << >> /\ n = 1 /\ pc = "layout" /\ tree = NoTree
  BY DEF Init
<1> QED BY <1>1, NoTreeIsFlat DEF Sited

LEMMA SitedDecoded ==
    ASSUME TypeInv, Sited, pc # "done", NEW STATE t, IsTree(t), Top(t), Decoded(t), UNCHANGED crashlog
    PROVE  Sited'
<1>1. WellFormed(Rec)
  BY RecIs DEF TypeInv, RecordOK, Rec
<1>2. Root(Rec) \in Path
  BY <1>1, RootIsPath
<1> DEFINE root == Root(Rec)
           u == Graft(Hierarchy(NoTree, root), root, t)
<1>3. tree' = u /\ pc' = "merge" /\ UNCHANGED <<crashlog, n, decoded>>
  BY DEF Decoded, Begin
<1>4. Rooted(u, root)
  BY <1>2, DecodedRooted
<1>5. Root(Rec)' = root
  BY <1>3 DEF Rec
<1> HIDE DEF u, root
<1> QED BY <1>3, <1>4, <1>5 DEF Sited

LEMMA SitedHeader ==
    ASSUME TypeInv, Sited, pc # "done", Decoded(HeaderOnly), UNCHANGED crashlog
    PROVE  Sited'
<1>1. WellFormed(Rec)
  BY RecIs DEF TypeInv, RecordOK, Rec
<1>2. Rec.name \in Name /\ IsTree(Rec.header)
  BY <1>1 DEF WellFormed
<1>3. Top(HeaderOnly)
  BY <1>2, HeaderIsTop DEF HeaderOnly, RecordNode
<1> QED BY <1>3, HeaderOnlyOK, SitedDecoded

LEMMA SitedApply ==
    ASSUME Sited, NEW STATE d, Apply(d), pc' = "layout", UNCHANGED <<crashlog, n, decoded>>
    PROVE  Sited'
<1>1. tree' = NoTree
  BY DEF Apply
<1> QED BY <1>1, NoTreeIsFlat DEF Sited

LEMMA SitedNextSub ==
    ASSUME TypeInv, Sited, pc # "done", NextSub, UNCHANGED crashlog
    PROVE  Sited'
<1>1. CASE sub = "thread"
  <2>1. Apply(Def(Rec, "core")) /\ pc' = "layout" /\ UNCHANGED <<n, decoded>>
    BY <1>1 DEF NextSub
  <2> QED BY <2>1, SitedApply
<1>2. CASE sub # "thread"
  BY <1>2, SitedHeader DEF NextSub
<1> QED BY <1>1, <1>2

LEMMA SitedClose ==
    ASSUME TypeInv, Sited, pc # "done", NEW STATE t, IsTree(t), Close(t), UNCHANGED crashlog
    PROVE  Sited'
<1>1. CASE <<SubName>> \notin DOMAIN t
  BY <1>1, SitedNextSub DEF Close
<1>2. CASE <<SubName>> \in DOMAIN t
  <2>1. WellFormed(Rec) /\ Rec.name \in Name
    BY RecIs DEF TypeInv, RecordOK, Rec, WellFormed
  <2>2. Levels(t) \in Path
    BY LevelsIsPath
  <2> DEFINE below == <<Rec.name>> \o Levels(t)
             x == Graft(Hierarchy(RecordNode, below), below, t)
  <2>3. IsTree(x)
    BY <2>1, <2>2, ClosedIsTree DEF RecordNode
  <2>4. Top(x)
    BY <2>1, <2>2, ClosedIsTop DEF RecordNode
  <2>5. Decoded(x)
    BY <1>2 DEF Close
  <2> HIDE DEF x
  <2> QED BY <2>3, <2>4, <2>5, SitedDecoded
<1> QED BY <1>1, <1>2

LEMMA FlatIsTop ==
    ASSUME NEW t, Flat(t)
    PROVE  Top(t)
BY DEF Flat, Top

LEMMA SitedStep ==
    ASSUME TypeInv, Sited, Next
    PROVE  Sited'
<1>0. def.name \in DefNames
  BY DEF TypeInv, LayoutOK
<1>1. CASE SkipLine \/ NodeMissing
  BY <1>1 DEF SkipLine, NodeMissing, AtLine, Sited
<1>2. CASE TakeLine
  <2> DEFINE name == Lines[line].name
             to == PathOf(name, path)
  <2>1. /\ pc = "layout" /\ pc' = "field" /\ Known /\ line <= Len(Lines) /\ name # << >>
        /\ tree' = Hierarchy(WithRecord(tree, name), to)
        /\ UNCHANGED <<crashlog, n, decoded>>
    BY <1>2 DEF TakeLine, AtLine
  <2>2. name \in Seq(Seq(Int))
    BY <2>1, LineIs
  <2> HIDE DEF name
  <2>3. to \in Path
    BY <2>1, <2>2, PathOfIsPath DEF TypeInv, LayoutOK
  <2> HIDE DEF to
  <2>4. Flat(tree')
    BY <2>1, <2>2, <2>3, TakenIsFlat DEF TypeInv, TreesOK, Sited
  <2> QED BY <2>1, <2>4 DEF Sited
<1>3. CASE ReadChunk \/ FieldMissing
  BY <1>3 DEF ReadChunk, FieldMissing, Sited
<1>4. CASE FieldDone
  <2>1. /\ pc = "field" /\ pc' = "layout"
        /\ tree' = IF path = << >> THEN tree ELSE [tree EXCEPT ![path] = Field(value)]
        /\ UNCHANGED <<crashlog, n, decoded>>
    BY <1>4 DEF FieldDone
  <2>2. Flat(tree')
    BY <2>1, FilledIsFlat DEF Sited
  <2> QED BY <2>1, <2>2 DEF Sited
<1>5. CASE LayoutDone
  <2>1. pc = "layout" /\ UNCHANGED crashlog /\ IsTree(tree) /\ Top(tree)
    BY <1>5, FlatIsTop DEF LayoutDone, Complete, TypeInv, TreesOK, Sited
  <2>2. \/ Decoded(tree)
        \/ Close(tree)
        \/ Apply(Def(Rec, "sq")) /\ UNCHANGED <<n, sub, pc, todo, at, added, result, decoded>>
        \/ pc' = "extend" /\ UNCHANGED <<n, sub, def, line, path, base, result, decoded>>
    BY <1>0, <1>5, Zenon DEF LayoutDone, DefNames
  <2>3. CASE Decoded(tree)
    BY <2>1, <2>3, SitedDecoded
  <2>4. CASE Close(tree)
    BY <2>1, <2>4, SitedClose
  <2>5. CASE Apply(Def(Rec, "sq")) /\ UNCHANGED <<n, sub, pc, todo, at, added, result, decoded>>
    BY <2>1, <2>5, SitedApply
  <2>6. CASE pc' = "extend" /\ UNCHANGED <<n, sub, def, line, path, base, result, decoded>>
    BY <2>1, <2>6 DEF Sited
  <2> QED BY <2>2, <2>3, <2>4, <2>5, <2>6
<1>6. CASE LayoutFails
  <2>1. pc = "layout" /\ UNCHANGED crashlog /\ IsTree(base)
    BY <1>6 DEF LayoutFails, Failed, TypeInv, TreesOK
  <2>2. \/ Decoded(HeaderOnly)
        \/ NextSub
        \/ Apply(Def(Rec, "module")) /\ UNCHANGED <<n, sub, pc, base, todo, at, added, result, decoded>>
        \/ Close(base)
    BY <1>0, <1>6, Zenon DEF LayoutFails, DefNames
  <2>3. CASE Decoded(HeaderOnly)
    BY <2>1, <2>3, SitedHeader
  <2>4. CASE NextSub
    BY <2>1, <2>4, SitedNextSub
  <2>5. CASE Apply(Def(Rec, "module")) /\ UNCHANGED <<n, sub, pc, base, todo, at, added, result, decoded>>
    BY <2>1, <2>5, SitedApply
  <2>6. CASE Close(base)
    BY <2>1, <2>6, SitedClose
  <2> QED BY <2>2, <2>3, <2>4, <2>5, <2>6
<1>7. CASE MergeNode
  BY <1>7 DEF MergeNode, Sited, Rec
<1>8. CASE Extended
  BY <1>8, SitedClose DEF Extended, TypeInv, TreesOK
<1>9. CASE Merged
  <2>1. /\ pc = "merge" /\ decoded' = Append(decoded, tree) /\ n' = n + 1
        /\ UNCHANGED crashlog
        /\ pc' # "merge"
        /\ pc' # "field"
        /\ pc' = "layout" => tree' = NoTree
    BY <1>9 DEF Merged, Apply
  <2>2. /\ Len(decoded') = Len(decoded) + 1 /\ Len(decoded) \in Nat
        /\ DOMAIN decoded = 1 .. Len(decoded) /\ DOMAIN decoded' = 1 .. Len(decoded) + 1
        /\ \A i \in 1 .. Len(decoded) : decoded'[i] = decoded[i]
        /\ decoded'[Len(decoded) + 1] = tree
    BY <2>1, AppendElement DEF TypeInv, TreesOK
  <2>3. Len(decoded) + 1 = n /\ n \in Nat /\ Rooted(tree, Root(Rec))
    BY <2>1, <2>2 DEF Sited, TypeInv, RecordOK
  <2>4. ASSUME NEW k \in DOMAIN decoded' PROVE Rooted(decoded'[k], Root(crashlog[k]))
    <3>1. CASE k \in DOMAIN decoded
      BY <2>2, <3>1 DEF Sited
    <3>2. CASE k = Len(decoded) + 1
      BY <2>2, <2>3, <3>2 DEF Rec
    <3> QED BY <2>2, <3>1, <3>2
  <2>5. Len(decoded') = n' - 1
    BY <2>1, <2>2, <2>3
  <2> QED BY <2>1, <2>4, <2>5, NoTreeIsFlat DEF Sited
<1> QED BY <1>1, <1>2, <1>3, <1>4, <1>5, <1>6, <1>7, <1>8, <1>9 DEF Next

(* Whichever layouts a record is decoded with, or none: its registers are  *)
(* below its root, and there are as many trees as decoded records          *)
(* (record/decode.rs, Record::decode).                                     *)
THEOREM EachRecordIsAtHome == Spec => []Sited
<1>1. Init => Sited
  BY SitedInit
<1>2. TypeInv /\ Sited /\ [Next]_vars => Sited'
  <2>1. CASE UNCHANGED vars
    BY <2>1 DEF vars, Sited, Rec
  <2> QED BY <2>1, SitedStep
<1> QED BY <1>1, <1>2, TreesSound, PTL DEF Spec

---------------------------------------------------------------------------
LEMMA SplitPrefix ==
    ASSUME NEW p \in Path, NEW q \in Path, IsPrefix(p, q)
    PROVE  LET r == SubSeq(q, Len(p) + 1, Len(q)) IN r \in Path /\ q = p \o r
<1> DEFINE r == SubSeq(q, Len(p) + 1, Len(q))
<1>1. /\ Len(p) <= Len(q) /\ \A i \in 1 .. Len(p) : p[i] = q[i]
      /\ Len(p) \in Nat /\ Len(q) \in Nat
  BY PrefixFacts DEF Path
<1>2. \A i \in 1 .. Len(q) : q[i] \in Name
  BY DEF Path
<1>3. r = [i \in 1 .. Len(q) - Len(p) |-> q[Len(p) + i]]
  <2>1. r = [i \in 1 .. Len(q) - (Len(p) + 1) + 1 |-> q[i + (Len(p) + 1) - 1]]
    BY <1>1 DEF Path
  <2>2. /\ Len(q) - (Len(p) + 1) + 1 = Len(q) - Len(p)
        /\ \A i \in 1 .. Len(q) - Len(p) : i + (Len(p) + 1) - 1 = Len(p) + i
    BY <1>1
  <2> HIDE DEF r
  <2> QED BY <2>1, <2>2
<1>4. \A i \in 1 .. Len(q) - Len(p) : Len(p) + i \in 1 .. Len(q)
  BY <1>1
<1>5. r \in Path /\ Len(r) = Len(q) - Len(p)
  <2>1. \A i \in 1 .. Len(q) - Len(p) : q[Len(p) + i] \in Name
    BY <1>2, <1>4
  <2>2. Len(q) - Len(p) \in Nat
    BY <1>1
  <2> HIDE DEF r
  <2> QED BY <1>3, <2>1, <2>2 DEF Path
<1>6. \A i \in 1 .. Len(q) - Len(p) : r[i] = q[Len(p) + i]
  <2> HIDE DEF r
  <2> QED BY <1>3
<1> HIDE DEF r
<1> DEFINE x == p \o r
<1>7. /\ x \in Path /\ Len(x) = Len(q)
      /\ \A i \in 1 .. Len(p) : x[i] = p[i]
      /\ \A i \in 1 .. Len(r) : x[Len(p) + i] = r[i]
  <2>1. /\ x \in Path /\ Len(x) = Len(p) + Len(r)
        /\ \A i \in 1 .. Len(p) : x[i] = p[i]
        /\ \A i \in 1 .. Len(r) : x[Len(p) + i] = r[i]
    BY <1>5, ConcatFacts DEF Path
  <2> HIDE DEF x
  <2> QED BY <1>1, <1>5, <2>1
<1> HIDE DEF x
<1>8. ASSUME NEW i \in 1 .. Len(x) PROVE x[i] = q[i]
  <2>1. CASE i \in 1 .. Len(p)
    BY <1>1, <1>7, <2>1
  <2>2. CASE i \notin 1 .. Len(p)
    <3>1. i - Len(p) \in 1 .. Len(q) - Len(p) /\ Len(p) + (i - Len(p)) = i
      BY <1>1, <1>7, <2>2
    <3>2. x[Len(p) + (i - Len(p))] = r[i - Len(p)] /\ r[i - Len(p)] = q[Len(p) + (i - Len(p))]
      BY <1>5, <1>6, <1>7, <3>1
    <3> QED BY <3>1, <3>2
  <2> QED BY <2>1, <2>2
<1>9. x = q
  BY <1>7, <1>8, SameSequence DEF Path
<1> QED BY <1>5, <1>9 DEF r, x

LEMMA IsPrefixOfConcat ==
    ASSUME NEW p \in Path, NEW r \in Path
    PROVE  IsPrefix(p, p \o r) /\ (p \o r = p => r = << >>)
<1> DEFINE x == p \o r
<1>1. /\ x \in Path /\ Len(x) = Len(p) + Len(r) /\ Len(p) \in Nat /\ Len(r) \in Nat
      /\ \A i \in 1 .. Len(p) : x[i] = p[i]
  BY ConcatFacts DEF Path
<1> HIDE DEF x
<1>2. IsPrefix(p, x)
  BY <1>1, PrefixFacts DEF Path
<1>3. x = p => r = << >>
  <2>1. x = p => Len(r) = 0
    BY <1>1
  <2> QED BY <2>1 DEF Path
<1> QED BY <1>2, <1>3 DEF x

(* The paths, from p on, of the nodes below p. *)
Under(t, p) == {r \in Path : p \o r \in DOMAIN t}

LEMMA SubtreeIs ==
    ASSUME NEW t, IsTree(t), NEW p \in Path
    PROVE  Subtree(t, p) = [r \in Under(t, p) |-> t[p \o r]]
<1> DEFINE B == {q \in DOMAIN t : IsPrefix(p, q)}
           S == {SubSeq(q, Len(p) + 1, Len(q)) : q \in B}
<1>1. ASSUME NEW r \in S PROVE r \in Under(t, p)
  <2>1. PICK q \in B : r = SubSeq(q, Len(p) + 1, Len(q))
    OBVIOUS
  <2>2. q \in Path /\ IsPrefix(p, q) /\ q \in DOMAIN t
    BY TreeFacts
  <2>3. r \in Path /\ q = p \o r
    BY <2>1, <2>2, SplitPrefix
  <2> QED BY <2>2, <2>3 DEF Under
<1>2. ASSUME NEW r \in Under(t, p) PROVE r \in S
  <2>1. r \in Path /\ p \o r \in DOMAIN t
    BY DEF Under
  <2>2. IsPrefix(p, p \o r)
    BY <2>1, IsPrefixOfConcat
  <2>3. SubSeq(p \o r, Len(p) + 1, Len(p \o r)) = r
    BY <2>1, ConcatSuffix DEF Path
  <2> DEFINE q == p \o r
  <2>4. q \in B
    BY <2>1, <2>2
  <2> HIDE DEF q, B
  <2>5. SubSeq(q, Len(p) + 1, Len(q)) \in S
    BY <2>4
  <2> QED BY <2>3, <2>5 DEF q
<1>3. S = Under(t, p)
  <2> HIDE DEF S
  <2> QED BY <1>1, <1>2
<1>4. Subtree(t, p) = [r \in S |-> t[p \o r]]
  BY DEF Subtree
<1> HIDE DEF S
<1> QED BY <1>3, <1>4

(* A node that is no section has taken what is below it along.             *)
LEMMA SubtreeGoes ==
    ASSUME NEW t, NEW u, NEW a, NEW d, Merging(t, u, {}, a, d), NEW p \in d, u[p] # Section
    PROVE  p \in Path /\ a[p] \in Path /\ Subtree(t, a[p]) = Subtree(u, p)
<1>1. /\ IsTree(t) /\ IsTree(u) /\ DOMAIN a = {<< >>} \cup DOMAIN u
      /\ p \in DOMAIN a /\ p # << >>
  BY DEF Merging, Moving
<1>2. p \in Path /\ a[p] \in Path /\ p \in DOMAIN u /\ a[p] \in DOMAIN t
  BY <1>1, GoneFacts
<1>3. ASSUME NEW r \in Under(u, p) PROVE r \in Under(t, a[p]) /\ t[a[p] \o r] = u[p \o r]
  <2>1. r \in Path /\ p \o r \in DOMAIN u
    BY DEF Under
  <2>2. p \o r \in d /\ a[p \o r] = a[p] \o r
    BY <1>1, <2>1, BelowGoes
  <2>3. p \o r \in DOMAIN a /\ p \o r # << >>
    <3> DEFINE q == p \o r
    <3>1. q \in d
      BY <2>2
    <3> HIDE DEF q
    <3>2. q \in DOMAIN a /\ q # << >>
      BY <3>1 DEF Merging, Moving
    <3> QED BY <3>2 DEF q
  <2>4. a[p \o r] \in DOMAIN t /\ t[a[p \o r]] = u[p \o r]
    <3> DEFINE q == p \o r
    <3>1. q \in d /\ q \in DOMAIN a /\ q # << >>
      BY <2>2, <2>3
    <3> HIDE DEF q
    <3>2. a[q] \in DOMAIN t /\ t[a[q]] = u[q]
      BY <3>1 DEF Merging, Settled
    <3> QED BY <3>2 DEF q
  <2> QED BY <2>1, <2>2, <2>4 DEF Under
<1>4. ASSUME NEW r \in Under(t, a[p]) PROVE r \in Under(u, p)
  <2>1. r \in Path /\ a[p] \o r \in DOMAIN t
    BY DEF Under
  <2>2. CASE r = << >>
    <3>1. p \o << >> = p /\ << >> \in Path
      BY <1>2, ConcatFacts DEF Path
    <3> QED BY <1>2, <2>2, <3>1 DEF Under
  <2>3. CASE r # << >>
    <3>1. IsStrictPrefix(a[p], a[p] \o r)
      BY <1>2, <2>1, <2>3, IsPrefixOfConcat DEF IsStrictPrefix
    <3> DEFINE q == a[p] \o r
    <3>2. q \in DOMAIN t /\ IsStrictPrefix(a[p], q)
      BY <2>1, <3>1
    <3> HIDE DEF q
    <3>3. PICK y \in d : IsStrictPrefix(p, y) /\ a[y] = q
      BY <3>2 DEF Merging, Full
    <3>4. y \in DOMAIN a /\ y \in Path /\ y \in DOMAIN u /\ IsPrefix(p, y)
      <4>1. y \in DOMAIN a /\ y # << >>
        BY DEF Merging, Moving
      <4>2. y \in Path /\ y \in DOMAIN u
        BY <4>1, GoneFacts
      <4> QED BY <3>3, <4>1, <4>2 DEF IsStrictPrefix
    <3>5. PICK s \in Path : y = p \o s
      BY <1>2, <3>4, SplitPrefix
    <3>6. a[y] = a[p] \o s
      BY <3>4, <3>5, BelowGoes
    <3>7. SubSeq(a[p] \o s, Len(a[p]) + 1, Len(a[p] \o s)) = s
      BY <1>2, ConcatSuffix DEF Path
    <3>8. SubSeq(a[p] \o r, Len(a[p]) + 1, Len(a[p] \o r)) = r
      BY <1>2, <2>1, ConcatSuffix DEF Path
    <3>9. a[p] \o s = a[p] \o r
      BY <3>3, <3>6 DEF q
    <3>10. s = r
      BY <3>7, <3>8, <3>9
    <3> QED BY <2>1, <3>4, <3>5, <3>10 DEF Under
  <2> QED BY <2>2, <2>3
<1>5. Under(t, a[p]) = Under(u, p)
  BY <1>3, <1>4
<1>6. Subtree(t, a[p]) = [r \in Under(t, a[p]) |-> t[a[p] \o r]]
  BY <1>1, <1>2, SubtreeIs
<1>7. Subtree(u, p) = [r \in Under(u, p) |-> u[p \o r]]
  BY <1>1, <1>2, SubtreeIs
<1>8. [r \in Under(t, a[p]) |-> t[a[p] \o r]] = [r \in Under(u, p) |-> u[p \o r]]
  <2> DEFINE V(r) == t[a[p] \o r]
             W(r) == u[p \o r]
  <2>1. \A r \in Under(u, p) : V(r) = W(r)
    BY <1>3
  <2> HIDE DEF V, W
  <2>2. [r \in Under(t, a[p]) |-> V(r)] = [r \in Under(u, p) |-> W(r)]
    BY <1>5, <2>1
  <2> QED BY <2>2 DEF V, W
<1> QED BY <1>2, <1>6, <1>7, <1>8

(* The place of a register that is there more than once.                   *)
LEMMA IsNumber ==
    ASSUME NEW p \in Path, p # << >>, NEW d \in Seq(Digits)
    PROVE  IsNumbered(Numbered(p, d), p)
<1> DEFINE q == Numbered(p, d)
           x == Last(p)
<1>1. Front(p) \in Path /\ x \in Name
  BY PathFacts DEF Path
<1> HIDE DEF x
<1>2. x \o d \in Name /\ d \in Seq(Int) /\ x \in Seq(Int)
  BY <1>1, NumberedName DEF Name
<1>3. Last(q) = x \o d
  BY <1>1, <1>2, AppendPath DEF Path, Numbered, x
<1>4. SubSeq(x \o d, Len(x) + 1, Len(x \o d)) = d
  BY <1>2, ConcatSuffix
<1> QED BY <1>3, <1>4 DEF IsNumbered, x, Digits

LEMMA RegisterFacts ==
    ASSUME NEW t, IsTree(t), NEW root, Rooted(t, root), NEW p \in Registers(t)
    PROVE  p \in DOMAIN t /\ t[p] # Section /\ Front(p) = root /\ SectionsTo(t, root)
<1>1. p \in DOMAIN t /\ t[p].kind = "record"
      /\ \A q \in Prefixes(p) \ {<< >>, p} : t[q].kind # "record"
  BY DEF Registers
<1>2. \A q \in DOMAIN t : q \in Path /\ q # << >> /\ IsNode(t[q])
  BY TreeFacts
<1>3. \A x : IsNode(x) => (x.kind = "record" <=> x = Record)
  BY DEF IsNode, Section, Record, Field
<1>4. t[p] = Record /\ p \in Path
  BY <1>1, <1>2, <1>3
<1>5. ASSUME NEW q \in DOMAIN t, IsStrictPrefix(q, p) PROVE t[q] # Record
  <2>1. q \in Path /\ q # << >> /\ q # p /\ IsPrefix(q, p)
    BY <1>2, <1>5 DEF IsStrictPrefix
  <2>2. Len(q) \in 0 .. Len(p) /\ q = SubSeq(p, 1, Len(q))
    <3>1. Len(q) <= Len(p) /\ SubSeq(q, 1, Len(q)) = SubSeq(p, 1, Len(q))
      BY <2>1 DEF IsPrefix
    <3>2. SubSeq(q, 1, Len(q)) = q /\ Len(q) \in Nat /\ Len(p) \in Nat
      BY <1>4, <2>1 DEF Path
    <3> QED BY <3>1, <3>2
  <2>3. q \in Prefixes(p)
    BY <2>2 DEF Prefixes
  <2>4. t[q].kind # "record"
    BY <1>1, <2>1, <2>3
  <2> QED BY <1>2, <1>3, <2>4
<1>6. Front(p) = root /\ SectionsTo(t, root)
  BY <1>1, <1>4, <1>5 DEF Rooted
<1> QED BY <1>1, <1>4, <1>6 DEF Section, Record

(* Where a register of a record has gone.                                  *)
LEMMA RegisterGoes ==
    ASSUME NEW t, NEW u, NEW a, NEW d, Merging(t, u, {}, a, d), Undisturbed(u, a, d),
           NEW root, Rooted(u, root), NEW p \in Registers(u)
    PROVE  /\ p \in d /\ IsNumbered(a[p], p) /\ a[p] \in DOMAIN t /\ a[p] \in Registers(t)
           /\ Subtree(t, a[p]) = Subtree(u, p)
<1>1. IsTree(u) /\ IsTree(t) /\ DOMAIN a = {<< >>} \cup DOMAIN u
  BY DEF Merging, Moving
<1>2. p \in DOMAIN u /\ u[p] # Section /\ SectionsTo(u, Front(p)) /\ u[p].kind = "record"
  BY <1>1, RegisterFacts DEF Registers
<1>3. p \in DOMAIN a \ {<< >>}
  BY <1>1, <1>2, TreeFacts
<1>4. p \in d
  BY <1>2, <1>3 DEF Undisturbed
<1>5. Front(p) \in DOMAIN a /\ Front(a[p]) = a[Front(p)] /\ a[p] \in DOMAIN t /\ t[a[p]] = u[p]
  BY <1>3, <1>4 DEF Merging, Settled
<1>6. SectionsTo(t, Front(a[p]))
  BY <1>2, <1>5, HomeIsSection
<1>7. \E e \in Seq(Digits) : a[p] = Numbered(p, e)
  BY <1>4, <1>6, ComesFrom
<1>8. IsNumbered(a[p], p)
  BY <1>1, <1>2, <1>7, TreeFacts, IsNumber
<1>9. Subtree(t, a[p]) = Subtree(u, p)
  BY <1>2, <1>4, SubtreeGoes
<1> DEFINE q == a[p]
<1>10. q \in Path /\ q # << >> /\ SectionsTo(t, Front(q)) /\ q \in DOMAIN t /\ t[q].kind = "record"
  BY <1>1, <1>2, <1>5, <1>6, TreeFacts
<1> HIDE DEF q
<1>11. ASSUME NEW o \in Prefixes(q) \ {<< >>, q} PROVE t[o].kind # "record"
  <2>1. PICK i \in 1 .. Len(q) : o = SubSeq(q, 1, i)
    BY <1>10, PrefixCut
  <2>2. i \in 1 .. Len(Front(q)) /\ SubSeq(Front(q), 1, i) = SubSeq(q, 1, i)
    BY <1>10, <2>1, SubFacts DEF Path
  <2>3. t[o] = Section
    BY <1>10, <2>1, <2>2 DEF SectionsTo
  <2> QED BY <2>3 DEF Section
<1>12. q \in Registers(t)
  BY <1>10, <1>11 DEF Registers
<1> QED BY <1>4, <1>5, <1>8, <1>9, <1>12 DEF q

LEMMA IntactWhenPlaced ==
    ASSUME TypeInv, Sited, Placed, NamesApart
    PROVE  RecordsIntact
<1> SUFFICES ASSUME pc # "merge" PROVE RecordsIntact
  BY DEF RecordsIntact
<1> DEFINE all == UNION {{<<k, p>> : p \in Registers(decoded[k])} : k \in DOMAIN decoded}
           Alike(x, y) == /\ x[2] = y[2]
                          /\ Subtree(decoded[x[1]], x[2]) = Subtree(decoded[y[1]], y[2])
           Holds(q, x) == Subtree(result, q) = Subtree(decoded[x[1]], x[2])
<1>1. PICK A, D : Kept(A, D)
  BY DEF Placed
<1>2. ASSUME NEW k \in DOMAIN decoded
      PROVE  /\ IsTree(decoded[k]) /\ Rooted(decoded[k], Root(crashlog[k]))
             /\ Merging(result, decoded[k], {}, A[k], D[k])
             /\ Undisturbed(decoded[k], A[k], D[k])
  <2>1. CurrentApart
    BY DEF CurrentApart
  <2> QED BY <1>1, <2>1 DEF Kept, Whole, Homed, TypeInv, TreesOK, Sited
<1>3. ASSUME NEW k \in DOMAIN decoded, NEW p \in Registers(decoded[k])
      PROVE  /\ AtHome(crashlog[k], Front(p))
             /\ p \in D[k] /\ IsNumbered(A[k][p], p) /\ A[k][p] \in DOMAIN result
             /\ Subtree(result, A[k][p]) = Subtree(decoded[k], p)
  <2>1. Front(p) = Root(crashlog[k])
    BY <1>2, RegisterFacts
  <2> QED BY <1>2, <2>1, RootIsHome, RegisterGoes
<1>4. ASSUME NEW x \in all
      PROVE  x[1] \in DOMAIN decoded /\ x[2] \in Registers(decoded[x[1]]) /\ x = <<x[1], x[2]>>
  OBVIOUS
<1> HIDE DEF all
<1>5. ASSUME NEW x \in all
      PROVE  Cardinality({y \in all : Alike(x, y)})
               <= Cardinality({q \in DOMAIN result : IsNumbered(q, x[2]) /\ Holds(q, x)})
  <2> DEFINE S == {y \in all : Alike(x, y)}
             T == {q \in DOMAIN result : IsNumbered(q, x[2]) /\ Holds(q, x)}
             g == [y \in S |-> A[y[1]][y[2]]]
  <2>1. ASSUME NEW y \in S PROVE A[y[1]][y[2]] \in T
    <3>1. y \in all /\ y[2] = x[2]
          /\ Subtree(decoded[x[1]], x[2]) = Subtree(decoded[y[1]], y[2])
      OBVIOUS
    <3>2. y[1] \in DOMAIN decoded /\ y[2] \in Registers(decoded[y[1]])
      BY <1>4, <3>1
    <3>3. /\ IsNumbered(A[y[1]][y[2]], y[2]) /\ A[y[1]][y[2]] \in DOMAIN result
          /\ Subtree(result, A[y[1]][y[2]]) = Subtree(decoded[y[1]], y[2])
      BY <1>3, <3>2
    <3> QED BY <3>1, <3>3
  <2>2. ASSUME NEW y \in S, NEW z \in S, A[y[1]][y[2]] = A[z[1]][z[2]] PROVE y = z
    <3>1. y \in all /\ z \in all
      OBVIOUS
    <3>2. /\ y[1] \in DOMAIN decoded /\ y[2] \in Registers(decoded[y[1]]) /\ y = <<y[1], y[2]>>
          /\ z[1] \in DOMAIN decoded /\ z[2] \in Registers(decoded[z[1]]) /\ z = <<z[1], z[2]>>
      BY <1>4, <3>1
    <3>3. y[2] \in D[y[1]] /\ z[2] \in D[z[1]]
      BY <1>3, <3>2
    <3>4. y[1] = z[1] /\ y[2] = z[2]
      BY <1>1, <2>2, <3>2, <3>3 DEF Kept, Separate
    <3> QED BY <3>2, <3>4
  <2>3. IsFiniteSet(T)
    <3>1. IsFiniteSet(DOMAIN result) /\ T \subseteq DOMAIN result
      BY DEF TypeInv, TreesOK, IsTree
    <3> HIDE DEF T
    <3> QED BY <3>1, FS_Subset
  <2> HIDE DEF S, T
  <2>4. g \in Injection(S, T)
    <3>1. g \in [S -> T]
      BY <2>1
    <3>2. \A y, z \in S : g[y] = g[z] => y = z
      BY <2>2
    <3>3. DOMAIN g = S
      OBVIOUS
    <3> HIDE DEF g
    <3> QED BY <3>1, <3>2, <3>3 DEF Injection, IsInjective
  <2> HIDE DEF g
  <2>5. Cardinality(S) <= Cardinality(T)
    BY <2>3, <2>4, FS_Injection
  <2> QED BY <2>5 DEF S, T
<1>6. ASSUME NEW x \in all PROVE AtHome(crashlog[x[1]], Front(x[2]))
  BY <1>3, <1>4
<1> QED BY <1>5, <1>6, Zenon DEF RecordsIntact, all

(* As long as no name clashes, each record's registers are in the tree of  *)
(* the crash log as they were decoded, those of no other record among      *)
(* them, below the die they belong to (CrashLog::decode, node.rs).         *)
THEOREM RegistersIntact == Spec => [](NamesApart => RecordsIntact)
<1>1. TypeInv /\ Sited /\ Placed => (NamesApart => RecordsIntact)
  BY IntactWhenPlaced
<1> QED BY <1>1, TreesSound, EachRecordIsPlaced, EachRecordIsAtHome, PTL

---------------------------------------------------------------------------
(* The parts of a path that remain. *)
Segment == Seq(Int)

LEMMA HeightsAre ==
    ASSUME NEW s \in Seq(Segment)
    PROVE  /\ Heights(s) \in [0 .. Len(s) -> Int]
           /\ Heights(s)[0] = 0
           /\ \A k \in 1 .. Len(s) :
                Heights(s)[k] = Heights(s)[k - 1] + IF s[k] = << >> THEN -1 ELSE 1
<1> DEFINE N == Len(s)
           Step == [k \in 1 .. N |-> [x \in Int |-> x + IF s[k] = << >> THEN -1 ELSE 1]]
           Up(f) == f = [k \in 0 .. Len(s) |->
                           IF k = 0 THEN 0 ELSE f[k - 1] + IF s[k] = << >> THEN -1 ELSE 1]
<1>1. N \in Nat /\ IsStep(N, Int, Step) /\ 0 \in Int
  BY DEF IsStep
<1>2. PICK f : Steps(N, Int, 0, Step, f)
  <2> HIDE DEF Step
  <2> QED BY <1>1, Recursion
<1>3. \A k \in 0 .. N : k = 0 \/ (k \in 1 .. N /\ k - 1 \in 0 .. N)
  BY <1>1
<1>4. \A k \in 1 .. N : f[k] = f[k - 1] + IF s[k] = << >> THEN -1 ELSE 1
  <2> SUFFICES ASSUME NEW k \in 1 .. N PROVE f[k] = f[k - 1] + IF s[k] = << >> THEN -1 ELSE 1
    OBVIOUS
  <2>1. f[k - 1] \in Int /\ f[k] = Step[k][f[k - 1]]
    <3> HIDE DEF Step, N
    <3> QED BY <1>2 DEF Steps
  <2>2. Step[k][f[k - 1]] = f[k - 1] + IF s[k] = << >> THEN -1 ELSE 1
    BY <2>1
  <2> QED BY <2>1, <2>2
<1>5. Up(f)
  <2>1. f = [k \in 0 .. N |-> f[k]]
    BY <1>2 DEF Steps
  <2>2. \A k \in 0 .. N : f[k] = IF k = 0 THEN 0 ELSE f[k - 1] + IF s[k] = << >> THEN -1 ELSE 1
    BY <1>2, <1>3, <1>4 DEF Steps
  <2> QED BY <2>1, <2>2
<1> DEFINE h == CHOOSE g : Up(g)
<1>6. Up(h)
  <2> HIDE DEF Up
  <2> QED BY <1>5
<1>7. Heights(s) = h
  BY DEF Heights
<1> HIDE DEF h
<1>8. /\ h[0] = 0 /\ DOMAIN h = 0 .. N /\ h = [k \in 0 .. N |-> h[k]]
      /\ \A k \in 1 .. N : h[k] = h[k - 1] + IF s[k] = << >> THEN -1 ELSE 1
  BY <1>1, <1>6
<1> DEFINE T == {k \in 0 .. N : h[k] \in Int}
<1>9. \A k \in 0 .. N : k \in T
  <2>1. 0 \in T
    BY <1>1, <1>8
  <2>2. ASSUME NEW k \in 1 .. N, k - 1 \in T PROVE k \in T
    <3>1. h[k - 1] \in Int /\ k \in 0 .. N
      BY <1>1, <2>2
    <3>2. h[k] = h[k - 1] + IF s[k] = << >> THEN -1 ELSE 1
      BY <1>8
    <3>3. h[k] \in Int
      BY <3>1, <3>2
    <3> QED BY <3>1, <3>3
  <2> HIDE DEF T, N
  <2> QED BY <1>1, <2>1, <2>2, Induction
<1>10. h \in [0 .. N -> Int]
  BY <1>8, <1>9
<1> QED BY <1>7, <1>8, <1>10

LEMMA AppendSegment ==
    ASSUME NEW s \in Seq(Segment), NEW x \in Segment
    PROVE  /\ Append(s, x) \in Seq(Segment)
           /\ Len(s) \in Nat /\ Len(Append(s, x)) = Len(s) + 1
           /\ \A k \in 1 .. Len(s) : Append(s, x)[k] = s[k]
           /\ Append(s, x)[Len(s) + 1] = x
           /\ DOMAIN s = 1 .. Len(s) /\ DOMAIN Append(s, x) = 1 .. Len(s) + 1
<1> HIDE DEF Segment
<1> QED OBVIOUS

LEMMA HeightsGoOn ==
    ASSUME NEW s \in Seq(Segment), NEW x \in Segment
    PROVE  /\ \A k \in 0 .. Len(s) : Heights(Append(s, x))[k] = Heights(s)[k]
           /\ Heights(Append(s, x))[Len(s) + 1] = Heights(s)[Len(s)] + IF x = << >> THEN -1 ELSE 1
<1> DEFINE t == Append(s, x)
           N == Len(s)
           T == {k \in 0 .. N : Heights(t)[k] = Heights(s)[k]}
<1>1. /\ t \in Seq(Segment) /\ N \in Nat /\ Len(t) = N + 1
      /\ t[N + 1] = x /\ \A k \in 1 .. N : t[k] = s[k]
  BY AppendSegment
<1> HIDE DEF t
<1>2. /\ Heights(t)[0] = 0
      /\ \A k \in 1 .. N + 1 : Heights(t)[k] = Heights(t)[k - 1] + IF t[k] = << >> THEN -1 ELSE 1
  BY <1>1, HeightsAre
<1>3. /\ Heights(s)[0] = 0
      /\ \A k \in 1 .. N : Heights(s)[k] = Heights(s)[k - 1] + IF s[k] = << >> THEN -1 ELSE 1
  BY HeightsAre
<1>4. \A k \in 0 .. N : k \in T
  <2>1. 0 \in T
    BY <1>1, <1>2, <1>3
  <2>2. ASSUME NEW k \in 1 .. N, k - 1 \in T PROVE k \in T
    <3>1. k \in 1 .. N + 1 /\ k \in 0 .. N /\ t[k] = s[k] /\ Heights(t)[k - 1] = Heights(s)[k - 1]
      BY <1>1, <2>2
    <3> QED BY <1>2, <1>3, <3>1
  <2> HIDE DEF T, N
  <2> QED BY <1>1, <2>1, <2>2, Induction
<1>5. N + 1 \in 1 .. N + 1 /\ N \in 0 .. N /\ (N + 1) - 1 = N
  BY <1>1
<1>6. Heights(t)[N + 1] = Heights(s)[N] + IF x = << >> THEN -1 ELSE 1
  BY <1>1, <1>2, <1>4, <1>5
<1> QED BY <1>4, <1>6 DEF t

(* A further segment that leads down stays, and so do those that did.      *)
LEMMA StayingDown ==
    ASSUME NEW s \in Seq(Segment), NEW x \in Segment, x # << >>
    PROVE  Staying(Append(s, x)) = Staying(s) \cup {Len(s) + 1}
<1> DEFINE t == Append(s, x)
           N == Len(s)
           h == Heights(s)
           g == Heights(t)
<1>1. /\ t \in Seq(Segment) /\ N \in Nat /\ Len(t) = N + 1 /\ DOMAIN t = 1 .. N + 1
      /\ t[N + 1] = x /\ (\A k \in 1 .. N : t[k] = s[k]) /\ DOMAIN s = 1 .. N
  BY AppendSegment
<1>2. h \in [0 .. N -> Int] /\ (\A k \in 0 .. N : g[k] = h[k]) /\ g[N + 1] = h[N] + 1
  BY HeightsGoOn, HeightsAre
<1> HIDE DEF t, h, g
<1>3. /\ Staying(s) = {k \in 1 .. N : s[k] # << >> /\ \A j \in k + 1 .. N : h[j] >= h[k]}
      /\ Staying(t) = {k \in 1 .. N + 1 : t[k] # << >> /\ \A j \in k + 1 .. N + 1 : g[j] >= g[k]}
  BY <1>1 DEF Staying, h, g
<1> HIDE DEF N
<1>4. N + 1 \in Staying(t)
  <2>1. \A j \in (N + 1) + 1 .. N + 1 : FALSE
    BY <1>1
  <2>2. N + 1 \in 1 .. N + 1
    BY <1>1
  <2> QED BY <1>1, <1>3, <2>1, <2>2
<1>5. ASSUME NEW k \in 1 .. N PROVE k \in Staying(t) <=> k \in Staying(s)
  <2>1. k \in 1 .. N + 1 /\ t[k] = s[k] /\ g[k] = h[k] /\ h[k] \in Int /\ h[N] \in Int /\ k \in 0 .. N
    BY <1>1, <1>2
  <2>2. \A j \in k + 1 .. N : j \in k + 1 .. N + 1 /\ g[j] = h[j]
    BY <1>1, <1>2, <2>1
  <2>3. \A j \in k + 1 .. N + 1 : j \in k + 1 .. N \/ j = N + 1
    BY <1>1
  <2>4. k \in Staying(s) => h[N] >= h[k]
    <3>1. CASE k = N
      BY <2>1, <3>1
    <3>2. CASE k # N
      <4>1. N \in k + 1 .. N
        BY <1>1, <3>2
      <4> QED BY <1>3, <4>1
    <3> QED BY <3>1, <3>2
  <2>5. k \in Staying(s) => g[N + 1] >= g[k]
    BY <1>2, <2>1, <2>4
  <2>6. k \in Staying(s) => k \in Staying(t)
    BY <1>3, <2>1, <2>2, <2>3, <2>5
  <2>7. k \in Staying(t) => k \in Staying(s)
    BY <1>3, <2>1, <2>2
  <2> QED BY <2>6, <2>7
<1>6. \A k : k \in 1 .. N + 1 <=> k \in 1 .. N \/ k = N + 1
  BY <1>1
<1>7. Staying(t) \subseteq 1 .. N + 1 /\ Staying(s) \subseteq 1 .. N
  BY <1>3
<1>8. \A k : k \in Staying(t) <=> k \in Staying(s) \/ k = N + 1
  BY <1>4, <1>5, <1>6, <1>7
<1>9. Staying(t) = Staying(s) \cup {N + 1}
  BY <1>8
<1> QED BY <1>9 DEF t, N

LEMMA GreatestOf ==
    ASSUME NEW N \in Nat, NEW T \in SUBSET (0 .. N), T # {}
    PROVE  \E k \in T : \A m \in T : m <= k
<1> DEFINE U == {N - k : k \in T}
<1>1. U \in SUBSET Nat /\ U # {}
  <2>1. \A k \in T : N - k \in Nat
    OBVIOUS
  <2> QED BY <2>1
<1>2. PICK u \in U : \A m \in U : u <= m
  <2> HIDE DEF U
  <2> QED BY <1>1, LeastOf
<1>3. PICK k \in T : u = N - k
  BY <1>2
<1>4. ASSUME NEW m \in T PROVE m <= k
  <2>1. N - m \in U /\ m \in Int /\ k \in Int
    OBVIOUS
  <2>2. u <= N - m
    BY <1>2, <2>1
  <2> QED BY <1>3, <2>1, <2>2
<1> QED BY <1>4

(* One that leads up ends the last of those that stay.                     *)
LEMMA StayingUp ==
    ASSUME NEW s \in Seq(Segment)
    PROVE  /\ Staying(Append(s, << >>)) \subseteq Staying(s) /\ Staying(s) \subseteq 1 .. Len(s)
           /\ \A m \in Staying(s) : (\A k \in Staying(s) : k <= m)
                => Staying(Append(s, << >>)) = Staying(s) \ {m}
<1> DEFINE t == Append(s, << >>)
           N == Len(s)
           h == Heights(s)
           g == Heights(t)
<1>0. << >> \in Segment
  BY DEF Segment
<1>1. /\ t \in Seq(Segment) /\ N \in Nat /\ Len(t) = N + 1 /\ DOMAIN t = 1 .. N + 1
      /\ t[N + 1] = << >> /\ (\A k \in 1 .. N : t[k] = s[k]) /\ DOMAIN s = 1 .. N
  BY <1>0, AppendSegment
<1>2. h \in [0 .. N -> Int] /\ (\A k \in 0 .. N : g[k] = h[k]) /\ g[N + 1] = h[N] - 1
  <2>1. g[N + 1] = h[N] + IF << >> = << >> THEN -1 ELSE 1
    BY <1>0, HeightsGoOn
  <2>2. h \in [0 .. N -> Int] /\ (\A k \in 0 .. N : g[k] = h[k])
    BY <1>0, HeightsGoOn, HeightsAre
  <2>3. h[N] \in Int
    BY <1>1, <2>2
  <2> HIDE DEF g, h
  <2> QED BY <2>1, <2>2, <2>3
<1>3. \A k \in 1 .. N : h[k] = h[k - 1] + IF s[k] = << >> THEN -1 ELSE 1
  BY HeightsAre
<1> HIDE DEF t, h, g
<1>4. /\ Staying(s) = {k \in 1 .. N : s[k] # << >> /\ \A j \in k + 1 .. N : h[j] >= h[k]}
      /\ Staying(t) = {k \in 1 .. N + 1 : t[k] # << >> /\ \A j \in k + 1 .. N + 1 : g[j] >= g[k]}
  BY <1>1 DEF Staying, h, g
<1> HIDE DEF N
<1>5. ASSUME NEW k \in 1 .. N PROVE k \in Staying(t) <=> k \in Staying(s) /\ h[N] > h[k]
  <2>1. k \in 1 .. N + 1 /\ t[k] = s[k] /\ g[k] = h[k] /\ h[k] \in Int /\ h[N] \in Int /\ k \in 0 .. N
    BY <1>1, <1>2
  <2>2. \A j \in k + 1 .. N : j \in k + 1 .. N + 1 /\ g[j] = h[j]
    BY <1>1, <1>2, <2>1
  <2>3. \A j \in k + 1 .. N + 1 : j \in k + 1 .. N \/ j = N + 1
    BY <1>1
  <2>4. N + 1 \in k + 1 .. N + 1
    BY <1>1
  <2>5. g[N + 1] >= g[k] <=> h[N] > h[k]
    BY <1>2, <2>1
  <2> QED BY <1>4, <2>1, <2>2, <2>3, <2>4, <2>5
<1>6. Staying(s) \subseteq 1 .. N /\ Staying(t) \subseteq 1 .. N
  <2>1. \A k \in 1 .. N + 1 : k \in 1 .. N \/ k = N + 1
    BY <1>1
  <2> QED BY <1>1, <1>4, <2>1
<1>7. ASSUME NEW m \in Staying(s), \A k \in Staying(s) : k <= m
      PROVE  Staying(t) = Staying(s) \ {m}
  <2>1. m \in 1 .. N /\ h[m] \in Int /\ h[N] \in Int /\ m - 1 \in 0 .. N
    BY <1>1, <1>2, <1>6
  <2>2. ASSUME NEW k \in Staying(s), k # m PROVE h[N] > h[k]
    <3>1. k \in 1 .. N /\ k < m /\ h[k] \in Int /\ h[m - 1] \in Int
      <4>1. k \in 1 .. N /\ k <= m
        BY <1>6, <1>7
      <4> QED BY <1>2, <2>1, <2>2, <4>1
    <3>2. h[m - 1] >= h[k]
      <4>1. m - 1 = k \/ m - 1 \in k + 1 .. N
        BY <1>1, <2>1, <3>1
      <4> QED BY <1>4, <3>1, <4>1
    <3>3. h[m] = h[m - 1] + 1
      <4>1. s[m] # << >>
        BY <1>4
      <4>2. h[m] = h[m - 1] + IF s[m] = << >> THEN -1 ELSE 1
        BY <1>3, <2>1
      <4> QED BY <4>1, <4>2
    <3>4. h[N] >= h[m]
      <4>1. N = m \/ N \in m + 1 .. N
        BY <1>1, <2>1
      <4> QED BY <1>4, <2>1, <4>1
    <3> QED BY <2>1, <3>1, <3>2, <3>3, <3>4
  <2>3. ASSUME h[N] > h[m] PROVE FALSE
    <3> DEFINE Low == {j \in m .. N : h[j] <= h[m]}
    <3>1. Low \in SUBSET (0 .. N) /\ Low # {}
      <4>1. m \in Low
        BY <2>1
      <4>2. \A j \in m .. N : j \in 0 .. N
        BY <1>1, <2>1
      <4> QED BY <4>1, <4>2
    <3>2. PICK k \in Low : \A j \in Low : j <= k
      <4> HIDE DEF Low
      <4> QED BY <1>1, <3>1, GreatestOf
    <3>3. k \in m .. N /\ k # N /\ k \in Int /\ N \in Int /\ m \in Int /\ h[k] <= h[m]
      BY <1>1, <2>1, <2>3, <3>2
    <3>4. k + 1 \in 1 .. N /\ k \in 0 .. N /\ k + 1 > m /\ (k + 1) - 1 = k
      BY <1>1, <2>1, <3>3
    <3>5. ASSUME NEW j \in k + 1 .. N PROVE h[j] > h[m] /\ h[j] \in Int
      <4>1. j \in m .. N /\ ~(j <= k) /\ j \in 0 .. N
        BY <2>1, <3>3
      <4>2. j \notin Low
        BY <3>2, <4>1
      <4>3. h[j] \in Int
        BY <1>2, <4>1
      <4> QED BY <2>1, <4>1, <4>2, <4>3
    <3>6. h[k + 1] > h[m] /\ h[k + 1] \in Int /\ h[k] \in Int
      BY <1>2, <3>4, <3>5
    <3>7. h[k + 1] = h[k] + IF s[k + 1] = << >> THEN -1 ELSE 1
      BY <1>3, <3>4
    <3>8. s[k + 1] # << >> /\ h[k + 1] = h[k] + 1
      <4>1. s[k + 1] # << >>
        <5> SUFFICES ASSUME s[k + 1] = << >> PROVE FALSE
          OBVIOUS
        <5>1. h[k + 1] = h[k] - 1
          BY <3>6, <3>7
        <5> QED BY <2>1, <3>3, <3>6, <5>1
      <4> QED BY <3>7, <4>1
    <3>9. \A j \in (k + 1) + 1 .. N : h[j] >= h[k + 1]
      <4> SUFFICES ASSUME NEW j \in (k + 1) + 1 .. N PROVE h[j] >= h[k + 1]
        OBVIOUS
      <4>1. j \in k + 1 .. N
        BY <3>3
      <4>2. h[j] > h[m] /\ h[j] \in Int
        BY <3>5, <4>1
      <4> QED BY <2>1, <3>3, <3>6, <3>8, <4>2
    <3>10. k + 1 \in Staying(s)
      BY <1>4, <3>4, <3>8, <3>9
    <3>11. k + 1 <= m
      BY <1>7, <3>10
    <3> QED BY <3>3, <3>4, <3>11
  <2>4. \A k : k \in Staying(t) <=> k \in Staying(s) /\ k # m
    BY <1>5, <1>6, <2>2, <2>3
  <2> QED BY <2>4
<1>8. Staying(t) \subseteq Staying(s)
  BY <1>5, <1>6
<1> QED BY <1>6, <1>7, <1>8 DEF t, N

Remains(s, r) ==
    /\ Remaining(s) = r[Len(s)] /\ r[0] = << >>
    /\ \A k \in 0 .. Len(s) : r[k] \in Seq(Segment)
    /\ \A k \in 1 .. Len(s) : r[k] = IF k \in Staying(s) THEN Append(r[k - 1], s[k]) ELSE r[k - 1]

LEMMA RemainingAre ==
    ASSUME NEW s \in Seq(Segment)
    PROVE  \E r : Remains(s, r)
<1> DEFINE N == Len(s)
           S == Seq(Segment)
           Step == [k \in 1 .. N |-> [x \in S |-> IF k \in Staying(s) THEN Append(x, s[k]) ELSE x]]
           Up(f) == f = [k \in 0 .. Len(s) |->
                           IF k = 0 THEN << >>
                           ELSE IF k \in Staying(s) THEN Append(f[k - 1], s[k])
                           ELSE f[k - 1]]
<1>1. N \in Nat /\ IsStep(N, S, Step) /\ << >> \in S
  <2>1. \A k \in 1 .. N : s[k] \in Segment
    OBVIOUS
  <2> HIDE DEF Segment
  <2>2. \A k \in 1 .. N, x \in S : Append(x, s[k]) \in S
    BY <2>1
  <2> QED BY <2>2 DEF IsStep
<1>2. PICK f : Steps(N, S, << >>, Step, f)
  <2> HIDE DEF Step, S, N
  <2> QED BY <1>1, Recursion
<1>3. \A k \in 0 .. N : k = 0 \/ (k \in 1 .. N /\ k - 1 \in 0 .. N)
  BY <1>1
<1>4. \A k \in 1 .. N : f[k] = IF k \in Staying(s) THEN Append(f[k - 1], s[k]) ELSE f[k - 1]
  <2> SUFFICES ASSUME NEW k \in 1 .. N
               PROVE  f[k] = IF k \in Staying(s) THEN Append(f[k - 1], s[k]) ELSE f[k - 1]
    OBVIOUS
  <2>1. f[k - 1] \in S /\ f[k] = Step[k][f[k - 1]]
    <3> HIDE DEF Step, N, S
    <3> QED BY <1>2 DEF Steps
  <2>2. Step[k][f[k - 1]] = IF k \in Staying(s) THEN Append(f[k - 1], s[k]) ELSE f[k - 1]
    <3> HIDE DEF S
    <3> QED BY <2>1
  <2> QED BY <2>1, <2>2
<1>5. Up(f)
  <2>1. f = [k \in 0 .. N |-> f[k]] /\ f[0] = << >>
    <3> HIDE DEF S
    <3> QED BY <1>2 DEF Steps
  <2>2. \A k \in 0 .. N : f[k] = IF k = 0 THEN << >>
                                 ELSE IF k \in Staying(s) THEN Append(f[k - 1], s[k]) ELSE f[k - 1]
    BY <1>3, <1>4, <2>1
  <2> QED BY <2>1, <2>2
<1> DEFINE r == CHOOSE g : Up(g)
<1>6. Up(r)
  <2> HIDE DEF Up
  <2> QED BY <1>5
<1>7. Remaining(s) = r[N]
  BY DEF Remaining
<1> HIDE DEF r
<1>8. /\ r[0] = << >>
      /\ \A k \in 1 .. N : r[k] = IF k \in Staying(s) THEN Append(r[k - 1], s[k]) ELSE r[k - 1]
  <2>1. \A k \in 0 .. N : r[k] = IF k = 0 THEN << >>
                                 ELSE IF k \in Staying(s) THEN Append(r[k - 1], s[k]) ELSE r[k - 1]
    BY <1>6
  <2>2. \A k \in 1 .. N : k # 0 /\ k \in 0 .. N
    OBVIOUS
  <2>3. 0 \in 0 .. N
    BY <1>1
  <2> QED BY <2>1, <2>2, <2>3
<1> DEFINE T == {k \in 0 .. N : r[k] \in S}
<1>9. \A k \in 0 .. N : k \in T
  <2>1. 0 \in T
    <3>1. 0 \in 0 .. N
      BY <1>1
    <3> HIDE DEF S
    <3> QED BY <1>1, <1>8, <3>1
  <2>2. ASSUME NEW k \in 1 .. N, k - 1 \in T PROVE k \in T
    <3>1. r[k - 1] \in S /\ k \in 0 .. N /\ s[k] \in Segment
      BY <1>1, <2>2
    <3>2. Append(r[k - 1], s[k]) \in S
      <4> HIDE DEF Segment
      <4> QED BY <3>1
    <3> HIDE DEF S
    <3>3. r[k] \in S
      BY <1>8, <3>1, <3>2
    <3> QED BY <3>1, <3>3
  <2> HIDE DEF T, N
  <2> QED BY <1>1, <2>1, <2>2, Induction
<1> QED BY <1>7, <1>8, <1>9 DEF Remains

(* The path of the segments so far and a further one.                      *)
LEMMA RemainingMoves ==
    ASSUME NEW s \in Seq(Segment), NEW x \in Segment
    PROVE  Remaining(Append(s, x)) = Move(Remaining(s), x)
<1> DEFINE t == Append(s, x)
           N == Len(s)
<1>1. /\ t \in Seq(Segment) /\ N \in Nat /\ Len(t) = N + 1
      /\ t[N + 1] = x /\ (\A k \in 1 .. N : t[k] = s[k])
  BY AppendSegment
<1>2. PICK r : Remains(s, r)
  BY RemainingAre
<1>3. PICK q : Remains(t, q)
  BY <1>1, RemainingAre
<1>4. /\ Remaining(s) = r[N] /\ r[0] = << >> /\ \A k \in 0 .. N : r[k] \in Seq(Segment)
      /\ \A k \in 1 .. N : r[k] = IF k \in Staying(s) THEN Append(r[k - 1], s[k]) ELSE r[k - 1]
  BY <1>2 DEF Remains
<1>5. /\ Remaining(t) = q[N + 1] /\ q[0] = << >>
      /\ \A k \in 1 .. N + 1 : q[k] = IF k \in Staying(t) THEN Append(q[k - 1], t[k]) ELSE q[k - 1]
  BY <1>1, <1>3 DEF Remains
<1>6. N + 1 \in 1 .. N + 1 /\ (N + 1) - 1 = N /\ N \in 0 .. N /\ 0 \in 0 .. N
  BY <1>1
<1>7. Staying(s) \subseteq 1 .. N
  BY StayingUp
<1>8. CASE x # << >>
  <2>1. Staying(t) = Staying(s) \cup {N + 1}
    BY <1>8, StayingDown
  <2> HIDE DEF t, N
  <2> DEFINE T == {k \in 0 .. N : q[k] = r[k]}
  <2>2. \A k \in 0 .. N : k \in T
    <3>1. 0 \in T
      BY <1>4, <1>5, <1>6
    <3>2. ASSUME NEW k \in 1 .. N, k - 1 \in T PROVE k \in T
      <4>1. k \in 1 .. N + 1 /\ k \in 0 .. N /\ k # N + 1
        BY <1>1
      <4>2. q[k - 1] = r[k - 1] /\ t[k] = s[k] /\ (k \in Staying(t) <=> k \in Staying(s))
        BY <1>1, <2>1, <3>2, <4>1
      <4> QED BY <1>4, <1>5, <4>1, <4>2
    <3> HIDE DEF T
    <3> QED BY <1>1, <3>1, <3>2, Induction
  <2>3. N + 1 \in Staying(t) /\ q[N] = r[N]
    BY <1>6, <2>1, <2>2
  <2>4. q[N + 1] = Append(q[N], x)
    BY <1>1, <1>5, <1>6, <2>3
  <2>5. Remaining(t) = Append(Remaining(s), x)
    BY <1>4, <1>5, <2>3, <2>4
  <2> QED BY <1>8, <2>5 DEF Move, t
<1>9. CASE x = << >> /\ Staying(s) = {}
  <2>1. Staying(t) = {}
    BY <1>9, StayingUp
  <2> HIDE DEF t, N
  <2> DEFINE T == {k \in 0 .. N + 1 : q[k] = << >>}
             U == {k \in 0 .. N : r[k] = << >>}
  <2>2. \A k \in 0 .. N + 1 : k \in T
    <3>1. 0 \in T /\ N + 1 \in Nat
      BY <1>1, <1>5
    <3>2. \A k \in 1 .. N + 1 : k - 1 \in T => k \in T
      BY <1>1, <1>5, <2>1
    <3> HIDE DEF T
    <3> QED BY <3>1, <3>2, Induction
  <2>3. \A k \in 0 .. N : k \in U
    <3>1. 0 \in U
      BY <1>4, <1>6
    <3>2. \A k \in 1 .. N : k - 1 \in U => k \in U
      BY <1>1, <1>4, <1>9
    <3> HIDE DEF U
    <3> QED BY <1>1, <3>1, <3>2, Induction
  <2>4. N + 1 \in 0 .. N + 1
    BY <1>1
  <2>5. Remaining(t) = << >> /\ Remaining(s) = << >>
    BY <1>4, <1>5, <1>6, <2>2, <2>3, <2>4
  <2> QED BY <1>9, <2>5 DEF Move, t
<1>10. CASE x = << >> /\ Staying(s) # {}
  <2>1. PICK m \in Staying(s) : \A k \in Staying(s) : k <= m
    <3>1. Staying(s) \in SUBSET (0 .. N)
      <4>1. \A k \in 1 .. N : k \in 0 .. N
        OBVIOUS
      <4> QED BY <1>7, <4>1
    <3> HIDE DEF N
    <3> QED BY <1>1, <1>10, <3>1, GreatestOf
  <2>2. Staying(t) = Staying(s) \ {m}
    BY <1>10, <2>1, StayingUp
  <2>3. m \in 1 .. N /\ m \in Nat
    BY <1>7
  <2> HIDE DEF t, N
  <2> DEFINE T == {k \in 0 .. N : /\ k < m => q[k] = r[k]
                                  /\ k >= m => r[k] = r[m] /\ q[k] = r[m - 1]}
  <2>4. \A k \in 0 .. N : k \in T
    <3>1. 0 \in T
      BY <1>4, <1>5, <1>6, <2>3
    <3>2. ASSUME NEW k \in 1 .. N, k - 1 \in T PROVE k \in T
      <4>1. k \in 1 .. N + 1 /\ k \in 0 .. N /\ k # N + 1 /\ t[k] = s[k]
        BY <1>1
      <4>2. q[k] = IF k \in Staying(t) THEN Append(q[k - 1], s[k]) ELSE q[k - 1]
        BY <1>5, <4>1
      <4>3. r[k] = IF k \in Staying(s) THEN Append(r[k - 1], s[k]) ELSE r[k - 1]
        BY <1>4, <4>1
      <4>4. CASE k < m
        <5>1. k - 1 < m /\ k # m /\ ~(k >= m)
          BY <2>3, <4>4
        <5>2. q[k - 1] = r[k - 1] /\ (k \in Staying(t) <=> k \in Staying(s))
          BY <2>2, <3>2, <5>1
        <5> QED BY <4>1, <4>2, <4>3, <5>1, <5>2
      <4>5. CASE k = m
        <5>1. k - 1 < m /\ ~(k < m)
          BY <2>3, <4>5
        <5>2. q[k - 1] = r[k - 1] /\ k \notin Staying(t)
          BY <2>2, <3>2, <4>5, <5>1
        <5> QED BY <4>1, <4>2, <4>5, <5>1, <5>2
      <4>6. CASE k > m
        <5>1. k - 1 >= m /\ ~(k <= m)
          BY <2>3, <4>6
        <5>2. r[k - 1] = r[m] /\ q[k - 1] = r[m - 1] /\ k \notin Staying(s) /\ k \notin Staying(t)
          BY <2>1, <2>2, <3>2, <5>1
        <5>3. ~(k < m)
          BY <2>3, <4>6
        <5> QED BY <4>1, <4>2, <4>3, <5>2, <5>3
      <4> QED BY <2>3, <4>4, <4>5, <4>6
    <3> HIDE DEF T
    <3> QED BY <1>1, <3>1, <3>2, Induction
  <2>5. N >= m /\ m - 1 \in 0 .. N
    BY <1>1, <2>3
  <2>6. r[N] = r[m] /\ q[N] = r[m - 1]
    BY <1>6, <2>4, <2>5
  <2>7. r[m] = Append(r[m - 1], s[m]) /\ r[m - 1] \in Seq(Segment) /\ s[m] \in Segment
    <3>1. s[m] \in Segment
      <4> HIDE DEF Segment
      <4> QED BY <2>3 DEF N
    <3> QED BY <1>4, <2>1, <2>3, <2>5, <3>1
  <2>8. r[m] # << >> /\ Front(r[m]) = r[m - 1]
    <3> DEFINE a == r[m - 1]
               b == s[m]
    <3>1. a \in Seq(Segment) /\ b \in Segment
      BY <2>7
    <3> HIDE DEF a, b, Segment
    <3>2. Append(a, b) # << >> /\ Front(Append(a, b)) = a
      BY <3>1, AppendPath
    <3> QED BY <2>7, <3>2 DEF a, b
  <2>9. q[N + 1] = q[N]
    <3>1. N + 1 \notin Staying(t)
      BY <1>1, <1>7, <2>2
    <3> QED BY <1>5, <1>6, <3>1
  <2>10. Remaining(t) = Front(Remaining(s)) /\ Remaining(s) # << >>
    BY <1>4, <1>5, <2>6, <2>8, <2>9
  <2> QED BY <1>10, <2>10 DEF Move, t
<1> QED BY <1>8, <1>9, <1>10

---------------------------------------------------------------------------
(* The segments of the lines of a layout. *)

LEMMA SegmentsAre ==
    ASSUME NEW lines \in Seq(LayoutLine)
    PROVE  /\ Segments(lines)[0] = << >>
           /\ \A i \in 0 .. Len(lines) : Segments(lines)[i] \in Seq(Segment)
           /\ \A i \in 1 .. Len(lines) :
                Segments(lines)[i] =
                  IF lines[i].name = << >> THEN Segments(lines)[i - 1]
                  ELSE IF lines[i].name[1] # << >> THEN lines[i].name
                  ELSE Segments(lines)[i - 1] \o Tail(lines[i].name)
<1> DEFINE N == Len(lines)
           S == Seq(Segment)
           Go(i, x) == IF lines[i].name = << >> THEN x
                       ELSE IF lines[i].name[1] # << >> THEN lines[i].name
                       ELSE x \o Tail(lines[i].name)
           Step == [i \in 1 .. N |-> [x \in S |-> Go(i, x)]]
           Up(f) == f = [i \in 0 .. Len(lines) |-> IF i = 0 THEN << >> ELSE Go(i, f[i - 1])]
<1>1. N \in Nat /\ << >> \in S /\ \A i \in 1 .. N : lines[i].name \in S
  <2>1. \A i \in 1 .. N : lines[i] \in LayoutLine
    OBVIOUS
  <2> QED BY <2>1 DEF LayoutLine, Segment
<1>2. ASSUME NEW i \in 1 .. N, NEW x \in S PROVE Go(i, x) \in S
  <2> DEFINE name == lines[i].name
  <2>1. name \in S
    BY <1>1
  <2> HIDE DEF name, Segment
  <2>2. name # << >> => Tail(name) \in S
    BY <2>1
  <2>3. name # << >> => x \o Tail(name) \in S
    BY <2>2, ConcatFacts
  <2> QED BY <2>1, <2>3 DEF name
<1> HIDE DEF Go
<1>3. IsStep(N, S, Step)
  BY <1>2 DEF IsStep
<1>4. PICK f : Steps(N, S, << >>, Step, f)
  <2> HIDE DEF Step, S, N
  <2> QED BY <1>1, <1>3, Recursion
<1>5. \A k \in 0 .. N : k = 0 \/ (k \in 1 .. N /\ k - 1 \in 0 .. N)
  BY <1>1
<1>6. \A k \in 1 .. N : f[k] = Go(k, f[k - 1])
  <2> SUFFICES ASSUME NEW k \in 1 .. N PROVE f[k] = Go(k, f[k - 1])
    OBVIOUS
  <2>1. f[k - 1] \in S /\ f[k] = Step[k][f[k - 1]]
    <3> HIDE DEF Step, N, S
    <3> QED BY <1>4 DEF Steps
  <2> HIDE DEF S
  <2> QED BY <2>1
<1>7. Up(f)
  <2>1. f = [k \in 0 .. N |-> f[k]] /\ f[0] = << >>
    <3> HIDE DEF S
    <3> QED BY <1>4 DEF Steps
  <2>2. \A k \in 0 .. N : f[k] = IF k = 0 THEN << >> ELSE Go(k, f[k - 1])
    BY <1>5, <1>6, <2>1
  <2> QED BY <2>1, <2>2
<1> DEFINE r == CHOOSE g : Up(g)
<1>8. Up(r)
  <2> HIDE DEF Up
  <2> QED BY <1>7
<1>9. Segments(lines) = r
  BY DEF Segments, Go
<1> HIDE DEF r
<1>10. r[0] = << >> /\ \A k \in 1 .. N : r[k] = Go(k, r[k - 1])
  <2>1. \A k \in 0 .. N : r[k] = IF k = 0 THEN << >> ELSE Go(k, r[k - 1])
    BY <1>8
  <2>2. \A k \in 1 .. N : k # 0 /\ k \in 0 .. N
    OBVIOUS
  <2>3. 0 \in 0 .. N
    BY <1>1
  <2> QED BY <2>1, <2>2, <2>3
<1> DEFINE T == {k \in 0 .. N : r[k] \in S}
<1>11. \A k \in 0 .. N : k \in T
  <2>1. 0 \in T
    <3>1. 0 \in 0 .. N
      BY <1>1
    <3> HIDE DEF S
    <3> QED BY <1>1, <1>10, <3>1
  <2>2. ASSUME NEW k \in 1 .. N, k - 1 \in T PROVE k \in T
    <3>1. r[k - 1] \in S /\ k \in 0 .. N
      BY <1>1, <2>2
    <3> HIDE DEF S
    <3>2. r[k] \in S
      BY <1>2, <1>10, <3>1
    <3> QED BY <3>1, <3>2
  <2> HIDE DEF T, N
  <2> QED BY <1>1, <2>1, <2>2, Induction
<1> QED BY <1>9, <1>10, <1>11 DEF Go

LEMMA SubGrows ==
    ASSUME NEW name \in Seq(Segment), NEW k \in 1 .. Len(name), NEW i \in 1 .. k
    PROVE  /\ SubSeq(name, i, k) = Append(SubSeq(name, i, k - 1), name[k])
           /\ SubSeq(name, i, k - 1) \in Seq(Segment) /\ name[k] \in Segment
           /\ SubSeq(name, i, k) \in Seq(Segment)
<1> HIDE DEF Segment
<1>1. /\ Len(name) \in Nat /\ k \in Nat /\ i \in Nat /\ 1 <= i /\ i <= k /\ k <= Len(name)
      /\ \A j \in 1 .. Len(name) : name[j] \in Segment
  OBVIOUS
<1> DEFINE a == SubSeq(name, i, k - 1)
           b == SubSeq(name, i, k)
<1>2. a \in Seq(Segment) /\ Len(a) = k - i /\ \A j \in 1 .. k - i : a[j] = name[i + j - 1]
  BY <1>1
<1>3. b \in Seq(Segment) /\ Len(b) = k - i + 1 /\ \A j \in 1 .. k - i + 1 : b[j] = name[i + j - 1]
  BY <1>1
<1> HIDE DEF a, b
<1> DEFINE c == Append(a, name[k])
<1>4. /\ c \in Seq(Segment) /\ Len(c) = k - i + 1 /\ c[k - i + 1] = name[k]
      /\ \A j \in 1 .. k - i : c[j] = a[j]
  BY <1>1, <1>2, AppendPath
<1> HIDE DEF c
<1>5. \A j \in 1 .. k - i + 1 : j \in 1 .. k - i \/ j = k - i + 1
  BY <1>1
<1>6. i + (k - i + 1) - 1 = k
  BY <1>1
<1>7. \A j \in 1 .. Len(b) : b[j] = c[j]
  BY <1>1, <1>2, <1>3, <1>4, <1>5, <1>6
<1>8. b = c
  BY <1>3, <1>4, <1>7, SameSequence
<1> QED BY <1>1, <1>2, <1>3, <1>8 DEF a, b, c

LEMMA ConcatGrows ==
    ASSUME NEW s \in Seq(Segment), NEW a \in Seq(Segment), NEW x \in Segment
    PROVE  s \o Append(a, x) = Append(s \o a, x)
<1> HIDE DEF Segment
<1> QED OBVIOUS

(* A line is where the segments up to its own lead.                        *)
LEMMA Follows ==
    ASSUME NEW s \in Seq(Segment), NEW name \in Seq(Segment), name # << >>
    PROVE  PathOf(name, Remaining(s))
             = Remaining(IF name[1] # << >> THEN name ELSE s \o Tail(name))
<1> DEFINE N == Len(name)
           Lead(k) == IF name[1] # << >> THEN SubSeq(name, 1, k) ELSE s \o SubSeq(name, 2, k)
<1>1. N \in Nat \ {0} /\ 1 \in 1 .. N /\ name[1] \in Segment
  BY DEF Segment
<1>2. PICK go : Moves(name, Remaining(s), go)
  <2>1. Remaining(s) \in Seq(Seq(Int)) /\ name \in Seq(Seq(Int))
    <3>1. PICK r : Remains(s, r)
      BY RemainingAre
    <3>2. Len(s) \in 0 .. Len(s)
      OBVIOUS
    <3> QED BY <3>1, <3>2 DEF Remains, Segment
  <2> QED BY <2>1, PathOfGoes
<1>3. /\ PathOf(name, Remaining(s)) = go[N]
      /\ \A i \in 1 .. N : go[i] = IF i > 1 THEN Move(go[i - 1], name[i])
                                   ELSE IF name[1] # << >> THEN <<name[1]>> ELSE Remaining(s)
  BY <1>2 DEF Moves
<1>4. ASSUME NEW k \in 2 .. N
      PROVE  /\ Lead(k) = Append(Lead(k - 1), name[k])
             /\ Lead(k - 1) \in Seq(Segment) /\ name[k] \in Segment
  <2>1. k \in 1 .. N /\ 1 \in 1 .. k /\ 2 \in 1 .. k
    BY <1>1
  <2>2. CASE name[1] # << >>
    BY <2>1, <2>2, SubGrows
  <2>3. CASE name[1] = << >>
    <3> DEFINE a == SubSeq(name, 2, k - 1)
    <3>1. SubSeq(name, 2, k) = Append(a, name[k]) /\ a \in Seq(Segment) /\ name[k] \in Segment
      BY <2>1, SubGrows
    <3>2. Lead(k) = s \o SubSeq(name, 2, k) /\ Lead(k - 1) = s \o a
      BY <2>3
    <3> HIDE DEF a, Lead, Segment
    <3>3. s \o a \in Seq(Segment)
      BY <3>1, ConcatFacts
    <3>4. s \o Append(a, name[k]) = Append(s \o a, name[k])
      BY <3>1, ConcatGrows
    <3> QED BY <3>1, <3>2, <3>3, <3>4
  <2> QED BY <2>2, <2>3
<1>5. go[1] = Remaining(Lead(1))
  <2>1. go[1] = IF name[1] # << >> THEN <<name[1]>> ELSE Remaining(s)
    BY <1>1, <1>3
  <2>2. CASE name[1] # << >>
    <3>1. Lead(1) = Append(<< >>, name[1]) /\ << >> \in Seq(Segment)
      <4>1. SubSeq(name, 1, 1) = Append(SubSeq(name, 1, 1 - 1), name[1])
        BY <1>1, SubGrows
      <4>2. SubSeq(name, 1, 1 - 1) = << >>
        OBVIOUS
      <4>3. << >> \in Seq(Segment)
        OBVIOUS
      <4>4. Lead(1) = SubSeq(name, 1, 1)
        BY <2>2
      <4> QED BY <4>1, <4>2, <4>3, <4>4
    <3> HIDE DEF Lead
    <3>2. Remaining(Lead(1)) = Move(Remaining(<< >>), name[1])
      BY <1>1, <3>1, RemainingMoves
    <3>3. Remaining(<< >>) = << >>
      <4>1. PICK r : Remains(<< >>, r)
        BY <3>1, RemainingAre
      <4> QED BY <4>1 DEF Remains
    <3>4. Move(<< >>, name[1]) = <<name[1]>>
      BY <2>2 DEF Move
    <3> QED BY <2>1, <2>2, <3>2, <3>3, <3>4
  <2>3. CASE name[1] = << >>
    <3>1. SubSeq(name, 2, 1) = << >>
      OBVIOUS
    <3>2. s \o << >> = s
      BY ConcatFacts
    <3> QED BY <2>1, <2>3, <3>1, <3>2
  <2> QED BY <2>2, <2>3
<1>6. Lead(N) = IF name[1] # << >> THEN name ELSE s \o Tail(name)
  <2>1. SubSeq(name, 1, N) = name /\ Tail(name) = SubSeq(name, 2, N)
    <3> HIDE DEF Segment
    <3> QED BY <1>1
  <2> QED BY <2>1
<1> HIDE DEF Lead
<1> DEFINE T == {k \in 0 .. N : k # 0 => go[k] = Remaining(Lead(k))}
<1>7. \A k \in 0 .. N : k \in T
  <2>1. 0 \in T
    BY <1>1
  <2>2. ASSUME NEW k \in 1 .. N, k - 1 \in T PROVE k \in T
    <3>1. CASE k = 1
      BY <1>1, <1>5, <3>1
    <3>2. CASE k # 1
      <4>1. k \in 2 .. N /\ k > 1 /\ k - 1 # 0 /\ k \in 0 .. N
        BY <1>1, <3>2
      <4>2. go[k] = Move(Remaining(Lead(k - 1)), name[k])
        BY <1>3, <2>2, <4>1
      <4>3. Remaining(Lead(k)) = Move(Remaining(Lead(k - 1)), name[k])
        BY <1>4, <4>1, RemainingMoves
      <4> QED BY <4>1, <4>2, <4>3
    <3> QED BY <3>1, <3>2
  <2>3. N \in Nat
    BY <1>1
  <2> HIDE DEF T, N
  <2> QED BY <2>1, <2>2, <2>3, Induction
<1>8. go[N] = Remaining(Lead(N))
  BY <1>1, <1>7
<1> QED BY <1>3, <1>6, <1>8

---------------------------------------------------------------------------
(* What the lines of a layout give of the bytes data, o bytes from their   *)
(* start, to the tree t.                                                   *)
BitsIn(data, start, size) == {b \in 0 .. size - 1 : (start + b) % 8 \in data[(start + b) \div 8 + 1]}

Readable1(data, lines, o, i) ==
    /\ lines[i].name # << >>
    /\ lines[i].size <= 64
    /\ lines[i].size > 0 => o * 8 + lines[i].offset + lines[i].size <= 8 * Len(data)

Giving(data, lines, o, k, p) == {i \in 1 .. k : Readable1(data, lines, o, i) /\ PlaceOf(lines, i) = p}

Fields(data, lines, o, k, t) ==
    /\ \A i \in 1 .. k : Readable1(data, lines, o, i) /\ PlaceOf(lines, i) # << >>
                           => PlaceOf(lines, i) \in DOMAIN t
    /\ \A p \in DOMAIN t :
         \/ Giving(data, lines, o, k, p) = {} /\ t[p].kind # "field"
         \/ \E i \in Giving(data, lines, o, k, p) :
              /\ \A j \in Giving(data, lines, o, k, p) : j <= i
              /\ t[p] = Field(BitsIn(data, o * 8 + lines[i].offset, lines[i].size))

LEMMA FieldsNone ==
    ASSUME NEW data, NEW lines, NEW o
    PROVE  Fields(data, lines, o, 0, NoTree)
<1>1. 1 .. 0 = {} /\ DOMAIN NoTree = {}
  BY NoTreeIsTree
<1> QED BY <1>1, Zenon DEF Fields

LEMMA FieldsSkip ==
    ASSUME NEW data, NEW lines, NEW o, NEW k \in Nat \ {0}, NEW t,
           Fields(data, lines, o, k - 1, t), ~Readable1(data, lines, o, k)
    PROVE  Fields(data, lines, o, k, t)
<1>1. \A i : i \in 1 .. k <=> i \in 1 .. k - 1 \/ i = k
  OBVIOUS
<1>2. \A p : Giving(data, lines, o, k, p) = Giving(data, lines, o, k - 1, p)
  BY <1>1 DEF Giving
<1> HIDE DEF Giving
<1> QED BY <1>1, <1>2 DEF Fields

LEMMA FieldsTake ==
    ASSUME NEW data, NEW lines, NEW o, NEW k, NEW t, NEW u,
           Fields(data, lines, o, k, t), DOMAIN t \subseteq DOMAIN u, << >> \notin DOMAIN u,
           \A p \in DOMAIN t : u[p] = t[p],
           \A p \in DOMAIN u \ DOMAIN t : u[p].kind # "field"
    PROVE  Fields(data, lines, o, k, u)
<1>1. ASSUME NEW p \in DOMAIN u \ DOMAIN t PROVE Giving(data, lines, o, k, p) = {}
  BY <1>1 DEF Fields, Giving
<1> QED BY <1>1 DEF Fields

LEMMA FieldsDone ==
    ASSUME NEW data, NEW lines, NEW o, NEW k \in Nat \ {0}, NEW t, NEW x,
           Fields(data, lines, o, k - 1, t), Readable1(data, lines, o, k), << >> \notin DOMAIN t,
           PlaceOf(lines, k) # << >> => PlaceOf(lines, k) \in DOMAIN t,
           x = Field(BitsIn(data, o * 8 + lines[k].offset, lines[k].size))
    PROVE  Fields(data, lines, o, k, IF PlaceOf(lines, k) = << >> THEN t
                                     ELSE [t EXCEPT ![PlaceOf(lines, k)] = x])
<1> DEFINE to == PlaceOf(lines, k)
           u == IF to = << >> THEN t ELSE [t EXCEPT ![to] = x]
           G(j, p) == Giving(data, lines, o, j, p)
<1>1. \A i : i \in 1 .. k <=> i \in 1 .. k - 1 \/ i = k
  OBVIOUS
<1>2. \A i \in 1 .. k - 1 : i <= k
  OBVIOUS
<1>3. DOMAIN u = DOMAIN t /\ (\A p \in DOMAIN t : p # to => u[p] = t[p])
      /\ (to \in DOMAIN t => u[to] = x)
  OBVIOUS
<1> HIDE DEF u
<1>4. \A p : p # to => G(k, p) = G(k - 1, p)
  BY <1>1 DEF Giving
<1>5. k \in G(k, to) /\ \A j \in G(k, to) : j <= k
  BY <1>1, <1>2 DEF Giving
<1>6. \A p \in DOMAIN u :
         \/ G(k, p) = {} /\ u[p].kind # "field"
         \/ \E i \in G(k, p) :
              /\ \A j \in G(k, p) : j <= i
              /\ u[p] = Field(BitsIn(data, o * 8 + lines[i].offset, lines[i].size))
  <2> SUFFICES ASSUME NEW p \in DOMAIN u
               PROVE  \/ G(k, p) = {} /\ u[p].kind # "field"
                      \/ \E i \in G(k, p) :
                           /\ \A j \in G(k, p) : j <= i
                           /\ u[p] = Field(BitsIn(data, o * 8 + lines[i].offset, lines[i].size))
    OBVIOUS
  <2>1. CASE p = to
    BY <1>3, <1>5, <2>1
  <2>2. CASE p # to
    BY <1>3, <1>4, <2>2 DEF Fields
  <2> QED BY <2>1, <2>2
<1>7. \A i \in 1 .. k : Readable1(data, lines, o, i) /\ PlaceOf(lines, i) # << >>
                           => PlaceOf(lines, i) \in DOMAIN u
  BY <1>1, <1>3 DEF Fields
<1>8. Fields(data, lines, o, k, u)
  BY <1>6, <1>7 DEF Fields
<1> QED BY <1>8 DEF u

(* The bits read at once are those up to the next byte or the end.         *)
Upwards(bits, size) == IF bits <= size THEN bits ELSE size

ReadAt(data, start, b, size) ==
    LET off == (start + b) % 8
        mask == 0 .. Min({size - b, 8}) - 1
        byte == data[(start + b) \div 8 + 1]
        next == b + 8 - off
    IN /\ BitsIn(data, start, Upwards(next, size))
            = BitsIn(data, start, b) \cup {b + m : m \in {m \in mask : m + off \in byte}}
       /\ start + next <= 8 * Len(data) /\ next \in Nat /\ next > 0

LEMMA ChunkIs ==
    ASSUME NEW data \in Seq(SUBSET (0 .. 7)), NEW start \in Nat, NEW b \in Nat, NEW size \in Nat,
           b < size, (start + b) \div 8 < Len(data)
    PROVE  ReadAt(data, start, b, size)
<1> DEFINE off == (start + b) % 8
           chunk == (start + b) \div 8
           low == Min({size - b, 8})
           byte == data[chunk + 1]
           next == b + 8 - off
           end == Upwards(next, size)
<1>1. start + b = 8 * chunk + off /\ off \in 0 .. 7 /\ chunk \in Nat
  OBVIOUS
<1>2. byte \in SUBSET (0 .. 7) /\ Len(data) \in Nat
  <2> HIDE DEF off, chunk
  <2>1. chunk + 1 \in 1 .. Len(data) /\ Len(data) \in Nat
    BY <1>1 DEF chunk
  <2> QED BY <2>1
<1>3. low \in Nat /\ (low = size - b \/ low = 8) /\ low <= size - b /\ low <= 8
  <2> DEFINE T == {size - b, 8}
  <2>1. T \in SUBSET Nat /\ T # {}
    OBVIOUS
  <2> HIDE DEF T
  <2>2. Min(T) \in T /\ \A x \in T : Min(T) <= x
    BY <2>1, MinOf
  <2> QED BY <2>1, <2>2 DEF T
<1>4. \A m \in 0 .. 7 - off : (start + (b + m)) \div 8 = chunk /\ (start + (b + m)) % 8 = off + m
  <2> HIDE DEF off, chunk
  <2> SUFFICES ASSUME NEW m \in 0 .. 7 - off
               PROVE  (start + (b + m)) \div 8 = chunk /\ (start + (b + m)) % 8 = off + m
    OBVIOUS
  <2>1. start + (b + m) = 8 * chunk + (off + m) /\ off + m \in 0 .. 7
    BY <1>1
  <2> QED BY <1>1, <2>1
<1> HIDE DEF off, low, byte, chunk
<1>5. next \in Nat /\ next > b /\ end \in Nat /\ end > b /\ end <= size /\ end <= next
  BY <1>1 DEF Upwards
<1>6. (chunk + 1 <= Len(data)) /\ start + next = 8 * (chunk + 1)
  BY <1>1, <1>2 DEF chunk
<1>7. ASSUME NEW x
      PROVE  x \in BitsIn(data, start, end)
               <=> x \in BitsIn(data, start, b) \/ x \in {b + m : m \in {m \in 0 .. low - 1 : m + off \in byte}}
  <2>1. ASSUME NEW m \in 0 .. 7 - off
        PROVE  (start + (b + m)) % 8 \in data[(start + (b + m)) \div 8 + 1] <=> m + off \in byte
    <3>1. m + off = off + m
      BY <1>1
    <3> QED BY <1>4, <3>1 DEF byte
  <2>2. ASSUME NEW m \in 0 .. low - 1, m + off \in byte, x = b + m PROVE x \in BitsIn(data, start, end)
    <3>1. m \in 0 .. 7 - off
      BY <1>1, <1>2, <1>3, <2>2
    <3>2. b + m \in 0 .. end - 1
      BY <1>1, <1>3, <1>5, <3>1 DEF Upwards
    <3> QED BY <2>1, <2>2, <3>1, <3>2 DEF BitsIn
  <2>3. ASSUME x \in BitsIn(data, start, b) PROVE x \in BitsIn(data, start, end)
    <3>1. x \in 0 .. b - 1 /\ x \in 0 .. end - 1
      BY <1>5, <2>3 DEF BitsIn
    <3> QED BY <2>3, <3>1 DEF BitsIn
  <2>4. ASSUME x \in BitsIn(data, start, end), x \notin BitsIn(data, start, b)
        PROVE  \E m \in 0 .. low - 1 : m + off \in byte /\ x = b + m
    <3>1. x \in 0 .. end - 1 /\ x \notin 0 .. b - 1
      BY <2>4 DEF BitsIn
    <3> DEFINE m == x - b
    <3>2. m \in 0 .. end - b - 1 /\ x = b + m
      BY <1>5, <3>1
    <3>3. m \in 0 .. 7 - off /\ m \in 0 .. low - 1
      BY <1>1, <1>3, <1>5, <3>2
    <3> HIDE DEF m
    <3>4. m + off \in byte
      BY <2>1, <2>4, <3>2, <3>3 DEF BitsIn
    <3> QED BY <3>2, <3>3, <3>4
  <2> QED BY <2>2, <2>3, <2>4
<1>8. BitsIn(data, start, end) = BitsIn(data, start, b) \cup {b + m : m \in {m \in 0 .. low - 1 : m + off \in byte}}
  BY <1>7
<1>9. start + next <= 8 * Len(data) /\ next \in Nat /\ next > 0
  BY <1>1, <1>2, <1>5, <1>6
<1> QED BY <1>8, <1>9 DEF off, low, byte, chunk, ReadAt

---------------------------------------------------------------------------
(* The layout that is applied has given what its lines so far give, and of *)
(* the field that is read what is read of it so far.                       *)
Reading ==
    /\ Fields(Rec.data, Lines, Offset, line - 1, tree)
    /\ pc = "layout" => line <= Len(Lines) + 1 /\ path = PlaceOf(Lines, line - 1)
    /\ pc = "field" =>
         /\ Lines[line].name # << >>
         /\ path = PlaceOf(Lines, line) /\ (path # << >> => path \in DOMAIN tree)
         /\ value = BitsIn(Rec.data, Start, Upwards(bit, Size))
         /\ bit > 0 => Start + bit <= 8 * Len(Rec.data)

FieldInv ==
    pc \in {"layout", "field"} =>
      /\ def.name \in {"sq", "module"} => Rec.extended >= 0
      /\ Known => Reading

LEMMA LinesAre ==
    ASSUME TypeInv, Known
    PROVE  Lines \in Seq(LayoutLine)
<1>1. PICK lines \in Seq(LayoutLine) : def.found = <<lines>>
  BY DEF TypeInv, LayoutOK, Found1, Known
<1> QED BY <1>1 DEF Lines

LEMMA PlacesAre ==
    ASSUME NEW lines \in Seq(LayoutLine)
    PROVE  /\ PlaceOf(lines, 0) = << >>
           /\ \A i \in 1 .. Len(lines) :
                PlaceOf(lines, i) = IF lines[i].name = << >> THEN PlaceOf(lines, i - 1)
                                    ELSE PathOf(lines[i].name, PlaceOf(lines, i - 1))
<1>1. PlaceOf(lines, 0) = << >>
  <2>1. Segments(lines)[0] = << >> /\ << >> \in Seq(Segment)
    BY SegmentsAre
  <2>2. PICK r : Remains(<< >>, r)
    BY <2>1, RemainingAre
  <2> QED BY <2>1, <2>2 DEF Remains, PlaceOf
<1>2. ASSUME NEW i \in 1 .. Len(lines)
      PROVE  PlaceOf(lines, i) = IF lines[i].name = << >> THEN PlaceOf(lines, i - 1)
                                 ELSE PathOf(lines[i].name, PlaceOf(lines, i - 1))
  <2> DEFINE name == lines[i].name
             s == Segments(lines)[i - 1]
  <2>1. lines[i] \in LayoutLine /\ i - 1 \in 0 .. Len(lines)
    OBVIOUS
  <2>2. name \in Seq(Segment) /\ s \in Seq(Segment)
    BY <2>1, SegmentsAre DEF LayoutLine, Segment
  <2>3. Segments(lines)[i] = IF name = << >> THEN s
                             ELSE IF name[1] # << >> THEN name ELSE s \o Tail(name)
    BY SegmentsAre
  <2> HIDE DEF name, s
  <2>4. name # << >> => PathOf(name, Remaining(s)) = Remaining(IF name[1] # << >> THEN name ELSE s \o Tail(name))
    BY <2>2, Follows
  <2>5. Remaining(Segments(lines)[i]) = IF name = << >> THEN Remaining(s) ELSE PathOf(name, Remaining(s))
    BY <2>3, <2>4
  <2> QED BY <2>5 DEF PlaceOf, name, s
<1> QED BY <1>1, <1>2

LEMMA ReadingBegins ==
    ASSUME NEW r, NEW lines \in Seq(LayoutLine), NEW o
    PROVE  Fields(r, lines, o, 1 - 1, NoTree) /\ PlaceOf(lines, 1 - 1) = << >> /\ 1 <= Len(lines) + 1
<1>1. 1 - 1 = 0 /\ Len(lines) \in Nat
  OBVIOUS
<1> QED BY <1>1, FieldsNone, PlacesAre

LEMMA FieldApply ==
    ASSUME TypeInv', NEW d, Apply(d), pc' = "layout",
           d.name \in {"sq", "module"} => Rec'.extended >= 0
    PROVE  FieldInv'
<1>1. def' = d /\ line' = 1 /\ path' = << >> /\ tree' = NoTree
  BY DEF Apply
<1>2. ASSUME Known' PROVE Lines' \in Seq(LayoutLine)
  <2>1. PICK lines \in Seq(LayoutLine) : def'.found = <<lines>>
    BY <1>2 DEF TypeInv, LayoutOK, Found1, Known
  <2> QED BY <2>1 DEF Lines
<1>3. ASSUME Known' PROVE Reading'
  <2> DEFINE lines == Lines'
             r == Rec'.data
             o == Offset'
  <2>1. lines \in Seq(LayoutLine)
    BY <1>2, <1>3
  <2> HIDE DEF lines, r, o
  <2>2. Fields(r, lines, o, 1 - 1, NoTree) /\ PlaceOf(lines, 1 - 1) = << >> /\ 1 <= Len(lines) + 1
    BY <2>1, ReadingBegins
  <2> QED BY <1>1, <2>2 DEF Reading, lines, r, o
<1> QED BY <1>1, <1>3 DEF FieldInv

LEMMA FieldInit ==
    ASSUME Init, TypeInv
    PROVE  FieldInv
<1>1. pc = "layout" /\ line = 1 /\ path = << >> /\ tree = NoTree /\ def.name \in {"thread", "layout"}
  BY DEF Init, FirstDef, Def
<1>2. Known => Reading
  <2> SUFFICES ASSUME Known PROVE Reading
    OBVIOUS
  <2>1. Lines \in Seq(LayoutLine)
    BY LinesAre
  <2>2. Fields(Rec.data, Lines, Offset, 1 - 1, NoTree) /\ PlaceOf(Lines, 1 - 1) = << >> /\ 1 <= Len(Lines) + 1
    BY <2>1, ReadingBegins
  <2> QED BY <1>1, <2>2 DEF Reading
<1> QED BY <1>1, <1>2 DEF FieldInv

(* Another line.                                                           *)
LEMMA FieldLine ==
    ASSUME TypeInv, FieldInv, pc \in {"layout", "field"}, Known, line <= Len(Lines)
    PROVE  /\ Reading /\ Lines \in Seq(LayoutLine) /\ line \in 1 .. Len(Lines) /\ line \in Nat \ {0}
           /\ line + 1 <= Len(Lines) + 1 /\ (line + 1) - 1 = line
           /\ Offset \in Nat /\ Rec.data \in Seq(SUBSET (0 .. 7)) /\ IsTree(tree)
           /\ Lines[line].offset \in Nat /\ Lines[line].size \in Nat
           /\ (Readable1(Rec.data, Lines, Offset, line)
                 <=> /\ Lines[line].name # << >> /\ Size <= 64
                     /\ Size > 0 => Start + Size <= 8 * Len(Rec.data))
           /\ Start \in Nat
<1>1. Reading /\ Lines \in Seq(LayoutLine) /\ IsTree(tree)
  BY LinesAre DEF FieldInv, TypeInv, TreesOK
<1>2. line \in Nat \ {0} /\ Len(Lines) \in Nat /\ pc # "done"
  BY <1>1 DEF TypeInv, LayoutOK
<1>3. WellFormed(Rec)
  BY <1>2, RecIs DEF TypeInv, RecordOK, Rec
<1>4. Offset \in Nat
  BY <1>3 DEF FieldInv, WellFormed, Offset
<1>5. Lines[line].offset \in Nat /\ Lines[line].size \in Nat
  BY LineIs
<1>6. Start \in Nat /\ Start = Offset * 8 + Lines[line].offset /\ Size = Lines[line].size
  BY <1>4, <1>5 DEF Start, Size
<1> QED BY <1>1, <1>2, <1>3, <1>4, <1>5, <1>6 DEF WellFormed, Readable1

LEMMA FieldSkip ==
    ASSUME TypeInv, FieldInv, SkipLine
    PROVE  FieldInv'
<1>1. /\ pc = "layout" /\ Known /\ line <= Len(Lines) /\ Lines[line].name = << >> /\ line' = line + 1
      /\ UNCHANGED <<crashlog, n, def, pc, path, tree>>
  BY DEF SkipLine, AtLine
<1>2. /\ Reading /\ Lines \in Seq(LayoutLine) /\ line \in 1 .. Len(Lines) /\ line \in Nat \ {0}
      /\ line + 1 <= Len(Lines) + 1 /\ (line + 1) - 1 = line
      /\ ~Readable1(Rec.data, Lines, Offset, line)
  BY <1>1, FieldLine
<1>3. Fields(Rec.data, Lines, Offset, line, tree)
  BY <1>2, FieldsSkip DEF Reading
<1>4. path = PlaceOf(Lines, line)
  BY <1>1, <1>2, PlacesAre DEF Reading
<1>5. /\ Rec' = Rec /\ Lines' = Lines /\ Offset' = Offset /\ Known' /\ line' - 1 = line
      /\ line' <= Len(Lines) + 1 /\ pc' = "layout"
  BY <1>1, <1>2 DEF Rec, Lines, Offset, Known
<1>6. Reading'
  BY <1>1, <1>3, <1>4, <1>5 DEF Reading
<1> QED BY <1>1, <1>5, <1>6 DEF FieldInv

LEMMA FieldTake ==
    ASSUME TypeInv, FieldInv, TakeLine
    PROVE  FieldInv'
<1> DEFINE name == Lines[line].name
           to == PathOf(name, path)
           u == WithRecord(tree, name)
           h == Hierarchy(u, to)
<1>1. /\ pc = "layout" /\ Known /\ line <= Len(Lines) /\ name # << >>
      /\ path' = to /\ tree' = h /\ bit' = 0 /\ value' = {} /\ pc' = "field"
      /\ UNCHANGED <<crashlog, n, def, line>>
  BY DEF TakeLine, AtLine
<1>2. /\ Reading /\ Lines \in Seq(LayoutLine) /\ line \in 1 .. Len(Lines) /\ IsTree(tree)
      /\ name \in Seq(Seq(Int)) /\ path \in Path /\ Size \in Nat
  BY <1>1, FieldLine, LineIs DEF TypeInv, LayoutOK, Size
<1>3. to = PlaceOf(Lines, line)
  BY <1>1, <1>2, PlacesAre DEF Reading
<1>4. to \in Path
  BY <1>1, <1>2, PathOfIsPath
<1>5. IsTree(u) /\ DOMAIN tree \subseteq DOMAIN u /\ (\A p \in DOMAIN tree : u[p] = tree[p])
      /\ \A p \in DOMAIN u \ DOMAIN tree : u[p] = Record
  <2>1. IsTree(u)
    BY <1>1, <1>2, WithRecordIsTree
  <2> HIDE DEF name
  <2> QED BY <2>1 DEF WithRecord, Insert
<1> HIDE DEF name, to, u
<1>6. /\ IsTree(h) /\ (to # << >> => to \in DOMAIN h)
      /\ DOMAIN u \subseteq DOMAIN h /\ (\A q \in DOMAIN u : h[q] = u[q])
      /\ \A q \in DOMAIN h \ DOMAIN u : h[q] = Section
  BY <1>4, <1>5, HierarchyIsTree
<1> HIDE DEF h
<1>7. \A p \in DOMAIN h \ DOMAIN tree : h[p].kind # "field"
  BY <1>5, <1>6 DEF Section, Record
<1>8. Fields(Rec.data, Lines, Offset, line - 1, h)
  <2>1. << >> \notin DOMAIN h
    BY <1>6 DEF IsTree
  <2>2. DOMAIN tree \subseteq DOMAIN h /\ \A p \in DOMAIN tree : h[p] = tree[p]
    BY <1>5, <1>6
  <2> QED BY <1>2, <1>7, <2>1, <2>2, FieldsTake DEF Reading
<1>9. /\ Rec' = Rec /\ Lines' = Lines /\ Offset' = Offset /\ Known' /\ Start' = Start /\ Size' = Size
  BY <1>1 DEF Rec, Lines, Offset, Known, Start, Size
<1>10. {} = BitsIn(Rec.data, Start, Upwards(0, Size))
  BY <1>2 DEF BitsIn, Upwards
<1>11. Reading'
  BY <1>1, <1>3, <1>6, <1>8, <1>9, <1>10 DEF Reading, name
<1> QED BY <1>1, <1>9, <1>11 DEF FieldInv

LEMMA FieldReads ==
    ASSUME TypeInv, FieldInv, ReadChunk
    PROVE  FieldInv'
<1>1. /\ pc = "field" /\ bit < Size /\ Size <= 64 /\ Chunk < Len(Rec.data) /\ Known /\ line <= Len(Lines)
      /\ value' = value \cup Masked /\ bit' = bit + 8 - BitOffset /\ bit \in Nat
      /\ UNCHANGED <<crashlog, n, def, pc, line, path, tree>>
  BY DEF ReadChunk, Readable, TypeInv, LayoutOK
<1>2. Reading /\ Rec.data \in Seq(SUBSET (0 .. 7)) /\ Start \in Nat /\ Size \in Nat
  BY <1>1, FieldLine DEF Size
<1> DEFINE data == Rec.data
           byte == data[Chunk + 1]
<1>3. /\ BitsIn(data, Start, Upwards(bit', Size))
           = BitsIn(data, Start, bit) \cup {bit + m : m \in {m \in Mask : m + BitOffset \in byte}}
      /\ Start + bit' <= 8 * Len(data)
  <2> DEFINE st == Start
             sz == Size
             off == (st + bit) % 8
             mask == 0 .. Min({sz - bit, 8}) - 1
             next == bit + 8 - off
  <2>1. (st + bit) \div 8 < Len(data) /\ st \in Nat /\ sz \in Nat /\ bit < sz /\ bit \in Nat
    BY <1>1, <1>2 DEF Chunk
  <2>2. data \in Seq(SUBSET (0 .. 7))
    BY <1>2
  <2> HIDE DEF data, st, sz
  <2>3. ReadAt(data, st, bit, sz)
    BY <2>1, <2>2, ChunkIs
  <2>4. /\ BitsIn(data, st, Upwards(next, sz))
             = BitsIn(data, st, bit) \cup {bit + m : m \in {m \in mask : m + off \in data[(st + bit) \div 8 + 1]}}
        /\ st + next <= 8 * Len(data)
    BY <2>3 DEF ReadAt
  <2>5. bit' = next /\ Mask = mask /\ BitOffset = off /\ byte = data[(st + bit) \div 8 + 1]
    BY <1>1 DEF Chunk, BitOffset, Mask, st, sz
  <2> HIDE DEF next, mask, off, byte
  <2> QED BY <2>4, <2>5 DEF st, sz
<1>4. value' = BitsIn(data, Start, Upwards(bit', Size))
  <2>1. Upwards(bit, Size) = bit
    BY <1>1, <1>2 DEF Upwards
  <2>2. value = BitsIn(data, Start, bit)
    BY <1>1, <1>2, <2>1 DEF Reading
  <2> QED BY <1>1, <1>3, <2>2 DEF Masked
<1>5. /\ Rec' = Rec /\ Lines' = Lines /\ Offset' = Offset /\ Known' /\ Start' = Start /\ Size' = Size
  BY <1>1 DEF Rec, Lines, Offset, Known, Start, Size
<1>6. Reading'
  BY <1>1, <1>2, <1>3, <1>4, <1>5 DEF Reading
<1> QED BY <1>1, <1>5, <1>6 DEF FieldInv

LEMMA FieldIsDone ==
    ASSUME TypeInv, FieldInv, FieldDone
    PROVE  FieldInv'
<1>1. /\ pc = "field" /\ Readable /\ bit >= Size /\ Known /\ line <= Len(Lines) /\ pc' = "layout"
      /\ tree' = IF path = << >> THEN tree ELSE [tree EXCEPT ![path] = Field(value)]
      /\ line' = line + 1 /\ bit \in Nat
      /\ UNCHANGED <<crashlog, n, def, path>>
  BY DEF FieldDone, TypeInv, LayoutOK
<1>2. /\ Reading /\ line \in Nat \ {0} /\ line + 1 <= Len(Lines) + 1 /\ (line + 1) - 1 = line
      /\ IsTree(tree) /\ Start \in Nat /\ Size \in Nat /\ Rec.data \in Seq(SUBSET (0 .. 7))
  BY <1>1, FieldLine DEF Size
<1>3. Readable1(Rec.data, Lines, Offset, line)
  <2>1. Size > 0 => Start + Size <= 8 * Len(Rec.data)
    <3>1. Len(Rec.data) \in Nat
      BY <1>2
    <3> QED BY <1>1, <1>2, <3>1 DEF Reading
  <2> QED BY <1>1, <1>2, <2>1, FieldLine DEF Reading, Readable
<1>4. value = BitsIn(Rec.data, Offset * 8 + Lines[line].offset, Lines[line].size)
  <2>1. Upwards(bit, Size) = Size
    BY <1>1, <1>2 DEF Upwards
  <2> QED BY <1>1, <1>2, <2>1 DEF Reading, Start, Size
<1>5. path = PlaceOf(Lines, line) /\ (path # << >> => path \in DOMAIN tree) /\ << >> \notin DOMAIN tree
  BY <1>1, <1>2 DEF Reading, IsTree
<1>6. Fields(Rec.data, Lines, Offset, line, tree')
  BY <1>1, <1>2, <1>3, <1>4, <1>5, FieldsDone DEF Reading
<1>7. /\ Rec' = Rec /\ Lines' = Lines /\ Offset' = Offset /\ Known' /\ line' - 1 = line
      /\ line' <= Len(Lines) + 1
  BY <1>1, <1>2 DEF Rec, Lines, Offset, Known
<1>8. Reading'
  BY <1>1, <1>5, <1>6, <1>7 DEF Reading
<1> QED BY <1>1, <1>7, <1>8 DEF FieldInv

LEMMA FieldIsMissing ==
    ASSUME TypeInv, FieldInv, FieldMissing
    PROVE  FieldInv'
<1>1. /\ pc = "field" /\ ~Readable /\ Known /\ line <= Len(Lines) /\ pc' = "layout"
      /\ line' = line + 1 /\ bit \in Nat
      /\ UNCHANGED <<crashlog, n, def, path, tree>>
  BY DEF FieldMissing, TypeInv, LayoutOK
<1>2. /\ Reading /\ line \in Nat \ {0} /\ line + 1 <= Len(Lines) + 1 /\ (line + 1) - 1 = line
      /\ Start \in Nat /\ Size \in Nat /\ Rec.data \in Seq(SUBSET (0 .. 7))
  BY <1>1, FieldLine DEF Size
<1>3. ~Readable1(Rec.data, Lines, Offset, line)
  <2>1. CASE Size > 64
    BY <1>1, <1>2, <2>1, FieldLine
  <2>2. CASE bit < Size /\ ~(Chunk < Len(Rec.data))
    <3> DEFINE l == Len(Rec.data)
               s == Start + bit
    <3>1. l \in Nat /\ s \in Nat /\ ~(s \div 8 < l)
      BY <1>1, <1>2, <2>2 DEF Chunk
    <3> HIDE DEF l, s
    <3>2. s >= 8 * l
      BY <3>1
    <3>3. Start + Size > 8 * l
      BY <1>1, <1>2, <2>2, <3>1, <3>2 DEF s
    <3> QED BY <1>1, <1>2, <2>2, <3>3, FieldLine DEF l
  <2> QED BY <1>1, <1>2, <2>1, <2>2 DEF Readable
<1>4. Fields(Rec.data, Lines, Offset, line, tree)
  BY <1>2, <1>3, FieldsSkip DEF Reading
<1>5. /\ Rec' = Rec /\ Lines' = Lines /\ Offset' = Offset /\ Known' /\ line' - 1 = line
      /\ line' <= Len(Lines) + 1
  BY <1>1, <1>2 DEF Rec, Lines, Offset, Known
<1>6. Reading'
  BY <1>1, <1>2, <1>4, <1>5 DEF Reading
<1> QED BY <1>1, <1>5, <1>6 DEF FieldInv

(* From layout to layout.                                                  *)
LEMMA FieldNextSub ==
    ASSUME TypeInv', NextSub, UNCHANGED crashlog
    PROVE  FieldInv'
<1>1. CASE sub = "thread"
  <2>1. Apply(Def(Rec, "core")) /\ pc' = "layout"
    BY <1>1 DEF NextSub
  <2>2. Def(Rec, "core").name \notin {"sq", "module"}
    BY DEF Def
  <2> QED BY <2>1, <2>2, FieldApply
<1>2. CASE sub # "thread"
  BY <1>2 DEF NextSub, Decoded, FieldInv
<1> QED BY <1>1, <1>2

LEMMA FieldClose ==
    ASSUME TypeInv', NEW STATE t, Close(t), UNCHANGED crashlog
    PROVE  FieldInv'
<1>1. CASE <<SubName>> \notin DOMAIN t
  BY <1>1, FieldNextSub DEF Close
<1>2. CASE <<SubName>> \in DOMAIN t
  <2>1. pc' = "merge"
    BY <1>2 DEF Close, Decoded
  <2> QED BY <2>1 DEF FieldInv
<1> QED BY <1>1, <1>2

LEMMA FieldInvStep ==
    ASSUME TypeInv, TypeInv', FieldInv, [Next]_vars
    PROVE  FieldInv'
<1>1. CASE SkipLine
  BY <1>1, FieldSkip
<1>2. CASE TakeLine
  BY <1>2, FieldTake
<1>3. CASE NodeMissing
  BY <1>3 DEF NodeMissing, FieldInv
<1>4. CASE ReadChunk
  BY <1>4, FieldReads
<1>5. CASE FieldDone
  BY <1>5, FieldIsDone
<1>6. CASE FieldMissing
  BY <1>6, FieldIsMissing
<1>7. CASE LayoutDone
  <2>1. def.name \in DefNames /\ pc = "layout" /\ UNCHANGED crashlog
    BY <1>7 DEF LayoutDone, Complete, TypeInv, LayoutOK
  <2>2. \/ pc' \in {"merge", "extend"}
        \/ Close(tree)
        \/ /\ ~(Rec.extended < 0) /\ Apply(Def(Rec, "sq")) /\ UNCHANGED <<n, pc>>
    BY <1>7, <2>1, Zenon DEF LayoutDone, DefNames, Decoded
  <2>3. CASE Close(tree)
    BY <2>1, <2>3, FieldClose
  <2>4. CASE ~(Rec.extended < 0) /\ Apply(Def(Rec, "sq")) /\ UNCHANGED <<n, pc>>
    <3>1. Rec.extended \in Int
      BY <2>1, RecIs DEF TypeInv, RecordOK, Rec, WellFormed
    <3>2. Rec'.extended >= 0 /\ pc' = "layout"
      BY <2>1, <2>4, <3>1 DEF Rec
    <3> QED BY <2>4, <3>2, FieldApply
  <2> QED BY <2>2, <2>3, <2>4 DEF FieldInv
<1>8. CASE LayoutFails
  <2>1. def.name \in DefNames /\ pc = "layout" /\ UNCHANGED crashlog
    BY <1>8 DEF LayoutFails, Failed, TypeInv, LayoutOK
  <2>2. \/ pc' = "merge"
        \/ NextSub
        \/ Close(base)
        \/ /\ def.name = "sq" /\ Apply(Def(Rec, "module")) /\ UNCHANGED <<n, pc>>
    BY <1>8, <2>1, Zenon DEF LayoutFails, DefNames, Decoded
  <2>3. CASE NextSub
    BY <2>1, <2>3, FieldNextSub
  <2>4. CASE Close(base)
    BY <2>1, <2>4, FieldClose
  <2>5. CASE def.name = "sq" /\ Apply(Def(Rec, "module")) /\ UNCHANGED <<n, pc>>
    <3>1. Rec'.extended >= 0 /\ pc' = "layout"
      BY <2>1, <2>5 DEF Rec, FieldInv
    <3> QED BY <2>5, <3>1, FieldApply
  <2> QED BY <2>2, <2>3, <2>4, <2>5 DEF FieldInv
<1>9. CASE MergeNode
  BY <1>9 DEF MergeNode, FieldInv
<1>10. CASE Extended
  BY <1>10, FieldClose DEF Extended
<1>11. CASE Merged
  <2>1. CASE n < Len(crashlog)
    <3>1. Apply(FirstDef(crashlog[n + 1])) /\ pc' = "layout"
      BY <1>11, <2>1 DEF Merged
    <3>2. FirstDef(crashlog[n + 1]).name \notin {"sq", "module"}
      BY DEF FirstDef, Def
    <3> QED BY <3>1, <3>2, FieldApply
  <2>2. CASE ~(n < Len(crashlog))
    BY <1>11, <2>2 DEF Merged, FieldInv
  <2> QED BY <2>1, <2>2
<1>12. CASE UNCHANGED vars
  BY <1>12 DEF vars, FieldInv, Reading, Rec, Lines, Offset, Known, Start, Size
<1> QED BY <1>1, <1>2, <1>3, <1>4, <1>5, <1>6, <1>7, <1>8, <1>9, <1>10, <1>11, <1>12 DEF Next

LEMMA LastOf ==
    ASSUME NEW T, NEW i \in T, T \subseteq Int, \A j \in T : j <= i
    PROVE  Max(T) = i
<1>1. i \in T /\ \A j \in T : i >= j
  OBVIOUS
<1>2. \A x \in T : (\A j \in T : x >= j) => x = i
  OBVIOUS
<1> QED BY <1>1, <1>2 DEF Max

LEMMA FieldsAreRight ==
    ASSUME TypeInv, FieldInv
    PROVE  FieldsRight
<1> SUFFICES ASSUME pc = "layout", Known PROVE FieldsOf(1 .. line - 1)
  BY DEF FieldsRight
<1> DEFINE G(p) == Giving(Rec.data, Lines, Offset, line - 1, p)
           read == {i \in 1 .. line - 1 : Reads(i)}
           places == [i \in read |-> PathAt(i)]
           Landed(p) == {i \in read : places[i] = p}
<1>1. Fields(Rec.data, Lines, Offset, line - 1, tree)
  BY DEF FieldInv, Reading
<1>2. \A i : Reads(i) <=> Readable1(Rec.data, Lines, Offset, i)
  BY DEF Reads, Readable1, FieldStart
<1>3. \A i : PathAt(i) = PlaceOf(Lines, i)
  BY DEF PathAt, PlaceOf
<1>4. \A p : Landed(p) = G(p)
  BY <1>2, <1>3 DEF Giving
<1>5. \A i \in read : places[i] = PlaceOf(Lines, i)
  BY <1>3
<1>6. \A p : G(p) \subseteq Int
  BY DEF Giving
<1> HIDE DEF G
<1>7. \A i \in read : places[i] # << >> => places[i] \in DOMAIN tree
  BY <1>1, <1>2, <1>5 DEF Fields
<1> HIDE DEF places, read
<1>8. ASSUME NEW p \in DOMAIN tree
      PROVE  IF Landed(p) = {} THEN tree[p].kind # "field"
             ELSE tree[p] = Field(Bits(FieldStart(Max(Landed(p))), Lines[Max(Landed(p))].size))
  <2>1. CASE G(p) = {} /\ tree[p].kind # "field"
    BY <1>4, <2>1
  <2>2. ASSUME NEW i \in G(p), \A j \in G(p) : j <= i,
               tree[p] = Field(BitsIn(Rec.data, Offset * 8 + Lines[i].offset, Lines[i].size))
        PROVE  Landed(p) # {} /\ tree[p] = Field(Bits(FieldStart(Max(Landed(p))), Lines[Max(Landed(p))].size))
    <3>1. Max(Landed(p)) = i /\ Landed(p) # {}
      BY <1>4, <1>6, <2>2, LastOf
    <3> HIDE DEF Landed
    <3> QED BY <2>2, <3>1 DEF Bits, BitsIn, FieldStart
  <2> HIDE DEF Landed
  <2> QED BY <1>1, <2>1, <2>2 DEF Fields, G
<1> QED BY <1>7, <1>8 DEF FieldsOf, read, places

(* Each register a layout gives is where the names of its line and of      *)
(* those before it lead, and has the bits it has in the record; it has a   *)
(* value if and only if a line that gives one is there, the last one       *)
(* counts (record/decode.rs, Record::decode_with_csv and read_field).      *)
THEOREM EveryFieldIsRight == Spec => []FieldsRight
<1>1. Init /\ TypeInv => FieldInv
  BY FieldInit
<1>2. TypeInv /\ TypeInv' /\ FieldInv /\ [Next]_vars => FieldInv'
  BY FieldInvStep
<1>3. TypeInv /\ FieldInv => FieldsRight
  BY FieldsAreRight
<1> QED BY <1>1, <1>2, <1>3, TreesSound, PTL DEF Spec

---------------------------------------------------------------------------
(* Which of the records named for threads and cores a layout gives, k      *)
(* lines on, and where they are.                                           *)
Ours == {Thread, Core}

Given(lines, k) == {x \in Ours : \E i \in 1 .. k : lines[i].name # << >> /\ lines[i].name[1] = x}

Tops(t, X) == \A x \in Ours : /\ <<x>> \in DOMAIN t <=> x \in X
                              /\ <<x>> \in DOMAIN t => t[<<x>>] = Record

Nowhere1(t) == \A p \in DOMAIN t : t[p] = Record /\ Last(p) \in Ours => p = <<Last(p)>>

Shows(t, X) == Tops(t, X) /\ Nowhere1(t)

LEMMA OursAreNames == \A x \in Ours : x \in Name /\ x # << >>
BY DecodeAssumption DEF Ours, Name

LEMMA OneName ==
    ASSUME NEW p \in Path, Len(p) = 1
    PROVE  p = <<Last(p)>> /\ p[1] = Last(p)
<1>1. p # << >> /\ Last(p) = p[1]
  BY DEF Path, Last
<1> QED BY <1>1 DEF Path

LEMMA SingleName ==
    ASSUME NEW x
    PROVE  Len(<<x>>) = 1 /\ <<x>>[1] = x /\ Last(<<x>>) = x /\ <<x>> # << >>
BY DEF Last

LEMMA FlatIsNowhere ==
    ASSUME NEW t, IsTree(t), Flat(t)
    PROVE  Nowhere1(t)
<1> SUFFICES ASSUME NEW p \in DOMAIN t, t[p] = Record PROVE p = <<Last(p)>>
  BY DEF Nowhere1
<1>1. p \in Path /\ Len(p) = 1
  BY TreeFacts DEF Flat
<1> QED BY <1>1, OneName

LEMMA TopsNone ==
    ASSUME NEW lines
    PROVE  Given(lines, 0) = {} /\ Tops(NoTree, {}) /\ Nowhere1(NoTree)
<1>1. 1 .. 0 = {} /\ DOMAIN NoTree = {}
  BY NoTreeIsTree
<1> QED BY <1>1 DEF Given, Tops, Nowhere1

LEMMA GivenSkip ==
    ASSUME NEW lines, NEW k \in Nat \ {0}, lines[k].name = << >>
    PROVE  Given(lines, k) = Given(lines, k - 1)
<1>1. \A i : i \in 1 .. k <=> i \in 1 .. k - 1 \/ i = k
  OBVIOUS
<1> QED BY <1>1 DEF Given

LEMMA GivenTake ==
    ASSUME NEW lines, NEW k \in Nat \ {0}, lines[k].name # << >>
    PROVE  \A x \in Ours : x \in Given(lines, k) <=> x \in Given(lines, k - 1) \/ lines[k].name[1] = x
<1>1. \A i : i \in 1 .. k <=> i \in 1 .. k - 1 \/ i = k
  OBVIOUS
<1> QED BY <1>1 DEF Given

(* A line is taken.                                                        *)
LEMMA TopsTaken ==
    ASSUME NEW lines, NEW k \in Nat \ {0}, lines[k].name # << >>, lines[k].name \in Seq(Seq(Int)),
           NEW to \in Path, to # << >> /\ to[1] \in Ours => to[1] \in Given(lines, k),
           NEW t, IsTree(t), Tops(t, Given(lines, k - 1))
    PROVE  Tops(Hierarchy(WithRecord(t, lines[k].name), to), Given(lines, k))
<1> DEFINE name == lines[k].name
           u == WithRecord(t, name)
           h == Hierarchy(u, to)
<1>1. IsTree(u)
  BY WithRecordIsTree
<1>2. ASSUME NEW x \in Ours
      PROVE  /\ <<x>> \in DOMAIN u <=> x \in Given(lines, k)
             /\ <<x>> \in DOMAIN u => u[<<x>>] = Record
  <2>1. x # << >>
    BY OursAreNames
  <2>2. /\ <<x>> \in DOMAIN t <=> x \in Given(lines, k - 1)
        /\ <<x>> \in DOMAIN t => t[<<x>>] = Record
    BY DEF Tops
  <2>3. x \in Given(lines, k) <=> x \in Given(lines, k - 1) \/ name[1] = x
    BY GivenTake
  <2>4. \A y : <<y>> = <<x>> <=> y = x
    OBVIOUS
  <2> HIDE DEF name
  <2>5. CASE name[1] = << >> \/ <<name[1]>> \in DOMAIN t
    <3>1. u = t
      BY <2>5 DEF WithRecord
    <3> QED BY <2>1, <2>2, <2>3, <2>5, <3>1
  <2>6. CASE ~(name[1] = << >> \/ <<name[1]>> \in DOMAIN t)
    <3> DEFINE o == <<name[1]>>
    <3>1. u = Insert(t, o, Record)
      BY <2>6 DEF WithRecord
    <3>2. o = <<x>> <=> name[1] = x
      BY <2>4
    <3> HIDE DEF o, u
    <3>3. DOMAIN u = DOMAIN t \cup {o} /\ u[o] = Record /\ \A q \in DOMAIN t : q # o => u[q] = t[q]
      BY <3>1 DEF Insert
    <3> QED BY <2>2, <2>3, <3>2, <3>3
  <2> QED BY <2>5, <2>6
<1> HIDE DEF name, u
<1>3. /\ DOMAIN u \subseteq DOMAIN h /\ \A q \in DOMAIN u : h[q] = u[q]
      /\ \A q \in DOMAIN h \ DOMAIN u : \E i \in 1 .. Len(to) : q = SubSeq(to, 1, i)
  BY <1>1, HierarchyIsTree
<1> HIDE DEF h
<1>4. ASSUME NEW x \in Ours, <<x>> \in DOMAIN h PROVE <<x>> \in DOMAIN u
  <2> SUFFICES ASSUME <<x>> \notin DOMAIN u PROVE FALSE
    OBVIOUS
  <2>1. PICK i \in 1 .. Len(to) : <<x>> = SubSeq(to, 1, i)
    BY <1>3, <1>4
  <2>2. to # << >> /\ 1 \in 1 .. i
    BY <2>1 DEF Path
  <2>3. SubSeq(to, 1, i)[1] = to[1]
    BY <2>2, SubFacts DEF Path
  <2>4. to[1] = x
    BY <2>1, <2>3, SingleName
  <2> QED BY <1>2, <2>2, <2>4
<1>5. Tops(h, Given(lines, k))
  <2> SUFFICES ASSUME NEW x \in Ours
               PROVE  /\ <<x>> \in DOMAIN h <=> x \in Given(lines, k)
                      /\ <<x>> \in DOMAIN h => h[<<x>>] = Record
    BY DEF Tops
  <2> QED BY <1>2, <1>3, <1>4
<1> QED BY <1>5 DEF h, u, name

LEMMA TopsFilled ==
    ASSUME NEW t, NEW X, Tops(t, X), NEW p, \A x \in Ours : p # <<x>>, NEW v
    PROVE  Tops([t EXCEPT ![p] = v], X)
<1> DEFINE u == [t EXCEPT ![p] = v]
<1>1. DOMAIN u = DOMAIN t /\ \A q \in DOMAIN t : q # p => u[q] = t[q]
  OBVIOUS
<1> HIDE DEF u
<1>2. Tops(u, X)
  BY <1>1 DEF Tops
<1> QED BY <1>2 DEF u

(* What has a record of a name after it is put below a path.               *)
LEMMA ConcatLast ==
    ASSUME NEW p \in Path, NEW r \in Path, r # << >>
    PROVE  p \o r \in Path /\ Len(p \o r) > Len(p) /\ Last(p \o r) = Last(r)
<1> DEFINE q == p \o r
<1>1. /\ q \in Path /\ Len(q) = Len(p) + Len(r) /\ Len(p) \in Nat
      /\ \A j \in 1 .. Len(r) : q[Len(p) + j] = r[j]
  BY ConcatFacts DEF Path
<1>2. Len(r) \in Nat \ {0} /\ r[Len(r)] = Last(r)
  BY PathFacts DEF Path
<1> HIDE DEF q
<1>3. q[Len(q)] = r[Len(r)] /\ Len(q) > Len(p)
  BY <1>1, <1>2
<1>4. Last(q) = q[Len(q)]
  BY DEF Last
<1> QED BY <1>1, <1>2, <1>3, <1>4 DEF q

LEMMA GraftHas ==
    ASSUME NEW h, IsTree(h), NEW p \in Path, p # << >> => p \in DOMAIN h,
           \A q \in DOMAIN h : Len(q) <= Len(p),
           NEW u, IsTree(u), NEW y, ~HasRecord(h, y)
    PROVE  HasRecord(Graft(h, p, u), y) <=> HasRecord(u, y)
<1> DEFINE g == Graft(h, p, u)
<1>1. /\ DOMAIN g = DOMAIN h \cup {p \o r : r \in DOMAIN u}
      /\ \A q \in DOMAIN h : g[q] = h[q]
      /\ \A r \in DOMAIN u : p \o r \notin DOMAIN h => g[p \o r] = u[r]
  <2>1. /\ DOMAIN g = DOMAIN h \cup {p \o r : r \in DOMAIN u} /\ \A q \in DOMAIN h : g[q] = h[q]
        /\ \A q \in DOMAIN g : q \notin DOMAIN h => g[q] = u[SubSeq(q, Len(p) + 1, Len(q))]
    BY DEF Graft
  <2> HIDE DEF g
  <2>2. ASSUME NEW r \in DOMAIN u, p \o r \notin DOMAIN h PROVE g[p \o r] = u[r]
    <3>1. r \in Path
      BY TreeFacts
    <3>2. SubSeq(p \o r, Len(p) + 1, Len(p \o r)) = r
      BY <3>1, ConcatSuffix DEF Path
    <3> QED BY <2>1, <2>2, <3>2
  <2> QED BY <2>1, <2>2
<1> HIDE DEF g
<1>2. ASSUME NEW r \in DOMAIN u
      PROVE  p \o r \in DOMAIN g /\ g[p \o r] = u[r] /\ Last(p \o r) = Last(r)
  <2>1. r \in Path /\ r # << >>
    BY TreeFacts
  <2>2. p \o r \in Path /\ Len(p \o r) > Len(p) /\ Last(p \o r) = Last(r)
    BY <2>1, ConcatLast
  <2>3. Len(p) \in Nat /\ Len(p \o r) \in Nat
    BY <2>2 DEF Path
  <2>4. p \o r \notin DOMAIN h
    <3> DEFINE z == p \o r
    <3>1. Len(z) \in Nat /\ Len(p) \in Nat /\ ~(Len(z) <= Len(p))
      BY <2>2, <2>3
    <3> HIDE DEF z
    <3>2. z \notin DOMAIN h
      BY <3>1
    <3> QED BY <3>2 DEF z
  <2> QED BY <1>1, <2>2, <2>4
<1>3. ASSUME HasRecord(u, y) PROVE HasRecord(g, y)
  <2>1. PICK r \in DOMAIN u : Last(r) = y /\ u[r] = Record
    BY <1>3 DEF HasRecord
  <2> QED BY <1>2, <2>1 DEF HasRecord
<1>4. ASSUME HasRecord(g, y) PROVE HasRecord(u, y)
  <2>1. PICK q \in DOMAIN g : Last(q) = y /\ g[q] = Record
    BY <1>4 DEF HasRecord
  <2>2. q \notin DOMAIN h
    BY <1>1, <2>1 DEF HasRecord
  <2>3. PICK r \in DOMAIN u : q = p \o r
    BY <1>1, <2>2
  <2> QED BY <1>2, <2>1, <2>3 DEF HasRecord
<1> QED BY <1>3, <1>4 DEF g

(* The nodes that lead there are sections.                                 *)
LEMMA LeadsThere ==
    ASSUME NEW t, IsTree(t), NEW p \in Path, \A q \in DOMAIN t : Len(q) <= Len(p),
           NEW y, ~HasRecord(t, y)
    PROVE  /\ \A q \in DOMAIN Hierarchy(t, p) : Len(q) <= Len(p)
           /\ ~HasRecord(Hierarchy(t, p), y)
<1> DEFINE h == Hierarchy(t, p)
<1>1. /\ \A q \in DOMAIN t : h[q] = t[q]
      /\ \A q \in DOMAIN h \ DOMAIN t : h[q] = Section /\ \E i \in 1 .. Len(p) : q = SubSeq(p, 1, i)
  BY HierarchyIsTree
<1> HIDE DEF h
<1>2. ASSUME NEW q \in DOMAIN h PROVE Len(q) <= Len(p)
  <2>1. CASE q \in DOMAIN t
    BY <2>1
  <2>2. CASE q \notin DOMAIN t
    <3>1. PICK i \in 1 .. Len(p) : q = SubSeq(p, 1, i)
      BY <1>1, <2>2
    <3>2. Len(SubSeq(p, 1, i)) = i /\ Len(p) \in Nat
      BY SubFacts DEF Path
    <3> QED BY <3>1, <3>2
  <2> QED BY <2>1, <2>2
<1>3. Section # Record
  BY DEF Section, Record
<1>4. ~HasRecord(h, y)
  BY <1>1, <1>3 DEF HasRecord
<1> QED BY <1>2, <1>4 DEF h

LEMMA RootHas ==
    ASSUME NEW root \in Path, NEW u, IsTree(u), NEW y
    PROVE  HasRecord(Graft(Hierarchy(NoTree, root), root, u), y) <=> HasRecord(u, y)
<1> DEFINE h == Hierarchy(NoTree, root)
<1>1. IsTree(NoTree) /\ (\A q \in DOMAIN NoTree : Len(q) <= Len(root)) /\ ~HasRecord(NoTree, y)
  BY NoTreeIsTree DEF HasRecord
<1>2. (\A q \in DOMAIN h : Len(q) <= Len(root)) /\ ~HasRecord(h, y)
  BY <1>1, LeadsThere
<1>3. IsTree(h) /\ (root # << >> => root \in DOMAIN h)
  BY <1>1, HierarchyIsTree
<1> HIDE DEF h
<1>4. HasRecord(Graft(h, root, u), y) <=> HasRecord(u, y)
  BY <1>2, <1>3, GraftHas
<1> QED BY <1>4 DEF h

LEMMA NodeHas ==
    ASSUME NEW name \in Name, NEW y, y # name
    PROVE  ~HasRecord(Insert(NoTree, <<name>>, Record), y)
BY HeaderTree, SingleName DEF HasRecord

LEMMA ClosedHas ==
    ASSUME NEW name \in Name, NEW levels \in Path, NEW u, IsTree(u), NEW y, y # name
    PROVE  LET below == <<name>> \o levels
               node == Insert(NoTree, <<name>>, Record)
           IN HasRecord(Graft(Hierarchy(node, below), below, u), y) <=> HasRecord(u, y)
<1> DEFINE o == <<name>>
           below == o \o levels
           node == Insert(NoTree, o, Record)
           h == Hierarchy(node, below)
<1>1. IsTree(node) /\ o \in Path /\ DOMAIN node = {o} /\ Len(o) = 1 /\ ~HasRecord(node, y)
  BY HeaderTree, SingleName, NodeHas
<1> HIDE DEF o, node
<1>2. below \in Path /\ Len(below) >= Len(o)
  <2>1. below \in Path /\ Len(below) = 1 + Len(levels) /\ Len(levels) \in Nat
    BY <1>1, ConcatFacts DEF Path
  <2> QED BY <1>1, <2>1
<1> HIDE DEF below
<1>3. \A q \in DOMAIN node : Len(q) <= Len(below)
  BY <1>1, <1>2
<1>4. (\A q \in DOMAIN h : Len(q) <= Len(below)) /\ ~HasRecord(h, y)
  BY <1>1, <1>2, <1>3, LeadsThere
<1>5. IsTree(h) /\ (below # << >> => below \in DOMAIN h)
  BY <1>1, <1>2, HierarchyIsTree
<1> HIDE DEF h
<1>6. HasRecord(Graft(h, below, u), y) <=> HasRecord(u, y)
  BY <1>2, <1>4, <1>5, GraftHas
<1> QED BY <1>6 DEF h, below, node, o

LEMMA HeaderHas ==
    ASSUME NEW r, WellFormed(r), NEW y, y # r.name
    PROVE  ~HasRecord(Graft(Insert(NoTree, <<r.name>>, Record), <<r.name>>, r.header), y)
<1> DEFINE name == r.name
           o == <<name>>
           node == Insert(NoTree, o, Record)
           u == r.header
<1>1. name \in Name /\ IsTree(u) /\ ~HasRecord(u, y)
  BY DEF WellFormed, HasRecord
<1>2. /\ IsTree(node) /\ o \in Path /\ o \in DOMAIN node /\ ~HasRecord(node, y)
      /\ DOMAIN node = {o} /\ Len(o) = 1
  <2> HIDE DEF name
  <2> QED BY <1>1, HeaderTree, SingleName, NodeHas DEF name
<1> HIDE DEF o, node, u
<1>3. \A q \in DOMAIN node : Len(q) <= Len(o)
  <2>1. \A q \in DOMAIN node : Len(q) = 1
    BY <1>2
  <2>2. 1 <= Len(o)
    BY <1>2
  <2> QED BY <2>1, <2>2
<1>4. HasRecord(Graft(node, o, u), y) <=> HasRecord(u, y)
  BY <1>1, <1>2, <1>3, GraftHas
<1> QED BY <1>1, <1>4 DEF o, node, u

LEMMA ShowsHas ==
    ASSUME NEW t, NEW X, Shows(t, X), NEW y \in Ours
    PROVE  HasRecord(t, y) <=> y \in X
<1>1. /\ <<y>> \in DOMAIN t <=> y \in X
      /\ <<y>> \in DOMAIN t => t[<<y>>] = Record
  BY DEF Shows, Tops
<1>2. Last(<<y>>) = y
  BY SingleName
<1>3. ASSUME HasRecord(t, y) PROVE <<y>> \in DOMAIN t
  <2>1. PICK p \in DOMAIN t : Last(p) = y /\ t[p] = Record
    BY <1>3 DEF HasRecord
  <2>2. p = <<Last(p)>>
    BY <2>1 DEF Shows, Nowhere1
  <2> QED BY <2>1, <2>2
<1>4. ASSUME <<y>> \in DOMAIN t PROVE HasRecord(t, y)
  <2> DEFINE o == <<y>>
  <2>1. o \in DOMAIN t /\ t[o] = Record /\ Last(o) = y
    BY <1>1, <1>2, <1>4
  <2> HIDE DEF o
  <2> QED BY <2>1 DEF HasRecord
<1> QED BY <1>1, <1>3, <1>4

---------------------------------------------------------------------------
(* What the layout that is applied to a core record has to give, and what  *)
(* it has given.                                                           *)
OwnOf(d) == IF d = "thread" THEN {Thread} ELSE IF d = "core" THEN {Core} ELSE {}

DueOf(r, s) ==
    LET name == IF s = "thread" THEN Thread ELSE Core
    IN IF GivesRecord(r, s, name) THEN {name} ELSE {}
Due == DueOf(Rec, sub)

CoreOK == /\ sub \in {"thread", "core"}
          /\ sub = "core" => ~GivesRecord(Rec, "thread", Thread)

Sound(k) == Tops(tree, Given(Lines, k)) /\ \A i \in 1 .. k : ~Lines[i].bad

Applying ==
    /\ def.name \in {sub, "sq", "module"} /\ def.found = LayoutsOf(Rec, def.name)
    /\ Known => Sound(IF pc = "field" THEN line ELSE line - 1)
    /\ def.name \in {"sq", "module"} => Shows(base, Due)

Extending == Shows(base, Due) /\ Shows(tree, {})

(* The trees of the core records that are decoded are those of the first   *)
(* of their layouts that has given its record; the one being decoded is on *)
(* its way there, its extension on top of it.                              *)
Falling ==
    /\ FallsBack
    /\ pc = "merge" => FallsBackIn(Rec, tree)
    /\ pc \in {"layout", "field", "extend"} /\ Rec.core => CoreOK
    /\ pc \in {"layout", "field"} /\ Rec.core => Applying
    /\ pc = "extend" /\ Rec.core => Extending

LEMMA PlainIs ==
    ASSUME LayoutsPlain, TypeInv, pc # "done", Rec.core
    PROVE  /\ Thread # Core /\ Rec.name \notin Ours
           /\ \A x \in Ours : Last(x) \notin Digits
           /\ \A d \in {"thread", "core", "sq", "module"} :
                \A lines \in ToSet(LayoutsOf(Rec, d)) : PlainFor(lines, OwnOf(d))
<1> DEFINE names == [thread |-> {Thread}, core |-> {Core}, sq |-> {}, module |-> {}]
<1>1. crashlog \in CrashLogs /\ n \in 1 .. Len(crashlog)
  BY DEF TypeInv, RecordOK
<1>2. n \in DOMAIN crashlog
  BY <1>1, DecodeAssumption
<1>3. /\ Rec.name \notin {Thread, Core}
      /\ \A d \in DOMAIN names : \A lines \in ToSet(LayoutsOf(Rec, d)) : PlainFor(lines, names[d])
  BY <1>1, <1>2, Zenon DEF LayoutsPlain, Rec
<1>4. /\ DOMAIN names = {"thread", "core", "sq", "module"}
      /\ \A d \in DOMAIN names : names[d] = OwnOf(d)
  BY DEF OwnOf
<1> HIDE DEF names
<1>5. \A d \in {"thread", "core", "sq", "module"} :
        \A lines \in ToSet(LayoutsOf(Rec, d)) : PlainFor(lines, OwnOf(d))
  BY <1>3, <1>4
<1>6. Thread # Core /\ \A x \in Ours : Last(x) \notin Digits
  BY Zenon DEF LayoutsPlain, Ours, Digits
<1> QED BY <1>3, <1>5, <1>6 DEF Ours

(* The one layout of a name there is. *)
LEMMA OneLayout ==
    ASSUME NEW r, NEW d, NEW lines, LayoutsOf(r, d) = <<lines>>
    PROVE  ToSet(LayoutsOf(r, d)) = {lines}
<1>1. DOMAIN <<lines>> = {1} /\ <<lines>>[1] = lines
  OBVIOUS
<1> QED BY <1>1 DEF ToSet

LEMMA NoLayout ==
    ASSUME NEW r, NEW d, LayoutsOf(r, d) = << >>, NEW name
    PROVE  ~GivesRecord(r, d, name)
<1>1. ToSet(LayoutsOf(r, d)) = {}
  BY DEF ToSet
<1> QED BY <1>1 DEF GivesRecord

LEMMA LinesApplied ==
    ASSUME TypeInv, Known, def.found = LayoutsOf(Rec, def.name)
    PROVE  LayoutsOf(Rec, def.name) = <<Lines>> /\ Lines \in ToSet(LayoutsOf(Rec, def.name))
<1>1. PICK lines \in Seq(LayoutLine) : def.found = <<lines>>
  BY DEF TypeInv, LayoutOK, Found1, Known
<1>2. LayoutsOf(Rec, def.name) = <<Lines>>
  BY <1>1 DEF Lines
<1> QED BY <1>2, OneLayout

---------------------------------------------------------------------------
LEMMA FallDecoded ==
    ASSUME TypeInv, Falling, pc # "done", NEW STATE t, IsTree(t), Decoded(t),
           UNCHANGED crashlog, FallsBackIn(Rec, t)
    PROVE  Falling'
<1>1. WellFormed(Rec)
  BY RecIs DEF TypeInv, RecordOK, Rec
<1>2. Root(Rec) \in Path
  BY <1>1, RootIsPath
<1> DEFINE root == Root(Rec)
           u == Graft(Hierarchy(NoTree, root), root, t)
<1>3. tree' = u /\ pc' = "merge" /\ UNCHANGED <<crashlog, n, decoded>>
  BY DEF Decoded, Begin
<1>4. \A y : HasRecord(u, y) <=> HasRecord(t, y)
  BY <1>2, RootHas
<1> HIDE DEF u, root
<1>5. FallsBackIn(Rec, u)
  BY <1>4, Zenon DEF FallsBackIn
<1>6. Rec' = Rec
  BY <1>3 DEF Rec
<1> QED BY <1>3, <1>5, <1>6 DEF Falling, FallsBack

LEMMA FallHeader ==
    ASSUME LayoutsPlain, TypeInv, Falling, pc # "done", Decoded(HeaderOnly), UNCHANGED crashlog,
           Rec.core => ~GivesRecord(Rec, "thread", Thread) /\ ~GivesRecord(Rec, "core", Core)
    PROVE  Falling'
<1>1. WellFormed(Rec)
  BY RecIs DEF TypeInv, RecordOK, Rec
<1>2. FallsBackIn(Rec, HeaderOnly)
  <2> SUFFICES ASSUME Rec.core PROVE FallsBackIn(Rec, HeaderOnly)
    BY DEF FallsBackIn
  <2>1. Rec.name # Thread /\ Rec.name # Core
    BY PlainIs DEF Ours
  <2>2. ~HasRecord(HeaderOnly, Thread) /\ ~HasRecord(HeaderOnly, Core)
    BY <1>1, <2>1, HeaderHas DEF HeaderOnly, RecordNode
  <2> QED BY <2>2 DEF FallsBackIn
<1> QED BY <1>2, HeaderOnlyOK, FallDecoded

(* A layout of a core record begins. *)
LEMMA FallApply ==
    ASSUME Falling, NEW STATE r, r = Rec', NEW CONSTANT d,
           Apply(Def(r, d)), pc' = "layout", FallsBack',
           r.core => /\ sub' \in {"thread", "core"} /\ d \in {sub', "sq", "module"}
                     /\ sub' = "core" => ~GivesRecord(r, "thread", Thread)
                     /\ d \in {"sq", "module"} => Shows(base', DueOf(r, sub'))
    PROVE  Falling'
<1>1. def' = Def(r, d) /\ line' = 1 /\ tree' = NoTree
  BY DEF Apply
<1>2. def'.name = d /\ def'.found = LayoutsOf(r, d)
  BY <1>1 DEF Def
<1>3. Sound(IF pc = "field" THEN line ELSE line - 1)'
  <2>1. Given(Lines', 0) = {} /\ Tops(NoTree, {})
    BY TopsNone
  <2>2. 1 - 1 = 0 /\ 1 .. 0 = {}
    OBVIOUS
  <2>3. (IF pc' = "field" THEN line' ELSE line' - 1) = 0
    BY <1>1, <2>2
  <2> QED BY <1>1, <2>1, <2>2, <2>3 DEF Sound
<1>4. r.core => CoreOK'
  BY DEF CoreOK
<1>5. r.core => Applying'
  BY <1>2, <1>3 DEF Applying, Due
<1> QED BY <1>4, <1>5 DEF Falling

LEMMA FallNextSub ==
    ASSUME LayoutsPlain, TypeInv, Falling, pc # "done", NextSub, UNCHANGED crashlog,
           Rec.core => CoreOK /\ Due = {}
    PROVE  Falling'
<1>1. CASE sub = "thread"
  <2>1. /\ Apply(Def(Rec, "core")) /\ pc' = "layout" /\ sub' = "core"
        /\ UNCHANGED <<n, decoded>>
    BY <1>1 DEF NextSub
  <2>2. Rec' = Rec /\ FallsBack'
    BY <2>1 DEF Rec, Falling, FallsBack
  <2>3. Rec.core => ~GivesRecord(Rec, "thread", Thread)
    BY <1>1 DEF Due, DueOf
  <2>4. "core" \notin {"sq", "module"}
    OBVIOUS
  <2> QED BY <2>1, <2>2, <2>3, <2>4, FallApply
<1>2. CASE sub # "thread"
  <2>1. Rec.core => ~GivesRecord(Rec, "thread", Thread) /\ ~GivesRecord(Rec, "core", Core)
    <3> SUFFICES ASSUME Rec.core
                 PROVE  ~GivesRecord(Rec, "thread", Thread) /\ ~GivesRecord(Rec, "core", Core)
      OBVIOUS
    <3>1. sub = "core" /\ ~GivesRecord(Rec, "thread", Thread)
      BY <1>2 DEF CoreOK
    <3>2. ~GivesRecord(Rec, "core", Core)
      BY <3>1 DEF Due, DueOf
    <3> QED BY <3>1, <3>2
  <2>2. Decoded(HeaderOnly)
    BY <1>2 DEF NextSub
  <2> QED BY <2>1, <2>2, FallHeader
<1> QED BY <1>1, <1>2

LEMMA FallClose ==
    ASSUME LayoutsPlain, TypeInv, Falling, pc # "done", NEW STATE t, IsTree(t), Close(t),
           UNCHANGED crashlog, Rec.core => CoreOK /\ Shows(t, Due)
    PROVE  Falling'
<1>1. CASE <<SubName>> \notin DOMAIN t
  <2>1. ASSUME Rec.core PROVE Due = {}
    <3>1. SubName \in Ours /\ SubName \notin Due
      BY <1>1, <2>1 DEF SubName, Ours, Shows, Tops
    <3> QED BY <3>1 DEF Due, DueOf, SubName
  <2>2. NextSub
    BY <1>1 DEF Close
  <2> QED BY <2>1, <2>2, FallNextSub
<1>2. CASE <<SubName>> \in DOMAIN t
  <2>1. WellFormed(Rec) /\ Rec.name \in Name
    BY RecIs DEF TypeInv, RecordOK, Rec, WellFormed
  <2>2. Levels(t) \in Path
    BY LevelsIsPath
  <2> DEFINE below == <<Rec.name>> \o Levels(t)
             x == Graft(Hierarchy(RecordNode, below), below, t)
  <2>3. IsTree(x)
    BY <2>1, <2>2, ClosedIsTree DEF RecordNode
  <2>4. Decoded(x)
    BY <1>2 DEF Close
  <2>5. \A y : y # Rec.name => (HasRecord(x, y) <=> HasRecord(t, y))
    BY <2>1, <2>2, ClosedHas DEF RecordNode
  <2> HIDE DEF x
  <2>6. FallsBackIn(Rec, x)
    <3> SUFFICES ASSUME Rec.core PROVE FallsBackIn(Rec, x)
      BY DEF FallsBackIn
    <3>1. Thread # Core /\ Rec.name \notin Ours
      BY PlainIs
    <3>2. \A y \in Ours : HasRecord(x, y) <=> y \in Due
      <4> TAKE y \in Ours
      <4>1. HasRecord(t, y) <=> y \in Due
        BY ShowsHas
      <4> QED BY <2>5, <3>1, <4>1
    <3>3. SubName \in Ours /\ SubName \in Due
      BY <1>2 DEF SubName, Ours, Shows, Tops
    <3>4. CASE sub = "thread"
      <4>1. GivesRecord(Rec, "thread", Thread) /\ Due = {Thread}
        BY <3>3, <3>4 DEF Due, DueOf
      <4> QED BY <3>1, <3>2, <4>1 DEF FallsBackIn, Ours
    <3>5. CASE sub = "core"
      <4>1. GivesRecord(Rec, "core", Core) /\ Due = {Core} /\ ~GivesRecord(Rec, "thread", Thread)
        BY <3>3, <3>5 DEF Due, DueOf, CoreOK
      <4> QED BY <3>1, <3>2, <4>1 DEF FallsBackIn, Ours
    <3> QED BY <3>4, <3>5 DEF CoreOK
  <2> QED BY <2>3, <2>4, <2>6, FallDecoded
<1> QED BY <1>1, <1>2

---------------------------------------------------------------------------
(* What a layout gives of the records named for threads and cores.         *)
LEMMA GivenIsDue ==
    ASSUME NEW r, NEW s \in {"thread", "core"}, NEW d \in {s, "sq", "module"}, NEW lines,
           LayoutsOf(r, d) = <<lines>>, lines \in Seq(LayoutLine),
           PlainFor(lines, OwnOf(d)), \A i \in 1 .. Len(lines) : ~lines[i].bad
    PROVE  Given(lines, Len(lines)) = IF d = s THEN DueOf(r, s) ELSE {}
<1> DEFINE given == Given(lines, Len(lines))
<1>1. DOMAIN lines = 1 .. Len(lines)
  OBVIOUS
<1>2. \A x \in given : x \in Ours /\ x \in OwnOf(d)
  BY <1>1 DEF PlainFor, Given, Ours
<1>3. CASE d = s
  <2> DEFINE name == IF s = "thread" THEN Thread ELSE Core
  <2>1. OwnOf(d) = {name} /\ name \in Ours
    BY <1>3 DEF OwnOf, Ours
  <2>2. ToSet(LayoutsOf(r, d)) = {lines}
    BY OneLayout
  <2>3. GivesRecord(r, d, name) <=> name \in given
    BY <1>1, <2>1, <2>2 DEF GivesRecord, Given
  <2> HIDE DEF given
  <2>4. given = IF GivesRecord(r, d, name) THEN {name} ELSE {}
    BY <1>2, <2>1, <2>3
  <2> QED BY <1>3, <2>4 DEF DueOf, given
<1>4. CASE d # s
  <2>1. d \in {"sq", "module"}
    BY <1>4
  <2>2. OwnOf(d) = {}
    BY <2>1 DEF OwnOf
  <2> QED BY <1>2, <1>4, <2>2
<1> QED BY <1>3, <1>4

(* A layout of a core record is applied. *)
LEMMA AppliedIs ==
    ASSUME LayoutsPlain, TypeInv, FieldInv, Falling, Rec.core, pc \in {"layout", "field"}, Known
    PROVE  /\ CoreOK /\ Applying /\ def.name \in {sub, "sq", "module"} /\ pc # "done"
           /\ Lines \in Seq(LayoutLine) /\ LayoutsOf(Rec, def.name) = <<Lines>>
           /\ PlainFor(Lines, OwnOf(def.name)) /\ Reading
<1>1. CoreOK /\ Applying /\ pc # "done" /\ Reading
  BY DEF Falling, FieldInv
<1>2. def.name \in {sub, "sq", "module"} /\ sub \in {"thread", "core"}
  BY <1>1 DEF Applying, CoreOK
<1>3. Lines \in Seq(LayoutLine)
  BY LinesAre
<1>4. LayoutsOf(Rec, def.name) = <<Lines>> /\ Lines \in ToSet(LayoutsOf(Rec, def.name))
  BY <1>1, LinesApplied DEF Applying
<1>5. def.name \in {"thread", "core", "sq", "module"}
  BY <1>2
<1>6. PlainFor(Lines, OwnOf(def.name))
  BY <1>1, <1>4, <1>5, PlainIs
<1> QED BY <1>1, <1>2, <1>3, <1>4, <1>6

LEMMA FallSkip ==
    ASSUME TypeInv, Falling, SkipLine
    PROVE  Falling'
<1>1. /\ pc = "layout" /\ pc' = "layout" /\ Known /\ line <= Len(Lines) /\ ~Lines[line].bad
      /\ Lines[line].name = << >> /\ line' = line + 1
      /\ UNCHANGED <<crashlog, n, sub, def, tree, base, decoded>>
  BY DEF SkipLine, AtLine
<1>2. /\ Rec' = Rec /\ Lines' = Lines /\ Due' = Due /\ Known' /\ FallsBack' = FallsBack
  BY <1>1 DEF Rec, Lines, Due, Known, FallsBack
<1>3. line \in Nat \ {0} /\ (line + 1) - 1 = line
  BY DEF TypeInv, LayoutOK
<1>4. ASSUME Rec.core PROVE Applying'
  <2>1. Applying /\ Sound(line - 1)
    BY <1>1, <1>4 DEF Falling, Applying
  <2>2. Given(Lines, line) = Given(Lines, line - 1)
    BY <1>1, <1>3, GivenSkip
  <2>3. \A i \in 1 .. line : i \in 1 .. line - 1 \/ i = line
    BY <1>3
  <2>4. Sound(line)
    BY <1>1, <2>1, <2>2, <2>3 DEF Sound
  <2>5. Sound(IF pc = "field" THEN line ELSE line - 1)'
    BY <1>1, <1>2, <1>3, <2>4 DEF Sound
  <2> QED BY <1>1, <1>2, <2>1, <2>5 DEF Applying
<1> QED BY <1>1, <1>2, <1>4 DEF Falling, CoreOK

LEMMA FallTake ==
    ASSUME LayoutsPlain, TypeInv, FieldInv, Falling, TakeLine
    PROVE  Falling'
<1> DEFINE name == Lines[line].name
           to == PathOf(name, path)
           u == WithRecord(tree, name)
           h == Hierarchy(u, to)
<1>1. /\ pc = "layout" /\ pc' = "field" /\ Known /\ line <= Len(Lines) /\ ~Lines[line].bad
      /\ name # << >> /\ tree' = h
      /\ UNCHANGED <<crashlog, n, sub, def, line, base, decoded>>
  BY DEF TakeLine, AtLine
<1>2. /\ Rec' = Rec /\ Lines' = Lines /\ Due' = Due /\ Known' /\ FallsBack' = FallsBack
  BY <1>1 DEF Rec, Lines, Due, Known, FallsBack
<1>3. /\ line \in Nat \ {0} /\ name \in Seq(Seq(Int)) /\ path \in Path /\ IsTree(tree)
  BY <1>1, LineIs DEF TypeInv, LayoutOK, TreesOK
<1>4. to \in Path
  <2> HIDE DEF name
  <2> QED BY <1>1, <1>3, PathOfIsPath
<1>5. ASSUME Rec.core PROVE Applying'
  <2>1. Applying /\ Sound(line - 1)
    BY <1>1, <1>5 DEF Falling, Applying
  <2>2. Lines \in Seq(LayoutLine) /\ PlainFor(Lines, OwnOf(def.name)) /\ Reading
    BY <1>1, <1>5, AppliedIs
  <2>3. line \in 1 .. Len(Lines) /\ DOMAIN Lines = 1 .. Len(Lines)
    BY <1>1, <1>3, <2>2
  <2>4. to = PlaceOf(Lines, line)
    BY <1>1, <2>2, <2>3, PlacesAre DEF Reading
  <2> HIDE DEF to
  <2>5. to # << >> /\ to[1] \in Ours => to[1] \in Given(Lines, line)
    BY <1>1, <2>2, <2>3, <2>4 DEF PlainFor, Given, Ours
  <2>6. Tops(h, Given(Lines, line))
    BY <1>1, <1>3, <1>4, <2>1, <2>5, TopsTaken DEF Sound
  <2>7. \A i \in 1 .. line : i \in 1 .. line - 1 \/ i = line
    BY <1>3
  <2> HIDE DEF h
  <2>8. Sound(line)'
    BY <1>1, <1>2, <2>1, <2>6, <2>7 DEF Sound
  <2>9. Sound(IF pc = "field" THEN line ELSE line - 1)'
    BY <1>1, <2>8 DEF Sound
  <2> QED BY <1>1, <1>2, <2>1, <2>9 DEF Applying
<1> QED BY <1>1, <1>2, <1>5 DEF Falling, CoreOK

LEMMA FallReads ==
    ASSUME Falling, ReadChunk
    PROVE  Falling'
<1>1. /\ pc = "field" /\ UNCHANGED <<crashlog, n, sub, def, pc, line, tree, base, decoded>>
  BY DEF ReadChunk
<1>2. Rec' = Rec /\ Lines' = Lines /\ Due' = Due /\ Known' = Known /\ FallsBack' = FallsBack
  BY <1>1 DEF Rec, Lines, Due, Known, FallsBack
<1>3. Applying' = Applying
  BY <1>1, <1>2 DEF Applying, Sound
<1> QED BY <1>1, <1>2, <1>3 DEF Falling, CoreOK

(* A field is read, or is not there. *)
LEMMA FallField ==
    ASSUME LayoutsPlain, TypeInv, FieldInv, Falling, FieldDone \/ FieldMissing
    PROVE  Falling'
<1>1. /\ pc = "field" /\ pc' = "layout" /\ line' = line + 1
      /\ UNCHANGED <<crashlog, n, sub, def, base, decoded>>
      /\ \/ tree' = tree
         \/ Readable /\ path # << >> /\ tree' = [tree EXCEPT ![path] = Field(value)]
  BY DEF FieldDone, FieldMissing
<1>2. /\ Rec' = Rec /\ Lines' = Lines /\ Due' = Due /\ Known' = Known /\ FallsBack' = FallsBack
  BY <1>1 DEF Rec, Lines, Due, Known, FallsBack
<1>3. /\ line \in Nat \ {0} /\ (line + 1) - 1 = line /\ Known /\ line <= Len(Lines)
  BY <1>1 DEF TypeInv, LayoutOK
<1>4. ASSUME Rec.core PROVE Applying'
  <2>1. Applying /\ Sound(line)
    BY <1>1, <1>3, <1>4 DEF Falling, Applying
  <2>2. Lines \in Seq(LayoutLine) /\ PlainFor(Lines, OwnOf(def.name)) /\ Reading
    BY <1>1, <1>3, <1>4, AppliedIs
  <2>3. line \in DOMAIN Lines /\ Lines[line].name # << >> /\ path = PlaceOf(Lines, line)
    BY <1>1, <1>3, <2>2 DEF Reading
  <2>4. ASSUME Readable, NEW x \in Ours PROVE path # <<x>>
    <3>1. Lines[line].size \in Nat /\ Lines[line].size <= 64
      BY <1>3, <2>4, LineIs DEF Readable, Size
    <3>2. path = <<x>> => Lines[line].size > 64
      BY <2>2, <2>3 DEF PlainFor, Ours
    <3> QED BY <3>1, <3>2
  <2>5. Tops(tree', Given(Lines, line))
    <3>1. Tops(tree, Given(Lines, line))
      BY <2>1 DEF Sound
    <3>2. CASE tree' = tree
      BY <3>1, <3>2
    <3>3. CASE Readable /\ tree' = [tree EXCEPT ![path] = Field(value)]
      BY <2>4, <3>1, <3>3, TopsFilled
    <3> QED BY <1>1, <3>2, <3>3
  <2>6. Sound(IF pc = "field" THEN line ELSE line - 1)'
    BY <1>1, <1>2, <1>3, <2>1, <2>5 DEF Sound
  <2> QED BY <1>1, <1>2, <2>1, <2>6 DEF Applying
<1> QED BY <1>1, <1>2, <1>4 DEF Falling, CoreOK

(* All lines of a layout are applied. *)
LEMMA WholeLayout ==
    ASSUME LayoutsPlain, TypeInv, Sited, FieldInv, Falling, Rec.core, Complete
    PROVE  Shows(tree, IF def.name = sub THEN Due ELSE {})
<1>1. pc = "layout" /\ Known /\ line > Len(Lines)
  BY DEF Complete
<1>2. /\ CoreOK /\ Applying /\ def.name \in {sub, "sq", "module"}
      /\ Lines \in Seq(LayoutLine) /\ LayoutsOf(Rec, def.name) = <<Lines>>
      /\ PlainFor(Lines, OwnOf(def.name)) /\ Reading
  BY <1>1, AppliedIs
<1>3. line - 1 = Len(Lines)
  <2>1. line <= Len(Lines) + 1 /\ Len(Lines) \in Nat /\ line \in Nat
    BY <1>1, <1>2 DEF Reading, TypeInv, LayoutOK
  <2> QED BY <1>1, <2>1
<1>4. Sound(line - 1)
  BY <1>1, <1>2 DEF Applying
<1>5. Tops(tree, Given(Lines, Len(Lines))) /\ \A i \in 1 .. Len(Lines) : ~Lines[i].bad
  BY <1>3, <1>4 DEF Sound
<1>6. sub \in {"thread", "core"}
  BY <1>2 DEF CoreOK
<1>7. Given(Lines, Len(Lines)) = IF def.name = sub THEN DueOf(Rec, sub) ELSE {}
  BY <1>2, <1>5, <1>6, GivenIsDue
<1>8. Nowhere1(tree)
  BY <1>1, FlatIsNowhere DEF Sited, TypeInv, TreesOK
<1> QED BY <1>5, <1>7, <1>8 DEF Shows, Due

LEMMA FallDone ==
    ASSUME LayoutsPlain, TypeInv, Sited, FieldInv, Falling, LayoutDone
    PROVE  Falling'
<1>1. /\ def.name \in DefNames /\ pc = "layout" /\ UNCHANGED crashlog /\ Complete
      /\ Known /\ IsTree(tree)
  BY DEF LayoutDone, Complete, TypeInv, LayoutOK, TreesOK
<1>2. ASSUME Rec.core
      PROVE  CoreOK /\ Applying /\ Shows(tree, IF def.name = sub THEN Due ELSE {})
  BY <1>1, <1>2, AppliedIs, WholeLayout
<1>3. Rec.core => def.name # "layout"
  BY <1>2 DEF CoreOK, Applying
<1>4. def.name \in {"thread", "core"} /\ Rec.core => def.name = sub
  BY <1>2 DEF Applying
<1>5. def.name \in {"sq", "module"} /\ Rec.core => def.name # sub
  BY <1>2 DEF CoreOK
<1>6. CASE def.name = "layout"
  <2>1. Decoded(tree)
    BY <1>6 DEF LayoutDone
  <2>2. FallsBackIn(Rec, tree)
    BY <1>3, <1>6 DEF FallsBackIn
  <2> QED BY <1>1, <2>1, <2>2, FallDecoded
<1>7. CASE def.name \in {"thread", "core"} /\ Rec.extended < 0
  <2>1. Close(tree)
    BY <1>7 DEF LayoutDone
  <2>2. Rec.core => CoreOK /\ Shows(tree, Due)
    BY <1>2, <1>4, <1>7
  <2> QED BY <1>1, <2>1, <2>2, FallClose
<1>8. CASE def.name \in {"thread", "core"} /\ ~(Rec.extended < 0)
  <2>1. /\ Apply(Def(Rec, "sq")) /\ base' = tree
        /\ UNCHANGED <<n, sub, pc, todo, at, added, result, decoded>>
    BY <1>8 DEF LayoutDone
  <2>2. Rec' = Rec /\ FallsBack' /\ pc' = "layout"
    BY <1>1, <2>1 DEF Rec, Falling, FallsBack
  <2>3. Rec.core => /\ sub' \in {"thread", "core"}
                    /\ sub' = "core" => ~GivesRecord(Rec, "thread", Thread)
                    /\ Shows(base', DueOf(Rec, sub'))
    BY <1>2, <1>4, <1>8, <2>1 DEF CoreOK, Due
  <2> QED BY <2>1, <2>2, <2>3, FallApply
<1>9. CASE def.name \in {"sq", "module"}
  <2>1. pc' = "extend" /\ tree' = tree /\ UNCHANGED <<n, sub, base, decoded>>
    BY <1>9 DEF LayoutDone, Begin
  <2>2. Rec' = Rec /\ Due' = Due /\ FallsBack'
    BY <1>1, <2>1 DEF Rec, Due, Falling, FallsBack
  <2>3. Rec.core => CoreOK' /\ Extending'
    BY <1>2, <1>5, <1>9, <2>1, <2>2 DEF CoreOK, Applying, Extending
  <2> QED BY <2>1, <2>2, <2>3 DEF Falling
<1> QED BY <1>1, <1>6, <1>7, <1>8, <1>9 DEF DefNames

LEMMA FallFails ==
    ASSUME LayoutsPlain, TypeInv, Falling, LayoutFails
    PROVE  Falling'
<1>1. /\ def.name \in DefNames /\ pc = "layout" /\ UNCHANGED crashlog /\ Failed
      /\ IsTree(base)
  BY DEF LayoutFails, Failed, TypeInv, LayoutOK, TreesOK
<1>2. Rec.core => CoreOK /\ Applying
  BY <1>1 DEF Falling
<1>3. Rec.core => def.name # "layout"
  BY <1>2 DEF CoreOK, Applying
<1>4. ASSUME Rec.core, def.name \in {"thread", "core"} PROVE Due = {}
  <2>1. def.name = sub /\ def.found = LayoutsOf(Rec, sub)
    BY <1>2, <1>4 DEF Applying
  <2>2. \A name : ~GivesRecord(Rec, sub, name)
    <3>1. CASE ~Known
      BY <2>1, <3>1, NoLayout DEF Known
    <3>2. CASE Known
      <4>1. line <= Len(Lines) /\ Lines[line].bad
        BY <1>1, <3>2 DEF Failed
      <4>2. LayoutsOf(Rec, sub) = <<Lines>>
        BY <2>1, <3>2, LinesApplied
      <4>3. ToSet(LayoutsOf(Rec, sub)) = {Lines}
        BY <4>2, OneLayout
      <4>4. line \in DOMAIN Lines
        <5>1. Lines \in Seq(LayoutLine) /\ line \in Nat \ {0}
          BY <3>2, LinesAre DEF TypeInv, LayoutOK
        <5> QED BY <4>1, <5>1
      <4> QED BY <4>1, <4>3, <4>4 DEF GivesRecord
    <3> QED BY <3>1, <3>2
  <2> QED BY <2>2 DEF Due, DueOf
<1>5. CASE def.name = "layout"
  <2>1. Decoded(HeaderOnly)
    BY <1>5 DEF LayoutFails
  <2> QED BY <1>1, <1>3, <1>5, <2>1, FallHeader
<1>6. CASE def.name \in {"thread", "core"}
  <2>1. NextSub
    BY <1>6 DEF LayoutFails
  <2> QED BY <1>1, <1>2, <1>4, <1>6, <2>1, FallNextSub
<1>7. CASE def.name = "sq"
  <2>1. /\ Apply(Def(Rec, "module"))
        /\ UNCHANGED <<n, sub, pc, base, todo, at, added, result, decoded>>
    BY <1>7 DEF LayoutFails
  <2>2. Rec' = Rec /\ FallsBack' /\ pc' = "layout"
    BY <1>1, <2>1 DEF Rec, Falling, FallsBack
  <2>3. Rec.core => /\ sub' \in {"thread", "core"}
                    /\ sub' = "core" => ~GivesRecord(Rec, "thread", Thread)
                    /\ Shows(base', DueOf(Rec, sub'))
    BY <1>2, <1>7, <2>1 DEF CoreOK, Applying, Due
  <2> QED BY <2>1, <2>2, <2>3, FallApply
<1>8. CASE def.name = "module"
  <2>1. Close(base)
    BY <1>8 DEF LayoutFails
  <2>2. Rec.core => CoreOK /\ Shows(base, Due)
    BY <1>2, <1>8 DEF Applying
  <2> QED BY <1>1, <2>1, <2>2, FallClose
<1> QED BY <1>1, <1>5, <1>6, <1>7, <1>8 DEF DefNames

(* The nodes of an extension are none of the records that are looked for.  *)
LEMMA NewIsNone ==
    ASSUME NEW t, NEW X, Shows(t, X), NEW u, Shows(u, {}),
           \A x \in Ours : Last(x) \notin Digits /\ x \in Name,
           NEW z \in DOMAIN u, z \in Path, NEW to \in Path, z # << >>, Len(to) = Len(z),
           Alias(Last(to), Last(z)), Last(z) \in Name
    PROVE  Shows(Insert(t, to, u[z]), X)
<1> DEFINE v == Insert(t, to, u[z])
<1>1. DOMAIN v = DOMAIN t \cup {to} /\ v[to] = u[z] /\ \A q \in DOMAIN t : q # to => v[q] = t[q]
  BY DEF Insert
<1> HIDE DEF v
<1>2. ASSUME Last(to) \in Ours PROVE Last(z) = Last(to)
  <2>1. PICK d \in Seq(Digits) : Last(to) = Last(z) \o d
    BY DEF Alias
  <2>2. d = << >>
    BY <1>2, <2>1, NumberedName
  <2> QED BY <2>1, <2>2, ConcatFacts DEF Name
<1>3. ASSUME NEW x \in Ours PROVE to # <<x>>
  <2> SUFFICES ASSUME to = <<x>> PROVE FALSE
    OBVIOUS
  <2>1. Len(to) = 1 /\ Last(to) = x
    BY SingleName
  <2>2. z = <<x>>
    BY <1>2, <2>1, OneName
  <2>3. <<x>> \notin DOMAIN u
    BY DEF Shows, Tops
  <2> QED BY <2>2, <2>3
<1>4. Tops(v, X)
  BY <1>1, <1>3 DEF Shows, Tops
<1>5. ASSUME u[z] = Record, Last(to) \in Ours PROVE FALSE
  <2>1. Last(z) \in Ours /\ Last(z) = Last(to)
    BY <1>2, <1>5
  <2>2. z = <<Last(z)>>
    BY <1>5, <2>1 DEF Shows, Nowhere1
  <2>3. <<Last(z)>> \notin DOMAIN u
    BY <2>1 DEF Shows, Tops
  <2> QED BY <2>2, <2>3
<1>6. Nowhere1(v)
  BY <1>1, <1>5 DEF Shows, Nowhere1
<1> QED BY <1>4, <1>6 DEF Shows, v

LEMMA FallMerge ==
    ASSUME LayoutsPlain, TypeInv, TypeInv', Falling, MergeNode
    PROVE  Falling'
<1>1. PICK z \in todo, to \in Path : Goes(z, to)
  BY MergeFacts
<1>2. /\ pc \in {"extend", "merge"} /\ (pc = "extend" => base' = Target')
      /\ UNCHANGED <<crashlog, n, sub, def, pc, tree, decoded>>
  BY MergeFacts
<1>3. Rec' = Rec /\ Due' = Due /\ FallsBack' = FallsBack
  BY <1>2 DEF Rec, Due, FallsBack
<1>4. ASSUME pc = "extend", Rec.core PROVE Extending'
  <2>1. Target = base /\ Shows(base, Due) /\ Shows(tree, {}) /\ base' = Target'
    BY <1>2, <1>4 DEF Target, Falling, Extending
  <2>2. CASE Old(z, to)
    BY <1>2, <1>3, <2>1, <2>2 DEF Old, Extending
  <2>3. CASE New(z, to)
    <3>1. base' = Insert(base, to, tree[z]) /\ Alias(Last(to), Last(z))
      BY <2>1, <2>3 DEF New
    <3>2. Merging(Target, tree, todo, at, added)
      BY <1>4 DEF TypeInv, MergeOK
    <3>3. z \in DOMAIN tree /\ IsTree(tree)
      BY <3>2 DEF Merging, Moving
    <3>4. z \in Path /\ z # << >> /\ Last(z) \in Name
      BY <3>3, TreeFacts
    <3>5. Len(to) = Len(z)
      <4>1. Merging(Target', tree', todo', at', added')
        BY <1>2, <1>4 DEF TypeInv, MergeOK
      <4>2. at' = Insert(at, z, to)
        BY <1>1 DEF Goes
      <4>3. z \in DOMAIN at' /\ at'[z] = to
        BY <4>2 DEF Insert
      <4> QED BY <4>1, <4>3, GoneFacts
    <3>6. \A x \in Ours : Last(x) \notin Digits /\ x \in Name
      BY <1>4, PlainIs, OursAreNames
    <3>7. Shows(base', Due)
      BY <2>1, <3>1, <3>3, <3>4, <3>5, <3>6, NewIsNone
    <3> QED BY <1>2, <1>3, <2>1, <3>7 DEF Extending
  <2> QED BY <1>1, <2>2, <2>3 DEF Goes
<1> QED BY <1>2, <1>3, <1>4 DEF Falling, CoreOK

LEMMA FallExtended ==
    ASSUME LayoutsPlain, TypeInv, Falling, Extended
    PROVE  Falling'
<1>1. pc = "extend" /\ Close(base) /\ UNCHANGED crashlog /\ IsTree(base)
  BY DEF Extended, TypeInv, TreesOK
<1>2. Rec.core => CoreOK /\ Shows(base, Due)
  BY <1>1 DEF Falling, Extending
<1> QED BY <1>1, <1>2, FallClose

LEMMA FallMerged ==
    ASSUME TypeInv, Sited, Falling, Merged
    PROVE  Falling'
<1>1. /\ pc = "merge" /\ decoded' = Append(decoded, tree) /\ n' = n + 1 /\ sub' = "thread"
      /\ UNCHANGED crashlog
      /\ IF n < Len(crashlog)
         THEN Apply(FirstDef(crashlog[n + 1])) /\ pc' = "layout"
         ELSE pc' = "done"
  BY DEF Merged
<1>2. /\ Len(decoded) \in Nat
      /\ DOMAIN decoded = 1 .. Len(decoded) /\ DOMAIN decoded' = 1 .. Len(decoded) + 1
      /\ \A i \in 1 .. Len(decoded) : decoded'[i] = decoded[i]
      /\ decoded'[Len(decoded) + 1] = tree
  BY <1>1, AppendElement DEF TypeInv, TreesOK
<1>3. Len(decoded) + 1 = n
  BY <1>1, <1>2 DEF Sited, TypeInv, RecordOK
<1>4. FallsBack'
  <2> SUFFICES ASSUME NEW k \in DOMAIN decoded' PROVE FallsBackIn(crashlog[k], decoded'[k])
    BY <1>1 DEF FallsBack
  <2>1. CASE k \in DOMAIN decoded
    BY <1>2, <2>1 DEF Falling, FallsBack
  <2>2. CASE k = Len(decoded) + 1
    BY <1>1, <1>2, <1>3, <2>2 DEF Falling, Rec
  <2> QED BY <1>2, <2>1, <2>2
<1>5. CASE n < Len(crashlog)
  <2> DEFINE r == crashlog[n + 1]
             d == IF r.core THEN "thread" ELSE "layout"
  <2>1. Rec' = r /\ Apply(Def(r, d)) /\ pc' = "layout"
    BY <1>1, <1>5 DEF Rec, FirstDef
  <2>2. ASSUME r.core PROVE d = "thread"
    BY <2>2
  <2> HIDE DEF r
  <2>3. CASE r.core
    <3>1. Apply(Def(r, "thread"))
      BY <2>1, <2>3
    <3> QED BY <1>1, <1>4, <2>1, <3>1, FallApply
  <2>4. CASE ~r.core
    <3>1. Apply(Def(r, "layout"))
      BY <2>1, <2>4
    <3> QED BY <1>1, <1>4, <2>1, <2>4, <3>1, FallApply
  <2> QED BY <2>3, <2>4
<1>6. CASE ~(n < Len(crashlog))
  BY <1>1, <1>4, <1>6 DEF Falling
<1> QED BY <1>5, <1>6

LEMMA FallInit ==
    ASSUME Init
    PROVE  Falling
<1>1. /\ pc = "layout" /\ line = 1 /\ tree = NoTree /\ n = 1 /\ sub = "thread"
      /\ def = FirstDef(Rec) /\ decoded = << >>
  BY DEF Init, Rec
<1>2. FallsBack
  BY <1>1 DEF FallsBack
<1>3. ASSUME Rec.core PROVE CoreOK /\ Applying
  <2>1. def.name = "thread" /\ def.found = LayoutsOf(Rec, "thread")
    BY <1>1, <1>3 DEF FirstDef, Def
  <2>2. line - 1 = 0 /\ 1 .. 0 = {}
    BY <1>1
  <2>3. Sound(line - 1)
    BY <1>1, <2>2, TopsNone DEF Sound
  <2> QED BY <1>1, <2>1, <2>3 DEF CoreOK, Applying
<1> QED BY <1>1, <1>2, <1>3 DEF Falling

LEMMA FallStep ==
    ASSUME LayoutsPlain, TypeInv, TypeInv', Sited, FieldInv, Falling, [Next]_vars
    PROVE  Falling'
<1>1. CASE SkipLine
  BY <1>1, FallSkip
<1>2. CASE TakeLine
  BY <1>2, FallTake
<1>3. CASE NodeMissing
  <2>1. pc' = "panicked" /\ UNCHANGED <<crashlog, decoded>>
    BY <1>3 DEF NodeMissing
  <2> QED BY <2>1 DEF Falling, FallsBack
<1>4. CASE ReadChunk
  BY <1>4, FallReads
<1>5. CASE FieldDone \/ FieldMissing
  BY <1>5, FallField
<1>6. CASE LayoutDone
  BY <1>6, FallDone
<1>7. CASE LayoutFails
  BY <1>7, FallFails
<1>8. CASE MergeNode
  BY <1>8, FallMerge
<1>9. CASE Extended
  BY <1>9, FallExtended
<1>10. CASE Merged
  BY <1>10, FallMerged
<1>11. CASE UNCHANGED vars
  <2>1. UNCHANGED <<crashlog, n, sub, def, pc, line, tree, base, decoded>>
    BY <1>11 DEF vars
  <2>2. Rec' = Rec /\ Lines' = Lines /\ Due' = Due /\ Known' = Known /\ FallsBack' = FallsBack
    BY <2>1 DEF Rec, Lines, Due, Known, FallsBack
  <2>3. Applying' = Applying /\ Extending' = Extending
    BY <2>1, <2>2 DEF Applying, Sound, Extending
  <2> QED BY <2>1, <2>2, <2>3 DEF Falling, CoreOK
<1> QED BY <1>1, <1>2, <1>3, <1>4, <1>5, <1>6, <1>7, <1>8, <1>9, <1>10, <1>11 DEF Next

(* With layouts like the ones the collateral tree has, a core record is    *)
(* decoded as its threads if their layout is sound and gives one, else as  *)
(* its core, else as its header, whatever extends it (record/core.rs,      *)
(* decode_as_core_record).                                                 *)
THEOREM CoreRecordsFallBack == Spec => [](LayoutsPlain => FallsBack)
<1>1. Init => (LayoutsPlain => Falling)
  BY FallInit
<1>2. TypeInv /\ TypeInv' /\ Sited /\ FieldInv /\ (LayoutsPlain => Falling) /\ [Next]_vars
      => (LayoutsPlain => Falling)'
  <2>1. LayoutsPlain' = LayoutsPlain
    BY DEF LayoutsPlain
  <2> QED BY <2>1, FallStep
<1>3. (LayoutsPlain => Falling) => (LayoutsPlain => FallsBack)
  BY DEF Falling
<1>4. Init /\ TypeInv => FieldInv
  BY FieldInit
<1>5. TypeInv /\ TypeInv' /\ FieldInv /\ [Next]_vars => FieldInv'
  BY FieldInvStep
<1> QED BY <1>1, <1>2, <1>3, <1>4, <1>5, TreesSound, EachRecordIsAtHome, PTL DEF Spec

---------------------------------------------------------------------------
(* What the report of a decoded crash log says first. *)
Elements(s) == {s[i] : i \in DOMAIN s}
IsSequence(s) == s \in Seq(Elements(s))

LEMMA AppendFacts ==
    ASSUME NEW s, IsSequence(s), NEW x
    PROVE  /\ IsSequence(Append(s, x))
           /\ Elements(Append(s, x)) = Elements(s) \cup {x}
           /\ Len(s) \in Nat /\ DOMAIN s = 1 .. Len(s)
           /\ Len(Append(s, x)) = Len(s) + 1
           /\ DOMAIN Append(s, x) = 1 .. Len(s) + 1
           /\ \A i \in 1 .. Len(s) : Append(s, x)[i] = s[i]
           /\ Append(s, x)[Len(s) + 1] = x
<1> DEFINE S == Elements(s) \cup {x}
           t == Append(s, x)
<1>1. s \in Seq(S) /\ x \in S
  <2>1. \A T : Elements(s) \subseteq T => Seq(Elements(s)) \subseteq Seq(T)
    OBVIOUS
  <2> QED BY <2>1 DEF IsSequence
<1> HIDE DEF S
<1>2. /\ t \in Seq(S) /\ Len(s) \in Nat /\ DOMAIN s = 1 .. Len(s)
      /\ Len(t) = Len(s) + 1 /\ DOMAIN t = 1 .. Len(s) + 1
      /\ \A i \in 1 .. Len(s) : t[i] = s[i]
      /\ t[Len(s) + 1] = x
  BY <1>1
<1> HIDE DEF t
<1>3. Elements(t) = Elements(s) \cup {x}
  <2>1. \A i : i \in 1 .. Len(s) + 1 <=> i \in 1 .. Len(s) \/ i = Len(s) + 1
    BY <1>2
  <2>2. ASSUME NEW e PROVE e \in Elements(t) <=> e \in Elements(s) \cup {x}
    <3>1. e \in Elements(t) <=> \E i \in 1 .. Len(s) + 1 : e = t[i]
      BY <1>2, Zenon DEF Elements
    <3>2. e \in Elements(s) <=> \E i \in 1 .. Len(s) : e = s[i]
      BY <1>2, Zenon DEF Elements
    <3> QED BY <1>2, <2>1, <3>1, <3>2, Zenon
  <2> QED BY <2>2, Zenon
<1> QED BY <1>2, <1>3 DEF IsSequence, S, t

(* Sequences joined are a sequence. *)
LEMMA JoinFacts ==
    ASSUME NEW s, IsSequence(s), NEW u, IsSequence(u)
    PROVE  /\ IsSequence(s \o u)
           /\ s # << >> => (s \o u)[1] = s[1]
<1> DEFINE S == Elements(s) \cup Elements(u)
           t == s \o u
<1>1. s \in Seq(S) /\ u \in Seq(S)
  <2>1. \A T, R : R \subseteq T => Seq(R) \subseteq Seq(T)
    OBVIOUS
  <2> QED BY <2>1 DEF IsSequence
<1> HIDE DEF S
<1>2. t \in Seq(S) /\ (s # << >> => t[1] = s[1])
  BY <1>1
<1> HIDE DEF t
<1>3. t \in Seq(Elements(t))
  <2>1. /\ DOMAIN t = 1 .. Len(t) /\ Len(t) \in Nat
        /\ t = [i \in 1 .. Len(t) |-> t[i]]
    BY <1>2
  <2>2. \A i \in 1 .. Len(t) : t[i] \in Elements(t)
    BY <2>1 DEF Elements
  <2> QED BY <2>1, <2>2
<1> QED BY <1>2, <1>3 DEF IsSequence, t

---------------------------------------------------------------------------
(* The nodes the walk comes to are sequences, and so are those below them. *)

LEMMA AtFacts ==
    ASSUME NEW p, IsSequence(p), NEW words, IsSequence(words)
    PROVE  IsSequence(At(p, words))
<1> DEFINE names == [i \in DOMAIN words |-> Word[words[i]]]
<1>1. DOMAIN words = 1 .. Len(words) /\ Len(words) \in Nat
  BY DEF IsSequence
<1>2. \A i \in 1 .. Len(words) : names[i] \in Elements(names)
  BY <1>1 DEF Elements
<1>3. names \in [1 .. Len(words) -> Elements(names)]
  BY <1>1, <1>2
<1>4. names \in Seq(Elements(names))
  BY <1>1, <1>3
<1>5. IsSequence(names)
  BY <1>4 DEF IsSequence
<1> QED BY <1>5, JoinFacts DEF At

LEMMA ChildFacts ==
    ASSUME NEW p, IsSequence(p), NEW q \in Children(p)
    PROVE  IsSequence(q)
<1>1. PICK x : q = Append(p, x)
  BY Zenon DEF Children
<1> QED BY <1>1, AppendFacts

(* The bank of the timer is among the banks of its core. *)
LEMMA BankBelow ==
    ASSUME NEW p, IsSequence(p), Has(Bank3(p))
    PROVE  Bank3(p) \in Children(CoreMca(p))
<1> DEFINE m == CoreMca(p)
           b == Append(Word["bank"], 3)
<1>1. IsSequence(m)
  <2>1. IsSequence(<<"thread", "arch_state", "mca">>)
    BY DEF IsSequence, Elements
  <2> QED BY <2>1, AtFacts DEF CoreMca
<1> HIDE DEF m
<1> HIDE DEF b
<1>2. Last(Append(m, b)) = b
  BY <1>1, AppendFacts DEF Last
<1> QED BY <1>2 DEF Children, Has, Bank3, m, b

---------------------------------------------------------------------------
(* The report. A tag's priority follows from what it says; a timeout comes *)
(* with the machine check of its bank, which is as yet to report if the    *)
(* timeout is.                                                             *)
Ranked(t) ==
    /\ t.priority \in Nat
    /\ t.what[1] = "CoreTimeout" => t.priority = 10
    /\ t.what[1] = "MachineCheck" => t.priority = 5

ToldBy(t, u) == u.what[1] = "MachineCheck" /\ u.at = Bank3(t.at)

HeapOK ==
    /\ \A t \in tags : Ranked(t)
    /\ \A t \in tags : t.what[1] = "CoreTimeout" => \E u \in tags : ToldBy(t, u)

ReportOK ==
    /\ IsSequence(report)
    /\ \A i \in DOMAIN report :
         /\ Ranked(report[i])
         /\ \A t \in tags : t.priority <= report[i].priority
         /\ \A j \in i + 1 .. Len(report) : report[j].priority <= report[i].priority
         /\ report[i].what[1] = "CoreTimeout" =>
              \/ \E u \in tags : ToldBy(report[i], u)
              \/ \E j \in i + 1 .. Len(report) : ToldBy(report[i], report[j])

Visiting ==
    /\ \A v \in visits : IsSequence(v.at)
    /\ visits # {} => report = << >>

TInv == HeapOK /\ ReportOK /\ Visiting

LEMMA InitUrgent == TriageInit => TInv
<1> SUFFICES ASSUME TriageInit PROVE TInv
  OBVIOUS
<1>1. HeapOK /\ ReportOK
  BY DEF TriageInit, HeapOK, ReportOK, IsSequence, Elements
<1>2. Visiting
  <2>1. \A v \in visits : v.at = << >>
    BY DEF TriageInit, Visit
  <2>2. IsSequence(<< >>)
    BY DEF IsSequence, Elements
  <2> QED BY <2>1, <2>2 DEF Visiting, TriageInit
<1> QED BY <1>1, <1>2 DEF TInv

LEMMA TagFacts ==
    ASSUME NEW priority, NEW p, NEW what
    PROVE  /\ Tag(priority, p, what).priority = priority
           /\ Tag(priority, p, what).at = p
           /\ Tag(priority, p, what).what = what
BY DEF Tag

LEMMA TimeoutFacts ==
    ASSUME NEW p, NEW t \in Timeouts(p)
    PROVE  t.priority = 10 /\ t.what[1] = "CoreTimeout" /\ t.at = p /\ TimedOut(p)
<1> DEFINE state == QueueState(p)
           address == Address(CHOOSE e \in Stuck(Queue(p)) : TRUE)
<1>1. IsSequence(state)
  <2>1. \/ state = <<"NotCaptured">>
        \/ state = <<"NoStuckTransaction">>
        \/ state = <<"SingleStuckTransaction", address>>
        \/ state = <<"MultipleStuckTransaction">>
    <3> DEFINE stuck == Cardinality(Stuck(Queue(p)))
    <3>1. CASE ~Has(Queue(p))
      BY <3>1, Zenon DEF QueueState
    <3>2. CASE Has(Queue(p)) /\ stuck = 0
      BY <3>2 DEF QueueState
    <3>3. CASE Has(Queue(p)) /\ stuck = 1
      BY <3>3 DEF QueueState
    <3>4. CASE Has(Queue(p)) /\ stuck # 0 /\ stuck # 1
      BY <3>4 DEF QueueState
    <3> QED BY <3>1, <3>2, <3>3, <3>4, Zenon
  <2> HIDE DEF state, address
  <2>2. \A x, y : IsSequence(<<x>>) /\ IsSequence(<<x, y>>)
    BY DEF IsSequence, Elements
  <2> QED BY <2>1, <2>2
<1> HIDE DEF state
<1>2. TimedOut(p) /\ t = Tag(10, p, <<"CoreTimeout">> \o state)
  BY Zenon DEF Timeouts, state
<1>3. (<<"CoreTimeout">> \o state)[1] = "CoreTimeout"
  <2>1. IsSequence(<<"CoreTimeout">>) /\ <<"CoreTimeout">> # << >> /\ <<"CoreTimeout">>[1] = "CoreTimeout"
    BY DEF IsSequence, Elements
  <2> QED BY <1>1, <2>1, JoinFacts
<1>4. \A w : t = Tag(10, p, w) => t.priority = 10 /\ t.at = p /\ t.what = w
  BY DEF Tag
<1> QED BY <1>2, <1>3, <1>4, Zenon

LEMMA BankFacts ==
    ASSUME NEW ps, NEW t \in BankTags(ps)
    PROVE  t.priority = 5 /\ t.what[1] = "MachineCheck" /\ t.at \in ps
<1>1. PICK p \in ps : t = Tag(5, p, <<"MachineCheck", BankId(p), ModelSpecificCode(Status(p)),
                                      ErrorCode(Status(p))>>)
  BY Zenon DEF BankTags
<1>2. \A a, b, c : <<"MachineCheck", a, b, c>>[1] = "MachineCheck"
  OBVIOUS
<1>3. \A w : t = Tag(5, p, w) => t.priority = 5 /\ t.at = p /\ t.what = w
  BY DEF Tag
<1> QED BY <1>1, <1>2, <1>3, Zenon

(* Whatever is found has its rank; a timeout comes with its machine check. *)
LEMMA FindingsAreRanked ==
    ASSUME NEW v, IsSequence(v.at), NEW t \in Findings(v)
    PROVE  /\ Ranked(t)
           /\ t.what[1] = "CoreTimeout" => \E u \in Findings(v) : ToldBy(t, u)
<1>1. CASE v.by = "pmc_rst" /\ Nested(v.at) = {}
  <2>1. t \in ResetCauses(v.at)
    BY <1>1, Zenon DEF Findings
  <2>2. PICK c : t = Tag(0, c, <<"ResetCause">>)
    BY <2>1, Zenon DEF ResetCauses
  <2>3. t.priority = 0 /\ t.what[1] = "ResetCause"
    BY <2>2, TagFacts
  <2> QED BY <2>3 DEF Ranked
<1>2. CASE v.by = "reason"
  <2>1. t \in Reasons(v.at)
    BY <1>2 DEF Findings
  <2>2. PICK b : t = Tag(0, v.at, <<"CrashLogReason", b>>)
    BY <2>1, Zenon DEF Reasons
  <2>3. t.priority = 0 /\ t.what[1] = "CrashLogReason"
    BY <2>2, TagFacts
  <2> QED BY <2>3 DEF Ranked
<1>3. CASE v.by = "agent"
  <2>1. t \in AgentErrors(v.at)
    BY <1>3 DEF Findings
  <2>2. PICK b, c : t = Tag(0, v.at, <<"CrashLogAgentError", b, c>>)
    BY <2>1, Zenon DEF AgentErrors
  <2>3. t.priority = 0 /\ t.what[1] = "CrashLogAgentError"
    BY <2>2, TagFacts
  <2> QED BY <2>3 DEF Ranked
<1>4. CASE v.by = "mca"
  <2>1. t \in BankTags(Children(v.at))
    BY <1>4 DEF Findings
  <2>2. t.priority = 5 /\ t.what[1] = "MachineCheck"
    BY <2>1, BankFacts
  <2> QED BY <2>2 DEF Ranked
<1>5. CASE v.by = "core" /\ HasThread(v.at)
  <2>1. Findings(v) = Timeouts(v.at) \cup BankTags(Children(CoreMca(v.at)))
    BY <1>5 DEF Findings
  <2>2. CASE t \in BankTags(Children(CoreMca(v.at)))
    <3>1. t.priority = 5 /\ t.what[1] = "MachineCheck"
      BY <2>2, BankFacts
    <3> QED BY <3>1 DEF Ranked
  <2>3. CASE t \in Timeouts(v.at)
    <3> DEFINE b == Bank3(v.at)
               u == Tag(5, b, <<"MachineCheck", BankId(b), ModelSpecificCode(Status(b)),
                                ErrorCode(Status(b))>>)
    <3>1. t.priority = 10 /\ t.what[1] = "CoreTimeout" /\ t.at = v.at /\ TimedOut(v.at)
      BY <2>3, TimeoutFacts
    <3>2. b \in Children(CoreMca(v.at)) /\ IsBank(b) /\ 63 \in Status(b)
      BY <3>1, BankBelow DEF TimedOut
    <3>3. u \in BankTags(Children(CoreMca(v.at)))
      BY <3>2, Zenon DEF BankTags
    <3>4. u.at = b /\ u.what[1] = "MachineCheck"
      BY <3>3, TagFacts
    <3>5. ToldBy(t, u)
      BY <3>1, <3>4 DEF ToldBy
    <3> QED BY <2>1, <3>1, <3>3, <3>5 DEF Ranked
  <2> QED BY <2>1, <2>2, <2>3
<1> QED BY <1>1, <1>2, <1>3, <1>4, <1>5, Zenon DEF Findings

---------------------------------------------------------------------------
(* The steps. *)

LEMMA WalkUrgent == TInv /\ Walk => TInv'
<1> SUFFICES ASSUME TInv, Walk PROVE TInv'
  OBVIOUS
<1> DEFINE new == UNION {Findings(v) : v \in visits}
<1>1. /\ visits # {} /\ report = << >> /\ report' = << >> /\ tags' = tags \cup new
      /\ visits' = UNION {Onward(v) : v \in visits}
      /\ \A v \in visits : IsSequence(v.at)
  BY DEF TInv, Visiting, Walk
<1>2. ASSUME NEW t \in new
      PROVE  Ranked(t) /\ (t.what[1] = "CoreTimeout" => \E u \in new : ToldBy(t, u))
  <2>1. PICK v \in visits : t \in Findings(v)
    BY <1>2
  <2>2. \A u \in Findings(v) : u \in new
    BY <2>1
  <2> QED BY <1>1, <2>1, <2>2, FindingsAreRanked, Zenon
<1> HIDE DEF new
<1>3. HeapOK'
  <2>1. \A t \in tags' : Ranked(t)
    BY <1>1, <1>2, Zenon DEF TInv, HeapOK
  <2>2. \A t \in tags' : t.what[1] = "CoreTimeout" => \E u \in tags' : ToldBy(t, u)
    BY <1>1, <1>2, Zenon DEF TInv, HeapOK
  <2> QED BY <2>1, <2>2, Zenon DEF HeapOK
<1>4. ReportOK'
  BY <1>1 DEF ReportOK, IsSequence, Elements
<1>5. Visiting'
  <2>1. ASSUME NEW w \in visits' PROVE IsSequence(w.at)
    <3>1. PICK v \in visits : w \in Onward(v) /\ IsSequence(v.at)
      BY <1>1, <2>1
    <3>2. CASE w.at = v.at
      BY <3>1, <3>2, Zenon
    <3>3. CASE w.at \in Children(v.at)
      BY <3>1, <3>3, ChildFacts, Zenon
    <3>4. CASE w.at \in Nested(v.at)
      <4>1. \A word : IsSequence(<<word>>)
        BY DEF IsSequence, Elements
      <4>2. w.at = At(v.at, <<"pmc_rst">>) \/ w.at = At(v.at, <<"pmc">>)
        BY <3>4, Zenon DEF Nested
      <4> QED BY <3>1, <4>1, <4>2, AtFacts, Zenon
    <3>5. w.at = v.at \/ w.at \in Children(v.at) \/ w.at \in Nested(v.at)
      BY <3>1 DEF Onward, Visit
    <3> QED BY <3>2, <3>3, <3>4, <3>5
  <2> QED BY <1>1, <2>1, Zenon DEF Visiting
<1> QED BY <1>3, <1>4, <1>5, Zenon DEF TInv

LEMMA ReportUrgent == TInv /\ Report => TInv'
<1> SUFFICES ASSUME TInv, Report PROVE TInv'
  OBVIOUS
<1>1. PICK t \in tags : /\ \A u \in tags : u.priority <= t.priority
                        /\ report' = Append(report, t)
                        /\ tags' = tags \ {t}
  BY DEF Report
<1>2. visits = {} /\ visits' = {}
  BY DEF Report
<1> DEFINE l == Len(report)
           new == Append(report, t)
<1>3. /\ IsSequence(new)
      /\ l \in Nat /\ DOMAIN report = 1 .. l /\ DOMAIN new = 1 .. l + 1 /\ Len(new) = l + 1
      /\ \A i \in 1 .. l : new[i] = report[i]
      /\ new[l + 1] = t
  BY AppendFacts DEF TInv, ReportOK
<1> HIDE DEF l, new
<1>4. report' = new
  BY <1>1 DEF new
<1>5. \A u \in tags : Ranked(u)
  BY DEF TInv, HeapOK
<1>6. HeapOK'
  <2>1. ASSUME NEW u \in tags', u.what[1] = "CoreTimeout"
        PROVE  \E w \in tags' : ToldBy(u, w)
    <3>1. u \in tags /\ u.priority = 10
      BY <1>1, <1>5, <2>1 DEF Ranked
    <3>2. PICK w \in tags : ToldBy(u, w)
      BY <2>1, <3>1 DEF TInv, HeapOK
    <3>3. w.priority = 5
      BY <1>5, <3>2 DEF Ranked, ToldBy
    <3>4. u.priority <= t.priority
      BY <1>1, <3>1
    <3>5. w # t
      BY <3>1, <3>3, <3>4
    <3> QED BY <1>1, <3>2, <3>5
  <2> QED BY <1>1, <1>5, <2>1 DEF HeapOK
<1>7. ReportOK'
  <2>1. ASSUME NEW i \in 1 .. l + 1
        PROVE  /\ Ranked(new[i])
               /\ \A u \in tags' : u.priority <= new[i].priority
               /\ \A j \in i + 1 .. l + 1 : new[j].priority <= new[i].priority
               /\ new[i].what[1] = "CoreTimeout" =>
                    \/ \E u \in tags' : ToldBy(new[i], u)
                    \/ \E j \in i + 1 .. l + 1 : ToldBy(new[i], new[j])
    <3>1. CASE i = l + 1
      <4>1. new[i] = t /\ ~\E j \in i + 1 .. l + 1 : TRUE
        BY <1>3, <3>1
      <4>2. t.what[1] = "CoreTimeout" => \E u \in tags' : ToldBy(t, u)
        <5> SUFFICES ASSUME t.what[1] = "CoreTimeout" PROVE \E u \in tags' : ToldBy(t, u)
          OBVIOUS
        <5>1. PICK u \in tags : ToldBy(t, u)
          BY DEF TInv, HeapOK
        <5>2. u # t
          BY <5>1 DEF ToldBy
        <5> QED BY <1>1, <5>1, <5>2
      <4> QED BY <1>1, <1>5, <4>1, <4>2
    <3>2. CASE i \in 1 .. l
      <4> DEFINE r == report[i]
      <4>1. /\ Ranked(r)
            /\ \A u \in tags : u.priority <= r.priority
            /\ \A j \in i + 1 .. l : report[j].priority <= r.priority
            /\ r.what[1] = "CoreTimeout" =>
                 \/ \E u \in tags : ToldBy(r, u)
                 \/ \E j \in i + 1 .. l : ToldBy(r, report[j])
        BY <1>3, <3>2, Zenon DEF TInv, ReportOK, l
      <4>2. new[i] = r /\ \A j \in i + 1 .. l : new[j] = report[j]
        BY <1>3, <3>2
      <4> HIDE DEF r
      <4>3. \A j \in i + 1 .. l + 1 : j \in i + 1 .. l \/ j = l + 1
        BY <1>3, <3>2
      <4>4. l + 1 \in i + 1 .. l + 1 /\ \A j \in i + 1 .. l : j \in i + 1 .. l + 1
        BY <1>3, <3>2
      <4>5. \A j \in i + 1 .. l + 1 : new[j].priority <= new[i].priority
        <5> SUFFICES ASSUME NEW j \in i + 1 .. l + 1 PROVE new[j].priority <= r.priority
          BY <4>2
        <5> QED BY <1>3, <4>1, <4>2, <4>3
      <4>6. r.what[1] = "CoreTimeout" =>
              \/ \E u \in tags' : ToldBy(r, u)
              \/ \E j \in i + 1 .. l + 1 : ToldBy(r, new[j])
        <5>1. CASE \E u \in tags : ToldBy(r, u)
          <6>1. PICK u \in tags : ToldBy(r, u)
            BY <5>1
          <6>2. CASE u = t
            BY <1>3, <4>4, <6>1, <6>2, Zenon
          <6>3. CASE u # t
            BY <1>1, <6>1, <6>3
          <6> QED BY <6>2, <6>3
        <5>2. CASE \E j \in i + 1 .. l : ToldBy(r, report[j])
          BY <4>2, <4>4, <5>2, Zenon
        <5> QED BY <4>1, <5>1, <5>2
      <4>7. \A u \in tags' : u \in tags
        BY <1>1
      <4> QED BY <4>1, <4>2, <4>5, <4>6, <4>7, Zenon
    <3> QED BY <1>3, <2>1, <3>1, <3>2
  <2> QED BY <1>3, <1>4, <2>1, Zenon DEF ReportOK
<1>8. Visiting'
  BY <1>2 DEF Visiting
<1> QED BY <1>6, <1>7, <1>8, Zenon DEF TInv

LEMMA NextUrgent == TInv /\ [TriageNext]_<<vars, analysis>> => TInv'
<1> SUFFICES ASSUME TInv, [TriageNext]_<<vars, analysis>> PROVE TInv'
  OBVIOUS
<1>1. CASE UNCHANGED analysis
  BY <1>1 DEF TInv, HeapOK, ReportOK, Visiting, analysis
<1>2. CASE Walk
  BY <1>2, WalkUrgent
<1>3. CASE Report
  BY <1>3, ReportUrgent
<1> QED BY <1>1, <1>2, <1>3 DEF TriageNext, Decoding

(* What is urgent is reported first, and behind each timeout of a core the *)
(* machine check it was told by (analysis.rs: a heap that is emptied tag   *)
(* by tag; core.rs: the bank is read before its timeout is put down).      *)
THEOREM UrgentComesFirst == TriageSpec => []UrgentFirst
<1>1. TInv => UrgentFirst
  <2> SUFFICES ASSUME TInv, Reported, NEW i \in DOMAIN report
               PROVE  /\ \A j \in i + 1 .. Len(report) : report[j].priority <= report[i].priority
                      /\ report[i].what[1] = "CoreTimeout" =>
                           \E j \in i + 1 .. Len(report) :
                             /\ report[j].what[1] = "MachineCheck"
                             /\ report[j].at = Bank3(report[i].at)
    BY Zenon DEF UrgentFirst
  <2>1. tags = {}
    BY DEF Reported
  <2> QED BY <2>1, Zenon DEF TInv, ReportOK, ToldBy
<1> QED BY <1>1, InitUrgent, NextUrgent, PTL DEF TriageSpec

---------------------------------------------------------------------------
(* The nodes of one record, by their paths below it. *)

LEMMA NextBelowPrefix ==
    ASSUME NEW s \in Path, NEW r \in Path, IsStrictPrefix(s, r)
    PROVE  \E x \in Name : Append(s, x) \in Path /\ IsPrefix(Append(s, x), r)
<1> DEFINE x == r[Len(s) + 1]
           w == Append(s, x)
<1>1. /\ Len(s) \in Nat /\ Len(r) \in Nat /\ Len(s) <= Len(r) /\ s # r
      /\ \A i \in 1 .. Len(s) : s[i] = r[i]
  BY PrefixFacts DEF IsStrictPrefix, Path
<1>2. Len(s) < Len(r)
  <2>1. Len(s) = Len(r) => s = r
    BY <1>1, SameSequence DEF Path
  <2> QED BY <1>1, <2>1
<1>3. x \in Name
  <2>1. Len(s) + 1 \in 1 .. Len(r)
    BY <1>1, <1>2
  <2> QED BY <2>1 DEF Path
<1> HIDE DEF x
<1>4. /\ w \in Path /\ Len(w) = Len(s) + 1
      /\ \A i \in 1 .. Len(s) : w[i] = s[i]
      /\ w[Len(s) + 1] = x
  BY <1>3, AppendPath DEF Path
<1> HIDE DEF w
<1>5. \A i \in 1 .. Len(w) : w[i] = r[i]
  <2>1. \A i \in 1 .. Len(w) : i \in 1 .. Len(s) \/ i = Len(s) + 1
    BY <1>1, <1>4
  <2> QED BY <1>1, <1>4, <2>1 DEF x
<1>6. IsPrefix(w, r)
  BY <1>1, <1>2, <1>4, <1>5, PrefixFacts DEF Path
<1> QED BY <1>3, <1>4, <1>6 DEF w

LEMMA PrefixesAre ==
    ASSUME NEW r \in Path
    PROVE  /\ \A o : o \in Prefixes(r) <=> o \in Path /\ IsPrefix(o, r)
           /\ << >> \in Path /\ IsPrefix(<< >>, r) /\ IsPrefix(r, r)
<1>1. \A o \in Path : IsPrefix(o, r) <=> Len(o) <= Len(r) /\ \A i \in 1 .. Len(o) : o[i] = r[i]
  BY PrefixFacts DEF Path
<1>2. << >> \in Path /\ Len(r) \in Nat /\ Len(<< >>) = 0
  BY DEF Path
<1>3. IsPrefix(<< >>, r) /\ IsPrefix(r, r)
  BY <1>1, <1>2
<1>4. ASSUME NEW o \in Prefixes(r) PROVE o \in Path /\ IsPrefix(o, r)
  <2>1. PICK i \in 0 .. Len(r) : o = SubSeq(r, 1, i)
    BY DEF Prefixes
  <2>2. CASE i = 0
    <3>1. o = << >>
      BY <2>1, <2>2 DEF Path
    <3> QED BY <1>2, <1>3, <3>1
  <2>3. CASE i # 0
    <3>1. i \in 1 .. Len(r)
      BY <1>2, <2>3
    <3>2. o \in Path /\ Len(o) = i /\ \A j \in 1 .. i : o[j] = r[j]
      BY <2>1, <3>1, SubFacts DEF Path
    <3> QED BY <1>1, <3>1, <3>2
  <2> QED BY <2>2, <2>3
<1>5. ASSUME NEW o \in Path, IsPrefix(o, r) PROVE o \in Prefixes(r)
  <2>1. Len(o) \in Nat /\ Len(o) <= Len(r) /\ \A i \in 1 .. Len(o) : o[i] = r[i]
    BY <1>1, <1>5 DEF Path
  <2>2. CASE Len(o) = 0
    <3>1. o = << >> /\ SubSeq(r, 1, 0) = << >>
      BY <2>2 DEF Path
    <3> QED BY <1>2, <3>1 DEF Prefixes
  <2>3. CASE Len(o) # 0
    <3>1. Len(o) \in 1 .. Len(r)
      BY <1>2, <2>1, <2>3
    <3> DEFINE y == SubSeq(r, 1, Len(o))
    <3>2. y \in Path /\ Len(y) = Len(o) /\ \A j \in 1 .. Len(o) : y[j] = r[j]
      BY <3>1, SubFacts DEF Path
    <3> HIDE DEF y
    <3>3. o = y
      BY <2>1, <3>2, SameSequence DEF Path
    <3>4. Len(o) \in 0 .. Len(r)
      BY <1>2, <2>1
    <3> QED BY <3>3, <3>4 DEF Prefixes, y
  <2> QED BY <2>2, <2>3
<1> QED BY <1>2, <1>3, <1>4, <1>5

LEMMA PrefixTwice ==
    ASSUME NEW a \in Path, NEW b \in Path, NEW c \in Path, IsPrefix(b, c)
    PROVE  /\ IsPrefix(a, b) => IsPrefix(a, c)
           /\ IsPrefix(a, c) => IsPrefix(a, b) \/ IsPrefix(b, a)
<1> DEFINE Is(x, y) == Len(x) <= Len(y) /\ \A i \in 1 .. Len(x) : x[i] = y[i]
<1>1. /\ IsPrefix(a, b) <=> Is(a, b)
      /\ IsPrefix(a, c) <=> Is(a, c)
      /\ IsPrefix(b, c) <=> Is(b, c)
      /\ IsPrefix(b, a) <=> Is(b, a)
  BY PrefixFacts DEF Path
<1>2. Len(a) \in Nat /\ Len(b) \in Nat /\ Len(c) \in Nat
  BY DEF Path
<1>3. Is(a, b) /\ Is(b, c) => Is(a, c)
  BY <1>2
<1>4. Is(a, c) /\ Is(b, c) /\ Len(a) <= Len(b) => Is(a, b)
  BY <1>2
<1>5. Is(a, c) /\ Is(b, c) /\ Len(b) <= Len(a) => Is(b, a)
  BY <1>2
<1> QED BY <1>1, <1>2, <1>3, <1>4, <1>5

(* A path one longer has the same prefixes and itself. *)
LEMMA PrefixesLonger ==
    ASSUME NEW r \in Path, NEW x \in Name
    PROVE  LET w == Append(r, x) IN
           /\ w \in Path /\ w # << >> /\ Front(w) = r /\ Last(w) = x
           /\ Prefixes(w) \ {w} = Prefixes(r)
           /\ r \in Prefixes(r)
<1> DEFINE w == Append(r, x)
<1>1. w \in Path /\ w # << >> /\ Front(w) = r /\ Last(w) = x
  BY AppendPath DEF Path
<1> HIDE DEF w
<1>2. \A o \in Path : (IsPrefix(o, w) /\ o # w) <=> IsPrefix(o, r)
  BY <1>1, PrefixOfFront DEF Path, IsStrictPrefix
<1>3. \A o : o \in Prefixes(w) <=> o \in Path /\ IsPrefix(o, w)
  BY <1>1, PrefixesAre
<1>4. \A o : o \in Prefixes(r) <=> o \in Path /\ IsPrefix(o, r)
  BY PrefixesAre
<1>5. \A o : o \in Prefixes(w) \ {w} <=> o \in Prefixes(r)
  BY <1>2, <1>3, <1>4
<1>6. r \in Prefixes(r)
  BY <1>4, PrefixesAre
<1> QED BY <1>1, <1>5, <1>6 DEF w

(* Paths that are put behind one another. *)
LEMMA BehindFacts ==
    ASSUME NEW q \in Path, NEW r \in Path
    PROVE  /\ q \o r \in Path /\ q \o << >> = q /\ << >> \in Path
           /\ \A x \in Name : Append(q \o r, x) = q \o Append(r, x)
           /\ r # << >> => Last(q \o r) = Last(r) /\ Front(q \o r) = q \o Front(r)
                           /\ Front(r) \in Path /\ Last(r) \in Name /\ r = Append(Front(r), Last(r))
           /\ \A s \in Path : q \o r = q \o s => r = s
<1>1. q \o r \in Path /\ q \o << >> = q /\ << >> \in Path
  BY ConcatFacts DEF Path
<1>2. ASSUME NEW s \in Path, NEW x \in Name PROVE Append(q \o s, x) = q \o Append(s, x)
  <2> DEFINE a == Append(q \o s, x)
             b == q \o Append(s, x)
             w == Append(s, x)
             v == q \o s
  <2>1. /\ v \in Path /\ Len(v) = Len(q) + Len(s) /\ Len(q) \in Nat /\ Len(s) \in Nat
        /\ \A i \in 1 .. Len(q) : v[i] = q[i]
        /\ \A i \in 1 .. Len(s) : v[Len(q) + i] = s[i]
    BY ConcatFacts DEF Path
  <2>2. /\ w \in Path /\ Len(w) = Len(s) + 1 /\ w[Len(s) + 1] = x
        /\ \A i \in 1 .. Len(s) : w[i] = s[i]
    BY AppendPath DEF Path
  <2> HIDE DEF w, v
  <2>3. /\ a \in Path /\ Len(a) = Len(v) + 1 /\ a[Len(v) + 1] = x
        /\ \A i \in 1 .. Len(v) : a[i] = v[i]
    BY <2>1, AppendPath DEF Path, v
  <2>4. /\ b \in Path /\ Len(b) = Len(q) + Len(w)
        /\ \A i \in 1 .. Len(q) : b[i] = q[i]
        /\ \A i \in 1 .. Len(w) : b[Len(q) + i] = w[i]
    BY <2>2, ConcatFacts DEF Path, w
  <2> HIDE DEF a, b
  <2>5. ASSUME NEW i \in 1 .. Len(a) PROVE a[i] = b[i]
    <3>1. CASE i \in 1 .. Len(q)
      BY <2>1, <2>3, <2>4, <3>1
    <3>2. CASE i - Len(q) \in 1 .. Len(s)
      <4> DEFINE j == i - Len(q)
      <4>1. j \in 1 .. Len(s) /\ j \in 1 .. Len(w) /\ Len(q) + j = i /\ i \in 1 .. Len(v)
        BY <2>1, <2>2, <3>2
      <4> HIDE DEF j
      <4>2. v[Len(q) + j] = s[j] /\ b[Len(q) + j] = w[j] /\ w[j] = s[j] /\ a[i] = v[i]
        BY <2>1, <2>2, <2>3, <2>4, <4>1
      <4> QED BY <4>1, <4>2
    <3>3. CASE i = Len(v) + 1
      <4>1. b[Len(q) + (Len(s) + 1)] = w[Len(s) + 1] /\ Len(q) + (Len(s) + 1) = i
        BY <2>1, <2>2, <2>4, <3>3
      <4> QED BY <2>2, <2>3, <3>3, <4>1
    <3> QED BY <2>1, <2>3, <3>1, <3>2, <3>3
  <2>6. Len(a) = Len(b)
    BY <2>1, <2>2, <2>3, <2>4
  <2> QED BY <2>3, <2>4, <2>5, <2>6, SameSequence DEF Path, a, b
<1>3. ASSUME r # << >>
      PROVE  /\ Last(q \o r) = Last(r) /\ Front(q \o r) = q \o Front(r)
             /\ Front(r) \in Path /\ Last(r) \in Name /\ r = Append(Front(r), Last(r))
  <2>1. Front(r) \in Path /\ Last(r) \in Name /\ r = Append(Front(r), Last(r))
    BY <1>3, PathFacts, FrontLast DEF Path
  <2>2. q \o r = Append(q \o Front(r), Last(r))
    <3>1. \A f, l : f = Front(r) /\ l = Last(r) => Append(q \o f, l) = q \o Append(f, l)
      BY <1>2, <2>1
    <3> QED BY <2>1, <3>1
  <2> DEFINE f == q \o Front(r)
  <2>3. f \in Path
    BY <2>1, ConcatFacts DEF Path
  <2> HIDE DEF f
  <2>4. Front(Append(f, Last(r))) = f /\ Last(Append(f, Last(r))) = Last(r)
    BY <2>1, <2>3, AppendPath DEF Path
  <2> QED BY <2>1, <2>2, <2>4 DEF f
<1>4. ASSUME NEW s \in Path, q \o r = q \o s PROVE r = s
  <2>1. /\ SubSeq(q \o r, Len(q) + 1, Len(q \o r)) = r
        /\ SubSeq(q \o s, Len(q) + 1, Len(q \o s)) = s
    BY ConcatSuffix DEF Path
  <2> QED BY <1>4, <2>1
<1> QED BY <1>1, <1>2, <1>3, <1>4

Sub(q) == Subtree(result, q)

(* The topmost records of the tree, and their nodes. *)
Topmost(q) == q \in Path /\ q # << >> /\ q \in DOMAIN result /\ result[q].kind = "record"

LEMMA TopmostAre ==
    ASSUME IsTree(result), NEW q \in Registers(result)
    PROVE  Topmost(q)
BY TreeFacts DEF Registers, Topmost

LEMMA SubIs ==
    ASSUME IsTree(result), NEW q, Topmost(q)
    PROVE  /\ \A r : r \in DOMAIN Sub(q) <=> r \in Path /\ q \o r \in DOMAIN result
           /\ \A r \in DOMAIN Sub(q) : Sub(q)[r] = result[q \o r]
           /\ << >> \in DOMAIN Sub(q)
<1>1. q \in Path /\ q \in DOMAIN result
  BY DEF Topmost
<1>2. Sub(q) = [r \in Under(result, q) |-> result[q \o r]]
  BY <1>1, SubtreeIs DEF Sub
<1>3. q \o << >> = q /\ << >> \in Path
  BY <1>1, BehindFacts
<1>4. DOMAIN Sub(q) = Under(result, q) /\ \A r \in Under(result, q) : Sub(q)[r] = result[q \o r]
  BY <1>2
<1>5. \A r : r \in Under(result, q) <=> r \in Path /\ q \o r \in DOMAIN result
  BY DEF Under
<1> HIDE DEF Sub
<1> QED BY <1>1, <1>3, <1>4, <1>5

(* Below a record there is no gap. *)
LEMMA SubClosed ==
    ASSUME IsTree(result), NEW q, Topmost(q), NEW r \in DOMAIN Sub(q), NEW o \in Path, IsPrefix(o, r)
    PROVE  o \in DOMAIN Sub(q)
<1>1. q \in Path /\ q # << >> /\ r \in Path /\ q \o r \in DOMAIN result
  BY SubIs DEF Topmost
<1>2. q \o r \in Path /\ q \o o \in Path
  BY <1>1, BehindFacts
<1>3. IsPrefix(q \o o, q \o r) /\ q \o o # << >>
  <2> DEFINE a == q \o o
             b == q \o r
  <2>1. /\ a \in Path /\ Len(a) = Len(q) + Len(o) /\ Len(q) \in Nat /\ Len(o) \in Nat
        /\ \A i \in 1 .. Len(q) : a[i] = q[i]
        /\ \A i \in 1 .. Len(o) : a[Len(q) + i] = o[i]
    BY <1>1, ConcatFacts DEF Path
  <2>2. /\ b \in Path /\ Len(b) = Len(q) + Len(r) /\ Len(r) \in Nat
        /\ \A i \in 1 .. Len(q) : b[i] = q[i]
        /\ \A i \in 1 .. Len(r) : b[Len(q) + i] = r[i]
    BY <1>1, ConcatFacts DEF Path
  <2> HIDE DEF a, b
  <2>3. Len(o) <= Len(r) /\ \A i \in 1 .. Len(o) : o[i] = r[i]
    BY <1>1, PrefixFacts DEF Path
  <2>4. ASSUME NEW i \in 1 .. Len(a) PROVE a[i] = b[i]
    <3>1. CASE i \in 1 .. Len(q)
      BY <2>1, <2>2, <3>1
    <3>2. CASE i \notin 1 .. Len(q)
      <4> DEFINE j == i - Len(q)
      <4>1. j \in 1 .. Len(o) /\ j \in 1 .. Len(r) /\ Len(q) + j = i
        BY <2>1, <2>2, <2>3, <3>2
      <4> HIDE DEF j
      <4> QED BY <2>1, <2>2, <2>3, <4>1
    <3> QED BY <3>1, <3>2
  <2>5. Len(q) > 0
    BY <1>1, PathFacts DEF Path
  <2>6. a # << >>
    <3>1. Len(a) > 0
      BY <2>1, <2>5
    <3> QED BY <3>1
  <2>7. Len(a) <= Len(b)
    BY <2>1, <2>2, <2>3
  <2>8. IsPrefix(a, b)
    BY <2>1, <2>2, <2>4, <2>7, PrefixFacts DEF Path
  <2> QED BY <2>6, <2>8 DEF a, b
<1>4. q \o o \in DOMAIN result
  <2> DEFINE a == q \o o
             b == q \o r
  <2>1. a \in Path /\ a # << >> /\ b \in DOMAIN result /\ IsPrefix(a, b)
    BY <1>1, <1>2, <1>3
  <2> HIDE DEF a, b
  <2>2. a \in DOMAIN result
    BY <2>1, PrefixClosed
  <2> QED BY <2>2 DEF a
<1> QED BY <1>4, SubIs

LEMMA SubAppend ==
    ASSUME IsTree(result), NEW q, Topmost(q), NEW r \in Path, NEW x \in Name
    PROVE  Append(q \o r, x) = q \o Append(r, x) /\ Append(r, x) \in Path
           /\ (Append(r, x) \in DOMAIN Sub(q) <=> Has(q \o Append(r, x)))
<1>1. q \in Path
  BY DEF Topmost
<1>2. Append(r, x) \in Path
  BY AppendPath DEF Path
<1>3. Append(q \o r, x) = q \o Append(r, x)
  BY <1>1, BehindFacts
<1> DEFINE w == Append(r, x)
<1>4. w \in Path
  BY <1>2
<1> HIDE DEF w
<1>5. w \in DOMAIN Sub(q) <=> Has(q \o w)
  BY <1>4, SubIs DEF Has
<1> QED BY <1>2, <1>3, <1>5 DEF w

LEMMA OneWord ==
    ASSUME NEW p, NEW w
    PROVE  At(p, <<w>>) = p \o <<Word[w]>>
<1>1. [i \in DOMAIN <<w>> |-> Word[<<w>>[i]]] = <<Word[w]>>
  OBVIOUS
<1> QED BY <1>1 DEF At

LEMMA AppendIs ==
    ASSUME NEW p \in Path, NEW x \in Name
    PROVE  p \o <<x>> = Append(p, x)
BY DEF Path

LEMMA WordIs ==
    ASSUME NEW w \in Words
    PROVE  Word[w] \in Name
BY TriageAssumption

LEMMA AtOne ==
    ASSUME NEW p \in Path, NEW w \in Words
    PROVE  At(p, <<w>>) = Append(p, Word[w]) /\ At(p, <<w>>) \in Path
<1>1. Word[w] \in Name
  BY WordIs
<1>2. At(p, <<w>>) = Append(p, Word[w])
  BY <1>1, OneWord, AppendIs
<1> QED BY <1>1, <1>2, AppendPath DEF Path

(* A path of words that is looked up below a node. *)
LEMMA AtBelow ==
    ASSUME IsTree(result), NEW q, Topmost(q), NEW r \in Path, NEW words \in Seq(Words)
    PROVE  /\ At(r, words) \in Path
           /\ At(q \o r, words) = q \o At(r, words)
           /\ Has(At(q \o r, words)) <=> At(r, words) \in DOMAIN Sub(q)
<1> DEFINE names == [i \in DOMAIN words |-> Word[words[i]]]
<1>1. names \in Path
  <2>1. DOMAIN words = 1 .. Len(words) /\ Len(words) \in Nat /\ \A i \in 1 .. Len(words) : words[i] \in Words
    OBVIOUS
  <2>2. \A i \in 1 .. Len(words) : Word[words[i]] \in Name
    BY <2>1, WordIs
  <2> QED BY <2>1, <2>2 DEF Path
<1> HIDE DEF names
<1>2. q \in Path
  BY DEF Topmost
<1>3. q \o (r \o names) = (q \o r) \o names /\ r \o names \in Path
  BY <1>1, <1>2 DEF Path
<1>4. At(r, words) = r \o names /\ At(q \o r, words) = (q \o r) \o names
  BY DEF At, names
<1> QED BY <1>3, <1>4, SubIs DEF Has

LEMMA ValueIn ==
    ASSUME IsTree(result), NEW q, Topmost(q), NEW r \in Path
    PROVE  /\ HasValue(q \o r) <=> ValuesAt(Sub(q), r) # {}
           /\ HasValue(q \o r) => ValuesAt(Sub(q), r) = {Value(q \o r)} /\ Value(q \o r) \subseteq 0 .. 63
<1>1. r \in DOMAIN Sub(q) <=> q \o r \in DOMAIN result
  BY SubIs
<1>2. r \in DOMAIN Sub(q) => Sub(q)[r] = result[q \o r]
  BY SubIs
<1>3. HasValue(q \o r) => Value(q \o r) \subseteq 0 .. 63
  <2> DEFINE a == q \o r
  <2> HIDE DEF a
  <2>1. a \in DOMAIN result /\ result[a].kind = "field" => result[a].value \subseteq 0 .. 63
    <3> SUFFICES ASSUME a \in DOMAIN result, result[a].kind = "field" PROVE result[a].value \subseteq 0 .. 63
      OBVIOUS
    <3>1. IsNode(result[a])
      BY TreeFacts
    <3> QED BY <3>1 DEF IsNode, Section, Record
  <2> QED BY <2>1 DEF HasValue, Has, Value, a
<1> QED BY <1>1, <1>2, <1>3 DEF HasValue, Has, Value, ValuesAt

(* The children of a node of a record. *)
LEMMA ChildIn ==
    ASSUME IsTree(result), NEW q, Topmost(q), NEW r \in Path, NEW c
    PROVE  c \in Children(q \o r) <=>
             \E x \in Name : Append(r, x) \in DOMAIN Sub(q) /\ c = q \o Append(r, x)
<1>1. q \in Path /\ q \o r \in Path
  BY BehindFacts DEF Topmost
<1>2. ASSUME c \in Children(q \o r)
      PROVE  \E x \in Name : Append(r, x) \in DOMAIN Sub(q) /\ c = q \o Append(r, x)
  <2>1. c \in DOMAIN result /\ c = Append(q \o r, Last(c))
    BY <1>2 DEF Children
  <2>2. Last(c) \in Name
    BY <2>1, TreeFacts
  <2> DEFINE x == Last(c)
  <2>3. c = Append(q \o r, x) /\ x \in Name
    BY <2>1, <2>2
  <2> HIDE DEF x
  <2>4. c = q \o Append(r, x) /\ (Append(r, x) \in DOMAIN Sub(q) <=> Has(c))
    BY <2>3, SubAppend
  <2> QED BY <2>1, <2>3, <2>4 DEF Has
<1>3. ASSUME NEW x \in Name, Append(r, x) \in DOMAIN Sub(q), c = q \o Append(r, x)
      PROVE  c \in Children(q \o r)
  <2>1. c = Append(q \o r, x) /\ c \in DOMAIN result
    BY <1>3, SubAppend DEF Has
  <2>2. Last(Append(q \o r, x)) = x
    BY <1>1, AppendPath DEF Path
  <2> QED BY <2>1, <2>2 DEF Children
<1> QED BY <1>2, <1>3

---------------------------------------------------------------------------
(* Names and their numbers: how long a name is without its number. *)
Stem(name) == Max({0} \cup {i \in DOMAIN name : name[i] \notin 0 .. 9})

LEMMA StemIs ==
    ASSUME NEW name \in Seq(Int), NEW k \in 0 .. Len(name),
           k # 0 => name[k] \notin Digits,
           \A i \in 1 .. Len(name) : i > k => name[i] \in Digits
    PROVE  Stem(name) = k
<1> DEFINE T == {0} \cup {i \in DOMAIN name : name[i] \notin 0 .. 9}
<1>1. Len(name) \in Nat /\ DOMAIN name = 1 .. Len(name)
  OBVIOUS
<1>2. k \in T
  BY <1>1 DEF Digits
<1>3. T \subseteq Int
  BY <1>1
<1>4. \A j \in T : j <= k
  BY <1>1 DEF Digits
<1> HIDE DEF T
<1>5. Max(T) = k
  BY <1>2, <1>3, <1>4, LastOf
<1> QED BY <1>5 DEF Stem, T

LEMMA StemFacts ==
    ASSUME NEW name \in Seq(Int)
    PROVE  /\ Stem(name) \in 0 .. Len(name)
           /\ Stem(name) # 0 => name[Stem(name)] \notin Digits
           /\ \A i \in 1 .. Len(name) : i > Stem(name) => name[i] \in Digits
<1> DEFINE T == {0} \cup {i \in DOMAIN name : name[i] \notin 0 .. 9}
           B == {k \in Nat : \A i \in 1 .. Len(name) : i > k => name[i] \in Digits}
<1>1. Len(name) \in Nat /\ DOMAIN name = 1 .. Len(name)
  OBVIOUS
<1>2. PICK k \in B : \A m \in B : k <= m
  <2>1. B \in SUBSET Nat /\ Len(name) \in B
    BY <1>1
  <2> HIDE DEF B
  <2> QED BY <2>1, LeastOf
<1>3. k \in 0 .. Len(name)
  <2>1. Len(name) \in B
    BY <1>1
  <2> QED BY <1>1, <1>2, <2>1
<1>4. k # 0 => name[k] \notin Digits
  <2> SUFFICES ASSUME k # 0, name[k] \in Digits PROVE FALSE
    OBVIOUS
  <2>1. k - 1 \in B
    <3>1. k - 1 \in Nat
      BY <1>3
    <3>2. \A i \in 1 .. Len(name) : i > k - 1 => i > k \/ i = k
      BY <1>1, <1>3
    <3> QED BY <1>2, <3>1, <3>2
  <2> QED BY <1>2, <1>3, <2>1
<1>5. Stem(name) = k
  BY <1>2, <1>3, <1>4, StemIs
<1> QED BY <1>2, <1>3, <1>4, <1>5

LEMMA TrimIs ==
    ASSUME NEW name \in Seq(Int)
    PROVE  /\ TrimDigits(name) = SubSeq(name, 1, Stem(name))
           /\ TrimDigits(name) \in Seq(Int) /\ Len(TrimDigits(name)) = Stem(name)
           /\ \A i \in 1 .. Stem(name) : TrimDigits(name)[i] = name[i]
<1>1. Stem(name) \in 0 .. Len(name) /\ Len(name) \in Nat
  BY StemFacts
<1>2. TrimDigits(name) = SubSeq(name, 1, Stem(name))
  BY DEF TrimDigits, Stem
<1> DEFINE k == Stem(name)
<1>3. k \in 0 .. Len(name)
  BY <1>1
<1> HIDE DEF k
<1>4. SubSeq(name, 1, k) \in Seq(Int) /\ Len(SubSeq(name, 1, k)) = k
      /\ \A i \in 1 .. k : SubSeq(name, 1, k)[i] = name[i]
  BY <1>1, <1>3
<1> QED BY <1>2, <1>4 DEF k

(* A number more changes nothing of that. *)
LEMMA TrimNumber ==
    ASSUME NEW name \in Seq(Int), NEW d \in Seq(Digits)
    PROVE  TrimDigits(name \o d) = TrimDigits(name)
<1> DEFINE long == name \o d
           k == Stem(name)
<1>1. /\ long \in Seq(Int) /\ Len(long) = Len(name) + Len(d) /\ Len(name) \in Nat /\ Len(d) \in Nat
      /\ \A j \in 1 .. Len(name) : long[j] = name[j]
      /\ \A j \in 1 .. Len(d) : long[Len(name) + j] \in Digits
  <2>1. d \in Seq(Int) /\ \A j \in 1 .. Len(d) : d[j] \in Digits
    BY DEF Digits
  <2> QED BY <2>1, ConcatFacts
<1> HIDE DEF long
<1>2. /\ k \in 0 .. Len(name)
      /\ k # 0 => name[k] \notin Digits
      /\ \A j \in 1 .. Len(name) : j > k => name[j] \in Digits
  BY StemFacts
<1> HIDE DEF k
<1>3. Stem(long) = k
  <2>1. k \in 0 .. Len(long) /\ (k # 0 => long[k] \notin Digits)
    BY <1>1, <1>2
  <2>2. ASSUME NEW j \in 1 .. Len(long), j > k PROVE long[j] \in Digits
    <3>1. j \in 1 .. Len(name) \/ (j - Len(name) \in 1 .. Len(d) /\ Len(name) + (j - Len(name)) = j)
      BY <1>1
    <3> QED BY <1>1, <1>2, <2>2, <3>1
  <2> QED BY <1>1, <2>1, <2>2, StemIs
<1>4. /\ TrimDigits(long) \in Seq(Int) /\ Len(TrimDigits(long)) = k
      /\ \A j \in 1 .. k : TrimDigits(long)[j] = long[j]
  BY <1>1, <1>3, TrimIs
<1>5. /\ TrimDigits(name) \in Seq(Int) /\ Len(TrimDigits(name)) = k
      /\ \A j \in 1 .. k : TrimDigits(name)[j] = name[j]
  BY TrimIs DEF k
<1>6. TrimDigits(long) = TrimDigits(name)
  <2>1. \A j \in 1 .. k : j \in 1 .. Len(name)
    BY <1>1, <1>2
  <2>2. \A j \in 1 .. k : TrimDigits(long)[j] = TrimDigits(name)[j]
    BY <1>1, <1>4, <1>5, <2>1
  <2> QED BY <1>4, <1>5, <2>2, SameSequence
<1> QED BY <1>6 DEF long

(* A word and digits, or as the analysis of banks has it, a word with      *)
(* digits behind it (Bank::from_node).                                      *)
LEMMA NumberedWord ==
    ASSUME NEW name \in Name, NEW word \in Name, Last(word) \notin 0 .. 9
    PROVE  LET digits == SubSeq(name, Len(word) + 1, Len(name))
           IN TrimDigits(name) = word /\ name # word <=>
                IsPrefix(word, name) /\ digits # << >> /\ ToSet(digits) \subseteq 0 .. 9
<1> DEFINE l == Len(word)
           m == Len(name)
           digits == SubSeq(name, l + 1, m)
<1>1. /\ l \in Nat \ {0} /\ m \in Nat \ {0} /\ word \in Seq(Int) /\ name \in Seq(Int)
      /\ word[l] \notin Digits
  BY PathFacts DEF Name, Digits
<1>2. IsPrefix(word, name) <=> l <= m /\ \A i \in 1 .. l : word[i] = name[i]
  BY <1>1, PrefixFacts
<1>3. /\ TrimDigits(name) \in Seq(Int) /\ Len(TrimDigits(name)) = Stem(name)
      /\ \A i \in 1 .. Stem(name) : TrimDigits(name)[i] = name[i]
  BY <1>1, TrimIs
<1>4. /\ Stem(name) \in 0 .. m
      /\ \A i \in 1 .. m : i > Stem(name) => name[i] \in Digits
  BY <1>1, StemFacts
<1>5. ASSUME l <= m
      PROVE  /\ digits # << >> <=> l < m
             /\ ToSet(digits) \subseteq 0 .. 9 <=> \A i \in 1 .. m : i > l => name[i] \in Digits
  <2>1. l + 1 \in Nat /\ m - (l + 1) + 1 = m - l /\ m - l \in Nat
    BY <1>1, <1>5
  <2>2. digits = [i \in 1 .. m - l |-> name[i + l]]
    <3>1. digits = [i \in 1 .. m - (l + 1) + 1 |-> name[i + (l + 1) - 1]]
      BY <1>1
    <3>2. \A i \in 1 .. m - l : i + (l + 1) - 1 = i + l
      BY <1>1
    <3> HIDE DEF digits
    <3> QED BY <2>1, <3>1, <3>2
  <2> HIDE DEF digits
  <2>3. DOMAIN digits = 1 .. m - l /\ \A i \in 1 .. m - l : digits[i] = name[i + l]
    BY <2>2
  <2>4. digits # << >> <=> l < m
    <3>1. digits \in Seq(Int) /\ Len(digits) = m - l
      <4>1. \A i \in 1 .. m - l : name[i + l] \in Int
        BY <1>1, <1>5
      <4> QED BY <2>1, <2>2, <4>1
    <3> QED BY <1>1, <2>1, <3>1
  <2>5. ToSet(digits) \subseteq 0 .. 9 <=> \A i \in 1 .. m - l : name[i + l] \in Digits
    BY <2>3 DEF ToSet, Digits
  <2>6. (\A i \in 1 .. m - l : name[i + l] \in Digits) <=> \A i \in 1 .. m : i > l => name[i] \in Digits
    <3>1. \A i \in 1 .. m - l : i + l \in 1 .. m /\ i + l > l
      BY <1>1, <1>5
    <3>2. \A i \in 1 .. m : i > l => i - l \in 1 .. m - l /\ (i - l) + l = i
      BY <1>1, <1>5
    <3> QED BY <3>1, <3>2
  <2> QED BY <2>4, <2>5, <2>6
<1> HIDE DEF digits
<1>6. ASSUME TrimDigits(name) = word, name # word
      PROVE  IsPrefix(word, name) /\ digits # << >> /\ ToSet(digits) \subseteq 0 .. 9
  <2>1. Stem(name) = l
    BY <1>3, <1>6
  <2>2. l <= m /\ \A i \in 1 .. l : word[i] = name[i]
    BY <1>3, <1>4, <1>6, <2>1
  <2>3. l # m
    <3> SUFFICES ASSUME l = m PROVE FALSE
      OBVIOUS
    <3>1. name = word
      BY <1>1, <2>2, SameSequence
    <3> QED BY <1>6, <3>1
  <2> QED BY <1>1, <1>2, <1>4, <1>5, <2>1, <2>2, <2>3
<1>7. ASSUME IsPrefix(word, name), digits # << >>, ToSet(digits) \subseteq 0 .. 9
      PROVE  TrimDigits(name) = word /\ name # word
  <2>1. l < m /\ \A i \in 1 .. l : word[i] = name[i]
    BY <1>2, <1>5, <1>7
  <2>2. \A i \in 1 .. m : i > l => name[i] \in Digits
    BY <1>2, <1>5, <1>7
  <2>3. l \in 0 .. m /\ name[l] \notin Digits
    <3>1. l \in 1 .. l /\ l \in 0 .. m
      BY <1>1, <2>1
    <3>2. word[l] = name[l]
      BY <2>1, <3>1
    <3> QED BY <1>1, <3>1, <3>2
  <2>4. Stem(name) = l
    BY <1>1, <2>2, <2>3, StemIs
  <2>5. TrimDigits(name) = word
    <3> DEFINE a == TrimDigits(name)
    <3>1. a \in Seq(Int) /\ Len(a) = l /\ \A i \in 1 .. l : a[i] = word[i]
      BY <1>3, <2>1, <2>4
    <3> HIDE DEF a
    <3>2. a = word
      BY <1>1, <3>1, SameSequence
    <3> QED BY <3>2 DEF a
  <2> QED BY <1>1, <2>1, <2>5
<1> QED BY <1>6, <1>7 DEF digits, l, m

(* What is a bank where it is read is one among the nodes of the record.   *)
LEMMA BankIn ==
    ASSUME IsTree(result), NEW q, Topmost(q), NEW w \in DOMAIN Sub(q), w # << >>
    PROVE  /\ IsBank(q \o w) <=> w \in Banks(Sub(q))
           /\ IsBank(q \o w) /\ 63 \in Status(q \o w) <=> w \in Wrong(Sub(q))
           /\ IsBank(q \o w) => /\ ValuesAt(Sub(q), At(w, <<"status">>)) = {Status(q \o w)}
                                /\ Status(q \o w) \subseteq 0 .. 63
<1> DEFINE p == q \o w
           s == At(w, <<"status">>)
           V == ValuesAt(Sub(q), s)
<1>1. w \in Path /\ q \in Path
  BY SubIs DEF Topmost
<1>2. s \in Path /\ At(p, <<"status">>) = q \o s
  <2>1. <<"status">> \in Seq(Words)
    BY DEF Words
  <2> QED BY <1>1, <2>1, AtBelow
<1> HIDE DEF s
<1>3. /\ HasValue(q \o s) <=> V # {}
      /\ HasValue(q \o s) => V = {Value(q \o s)} /\ Value(q \o s) \subseteq 0 .. 63
  BY <1>2, ValueIn
<1> HIDE DEF V
<1>4. Last(p) = Last(w) /\ Last(w) \in Name
  BY <1>1, BehindFacts
<1> HIDE DEF p
<1>5. Status(p) = Value(q \o s)
  BY <1>2 DEF Status
<1> DEFINE Numb == IsPrefix(Word["bank"], Last(p)) /\ BankDigits(p) # << >> /\ ToSet(BankDigits(p)) \subseteq 0 .. 9
<1>6. Numb <=> TrimDigits(Last(w)) = Word["bank"] /\ Last(w) # Word["bank"]
  <2>1. Word["bank"] \in Name /\ Last(Word["bank"]) \notin 0 .. 9
    BY TriageAssumption DEF Words
  <2> DEFINE b == Word["bank"]
             l == Last(w)
  <2>2. b \in Name /\ Last(b) \notin 0 .. 9 /\ l \in Name
    BY <1>4, <2>1
  <2> HIDE DEF b, l
  <2>3. TrimDigits(l) = b /\ l # b <=>
          IsPrefix(b, l) /\ SubSeq(l, Len(b) + 1, Len(l)) # << >> /\ ToSet(SubSeq(l, Len(b) + 1, Len(l))) \subseteq 0 .. 9
    BY <2>2, NumberedWord
  <2> QED BY <1>4, <2>3 DEF BankDigits, b, l
<1>7. IsBank(p) <=> HasValue(q \o s) /\ Numb /\ Value(q \o s) \cap 0 .. 31 # DeadBeef
  BY <1>2, <1>5 DEF IsBank
<1> HIDE DEF Numb
<1>8. w \in Banks(Sub(q)) <=> Numb /\ \E v \in V : v \cap 0 .. 31 # DeadBeef
  BY <1>6 DEF Banks, V, s
<1>9. IsBank(p) <=> w \in Banks(Sub(q))
  BY <1>3, <1>7, <1>8
<1>10. w \in Wrong(Sub(q)) <=> w \in Banks(Sub(q)) /\ \E v \in V : 63 \in v
  BY DEF Wrong, V, s
<1>11. IsBank(p) => V = {Status(p)} /\ Status(p) \subseteq 0 .. 63
  BY <1>3, <1>5, <1>7
<1> QED BY <1>9, <1>10, <1>11 DEF p, V, s

---------------------------------------------------------------------------
(* The walk. In each topmost record it comes to the nodes on the way of    *)
(* the analysis that is for the record, and to no others.                  *)
Way(t, by) ==
    {r \in DOMAIN t :
        /\ by = "mca" => \A o \in Banks(t) : ~IsPrefix(o, r)
        /\ by = "core" => \A o \in Prefixes(r) \ {r} : At(o, <<"thread">>) \notin DOMAIN t
        /\ by = "pmc_rst" =>
             \A o \in Prefixes(r) \ {<< >>} :
               \/ Last(o) = Word["pmc_rst"]
               \/ Last(o) = Word["pmc"] /\ At(Front(o), <<"pmc_rst">>) \notin DOMAIN t
        /\ by \notin {"mca", "core", "pmc_rst"} => r = << >>}

(* The node r below the topmost record q is on the way of its analysis b.  *)
OnWay(b, q, r) == q \in Registers(result) /\ b \in Analyses(q) /\ r \in Way(Sub(q), b)

ToVisit(b, p) == [by |-> b, at |-> p]

(* No record is above p. *)
IsOpen(p) == /\ p \in Path
             /\ p # << >> => p \in DOMAIN result
             /\ \A o \in Prefixes(p) \ {<< >>, p} : result[o].kind # "record"

(* A visit that the walk has a reason for.                                 *)
Expected(v) ==
    \/ v.by = "records" /\ IsOpen(v.at) /\ v = ToVisit("records", v.at)
    \/ \E b, q, r : OnWay(b, q, r) /\ v = ToVisit(b, q \o r)

(* What has been found, and what there is to find at a node on the way.    *)
InHand == tags \cup Elements(report)

Told(b, q, r) == Findings(ToVisit(b, q \o r)) \subseteq InHand

(* From the visit u the walk leads to that node. *)
Toward(u, b, q, r) ==
    \/ u.by = "records" /\ IsPrefix(u.at, q)
    \/ u = ToVisit(b, u.at) /\ \E s \in Path : u.at = q \o s /\ IsPrefix(s, r)

Comes(b, q, r) == Told(b, q, r) \/ \E u \in visits : Toward(u, b, q, r)

Warranting(t) == \E b, q, r : OnWay(b, q, r) /\ t \in Findings(ToVisit(b, q \o r))

(* The invariant of the walk: it is nowhere but where it should be, what   *)
(* it has not come to it comes to, all it has found is on the ways, and    *)
(* nothing is reported twice.                                              *)
WalkOK ==
    /\ \A v \in visits : Expected(v)
    /\ \A b, q, r : OnWay(b, q, r) => Comes(b, q, r)
    /\ \A t \in InHand : Warranting(t)
    /\ \A i, j \in DOMAIN report : report[i] = report[j] => i = j
    /\ tags \cap Elements(report) = {}

Fresh == visits = Visit("records", {<< >>}) /\ tags = {} /\ report = << >>

LEMMA AnalysesAre ==
    ASSUME NEW q
    PROVE  Analyses(q) \subseteq {"pmc_rst", "reason", "core", "mca", "agent"}
BY DEF Analyses

LEMMA OnWayFacts ==
    ASSUME IsTree(result), NEW b, NEW q, NEW r, OnWay(b, q, r)
    PROVE  /\ q \in Registers(result) /\ Topmost(q) /\ q \in Path
           /\ b \in {"pmc_rst", "reason", "core", "mca", "agent"}
           /\ r \in DOMAIN Sub(q) /\ r \in Path
<1>1. q \in Registers(result) /\ b \in Analyses(q) /\ r \in DOMAIN Sub(q)
  BY DEF OnWay, Way
<1>2. Topmost(q)
  BY <1>1, TopmostAre
<1>3. q \in Path
  BY <1>2 DEF Topmost
<1>4. r \in Path
  BY <1>1, <1>2, SubIs
<1> QED BY <1>1, <1>2, <1>3, <1>4, AnalysesAre

LEMMA EmptyPrefix ==
    ASSUME NEW o \in Path, NEW e \in Path, e = << >>, IsPrefix(o, e)
    PROVE  o = << >>
<1>1. IsPrefix(o, e) <=> Len(o) <= Len(e) /\ \A i \in 1 .. Len(o) : o[i] = e[i]
  <2>1. o \in Seq(Name) /\ e \in Seq(Name)
    BY DEF Path
  <2> QED BY ONLY <2>1, PrefixFacts
<1>2. Len(o) <= 0
  BY <1>1
<1> QED BY <1>2 DEF Path

(* At the record itself an analysis begins. *)
LEMMA WayBegins ==
    ASSUME IsTree(result), NEW q \in Registers(result), NEW b \in Analyses(q)
    PROVE  OnWay(b, q, << >>) /\ q \o << >> = q
<1>1. Topmost(q) /\ q \in Path
  BY TopmostAre DEF Topmost
<1>2. << >> \in DOMAIN Sub(q)
  BY <1>1, SubIs
<1>3. q \o << >> = q /\ << >> \in Path
  BY <1>1, BehindFacts
<1>4. \A o : o \in Prefixes(<< >>) => o = << >>
  <2>1. ASSUME NEW o \in Prefixes(<< >>) PROVE o = << >>
    <3>1. o \in Path /\ IsPrefix(o, << >>)
      BY <1>3, PrefixesAre
    <3> QED BY <1>3, <3>1, EmptyPrefix
  <2> QED BY <2>1
<1>5. \A o \in Banks(Sub(q)) : ~IsPrefix(o, << >>)
  <2> SUFFICES ASSUME NEW o \in Banks(Sub(q)), IsPrefix(o, << >>) PROVE FALSE
    OBVIOUS
  <2>1. o \in DOMAIN Sub(q) /\ o # << >>
    BY DEF Banks
  <2>2. o \in Path
    BY <1>1, <2>1, SubIs
  <2>3. o \in Prefixes(<< >>)
    BY <1>3, <2>2, PrefixesAre
  <2> QED BY <1>4, <2>1, <2>3
<1>6. << >> \in Way(Sub(q), b)
  BY <1>2, <1>4, <1>5 DEF Way
<1> QED BY <1>3, <1>6 DEF OnWay

LEMMA BanksAre ==
    ASSUME IsTree(result), NEW q, Topmost(q), NEW o \in Banks(Sub(q))
    PROVE  o \in Path /\ o \in DOMAIN Sub(q) /\ o # << >>
<1>1. o \in DOMAIN Sub(q) /\ o # << >>
  BY DEF Banks
<1> QED BY <1>1, SubIs

(* From one node on its way an analysis goes on to those that are next on  *)
(* it.                                                                      *)
NextOn(b, q, r, x) ==
    /\ x \in Name /\ Append(r, x) \in DOMAIN Sub(q) /\ Append(r, x) \in Path
    /\ b = "mca" => Append(r, x) \notin Banks(Sub(q))
    /\ b = "core" => At(r, <<"thread">>) \notin DOMAIN Sub(q)
    /\ b = "pmc_rst" => \/ x = Word["pmc_rst"]
                        \/ x = Word["pmc"] /\ At(r, <<"pmc_rst">>) \notin DOMAIN Sub(q)
    /\ b \in {"mca", "core", "pmc_rst"}

LEMMA OnwardIs ==
    ASSUME IsTree(result), NEW q, Topmost(q), NEW r \in DOMAIN Sub(q),
           NEW b \in {"pmc_rst", "reason", "core", "mca", "agent"}, NEW v
    PROVE  v \in Onward(ToVisit(b, q \o r)) <=>
             \E x \in Name : NextOn(b, q, r, x) /\ v = ToVisit(b, q \o Append(r, x))
<1> DEFINE p == q \o r
           u == ToVisit(b, p)
<1>1. r \in Path /\ q \in Path
  BY SubIs DEF Topmost
<1>2. \A c : c \in Children(p) <=> \E x \in Name : Append(r, x) \in DOMAIN Sub(q) /\ c = q \o Append(r, x)
  BY <1>1, ChildIn
<1>3. \A x \in Name : Append(r, x) \in Path /\ Append(r, x) # << >>
  BY <1>1, AppendPath DEF Path
<1>4. \A w \in Words : /\ At(r, <<w>>) = Append(r, Word[w]) /\ Word[w] \in Name
                       /\ At(p, <<w>>) = q \o At(r, <<w>>)
                       /\ Has(At(p, <<w>>)) <=> At(r, <<w>>) \in DOMAIN Sub(q)
  <2> TAKE w \in Words
  <2>1. <<w>> \in Seq(Words)
    OBVIOUS
  <2> QED BY <1>1, <2>1, AtBelow, AtOne, WordIs
<1>5. "thread" \in Words /\ "pmc_rst" \in Words /\ "pmc" \in Words
  BY DEF Words
<1>6. u.by = b /\ u.at = p
  BY DEF ToVisit
<1>7. \A ps : Visit(b, ps) = {ToVisit(b, c) : c \in ps}
  BY DEF Visit, ToVisit
<1> HIDE DEF u, p
<1>8. CASE b = "mca"
  <2>1. Onward(u) = {ToVisit(b, c) : c \in {c \in Children(p) : ~IsBank(c)}}
    BY <1>6, <1>7, <1>8 DEF Onward
  <2>2. \A x \in Name : Append(r, x) \in DOMAIN Sub(q) =>
          (IsBank(q \o Append(r, x)) <=> Append(r, x) \in Banks(Sub(q)))
    <3> SUFFICES ASSUME NEW x \in Name, Append(r, x) \in DOMAIN Sub(q)
                 PROVE  IsBank(q \o Append(r, x)) <=> Append(r, x) \in Banks(Sub(q))
      OBVIOUS
    <3> DEFINE w == Append(r, x)
    <3>1. w \in DOMAIN Sub(q) /\ w # << >>
      BY <1>3
    <3> HIDE DEF w
    <3>2. IsBank(q \o w) <=> w \in Banks(Sub(q))
      BY <3>1, BankIn
    <3> QED BY <3>2 DEF w
  <2>3. v \in Onward(u) <=> \E c : c \in Children(p) /\ ~IsBank(c) /\ v = ToVisit(b, c)
    BY <2>1
  <2>4. \A x \in Name : NextOn(b, q, r, x) <=> Append(r, x) \in DOMAIN Sub(q) /\ Append(r, x) \notin Banks(Sub(q))
    BY <1>3, <1>8 DEF NextOn
  <2> QED BY <1>2, <2>2, <2>3, <2>4, Zenon DEF u, p
<1>9. CASE b = "core"
  <2>1. Onward(u) = IF HasThread(p) THEN {} ELSE {ToVisit(b, c) : c \in Children(p)}
    BY <1>6, <1>7, <1>9 DEF Onward
  <2>2. HasThread(p) <=> At(r, <<"thread">>) \in DOMAIN Sub(q)
    BY <1>4, <1>5 DEF HasThread
  <2>3. v \in Onward(u) <=> ~HasThread(p) /\ \E c : c \in Children(p) /\ v = ToVisit(b, c)
    BY <2>1
  <2>4. \A x \in Name : NextOn(b, q, r, x) <=> Append(r, x) \in DOMAIN Sub(q) /\ ~HasThread(p)
    BY <1>3, <1>9, <2>2 DEF NextOn
  <2> QED BY <1>2, <2>3, <2>4, Zenon DEF u, p
<1>10. CASE b = "pmc_rst"
  <2>1. Onward(u) = {ToVisit(b, c) : c \in Nested(p)}
    BY <1>6, <1>7, <1>10 DEF Onward
  <2>2. v \in Onward(u) <=> \E c : c \in Nested(p) /\ v = ToVisit(b, c)
    BY <2>1
  <2> DEFINE y == Word["pmc_rst"]
             z == Word["pmc"]
  <2>3. /\ y \in Name /\ z \in Name /\ At(r, <<"pmc_rst">>) = Append(r, y)
        /\ At(r, <<"pmc">>) = Append(r, z)
        /\ At(p, <<"pmc_rst">>) = q \o Append(r, y) /\ At(p, <<"pmc">>) = q \o Append(r, z)
        /\ Has(q \o Append(r, y)) <=> Append(r, y) \in DOMAIN Sub(q)
        /\ Has(q \o Append(r, z)) <=> Append(r, z) \in DOMAIN Sub(q)
    BY <1>4, <1>5
  <2> HIDE DEF y, z
  <2>4. \A c : c \in Nested(p) <=>
          \/ Append(r, y) \in DOMAIN Sub(q) /\ c = q \o Append(r, y)
          \/ Append(r, y) \notin DOMAIN Sub(q) /\ Append(r, z) \in DOMAIN Sub(q) /\ c = q \o Append(r, z)
    BY <2>3 DEF Nested, Has
  <2>5. \A x \in Name : NextOn(b, q, r, x) <=>
          /\ Append(r, x) \in DOMAIN Sub(q)
          /\ \/ x = y
             \/ x = z /\ Append(r, y) \notin DOMAIN Sub(q)
    <3>1. ASSUME NEW x \in Name
          PROVE  NextOn(b, q, r, x) <=>
                   /\ Append(r, x) \in DOMAIN Sub(q)
                   /\ \/ x = y
                      \/ x = z /\ At(r, <<"pmc_rst">>) \notin DOMAIN Sub(q)
      <4>1. Append(r, x) \in Path
        BY <1>3
      <4>2. b # "mca" /\ b # "core" /\ b \in {"mca", "core", "pmc_rst"} /\ b = "pmc_rst"
        BY <1>10
      <4> QED BY <4>1, <4>2, Zenon DEF NextOn, y, z
    <3>2. At(r, <<"pmc_rst">>) = Append(r, y)
      BY <2>3
    <3> QED BY <3>1, <3>2, Zenon
  <2> QED BY <2>2, <2>3, <2>4, <2>5, Zenon DEF u, p
<1>11. CASE b \in {"reason", "agent"}
  <2>1. Onward(u) = {}
    BY <1>6, <1>11 DEF Onward
  <2>2. \A x \in Name : ~NextOn(b, q, r, x)
    BY <1>11 DEF NextOn
  <2> QED BY <2>1, <2>2 DEF u, p
<1> QED BY <1>8, <1>9, <1>10, <1>11

LEMMA WayGoes ==
    ASSUME IsTree(result), NEW b, NEW q, NEW r, OnWay(b, q, r), NEW x \in Name, NextOn(b, q, r, x)
    PROVE  OnWay(b, q, Append(r, x))
<1> DEFINE w == Append(r, x)
<1>1. /\ q \in Registers(result) /\ Topmost(q) /\ r \in Path /\ r \in Way(Sub(q), b)
      /\ b \in Analyses(q)
  BY OnWayFacts DEF OnWay
<1>2. w \in DOMAIN Sub(q) /\ w \in Path /\ b \in {"mca", "core", "pmc_rst"}
  BY DEF NextOn
<1>3. /\ w # << >> /\ Front(w) = r /\ Last(w) = x
      /\ Prefixes(w) \ {w} = Prefixes(r) /\ r \in Prefixes(r)
  BY <1>1, PrefixesLonger
<1>4. CASE b = "mca"
  <2>1. w \notin Banks(Sub(q)) /\ \A o \in Banks(Sub(q)) : ~IsPrefix(o, r)
    BY <1>1, <1>4 DEF Way, NextOn
  <2>2. ASSUME NEW o \in Banks(Sub(q)), IsPrefix(o, w) PROVE FALSE
    <3>1. o \in Path
      BY <1>1, BanksAre
    <3>2. o # w
      BY <2>1
    <3> HIDE DEF w
    <3>3. o \in Prefixes(w)
      BY <1>2, <2>2, <3>1, PrefixesAre
    <3>4. o \in Prefixes(r)
      BY <1>3, <3>2, <3>3
    <3>5. IsPrefix(o, r)
      BY <1>1, <3>4, PrefixesAre
    <3> QED BY <2>1, <3>5
  <2> QED BY <1>1, <1>2, <1>4, <2>2 DEF OnWay, Way
<1>5. CASE b = "core"
  <2>1. /\ At(r, <<"thread">>) \notin DOMAIN Sub(q)
        /\ \A o \in Prefixes(r) \ {r} : At(o, <<"thread">>) \notin DOMAIN Sub(q)
    BY <1>1, <1>5 DEF Way, NextOn
  <2>2. w \in DOMAIN Sub(q)
    BY <1>2
  <2>3. Prefixes(w) \ {w} = Prefixes(r)
    BY <1>3
  <2> HIDE DEF w
  <2>4. \A o \in Prefixes(w) \ {w} : At(o, <<"thread">>) \notin DOMAIN Sub(q)
    BY <2>1, <2>3, Zenon
  <2>5. w \in Way(Sub(q), b)
    BY <1>5, <2>2, <2>4 DEF Way
  <2> QED BY <1>1, <2>5 DEF OnWay, w
<1>6. CASE b = "pmc_rst"
  <2>1. /\ \/ x = Word["pmc_rst"]
           \/ x = Word["pmc"] /\ At(r, <<"pmc_rst">>) \notin DOMAIN Sub(q)
        /\ \A o \in Prefixes(r) \ {<< >>} :
             \/ Last(o) = Word["pmc_rst"]
             \/ Last(o) = Word["pmc"] /\ At(Front(o), <<"pmc_rst">>) \notin DOMAIN Sub(q)
    BY <1>1, <1>6 DEF Way, NextOn
  <2>2. w \in DOMAIN Sub(q) /\ w # << >> /\ Front(w) = r /\ Last(w) = x
    BY <1>2, <1>3
  <2>3. \A o \in Prefixes(w) : o \in Prefixes(r) \/ o = w
    BY <1>3
  <2> HIDE DEF w
  <2>4. \A o \in Prefixes(w) \ {<< >>} :
          \/ Last(o) = Word["pmc_rst"]
          \/ Last(o) = Word["pmc"] /\ At(Front(o), <<"pmc_rst">>) \notin DOMAIN Sub(q)
    <3> TAKE o \in Prefixes(w) \ {<< >>}
    <3>1. CASE o \in Prefixes(r)
      BY <2>1, <3>1
    <3>2. CASE o = w
      BY <2>1, <2>2, <3>2
    <3> QED BY <2>3, <3>1, <3>2
  <2>5. w \in Way(Sub(q), b)
    BY <1>6, <2>2, <2>4 DEF Way
  <2> QED BY <1>1, <2>5 DEF OnWay, w
<1> QED BY <1>2, <1>4, <1>5, <1>6

(* Before a node on its way an analysis goes on toward it. *)
LEMMA WayLeads ==
    ASSUME IsTree(result), NEW b, NEW q, NEW r, OnWay(b, q, r), NEW s \in Path, IsStrictPrefix(s, r)
    PROVE  /\ s \in DOMAIN Sub(q)
           /\ \E x \in Name : NextOn(b, q, s, x) /\ IsPrefix(Append(s, x), r)
<1>1. /\ q \in Registers(result) /\ Topmost(q) /\ r \in Path /\ r \in DOMAIN Sub(q)
      /\ r \in Way(Sub(q), b) /\ b \in {"pmc_rst", "reason", "core", "mca", "agent"}
  BY OnWayFacts DEF OnWay
<1>2. PICK x \in Name : Append(s, x) \in Path /\ IsPrefix(Append(s, x), r)
  BY <1>1, NextBelowPrefix
<1> DEFINE w == Append(s, x)
<1>3. w \in Path /\ IsPrefix(w, r)
  BY <1>2
<1>4. /\ w # << >> /\ Front(w) = s /\ Last(w) = x
  BY PrefixesLonger
<1>5. IsPrefix(s, r) /\ s # r
  BY DEF IsStrictPrefix
<1> HIDE DEF w
<1>6. s \in DOMAIN Sub(q) /\ w \in DOMAIN Sub(q)
  BY <1>1, <1>3, <1>5, SubClosed
<1>7. s \in Prefixes(r) \ {r} /\ w \in Prefixes(r) \ {<< >>}
  BY <1>1, <1>3, <1>4, <1>5, PrefixesAre
<1>8. b \in {"mca", "core", "pmc_rst"}
  <2> SUFFICES ASSUME b \notin {"mca", "core", "pmc_rst"} PROVE FALSE
    OBVIOUS
  <2>1. r = << >>
    BY <1>1 DEF Way
  <2>2. Len(w) <= Len(r) /\ Len(w) \in Nat /\ Len(r) \in Nat
    BY <1>1, <1>3, PrefixFacts DEF Path
  <2>3. Len(w) = 0
    BY <2>1, <2>2
  <2> QED BY <1>3, <1>4, <2>3 DEF Path
<1>9. b = "mca" => w \notin Banks(Sub(q))
  BY <1>1, <1>3 DEF Way
<1>10. b = "core" => At(s, <<"thread">>) \notin DOMAIN Sub(q)
  BY <1>1, <1>7 DEF Way
<1>11. b = "pmc_rst" => \/ x = Word["pmc_rst"]
                        \/ x = Word["pmc"] /\ At(s, <<"pmc_rst">>) \notin DOMAIN Sub(q)
  <2> SUFFICES ASSUME b = "pmc_rst"
               PROVE  \/ x = Word["pmc_rst"]
                      \/ x = Word["pmc"] /\ At(s, <<"pmc_rst">>) \notin DOMAIN Sub(q)
    OBVIOUS
  <2>1. \/ Last(w) = Word["pmc_rst"]
        \/ Last(w) = Word["pmc"] /\ At(Front(w), <<"pmc_rst">>) \notin DOMAIN Sub(q)
    BY <1>1, <1>7 DEF Way
  <2> QED BY <1>4, <2>1
<1>12. NextOn(b, q, s, x)
  BY <1>3, <1>6, <1>8, <1>9, <1>10, <1>11 DEF NextOn, w
<1> QED BY <1>2, <1>6, <1>12

---------------------------------------------------------------------------
(* The walk, step by step. What it finds and where it goes is in the tree, *)
(* which no step of it changes.                                             *)
LEMMA FoundAgain ==
    ASSUME UNCHANGED result, NEW v
    PROVE  Findings(v)' = Findings(v)
BY DEF Has, HasValue, Value, Children, Status, IsBank, BankTags, HasThread, Queue, Transactions, Address,
       Stuck, QueueState, TimedOut, Timeouts, Nested, ResetCauses, Reasons, AgentErrors, Findings

LEMMA OnWayAgain ==
    ASSUME UNCHANGED result, NEW b, NEW q, NEW r
    PROVE  OnWay(b, q, r)' <=> OnWay(b, q, r)
BY DEF OnWay, Sub

LEMMA ExpectedAgain ==
    ASSUME UNCHANGED result, NEW v
    PROVE  Expected(v)' <=> Expected(v)
BY OnWayAgain DEF Expected, IsOpen

LEMMA WarrantingAgain ==
    ASSUME UNCHANGED result, NEW t
    PROVE  Warranting(t)' <=> Warranting(t)
BY OnWayAgain, FoundAgain, Zenon DEF Warranting

LEMMA VisitFacts ==
    ASSUME NEW b, NEW p
    PROVE  ToVisit(b, p).by = b /\ ToVisit(b, p).at = p
           /\ \A ps : Visit(b, ps) = {ToVisit(b, c) : c \in ps}
BY DEF ToVisit, Visit

(* From the nodes that are open it goes to others, and to the records.     *)
LEMMA RecordsOnward ==
    ASSUME NEW p, NEW w
    PROVE  w \in Onward(ToVisit("records", p)) <=>
             IF IsRecord(p) THEN \E b \in Analyses(p) : w = ToVisit(b, p)
             ELSE \E c \in Children(p) : w = ToVisit("records", c)
<1> DEFINE u == ToVisit("records", p)
<1>1. u.by = "records" /\ u.at = p /\ \A ps : Visit("records", ps) = {ToVisit("records", c) : c \in ps}
  BY VisitFacts
<1> HIDE DEF u
<1>2. Onward(u) = IF IsRecord(p) THEN {[by |-> by, at |-> p] : by \in Analyses(p)}
                  ELSE {ToVisit("records", c) : c \in Children(p)}
  BY <1>1 DEF Onward
<1>3. {[by |-> by, at |-> p] : by \in Analyses(p)} = {ToVisit(b, p) : b \in Analyses(p)}
  BY DEF ToVisit
<1>4. CASE IsRecord(p)
  <2>1. Onward(u) = {ToVisit(b, p) : b \in Analyses(p)}
    BY <1>2, <1>3, <1>4
  <2> QED BY <1>4, <2>1 DEF u
<1>5. CASE ~IsRecord(p)
  <2>1. Onward(u) = {ToVisit("records", c) : c \in Children(p)}
    BY <1>2, <1>5
  <2> QED BY <1>5, <2>1 DEF u
<1> QED BY <1>4, <1>5

LEMMA ChildIsOpen ==
    ASSUME IsTree(result), NEW p, IsOpen(p), ~IsRecord(p), NEW c \in Children(p)
    PROVE  IsOpen(c)
<1>1. c \in DOMAIN result /\ c = Append(p, Last(c)) /\ p \in Path
  BY DEF Children, IsOpen
<1>2. Last(c) \in Name /\ c \in Path
  BY <1>1, TreeFacts
<1> DEFINE x == Last(c)
<1>3. /\ c # << >> /\ Prefixes(c) \ {c} = Prefixes(p) /\ x \in Name
  <2>1. x \in Name /\ c = Append(p, x)
    BY <1>1, <1>2
  <2> HIDE DEF x
  <2> QED BY <1>1, <2>1, PrefixesLonger
<1>4. \A o \in Prefixes(c) \ {<< >>, c} : result[o].kind # "record"
  <2> TAKE o \in Prefixes(c) \ {<< >>, c}
  <2>1. o \in Prefixes(p) /\ o # << >>
    BY <1>3
  <2>2. CASE o = p
    BY <2>1, <2>2 DEF IsRecord
  <2>3. CASE o # p
    BY <2>1, <2>3 DEF IsOpen
  <2> QED BY <2>2, <2>3
<1> QED BY <1>1, <1>2, <1>3, <1>4 DEF IsOpen

LEMMA OpenRecord ==
    ASSUME NEW p, IsOpen(p), IsRecord(p)
    PROVE  p \in Registers(result)
BY DEF IsOpen, IsRecord, Registers

LEMMA WalkSound ==
    ASSUME IsTree(result), NEW v, Expected(v), NEW w \in Onward(v)
    PROVE  Expected(w)
<1>1. CASE v.by = "records" /\ IsOpen(v.at) /\ v = ToVisit("records", v.at)
  <2> DEFINE p == v.at
  <2>1. IsOpen(p) /\ w \in Onward(ToVisit("records", p))
    BY <1>1
  <2> HIDE DEF p
  <2>2. CASE IsRecord(p)
    <3>1. PICK b \in Analyses(p) : w = ToVisit(b, p)
      BY <2>1, <2>2, RecordsOnward
    <3>2. p \in Registers(result)
      BY <2>1, <2>2, OpenRecord
    <3>3. OnWay(b, p, << >>) /\ p \o << >> = p
      BY <3>2, WayBegins
    <3> QED BY <3>1, <3>3 DEF Expected
  <2>3. CASE ~IsRecord(p)
    <3>1. PICK c \in Children(p) : w = ToVisit("records", c)
      BY <2>1, <2>3, RecordsOnward
    <3>2. IsOpen(c)
      BY <2>1, <2>3, ChildIsOpen
    <3>3. w.by = "records" /\ w.at = c
      BY <3>1, VisitFacts
    <3> QED BY <3>1, <3>2, <3>3 DEF Expected
  <2> QED BY <2>2, <2>3
<1>2. ASSUME NEW b, NEW q, NEW r, OnWay(b, q, r), v = ToVisit(b, q \o r)
      PROVE  Expected(w)
  <2>1. /\ Topmost(q) /\ b \in {"pmc_rst", "reason", "core", "mca", "agent"} /\ r \in DOMAIN Sub(q)
    BY <1>2, OnWayFacts
  <2>2. PICK x \in Name : NextOn(b, q, r, x) /\ w = ToVisit(b, q \o Append(r, x))
    BY <1>2, <2>1, OnwardIs
  <2>3. OnWay(b, q, Append(r, x))
    BY <1>2, <2>2, WayGoes
  <2> QED BY <2>2, <2>3 DEF Expected
<1> QED BY <1>1, <1>2 DEF Expected

LEMMA WalkFinds ==
    ASSUME NEW v, Expected(v), NEW t \in Findings(v)
    PROVE  Warranting(t)
<1>1. v.by # "records"
  BY DEF Findings
<1> QED BY <1>1, Zenon DEF Expected, Warranting

LEMMA WalkLeads ==
    ASSUME IsTree(result), NEW b, NEW q, NEW r, OnWay(b, q, r), NEW u, Expected(u), Toward(u, b, q, r)
    PROVE  u = ToVisit(b, q \o r) \/ \E w \in Onward(u) : Toward(w, b, q, r)
<1>1. /\ q \in Registers(result) /\ Topmost(q) /\ q \in Path /\ r \in Path /\ b \in Analyses(q)
      /\ b \in {"pmc_rst", "reason", "core", "mca", "agent"}
  BY OnWayFacts DEF OnWay
<1>2. CASE u.by = "records" /\ IsPrefix(u.at, q)
  <2> DEFINE p == u.at
  <2>1. IsOpen(p) /\ u = ToVisit("records", p) /\ IsPrefix(p, q)
    <3>1. ASSUME NEW b1, NEW q1, NEW r1, OnWay(b1, q1, r1), u = ToVisit(b1, q1 \o r1) PROVE FALSE
      <4>1. b1 # "records"
        BY <3>1, OnWayFacts
      <4> QED BY <1>2, <3>1, <4>1, VisitFacts
    <3> QED BY <1>2, <3>1 DEF Expected
  <2> HIDE DEF p
  <2>2. p \in Path
    BY <2>1 DEF IsOpen
  <2>3. CASE IsRecord(p)
    <3>1. p = q
      <4>1. p \in Prefixes(q) /\ p # << >> /\ result[p].kind = "record"
        BY <1>1, <2>1, <2>2, <2>3, PrefixesAre DEF IsRecord
      <4> QED BY <1>1, <4>1 DEF Registers
    <3> DEFINE w == ToVisit(b, q)
    <3>2. w \in Onward(u)
      BY <1>1, <2>1, <2>3, <3>1, RecordsOnward
    <3>3. w = ToVisit(b, w.at) /\ w.at = q
      BY VisitFacts
    <3>4. q = q \o << >> /\ << >> \in Path /\ IsPrefix(<< >>, r)
      BY <1>1, BehindFacts, PrefixesAre
    <3> HIDE DEF w
    <3>5. Toward(w, b, q, r)
      BY <3>3, <3>4 DEF Toward
    <3> QED BY <3>2, <3>5
  <2>4. CASE ~IsRecord(p)
    <3>1. p # q
      BY <1>1, <2>4 DEF Topmost, IsRecord
    <3>2. PICK x \in Name : Append(p, x) \in Path /\ IsPrefix(Append(p, x), q)
      BY <1>1, <2>1, <2>2, <3>1, NextBelowPrefix DEF IsStrictPrefix
    <3> DEFINE c == Append(p, x)
    <3>3. c # << >> /\ Last(c) = x
      BY <2>2, PrefixesLonger
    <3>4. c \in Children(p)
      <4>1. c = Append(p, Last(c)) /\ c \in Path /\ IsPrefix(c, q)
        BY <3>2, <3>3
      <4> HIDE DEF c
      <4>2. c \in DOMAIN result
        BY <1>1, <3>3, <4>1, PrefixClosed DEF Topmost
      <4> QED BY <4>1, <4>2 DEF Children
    <3>5. IsPrefix(c, q)
      BY <3>2
    <3> HIDE DEF c
    <3> DEFINE w == ToVisit("records", c)
    <3>6. w \in Onward(u)
      BY <2>1, <2>4, <3>4, RecordsOnward
    <3>7. w.by = "records" /\ w.at = c
      BY VisitFacts
    <3> HIDE DEF w
    <3> QED BY <3>5, <3>6, <3>7 DEF Toward
  <2> QED BY <2>3, <2>4
<1>3. ASSUME u = ToVisit(b, u.at), NEW s \in Path, u.at = q \o s, IsPrefix(s, r)
      PROVE  u = ToVisit(b, q \o r) \/ \E w \in Onward(u) : Toward(w, b, q, r)
  <2>1. CASE s = r
    BY <1>3, <2>1
  <2>2. CASE s # r
    <3>1. IsStrictPrefix(s, r)
      BY <1>3, <2>2 DEF IsStrictPrefix
    <3>2. /\ s \in DOMAIN Sub(q)
          /\ \E x \in Name : NextOn(b, q, s, x) /\ IsPrefix(Append(s, x), r)
      BY <3>1, WayLeads
    <3>3. PICK x \in Name : NextOn(b, q, s, x) /\ IsPrefix(Append(s, x), r)
      BY <3>2
    <3> DEFINE w == ToVisit(b, q \o Append(s, x))
    <3>4. w \in Onward(ToVisit(b, q \o s))
      BY <1>1, <3>2, <3>3, OnwardIs
    <3>5. w = ToVisit(b, w.at) /\ w.at = q \o Append(s, x)
      BY VisitFacts
    <3>6. Append(s, x) \in Path
      BY <3>3 DEF NextOn
    <3> HIDE DEF w
    <3>7. Toward(w, b, q, r)
      BY <3>3, <3>5, <3>6 DEF Toward
    <3> QED BY <1>3, <3>4, <3>7
  <2> QED BY <2>1, <2>2
<1> QED BY <1>2, <1>3 DEF Toward

---------------------------------------------------------------------------
(* What is found on the ways, and nothing else, is a tag or reported, and  *)
(* no tag is reported twice.                                                *)
LEMMA ExpectedWalk ==
    ASSUME IsTree(result), WalkOK, Walk, NEW w \in visits'
    PROVE  Expected(w)'
<1>1. UNCHANGED result /\ visits' = UNION {Onward(v) : v \in visits}
  BY DEF Walk, vars
<1>2. PICK v \in visits : w \in Onward(v)
  BY <1>1
<1>3. Expected(v)
  BY DEF WalkOK
<1>4. Expected(w)
  BY <1>2, <1>3, WalkSound
<1> QED BY <1>1, <1>4, ExpectedAgain

LEMMA ComesWalk ==
    ASSUME IsTree(result), WalkOK, Walk, NEW b, NEW q, NEW r, OnWay(b, q, r)'
    PROVE  Comes(b, q, r)'
<1>1. /\ UNCHANGED <<result, report>> /\ visits' = UNION {Onward(v) : v \in visits}
      /\ tags' = tags \cup UNION {Findings(v) : v \in visits}
  BY DEF Walk, vars
<1>2. OnWay(b, q, r)
  BY <1>1, OnWayAgain
<1>3. Comes(b, q, r)
  BY <1>2 DEF WalkOK
<1> DEFINE z == ToVisit(b, q \o r)
<1>4. Told(b, q, r)' <=> Findings(z) \subseteq InHand'
  <2>1. Findings(z)' = Findings(z)
    BY <1>1, FoundAgain
  <2>2. Told(b, q, r)' <=> Findings(z)' \subseteq InHand'
    BY DEF Told
  <2> QED BY <2>1, <2>2
<1>5. InHand \subseteq InHand' /\ \A u \in visits : Findings(u) \subseteq InHand'
  BY <1>1 DEF InHand, Elements
<1> HIDE DEF z
<1>6. CASE Told(b, q, r)
  <2>1. Findings(z) \subseteq InHand
    BY <1>6 DEF Told, z
  <2> QED BY <1>4, <1>5, <2>1 DEF Comes
<1>7. ASSUME NEW u \in visits, Toward(u, b, q, r) PROVE Comes(b, q, r)'
  <2>1. Expected(u)
    BY DEF WalkOK
  <2>2. u = z \/ \E w \in Onward(u) : Toward(w, b, q, r)
    BY <1>2, <1>7, <2>1, WalkLeads DEF z
  <2>3. CASE u = z
    BY <1>4, <1>5, <2>3 DEF Comes
  <2>4. ASSUME NEW w \in Onward(u), Toward(w, b, q, r) PROVE Comes(b, q, r)'
    <3>1. w \in visits'
      BY <1>1
    <3> QED BY <2>4, <3>1 DEF Comes
  <2> QED BY <2>2, <2>3, <2>4
<1> QED BY <1>3, <1>6, <1>7 DEF Comes

LEMMA WalkWalk ==
    ASSUME IsTree(result), TInv, WalkOK, Walk
    PROVE  WalkOK'
<1>1. /\ UNCHANGED <<result, report>> /\ visits # {}
      /\ tags' = tags \cup UNION {Findings(v) : v \in visits}
  BY DEF Walk, vars
<1>2. report = << >> /\ report' = << >>
  BY <1>1 DEF TInv, Visiting
<1>3. \A w \in visits' : Expected(w)'
  BY ExpectedWalk
<1>4. \A b, q, r : OnWay(b, q, r)' => Comes(b, q, r)'
  BY ComesWalk
<1>5. \A t \in InHand' : Warranting(t)'
  <2> TAKE t \in InHand'
  <2>1. t \in InHand \/ \E v \in visits : t \in Findings(v)
    BY <1>1 DEF InHand, Elements
  <2>2. Warranting(t)
    <3>1. CASE t \in InHand
      BY <3>1 DEF WalkOK
    <3>2. ASSUME NEW v \in visits, t \in Findings(v) PROVE Warranting(t)
      <4>1. Expected(v)
        BY DEF WalkOK
      <4> QED BY <3>2, <4>1, WalkFinds
    <3> QED BY <2>1, <3>1, <3>2
  <2> QED BY <1>1, <2>2, WarrantingAgain
<1>6. (\A i, j \in DOMAIN report : report[i] = report[j] => i = j)'
  BY <1>2
<1>7. (tags \cap Elements(report))' = {}
  BY <1>2 DEF Elements
<1> QED BY <1>3, <1>4, <1>5, <1>6, <1>7 DEF WalkOK

LEMMA WalkReport ==
    ASSUME TInv, WalkOK, Report
    PROVE  WalkOK'
<1>1. UNCHANGED <<result, visits>> /\ visits = {}
  BY DEF Report, vars
<1>2. PICK t \in tags : report' = Append(report, t) /\ tags' = tags \ {t}
  BY DEF Report
<1> DEFINE new == Append(report, t)
           l == Len(report)
<1>3. /\ Elements(new) = Elements(report) \cup {t}
      /\ l \in Nat /\ DOMAIN report = 1 .. l /\ DOMAIN new = 1 .. l + 1
      /\ \A i \in 1 .. l : new[i] = report[i]
      /\ new[l + 1] = t
  BY AppendFacts DEF TInv, ReportOK
<1> HIDE DEF new, l
<1>4. report' = new /\ Elements(report)' = Elements(report) \cup {t}
  <2>1. report' = new
    BY <1>2 DEF new
  <2>2. Elements(report)' = Elements(new)
    BY <2>1 DEF Elements
  <2> QED BY <1>3, <2>1, <2>2
<1>5. InHand' = InHand
  BY <1>2, <1>4 DEF InHand
<1>6. tags \cap Elements(report) = {} /\ \A i, j \in DOMAIN report : report[i] = report[j] => i = j
  BY DEF WalkOK
<1>7. \A w \in visits' : Expected(w)'
  BY <1>1
<1>8. ASSUME NEW b, NEW q, NEW r, OnWay(b, q, r)' PROVE Comes(b, q, r)'
  <2>1. Comes(b, q, r)
    BY <1>1, <1>8, OnWayAgain DEF WalkOK
  <2>2. Told(b, q, r)
    BY <1>1, <2>1 DEF Comes
  <2> DEFINE z == ToVisit(b, q \o r)
  <2>3. Findings(z)' = Findings(z)
    BY <1>1, FoundAgain
  <2>4. Findings(z)' \subseteq InHand'
    BY <1>5, <2>2, <2>3 DEF Told
  <2> QED BY <2>4 DEF Comes, Told
<1>9. \A u \in InHand' : Warranting(u)'
  BY <1>1, <1>5, WarrantingAgain DEF WalkOK
<1>10. (\A i, j \in DOMAIN report : report[i] = report[j] => i = j)'
  <2>1. \A i \in 1 .. l : new[i] # t
    BY <1>3, <1>6 DEF Elements
  <2>2. \A i, j \in 1 .. l + 1 : new[i] = new[j] => i = j
    <3> SUFFICES ASSUME NEW i \in 1 .. l + 1, NEW j \in 1 .. l + 1, new[i] = new[j] PROVE i = j
      OBVIOUS
    <3>1. (i \in 1 .. l \/ i = l + 1) /\ (j \in 1 .. l \/ j = l + 1)
      BY <1>3
    <3> QED BY <1>3, <1>6, <2>1, <3>1
  <2> QED BY <1>3, <1>4, <2>2
<1>11. (tags \cap Elements(report))' = {}
  BY <1>2, <1>4, <1>6
<1> QED BY <1>7, <1>8, <1>9, <1>10, <1>11 DEF WalkOK

LEMMA WalkStays ==
    ASSUME WalkOK, UNCHANGED <<vars, analysis>>
    PROVE  WalkOK'
<1>1. UNCHANGED <<result, visits, tags, report>>
  BY DEF vars, analysis
<1>2. InHand' = InHand
  BY <1>1 DEF InHand, Elements
<1>3. \A w \in visits' : Expected(w)'
  BY <1>1, ExpectedAgain DEF WalkOK
<1>4. ASSUME NEW b, NEW q, NEW r, OnWay(b, q, r)' PROVE Comes(b, q, r)'
  <2>1. Comes(b, q, r)
    BY <1>1, <1>4, OnWayAgain DEF WalkOK
  <2>2. Told(b, q, r)' <=> Told(b, q, r)
    <3> DEFINE z == ToVisit(b, q \o r)
    <3>1. Findings(z)' = Findings(z)
      BY <1>1, FoundAgain
    <3> QED BY <1>2, <3>1 DEF Told
  <2> QED BY <1>1, <2>1, <2>2 DEF Comes
<1>5. \A u \in InHand' : Warranting(u)'
  BY <1>1, <1>2, WarrantingAgain DEF WalkOK
<1> QED BY <1>1, <1>3, <1>4, <1>5 DEF WalkOK, Elements

LEMMA WalkBegins == TypeInv /\ Fresh => WalkOK
<1> SUFFICES ASSUME IsTree(result), Fresh PROVE WalkOK
  BY DEF TypeInv, TreesOK
<1> DEFINE u == ToVisit("records", << >>)
<1>1. visits = {u} /\ u.by = "records" /\ u.at = << >> /\ tags = {} /\ report = << >>
  BY VisitFacts DEF Fresh
<1>2. << >> \in Path /\ Prefixes(<< >>) \ {<< >>} = {}
  <2> DEFINE e == << >>
  <2>1. e \in Path
    BY DEF Path
  <2>2. \A o : o \in Prefixes(e) => o \in Path /\ IsPrefix(o, e)
    BY <2>1, PrefixesAre
  <2>3. \A o : o \in Prefixes(e) => o = << >>
    BY <2>1, <2>2, EmptyPrefix
  <2> HIDE DEF e
  <2>4. Prefixes(e) \ {<< >>} = {}
    BY <2>3
  <2> QED BY <2>1, <2>4 DEF e
<1>3. Expected(u)
  BY <1>1, <1>2 DEF Expected, IsOpen
<1>4. ASSUME NEW b, NEW q, NEW r, OnWay(b, q, r) PROVE Comes(b, q, r)
  <2>1. q \in Path
    BY <1>4, OnWayFacts
  <2>2. IsPrefix(<< >>, q)
    BY <2>1, PrefixesAre
  <2> QED BY <1>1, <2>2 DEF Comes, Toward
<1>5. InHand = {} /\ Elements(report) = {} /\ DOMAIN report = {}
  BY <1>1 DEF InHand, Elements
<1> QED BY <1>1, <1>3, <1>4, <1>5, Zenon DEF WalkOK

(* Before it begins, nothing has been found. *)
WalkInv == IF pc = "done" THEN Fresh \/ WalkOK ELSE Fresh

LEMMA NotDone == Next => pc # "done"
BY DEF Next, SkipLine, TakeLine, NodeMissing, AtLine, ReadChunk, FieldDone, FieldMissing, LayoutDone, Complete,
       LayoutFails, Failed, MergeNode, Extended, Merged

LEMMA WalkInvStep ==
    TypeInv /\ TInv /\ WalkInv /\ (Fresh => WalkOK) /\ [TriageNext]_<<vars, analysis>> => WalkInv'
<1> SUFFICES ASSUME IsTree(result), TInv, WalkInv, Fresh => WalkOK, [TriageNext]_<<vars, analysis>>
             PROVE  WalkInv'
  BY DEF TypeInv, TreesOK
<1>1. CASE Decoding
  BY <1>1, NotDone DEF Decoding, WalkInv, Fresh, analysis
<1>2. CASE Walk
  <2>1. pc = "done" /\ pc' = pc
    BY <1>2 DEF Walk, vars
  <2> QED BY <1>2, <2>1, WalkWalk DEF WalkInv
<1>3. CASE Report
  <2>1. pc = "done" /\ pc' = pc
    BY <1>3 DEF Report, vars
  <2> QED BY <1>3, <2>1, WalkReport DEF WalkInv
<1>4. CASE UNCHANGED <<vars, analysis>>
  <2>1. pc' = pc /\ (Fresh <=> Fresh')
    BY <1>4 DEF vars, analysis, Fresh
  <2> QED BY <1>4, <2>1, WalkStays DEF WalkInv
<1> QED BY <1>1, <1>2, <1>3, <1>4 DEF TriageNext

(* When all is decoded the walk is whole at each step, until the end.      *)
LEMMA WalkIsWhole == TriageSpec => [](TypeInv /\ Placed /\ Sited /\ TInv /\ (pc = "done" => WalkOK))
<1>1. TriageInit => Init /\ WalkInv
  BY DEF TriageInit, WalkInv, Fresh
<1>2. TypeInv /\ Fresh => WalkOK
  BY WalkBegins
<1>3. [TriageNext]_<<vars, analysis>> => [Next]_vars
  BY DEF TriageNext, Decoding, Walk, Report, vars
<1>4. WalkInv /\ (Fresh => WalkOK) => (pc = "done" => WalkOK)
  BY DEF WalkInv
<1>5. Init => TypeInv
  BY TypeInit
<1>7. Init => Placed
  BY PlacedInit
<1>8. TypeInv /\ Placed /\ [Next]_vars => Placed'
  BY PlacedStep
<1>9. TypeInv /\ [Next]_vars => TypeInv'
  <2>1. CASE UNCHANGED vars
    BY <2>1 DEF vars, TypeInv, RecordOK, LayoutOK, TreesOK, MergeOK, Target, Known, Lines
  <2> QED BY <2>1, TypeStep
<1>10. TInv /\ [TriageNext]_<<vars, analysis>> => TInv'
  BY NextUrgent
<1>11. TypeInv /\ TInv /\ WalkInv /\ (Fresh => WalkOK) /\ [TriageNext]_<<vars, analysis>> => WalkInv'
  BY WalkInvStep
<1>12. TriageInit => TInv
  BY InitUrgent
<1>13. Init => Sited
  BY SitedInit
<1>14. TypeInv /\ Sited /\ [Next]_vars => Sited'
  <2>1. CASE UNCHANGED vars
    BY <2>1 DEF vars, Sited, Rec
  <2> QED BY <2>1, SitedStep
<1> QED BY <1>1, <1>2, <1>3, <1>4, <1>5, <1>7, <1>8, <1>9, <1>10, <1>11, <1>12, <1>13, <1>14, PTL DEF TriageSpec

---------------------------------------------------------------------------
(* What is found is what the record calls for, analysis by analysis.       *)
Call(p, what) == [at |-> p, what |-> what]
Calls(ps, what) == {Call(p, what) : p \in ps}

(* What the record with the tree t calls for by the analysis b.            *)
CallsBy(t, b) ==
    IF b = "mca" THEN Calls(Wrong(t) \cap Outermost(t), "MachineCheck")
    ELSE IF b = "core" THEN Calls(OfThreads(t), "MachineCheck") \cup Calls(Hung(t), "CoreTimeout")
    ELSE IF b = "pmc_rst" THEN Calls(Causes(t), "ResetCause")
    ELSE IF b = "reason" THEN Calls(IF ValuesAt(t, At(<< >>, <<"hdr", "reason">>)) # {} THEN {<< >>} ELSE {}, "CrashLogReason")
    ELSE Calls(IF AgentFails(t) THEN {<< >>} ELSE {}, "CrashLogAgentError")

(* The analysis b finds the tag u in the record q. *)
FoundBy(b, q, u) == \E r \in Way(Sub(q), b) : u \in Findings(ToVisit(b, q \o r))

Match(q, u, w) == w.at \in Path /\ u.at = q \o w.at /\ u.what[1] = w.what

(* One tag for one call, and none for none. *)
Agree(b, q) ==
    /\ \A u : FoundBy(b, q, u) => \E w \in CallsBy(Sub(q), b) : Match(q, u, w)
    /\ \A w \in CallsBy(Sub(q), b) : \E u : FoundBy(b, q, u) /\ Match(q, u, w)
    /\ \A u, v : FoundBy(b, q, u) /\ FoundBy(b, q, v) /\ u.at = v.at /\ u.what[1] = v.what[1] => u = v

LEMMA CallFacts ==
    ASSUME NEW p, NEW what
    PROVE  Call(p, what).at = p /\ Call(p, what).what = what
BY DEF Call

LEMMA MatchIs ==
    ASSUME NEW q, NEW p \in Path, NEW what, NEW u, u.at = q \o p, u.what[1] = what
    PROVE  Match(q, u, Call(p, what))
<1> DEFINE w == Call(p, what)
<1>1. w.at = p /\ w.what = what
  BY CallFacts
<1> HIDE DEF w
<1>2. Match(q, u, w)
  BY <1>1, Zenon DEF Match
<1> QED BY <1>2 DEF w

(* The names do not overlap. *)
IsNamed(name, words) == \E w \in words : name = Word[w]

LEMMA OneKind ==
    ASSUME NEW name, NEW S \in SUBSET Words, NEW T \in SUBSET Words, S \cap T = {}, IsNamed(name, S)
    PROVE  ~IsNamed(name, T)
BY TriageAssumption DEF IsNamed

Kind(name) ==
    IF IsNamed(name, {"pmc_rst"}) THEN {"pmc_rst"}
    ELSE IF IsNamed(name, {"punit", "pmc"}) THEN {"reason"}
    ELSE IF IsNamed(name, {"pcore", "ecore"}) THEN {"core"}
    ELSE IF IsNamed(name, {"mca"}) THEN {"mca"}
    ELSE IF IsNamed(name, {"crashlog_agent"}) THEN {"agent"}
    ELSE {}

LEMMA KindsExclude ==
    ASSUME NEW name
    PROVE  /\ IsNamed(name, {"pmc_rst"}) => /\ ~IsNamed(name, {"punit", "pmc"}) /\ ~IsNamed(name, {"pcore", "ecore"})
                                            /\ ~IsNamed(name, {"mca"}) /\ ~IsNamed(name, {"crashlog_agent"})
           /\ IsNamed(name, {"punit", "pmc"}) => /\ ~IsNamed(name, {"pcore", "ecore"})
                                            /\ ~IsNamed(name, {"mca"}) /\ ~IsNamed(name, {"crashlog_agent"})
           /\ IsNamed(name, {"pcore", "ecore"}) => ~IsNamed(name, {"mca"}) /\ ~IsNamed(name, {"crashlog_agent"})
           /\ IsNamed(name, {"mca"}) => ~IsNamed(name, {"crashlog_agent"})
<1> DEFINE A == {"pmc_rst"}
           B == {"punit", "pmc"}
           C == {"pcore", "ecore"}
           D == {"mca"}
           E == {"crashlog_agent"}
<1>1. /\ A \in SUBSET Words /\ B \in SUBSET Words /\ C \in SUBSET Words /\ D \in SUBSET Words /\ E \in SUBSET Words
      /\ A \cap B = {} /\ A \cap C = {} /\ A \cap D = {} /\ A \cap E = {}
      /\ B \cap C = {} /\ B \cap D = {} /\ B \cap E = {}
      /\ C \cap D = {} /\ C \cap E = {} /\ D \cap E = {}
  BY DEF Words
<1> HIDE DEF A, B, C, D, E
<1>2. /\ IsNamed(name, A) => ~IsNamed(name, B) /\ ~IsNamed(name, C) /\ ~IsNamed(name, D) /\ ~IsNamed(name, E)
      /\ IsNamed(name, B) => ~IsNamed(name, C) /\ ~IsNamed(name, D) /\ ~IsNamed(name, E)
      /\ IsNamed(name, C) => ~IsNamed(name, D) /\ ~IsNamed(name, E)
      /\ IsNamed(name, D) => ~IsNamed(name, E)
  BY <1>1, OneKind
<1> QED BY <1>2 DEF A, B, C, D, E

LEMMA AnalysesKind ==
    ASSUME NEW q
    PROVE  Analyses(q) = Kind(TrimDigits(Last(q)))
<1> DEFINE name == TrimDigits(Last(q))
<1>1. Analyses(q) =
        CASE IsNamed(name, {"pmc_rst"})        -> {"pmc_rst"}
          [] IsNamed(name, {"punit", "pmc"})   -> {"reason"}
          [] IsNamed(name, {"pcore", "ecore"}) -> {"core"}
          [] IsNamed(name, {"mca"})            -> {"mca"}
          [] IsNamed(name, {"crashlog_agent"}) -> {"agent"}
          [] OTHER                             -> {}
  BY DEF Analyses, IsNamed
<1> HIDE DEF name
<1>2. Analyses(q) = Kind(name)
  BY <1>1, KindsExclude DEF Kind
<1> QED BY <1>2 DEF name

LEMMA WarrantedKind ==
    ASSUME NEW t, NEW name
    PROVE  /\ Kind(name) = {} => Warranted(t, name) = {}
           /\ \A b \in Kind(name) : Warranted(t, name) = CallsBy(t, b)
<1> DEFINE Once(holds) == IF holds THEN {<< >>} ELSE {}
           W1 == Calls(Wrong(t) \cap Outermost(t), "MachineCheck")
           W2 == Calls(OfThreads(t), "MachineCheck") \cup Calls(Hung(t), "CoreTimeout")
           W3 == Calls(Causes(t), "ResetCause")
           W4 == Calls(Once(ValuesAt(t, At(<< >>, <<"hdr", "reason">>)) # {}), "CrashLogReason")
           W5 == Calls(Once(AgentFails(t)), "CrashLogAgentError")
<1>1. Warranted(t, name) =
        CASE IsNamed(name, {"mca"})            -> W1
          [] IsNamed(name, {"pcore", "ecore"}) -> W2
          [] IsNamed(name, {"pmc_rst"})        -> W3
          [] IsNamed(name, {"punit", "pmc"})   -> W4
          [] IsNamed(name, {"crashlog_agent"}) -> W5
          [] OTHER                             -> {}
  BY DEF Warranted, IsNamed, Calls, Call
<1>2. /\ CallsBy(t, "mca") = W1 /\ CallsBy(t, "core") = W2 /\ CallsBy(t, "pmc_rst") = W3
      /\ CallsBy(t, "reason") = W4 /\ CallsBy(t, "agent") = W5
  BY DEF CallsBy
<1> HIDE DEF W1, W2, W3, W4, W5
<1> QED BY <1>1, <1>2, KindsExclude DEF Kind

---------------------------------------------------------------------------
(* A bank is reported by what its status says. *)
BankTag(p) == Tag(5, p, <<"MachineCheck", BankId(p), ModelSpecificCode(Status(p)), ErrorCode(Status(p))>>)

LEMMA BankTagFacts ==
    ASSUME NEW p
    PROVE  BankTag(p).at = p /\ BankTag(p).what[1] = "MachineCheck"
BY DEF BankTag, Tag

LEMMA ChecksOf ==
    ASSUME IsTree(result), NEW q, Topmost(q), NEW r \in Path, NEW u
    PROVE  u \in BankTags(Children(q \o r)) <=>
             \E x \in Name : /\ Append(r, x) \in Path /\ Append(r, x) \in Wrong(Sub(q))
                             /\ u = BankTag(q \o Append(r, x))
<1>1. u \in BankTags(Children(q \o r)) <=>
        \E c : c \in Children(q \o r) /\ IsBank(c) /\ 63 \in Status(c) /\ u = BankTag(c)
  BY Zenon DEF BankTags, BankTag
<1>2. \A c : c \in Children(q \o r) <=> \E x \in Name : Append(r, x) \in DOMAIN Sub(q) /\ c = q \o Append(r, x)
  BY ChildIn
<1>3. ASSUME NEW x \in Name
      PROVE  /\ Append(r, x) \in Path
             /\ Append(r, x) \in Wrong(Sub(q)) <=>
                  /\ Append(r, x) \in DOMAIN Sub(q)
                  /\ IsBank(q \o Append(r, x)) /\ 63 \in Status(q \o Append(r, x))
  <2> DEFINE w == Append(r, x)
  <2>1. w \in Path /\ w # << >>
    BY AppendPath DEF Path
  <2> HIDE DEF w
  <2>2. w \in Wrong(Sub(q)) => w \in DOMAIN Sub(q)
    BY DEF Wrong, Banks
  <2>3. w \in DOMAIN Sub(q) => (IsBank(q \o w) /\ 63 \in Status(q \o w) <=> w \in Wrong(Sub(q)))
    BY <2>1, BankIn
  <2> QED BY <2>1, <2>2, <2>3 DEF w
<1> QED BY <1>1, <1>2, <1>3, Zenon

LEMMA FindingsMca ==
    ASSUME NEW p
    PROVE  Findings(ToVisit("mca", p)) = BankTags(Children(p))
BY VisitFacts DEF Findings

(* An analysis calls for what at the nodes X and for other at the nodes Y, *)
(* and puts down the tag of each.                                          *)
Tagged(q, X, what, f) == \A p \in X : p \in Path /\ f[p].at = q \o p /\ f[p].what[1] = what
Tells(q, b, X, f, Y, g) == \A u : FoundBy(b, q, u) <=> \/ \E p \in X : u = f[p]
                                                       \/ \E p \in Y : u = g[p]

LEMMA AgreeEach ==
    ASSUME NEW q \in Path, NEW b, NEW X, NEW Y, NEW what, NEW other, what # other, NEW f, NEW g,
           CallsBy(Sub(q), b) = Calls(X, what) \cup Calls(Y, other),
           Tagged(q, X, what, f), Tagged(q, Y, other, g), Tells(q, b, X, f, Y, g)
    PROVE  Agree(b, q)
<1>1. \A p \in X : Match(q, f[p], Call(p, what)) /\ Call(p, what) \in CallsBy(Sub(q), b)
  BY MatchIs DEF Tagged, Calls
<1>2. \A p \in Y : Match(q, g[p], Call(p, other)) /\ Call(p, other) \in CallsBy(Sub(q), b)
  BY MatchIs DEF Tagged, Calls
<1>3. \A w \in CallsBy(Sub(q), b) : \/ \E p \in X : w = Call(p, what)
                                    \/ \E p \in Y : w = Call(p, other)
  BY DEF Calls
<1> DEFINE Bears(z, p) == \/ z = f[p] /\ z.what[1] = what
                          \/ z = g[p] /\ z.what[1] = other
<1>4. ASSUME NEW z, FoundBy(b, q, z)
      PROVE  \E p \in Path : z.at = q \o p /\ Bears(z, p)
  <2>1. (\E p \in X : z = f[p]) \/ (\E p \in Y : z = g[p])
    BY <1>4 DEF Tells
  <2> QED BY <2>1 DEF Tagged
<1>5. ASSUME NEW u, NEW v, FoundBy(b, q, u), FoundBy(b, q, v), u.at = v.at, u.what[1] = v.what[1]
      PROVE  u = v
  <2>1. PICK p \in Path : u.at = q \o p /\ Bears(u, p)
    BY <1>4, <1>5
  <2>2. PICK o \in Path : v.at = q \o o /\ Bears(v, o)
    BY <1>4, <1>5
  <2>3. p = o
    <3>1. q \o p = q \o o
      BY <1>5, <2>1, <2>2
    <3>2. \A r \in Path : q \o p = q \o r => p = r
      BY BehindFacts
    <3> QED BY <3>1, <3>2
  <2> QED BY <1>5, <2>1, <2>2, <2>3
<1>6. \A u : FoundBy(b, q, u) => \E w \in CallsBy(Sub(q), b) : Match(q, u, w)
  BY <1>1, <1>2, Zenon DEF Tells
<1>7. \A w \in CallsBy(Sub(q), b) : \E u : FoundBy(b, q, u) /\ Match(q, u, w)
  BY <1>1, <1>2, <1>3, Zenon DEF Tells
<1> QED BY <1>5, <1>6, <1>7, Zenon DEF Agree

LEMMA AgreeMca ==
    ASSUME IsTree(result), NEW q, Topmost(q)
    PROVE  Agree("mca", q)
<1> DEFINE t == Sub(q)
<1>1. \A r \in Way(t, "mca") : r \in DOMAIN t /\ r \in Path /\ \A o \in Banks(t) : ~IsPrefix(o, r)
  BY SubIs DEF Way
<1>2. ASSUME NEW u, FoundBy("mca", q, u)
      PROVE  \E w \in Wrong(t) \cap Outermost(t) : w \in Path /\ u = BankTag(q \o w)
  <2>1. PICK r \in Way(t, "mca") : u \in BankTags(Children(q \o r))
    BY <1>2, FindingsMca DEF FoundBy
  <2>2. PICK x \in Name : Append(r, x) \in Path /\ Append(r, x) \in Wrong(t) /\ u = BankTag(q \o Append(r, x))
    BY <1>1, <2>1, ChecksOf
  <2> DEFINE w == Append(r, x)
  <2>3. w \in DOMAIN t /\ w \in Path /\ w # << >> /\ Front(w) = r
    BY <1>1, <2>2, PrefixesLonger DEF Wrong, Banks
  <2>4. w \in Outermost(t)
    <3> HIDE DEF w
    <3>1. ASSUME NEW o \in Banks(t), IsStrictPrefix(o, w) PROVE FALSE
      <4>1. o \in Path
        BY BanksAre
      <4>2. IsPrefix(o, r)
        BY <2>3, <3>1, <4>1, PrefixOfFront DEF Path
      <4> QED BY <1>1, <4>2
    <3> QED BY <2>3, <3>1 DEF Outermost
  <2> QED BY <2>2, <2>3, <2>4
<1>3. ASSUME NEW w \in Wrong(t) \cap Outermost(t)
      PROVE  w \in Path /\ FoundBy("mca", q, BankTag(q \o w))
  <2>1. w \in Banks(t) /\ w \in Wrong(t) /\ w \in Outermost(t)
    BY DEF Wrong
  <2>2. w \in Path /\ w \in DOMAIN t /\ w # << >>
    BY <2>1, BanksAre
  <2> DEFINE r == Front(w)
             x == Last(w)
  <2>3. r \in Path /\ x \in Name /\ w = Append(r, x) /\ IsPrefix(r, w)
    <3>1. r \in Path /\ x \in Name /\ w = Append(r, x)
      BY <2>2, PathFacts, FrontLast DEF Path
    <3>2. IsPrefix(r, w)
      BY <2>2, PrefixOfFront DEF Path, IsStrictPrefix
    <3> QED BY <3>1, <3>2
  <2>4. r \in DOMAIN t
    <3> HIDE DEF r
    <3> QED BY <2>2, <2>3, SubClosed
  <2>5. \A o \in Banks(t) : ~IsPrefix(o, r)
    <3> SUFFICES ASSUME NEW o \in Banks(t), IsPrefix(o, r) PROVE FALSE
      OBVIOUS
    <3>1. o \in Path
      BY BanksAre
    <3>2. IsStrictPrefix(o, w)
      BY <2>2, <3>1, PrefixOfFront DEF Path
    <3> QED BY <2>1, <3>2 DEF Outermost
  <2>6. r \in Way(t, "mca")
    BY <2>4, <2>5 DEF Way
  <2> HIDE DEF r, x
  <2>7. BankTag(q \o w) \in BankTags(Children(q \o r))
    BY <2>1, <2>2, <2>3, ChecksOf
  <2> QED BY <2>2, <2>6, <2>7, FindingsMca DEF FoundBy
<1> DEFINE X == Wrong(t) \cap Outermost(t)
           f == [p \in X |-> BankTag(q \o p)]
<1>4. CallsBy(Sub(q), "mca") = Calls(X, "MachineCheck") \cup Calls({}, "none")
  BY DEF CallsBy, Calls
<1> HIDE DEF t
<1>5. Tagged(q, X, "MachineCheck", f) /\ Tagged(q, {}, "none", f)
  BY <1>3, BankTagFacts DEF Tagged
<1>6. Tells(q, "mca", X, f, {}, f)
  BY <1>2, <1>3 DEF Tells
<1> HIDE DEF X, f
<1> QED BY <1>4, <1>5, <1>6, AgreeEach DEF Topmost

---------------------------------------------------------------------------
(* Numbers of few bits. *)
LEMMA NoHighBits ==
    ASSUME NEW v, NEW sum, Doubling(v, sum), NEW l \in 0 .. 64, \A b \in 0 .. 63 : b \in v => b < 64 - l
    PROVE  sum[l] = 0
<1> DEFINE T == {k \in 0 .. l : sum[k] = 0}
<1>1. 0 \in T
  BY DEF Doubling
<1>2. ASSUME NEW k \in 1 .. l, k - 1 \in T PROVE k \in T
  <2>1. k \in 1 .. 64 /\ 64 - k \in 0 .. 63 /\ ~(64 - k < 64 - l)
    OBVIOUS
  <2> QED BY <1>2, <2>1 DEF Doubling, BitOf
<1>3. l \in T
  <2> HIDE DEF T
  <2> QED BY <1>1, <1>2, Induction
<1> QED BY <1>3

LEMMA HighBit ==
    ASSUME NEW v, NEW sum, Doubling(v, sum), NEW l \in 0 .. 64, NEW b \in 0 .. 63, b \in v, b >= 64 - l
    PROVE  sum[l] >= 1
<1> DEFINE T == {k \in 0 .. l : k >= 64 - b => sum[k] >= 1}
<1>1. 0 \in T
  OBVIOUS
<1>2. ASSUME NEW k \in 1 .. l, k - 1 \in T PROVE k \in T
  <2>1. sum[k] = 2 * sum[k - 1] + BitOf(v, k) /\ sum[k - 1] \in Nat /\ BitOf(v, k) \in Nat
    <3>1. k \in 1 .. 64 /\ k - 1 \in 0 .. 64
      OBVIOUS
    <3>2. sum[k - 1] \in Nat
      BY <3>1, SumsAreNat
    <3> QED BY <3>1, <3>2 DEF Doubling, BitOf
  <2>2. k = 64 - b => BitOf(v, k) = 1
    BY DEF BitOf
  <2> QED BY <1>2, <2>1, <2>2
<1>3. l \in T
  <2> HIDE DEF T
  <2> QED BY <1>1, <1>2, Induction
<1> QED BY <1>3

Bit(v, b) == IF b \in v THEN 1 ELSE 0
Four(v, b) == 8 * Bit(v, b + 3) + 4 * Bit(v, b + 2) + 2 * Bit(v, b + 1) + Bit(v, b)

LEMMA FourBits ==
    ASSUME NEW v, NEW b \in 0 .. 60
    PROVE  /\ Four(v, b) \in 0 .. 15
           /\ Four(v, b) = 0 <=> b \notin v /\ b + 1 \notin v /\ b + 2 \notin v /\ b + 3 \notin v
           /\ Four(v, b) = 4 <=> b \notin v /\ b + 1 \notin v /\ b + 2 \in v /\ b + 3 \notin v
           /\ Four(v, b) = 15 <=> b \in v /\ b + 1 \in v /\ b + 2 \in v /\ b + 3 \in v
BY DEF Four, Bit

LEMMA FourMore ==
    ASSUME NEW v, NEW sum, Doubling(v, sum), NEW k \in 0 .. 60
    PROVE  sum[k + 4] = 16 * sum[k] + Four(v, 60 - k) /\ sum[k + 4] \in Nat /\ sum[k] \in Nat
<1>1. \A j \in 1 .. 64 : sum[j] = 2 * sum[j - 1] + Bit(v, 64 - j)
  BY DEF Doubling, BitOf, Bit
<1>2. sum[k] \in Nat /\ \A b : Bit(v, b) \in {0, 1}
  BY SumsAreNat DEF Bit
<1>3. /\ 64 - (k + 1) = (60 - k) + 3 /\ 64 - (k + 2) = (60 - k) + 2 /\ 64 - (k + 3) = (60 - k) + 1
      /\ 64 - (k + 4) = 60 - k
      /\ (k + 1) - 1 = k /\ (k + 2) - 1 = k + 1 /\ (k + 3) - 1 = k + 2 /\ (k + 4) - 1 = k + 3
      /\ k + 1 \in 1 .. 64 /\ k + 2 \in 1 .. 64 /\ k + 3 \in 1 .. 64 /\ k + 4 \in 1 .. 64
  OBVIOUS
<1> DEFINE c == 60 - k
<1> HIDE DEF c
<1>4. sum[k + 1] = 2 * sum[k] + Bit(v, c + 3)
  BY <1>1, <1>3 DEF c
<1>5. sum[k + 2] = 2 * sum[k + 1] + Bit(v, c + 2)
  BY <1>1, <1>3 DEF c
<1>6. sum[k + 3] = 2 * sum[k + 2] + Bit(v, c + 1)
  BY <1>1, <1>3 DEF c
<1>7. sum[k + 4] = 2 * sum[k + 3] + Bit(v, c)
  BY <1>1, <1>3 DEF c
<1>8. sum[k + 1] \in Nat /\ sum[k + 2] \in Nat /\ sum[k + 3] \in Nat /\ sum[k + 4] \in Nat
  BY <1>3, SumsAreNat
<1>9. sum[k + 4] = 16 * sum[k] + Four(v, c)
  <2> DEFINE x0 == sum[k]
             x1 == sum[k + 1]
             x2 == sum[k + 2]
             x3 == sum[k + 3]
             x4 == sum[k + 4]
             a == Bit(v, c + 3)
             b == Bit(v, c + 2)
             d == Bit(v, c + 1)
             e == Bit(v, c)
  <2>1. x1 = 2 * x0 + a /\ x2 = 2 * x1 + b /\ x3 = 2 * x2 + d /\ x4 = 2 * x3 + e
    BY <1>4, <1>5, <1>6, <1>7
  <2>2. x0 \in Int /\ a \in Int /\ b \in Int /\ d \in Int /\ e \in Int
    BY <1>2
  <2>3. Four(v, c) = 8 * a + 4 * b + 2 * d + e
    BY DEF Four
  <2> HIDE DEF x0, x1, x2, x3, x4, a, b, d, e
  <2>4. x4 = 16 * x0 + Four(v, c)
    BY <2>1, <2>2, <2>3
  <2> QED BY <2>4 DEF x0, x4
<1> QED BY <1>2, <1>8, <1>9 DEF c

(* The code of a timer is that of its bit (mca.rs). *)
LEMMA TimerBit ==
    ASSUME NEW v \in SUBSET (0 .. 15)
    PROVE  Number(v) = 1024 <=> v = {10}
<1>1. PICK sum : Doubling(v, sum)
  BY NumberDoubles
<1>2. sum[48] = 0
  <2>1. \A b \in 0 .. 63 : b \in v => b < 64 - 48
    OBVIOUS
  <2> QED BY <1>1, <2>1, NoHighBits
<1> DEFINE a == Four(v, 12)
           b == Four(v, 8)
           c == Four(v, 4)
           d == Four(v, 0)
<1>3. sum[52] = 16 * sum[48] + a
  <2>1. sum[48 + 4] = 16 * sum[48] + Four(v, 60 - 48)
    BY <1>1, FourMore
  <2> QED BY <2>1
<1>4. sum[56] = 16 * sum[52] + b
  <2>1. sum[52 + 4] = 16 * sum[52] + Four(v, 60 - 52)
    BY <1>1, FourMore
  <2> QED BY <2>1
<1>5. sum[60] = 16 * sum[56] + c
  <2>1. sum[56 + 4] = 16 * sum[56] + Four(v, 60 - 56)
    BY <1>1, FourMore
  <2> QED BY <2>1
<1>6. sum[64] = 16 * sum[60] + d
  <2>1. sum[60 + 4] = 16 * sum[60] + Four(v, 60 - 60)
    BY <1>1, FourMore
  <2> QED BY <2>1
<1>7. /\ a \in 0 .. 15 /\ (a = 0 <=> 12 \notin v /\ 13 \notin v /\ 14 \notin v /\ 15 \notin v)
      /\ b \in 0 .. 15 /\ (b = 4 <=> 8 \notin v /\ 9 \notin v /\ 10 \in v /\ 11 \notin v)
      /\ c \in 0 .. 15 /\ (c = 0 <=> 4 \notin v /\ 5 \notin v /\ 6 \notin v /\ 7 \notin v)
      /\ d \in 0 .. 15 /\ (d = 0 <=> 0 \notin v /\ 1 \notin v /\ 2 \notin v /\ 3 \notin v)
  <2>1. \A l \in {0, 4, 8, 12} :
          /\ Four(v, l) \in 0 .. 15
          /\ Four(v, l) = 0 <=> l \notin v /\ l + 1 \notin v /\ l + 2 \notin v /\ l + 3 \notin v
          /\ Four(v, l) = 4 <=> l \notin v /\ l + 1 \notin v /\ l + 2 \in v /\ l + 3 \notin v
    BY FourBits
  <2> QED BY <2>1
<1> HIDE DEF a, b, c, d
<1>8. sum[64] = 1024 <=> a = 0 /\ b = 4 /\ c = 0 /\ d = 0
  <2>1. sum[52] = a
    BY <1>2, <1>3, <1>7
  <2>2. sum[56] = 16 * a + b
    BY <1>4, <2>1
  <2>3. sum[60] = 256 * a + 16 * b + c
    BY <1>5, <1>7, <2>2
  <2>4. sum[64] = 4096 * a + 256 * b + 16 * c + d
    BY <1>6, <1>7, <2>3
  <2> QED BY <1>7, <2>4
<1>9. v = {10} <=> /\ 10 \in v
                   /\ 0 \notin v /\ 1 \notin v /\ 2 \notin v /\ 3 \notin v /\ 4 \notin v /\ 5 \notin v /\ 6 \notin v
                   /\ 7 \notin v /\ 8 \notin v /\ 9 \notin v /\ 11 \notin v /\ 12 \notin v /\ 13 \notin v
                   /\ 14 \notin v /\ 15 \notin v
  <2>1. \A e \in v : e \in {0, 1, 2, 3, 4, 5, 6, 7, 8, 9, 10, 11, 12, 13, 14, 15}
    OBVIOUS
  <2> DEFINE Others == /\ 0 \notin v /\ 1 \notin v /\ 2 \notin v /\ 3 \notin v /\ 4 \notin v /\ 5 \notin v /\ 6 \notin v
                       /\ 7 \notin v /\ 8 \notin v /\ 9 \notin v /\ 11 \notin v /\ 12 \notin v /\ 13 \notin v
                       /\ 14 \notin v /\ 15 \notin v
  <2>2. ASSUME Others, NEW e \in v PROVE e = 10
    <3>1. e \in {0, 1, 2, 3, 4, 5, 6, 7, 8, 9, 10, 11, 12, 13, 14, 15}
      BY <2>1
    <3> QED BY <2>2, <3>1
  <2>3. v = {10} => Others
    OBVIOUS
  <2> HIDE DEF Others
  <2>4. v = {10} <=> 10 \in v /\ Others
    BY <2>2, <2>3
  <2> QED BY <2>4 DEF Others
<1> QED BY <1>1, <1>7, <1>8, <1>9 DEF Doubling

(* The errors of an agent are those of four bits that are neither all set  *)
(* nor all clear (agent.rs).                                                *)
LEMMA AgentBits ==
    ASSUME NEW v \in SUBSET (0 .. 63)
    PROVE  Number(v) \in 1 .. 14 <=> v \subseteq 0 .. 3 /\ v \notin {{}, 0 .. 3}
<1>1. PICK sum : Doubling(v, sum)
  BY NumberDoubles
<1> DEFINE d == Four(v, 0)
<1>2. /\ d \in 0 .. 15
      /\ d = 0 <=> 0 \notin v /\ 1 \notin v /\ 2 \notin v /\ 3 \notin v
      /\ d = 15 <=> 0 \in v /\ 1 \in v /\ 2 \in v /\ 3 \in v
  BY FourBits
<1>3. Number(v) = 16 * sum[60] + d /\ sum[60] \in Nat
  <2>1. sum[60 + 4] = 16 * sum[60] + Four(v, 60 - 60) /\ sum[60] \in Nat
    BY <1>1, FourMore
  <2> QED BY <1>1, <2>1 DEF Doubling
<1> HIDE DEF d
<1>4. CASE v \subseteq 0 .. 3
  <2>1. sum[60] = 0
    <3>1. \A b \in 0 .. 63 : b \in v => b < 64 - 60
      BY <1>4
    <3> QED BY <1>1, <3>1, NoHighBits
  <2>2. v = {} <=> d = 0
    <3>1. \A e \in v : e \in {0, 1, 2, 3}
      BY <1>4
    <3> QED BY <1>2, <3>1
  <2>3. v = 0 .. 3 <=> d = 15
    <3> DEFINE S == 0 .. 3
    <3>1. \A b : b \in S <=> b = 0 \/ b = 1 \/ b = 2 \/ b = 3
      OBVIOUS
    <3>2. v \subseteq S
      BY <1>4
    <3> HIDE DEF S
    <3>3. v = S <=> 0 \in v /\ 1 \in v /\ 2 \in v /\ 3 \in v
      BY <3>1, <3>2
    <3> QED BY <1>2, <3>3 DEF S
  <2>4. Number(v) \in 1 .. 14 <=> d # 0 /\ d # 15
    BY <1>2, <1>3, <2>1
  <2> QED BY <1>4, <2>2, <2>3, <2>4
<1>5. CASE ~(v \subseteq 0 .. 3)
  <2>1. PICK b \in 0 .. 63 : b \in v /\ b >= 64 - 60
    BY <1>5
  <2>2. sum[60] >= 1
    BY <1>1, <2>1, HighBit
  <2>3. Number(v) >= 16
    BY <1>2, <1>3, <2>2
  <2> QED BY <1>5, <2>3
<1> QED BY <1>4, <1>5

---------------------------------------------------------------------------
LEMMA TimerCode ==
    ASSUME NEW s
    PROVE  ErrorCode(s) = InternalTimerError <=> s \cap 0 .. 15 = {10}
<1> DEFINE v == s \cap 0 .. 15
           code == Number(v)
<1>1. code = 1024 <=> v = {10}
  <2>1. v \in SUBSET (0 .. 15)
    OBVIOUS
  <2> HIDE DEF v
  <2> QED BY <2>1, TimerBit
<1>2. ErrorCode(s) = IF code \in {0, 1, 2, 3, 4, 5, 6, 1024, 3595} THEN <<"known", code>>
                     ELSE IF code \div 1024 = 1 THEN <<"internal", code % 1024>>
                     ELSE <<"raw", code>>
  BY DEF ErrorCode
<1> HIDE DEF code
<1>6. CASE code \in {0, 1, 2, 3, 4, 5, 6, 1024, 3595}
  <2>1. ErrorCode(s) = <<"known", code>>
    BY <1>2, <1>6
  <2>2. ErrorCode(s) = InternalTimerError <=> code = 1024
    BY <2>1 DEF InternalTimerError
  <2> QED BY <1>1, <2>2
<1>7. CASE code \notin {0, 1, 2, 3, 4, 5, 6, 1024, 3595}
  <2>1. code # 1024
    BY <1>7
  <2>2. \/ ErrorCode(s) = <<"internal", code % 1024>>
        \/ ErrorCode(s) = <<"raw", code>>
    BY <1>2, <1>7
  <2>3. ErrorCode(s) # InternalTimerError
    BY <2>2 DEF InternalTimerError
  <2> QED BY <1>1, <2>1, <2>3
<1> QED BY <1>6, <1>7

LEMMA CoreBelow ==
    ASSUME IsTree(result), NEW q, Topmost(q), NEW r \in Path
    PROVE  /\ CoreMca(r) \in Path /\ CoreMca(q \o r) = q \o CoreMca(r)
           /\ Bank3(r) \in Path /\ Bank3(r) # << >> /\ Bank3(q \o r) = q \o Bank3(r)
           /\ Has(Bank3(q \o r)) <=> Bank3(r) \in DOMAIN Sub(q)
           /\ HasThread(q \o r) <=> At(r, <<"thread">>) \in DOMAIN Sub(q)
<1>1. <<"thread", "arch_state", "mca">> \in Seq(Words) /\ <<"thread">> \in Seq(Words)
  BY DEF Words
<1>2. CoreMca(r) \in Path /\ CoreMca(q \o r) = q \o CoreMca(r)
  BY <1>1, AtBelow DEF CoreMca
<1> DEFINE y == Append(Word["bank"], 3)
           m == CoreMca(r)
<1>3. y \in Name
  <2>1. Word["bank"] \in Name
    BY WordIs DEF Words
  <2> QED BY <2>1, LongerName
<1>4. Bank3(r) = Append(m, y) /\ Bank3(q \o r) = Append(q \o m, y)
  BY <1>2 DEF Bank3
<1>5. m \in Path
  BY <1>2
<1> HIDE DEF m, y
<1>6. /\ Append(q \o m, y) = q \o Append(m, y) /\ Append(m, y) \in Path
      /\ Append(m, y) \in DOMAIN Sub(q) <=> Has(q \o Append(m, y))
  BY <1>3, <1>5, SubAppend
<1>7. Append(m, y) # << >>
  BY <1>3, <1>5, PrefixesLonger
<1>8. HasThread(q \o r) <=> At(r, <<"thread">>) \in DOMAIN Sub(q)
  BY <1>1, AtBelow DEF HasThread
<1> QED BY <1>2, <1>4, <1>6, <1>7, <1>8

LEMMA TimedOutIs ==
    ASSUME IsTree(result), NEW q, Topmost(q), NEW r \in Path
    PROVE  TimedOut(q \o r) <=>
             /\ Bank3(r) \in Wrong(Sub(q))
             /\ \E s \in ValuesAt(Sub(q), At(Bank3(r), <<"status">>)) : s \cap 0 .. 15 = {10}
<1> DEFINE w == Bank3(r)
           p == Bank3(q \o r)
           V == ValuesAt(Sub(q), At(w, <<"status">>))
<1>1. w # << >> /\ p = q \o w /\ (Has(p) <=> w \in DOMAIN Sub(q))
  BY CoreBelow
<1>2. TimedOut(q \o r) <=> /\ Has(p) /\ IsBank(p) /\ 63 \in Status(p)
                           /\ Status(p) \cap 0 .. 15 = {10}
  BY TimerCode DEF TimedOut
<1> HIDE DEF w, p
<1>3. w \in DOMAIN Sub(q) => /\ IsBank(p) /\ 63 \in Status(p) <=> w \in Wrong(Sub(q))
                             /\ IsBank(p) => V = {Status(p)}
  <2> SUFFICES ASSUME w \in DOMAIN Sub(q)
               PROVE  /\ IsBank(p) /\ 63 \in Status(p) <=> w \in Wrong(Sub(q))
                      /\ IsBank(p) => V = {Status(p)}
    OBVIOUS
  <2>1. /\ IsBank(q \o w) /\ 63 \in Status(q \o w) <=> w \in Wrong(Sub(q))
        /\ IsBank(q \o w) => ValuesAt(Sub(q), At(w, <<"status">>)) = {Status(q \o w)}
    BY <1>1, BankIn
  <2> QED BY <1>1, <2>1
<1>4. w \in Wrong(Sub(q)) => w \in DOMAIN Sub(q)
  BY DEF Wrong, Banks
<1> HIDE DEF V
<1>5. TimedOut(q \o r) <=> w \in Wrong(Sub(q)) /\ \E s \in V : s \cap 0 .. 15 = {10}
  BY <1>1, <1>2, <1>3, <1>4
<1> QED BY <1>5 DEF w, V

TimeoutTag(p) == Tag(10, p, <<"CoreTimeout">> \o QueueState(p))

LEMMA TimeoutsAre ==
    ASSUME NEW p, NEW u
    PROVE  /\ u \in Timeouts(p) <=> TimedOut(p) /\ u = TimeoutTag(p)
           /\ u \in Timeouts(p) => u.at = p /\ u.what[1] = "CoreTimeout"
<1>1. u \in Timeouts(p) <=> TimedOut(p) /\ u = TimeoutTag(p)
  BY Zenon DEF Timeouts, TimeoutTag
<1> QED BY <1>1, TimeoutFacts

LEMMA FindingsCore ==
    ASSUME IsTree(result), NEW q, Topmost(q), NEW r \in Path
    PROVE  Findings(ToVisit("core", q \o r)) =
             IF At(r, <<"thread">>) \in DOMAIN Sub(q)
             THEN Timeouts(q \o r) \cup BankTags(Children(q \o CoreMca(r))) ELSE {}
<1> DEFINE v == ToVisit("core", q \o r)
<1>1. v.by = "core" /\ v.at = q \o r
  BY VisitFacts
<1> HIDE DEF v
<1>2. Findings(v) = IF HasThread(q \o r) THEN Timeouts(q \o r) \cup BankTags(Children(CoreMca(q \o r))) ELSE {}
  BY <1>1 DEF Findings
<1> QED BY <1>2, CoreBelow DEF v

(* A node that is visited for a core has a thread if and only if it is the *)
(* first on its way to have one.                                            *)
LEMMA ThreadsAre ==
    ASSUME NEW t, NEW r
    PROVE  r \in Threads(t) <=> r \in Way(t, "core") /\ At(r, <<"thread">>) \in DOMAIN t
BY DEF Threads, Way

LEMMA FoundCore ==
    ASSUME IsTree(result), NEW q, Topmost(q), NEW u
    PROVE  FoundBy("core", q, u) <=>
             \E r \in Threads(Sub(q)) :
               \/ r \in Hung(Sub(q)) /\ u = TimeoutTag(q \o r)
               \/ \E x \in Name : /\ Append(CoreMca(r), x) \in Path /\ Append(CoreMca(r), x) \in Wrong(Sub(q))
                                  /\ u = BankTag(q \o Append(CoreMca(r), x))
<1> DEFINE t == Sub(q)
<1>1. \A r \in Way(t, "core") : r \in Path
  BY SubIs DEF Way
<1>2. ASSUME NEW r \in Path
      PROVE  u \in Findings(ToVisit("core", q \o r)) <=>
               /\ At(r, <<"thread">>) \in DOMAIN t
               /\ \/ TimedOut(q \o r) /\ u = TimeoutTag(q \o r)
                  \/ \E x \in Name : /\ Append(CoreMca(r), x) \in Path /\ Append(CoreMca(r), x) \in Wrong(t)
                                     /\ u = BankTag(q \o Append(CoreMca(r), x))
  <2>1. u \in BankTags(Children(q \o CoreMca(r))) <=>
          \E x \in Name : /\ Append(CoreMca(r), x) \in Path /\ Append(CoreMca(r), x) \in Wrong(t)
                          /\ u = BankTag(q \o Append(CoreMca(r), x))
    <3> DEFINE m == CoreMca(r)
    <3>1. m \in Path
      BY CoreBelow
    <3> HIDE DEF m
    <3>2. u \in BankTags(Children(q \o m)) <=>
            \E x \in Name : /\ Append(m, x) \in Path /\ Append(m, x) \in Wrong(Sub(q))
                            /\ u = BankTag(q \o Append(m, x))
      BY <3>1, ChecksOf
    <3> QED BY <3>2 DEF m
  <2>2. u \in Findings(ToVisit("core", q \o r)) <=>
          At(r, <<"thread">>) \in DOMAIN t /\ (u \in Timeouts(q \o r) \/ u \in BankTags(Children(q \o CoreMca(r))))
    BY FindingsCore
  <2>3. u \in Timeouts(q \o r) <=> TimedOut(q \o r) /\ u = TimeoutTag(q \o r)
    BY TimeoutsAre
  <2> HIDE DEF t
  <2> QED BY <2>1, <2>2, <2>3, Zenon
<1>3. \A r : r \in Threads(t) <=> r \in Way(t, "core") /\ At(r, <<"thread">>) \in DOMAIN t
  BY ThreadsAre
<1>4. \A r \in Threads(t) : r \in Path /\ (r \in Hung(t) <=> TimedOut(q \o r))
  <2> TAKE r \in Threads(t)
  <2>1. r \in Path
    BY <1>1, <1>3
  <2> QED BY <2>1, TimedOutIs DEF Hung
<1> HIDE DEF t
<1>5. FoundBy("core", q, u) <=> \E r \in Way(t, "core") : u \in Findings(ToVisit("core", q \o r))
  BY DEF FoundBy, t
<1>6. FoundBy("core", q, u) <=>
        \E r \in Threads(t) :
          \/ r \in Hung(t) /\ u = TimeoutTag(q \o r)
          \/ \E x \in Name : /\ Append(CoreMca(r), x) \in Path /\ Append(CoreMca(r), x) \in Wrong(t)
                             /\ u = BankTag(q \o Append(CoreMca(r), x))
  BY <1>1, <1>2, <1>3, <1>4, <1>5, Zenon
<1> QED BY <1>6 DEF t

---------------------------------------------------------------------------
LEMMA AgreeCore ==
    ASSUME IsTree(result), NEW q, Topmost(q)
    PROVE  Agree("core", q)
<1> DEFINE t == Sub(q)
           W(p) == BankTag(q \o p)
           T(r) == TimeoutTag(q \o r)
<1>1. \A r \in Threads(t) : r \in Path /\ CoreMca(r) \in Path /\ (r \in Hung(t) => TimedOut(q \o r))
  <2> TAKE r \in Threads(t)
  <2>1. r \in Path
    BY SubIs DEF Threads
  <2> QED BY <2>1, CoreBelow, TimedOutIs DEF Hung
<1>2. CallsBy(t, "core") = Calls(OfThreads(t), "MachineCheck") \cup Calls(Hung(t), "CoreTimeout")
  BY DEF CallsBy
<1>3. \A p \in OfThreads(t) : /\ p \in Wrong(t) /\ p \in Path /\ p # << >>
                              /\ \E r \in Threads(t) : Front(p) = CoreMca(r)
  BY BanksAre DEF OfThreads, Wrong
<1>4. \A u : FoundBy("core", q, u) <=>
        \E r \in Threads(t) :
          \/ r \in Hung(t) /\ u = T(r)
          \/ \E x \in Name : /\ Append(CoreMca(r), x) \in Path /\ Append(CoreMca(r), x) \in Wrong(t)
                             /\ u = W(Append(CoreMca(r), x))
  BY FoundCore
<1>5. \A p : W(p).at = q \o p /\ W(p).what[1] = "MachineCheck"
  BY BankTagFacts
<1>6. \A r \in Threads(t) : r \in Hung(t) => T(r).at = q \o r /\ T(r).what[1] = "CoreTimeout"
  <2> SUFFICES ASSUME NEW r \in Threads(t), r \in Hung(t)
               PROVE  T(r).at = q \o r /\ T(r).what[1] = "CoreTimeout"
    OBVIOUS
  <2>1. TimedOut(q \o r)
    BY <1>1
  <2> QED BY <2>1, TimeoutsAre
<1>7. \A r \in Hung(t) : r \in Threads(t)
  BY DEF Hung
<1> HIDE DEF W, T, t
<1>8. ASSUME NEW u, FoundBy("core", q, u)
      PROVE  \/ \E r \in Hung(t) : r \in Path /\ u = T(r)
             \/ \E p \in OfThreads(t) : p \in Path /\ u = W(p)
  <2>1. PICK r \in Threads(t) :
          \/ r \in Hung(t) /\ u = T(r)
          \/ \E x \in Name : /\ Append(CoreMca(r), x) \in Path /\ Append(CoreMca(r), x) \in Wrong(t)
                             /\ u = W(Append(CoreMca(r), x))
    BY <1>4, <1>8
  <2>2. CASE r \in Hung(t) /\ u = T(r)
    BY <1>1, <2>2
  <2>3. ASSUME NEW x \in Name, Append(CoreMca(r), x) \in Path, Append(CoreMca(r), x) \in Wrong(t),
               u = W(Append(CoreMca(r), x))
        PROVE  \E p \in OfThreads(t) : p \in Path /\ u = W(p)
    <3> DEFINE p == Append(CoreMca(r), x)
    <3>1. p \in Path /\ p \in Wrong(t) /\ u = W(p)
      BY <2>3
    <3>2. Front(p) = CoreMca(r)
      BY <1>1, <2>1, PrefixesLonger
    <3> HIDE DEF p
    <3>3. p \in OfThreads(t)
      BY <2>1, <3>1, <3>2 DEF OfThreads
    <3> QED BY <3>1, <3>3
  <2> QED BY <2>1, <2>2, <2>3
<1>9. ASSUME NEW p \in OfThreads(t)
      PROVE  p \in Path /\ FoundBy("core", q, W(p))
  <2>1. PICK r \in Threads(t) : Front(p) = CoreMca(r)
    BY <1>3
  <2>2. p \in Wrong(t) /\ p \in Path /\ p # << >>
    BY <1>3
  <2>3. Last(p) \in Name /\ p = Append(Front(p), Last(p))
    BY <2>2, PathFacts, FrontLast DEF Path
  <2>4. \E x \in Name : p = Append(CoreMca(r), x)
    BY <2>1, <2>3
  <2> QED BY <1>4, <2>2, <2>4
<1>10. \A r \in Hung(t) : r \in Path /\ FoundBy("core", q, T(r))
  BY <1>1, <1>4, <1>7
<1> DEFINE X == OfThreads(t)
           Y == Hung(t)
           f == [p \in X |-> W(p)]
           g == [p \in Y |-> T(p)]
<1>11. CallsBy(Sub(q), "core") = Calls(X, "MachineCheck") \cup Calls(Y, "CoreTimeout")
  BY <1>2 DEF t
<1> HIDE DEF X, Y
<1>12. Tagged(q, X, "MachineCheck", f) /\ Tagged(q, Y, "CoreTimeout", g)
  BY <1>5, <1>6, <1>7, <1>9, <1>10 DEF Tagged, X, Y
<1>13. Tells(q, "core", X, f, Y, g)
  BY <1>8, <1>9, <1>10 DEF Tells, X, Y
<1> HIDE DEF f, g
<1> QED BY <1>11, <1>12, <1>13, AgreeEach DEF Topmost

---------------------------------------------------------------------------
CauseTag(c) == Tag(0, c, <<"ResetCause">>)
CauseRegisters == {"gblrst_cause_0", "fw_gblrst_cause_0", "host_pr_cause_0"}

LEMMA CauseTagFacts ==
    ASSUME NEW c
    PROVE  CauseTag(c).at = c /\ CauseTag(c).what[1] = "ResetCause"
BY DEF CauseTag, Tag

LEMMA NestedBelow ==
    ASSUME IsTree(result), NEW q, Topmost(q), NEW r \in Path
    PROVE  Nested(q \o r) = {} <=> At(r, <<"pmc_rst">>) \notin DOMAIN Sub(q) /\ At(r, <<"pmc">>) \notin DOMAIN Sub(q)
<1>1. <<"pmc_rst">> \in Seq(Words) /\ <<"pmc">> \in Seq(Words)
  BY DEF Words
<1>2. /\ Has(At(q \o r, <<"pmc_rst">>)) <=> At(r, <<"pmc_rst">>) \in DOMAIN Sub(q)
      /\ Has(At(q \o r, <<"pmc">>)) <=> At(r, <<"pmc">>) \in DOMAIN Sub(q)
  BY <1>1, AtBelow
<1> DEFINE a == At(q \o r, <<"pmc_rst">>)
           b == At(q \o r, <<"pmc">>)
<1>3. Nested(q \o r) = {} <=> ~Has(a) /\ ~Has(b)
  <2> HIDE DEF a, b
  <2>1. Nested(q \o r) = IF Has(a) THEN {a} ELSE {b} \cap DOMAIN result
    BY DEF Nested, a, b
  <2> QED BY <2>1 DEF Has
<1> QED BY <1>2, <1>3

LEMMA ValueBelow ==
    ASSUME IsTree(result), NEW q, Topmost(q), NEW w \in Path
    PROVE  HasValue(q \o w) /\ Value(q \o w) # {} <=> UNION ValuesAt(Sub(q), w) # {}
<1> DEFINE V == ValuesAt(Sub(q), w)
           h == HasValue(q \o w)
           x == Value(q \o w)
<1>1. (h <=> V # {}) /\ (h => V = {x})
  BY ValueIn
<1> HIDE DEF V, h, x
<1>2. h /\ x # {} <=> UNION V # {}
  BY <1>1
<1> QED BY <1>2 DEF V, h, x

LEMMA FindingsReset ==
    ASSUME NEW p
    PROVE  Findings(ToVisit("pmc_rst", p)) = IF Nested(p) = {} THEN ResetCauses(p) ELSE {}
<1> DEFINE v == ToVisit("pmc_rst", p)
<1>1. v.by = "pmc_rst" /\ v.at = p
  BY VisitFacts
<1> HIDE DEF v
<1> QED BY <1>1 DEF Findings, v

LEMMA LastPmcIs ==
    ASSUME NEW t, NEW r
    PROVE  r \in LastPmc(t) <=>
             /\ r \in Way(t, "pmc_rst")
             /\ At(r, <<"pmc_rst">>) \notin DOMAIN t /\ At(r, <<"pmc">>) \notin DOMAIN t
BY DEF LastPmc, Way

LEMMA FoundReset ==
    ASSUME IsTree(result), NEW q, Topmost(q), NEW u
    PROVE  FoundBy("pmc_rst", q, u) <=> \E w \in Causes(Sub(q)) : w \in Path /\ u = CauseTag(q \o w)
<1> DEFINE t == Sub(q)
           V(w) == UNION ValuesAt(t, w)
           OK(r, g, w) == /\ w \in DOMAIN t /\ w \in Path /\ w # << >> /\ Front(w) = At(r, <<g>>)
                          /\ V(w) # {} /\ u = CauseTag(q \o w)
<1>1. \A r : r \in LastPmc(t) => r \in Path
  BY SubIs DEF LastPmc
<1>2. ASSUME NEW r \in Path
      PROVE  u \in ResetCauses(q \o r) <=> \E g \in CauseRegisters : \E w : OK(r, g, w)
  <2>1. u \in ResetCauses(q \o r) <=>
          \E g \in CauseRegisters : \E c : /\ c \in Children(At(q \o r, <<g>>))
                                       /\ HasValue(c) /\ Value(c) # {} /\ u = CauseTag(c)
    BY Zenon DEF ResetCauses, CauseRegisters, CauseTag
  <2>2. ASSUME NEW g \in CauseRegisters
        PROVE  (\E c : /\ c \in Children(At(q \o r, <<g>>)) /\ HasValue(c) /\ Value(c) # {} /\ u = CauseTag(c))
               <=> \E w : OK(r, g, w)
    <3> DEFINE s == At(r, <<g>>)
    <3>1. s \in Path /\ At(q \o r, <<g>>) = q \o s
      <4>1. <<g>> \in Seq(Words)
        BY DEF CauseRegisters, Words
      <4> QED BY <4>1, AtBelow
    <3> HIDE DEF s
    <3>2. \A c : c \in Children(q \o s) <=> \E x \in Name : Append(s, x) \in DOMAIN t /\ c = q \o Append(s, x)
      BY <3>1, ChildIn
    <3>3. \A w \in Path : HasValue(q \o w) /\ Value(q \o w) # {} <=> V(w) # {}
      BY ValueBelow
    <3>4. ASSUME NEW w
          PROVE  (w \in DOMAIN t /\ w \in Path /\ w # << >> /\ Front(w) = s) <=>
                   \E x \in Name : w = Append(s, x) /\ w \in DOMAIN t /\ w \in Path
      <4>1. ASSUME w \in Path, w # << >>, Front(w) = s PROVE \E x \in Name : w = Append(s, x)
        <5>1. Last(w) \in Name /\ w = Append(Front(w), Last(w))
          BY <4>1, PathFacts, FrontLast DEF Path
        <5> QED BY <4>1, <5>1
      <4>2. ASSUME NEW x \in Name, w = Append(s, x) PROVE w # << >> /\ Front(w) = s
        BY <3>1, <4>2, PrefixesLonger
      <4> QED BY <4>1, <4>2
    <3> HIDE DEF V, t
    <3>5. \A x \in Name : Append(s, x) \in Path
      BY <3>1, PrefixesLonger
    <3>6. ASSUME NEW w, OK(r, g, w)
          PROVE  \E c : /\ c \in Children(At(q \o r, <<g>>)) /\ HasValue(c) /\ Value(c) # {} /\ u = CauseTag(c)
      <4>1. /\ w \in DOMAIN t /\ w \in Path /\ w # << >> /\ Front(w) = s /\ V(w) # {} /\ u = CauseTag(q \o w)
        BY <3>6 DEF s
      <4>2. \E x \in Name : w = Append(s, x)
        BY <3>4, <4>1
      <4>3. q \o w \in Children(At(q \o r, <<g>>))
        BY <3>1, <3>2, <4>1, <4>2
      <4> QED BY <3>3, <4>1, <4>3
    <3>7. ASSUME NEW c, c \in Children(At(q \o r, <<g>>)), HasValue(c), Value(c) # {}, u = CauseTag(c)
          PROVE  \E w : OK(r, g, w)
      <4>1. PICK x \in Name : Append(s, x) \in DOMAIN t /\ c = q \o Append(s, x)
        BY <3>1, <3>2, <3>7
      <4> DEFINE w == Append(s, x)
      <4>2. w \in DOMAIN t /\ w \in Path /\ c = q \o w /\ \E y \in Name : w = Append(s, y)
        BY <3>5, <4>1
      <4> HIDE DEF w
      <4>3. w # << >> /\ Front(w) = s
        BY <3>4, <4>2
      <4>4. V(w) # {}
        BY <3>3, <3>7, <4>2
      <4>5. OK(r, g, w)
        BY <3>7, <4>2, <4>3, <4>4 DEF s
      <4> QED BY <4>5
    <3> HIDE DEF OK
    <3> QED BY <3>6, <3>7
  <2> HIDE DEF OK
  <2> QED BY <2>1, <2>2, Zenon
<1>3. ASSUME NEW r \in Path
      PROVE  Nested(q \o r) = {} <=> At(r, <<"pmc_rst">>) \notin DOMAIN t /\ At(r, <<"pmc">>) \notin DOMAIN t
  BY NestedBelow
<1>4. \A r \in Way(t, "pmc_rst") : r \in Path
  BY SubIs DEF Way
<1>5. FoundBy("pmc_rst", q, u) <=> \E r \in LastPmc(t) : u \in ResetCauses(q \o r)
  <2>1. \A r : u \in Findings(ToVisit("pmc_rst", q \o r)) <=> Nested(q \o r) = {} /\ u \in ResetCauses(q \o r)
    BY FindingsReset
  <2>2. \A r : r \in LastPmc(t) <=>
           /\ r \in Way(t, "pmc_rst")
           /\ At(r, <<"pmc_rst">>) \notin DOMAIN t /\ At(r, <<"pmc">>) \notin DOMAIN t
    BY LastPmcIs
  <2> QED BY <1>3, <1>4, <2>1, <2>2, Zenon DEF FoundBy
<1>6. \A w : w \in Causes(t) <=> /\ w \in DOMAIN t /\ w # << >> /\ V(w) # {}
                                 /\ \E r \in LastPmc(t) : \E g \in CauseRegisters : Front(w) = At(r, <<g>>)
  BY DEF Causes, CauseRegisters
<1>7. \A w \in DOMAIN t : w \in Path
  BY SubIs
<1> HIDE DEF t, V
<1>8. FoundBy("pmc_rst", q, u) <=> \E w \in Causes(t) : w \in Path /\ u = CauseTag(q \o w)
  BY <1>1, <1>2, <1>5, <1>6, <1>7, Zenon
<1> QED BY <1>8 DEF t

LEMMA AgreeReset ==
    ASSUME IsTree(result), NEW q, Topmost(q)
    PROVE  Agree("pmc_rst", q)
<1> DEFINE X == Causes(Sub(q))
           f == [p \in X |-> CauseTag(q \o p)]
<1>1. \A u : FoundBy("pmc_rst", q, u) <=> \E p \in X : p \in Path /\ u = CauseTag(q \o p)
  BY FoundReset
<1>2. CallsBy(Sub(q), "pmc_rst") = Calls(X, "ResetCause") \cup Calls({}, "none")
  BY DEF CallsBy, Calls
<1>3. \A p \in X : p \in Path
  BY SubIs DEF Causes
<1> HIDE DEF X
<1>4. Tagged(q, X, "ResetCause", f) /\ Tagged(q, {}, "none", f)
  BY <1>3, CauseTagFacts DEF Tagged
<1>5. Tells(q, "pmc_rst", X, f, {}, f)
  BY <1>1, <1>3 DEF Tells
<1> HIDE DEF f
<1> QED BY <1>2, <1>4, <1>5, AgreeEach DEF Topmost

---------------------------------------------------------------------------
(* Two analyses look at the record itself and put down one tag or none.    *)
LEMMA AtRecord ==
    ASSUME IsTree(result), NEW q, Topmost(q), NEW b \in {"reason", "agent"}, NEW u
    PROVE  FoundBy(b, q, u) <=> u \in Findings(ToVisit(b, q))
<1>1. q \o << >> = q /\ << >> \in DOMAIN Sub(q)
  BY SubIs, BehindFacts DEF Topmost
<1>2. Way(Sub(q), b) = {<< >>}
  BY <1>1 DEF Way
<1> QED BY <1>1, <1>2 DEF FoundBy

LEMMA FindingsOnce ==
    ASSUME NEW p
    PROVE  /\ Findings(ToVisit("reason", p)) = Reasons(p)
           /\ Findings(ToVisit("agent", p)) = AgentErrors(p)
<1> DEFINE v == ToVisit("reason", p)
           w == ToVisit("agent", p)
<1>1. v.by = "reason" /\ v.at = p /\ w.by = "agent" /\ w.at = p
  BY VisitFacts
<1> HIDE DEF v, w
<1>2. Findings(v) = Reasons(p) /\ Findings(w) = AgentErrors(p)
  BY <1>1 DEF Findings
<1> QED BY <1>2 DEF v, w

LEMMA OfRecord ==
    ASSUME IsTree(result), NEW q, Topmost(q), NEW words \in Seq(Words)
    PROVE  LET V == ValuesAt(Sub(q), At(<< >>, words))
               p == At(q, words)
           IN (HasValue(p) <=> V # {}) /\ (HasValue(p) => V = {Value(p)} /\ Value(p) \subseteq 0 .. 63)
<1> DEFINE s == At(<< >>, words)
           e == << >>
<1>1. q \in Path
  BY DEF Topmost
<1>2. q \o e = q /\ e \in Path
  BY <1>1, BehindFacts
<1>3. At(e, words) \in Path /\ At(q \o e, words) = q \o At(e, words)
  BY <1>2, AtBelow
<1>4. s \in Path /\ At(q, words) = q \o s
  BY <1>2, <1>3
<1> HIDE DEF s
<1> QED BY <1>4, ValueIn DEF s

LEMMA AgreeOnce ==
    ASSUME NEW q \in Path, NEW b, NEW holds \in BOOLEAN, NEW what, what # "none", NEW tag, tag.at = q, tag.what[1] = what,
           CallsBy(Sub(q), b) = Calls(IF holds THEN {<< >>} ELSE {}, what),
           \A u : FoundBy(b, q, u) <=> holds /\ u = tag
    PROVE  Agree(b, q)
<1> DEFINE X == IF holds THEN {<< >>} ELSE {}
           f == [p \in X |-> tag]
<1>1. << >> \in Path /\ q \o << >> = q
  BY BehindFacts
<1>2. CallsBy(Sub(q), b) = Calls(X, what) \cup Calls({}, "none")
  BY DEF Calls
<1>3. Tagged(q, X, what, f) /\ Tagged(q, {}, "none", f)
  BY <1>1 DEF Tagged
<1>4. Tells(q, b, X, f, {}, f)
  BY DEF Tells
<1> HIDE DEF X, f
<1> QED BY <1>2, <1>3, <1>4, AgreeEach

LEMMA AgreeReason ==
    ASSUME IsTree(result), NEW q, Topmost(q)
    PROVE  Agree("reason", q)
<1> DEFINE f == At(q, <<"hdr", "reason">>)
           V == ValuesAt(Sub(q), At(<< >>, <<"hdr", "reason">>))
           tag == Tag(0, q, <<"CrashLogReason", Value(f) \cap 0 .. 31>>)
           h == V # {}
<1>1. q \in Path /\ <<"hdr", "reason">> \in Seq(Words)
  BY DEF Topmost, Words
<1>2. HasValue(f) <=> h
  BY <1>1, OfRecord
<1>3. Reasons(q) = IF HasValue(f) THEN {tag} ELSE {}
  BY DEF Reasons
<1>4. \A u : FoundBy("reason", q, u) <=> u \in Reasons(q)
  BY AtRecord, FindingsOnce
<1>5. CallsBy(Sub(q), "reason") = Calls(IF h THEN {<< >>} ELSE {}, "CrashLogReason")
  BY DEF CallsBy
<1>6. tag.at = q /\ tag.what[1] = "CrashLogReason"
  BY DEF Tag
<1>7. h \in BOOLEAN
  OBVIOUS
<1> HIDE DEF f, V, tag, h
<1>8. \A u : FoundBy("reason", q, u) <=> h /\ u = tag
  BY <1>2, <1>3, <1>4
<1> QED BY <1>1, <1>5, <1>6, <1>7, <1>8, AgreeOnce

LEMMA AgreeAgent ==
    ASSUME IsTree(result), NEW q, Topmost(q)
    PROVE  Agree("agent", q)
<1> DEFINE f == At(q, <<"status">>)
           g == At(q, <<"instruction_pointer">>)
           V == ValuesAt(Sub(q), At(<< >>, <<"status">>))
           U == ValuesAt(Sub(q), At(<< >>, <<"instruction_pointer">>))
           x == Value(f)
           tag == Tag(0, q, <<"CrashLogAgentError", x, Value(g) \cap 0 .. 31>>)
           h == AgentFails(Sub(q))
           c == HasValue(f) /\ HasValue(g) /\ x \subseteq 0 .. 3 /\ x \notin {{}, 0 .. 3}
<1>1. q \in Path /\ <<"status">> \in Seq(Words) /\ <<"instruction_pointer">> \in Seq(Words)
  BY DEF Topmost, Words
<1>2. (HasValue(f) <=> V # {}) /\ (HasValue(f) => V = {x} /\ x \subseteq 0 .. 63)
  BY <1>1, OfRecord
<1>3. HasValue(g) <=> U # {}
  BY <1>1, OfRecord
<1>4. h <=> \E s \in V : Number(s) \in 1 .. 14 /\ U # {}
  BY DEF AgentFails
<1>5. AgentErrors(q) = IF c THEN {tag} ELSE {}
  BY DEF AgentErrors
<1>6. \A u : FoundBy("agent", q, u) <=> u \in AgentErrors(q)
  BY AtRecord, FindingsOnce
<1>7. CallsBy(Sub(q), "agent") = Calls(IF h THEN {<< >>} ELSE {}, "CrashLogAgentError")
  BY DEF CallsBy
<1>8. tag.at = q /\ tag.what[1] = "CrashLogAgentError"
  BY DEF Tag
<1>9. h \in BOOLEAN
  BY DEF AgentFails
<1> HIDE DEF f, g, V, U, x, tag, h
<1>10. HasValue(f) => (Number(x) \in 1 .. 14 <=> x \subseteq 0 .. 3 /\ x \notin {{}, 0 .. 3})
  <2>1. ASSUME HasValue(f) PROVE x \in SUBSET (0 .. 63)
    BY <1>2, <2>1
  <2> QED BY <2>1, AgentBits
<1>11. h <=> c
  <2>1. CASE HasValue(f)
    <3>1. h <=> Number(x) \in 1 .. 14 /\ U # {}
      BY <1>2, <1>4, <2>1
    <3> QED BY <1>3, <1>10, <2>1, <3>1
  <2>2. CASE ~HasValue(f)
    BY <1>2, <1>4, <2>2
  <2> QED BY <2>1, <2>2
<1> HIDE DEF c
<1>12. \A u : FoundBy("agent", q, u) <=> h /\ u = tag
  BY <1>5, <1>6, <1>11
<1> QED BY <1>1, <1>7, <1>8, <1>9, <1>12, AgreeOnce

LEMMA AllAgree ==
    ASSUME IsTree(result), NEW q \in Registers(result), NEW b \in Analyses(q)
    PROVE  Agree(b, q)
<1>1. Topmost(q)
  BY TopmostAre
<1>2. b \in {"pmc_rst", "reason", "core", "mca", "agent"}
  BY AnalysesAre
<1>3. /\ Agree("pmc_rst", q) /\ Agree("reason", q) /\ Agree("core", q) /\ Agree("mca", q) /\ Agree("agent", q)
  BY <1>1, AgreeReset, AgreeReason, AgreeCore, AgreeMca, AgreeAgent
<1> HIDE DEF Agree
<1> QED BY <1>2, <1>3

---------------------------------------------------------------------------
(* The topmost records of the merged tree are those of the records, each   *)
(* under its name or a number of it.                                       *)
LEMMA RegisterCame ==
    ASSUME NEW t, NEW u, NEW a, NEW d, Merging(t, u, {}, a, d), Undisturbed(u, a, d),
           NEW p \in d, a[p] \in Registers(t)
    PROVE  p \in Registers(u)
<1>1. IsTree(u) /\ IsTree(t) /\ p \in DOMAIN a /\ p # << >>
  BY DEF Merging, Moving
<1>2. /\ p \in Path /\ a[p] \in Path /\ Len(a[p]) = Len(p) /\ p \in DOMAIN u
  BY <1>1, GoneFacts
<1>3. t[a[p]] = u[p]
  BY <1>1 DEF Merging, Settled
<1>4. /\ t[a[p]].kind = "record"
      /\ \A o \in Prefixes(a[p]) \ {<< >>, a[p]} : t[o].kind # "record"
  BY DEF Registers
<1>5. ASSUME NEW o \in Prefixes(p) \ {<< >>, p}, u[o].kind = "record" PROVE FALSE
  <2>1. PICK i \in 1 .. Len(p) : o = SubSeq(p, 1, i)
    BY <1>2, PrefixCut
  <2>4. o \in DOMAIN a \ {<< >>} /\ a[o] = SubSeq(a[p], 1, i)
    <3>1. Leads(a, p)
      BY <1>1, PrefixGoes
    <3> QED BY <2>1, <3>1 DEF Leads
  <2>5. o \in d
    BY <1>5, <2>4 DEF Undisturbed, Section
  <2>6. t[a[o]] = u[o]
    BY <2>4, <2>5 DEF Merging, Settled
  <2>7. a[o] \in Prefixes(a[p])
    BY <1>2, <2>4 DEF Prefixes
  <2>8. a[o] # << >> /\ a[o] # a[p]
    <3>1. a[o] # << >>
      BY <2>4, GoneFacts
    <3>2. o # p /\ p \in d /\ o \in d
      BY <2>5
    <3>3. a[o] # a[p]
      BY <3>2 DEF Merging, Distinct
    <3> QED BY <3>1, <3>3
  <2> QED BY <1>4, <1>5, <2>6, <2>7, <2>8
<1> QED BY <1>2, <1>3, <1>4, <1>5 DEF Registers

LEMMA NumberedAlike ==
    ASSUME NEW p \in Path, p # << >>, NEW s, IsNumbered(s, p)
    PROVE  Front(s) = Front(p) /\ TrimDigits(Last(s)) = TrimDigits(Last(p))
<1>1. PICK d \in Seq(Digits) : s = Append(Front(p), Last(p) \o d)
  BY DEF IsNumbered, Numbered, Digits
<1>2. Front(p) \in Path /\ Last(p) \in Name
  BY PathFacts DEF Path
<1>3. TrimDigits(Last(p) \o d) = TrimDigits(Last(p))
  BY <1>2, TrimNumber DEF Name
<1>4. Last(p) \o d \in Name
  BY <1>2, NumberedName
<1>5. Front(s) = Front(p) /\ Last(s) = Last(p) \o d
  BY <1>1, <1>2, <1>4, AppendPath DEF Path
<1> QED BY <1>3, <1>5

(* A[k][r] is the record that the record r of the k-th tree has become.    *)
SameRecord(A, k, r) ==
    /\ r \in Path /\ A[k][r] \in Path
    /\ A[k][r] \in Registers(result) /\ Sub(A[k][r]) = Subtree(decoded[k], r)
    /\ Front(A[k][r]) = Front(r) /\ TrimDigits(Last(A[k][r])) = TrimDigits(Last(r))

Aligned(A) ==
    /\ \A k \in DOMAIN decoded : \A r \in Registers(decoded[k]) : SameRecord(A, k, r)
    /\ \A k, l \in DOMAIN decoded : \A r \in Registers(decoded[k]), s \in Registers(decoded[l]) :
         A[k][r] = A[l][s] => k = l /\ r = s
    /\ \A q \in Registers(result) : \E k \in DOMAIN decoded : \E r \in Registers(decoded[k]) : A[k][r] = q

LEMMA RecordsAlign ==
    ASSUME TypeInv, Sited, Placed, NamesApart, pc = "done"
    PROVE  \E A : Aligned(A)
<1>1. PICK A, D : Kept(A, D)
  BY DEF Placed
<1>2. ASSUME NEW k \in DOMAIN decoded
      PROVE  /\ IsTree(decoded[k]) /\ Rooted(decoded[k], Root(crashlog[k]))
             /\ Merging(result, decoded[k], {}, A[k], D[k])
             /\ Undisturbed(decoded[k], A[k], D[k])
  <2>1. CurrentApart
    BY DEF CurrentApart
  <2> QED BY <1>1, <2>1 DEF Kept, Whole, Homed, TypeInv, TreesOK, Sited
<1>3. ASSUME NEW k \in DOMAIN decoded, NEW r \in Registers(decoded[k])
      PROVE  r \in D[k] /\ SameRecord(A, k, r)
  <2> DEFINE u == decoded[k]
             a == A[k]
             d == D[k]
             root == Root(crashlog[k])
  <2>1. IsTree(u) /\ Rooted(u, root) /\ Merging(result, u, {}, a, d) /\ Undisturbed(u, a, d) /\ r \in Registers(u)
    BY <1>2
  <2> HIDE DEF u, a, d, root
  <2>2. /\ r \in d /\ IsNumbered(a[r], r) /\ a[r] \in DOMAIN result /\ a[r] \in Registers(result)
        /\ Subtree(result, a[r]) = Subtree(u, r)
    BY <2>1, RegisterGoes
  <2>4. r \in DOMAIN u
    BY <2>1 DEF Registers
  <2>5. r \in Path /\ r # << >>
    BY <2>1, <2>4, TreeFacts
  <2>6. a[r] \in Path
    <3>1. IsTree(result)
      BY <2>1 DEF Merging, Moving
    <3> QED BY <2>2, <3>1, TreeFacts
  <2>7. Front(a[r]) = Front(r) /\ TrimDigits(Last(a[r])) = TrimDigits(Last(r))
    BY <2>2, <2>5, NumberedAlike
  <2> QED BY <2>2, <2>5, <2>6, <2>7 DEF SameRecord, Sub, u, a, d
<1>4. ASSUME NEW k \in DOMAIN decoded, NEW l \in DOMAIN decoded,
             NEW r \in Registers(decoded[k]), NEW s \in Registers(decoded[l]), A[k][r] = A[l][s]
      PROVE  k = l /\ r = s
  <2>1. r \in D[k] /\ s \in D[l]
    BY <1>3
  <2> QED BY <1>1, <1>4, <2>1 DEF Kept, Separate
<1>5. ASSUME NEW q \in Registers(result)
      PROVE  \E k \in DOMAIN decoded : \E r \in Registers(decoded[k]) : A[k][r] = q
  <2>1. q \in DOMAIN result
    BY DEF Registers
  <2>2. PICK k \in DOMAIN decoded : \E x \in D[k] : A[k][x] = q
    BY <1>1, <2>1 DEF Kept, Covered
  <2>3. PICK x \in D[k] : A[k][x] = q
    BY <2>2
  <2>4. x \in Registers(decoded[k])
    <3> DEFINE u == decoded[k]
               a == A[k]
               d == D[k]
    <3>1. Merging(result, u, {}, a, d) /\ Undisturbed(u, a, d) /\ x \in d /\ a[x] \in Registers(result)
      BY <1>2, <2>3
    <3> HIDE DEF u, a, d
    <3>2. x \in Registers(u)
      BY <3>1, RegisterCame
    <3> QED BY <3>2 DEF u
  <2> QED BY <2>3, <2>4
<1> QED BY <1>3, <1>4, <1>5, Zenon DEF Aligned

---------------------------------------------------------------------------
(* What is reported when the walk is over, by the topmost records of the   *)
(* merged tree.                                                            *)
Asked(q) == Warranted(Sub(q), TrimDigits(Last(q)))

LEMMA AskedFacts ==
    ASSUME NEW q
    PROVE  /\ Analyses(q) = {} => Asked(q) = {}
           /\ \A b \in Analyses(q) : Asked(q) = CallsBy(Sub(q), b)
           /\ \A b, c \in Analyses(q) : b = c
<1> DEFINE name == TrimDigits(Last(q))
<1>1. Analyses(q) = Kind(name)
  BY AnalysesKind
<1>2. \A b, c \in Kind(name) : b = c
  BY DEF Kind
<1>3. /\ Kind(name) = {} => Warranted(Sub(q), name) = {}
      /\ \A b \in Kind(name) : Warranted(Sub(q), name) = CallsBy(Sub(q), b)
  BY WarrantedKind
<1> HIDE DEF name
<1> QED BY <1>1, <1>2, <1>3 DEF Asked, name

LEMMA CallsAre ==
    ASSUME NEW t, NEW b, NEW w \in CallsBy(t, b)
    PROVE  w = Call(w.at, w.what)
<1>1. \A ps, what : w \in Calls(ps, what) => w = Call(w.at, w.what)
  BY DEF Calls, Call
<1> HIDE DEF Call
<1> QED BY <1>1 DEF CallsBy

LEMMA AskedAre ==
    ASSUME NEW q, NEW w \in Asked(q)
    PROVE  w = Call(w.at, w.what)
<1>1. Analyses(q) # {}
  BY AskedFacts
<1>2. PICK b \in Analyses(q) : TRUE
  BY <1>1
<1>3. w \in CallsBy(Sub(q), b)
  BY <1>2, AskedFacts
<1> QED BY <1>3, CallsAre

LEMMA OneTopmost ==
    ASSUME IsTree(result), NEW q \in Registers(result), NEW s \in Registers(result),
           NEW p \in Path, IsPrefix(q, p), IsPrefix(s, p)
    PROVE  q = s
<1>1. Topmost(q) /\ Topmost(s)
  BY TopmostAre
<1>2. q \in Path /\ s \in Path /\ q # << >> /\ s # << >>
  BY <1>1 DEF Topmost
<1>3. \A o \in Registers(result), r \in Registers(result) :
        o \in Path /\ r \in Path /\ o # << >> /\ IsPrefix(o, r) => o = r
  <2> SUFFICES ASSUME NEW o \in Registers(result), NEW r \in Registers(result),
                      o \in Path, r \in Path, o # << >>, IsPrefix(o, r), o # r
               PROVE  FALSE
    OBVIOUS
  <2>1. o \in Prefixes(r) \ {<< >>, r}
    BY PrefixesAre
  <2> QED BY <2>1 DEF Registers
<1>4. IsPrefix(q, s) \/ IsPrefix(s, q)
  BY <1>2, PrefixTwice
<1> QED BY <1>2, <1>3, <1>4

LEMMA MatchFacts ==
    ASSUME NEW q \in Path, NEW u, NEW w, Match(q, u, w)
    PROVE  /\ u.at \in Path /\ IsPrefix(q, u.at) /\ w.at \in Path /\ u.at = q \o w.at
           /\ SubSeq(u.at, Len(q) + 1, Len(u.at)) = w.at
           /\ u.what[1] = w.what
<1> DEFINE r == w.at
           p == u.at
<1>1. r \in Path /\ p = q \o r /\ u.what[1] = w.what
  BY DEF Match
<1> HIDE DEF r, p
<1>2. p \in Path
  BY <1>1, BehindFacts
<1>3. IsPrefix(q, p)
  BY <1>1, IsPrefixOfConcat
<1>4. SubSeq(q \o r, Len(q) + 1, Len(q \o r)) = r
  BY <1>1, ConcatSuffix DEF Path
<1>5. SubSeq(p, Len(q) + 1, Len(p)) = r
  BY <1>1, <1>4
<1> QED BY <1>1, <1>2, <1>3, <1>5 DEF r, p

LEMMA MatchOne ==
    ASSUME IsTree(result), NEW q \in Registers(result), NEW s \in Registers(result),
           NEW w \in Asked(q), NEW v \in Asked(s), NEW u, Match(q, u, w), Match(s, u, v)
    PROVE  q = s /\ w = v
<1>1. q \in Path /\ s \in Path
  BY TopmostAre DEF Topmost
<1>2. /\ u.at \in Path /\ IsPrefix(q, u.at)
      /\ SubSeq(u.at, Len(q) + 1, Len(u.at)) = w.at /\ u.what[1] = w.what
  BY <1>1, MatchFacts
<1>3. /\ IsPrefix(s, u.at)
      /\ SubSeq(u.at, Len(s) + 1, Len(u.at)) = v.at /\ u.what[1] = v.what
  BY <1>1, MatchFacts
<1>4. q = s
  <2> DEFINE p == u.at
  <2>1. p \in Path /\ IsPrefix(q, p) /\ IsPrefix(s, p)
    BY <1>2, <1>3
  <2> HIDE DEF p
  <2> QED BY <2>1, OneTopmost
<1>5. w.at = v.at /\ w.what = v.what
  BY <1>2, <1>3, <1>4
<1>6. w = Call(w.at, w.what) /\ v = Call(v.at, v.what)
  BY AskedAre
<1> QED BY <1>4, <1>5, <1>6

(* Each element of the report is one thing a record asks for, and each     *)
(* thing asked for is one element.                                         *)
Answered ==
    /\ \A q \in Registers(result) : \A w \in Asked(q) : \E i \in DOMAIN report : Match(q, report[i], w)
    /\ \A i \in DOMAIN report : \E q \in Registers(result) : \E w \in Asked(q) : Match(q, report[i], w)
    /\ \A q \in Registers(result) : \A w \in Asked(q) : \A i, j \in DOMAIN report :
         Match(q, report[i], w) /\ Match(q, report[j], w) => i = j

LEMMA WarrantingIs ==
    ASSUME IsTree(result), NEW u, Warranting(u)
    PROVE  \E q \in Registers(result) : \E b \in Analyses(q) :
             FoundBy(b, q, u) /\ \E w \in Asked(q) : Match(q, u, w)
<1>1. PICK b, q, r : OnWay(b, q, r) /\ u \in Findings(ToVisit(b, q \o r))
  BY DEF Warranting
<1>2. q \in Registers(result) /\ b \in Analyses(q) /\ FoundBy(b, q, u)
  BY <1>1 DEF OnWay, FoundBy
<1>3. Agree(b, q)
  BY <1>2, AllAgree
<1>4. \E w \in CallsBy(Sub(q), b) : Match(q, u, w)
  BY <1>2, <1>3, Zenon DEF Agree
<1>5. Asked(q) = CallsBy(Sub(q), b)
  BY <1>2, AskedFacts
<1> QED BY <1>2, <1>4, <1>5

LEMMA WalkAnswers ==
    ASSUME IsTree(result), WalkOK, visits = {}, tags = {}
    PROVE  Answered
<1>1. InHand = Elements(report) /\ \A u : u \in Elements(report) <=> \E i \in DOMAIN report : u = report[i]
  BY DEF InHand, Elements
<1>2. ASSUME NEW q \in Registers(result), NEW w \in Asked(q)
      PROVE  \E i \in DOMAIN report : Match(q, report[i], w)
  <2>1. PICK b \in Analyses(q) : Asked(q) = CallsBy(Sub(q), b)
    BY AskedFacts
  <2>2. Agree(b, q)
    BY AllAgree
  <2>3. PICK u : FoundBy(b, q, u) /\ Match(q, u, w)
    BY <2>1, <2>2, Zenon DEF Agree
  <2>4. PICK r \in Way(Sub(q), b) : u \in Findings(ToVisit(b, q \o r))
    BY <2>3 DEF FoundBy
  <2>5. OnWay(b, q, r)
    BY <2>4 DEF OnWay
  <2>6. Comes(b, q, r)
    BY <2>5 DEF WalkOK
  <2>7. Told(b, q, r)
    BY <2>6 DEF Comes
  <2>8. u \in Elements(report)
    BY <1>1, <2>4, <2>7 DEF Told
  <2> QED BY <1>1, <2>3, <2>8
<1>3. ASSUME NEW i \in DOMAIN report
      PROVE  \E q \in Registers(result) : \E w \in Asked(q) : Match(q, report[i], w)
  <2>1. Warranting(report[i])
    BY <1>1 DEF WalkOK
  <2> QED BY <2>1, WarrantingIs
<1>4. ASSUME NEW q \in Registers(result), NEW w \in Asked(q), NEW i \in DOMAIN report, NEW j \in DOMAIN report,
             Match(q, report[i], w), Match(q, report[j], w)
      PROVE  i = j
  <2> DEFINE u == report[i]
             v == report[j]
  <2>1. Warranting(u) /\ Warranting(v)
    BY <1>1 DEF WalkOK
  <2>2. Match(q, u, w) /\ Match(q, v, w)
    BY <1>4
  <2> HIDE DEF u, v
  <2>3. \A z : Warranting(z) /\ Match(q, z, w) => \E b \in Analyses(q) : FoundBy(b, q, z)
    <3> SUFFICES ASSUME NEW z, Warranting(z), Match(q, z, w)
                 PROVE  \E b \in Analyses(q) : FoundBy(b, q, z)
      OBVIOUS
    <3>1. PICK s \in Registers(result) : \E b \in Analyses(s) :
             FoundBy(b, s, z) /\ \E x \in Asked(s) : Match(s, z, x)
      BY WarrantingIs
    <3>2. PICK b \in Analyses(s) : FoundBy(b, s, z) /\ \E x \in Asked(s) : Match(s, z, x)
      BY <3>1
    <3>3. PICK x \in Asked(s) : Match(s, z, x)
      BY <3>2
    <3>4. q = s
      BY <3>3, MatchOne
    <3> QED BY <3>2, <3>4
  <2>4. PICK b \in Analyses(q) : FoundBy(b, q, u)
    BY <2>1, <2>2, <2>3
  <2>5. FoundBy(b, q, v)
    <3>1. PICK c \in Analyses(q) : FoundBy(c, q, v)
      BY <2>1, <2>2, <2>3
    <3>2. b = c
      BY AskedFacts
    <3> QED BY <3>1, <3>2
  <2>6. u.at = v.at /\ u.what[1] = v.what[1]
    BY <2>2 DEF Match
  <2>7. Agree(b, q)
    BY AllAgree
  <2>8. u = v
    BY <2>4, <2>5, <2>6, <2>7, Zenon DEF Agree
  <2> QED BY <2>8 DEF WalkOK, u, v
<1> QED BY <1>2, <1>3, <1>4, Zenon DEF Answered

---------------------------------------------------------------------------
(* The calls of the records and the elements of the report are one to one. *)
LEMMA EquallyMany ==
    ASSUME NEW S, NEW T, IsFiniteSet(T), NEW g \in [S -> T],
           \A x, y \in S : g[x] = g[y] => x = y, \A z \in T : \E x \in S : g[x] = z
    PROVE  Cardinality(S) = Cardinality(T)
<1>1. DOMAIN g = S
  OBVIOUS
<1>2. g \in Injection(S, T)
  BY <1>1 DEF Injection, IsInjective
<1>3. g \in Surjection(S, T)
  BY DEF Surjection
<1> QED BY <1>2, <1>3, FS_Injection

CallOf(k, r) == Warranted(Subtree(decoded[k], r), TrimDigits(Last(r)))
AllCalls == UNION {UNION {{<<k, r, w>> : w \in CallOf(k, r)} : r \in Registers(decoded[k])} : k \in DOMAIN decoded}
Unnumbered(r) == Append(Front(r), TrimDigits(Last(r)))
CalledAs(c) == <<Unnumbered(c[2]), c[3].at, c[3].what>>
RecordOf(p) == CHOOSE r \in Registers(result) : IsPrefix(r, p)
ToldAs(i) ==
    LET p == report[i].at
        r == RecordOf(p)
    IN <<Unnumbered(r), SubSeq(p, Len(r) + 1, Len(p)), report[i].what[1]>>

LEMMA CallsMembers ==
    /\ \A k \in DOMAIN decoded : \A r \in Registers(decoded[k]) : \A w \in CallOf(k, r) : <<k, r, w>> \in AllCalls
    /\ \A c \in AllCalls : /\ c = <<c[1], c[2], c[3]>> /\ c[1] \in DOMAIN decoded
                           /\ c[2] \in Registers(decoded[c[1]]) /\ c[3] \in CallOf(c[1], c[2])
<1> DEFINE E(k) == UNION {{<<k, r, w>> : w \in CallOf(k, r)} : r \in Registers(decoded[k])}
<1>1. \A k, c : c \in E(k) <=> \E r \in Registers(decoded[k]) : \E w \in CallOf(k, r) : c = <<k, r, w>>
  <2> HIDE DEF CallOf
  <2> QED OBVIOUS
<1>2. \A c : c \in AllCalls <=> \E k \in DOMAIN decoded : c \in E(k)
  BY DEF AllCalls
<1> HIDE DEF E, CallOf
<1>3. \A c : c \in AllCalls <=>
        \E k \in DOMAIN decoded : \E r \in Registers(decoded[k]) : \E w \in CallOf(k, r) : c = <<k, r, w>>
  <2> TAKE c
  <2>1. ASSUME c \in AllCalls
        PROVE  \E k \in DOMAIN decoded : \E r \in Registers(decoded[k]) : \E w \in CallOf(k, r) : c = <<k, r, w>>
    <3>1. PICK k \in DOMAIN decoded : c \in E(k)
      BY <1>2, <2>1
    <3>2. \E r \in Registers(decoded[k]) : \E w \in CallOf(k, r) : c = <<k, r, w>>
      BY <1>1, <3>1
    <3> QED BY <3>2
  <2>2. ASSUME NEW k \in DOMAIN decoded, \E r \in Registers(decoded[k]) : \E w \in CallOf(k, r) : c = <<k, r, w>>
        PROVE  c \in AllCalls
    <3>1. c \in E(k)
      BY <1>1, <2>2
    <3> QED BY <1>2, <3>1
  <2> QED BY <2>1, <2>2
<1>4. ASSUME NEW c \in AllCalls
      PROVE  /\ c = <<c[1], c[2], c[3]>> /\ c[1] \in DOMAIN decoded
             /\ c[2] \in Registers(decoded[c[1]]) /\ c[3] \in CallOf(c[1], c[2])
  <2>1. PICK k \in DOMAIN decoded : \E r \in Registers(decoded[k]) : \E w \in CallOf(k, r) : c = <<k, r, w>>
    BY <1>3
  <2>2. PICK r \in Registers(decoded[k]) : \E w \in CallOf(k, r) : c = <<k, r, w>>
    BY <2>1
  <2>3. PICK w \in CallOf(k, r) : c = <<k, r, w>>
    BY <2>2
  <2>4. c[1] = k /\ c[2] = r /\ c[3] = w
    BY <2>3
  <2> QED BY <2>3, <2>4
<1> QED BY <1>3, <1>4

(* An element of the report tells of the record it is for.                 *)
LEMMA TellsOf ==
    ASSUME IsTree(result), NEW q \in Registers(result), NEW i \in DOMAIN report, NEW w, Match(q, report[i], w)
    PROVE  ToldAs(i) = <<Unnumbered(q), w.at, w.what>>
<1> DEFINE u == report[i]
           p == u.at
<1>1. q \in Path
  BY TopmostAre DEF Topmost
<1>2. /\ p \in Path /\ IsPrefix(q, p)
      /\ SubSeq(p, Len(q) + 1, Len(p)) = w.at /\ u.what[1] = w.what
  BY <1>1, MatchFacts
<1>3. ToldAs(i) = <<Unnumbered(RecordOf(p)), SubSeq(p, Len(RecordOf(p)) + 1, Len(p)), u.what[1]>>
  BY DEF ToldAs
<1> HIDE DEF p, u
<1>4. RecordOf(p) = q
  <2>1. RecordOf(p) \in Registers(result) /\ IsPrefix(RecordOf(p), p)
    BY <1>2, Zenon DEF RecordOf
  <2> QED BY <1>2, <2>1, OneTopmost
<1> QED BY <1>2, <1>3, <1>4

LEMMA TriagedWhenAnswered ==
    ASSUME IsTree(result), Answered, IsSequence(report), NEW A, Aligned(A)
    PROVE  /\ \A c \in AllCalls : Cardinality({d \in AllCalls : CalledAs(d) = CalledAs(c)})
                                    = Cardinality({i \in DOMAIN report : ToldAs(i) = CalledAs(c)})
           /\ Cardinality(AllCalls) = Len(report)
<1> DEFINE Q(c) == A[c[1]][c[2]]
           M(c, i) == Match(Q(c), report[i], c[3])
           g == [c \in AllCalls |-> CHOOSE i \in DOMAIN report : M(c, i)]
<1>1. DOMAIN report = 1 .. Len(report) /\ Len(report) \in Nat
  BY AppendFacts
<1>2. IsFiniteSet(DOMAIN report) /\ Cardinality(DOMAIN report) = Len(report)
  <2>1. 1 \in Int /\ Len(report) \in Int
    BY <1>1
  <2>2. IsFiniteSet(1 .. Len(report)) /\ Cardinality(1 .. Len(report)) = IF 1 > Len(report) THEN 0 ELSE Len(report) - 1 + 1
    BY <2>1, FS_Interval
  <2> QED BY <1>1, <2>2
<1>3. ASSUME NEW k \in DOMAIN decoded, NEW r \in Registers(decoded[k])
      PROVE  /\ A[k][r] \in Registers(result) /\ CallOf(k, r) = Asked(A[k][r])
             /\ Unnumbered(A[k][r]) = Unnumbered(r)
  <2>1. SameRecord(A, k, r)
    BY DEF Aligned
  <2> QED BY <2>1 DEF SameRecord, CallOf, Asked, Unnumbered
<1>4. ASSUME NEW c \in AllCalls
      PROVE  /\ c = <<c[1], c[2], c[3]>> /\ c[1] \in DOMAIN decoded /\ c[2] \in Registers(decoded[c[1]])
             /\ Q(c) \in Registers(result) /\ c[3] \in Asked(Q(c))
             /\ Unnumbered(Q(c)) = Unnumbered(c[2])
  BY <1>3, CallsMembers
<1>5. ASSUME NEW c \in AllCalls
      PROVE  g[c] \in DOMAIN report /\ M(c, g[c])
  <2>1. \E i \in DOMAIN report : M(c, i)
    BY <1>4 DEF Answered
  <2>2. g[c] = CHOOSE i \in DOMAIN report : M(c, i)
    OBVIOUS
  <2> HIDE DEF M, g
  <2> QED BY <2>1, <2>2, Zenon
<1>6. g \in [AllCalls -> DOMAIN report]
  <2>1. g = [c \in AllCalls |-> g[c]]
    OBVIOUS
  <2> HIDE DEF g, M
  <2> QED BY <1>5, <2>1
<1> HIDE DEF g
<1>7. ASSUME NEW c \in AllCalls, NEW d \in AllCalls, g[c] = g[d]
      PROVE  c = d
  <2>1. /\ Q(c) \in Registers(result) /\ c[3] \in Asked(Q(c)) /\ Match(Q(c), report[g[c]], c[3])
        /\ Q(d) \in Registers(result) /\ d[3] \in Asked(Q(d)) /\ Match(Q(d), report[g[c]], d[3])
    BY <1>4, <1>5, <1>7
  <2>2. Q(c) = Q(d) /\ c[3] = d[3]
    <3> HIDE DEF Q
    <3> QED BY <2>1, MatchOne
  <2>3. c[1] = d[1] /\ c[2] = d[2]
    BY <1>4, <2>2 DEF Aligned
  <2> QED BY <1>4, <2>2, <2>3
<1>8. ASSUME NEW i \in DOMAIN report
      PROVE  \E c \in AllCalls : g[c] = i
  <2>1. PICK q \in Registers(result) : \E w \in Asked(q) : Match(q, report[i], w)
    BY DEF Answered
  <2>2. PICK w \in Asked(q) : Match(q, report[i], w)
    BY <2>1
  <2>3. PICK k \in DOMAIN decoded : \E r \in Registers(decoded[k]) : A[k][r] = q
    BY DEF Aligned
  <2>4. PICK r \in Registers(decoded[k]) : A[k][r] = q
    BY <2>3
  <2> DEFINE c == <<k, r, w>>
  <2>5. c \in AllCalls
    BY <1>3, <2>2, <2>4, CallsMembers
  <2>6. c[1] = k /\ c[2] = r /\ c[3] = w
    OBVIOUS
  <2> HIDE DEF c
  <2>7. g[c] \in DOMAIN report /\ Match(q, report[g[c]], w)
    BY <1>5, <2>4, <2>5, <2>6
  <2>8. g[c] = i
    BY <2>2, <2>7 DEF Answered
  <2> QED BY <2>5, <2>8
<1>9. ASSUME NEW c \in AllCalls
      PROVE  ToldAs(g[c]) = CalledAs(c)
  <2> DEFINE q == Q(c)
             w == c[3]
  <2>1. q \in Registers(result) /\ g[c] \in DOMAIN report /\ Match(q, report[g[c]], w) /\ Unnumbered(q) = Unnumbered(c[2])
    BY <1>4, <1>5
  <2> HIDE DEF q, w
  <2>2. ToldAs(g[c]) = <<Unnumbered(q), w.at, w.what>>
    BY <2>1, TellsOf
  <2> QED BY <2>1, <2>2 DEF CalledAs, w
<1>10. Cardinality(AllCalls) = Cardinality(DOMAIN report)
  BY <1>2, <1>6, <1>7, <1>8, EquallyMany
<1>11. ASSUME NEW x
       PROVE  Cardinality({d \in AllCalls : CalledAs(d) = x}) = Cardinality({i \in DOMAIN report : ToldAs(i) = x})
  <2> DEFINE S == {d \in AllCalls : CalledAs(d) = x}
             T == {i \in DOMAIN report : ToldAs(i) = x}
             h == [d \in S |-> g[d]]
  <2>1. IsFiniteSet(T)
    <3>1. T \in SUBSET DOMAIN report
      OBVIOUS
    <3> HIDE DEF T
    <3> QED BY <1>2, <3>1, FS_Subset
  <2>2. \A d \in S : d \in AllCalls /\ g[d] \in T
    BY <1>5, <1>9
  <2>3. \A i \in T : \E d \in S : g[d] = i
    <3> TAKE i \in T
    <3>1. PICK d \in AllCalls : g[d] = i
      BY <1>8
    <3>2. d \in S
      BY <1>9, <3>1
    <3> QED BY <3>1, <3>2
  <2> HIDE DEF S, T
  <2>4. h \in [S -> T]
    BY <2>2
  <2>5. \A d \in S : h[d] = g[d]
    OBVIOUS
  <2> HIDE DEF h
  <2>6. \A c, d \in S : h[c] = h[d] => c = d
    BY <1>7, <2>2, <2>5
  <2>7. \A i \in T : \E d \in S : h[d] = i
    BY <2>3, <2>5
  <2>8. Cardinality(S) = Cardinality(T)
    BY <2>1, <2>4, <2>6, <2>7, EquallyMany
  <2> QED BY <2>8 DEF S, T
<1> QED BY <1>2, <1>10, <1>11

LEMMA TriagedWhenReported ==
    ASSUME TypeInv, Sited, Placed, TInv, NamesApart, pc = "done" => WalkOK
    PROVE  TriagesEach
<1> SUFFICES ASSUME Reported PROVE TriagesEach
  BY DEF TriagesEach
<1>1. pc = "done" /\ visits = {} /\ tags = {} /\ WalkOK /\ IsTree(result) /\ IsSequence(report)
  BY DEF Reported, TypeInv, TreesOK, TInv, ReportOK
<1>2. PICK A : Aligned(A)
  BY <1>1, RecordsAlign
<1>3. Answered
  BY <1>1, WalkAnswers
<1>4. /\ \A c \in AllCalls : Cardinality({d \in AllCalls : CalledAs(d) = CalledAs(c)})
                               = Cardinality({i \in DOMAIN report : ToldAs(i) = CalledAs(c)})
      /\ Cardinality(AllCalls) = Len(report)
  BY <1>1, <1>2, <1>3, TriagedWhenAnswered
<1> QED BY <1>4, Zenon DEF TriagesEach, AllCalls, CallOf, CalledAs, ToldAs, Unnumbered, RecordOf

(* As long as no name clashes, the report has what the registers of each   *)
(* record call for, each of it once and nothing else: the walk comes to    *)
(* every record of the merged tree and to no other, and finds in it all    *)
(* that its analysis is for (analysis.rs, core.rs, mca.rs, reset.rs,       *)
(* reason.rs and agent.rs of lib/src/analysis, app/src/analysis.rs).       *)
THEOREM RecordsAreTriaged == TriageSpec => [](NamesApart => TriagesEach)
<1>1. TypeInv /\ Sited /\ Placed /\ TInv /\ (pc = "done" => WalkOK) => (NamesApart => TriagesEach)
  BY TriagedWhenReported
<1> QED BY <1>1, WalkIsWhole, PTL

=============================================================================
