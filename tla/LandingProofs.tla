---------------------------- MODULE LandingProofs ----------------------------
(***************************************************************************)
(* Proofs about a landing (Landing), for every estate: any tree of modules *)
(* and any dependencies among them.                                        *)
(***************************************************************************)
EXTENDS Landing, WellFoundedInduction, FiniteSetTheorems, TLAPS

------------------------------------------------------------------------------
(* Induction.  The order of the natural numbers is well founded; from that *)
(* come induction over a set and the existence of the functions Landing    *)
(* defines by recursion.                                                   *)

(* A set that has 0 and with each number the next has every number.        *)
LEMMA EveryNat ==
    ASSUME NEW T, 0 \in T, \A n \in Nat : n \in T => n + 1 \in T
    PROVE  Nat \subseteq T
<1> DEFINE U == Nat \ T
<1> DEFINE R == OpToRel(<, Nat)
<1> SUFFICES ASSUME U # {} PROVE FALSE
  OBVIOUS
<1>1. IsWellFoundedOn(R, Nat)
  BY NatLessThanWellFounded
<1>2. \E x \in U : \A y \in U : ~(<<y, x>> \in R)
  <2> HIDE DEF R
  <2> QED BY <1>1, WFMin
<1>3. PICK x \in U : \A y \in U : ~(<<y, x>> \in R)
  BY <1>2
<1>4. x # 0 /\ x - 1 \in Nat /\ x - 1 < x
  OBVIOUS
<1>5. x - 1 \in U
  BY <1>4
<1>6. <<x - 1, x>> \in R
  BY <1>4 DEF OpToRel
<1> QED BY <1>3, <1>5, <1>6

(* f is the stages from x on, F[n] making the n-th of the one before it.   *)
InStages(f, X, x, F) ==
    /\ f \in [Nat -> X] /\ f[0] = x
    /\ \A n \in Nat : n # 0 => f[n] = F[n][f[n - 1]]

(* There are such stages, whatever makes them.                             *)
LEMMA Stages ==
    ASSUME NEW X, NEW x \in X, NEW F \in [Nat -> [X -> X]]
    PROVE  \E f : InStages(f, X, x, F)
<1> DEFINE Up(n, f) == /\ f \in [0..n -> X] /\ f[0] = x
                       /\ \A k \in 1..n : f[k] = F[k][f[k - 1]]
<1> DEFINE T == {n \in Nat : \E f : Up(n, f)}
<1> DEFINE U == {n \in Nat : \A f, g : Up(n, f) /\ Up(n, g) => f[n] = g[n]}
<1>1. 0 \in T
  <2>1. Up(0, [k \in 0..0 |-> x])
    OBVIOUS
  <2> QED BY <2>1
<1>2. ASSUME NEW n \in T PROVE n + 1 \in T
  <2>1. PICK f : Up(n, f)
    BY <1>2
  <2> DEFINE g == [k \in 0..(n + 1) |-> IF k = n + 1 THEN F[n + 1][f[n]] ELSE f[k]]
  <2>2. n \in Nat /\ f[n] \in X
    BY <2>1
  <2>3. F[n + 1][f[n]] \in X
    BY <2>2
  <2>4. g \in [0..(n + 1) -> X]
    BY <2>1, <2>2, <2>3
  <2>5. g[0] = x
    BY <2>1, <2>2
  <2>6. ASSUME NEW k \in 1..(n + 1) PROVE g[k] = F[k][g[k - 1]]
    <3>1. CASE k = n + 1
      <4>1. k - 1 \in 0..(n+1) /\ k - 1 # n + 1 /\ k - 1 = n
        BY <3>1, <2>2
      <4> QED BY <3>1, <4>1, <2>2
    <3>2. CASE k # n + 1
      <4>1. k \in 1..n /\ k - 1 \in 0..n /\ k \in 0..(n + 1)
            /\ k - 1 \in 0..(n + 1) /\ k - 1 # n + 1
        BY <3>2, <2>2
      <4>2. g[k] = f[k] /\ g[k - 1] = f[k - 1]
        BY <4>1, <3>2
      <4> QED BY <4>1, <4>2, <2>1
    <3> QED BY <3>1, <3>2
  <2>7. Up(n + 1, g)
    <3> HIDE DEF g
    <3> QED BY <2>4, <2>5, <2>6
  <2> QED
    <3> HIDE DEF Up
    <3> QED BY <2>2, <2>7
<1>3. Nat \subseteq T
  <2> HIDE DEF T
  <2> QED BY <1>1, <1>2, EveryNat
<1>4. 0 \in U
  OBVIOUS
<1>5. ASSUME NEW n \in U PROVE n + 1 \in U
  <2> SUFFICES ASSUME NEW f, NEW g, Up(n + 1, f), Up(n + 1, g) PROVE f[n + 1] = g[n + 1]
    OBVIOUS
  <2> DEFINE lower(h) == [k \in 0..n |-> h[k]]
  <2>1. n \in Nat /\ n + 1 \in 1..(n + 1) /\ n \in 0..n
    OBVIOUS
  <2>2. ASSUME NEW h, Up(n + 1, h) PROVE Up(n, lower(h))
    <3>1. \A k \in 0..n : k \in 0..(n + 1)
      BY <2>1
    <3>2. \A k \in 1..n : k \in 1..(n + 1) /\ k - 1 \in 0..n /\ k \in 0..n
      BY <2>1
    <3>3. lower(h) \in [0..n -> X]
      BY <2>2, <3>1
    <3>4. 0 \in 0..n
      BY <2>1
    <3> QED BY <2>2, <3>2, <3>3, <3>4
  <2>3. lower(f)[n] = lower(g)[n]
    <3>1. Up(n, lower(f)) /\ Up(n, lower(g))
      BY <2>2
    <3> HIDE DEF lower, Up
    <3> QED BY <3>1
  <2>4. f[n] = g[n]
    BY <2>3, <2>1
  <2>5. f[n + 1] = F[n + 1][f[n + 1 - 1]] /\ g[n + 1] = F[n + 1][g[n + 1 - 1]]
    BY <2>1
  <2>6. n + 1 - 1 = n
    BY <2>1
  <2> QED BY <2>4, <2>5, <2>6
<1>6. Nat \subseteq U
  <2> HIDE DEF U
  <2> QED BY <1>4, <1>5, EveryNat
<1> DEFINE st(n) == CHOOSE f : Up(n, f)
<1>7. \A n \in Nat : Up(n, st(n))
  <2> HIDE DEF Up
  <2> QED BY <1>3
<1> DEFINE h == [n \in Nat |-> st(n)[n]]
<1>8. h \in [Nat -> X]
  <2> HIDE DEF st
  <2>1. \A n \in Nat : n \in 0..n /\ st(n)[n] \in X
    BY <1>7
  <2> QED BY <2>1
<1>9. h[0] = x
  <2> HIDE DEF st
  <2> QED BY <1>7
<1>10. ASSUME NEW n \in Nat, n # 0 PROVE h[n] = F[n][h[n - 1]]
  <2> HIDE DEF st
  <2>1. n - 1 \in Nat /\ n \in 1..n /\ n - 1 \in 0..(n - 1)
    BY <1>10
  <2> DEFINE f == st(n)
  <2> DEFINE low == [k \in 0..(n - 1) |-> f[k]]
  <2>2. Up(n, f)
    BY <1>7
  <2>3. Up(n - 1, low)
    <3> HIDE DEF f
    <3>1. \A k \in 0..(n - 1) : k \in 0..n
      BY <2>1
    <3>2. \A k \in 1..(n - 1) : k \in 1..n /\ k - 1 \in 0..(n - 1) /\ k \in 0..(n - 1)
      BY <2>1
    <3>3. low \in [0..(n - 1) -> X]
      BY <2>2, <3>1
    <3>4. 0 \in 0..(n - 1)
      BY <2>1
    <3> QED BY <2>2, <3>2, <3>3, <3>4
  <2>4. low[n - 1] = st(n - 1)[n - 1]
    <3> HIDE DEF low
    <3> QED BY <2>1, <2>3, <1>7, <1>6
  <2>5. f[n - 1] = h[n - 1]
    BY <2>1, <2>4
  <2>6. f[n] = F[n][f[n - 1]]
    BY <2>1, <2>2
  <2> QED BY <2>5, <2>6
<1> QED
  <2> HIDE DEF h
  <2> QED BY <1>8, <1>9, <1>10 DEF InStages

------------------------------------------------------------------------------
(* What the operators of Landing return.                                   *)

(* The stages of Only.                                                     *)
LEMMA OnlyStages ==
    ASSUME NEW S, NEW s \in Seq(S), NEW T
    PROVE  \E f : /\ f[0] = <<>>
                  /\ \A i \in 1..Len(s) :
                        f[i] = IF s[i] \in T THEN Append(f[i - 1], s[i])
                               ELSE f[i - 1]
                  /\ Only(s, T) = f[Len(s)]
<1> DEFINE f[i \in Nat] ==
            IF i = 0 THEN <<>>
            ELSE IF s[i] \in T THEN Append(f[i - 1], s[i]) ELSE f[i - 1]
<1>1. Only(s, T) = f[Len(s)]
  BY DEF Only
<1> DEFINE X == Seq(S \cup {s[i] : i \in Nat})
<1> DEFINE F == [n \in Nat |-> [p \in X |->
                    IF s[n] \in T THEN Append(p, s[n]) ELSE p]]
<1>2. <<>> \in X
  OBVIOUS
<1>3. F \in [Nat -> [X -> X]]
  OBVIOUS
<1>4. PICK g : InStages(g, X, <<>>, F)
  <2> HIDE DEF F, X
  <2> QED BY <1>2, <1>3, Stages
<1>5. ASSUME NEW n \in Nat, n # 0
      PROVE  g[n] = IF s[n] \in T THEN Append(g[n - 1], s[n]) ELSE g[n - 1]
  <2> HIDE DEF X
  <2>1. n - 1 \in Nat
    BY <1>5
  <2>2. g[n - 1] \in X /\ g[n] = F[n][g[n - 1]]
    <3> HIDE DEF F
    <3> QED BY <1>4, <1>5, <2>1 DEF InStages
  <2> QED BY <2>2
<1>6. g = [i \in Nat |-> IF i = 0 THEN <<>>
            ELSE IF s[i] \in T THEN Append(g[i - 1], s[i]) ELSE g[i - 1]]
  <2> HIDE DEF F, X
  <2> QED BY <1>4, <1>5 DEF InStages
<1>7. f = [i \in Nat |-> IF i = 0 THEN <<>>
            ELSE IF s[i] \in T THEN Append(f[i - 1], s[i]) ELSE f[i - 1]]
  BY <1>6
<1> HIDE DEF f
<1>8. f[0] = <<>>
  BY <1>7
<1>9. \A i \in 1..Len(s) : f[i] = IF s[i] \in T THEN Append(f[i - 1], s[i])
                                  ELSE f[i - 1]
  <2> SUFFICES ASSUME NEW i \in 1..Len(s)
               PROVE  f[i] = IF s[i] \in T THEN Append(f[i - 1], s[i]) ELSE f[i - 1]
    OBVIOUS
  <2>1. i \in Nat /\ i # 0
    OBVIOUS
  <2> QED BY <1>7, <2>1
<1> QED BY <1>1, <1>8, <1>9

(* Only keeps the members of T and their order.                            *)
LEMMA OnlyKeeps ==
    ASSUME NEW S, NEW s \in Seq(S), NEW T
    PROVE  /\ Only(s, T) \in Seq(S)
           /\ Elements(Only(s, T)) = Elements(s) \cap T
           /\ \A i, j \in 1..Len(Only(s, T)) : i < j =>
                 \E k, l \in 1..Len(s) : /\ k < l /\ s[k] = Only(s, T)[i]
                                         /\ s[l] = Only(s, T)[j]
<1>1. PICK f : /\ f[0] = <<>>
               /\ \A i \in 1..Len(s) :
                     f[i] = IF s[i] \in T THEN Append(f[i - 1], s[i]) ELSE f[i - 1]
               /\ Only(s, T) = f[Len(s)]
  BY OnlyStages
<1> DEFINE Kept(n) ==
        /\ f[n] \in Seq(S)
        /\ \A x : (\E i \in 1..Len(f[n]) : f[n][i] = x)
                     <=> (x \in T /\ \E k \in 1..n : s[k] = x)
        /\ \A i \in 1..Len(f[n]) : \E k \in 1..n : s[k] = f[n][i]
        /\ \A i, j \in 1..Len(f[n]) : i < j =>
              \E k, l \in 1..n : k < l /\ s[k] = f[n][i] /\ s[l] = f[n][j]
<1> DEFINE K == {n \in Nat : n <= Len(s) => Kept(n)}
<1>2. Len(s) \in Nat /\ \A n \in 1..Len(s) : s[n] \in S
  OBVIOUS
<1>3. 0 \in K
  <2>1. f[0] \in Seq(S) /\ Len(f[0]) = 0
    BY <1>1
  <2> QED BY <2>1
<1>4. ASSUME NEW n \in K PROVE n + 1 \in K
  <2> SUFFICES ASSUME n + 1 <= Len(s) PROVE Kept(n + 1)
    OBVIOUS
  <2>1. n \in Nat /\ n + 1 \in 1..Len(s) /\ n + 1 - 1 = n /\ Kept(n)
    BY <1>2
  <2>2. f[n + 1] = IF s[n + 1] \in T THEN Append(f[n], s[n + 1]) ELSE f[n]
    BY <1>1, <2>1
  <2>3. CASE s[n + 1] \notin T
    BY <2>1, <2>2, <2>3
  <2>4. CASE s[n + 1] \in T
    <3> DEFINE p == f[n]
               y == s[n + 1]
               q == Append(p, y)
    <3>1. p \in Seq(S) /\ y \in S /\ f[n + 1] = q
      BY <2>1, <2>2, <2>4, <1>2
    <3>2. /\ q \in Seq(S) /\ Len(q) = Len(p) + 1 /\ q[Len(p) + 1] = y
          /\ \A i \in 1..Len(p) : q[i] = p[i]
      <4> HIDE DEF p, y
      <4> QED BY <3>1
    <3>3. \A i \in 1..Len(q) : i \in 1..Len(p) \/ i = Len(p) + 1
      <4> HIDE DEF p, y, q
      <4> QED BY <3>1, <3>2
    <3>4. \A k \in 1..(n + 1) : k \in 1..n \/ k = n + 1
      BY <2>1
    <3>5. \A k \in 1..n : k \in 1..(n + 1) /\ k < n + 1
      BY <2>1
    <3>6. \A i \in 1..Len(p) : i \in 1..Len(q) /\ i # Len(p) + 1
      <4> HIDE DEF p, y, q
      <4> QED BY <3>1, <3>2
    <3>61. Len(p) + 1 \in 1..Len(q)
      <4> HIDE DEF p, y, q
      <4> QED BY <3>1, <3>2
    <3>7. \A x : (\E i \in 1..Len(q) : q[i] = x)
                     <=> (x \in T /\ \E k \in 1..(n + 1) : s[k] = x)
      <4> SUFFICES ASSUME NEW x
                   PROVE  (\E i \in 1..Len(q) : q[i] = x)
                             <=> (x \in T /\ \E k \in 1..(n + 1) : s[k] = x)
        OBVIOUS
      <4>1. (\E i \in 1..Len(q) : q[i] = x) <=> (x = y \/ \E i \in 1..Len(p) : p[i] = x)
        <5> HIDE DEF p, y, q
        <5> QED BY <3>2, <3>3, <3>6, <3>61
      <4>2. (\E k \in 1..(n + 1) : s[k] = x) <=> (x = y \/ \E k \in 1..n : s[k] = x)
        BY <3>4, <3>5, <2>1
      <4> QED BY <4>1, <4>2, <2>1, <2>4
    <3>8. \A i \in 1..Len(q) : \E k \in 1..(n + 1) : s[k] = q[i]
      BY <3>2, <3>3, <3>5, <2>1
    <3>9. ASSUME NEW i \in 1..Len(q), NEW j \in 1..Len(q), i < j
          PROVE  \E k, l \in 1..(n + 1) : k < l /\ s[k] = q[i] /\ s[l] = q[j]
      <4>1. i \in 1..Len(p)
        <5> HIDE DEF p, y, q
        <5> QED BY <3>1, <3>3, <3>9
      <4>2. CASE j \in 1..Len(p)
        <5>1. PICK k \in 1..n, l \in 1..n : k < l /\ s[k] = p[i] /\ s[l] = p[j]
          BY <4>1, <4>2, <2>1, <3>9
        <5> QED BY <5>1, <4>1, <4>2, <3>2, <3>5
      <4>3. CASE j = Len(p) + 1
        <5>1. PICK k \in 1..n : s[k] = p[i]
          BY <4>1, <2>1
        <5>2. k < n + 1 /\ k \in 1..(n + 1) /\ n + 1 \in 1..(n + 1)
          BY <2>1
        <5>3. s[k] = q[i] /\ s[n + 1] = q[j]
          BY <5>1, <4>1, <4>3, <3>2
        <5> QED BY <5>2, <5>3
      <4> QED BY <4>2, <4>3, <3>3
    <3> HIDE DEF q
    <3> QED BY <3>1, <3>2, <3>7, <3>8, <3>9
  <2> QED BY <2>3, <2>4
<1>5. Kept(Len(s))
  <2>1. Nat \subseteq K
    <3> HIDE DEF K
    <3> QED BY <1>3, <1>4, EveryNat
  <2>2. Len(s) \in K
    BY <2>1, <1>2
  <2> HIDE DEF Kept
  <2> QED BY <2>2
<1> DEFINE o == Only(s, T)
<1>6. /\ o \in Seq(S)
      /\ \A x : (\E i \in 1..Len(o) : o[i] = x)
                     <=> (x \in T /\ \E k \in 1..Len(s) : s[k] = x)
      /\ \A i, j \in 1..Len(o) : i < j =>
              \E k, l \in 1..Len(s) : k < l /\ s[k] = o[i] /\ s[l] = o[j]
  BY <1>1, <1>5
<1>7. DOMAIN o = 1..Len(o) /\ DOMAIN s = 1..Len(s)
  <2> HIDE DEF o
  <2> QED BY <1>6
<1>8. Elements(o) = Elements(s) \cap T
  <2> HIDE DEF o
  <2>1. \A x : x \in Elements(o) <=> \E i \in 1..Len(o) : o[i] = x
    BY <1>7 DEF Elements
  <2>2. \A x : x \in Elements(s) <=> \E k \in 1..Len(s) : s[k] = x
    BY <1>7 DEF Elements
  <2> QED BY <2>1, <2>2, <1>6
<1> QED BY <1>6, <1>8

(* What lies under a repository: itself, what its members mount, and, but  *)
(* for itself, only what a member mounts.                                  *)
LEMMA UnderHolds ==
    ASSUME NEW r \in Repo
    PROVE  /\ Under(r) \subseteq Repo /\ r \in Under(r)
           /\ \A s \in Under(r) : Child[s] \subseteq Under(r)
           /\ \A s \in Under(r) : s # r => s \in Module \ New /\ Parent[s] \in Under(r)
<1>1. Under(r) \subseteq Repo /\ r \in Under(r)
  BY DEF Under
<1>2. \A x \in Repo : Child[x] \subseteq Repo
  BY DEF Child, Repo
<1>3. ASSUME NEW s \in Under(r), NEW c \in Child[s] PROVE c \in Under(r)
  <2>1. c \in Repo
    BY <1>1, <1>2, <1>3
  <2>2. ASSUME NEW U \in SUBSET Repo, r \in U, \A x \in U : Child[x] \subseteq U
        PROVE  c \in U
    <3>1. s \in U
      BY <2>2, <1>3 DEF Under
    <3> QED BY <3>1, <2>2, <1>3
  <2> QED BY <2>1, <2>2 DEF Under
<1>4. ASSUME NEW s \in Under(r), s # r
      PROVE  s \in Module \ New /\ Parent[s] \in Under(r)
  <2> SUFFICES ASSUME ~(s \in Module \ New /\ Parent[s] \in Under(r)) PROVE FALSE
    OBVIOUS
  <2> DEFINE U == Under(r) \ {s}
  <2>1. U \in SUBSET Repo /\ r \in U
    BY <1>1, <1>4
  <2>2. ASSUME NEW x \in U, NEW c \in Child[x] PROVE c \in U
    <3>1. x \in Repo /\ x \in Under(r)
      BY <2>1
    <3>2. c \in Module \ New /\ Parent[c] = x
      BY <3>1 DEF Child
    <3>3. c \in Under(r)
      BY <3>1, <1>3
    <3> QED BY <3>1, <3>2, <3>3
  <2>3. s \in U
    <3> HIDE DEF U
    <3> QED BY <2>1, <2>2, <1>4 DEF Under
  <2> QED BY <2>3
<1> QED BY <1>1, <1>3, <1>4

(* Root lies under no module.                                              *)
LEMMA RootAbove ==
    ASSUME NEW r \in Repo, r # Root
    PROVE  Root \notin Under(r)
BY UnderHolds, LandingAssumption

(* What lies under a module is declared no earlier than it.                *)
LEMMA UnderLater ==
    ASSUME NEW i \in DOMAIN Declared, Declared[i] \in Repo
    PROVE  \A s \in Under(Declared[i]) :
              \E j \in DOMAIN Declared : i <= j /\ s = Declared[j]
<1> DEFINE U == {s \in Repo : \E j \in DOMAIN Declared : i <= j /\ s = Declared[j]}
<1>1. DOMAIN Declared \subseteq Nat /\ Declared \in Seq(Module)
  BY LandingAssumption
<1>2. U \in SUBSET Repo /\ Declared[i] \in U
  BY <1>1
<1>3. ASSUME NEW x \in U, NEW c \in Child[x] PROVE c \in U
  <2>1. x \in Repo
    OBVIOUS
  <2>2. c \in Module \ New /\ Parent[c] = x /\ c \in Repo
    BY <2>1 DEF Child, Repo
  <2>3. PICK k \in DOMAIN Declared : c = Declared[k]
    BY <2>2 DEF Module
  <2>4. PICK j \in DOMAIN Declared : i <= j /\ x = Declared[j]
    OBVIOUS
  <2>5. x # Root
    BY <2>4, LandingAssumption DEF Module
  <2>6. PICK l \in 1..(k - 1) : x = Declared[l]
    BY <2>2, <2>3, <2>5, LandingAssumption
  <2>7. l \in DOMAIN Declared /\ l < k
    <3>1. DOMAIN Declared = 1..Len(Declared) /\ Len(Declared) \in Nat
      BY <1>1
    <3> QED BY <3>1, <2>3, <2>6
  <2>8. l = j
    BY <2>4, <2>6, <2>7, LandingAssumption
  <2>9. i <= k
    BY <2>4, <2>7, <2>8, <1>1
  <2> QED BY <2>2, <2>3, <2>9
<1>4. Under(Declared[i]) \subseteq U
  <2> HIDE DEF U
  <2> QED BY <1>2, <1>3 DEF Under
<1> QED BY <1>4

(* There are finitely many repositories.                                   *)
LEMMA RepoFinite == IsFiniteSet(Repo) /\ Root \in Repo
<1>1. IsFiniteSet(Module \ New)
  BY FS_Difference, LandingAssumption
<1>2. IsFiniteSet({Root} \cup (Module \ New))
  BY <1>1, FS_AddElement
<1> QED BY <1>2 DEF Repo

(* A repository is deeper than the one that mounts it.                     *)
LEMMA Deeper ==
    ASSUME NEW c \in Module \ New, Parent[c] # Root
    PROVE  /\ Parent[c] \in Mounting
           /\ Depth(Parent[c]) < Depth(c)
<1> DEFINE p == Parent[c]
           P == {r \in Repo : p \in Under(r)}
           C == {r \in Repo : c \in Under(r)}
<1>1. p \in Repo /\ c \in Repo /\ p \in Module \ New
  BY LandingAssumption DEF Repo
<1>2. c \in Child[p]
  BY <1>1 DEF Child
<1>3. P \subseteq C
  <2> HIDE DEF p
  <2> QED BY <1>2, UnderHolds
<1>4. c \in C
  BY <1>1, UnderHolds
<1>5. c \notin P
  <2> SUFFICES ASSUME p \in Under(c) PROVE FALSE
    OBVIOUS
  <2>1. PICK k \in DOMAIN Declared : c = Declared[k]
    BY DEF Module
  <2>2. PICK l \in 1..(k - 1) : p = Declared[l]
    BY <2>1, LandingAssumption
  <2>3. DOMAIN Declared = 1..Len(Declared) /\ Len(Declared) \in Nat
    BY LandingAssumption
  <2>4. l \in DOMAIN Declared /\ l < k
    BY <2>1, <2>2, <2>3
  <2>5. PICK j \in DOMAIN Declared : k <= j /\ p = Declared[j]
    <3> HIDE DEF p
    <3> QED BY <2>1, <1>1, UnderLater
  <2>6. j = l
    BY <2>2, <2>4, <2>5, LandingAssumption
  <2> QED BY <2>3, <2>4, <2>5, <2>6
<1>6. IsFiniteSet(C)
  BY RepoFinite, FS_Subset
<1>7. Cardinality(P) < Cardinality(C)
  <2> HIDE DEF P, C
  <2>1. P # C
    BY <1>4, <1>5
  <2>2. IsFiniteSet(P) /\ Cardinality(P) <= Cardinality(C)
        /\ (Cardinality(C) = Cardinality(P) => C = P)
    BY <1>3, <1>6, FS_Subset
  <2>3. Cardinality(P) \in Nat /\ Cardinality(C) \in Nat
    BY <1>6, <2>2, FS_CardinalityType
  <2> QED BY <2>1, <2>2, <2>3
<1>8. p \in Mounting
  BY <1>1 DEF Mounting
<1> QED BY <1>7, <1>8 DEF Depth

(* How deep a repository can be.                                           *)
LEMMA DepthRange ==
    ASSUME NEW m \in Repo
    PROVE  Depth(m) \in 1..Cardinality(Repo)
<1> DEFINE D == {r \in Repo : m \in Under(r)}
<1>1. D \subseteq Repo /\ m \in D
  BY UnderHolds
<1> HIDE DEF D
<1>2. IsFiniteSet(D) /\ Cardinality(D) <= Cardinality(Repo)
  BY <1>1, RepoFinite, FS_Subset
<1>3. Cardinality(D) \in Nat /\ Cardinality(Repo) \in Nat
  BY <1>2, RepoFinite, FS_CardinalityType
<1>4. Cardinality(D) # 0
  BY <1>1, <1>2, FS_EmptySet
<1> QED BY <1>2, <1>3, <1>4 DEF Depth, D

(* The consumers of S are closed: nothing outside uses S or one of them.   *)
LEMMA ConsumersClosed ==
    ASSUME NEW S \in SUBSET Module
    PROVE  /\ Consumers(S) \subseteq Module \ S
           /\ \A n \in Module : Uses(n) \cap (S \cup Consumers(S)) # {}
                                   => n \in S \cup Consumers(S)
<1>1. Consumers(S) \subseteq Module \ S
  BY DEF Consumers
<1>2. ASSUME NEW n \in Module, NEW d \in Uses(n), d \in S \cup Consumers(S), n \notin S
      PROVE  n \in Consumers(S)
  <2> SUFFICES ASSUME NEW U \in SUBSET Module, S \subseteq U,
                      \A x \in Module : Uses(x) \cap U # {} => x \in U
               PROVE  n \in U
    BY <1>2 DEF Consumers
  <2>1. d \in U
    BY <1>2 DEF Consumers
  <2> QED BY <2>1, <1>2
<1> QED BY <1>1, <1>2

(* The stages of Users.                                                    *)
LEMMA UsersStages ==
    ASSUME NEW m \in Module
    PROVE  \E f : /\ f[0] = {m}
                  /\ \A n \in Nat : n # 0 =>
                        f[n] = f[n - 1] \cup
                                 {x \in Module : Uses(x) \cap f[n - 1] # {}}
                  /\ Users(m) = f[Cardinality(Module)]
<1> DEFINE f[n \in Nat] ==
            IF n = 0 THEN {m}
            ELSE LET u == f[n - 1]
                 IN  u \cup {x \in Module : Uses(x) \cap u # {}}
<1>1. Users(m) = f[Cardinality(Module)]
  BY DEF Users
<1> DEFINE X == SUBSET Module
<1> DEFINE F == [n \in Nat |-> [u \in X |->
                    u \cup {x \in Module : Uses(x) \cap u # {}}]]
<1>2. {m} \in X
  OBVIOUS
<1>3. F \in [Nat -> [X -> X]]
  OBVIOUS
<1>4. PICK g : InStages(g, X, {m}, F)
  <2> HIDE DEF F, X
  <2> QED BY <1>2, <1>3, Stages
<1>5. ASSUME NEW n \in Nat, n # 0
      PROVE  g[n] = LET u == g[n - 1]
                    IN  u \cup {x \in Module : Uses(x) \cap u # {}}
  <2> HIDE DEF X
  <2>1. n - 1 \in Nat
    BY <1>5
  <2>2. g[n - 1] \in X /\ g[n] = F[n][g[n - 1]]
    <3> HIDE DEF F
    <3> QED BY <1>4, <1>5, <2>1 DEF InStages
  <2> QED BY <2>2
<1> DEFINE Body(h) == [n \in Nat |->
                         IF n = 0 THEN {m}
                         ELSE LET u == h[n - 1]
                              IN  u \cup {x \in Module : Uses(x) \cap u # {}}]
<1>6. g = Body(g)
  <2> HIDE DEF F, X
  <2> QED BY <1>4, <1>5 DEF InStages
<1>7. f = Body(f)
  <2>1. f = CHOOSE h : h = Body(h)
    OBVIOUS
  <2> HIDE DEF f, Body
  <2> QED BY <1>6, <2>1
<1> HIDE DEF f
<1>8. f[0] = {m}
  BY <1>7
<1>9. \A n \in Nat : n # 0 =>
          f[n] = f[n - 1] \cup {x \in Module : Uses(x) \cap f[n - 1] # {}}
  BY <1>7
<1> QED BY <1>1, <1>8, <1>9

(* All that uses m is in every set that has m and is closed under use.     *)
LEMMA UsersWithin ==
    ASSUME NEW m \in Module, NEW C \in SUBSET Module, m \in C,
           \A n \in Module : Uses(n) \cap C # {} => n \in C
    PROVE  Users(m) \subseteq C
<1>1. PICK f : /\ f[0] = {m}
               /\ \A n \in Nat : n # 0 =>
                     f[n] = f[n - 1] \cup
                              {x \in Module : Uses(x) \cap f[n - 1] # {}}
               /\ Users(m) = f[Cardinality(Module)]
  BY UsersStages
<1> DEFINE K == {n \in Nat : f[n] \subseteq C}
<1>2. 0 \in K
  BY <1>1
<1>3. ASSUME NEW n \in K PROVE n + 1 \in K
  <2>1. n \in Nat /\ n + 1 # 0 /\ n + 1 - 1 = n /\ n + 1 \in Nat
    OBVIOUS
  <2>2. f[n + 1] = f[n] \cup {x \in Module : Uses(x) \cap f[n] # {}}
    BY <1>1, <2>1
  <2> QED BY <2>1, <2>2
<1>4. Nat \subseteq K
  <2> HIDE DEF K
  <2> QED BY <1>2, <1>3, EveryNat
<1>5. Cardinality(Module) \in Nat
  BY FS_CardinalityType, LandingAssumption
<1> QED BY <1>1, <1>4, <1>5

(* Nothing in s comes before what it builds on.                            *)
Sorted(s) ==
    \A i, j \in 1..Len(s) : i < j => s[j] \notin Builds[s[i]] \ {s[i]}

(* The rounds of Ordered.                                                  *)
LEMMA OrderedStages ==
    ASSUME NEW S \in SUBSET Module
    PROVE  \E f : /\ f[0] = <<>>
                  /\ \A n \in Nat : n # 0 =>
                        f[n] = f[n - 1] \o Only(Declared, Ready(S, Elements(f[n - 1])))
                  /\ Ordered(S) = f[Cardinality(Module)]
<1> DEFINE f[n \in Nat] ==
            IF n = 0 THEN <<>>
            ELSE LET p == f[n - 1]
                 IN  p \o Only(Declared, Ready(S, Elements(p)))
<1>1. Ordered(S) = f[Cardinality(Module)]
  BY DEF Ordered
<1> DEFINE X == Seq(Module)
<1> DEFINE F == [n \in Nat |-> [p \in X |-> p \o Only(Declared, Ready(S, Elements(p)))]]
<1>2. <<>> \in X
  OBVIOUS
<1>3. F \in [Nat -> [X -> X]]
  BY OnlyKeeps, LandingAssumption
<1>4. PICK g : InStages(g, X, <<>>, F)
  <2> HIDE DEF F, X
  <2> QED BY <1>2, <1>3, Stages
<1>5. ASSUME NEW n \in Nat, n # 0
      PROVE  g[n] = LET p == g[n - 1]
                    IN  p \o Only(Declared, Ready(S, Elements(p)))
  <2> HIDE DEF X
  <2>1. n - 1 \in Nat
    BY <1>5
  <2>2. g[n - 1] \in X /\ g[n] = F[n][g[n - 1]]
    <3> HIDE DEF F
    <3> QED BY <1>4, <1>5, <2>1 DEF InStages
  <2> QED BY <2>2
<1>6. g = [n \in Nat |-> IF n = 0 THEN <<>>
                         ELSE LET p == g[n - 1]
                              IN  p \o Only(Declared, Ready(S, Elements(p)))]
  <2> HIDE DEF F, X
  <2> QED BY <1>4, <1>5 DEF InStages
<1>7. f = [n \in Nat |-> IF n = 0 THEN <<>>
                         ELSE LET p == f[n - 1]
                              IN  p \o Only(Declared, Ready(S, Elements(p)))]
  BY <1>6
<1> HIDE DEF f
<1>8. f[0] = <<>>
  BY <1>7
<1>9. \A n \in Nat : n # 0 =>
          f[n] = f[n - 1] \o Only(Declared, Ready(S, Elements(f[n - 1])))
  BY <1>7
<1> QED BY <1>1, <1>8, <1>9

(* What a concatenation holds, and where.                                  *)
LEMMA Concat ==
    ASSUME NEW S, NEW p \in Seq(S), NEW q \in Seq(S)
    PROVE  /\ p \o q \in Seq(S) /\ Len(p \o q) = Len(p) + Len(q)
           /\ \A i \in 1..Len(p) : i \in 1..Len(p \o q) /\ (p \o q)[i] = p[i]
           /\ \A i \in 1..Len(q) : /\ Len(p) + i \in 1..Len(p \o q)
                                   /\ (p \o q)[Len(p) + i] = q[i]
           /\ \A i \in 1..Len(p \o q) :
                 i \in 1..Len(p) \/ \E k \in 1..Len(q) : i = Len(p) + k
           /\ Elements(p \o q) = Elements(p) \cup Elements(q)
<1> DEFINE c == p \o q
<1>1. c \in Seq(S) /\ Len(c) = Len(p) + Len(q) /\ Len(p) \in Nat /\ Len(q) \in Nat
  OBVIOUS
<1>2. \A i \in 1..Len(p) : i \in 1..Len(c) /\ c[i] = p[i]
  BY <1>1
<1>3. \A i \in 1..Len(q) : Len(p) + i \in 1..Len(c) /\ c[Len(p) + i] = q[i]
  BY <1>1
<1>4. ASSUME NEW i \in 1..Len(c)
      PROVE  i \in 1..Len(p) \/ \E k \in 1..Len(q) : i = Len(p) + k
  <2>1. CASE i <= Len(p)
    BY <1>1, <2>1
  <2>2. CASE ~(i <= Len(p))
    <3> HIDE DEF c
    <3>1. i - Len(p) \in 1..Len(q) /\ i = Len(p) + (i - Len(p))
      BY <1>1, <2>2
    <3> QED BY <3>1
  <2> QED BY <2>1, <2>2
<1>5. DOMAIN c = 1..Len(c) /\ DOMAIN p = 1..Len(p) /\ DOMAIN q = 1..Len(q)
  BY <1>1
<1>6. Elements(c) = Elements(p) \cup Elements(q)
  <2> HIDE DEF c
  <2>1. \A x : x \in Elements(c) <=> \E i \in 1..Len(c) : c[i] = x
    BY <1>5 DEF Elements
  <2>2. \A x : x \in Elements(p) <=> \E i \in 1..Len(p) : p[i] = x
    BY <1>5 DEF Elements
  <2>3. \A x : x \in Elements(q) <=> \E i \in 1..Len(q) : q[i] = x
    BY <1>5 DEF Elements
  <2>4. ASSUME NEW x \in Elements(c) PROVE x \in Elements(p) \cup Elements(q)
    <3>1. PICK i \in 1..Len(c) : c[i] = x
      BY <2>1
    <3>2. CASE i \in 1..Len(p)
      BY <3>1, <3>2, <1>2, <2>2
    <3>3. CASE \E k \in 1..Len(q) : i = Len(p) + k
      BY <3>1, <3>3, <1>3, <2>3
    <3> QED BY <1>4, <3>2, <3>3
  <2>5. ASSUME NEW x \in Elements(p) \cup Elements(q) PROVE x \in Elements(c)
    BY <1>2, <1>3, <2>1, <2>2, <2>3
  <2> QED BY <2>4, <2>5
<1> QED BY <1>1, <1>2, <1>3, <1>4, <1>6

(* Every module is declared.                                               *)
LEMMA DeclaredAll == Declared \in Seq(Module) /\ Elements(Declared) = Module
BY LandingAssumption DEF Module, Elements

(* The order puts nothing before what it builds on.                        *)
LEMMA OrderedSorted ==
    ASSUME NEW S \in SUBSET Module
    PROVE  /\ Ordered(S) \in Seq(Module) /\ Elements(Ordered(S)) \subseteq S
           /\ Sorted(Ordered(S))
<1>1. PICK f : /\ f[0] = <<>>
               /\ \A n \in Nat : n # 0 =>
                     f[n] = f[n - 1] \o Only(Declared, Ready(S, Elements(f[n - 1])))
               /\ Ordered(S) = f[Cardinality(Module)]
  BY OrderedStages
<1> DEFINE Placed(p) ==
        /\ p \in Seq(Module) /\ Elements(p) \subseteq S /\ Sorted(p)
        /\ \A x \in Elements(p), d \in S :
              d \in Builds[x] /\ d # x => d \in Elements(p)
<1>2. Placed(<<>>)
  BY DEF Sorted, Elements
<1>3. ASSUME NEW p, Placed(p)
      PROVE  Placed(p \o Only(Declared, Ready(S, Elements(p))))
  <2> DEFINE R == Ready(S, Elements(p))
             o == Only(Declared, R)
             c == p \o o
  <2>1. p \in Seq(Module) /\ o \in Seq(Module)
    BY <1>3, OnlyKeeps, DeclaredAll
  <2>2. Elements(o) = R
    <3>1. R \subseteq Module
      BY DEF Ready
    <3> HIDE DEF R
    <3>2. Elements(o) = Elements(Declared) \cap R
      BY OnlyKeeps, DeclaredAll
    <3> QED BY <3>1, <3>2, DeclaredAll
  <2>3. /\ R \subseteq S
        /\ \A x \in R : x \notin Elements(p)
        /\ \A x \in R, d \in S : d \in Builds[x] /\ d # x => d \in Elements(p)
    BY DEF Ready
  <2> HIDE DEF R, o
  <2>4. /\ c \in Seq(Module) /\ Len(c) = Len(p) + Len(o)
        /\ \A i \in 1..Len(p) : i \in 1..Len(c) /\ c[i] = p[i]
        /\ \A i \in 1..Len(o) : Len(p) + i \in 1..Len(c) /\ c[Len(p) + i] = o[i]
        /\ \A i \in 1..Len(c) :
              i \in 1..Len(p) \/ \E k \in 1..Len(o) : i = Len(p) + k
        /\ Elements(c) = Elements(p) \cup Elements(o)
    BY <2>1, Concat
  <2>5. /\ \A i \in 1..Len(p) : p[i] \in Elements(p)
        /\ \A i \in 1..Len(o) : o[i] \in R
    BY <2>1, <2>2 DEF Elements
  <2> HIDE DEF c
  <2>6. ASSUME NEW i \in 1..Len(c), NEW j \in 1..Len(c), i < j,
               c[j] \in Builds[c[i]] \ {c[i]}
        PROVE  FALSE
    <3>1. CASE j \in 1..Len(p)
      <4>1. i \in 1..Len(p)
        BY <3>1, <2>6, <2>1
      <4> QED BY <3>1, <4>1, <2>4, <2>6, <1>3 DEF Sorted
    <3>2. CASE \E k \in 1..Len(o) : j = Len(p) + k
      <4>1. c[j] \in R
        BY <3>2, <2>4, <2>5
      <4>2. c[j] \in S /\ c[j] \notin Elements(p)
        BY <4>1, <2>3
      <4>3. c[i] \in Elements(p) \/ c[i] \in R
        BY <2>4, <2>5
      <4> QED BY <4>2, <4>3, <2>3, <2>6, <1>3
    <3> QED BY <3>1, <3>2, <2>4
  <2>7. Sorted(c)
    BY <2>6 DEF Sorted
  <2> QED BY <2>2, <2>3, <2>4, <2>7, <1>3 DEF o, R, c
<1> DEFINE K == {n \in Nat : Placed(f[n])}
<1>4. 0 \in K
  <2> HIDE DEF Placed
  <2> QED BY <1>1, <1>2
<1>5. ASSUME NEW n \in K PROVE n + 1 \in K
  <2>1. n \in Nat /\ n + 1 # 0 /\ n + 1 - 1 = n /\ n + 1 \in Nat
    OBVIOUS
  <2> DEFINE G(p) == p \o Only(Declared, Ready(S, Elements(p)))
  <2>2. \A k \in Nat : k # 0 => f[k] = G(f[k - 1])
    BY <1>1
  <2>3. \A p : Placed(p) => Placed(G(p))
    BY <1>3
  <2> HIDE DEF Placed, G
  <2>4. f[n + 1] = G(f[n])
    BY <2>1, <2>2
  <2> QED BY <2>1, <2>3, <2>4
<1>6. Nat \subseteq K
  <2> HIDE DEF K
  <2> QED BY <1>4, <1>5, EveryNat
<1>7. Cardinality(Module) \in Nat
  BY FS_CardinalityType, LandingAssumption
<1>8. Placed(Ordered(S))
  <2> HIDE DEF Placed
  <2> QED BY <1>1, <1>6, <1>7
<1> QED BY <1>8

(* Every mounting module shallower than one in s comes after it.           *)
DeepFirst(s) ==
    \A i \in 1..Len(s), p \in Mounting :
        Depth(p) < Depth(s[i]) => \E j \in 1..Len(s) : i < j /\ s[j] = p

(* The depths of NestedParents.                                            *)
LEMMA NestedStages ==
    \E f : /\ f[0] = <<>>
           /\ \A n \in Nat : n # 0 =>
                 f[n] = Only(Declared, {m \in Mounting : Depth(m) = n}) \o f[n - 1]
           /\ NestedParents = f[Cardinality(Repo)]
<1> DEFINE f[n \in Nat] ==
            IF n = 0 THEN <<>>
            ELSE Only(Declared, {m \in Mounting : Depth(m) = n}) \o f[n - 1]
<1>1. NestedParents = f[Cardinality(Repo)]
  BY DEF NestedParents
<1> DEFINE X == Seq(Module)
<1> DEFINE F == [n \in Nat |-> [p \in X |->
                    Only(Declared, {m \in Mounting : Depth(m) = n}) \o p]]
<1>2. <<>> \in X
  OBVIOUS
<1>3. F \in [Nat -> [X -> X]]
  BY OnlyKeeps, DeclaredAll
<1>4. PICK g : InStages(g, X, <<>>, F)
  <2> HIDE DEF F, X
  <2> QED BY <1>2, <1>3, Stages
<1> DEFINE Body(h) == [n \in Nat |->
            IF n = 0 THEN <<>>
            ELSE Only(Declared, {m \in Mounting : Depth(m) = n}) \o h[n - 1]]
<1>5. ASSUME NEW n \in Nat, n # 0
      PROVE  g[n] = Only(Declared, {m \in Mounting : Depth(m) = n}) \o g[n - 1]
  <2> HIDE DEF X
  <2>1. n - 1 \in Nat
    BY <1>5
  <2>2. g[n - 1] \in X /\ g[n] = F[n][g[n - 1]]
    <3> HIDE DEF F
    <3> QED BY <1>4, <1>5, <2>1 DEF InStages
  <2> QED BY <2>2
<1>6. g = Body(g)
  <2> HIDE DEF F, X
  <2> QED BY <1>4, <1>5 DEF InStages
<1>7. f = Body(f)
  <2>1. f = CHOOSE h : h = Body(h)
    OBVIOUS
  <2> HIDE DEF f, Body
  <2> QED BY <1>6, <2>1
<1> HIDE DEF f
<1>8. f[0] = <<>>
  BY <1>7
<1>9. \A n \in Nat : n # 0 =>
          f[n] = Only(Declared, {m \in Mounting : Depth(m) = n}) \o f[n - 1]
  BY <1>7
<1> QED BY <1>1, <1>8, <1>9

(* The nested parents are the modules that mount modules, deepest first.   *)
LEMMA NestedHolds ==
    /\ NestedParents \in Seq(Module) /\ Elements(NestedParents) = Mounting
    /\ DeepFirst(NestedParents)
<1> DEFINE At(n) == {m \in Mounting : Depth(m) = n}
<1>1. PICK f : /\ f[0] = <<>>
               /\ \A n \in Nat : n # 0 => f[n] = Only(Declared, At(n)) \o f[n - 1]
               /\ NestedParents = f[Cardinality(Repo)]
  BY NestedStages
<1>2. /\ Mounting \subseteq Module
      /\ \A m \in Mounting : Depth(m) \in 1..Cardinality(Repo)
  <2>1. Mounting \subseteq Repo
    BY LandingAssumption DEF Mounting
  <2> QED BY <2>1, DepthRange DEF Mounting
<1>3. Cardinality(Repo) \in Nat
  BY FS_CardinalityType, RepoFinite
<1> DEFINE Down(n, p) ==
        /\ p \in Seq(Module)
        /\ \A x : x \in Elements(p) <=> x \in Mounting /\ Depth(x) <= n
        /\ DeepFirst(p)
<1>4. Down(0, <<>>)
  BY <1>2, <1>3 DEF DeepFirst, Elements
<1>5. ASSUME NEW n \in Nat, NEW p, Down(n, p)
      PROVE  Down(n + 1, Only(Declared, At(n + 1)) \o p)
  <2> DEFINE R == At(n + 1)
             o == Only(Declared, R)
             c == o \o p
  <2>1. /\ R \subseteq Module /\ R \subseteq Mounting
        /\ \A x \in R : Depth(x) = n + 1
    BY <1>2
  <2>2. \A x \in Mounting : Depth(x) \in Nat /\ (Depth(x) = n + 1 => x \in R)
    BY <1>2, <1>3
  <2> HIDE DEF R
  <2>3. o \in Seq(Module) /\ Elements(o) = R
    <3>1. Elements(o) = Elements(Declared) \cap R
      BY OnlyKeeps, DeclaredAll
    <3> QED BY <3>1, <2>1, OnlyKeeps, DeclaredAll
  <2> HIDE DEF o
  <2>4. /\ c \in Seq(Module) /\ Len(c) = Len(o) + Len(p)
        /\ \A i \in 1..Len(o) : i \in 1..Len(c) /\ c[i] = o[i]
        /\ \A i \in 1..Len(p) : Len(o) + i \in 1..Len(c) /\ c[Len(o) + i] = p[i]
        /\ \A i \in 1..Len(c) :
              i \in 1..Len(o) \/ \E k \in 1..Len(p) : i = Len(o) + k
        /\ Elements(c) = Elements(o) \cup Elements(p)
    BY <2>3, <1>5, Concat
  <2>5. \A i \in 1..Len(o) : o[i] \in R
    BY <2>3 DEF Elements
  <2>6. \A x \in Elements(p) : \E k \in 1..Len(p) : p[k] = x
    BY <1>5 DEF Elements
  <2> HIDE DEF c
  <2>7. ASSUME NEW i \in 1..Len(c), NEW q \in Mounting, Depth(q) < Depth(c[i])
        PROVE  \E j \in 1..Len(c) : i < j /\ c[j] = q
    <3>1. CASE i \in 1..Len(o)
      <4>1. Depth(q) <= n
        BY <3>1, <2>1, <2>2, <2>4, <2>5, <2>7
      <4>2. PICK k \in 1..Len(p) : p[k] = q
        BY <4>1, <2>6, <1>5
      <4>3. i < Len(o) + k
        BY <3>1, <2>3, <1>5
      <4> QED BY <4>2, <4>3, <2>4
    <3>2. CASE \E k \in 1..Len(p) : i = Len(o) + k
      <4>1. PICK k \in 1..Len(p) : i = Len(o) + k
        BY <3>2
      <4>2. PICK l \in 1..Len(p) : k < l /\ p[l] = q
        BY <4>1, <2>4, <2>7, <1>5 DEF DeepFirst
      <4>3. i < Len(o) + l
        BY <4>1, <4>2, <2>3, <1>5
      <4> QED BY <4>2, <4>3, <2>4
    <3> QED BY <3>1, <3>2, <2>4
  <2>8. DeepFirst(c)
    BY <2>7 DEF DeepFirst
  <2>9. ASSUME NEW x PROVE x \in Elements(c) <=> x \in Mounting /\ Depth(x) <= n + 1
    <3>1. x \in Mounting => (Depth(x) <= n + 1 <=> Depth(x) <= n \/ Depth(x) = n + 1)
      BY <2>2
    <3> QED BY <3>1, <2>1, <2>2, <2>3, <2>4, <1>5
  <2> QED BY <2>4, <2>8, <2>9 DEF c, o, R
<1> DEFINE K == {n \in Nat : Down(n, f[n])}
<1>6. 0 \in K
  <2> HIDE DEF Down
  <2> QED BY <1>1, <1>4
<1>7. ASSUME NEW n \in K PROVE n + 1 \in K
  <2>1. n \in Nat /\ n + 1 # 0 /\ n + 1 - 1 = n /\ n + 1 \in Nat
    OBVIOUS
  <2> DEFINE G(k, p) == Only(Declared, At(k)) \o p
  <2>2. \A k \in Nat : k # 0 => f[k] = G(k, f[k - 1])
    BY <1>1
  <2>3. \A p : Down(n, p) => Down(n + 1, G(n + 1, p))
    BY <1>5, <2>1
  <2> HIDE DEF Down, G
  <2>4. f[n + 1] = G(n + 1, f[n])
    BY <2>1, <2>2
  <2> QED BY <2>1, <2>3, <2>4
<1>8. Nat \subseteq K
  <2> HIDE DEF K
  <2> QED BY <1>6, <1>7, EveryNat
<1>9. Down(Cardinality(Repo), NestedParents)
  <2> HIDE DEF Down
  <2> QED BY <1>1, <1>3, <1>8
<1>10. Elements(NestedParents) = Mounting
  <2>1. \A m \in Mounting : Depth(m) <= Cardinality(Repo)
    BY <1>2, <1>3
  <2>2. \A x : x \in Elements(NestedParents)
                  <=> x \in Mounting /\ Depth(x) <= Cardinality(Repo)
    BY <1>9
  <2> QED BY <2>1, <2>2
<1> QED BY <1>9, <1>10

(* What a fresh clone asks for lies in every set of commits that has the   *)
(* platform's main and whatever a member pins.                             *)
LEMMA AskedWithin ==
    ASSUME NEW G, <<Root, origin[Root]>> \in G,
           \A a \in G : \A c \in Child[a[1]] : <<c, log[a[1]][a[2]][c]>> \in G
    PROVE  Asked \subseteq G
<1> DEFINE next(q) == q \cup UNION {{<<c, log[a[1]][a[2]][c]>> :
                                        c \in Child[a[1]]} : a \in q}
           x == {<<Root, origin[Root]>>}
<1> DEFINE f[n \in Nat] ==
            IF n = 0 THEN {<<Root, origin[Root]>>}
            ELSE LET q == f[n - 1]
                 IN  q \cup UNION {{<<c, log[a[1]][a[2]][c]>> :
                                        c \in Child[a[1]]} : a \in q}
<1>1. Asked = f[Cardinality(Module)]
  BY DEF Asked
<1> DEFINE X == SUBSET G
           F == [n \in Nat |-> [q \in X |-> next(q)]]
<1>2. x \in X
  OBVIOUS
<1>3. \A q \in X : next(q) \in X
  OBVIOUS
<1>4. F \in [Nat -> [X -> X]]
  <2> HIDE DEF next, X
  <2> QED BY <1>3
<1>5. PICK g : InStages(g, X, x, F)
  <2> HIDE DEF F, X, x
  <2> QED BY <1>2, <1>4, Stages
<1> DEFINE Body(h) == [n \in Nat |-> IF n = 0 THEN x ELSE next(h[n - 1])]
<1>6. g = Body(g)
  <2> HIDE DEF X, next, x
  <2>1. ASSUME NEW n \in Nat, n # 0 PROVE g[n] = next(g[n - 1])
    <3>1. n - 1 \in Nat
      BY <2>1
    <3>2. g[n - 1] \in X /\ g[n] = F[n][g[n - 1]]
      <4> HIDE DEF F
      <4> QED BY <1>5, <2>1, <3>1 DEF InStages
    <3> QED BY <3>2
  <2> HIDE DEF F
  <2> QED BY <2>1, <1>5 DEF InStages
<1>7. f = Body(f)
  <2>1. f = CHOOSE h : h = Body(h)
    OBVIOUS
  <2> HIDE DEF f, Body
  <2> QED BY <1>6, <2>1
<1> HIDE DEF f
<1> DEFINE K == {n \in Nat : f[n] \in X}
<1>8. 0 \in K
  <2> HIDE DEF X, next, x
  <2> QED BY <1>2, <1>7
<1>9. ASSUME NEW n \in K PROVE n + 1 \in K
  <2> HIDE DEF X, next, x
  <2>1. n \in Nat /\ n + 1 # 0 /\ n + 1 - 1 = n /\ n + 1 \in Nat
    OBVIOUS
  <2>2. f[n + 1] = next(f[n])
    BY <1>7, <2>1
  <2> QED BY <2>1, <2>2, <1>3
<1>10. Nat \subseteq K
  <2> HIDE DEF K
  <2> QED BY <1>8, <1>9, EveryNat
<1>11. Cardinality(Module) \in Nat
  BY FS_CardinalityType, LandingAssumption
<1> QED BY <1>1, <1>10, <1>11

(* The first of a sequence and the rest.                                   *)
LEMMA HeadTail ==
    ASSUME NEW S, NEW s \in Seq(S), s # <<>>
    PROVE  /\ Head(s) \in S /\ Tail(s) \in Seq(S) /\ Head(s) = s[1]
           /\ Len(s) \in Nat /\ 1 \in 1..Len(s) /\ Len(Tail(s)) = Len(s) - 1
           /\ \A i \in 1..Len(Tail(s)) : i + 1 \in 1..Len(s) /\ Tail(s)[i] = s[i + 1]
           /\ \A i \in 1..Len(s) : i # 1 =>
                 i - 1 \in 1..Len(Tail(s)) /\ s[i] = Tail(s)[i - 1]
           /\ Elements(s) = {Head(s)} \cup Elements(Tail(s))
<1> DEFINE t == Tail(s)
<1>1. /\ Head(s) \in S /\ t \in Seq(S) /\ Head(s) = s[1]
      /\ Len(s) \in Nat /\ Len(s) # 0 /\ Len(t) = Len(s) - 1
  OBVIOUS
<1>2. 1 \in 1..Len(s)
  BY <1>1
<1>3. \A i \in 1..Len(t) : i + 1 \in 1..Len(s) /\ t[i] = s[i + 1]
  BY <1>1
<1>4. \A i \in 1..Len(s) : i # 1 => i - 1 \in 1..Len(t) /\ s[i] = t[i - 1]
  BY <1>1
<1>5. DOMAIN s = 1..Len(s) /\ DOMAIN t = 1..Len(t)
  BY <1>1
<1> HIDE DEF t
<1>6. Elements(s) = {Head(s)} \cup Elements(t)
  <2>1. \A x : x \in Elements(s) <=> \E i \in 1..Len(s) : s[i] = x
    BY <1>5 DEF Elements
  <2>2. \A x : x \in Elements(t) <=> \E i \in 1..Len(t) : t[i] = x
    BY <1>5 DEF Elements
  <2>3. ASSUME NEW i \in 1..Len(s) PROVE s[i] \in {Head(s)} \cup Elements(t)
    BY <1>1, <1>4, <2>2
  <2>4. Head(s) \in Elements(s)
    BY <1>1, <1>2, <2>1
  <2>5. \A i \in 1..Len(t) : t[i] \in Elements(s)
    BY <1>3, <2>1
  <2> QED BY <2>1, <2>2, <2>3, <2>4, <2>5
<1> QED BY <1>1, <1>2, <1>3, <1>4, <1>6 DEF t

(* The members of a sequence, and of one longer by an element.             *)
LEMMA Members ==
    ASSUME NEW S, NEW s \in Seq(S)
    PROVE  /\ Elements(s) \subseteq S /\ s \in Seq(Elements(s))
           /\ Elements(<<>>) = {}
           /\ \A x : x \in Elements(s) <=> \E i \in 1..Len(s) : s[i] = x
           /\ \A x \in S : /\ Append(s, x) \in Seq(S)
                           /\ Elements(Append(s, x)) = Elements(s) \cup {x}
<1>1. DOMAIN s = 1..Len(s) /\ Len(s) \in Nat
  OBVIOUS
<1>2. \A x : x \in Elements(s) <=> \E i \in 1..Len(s) : s[i] = x
  BY <1>1 DEF Elements
<1>3. Elements(<<>>) = {}
  BY DEF Elements
<1>4. Elements(s) \subseteq S
  BY <1>2
<1>5. s \in Seq(Elements(s))
  <2>1. \A i \in 1..Len(s) : s[i] \in Elements(s)
    BY <1>2
  <2> QED BY <2>1
<1>6. ASSUME NEW x \in S
      PROVE Append(s, x) \in Seq(S) /\ Elements(Append(s, x)) = Elements(s) \cup {x}
  <2> DEFINE a == Append(s, x)
  <2>1. /\ a \in Seq(S) /\ Len(a) = Len(s) + 1 /\ a[Len(s) + 1] = x
        /\ \A i \in 1..Len(s) : a[i] = s[i]
    OBVIOUS
  <2> HIDE DEF a
  <2>2. DOMAIN a = 1..Len(a)
    BY <2>1
  <2>3. \A y : y \in Elements(a) <=> \E i \in 1..Len(a) : a[i] = y
    BY <2>2 DEF Elements
  <2>4. \A i \in 1..Len(a) : i \in 1..Len(s) \/ i = Len(s) + 1
    BY <2>1, <1>1
  <2>5. /\ Len(s) + 1 \in 1..Len(a)
        /\ \A i \in 1..Len(s) : i \in 1..Len(a)
    BY <2>1, <1>1
  <2>6. \A y : y \in Elements(a) <=> y \in Elements(s) \/ y = x
    BY <2>1, <2>3, <2>4, <2>5, <1>2
  <2> QED BY <2>1, <2>6 DEF a
<1> QED BY <1>2, <1>3, <1>4, <1>5, <1>6

------------------------------------------------------------------------------
(* What every run keeps, whatever the operator does meanwhile.             *)

(* The phases after the verification.                                      *)
After == {"unpushed", "submit", "nested", "pin"}

(* The types, and origin at commits there are.                             *)
StateOK ==
    /\ TypeOK /\ log = [r \in Repo |-> log[r]]
    /\ \A r \in Repo : began[r] <= origin[r] /\ origin[r] <= Tip(r)

(* What a phase has to do is of its kind, and while a run verifies nothing *)
(* is pushed.                                                              *)
PhaseOK ==
    /\ pc = "verify" => /\ origin = began /\ "Pin" \notin call
                        /\ todo \in Seq(Module)
    /\ pc \in After \cup {"verify"} => outcome = "none"
    /\ pc \in After => todo \in Seq(Repo)
    /\ pushing => pc \in {"submit", "nested", "pin"} /\ todo # <<>>
    /\ unpushed \cap New = {}
    /\ FailurePushesNothing

(* What was found, and that all of it is verified, skipped or to do.       *)
FoundOK ==
    (pc \in After \cup {"verify", "done"} /\ "Pin" \notin call) =>
      /\ coded \subseteq changed /\ consumers = Consumers(coded) \ changed
      /\ changed \cup consumers = Elements(verified) \cup skipped \cup
             (IF pc = "verify" THEN Elements(todo) ELSE {})
      /\ pc # "verify" => changed \cap New = {}

(* What is verified, to do and landed follows what it builds on.           *)
OrderOK ==
    /\ Sorted(landed)
    /\ pc = "verify" => Sorted(verified \o todo)
    /\ pc = "unpushed" => Sorted(verified)
    /\ pc \in {"verify", "unpushed"} => landed = <<>>
    /\ pc = "submit" => Sorted(landed \o todo)

(* The inductive invariant of every landing.                               *)
IInv == StateOK /\ PhaseOK /\ FoundOK /\ OrderOK

(* Modules and repositories.                                               *)
LEMMA Kinds ==
    /\ Module \subseteq Repo \cup New /\ New \subseteq Module /\ Root \in Repo
    /\ Root \notin Module /\ Module \ New \subseteq Repo
    /\ \A m \in Module : Home(m) \in Repo
    /\ Mounting \subseteq Module \ New
BY LandingAssumption DEF Repo, Home, Mounting

(* A longer set has the sequences of a shorter one.                        *)
LEMMA SeqWider ==
    ASSUME NEW S, NEW T, S \subseteq T, NEW s \in Seq(S)
    PROVE  s \in Seq(T)
OBVIOUS

(* A commit adds one to the repository's own and clears its files.         *)
LEMMA CommitMakes ==
    ASSUME StateOK, NEW r \in Repo, CommitAll(r)
    PROVE  /\ log' = [x \in Repo |-> log'[x]]
           /\ \A x \in Repo : x # r => log'[x] = log[x]
           /\ log'[r] = Append(log[r], [c \in Child[r] |-> Tip(c)])
           /\ \A x \in Repo : /\ log'[x] \in Seq([Child[x] -> Nat])
                              /\ log'[x] # <<>> /\ Tip(x) \in Nat /\ Tip(x) # 0
                              /\ Len(log'[x]) = IF x = r THEN Tip(x) + 1 ELSE Tip(x)
                              /\ \A i \in 1..Tip(x) : log'[x][i] = log[x][i]
           /\ files' \in [Repo \cup New -> SUBSET Kind]
           /\ \A f \in Repo \cup New :
                 files'[f] = IF f \in {r} \cup Swallowed(r) THEN {} ELSE files[f]
<1>1. log = [x \in Repo |-> log[x]] /\ files \in [Repo \cup New -> SUBSET Kind]
  BY DEF StateOK, TypeOK
<1>2. \A x \in Repo : log[x] \in Seq([Child[x] -> Nat]) /\ log[x] # <<>>
  BY DEF StateOK, TypeOK
<1>3. \A x \in Repo : Tip(x) \in Nat /\ Tip(x) # 0
  <2> SUFFICES ASSUME NEW x \in Repo PROVE Tip(x) \in Nat /\ Tip(x) # 0
    OBVIOUS
  <2>1. log[x] \in Seq([Child[x] -> Nat]) /\ log[x] # <<>>
    BY <1>2
  <2> QED BY <2>1 DEF Tip
<1> DEFINE e == [c \in Child[r] |-> Tip(c)]
<1>4. e \in [Child[r] -> Nat]
  <2>1. Child[r] \subseteq Repo
    BY DEF Child, Repo
  <2> QED BY <2>1, <1>3
<1>5. log' = [log EXCEPT ![r] = Append(log[r], e)]
  BY DEF CommitAll
<1> HIDE DEF e
<1>6. /\ log' = [x \in Repo |-> log'[x]]
      /\ \A x \in Repo : x # r => log'[x] = log[x]
      /\ log'[r] = Append(log[r], e)
  BY <1>1, <1>5
<1>7. \A x \in Repo : /\ log'[x] \in Seq([Child[x] -> Nat])
                      /\ log'[x] # <<>>
                      /\ Len(log'[x]) = IF x = r THEN Tip(x) + 1 ELSE Tip(x)
                      /\ \A i \in 1..Tip(x) : log'[x][i] = log[x][i]
  <2> SUFFICES ASSUME NEW x \in Repo
               PROVE  /\ log'[x] \in Seq([Child[x] -> Nat])
                      /\ log'[x] # <<>>
                      /\ Len(log'[x]) = IF x = r THEN Tip(x) + 1 ELSE Tip(x)
                      /\ \A i \in 1..Tip(x) : log'[x][i] = log[x][i]
    OBVIOUS
  <2>1. CASE x = r
    BY <2>1, <1>2, <1>4, <1>6 DEF Tip
  <2>2. CASE x # r
    BY <2>2, <1>2, <1>6 DEF Tip
  <2> QED BY <2>1, <2>2
<1>8. files' = [f \in Repo \cup New |->
                  IF f \in {r} \cup Swallowed(r) THEN {} ELSE files[f]]
  BY <1>1 DEF CommitAll
<1>9. files' \in [Repo \cup New -> SUBSET Kind]
  BY <1>1, <1>8
<1> QED BY <1>3, <1>6, <1>7, <1>8, <1>9 DEF e

(* What the publishing finds is of its kind.                               *)
LEMMA Found ==
    ASSUME StateOK
    PROVE  /\ FoundChanged \subseteq Module /\ FoundUnpushed \subseteq Module \ New
           /\ FoundCoded \subseteq FoundChanged
           /\ FoundConsumers = Consumers(FoundCoded) \ FoundChanged
           /\ FoundConsumers \subseteq Module
<1>1. FoundChanged \subseteq Module /\ FoundCoded \subseteq FoundChanged
  BY DEF FoundChanged, FoundCoded
<1>2. FoundUnpushed \subseteq Module \ New
  BY DEF FoundUnpushed, AheadBy
<1>3. FoundConsumers \subseteq Module
  BY DEF FoundConsumers, Consumers
<1> QED BY <1>1, <1>2, <1>3 DEF FoundConsumers

(* The estate's own part of StateOK.                                       *)
EstateOK ==
    /\ files \in [Repo \cup New -> SUBSET Kind]
    /\ log = [r \in Repo |-> log[r]]
    /\ \A r \in Repo : log[r] \in Seq([Child[r] -> Nat]) /\ log[r] # <<>>
    /\ origin \in [Repo -> Nat] /\ began \in [Repo -> Nat]
    /\ branch \in [Repo -> Branch]
    /\ \A r \in Repo : began[r] <= origin[r] /\ origin[r] <= Tip(r)

(* The rest of it: what the run and the operator keep.                     *)
KeptOK ==
    /\ edits \in 0..MaxEdits /\ runs \in 0..MaxRuns
    /\ pc \in {"idle", "verify", "unpushed", "submit", "nested", "pin", "done"}
    /\ call \subseteq {"Pin", "All", "NoVerify"}
    /\ changed \subseteq Module /\ unpushed \subseteq Module
    /\ consumers \subseteq Module /\ coded \subseteq Module
    /\ skipped \subseteq Module
    /\ todo \in Seq(Repo \cup New) /\ verified \in Seq(Module)
    /\ landed \in Seq(Repo) /\ pushing \in BOOLEAN
    /\ outcome \in {"none", "ok", "nothing", "refused", "unverified", "thrown",
                    "interrupted"}
    /\ tested \subseteq Repo \cup New /\ late \subseteq Repo \cup New
    /\ swept \subseteq Repo \cup New

(* StateOK is its two parts.                                               *)
LEMMA StateParts == StateOK <=> EstateOK /\ KeptOK
BY DEF StateOK, EstateOK, KeptOK, TypeOK

(* What is to do in each phase but the verification is a repository.       *)
LEMMA HeadRepo ==
    ASSUME StateOK, PhaseOK, todo # <<>>,
           pc \in {"submit", "nested", "pin"} \/ pc = "unpushed" \/ pushing
    PROVE  /\ Head(todo) \in Repo /\ Tail(todo) \in Seq(Repo)
           /\ todo \in Seq(Repo)
<1>1. todo \in Seq(Repo)
  BY DEF PhaseOK, After
<1> QED BY <1>1, HeadTail

(* A commit keeps the estate's part.                                       *)
LEMMA CommitKeeps ==
    ASSUME StateOK, NEW r \in Repo, CommitAll(r), origin' = origin, began' = began,
           branch' \in [Repo -> Branch]
    PROVE  EstateOK'
<1>0. EstateOK
  BY StateParts
<1>1. /\ log' = [x \in Repo |-> log'[x]]
      /\ \A x \in Repo : /\ log'[x] \in Seq([Child[x] -> Nat])
                         /\ log'[x] # <<>> /\ Tip(x) \in Nat
                         /\ Len(log'[x]) = IF x = r THEN Tip(x) + 1 ELSE Tip(x)
      /\ files' \in [Repo \cup New -> SUBSET Kind]
  BY CommitMakes
<1>2. ASSUME NEW x \in Repo
      PROVE  began'[x] <= origin'[x] /\ origin'[x] <= Len(log'[x])
  <2>1. began[x] \in Nat /\ origin[x] \in Nat /\ Tip(x) \in Nat
        /\ began[x] <= origin[x] /\ origin[x] <= Tip(x)
    BY <1>0, <1>1 DEF EstateOK
  <2>2. Len(log'[x]) = Tip(x) \/ Len(log'[x]) = Tip(x) + 1
    BY <1>1
  <2> QED BY <2>1, <2>2
<1> QED BY <1>0, <1>1, <1>2 DEF EstateOK, Tip

(* No step disturbs the estate's part.                                     *)
LEMMA EstateStep ==
    ASSUME StateOK, PhaseOK, [Next]_vars
    PROVE  EstateOK'
<1> USE DEF EstateOK, Tip
<1>0. EstateOK /\ KeptOK
  BY StateParts
<1>1. CASE Publish
  <2>1. files' \in [Repo \cup New -> SUBSET Kind]
    BY <1>0, <1>1, Kinds DEF Publish
  <2>2. log' = log /\ origin' = origin /\ branch' = branch /\ began' = origin
    BY <1>1 DEF Publish
  <2>3. \A r \in Repo : began'[r] <= origin'[r] /\ origin'[r] <= Len(log'[r])
    BY <1>0, <2>2
  <2> QED BY <1>0, <2>1, <2>2, <2>3
<1>2. CASE Submit
  <2> DEFINE r == Head(todo)
  <2>1. todo # <<>> /\ pc \in {"submit", "nested", "pin"}
    BY <1>2 DEF Submit
  <2>2. r \in Repo
    BY <2>1, HeadRepo
  <2>3. /\ origin' = origin /\ began' = began
        /\ branch' \in [Repo -> Branch]
    BY <1>0, <1>2, <2>2, LandingAssumption DEF Submit
  <2>4. CASE Staged(r)
    <3>1. CommitAll(r)
      BY <1>2, <2>4 DEF Submit
    <3> HIDE DEF r
    <3> QED BY <2>2, <2>3, <3>1, CommitKeeps
  <2>5. CASE ~Staged(r)
    <3>1. log' = log /\ files' = files
      BY <1>2, <2>5 DEF Submit
    <3> QED BY <1>0, <2>3, <3>1
  <2> QED BY <2>4, <2>5
<1>3. CASE Push
  <2> DEFINE r == Head(todo)
  <2>1. r \in Repo
    BY <1>3, HeadRepo DEF Push
  <2>2. origin' = origin \/ origin' = [origin EXCEPT ![r] = Tip(r)]
    BY <1>3 DEF Push
  <2>3. log' = log /\ files' = files /\ began' = began /\ branch' = branch
    BY <1>3 DEF Push
  <2>4. Tip(r) \in Nat
    BY <1>0, <2>1
  <2> HIDE DEF r
  <2>5. CASE origin' = origin
    BY <1>0, <2>3, <2>5
  <2>6. CASE origin' = [origin EXCEPT ![r] = Tip(r)]
    <3>1. origin' \in [Repo -> Nat]
      BY <1>0, <2>1, <2>4, <2>6
    <3>2. ASSUME NEW x \in Repo
          PROVE  began'[x] <= origin'[x] /\ origin'[x] <= Len(log'[x])
      <4>1. began[x] \in Nat /\ origin[x] \in Nat /\ Len(log[x]) \in Nat
        BY <1>0
      <4>2. began[x] <= origin[x] /\ origin[x] <= Len(log[x])
        BY <1>0
      <4>3. origin'[x] = IF x = r THEN Len(log[x]) ELSE origin[x]
        BY <1>0, <2>1, <2>6
      <4> QED BY <4>1, <4>2, <4>3, <2>3
    <3> QED BY <1>0, <2>3, <3>1, <3>2
  <2> QED BY <2>2, <2>5, <2>6
<1>4. ASSUME NEW r \in Repo \cup New, NEW k \in Kind, Edit(r, k) PROVE EstateOK'
  <2>1. /\ files' = [files EXCEPT ![r] = @ \cup {k}] /\ log' = log
        /\ branch' = branch /\ origin' = origin /\ began' = began
    BY <1>4 DEF Edit, Working
  <2> QED BY <1>0, <2>1
<1>5. ASSUME NEW r \in Repo, HandCommit(r) PROVE EstateOK'
  <2>1. CommitAll(r) /\ branch' = branch /\ origin' = origin /\ began' = began
    BY <1>5 DEF HandCommit, Working
  <2> QED BY <2>1, <1>0, CommitKeeps
<1>6. ASSUME NEW r \in Repo, Switch(r) PROVE EstateOK'
  <2>1. /\ branch' \in {[branch EXCEPT ![r] = b] : b \in Branch} /\ log' = log
        /\ files' = files /\ origin' = origin /\ began' = began
    BY <1>6 DEF Switch, Working
  <2> QED BY <1>0, <2>1
<1>7. CASE Verify \/ VerifyRoot \/ NextPhase \/ Said \/ Interrupted \/ UNCHANGED vars
  <2>1. UNCHANGED <<files, log, origin, branch, began>>
    BY <1>7 DEF Verify, VerifyRoot, NextPhase, Said, Interrupted, vars,
                estateVars, historyVars
  <2> QED BY <1>0, <2>1
<1> QED BY <1>1, <1>2, <1>3, <1>4, <1>5, <1>6, <1>7 DEF Next, Run

(* How the publishing leaves the run.                                      *)
LEMMA PublishMakes ==
    ASSUME Publish
    PROVE  /\ pc = "idle" /\ runs < MaxRuns /\ runs' = runs + 1 /\ call' \in Calls
           /\ UNCHANGED <<log, origin, branch, edits>>
           /\ changed' = FoundChanged /\ unpushed' = FoundUnpushed
           /\ coded' = FoundCoded /\ consumers' = FoundConsumers
           /\ verified' = <<>> /\ skipped' = {} /\ swept' = {} /\ landed' = <<>>
           /\ tested' = {} /\ late' = {} /\ began' = origin /\ pushing' = FALSE
           /\ \/ files' = files
              \/ files' = [files EXCEPT ![Root] = @ \cup {"prose"}]
           /\ \/ /\ pc' = "idle" /\ outcome' \in {"thrown", "nothing", "refused"}
                 /\ todo' = <<>>
              \/ /\ pc' = "unpushed" /\ outcome' = "none" /\ "Pin" \in call'
                 /\ todo' = Only(Declared, FoundUnpushed)
              \/ /\ pc' = "verify" /\ outcome' = "none" /\ "Pin" \notin call'
                 /\ todo' = Ordered(FoundChanged \cup FoundConsumers)
                 /\ Elements(todo') = FoundChanged \cup FoundConsumers
<1>1. /\ pc = "idle" /\ runs < MaxRuns /\ runs' = runs + 1 /\ call' \in Calls
      /\ UNCHANGED <<log, origin, branch, edits>>
      /\ changed' = FoundChanged /\ unpushed' = FoundUnpushed
      /\ coded' = FoundCoded /\ consumers' = FoundConsumers
      /\ verified' = <<>> /\ skipped' = {} /\ swept' = {} /\ landed' = <<>>
      /\ tested' = {} /\ late' = {} /\ began' = origin
      /\ \/ files' = files
         \/ files' = [files EXCEPT ![Root] = @ \cup {"prose"}]
  BY DEF Publish
<1>2. /\ pushing' = FALSE
      /\ \/ /\ pc' = "idle" /\ outcome' \in {"thrown", "nothing", "refused"}
            /\ todo' = <<>>
         \/ /\ pc' = "unpushed" /\ outcome' = "none" /\ "Pin" \in call'
            /\ todo' = Only(Declared, FoundUnpushed)
         \/ /\ pc' = "verify" /\ outcome' = "none" /\ "Pin" \notin call'
            /\ todo' = Ordered(FoundChanged \cup FoundConsumers)
            /\ Elements(todo') = FoundChanged \cup FoundConsumers
  BY DEF Publish, End
<1> QED BY <1>1, <1>2

(* How the verification of a module leaves it.                             *)
LEMMA VerifyMakes ==
    ASSUME Verify
    PROVE  /\ pc = "verify" /\ todo # <<>>
           /\ UNCHANGED <<files, log, origin, branch, edits, runs, call, changed,
                          unpushed, consumers, coded, began, swept, landed>>
           /\ \/ /\ verified' = Append(verified, Head(todo)) /\ todo' = Tail(todo)
                 /\ skipped' = skipped
                 /\ \/ "NoVerify" \in call /\ tested' = tested /\ late' = late
                    \/ /\ "NoVerify" \notin call
                       /\ tested' = tested \cup {Head(todo)}
                       /\ late' = late \ {Head(todo)}
                 /\ UNCHANGED <<pc, outcome, pushing>>
              \/ /\ skipped' = skipped \cup {Head(todo)} /\ todo' = Tail(todo)
                 /\ Head(todo) \notin Verifiable
                 /\ UNCHANGED <<pc, outcome, pushing, verified, tested, late>>
              \/ /\ pc' = "idle" /\ outcome' = "unverified" /\ todo' = <<>>
                 /\ pushing' = FALSE /\ UNCHANGED <<verified, skipped, tested, late>>
BY DEF Verify, End, estateVars, foundVars

(* How the verification of the platform leaves it.                         *)
LEMMA VerifyRootMakes ==
    ASSUME VerifyRoot
    PROVE  /\ pc = "verify" /\ todo = <<>>
           /\ UNCHANGED <<files, log, origin, branch, edits, runs, call, changed,
                          unpushed, consumers, coded, began, swept, landed,
                          verified, skipped>>
           /\ tested' = IF "NoVerify" \in call THEN tested ELSE tested \cup {Root}
           /\ late' = IF "NoVerify" \in call THEN late ELSE late \ {Root}
           /\ \/ /\ pc' = "unpushed" /\ todo' = Only(Declared, unpushed)
                 /\ changed \cap New = {} /\ UNCHANGED <<outcome, pushing>>
              \/ /\ pc' = "idle" /\ outcome' \in {"refused", "unverified"}
                 /\ todo' = <<>> /\ pushing' = FALSE
BY DEF VerifyRoot, End, estateVars, foundVars

(* How a phase gives way to the next.                                      *)
LEMMA NextPhaseMakes ==
    ASSUME NextPhase
    PROVE  /\ todo = <<>>
           /\ UNCHANGED <<files, log, origin, branch, edits, runs, call, changed,
                          unpushed, consumers, coded, pushing, verified, skipped,
                          began, tested, late, swept, landed>>
           /\ \/ /\ pc = "unpushed" /\ "Pin" \notin call /\ pc' = "submit"
                 /\ todo' = Only(verified, Module \ consumers) /\ outcome' = outcome
              \/ /\ pc = "submit" \/ (pc = "unpushed" /\ "Pin" \in call)
                 /\ pc' = "nested" /\ todo' = NestedParents /\ outcome' = outcome
              \/ /\ pc = "nested" /\ pc' = "pin" /\ todo' = <<Root>>
                 /\ outcome' = outcome
              \/ pc = "pin" /\ pc' = "done" /\ todo' = <<>> /\ outcome' = "ok"
BY DEF NextPhase, estateVars, foundVars, historyVars

(* How a repository is committed.                                          *)
LEMMA SubmitMakes ==
    ASSUME Submit
    PROVE  /\ pc \in {"submit", "nested", "pin"} /\ todo # <<>> /\ ~pushing
           /\ UNCHANGED <<origin, edits, runs, pc, call, changed, unpushed,
                          consumers, coded, verified, skipped, outcome, began,
                          tested, late, landed>>
           /\ \/ /\ Staged(Head(todo)) /\ CommitAll(Head(todo)) /\ pushing' = TRUE
                 /\ todo' = todo
                 /\ swept' = swept \cup ({f \in {Head(todo)} \cup Swallowed(Head(todo)) :
                                            files[f] # {}} \ tested)
              \/ /\ ~Staged(Head(todo)) /\ log' = log /\ files' = files
                 /\ swept' = swept
                 /\ \/ /\ pc = "pin" /\ AheadBy(Head(todo)) > 0 /\ pushing' = TRUE
                       /\ todo' = todo
                    \/ /\ ~(pc = "pin" /\ AheadBy(Head(todo)) > 0)
                       /\ pushing' = FALSE /\ todo' = Tail(todo)
<1>1. pushing' \in BOOLEAN /\ ~Staged(Head(todo)) =>
        \/ /\ pc = "pin" /\ AheadBy(Head(todo)) > 0 /\ pushing' = TRUE
           /\ todo' = todo
        \/ /\ ~(pc = "pin" /\ AheadBy(Head(todo)) > 0)
           /\ pushing' = FALSE /\ todo' = Tail(todo)
  BY DEF Submit
<1> QED BY <1>1 DEF Submit, foundVars

(* How a repository is pushed.                                             *)
LEMMA PushMakes ==
    ASSUME Push
    PROVE  /\ todo # <<>> /\ (pc = "unpushed" \/ pushing)
           /\ UNCHANGED <<files, log, branch, edits, runs, call, changed,
                          unpushed, consumers, coded, verified, skipped, began,
                          tested, late, swept>>
           /\ \/ /\ origin' = [origin EXCEPT ![Head(todo)] = Tip(Head(todo))]
                 /\ todo' = Tail(todo) /\ pushing' = FALSE
                 /\ landed' = IF pc = "submit" THEN Append(landed, Head(todo))
                              ELSE landed
                 /\ UNCHANGED <<pc, outcome>>
              \/ /\ \/ origin' = origin
                    \/ origin' = [origin EXCEPT ![Head(todo)] = Tip(Head(todo))]
                 /\ pc' = "idle" /\ outcome' = "thrown" /\ todo' = <<>>
                 /\ pushing' = FALSE /\ landed' = landed
BY DEF Push, End, foundVars

(* How a run ends, its work done or not.                                   *)
LEMMA EndMakes ==
    ASSUME Said \/ Interrupted
    PROVE  /\ UNCHANGED <<files, log, origin, branch, edits, runs, call, changed,
                          unpushed, consumers, coded, verified, skipped, began,
                          tested, late, swept, landed>>
           /\ pc' = "idle"
           /\ \/ UNCHANGED <<todo, pushing, outcome>> /\ pc = "done"
              \/ todo' = <<>> /\ pushing' = FALSE /\ outcome' = "interrupted"
BY DEF Said, Interrupted, End, estateVars, foundVars, historyVars

(* What the operator does.                                                 *)
Operator ==
    \/ \E r \in Repo \cup New, k \in Kind : Edit(r, k)
    \/ \E r \in Repo : HandCommit(r) \/ Switch(r)

(* The operator leaves the run alone, and works during one only where he   *)
(* may.                                                                    *)
LEMMA OperatorMakes ==
    ASSUME Operator
    PROVE  /\ UNCHANGED <<origin, runs, pc, call, changed, unpushed, consumers,
                          coded, todo, pushing, verified, skipped, outcome,
                          began, swept, landed>>
           /\ edits < MaxEdits /\ edits' = edits + 1
           /\ tested' \subseteq tested /\ late' \subseteq late \cup Repo \cup New
           /\ pc = "idle" \/ Meanwhile
BY DEF Operator, Edit, HandCommit, Switch, Working, foundVars

(* The steps there are.                                                    *)
LEMMA Steps ==
    ASSUME [Next]_vars
    PROVE  \/ Publish \/ Verify \/ VerifyRoot \/ NextPhase \/ Submit \/ Push
           \/ Said \/ Interrupted \/ Operator \/ UNCHANGED vars
BY DEF Next, Run, Operator

(* The lists a phase begins with are of its kind.                          *)
LEMMA Lists ==
    ASSUME StateOK
    PROVE  /\ <<>> \in Seq(Repo) /\ <<Root>> \in Seq(Repo)
           /\ NestedParents \in Seq(Repo)
           /\ Only(Declared, FoundUnpushed) \in Seq(Repo)
           /\ unpushed \cap New = {} => Only(Declared, unpushed) \in Seq(Repo)
           /\ Ordered(FoundChanged \cup FoundConsumers) \in Seq(Module)
           /\ Only(verified, Module \ consumers) \in Seq(Module)
<1>1. NestedParents \in Seq(Repo)
  <2>1. NestedParents \in Seq(Mounting) /\ Mounting \subseteq Repo
    BY NestedHolds, Members, Kinds
  <2> QED BY <2>1, SeqWider
<1>2. \A T : T \cap Module \subseteq Repo => Only(Declared, T) \in Seq(Repo)
  <2> SUFFICES ASSUME NEW T, T \cap Module \subseteq Repo
               PROVE  Only(Declared, T) \in Seq(Repo)
    OBVIOUS
  <2>1. /\ Only(Declared, T) \in Seq(Module)
        /\ Elements(Only(Declared, T)) = Elements(Declared) \cap T
    BY OnlyKeeps, DeclaredAll
  <2>2. Only(Declared, T) \in Seq(Elements(Only(Declared, T)))
    BY <2>1, Members
  <2>3. Elements(Only(Declared, T)) \subseteq Repo
    BY <2>1, DeclaredAll
  <2> QED BY <2>2, <2>3, SeqWider
<1>3. Only(Declared, FoundUnpushed) \in Seq(Repo)
  BY <1>2, Found, Kinds
<1>4. unpushed \cap New = {} => Only(Declared, unpushed) \in Seq(Repo)
  BY <1>2, Kinds
<1>5. Ordered(FoundChanged \cup FoundConsumers) \in Seq(Module)
  BY OrderedSorted, Found
<1>6. Only(verified, Module \ consumers) \in Seq(Module)
  <2>1. verified \in Seq(Module)
    BY StateParts DEF KeptOK
  <2> QED BY <2>1, OnlyKeeps
<1> QED BY <1>1, <1>3, <1>4, <1>5, <1>6, Kinds

(* No step disturbs what the run and the operator keep.                    *)
LEMMA KeptStep ==
    ASSUME StateOK, PhaseOK, [Next]_vars
    PROVE  KeptOK'
<1>0. KeptOK
  BY StateParts
<1>w. \A S \in {Repo, Module} : Seq(S) \subseteq Seq(Repo \cup New)
  BY Kinds
<1>1. CASE Publish
  <2>1. call' \subseteq {"Pin", "All", "NoVerify"}
    BY <1>1, PublishMakes, LandingAssumption
  <2>4. runs' \in 0..MaxRuns
    <3>1. runs \in 0..MaxRuns /\ MaxRuns \in Nat
      BY <1>0, LandingAssumption DEF KeptOK
    <3>2. runs < MaxRuns /\ runs' = runs + 1
      BY <1>1, PublishMakes
    <3> QED BY <3>1, <3>2
  <2>2. changed' \subseteq Module /\ unpushed' \subseteq Module
        /\ consumers' \subseteq Module /\ coded' \subseteq Module
    BY <1>1, PublishMakes, Found
  <2>3. todo' \in Seq(Repo \cup New)
    BY <1>1, <1>w, PublishMakes, Lists
  <2> QED BY <1>0, <1>1, <2>1, <2>2, <2>3, <2>4, PublishMakes DEF KeptOK
<1>2. CASE Verify
  <2>1. /\ todo \in Seq(Module) /\ todo # <<>>
    BY <1>2, VerifyMakes DEF PhaseOK
  <2>2. Head(todo) \in Module /\ Tail(todo) \in Seq(Repo \cup New)
    BY <2>1, <1>w, HeadTail
  <2>3. Append(verified, Head(todo)) \in Seq(Module)
    BY <1>0, <2>2 DEF KeptOK
  <2>4. verified' \in Seq(Module)
    BY <1>0, <1>2, <2>3, VerifyMakes DEF KeptOK
  <2>5. todo' \in Seq(Repo \cup New)
    <3>1. todo' = Tail(todo) \/ todo' = <<>>
      BY <1>2, VerifyMakes
    <3>2. <<>> \in Seq(Repo \cup New)
      OBVIOUS
    <3> QED BY <2>2, <3>1, <3>2
  <2>6. skipped' \subseteq Module
    BY <1>0, <1>2, <2>2, VerifyMakes DEF KeptOK
  <2>7. tested' \subseteq Repo \cup New
    <3>1. tested' = tested \/ tested' = tested \cup {Head(todo)}
      BY <1>2, VerifyMakes
    <3>2. tested \subseteq Repo \cup New
      BY <1>0 DEF KeptOK
    <3> QED BY <2>2, <3>1, <3>2, Kinds
  <2>8. late' \subseteq Repo \cup New
    BY <1>0, <1>2, VerifyMakes DEF KeptOK
  <2> QED BY <1>0, <1>2, <2>4, <2>5, <2>6, <2>7, <2>8, VerifyMakes DEF KeptOK
<1>3. CASE VerifyRoot
  <2>1. todo' \in Seq(Repo \cup New)
    BY <1>3, <1>w, VerifyRootMakes, Lists DEF PhaseOK
  <2>2. tested' \subseteq Repo \cup New
    BY <1>0, <1>3, VerifyRootMakes, Kinds DEF KeptOK
  <2> QED BY <1>0, <1>3, <2>1, <2>2, VerifyRootMakes DEF KeptOK
<1>4. CASE NextPhase
  <2>1. todo' \in Seq(Repo \cup New)
    BY <1>4, <1>w, NextPhaseMakes, Lists
  <2> QED BY <1>0, <1>4, <2>1, NextPhaseMakes DEF KeptOK
<1>5. CASE Submit
  <2>1. Head(todo) \in Repo /\ Tail(todo) \in Seq(Repo)
    BY <1>5, SubmitMakes, HeadRepo
  <2>2. todo' \in Seq(Repo \cup New) /\ pushing' \in BOOLEAN
    BY <1>0, <1>5, <1>w, <2>1, SubmitMakes DEF KeptOK
  <2>3. swept' \subseteq Repo \cup New
    BY <1>0, <1>5, <2>1, SubmitMakes DEF KeptOK, Swallowed
  <2> QED BY <1>0, <1>5, <2>2, <2>3, SubmitMakes DEF KeptOK
<1>6. CASE Push
  <2>1. Head(todo) \in Repo /\ Tail(todo) \in Seq(Repo)
    BY <1>6, PushMakes, HeadRepo
  <2>2. Append(landed, Head(todo)) \in Seq(Repo)
    BY <1>0, <2>1 DEF KeptOK
  <2>3. todo' \in Seq(Repo \cup New) /\ landed' \in Seq(Repo)
    BY <1>0, <1>6, <1>w, <2>1, <2>2, PushMakes, Lists DEF KeptOK
  <2> QED BY <1>0, <1>6, <2>3, PushMakes DEF KeptOK
<1>7. CASE Said \/ Interrupted
  BY <1>0, <1>7, <1>w, EndMakes, Lists DEF KeptOK
<1>8. CASE Operator
  <2>1. edits' \in 0..MaxEdits
    BY <1>0, <1>8, OperatorMakes, LandingAssumption DEF KeptOK
  <2> QED BY <1>0, <1>8, <2>1, OperatorMakes DEF KeptOK
<1>9. CASE UNCHANGED vars
  BY <1>0, <1>9 DEF KeptOK, vars
<1> QED BY <1>1, <1>2, <1>3, <1>4, <1>5, <1>6, <1>7, <1>8, <1>9, Steps

(* No step disturbs the phases.                                            *)
LEMMA PhaseStep ==
    ASSUME IInv, [Next]_vars
    PROVE  PhaseOK'
<1>0. StateOK /\ PhaseOK /\ FoundOK
  BY DEF IInv
<1> USE DEF PhaseOK, After, FailurePushesNothing
<1>1. CASE Publish
  <2>1. unpushed' \cap New = {}
    BY <1>0, <1>1, PublishMakes, Found
  <2>2. CASE pc' = "idle"
    BY <1>1, <2>1, <2>2, PublishMakes
  <2>3. CASE pc' # "idle"
    BY <1>0, <1>1, <2>1, <2>3, PublishMakes, Lists
  <2> QED BY <2>2, <2>3
<1>2. CASE Verify
  <2>1. todo \in Seq(Module) /\ todo # <<>>
    BY <1>0, <1>2, VerifyMakes
  <2>2. Tail(todo) \in Seq(Module)
    BY <2>1, HeadTail
  <2>3. /\ origin' = began' /\ call' = call /\ unpushed' = unpushed
        /\ "Pin" \notin call /\ ~pushing /\ unpushed \cap New = {}
    BY <1>0, <1>2, VerifyMakes
  <2>4. CASE pc' = "idle"
    BY <1>2, <2>3, <2>4, VerifyMakes
  <2>5. CASE pc' # "idle"
    <3>1. todo' = Tail(todo) /\ pc' = pc /\ outcome' = outcome /\ pushing' = pushing
      BY <1>2, <2>5, VerifyMakes
    <3>2. pc = "verify" /\ outcome = "none"
      BY <1>0, <1>2, VerifyMakes
    <3> QED BY <2>2, <2>3, <3>1, <3>2
  <2> QED BY <2>4, <2>5
<1>3. CASE VerifyRoot
  <2>1. /\ origin' = began' /\ unpushed' = unpushed /\ unpushed \cap New = {}
        /\ ~pushing
    BY <1>0, <1>3, VerifyRootMakes
  <2>2. CASE pc' = "idle"
    BY <1>3, <2>1, <2>2, VerifyRootMakes
  <2>3. CASE pc' # "idle"
    <3>1. todo' \in Seq(Repo)
      BY <1>0, <1>3, <2>1, <2>3, VerifyRootMakes, Lists
    <3>2. pc' = "unpushed" /\ outcome' = outcome /\ pushing' = pushing
      BY <1>3, <2>3, VerifyRootMakes
    <3>3. outcome = "none"
      BY <1>0, <1>3, VerifyRootMakes
    <3> QED BY <2>1, <3>1, <3>2, <3>3
  <2> QED BY <2>2, <2>3
<1>4. CASE NextPhase
  <2>1. ~pushing /\ pc # "verify" /\ pc' # "verify"
    BY <1>0, <1>4, NextPhaseMakes
  <2>2. pc' \in After => todo' \in Seq(Repo)
    <3>1. CASE pc' = "submit"
      <4>1. pc = "unpushed" /\ "Pin" \notin call
            /\ todo' = Only(verified, Module \ consumers)
        BY <1>4, <3>1, NextPhaseMakes
      <4>2. /\ Elements(verified) \subseteq changed \cup consumers
            /\ changed \cap New = {}
        BY <1>0, <4>1 DEF FoundOK
      <4>3. verified \in Seq(Module) /\ changed \subseteq Module
        BY <1>0, StateParts DEF KeptOK
      <4>4. Elements(todo') = Elements(verified) \cap (Module \ consumers)
        BY <4>1, <4>3, OnlyKeeps
      <4>5. Elements(todo') \subseteq Repo
        BY <4>2, <4>3, <4>4, Kinds
      <4>6. todo' \in Seq(Elements(todo'))
        <5>1. Only(verified, Module \ consumers) \in Seq(Module)
          BY <1>0, Lists
        <5> QED BY <5>1, <4>1, Members
      <4> QED BY <4>5, <4>6, SeqWider
    <3>2. CASE pc' # "submit"
      BY <1>0, <1>4, <3>2, NextPhaseMakes, Lists
    <3> QED BY <3>1, <3>2
  <2> QED BY <1>0, <1>4, <2>1, <2>2, NextPhaseMakes
<1>5. CASE Submit
  <2>1. Tail(todo) \in Seq(Repo) /\ todo \in Seq(Repo)
    BY <1>0, <1>5, SubmitMakes, HeadRepo
  <2> QED BY <1>0, <1>5, <2>1, SubmitMakes
<1>6. CASE Push
  <2>1. Tail(todo) \in Seq(Repo)
    BY <1>0, <1>6, PushMakes, HeadRepo
  <2>2. pc # "verify" /\ pc \in After
    BY <1>0, <1>6, PushMakes
  <2> QED BY <1>0, <1>6, <2>1, <2>2, PushMakes
<1>7. CASE Said \/ Interrupted
  <2>1. pushing' => FALSE
    BY <1>0, <1>7, EndMakes
  <2> QED BY <1>0, <1>7, <2>1, EndMakes
<1>8. CASE Operator
  BY <1>0, <1>8, OperatorMakes
<1>9. CASE UNCHANGED vars
  BY <1>0, <1>9 DEF vars
<1> QED BY <1>1, <1>2, <1>3, <1>4, <1>5, <1>6, <1>7, <1>8, <1>9, Steps

(* No step disturbs what was found.                                        *)
LEMMA FoundStep ==
    ASSUME IInv, [Next]_vars
    PROVE  FoundOK'
<1>0. StateOK /\ PhaseOK /\ FoundOK /\ KeptOK
  BY StateParts DEF IInv
<1> USE DEF After
<1> SUFFICES ASSUME pc' \in After \cup {"verify", "done"}, "Pin" \notin call'
             PROVE  /\ coded' \subseteq changed'
                    /\ consumers' = Consumers(coded') \ changed'
                    /\ changed' \cup consumers' = Elements(verified') \cup skipped'
                          \cup (IF pc' = "verify" THEN Elements(todo') ELSE {})
                    /\ pc' # "verify" => changed' \cap New = {}
  BY DEF FoundOK
<1>1. CASE Publish
  <2>1. /\ pc' = "verify" /\ Elements(todo') = FoundChanged \cup FoundConsumers
        /\ changed' = FoundChanged /\ consumers' = FoundConsumers
        /\ coded' = FoundCoded /\ verified' = <<>> /\ skipped' = {}
    BY <1>1, PublishMakes
  <2>2. Elements(<<>>) = {}
    BY DEF Elements
  <2> QED BY <1>0, <2>1, <2>2, Found
<1>2. CASE Verify
  <2>1. /\ pc = "verify" /\ todo \in Seq(Module) /\ todo # <<>>
        /\ verified \in Seq(Module)
    BY <1>0, <1>2, VerifyMakes DEF PhaseOK, KeptOK
  <2>2. /\ Elements(todo) = {Head(todo)} \cup Elements(Tail(todo))
        /\ Head(todo) \in Module
    BY <2>1, HeadTail
  <2>3. Elements(Append(verified, Head(todo))) = Elements(verified) \cup {Head(todo)}
    BY <2>1, <2>2, Members
  <2>4. /\ pc' = "verify" /\ todo' = Tail(todo)
        /\ \/ verified' = Append(verified, Head(todo)) /\ skipped' = skipped
           \/ verified' = verified /\ skipped' = skipped \cup {Head(todo)}
        /\ UNCHANGED <<call, changed, consumers, coded>>
    BY <1>2, VerifyMakes
  <2>5. /\ coded \subseteq changed /\ consumers = Consumers(coded) \ changed
        /\ changed \cup consumers = Elements(verified) \cup skipped \cup Elements(todo)
    BY <1>0, <2>1, <2>4 DEF FoundOK
  <2>6. Elements(verified') \cup skipped'
            = Elements(verified) \cup skipped \cup {Head(todo)}
    BY <2>3, <2>4
  <2> QED BY <2>2, <2>4, <2>5, <2>6
<1>3. CASE VerifyRoot
  <2>1. /\ pc = "verify" /\ todo = <<>> /\ pc' = "unpushed" /\ changed \cap New = {}
        /\ UNCHANGED <<call, changed, consumers, coded, verified, skipped>>
    BY <1>3, VerifyRootMakes
  <2>2. Elements(<<>>) = {}
    BY DEF Elements
  <2>3. /\ coded \subseteq changed /\ consumers = Consumers(coded) \ changed
        /\ changed \cup consumers = Elements(verified) \cup skipped \cup Elements(todo)
    BY <1>0, <2>1 DEF FoundOK
  <2> QED BY <2>1, <2>2, <2>3
<1>4. CASE ~(Publish \/ Verify \/ VerifyRoot)
  <2>1. /\ UNCHANGED <<call, changed, consumers, coded, verified, skipped>>
        /\ pc \in After \cup {"done"} /\ pc' # "verify"
        \/ UNCHANGED <<call, changed, consumers, coded, verified, skipped, pc, todo>>
    <3>1. CASE NextPhase
      BY <3>1, NextPhaseMakes
    <3>2. CASE Submit
      BY <3>2, SubmitMakes
    <3>3. CASE Push
      BY <1>0, <3>3, PushMakes DEF PhaseOK
    <3>4. CASE Said \/ Interrupted
      BY <3>4, EndMakes
    <3>5. CASE Operator
      BY <3>5, OperatorMakes
    <3>6. CASE UNCHANGED vars
      BY <3>6 DEF vars
    <3> QED BY <1>4, <3>1, <3>2, <3>3, <3>4, <3>5, <3>6, Steps
  <2>2. pc \in After \cup {"verify", "done"} /\ "Pin" \notin call
    BY <2>1
  <2>3. /\ coded \subseteq changed /\ consumers = Consumers(coded) \ changed
        /\ changed \cup consumers = Elements(verified) \cup skipped
              \cup (IF pc = "verify" THEN Elements(todo) ELSE {})
        /\ pc # "verify" => changed \cap New = {}
    BY <1>0, <2>2 DEF FoundOK
  <2> QED BY <2>1, <2>3
<1> QED BY <1>1, <1>2, <1>3, <1>4

(* A sorted sequence stays sorted with an element left out, or only some.  *)
LEMMA SortedWithout ==
    ASSUME NEW S, NEW s \in Seq(S), NEW t \in Seq(S), t # <<>>, Sorted(s \o t)
    PROVE  Sorted(s \o Tail(t)) /\ Sorted(s)
<1> DEFINE u == Tail(t)
           a == s \o t
           b == s \o u
<1>1. /\ u \in Seq(S) /\ Len(t) \in Nat /\ Len(u) = Len(t) - 1
      /\ \A i \in 1..Len(u) : i + 1 \in 1..Len(t) /\ u[i] = t[i + 1]
  BY HeadTail
<1> HIDE DEF u
<1>2. /\ \A i \in 1..Len(s) : i \in 1..Len(a) /\ a[i] = s[i]
      /\ \A i \in 1..Len(t) : Len(s) + i \in 1..Len(a) /\ a[Len(s) + i] = t[i]
  BY Concat
<1>3. /\ \A i \in 1..Len(s) : i \in 1..Len(b) /\ b[i] = s[i]
      /\ \A i \in 1..Len(u) : Len(s) + i \in 1..Len(b) /\ b[Len(s) + i] = u[i]
      /\ \A i \in 1..Len(b) : i \in 1..Len(s) \/ \E k \in 1..Len(u) : i = Len(s) + k
  <2>1. u \in Seq(S)
    BY <1>1
  <2> QED BY <2>1, Concat
<1>4. Len(s) \in Nat /\ Sorted(a)
  OBVIOUS
<1> HIDE DEF a, b
<1> DEFINE at(i) == IF i \in 1..Len(s) THEN i ELSE i + 1
<1>5. ASSUME NEW i \in 1..Len(b) PROVE at(i) \in 1..Len(a) /\ a[at(i)] = b[i]
  <2>1. CASE i \in 1..Len(s)
    BY <2>1, <1>2, <1>3
  <2>2. CASE \E k \in 1..Len(u) : i = Len(s) + k
    <3>1. PICK k \in 1..Len(u) : i = Len(s) + k
      BY <2>2
    <3>2. i \notin 1..Len(s) /\ i + 1 = Len(s) + (k + 1)
      BY <3>1, <1>4
    <3>3. k + 1 \in 1..Len(t) /\ u[k] = t[k + 1] /\ b[i] = u[k]
      BY <3>1, <1>1, <1>3
    <3>4. i + 1 \in 1..Len(a) /\ a[i + 1] = t[k + 1]
      BY <3>2, <3>3, <1>2
    <3> QED BY <3>2, <3>3, <3>4
  <2> QED BY <2>1, <2>2, <1>3
<1>6. \A i, j \in 1..Len(b) : i < j => at(i) < at(j)
  BY <1>4
<1>7. Sorted(b)
  <2> HIDE DEF at
  <2> SUFFICES ASSUME NEW i \in 1..Len(b), NEW j \in 1..Len(b), i < j
               PROVE  b[j] \notin Builds[b[i]] \ {b[i]}
    BY DEF Sorted
  <2>1. at(i) < at(j) /\ at(i) \in 1..Len(a) /\ at(j) \in 1..Len(a)
    BY <1>5, <1>6
  <2>2. a[at(j)] \notin Builds[a[at(i)]] \ {a[at(i)]}
    BY <2>1, <1>4 DEF Sorted
  <2> QED BY <2>2, <1>5
<1>8. Sorted(s)
  BY <1>2, <1>4 DEF Sorted
<1> QED BY <1>7, <1>8 DEF b, u

(* What is kept of a sorted list is sorted.                                *)
LEMMA SortedOnly ==
    ASSUME NEW S, NEW s \in Seq(S), NEW T, Sorted(s)
    PROVE  Sorted(Only(s, T))
<1> DEFINE o == Only(s, T)
<1>1. \A i, j \in 1..Len(o) : i < j =>
         \E k, l \in 1..Len(s) : k < l /\ s[k] = o[i] /\ s[l] = o[j]
  BY OnlyKeeps
<1> HIDE DEF o
<1> SUFFICES ASSUME NEW i \in 1..Len(o), NEW j \in 1..Len(o), i < j
             PROVE  o[j] \notin Builds[o[i]] \ {o[i]}
  BY DEF Sorted, o
<1>2. PICK k \in 1..Len(s), l \in 1..Len(s) : k < l /\ s[k] = o[i] /\ s[l] = o[j]
  BY <1>1
<1> QED BY <1>2 DEF Sorted

(* Moving the first of t to the end of s changes nothing of s \o t.        *)
LEMMA Shift ==
    ASSUME NEW S, NEW s \in Seq(S), NEW t \in Seq(S)
    PROVE  /\ t # <<>> => Append(s, Head(t)) \o Tail(t) = s \o t
           /\ s \o <<>> = s /\ <<>> \o s = s
           /\ Sorted(s \o t) => Sorted(s)
<1>1. ASSUME t # <<>> PROVE Append(s, Head(t)) \o Tail(t) = s \o t
  <2>1. Head(t) \in S /\ Tail(t) \in Seq(S)
    BY <1>1, HeadTail
  <2> QED BY <1>1, <2>1
<1>2. s \o <<>> = s /\ <<>> \o s = s
  OBVIOUS
<1>3. ASSUME Sorted(s \o t) PROVE Sorted(s)
  <2>1. \A i \in 1..Len(s) : i \in 1..Len(s \o t) /\ (s \o t)[i] = s[i]
    BY Concat
  <2> QED BY <2>1, <1>3 DEF Sorted
<1> QED BY <1>1, <1>2, <1>3

(* No step disturbs the order.                                             *)
LEMMA OrderStep ==
    ASSUME IInv, [Next]_vars
    PROVE  OrderOK'
<1>0. StateOK /\ PhaseOK /\ OrderOK /\ KeptOK
  BY StateParts DEF IInv
<1>e. Sorted(<<>>)
  BY DEF Sorted
<1>1. CASE Publish
  <2>1. landed' = <<>> /\ verified' = <<>>
    BY <1>1, PublishMakes
  <2>2. CASE pc' = "verify"
    <3>1. todo' = Ordered(FoundChanged \cup FoundConsumers)
      BY <1>1, <2>2, PublishMakes
    <3>2. todo' \in Seq(Module) /\ Sorted(todo')
      BY <1>0, <3>1, Found, OrderedSorted
    <3>3. <<>> \o todo' = todo'
      BY <3>2, Shift
    <3> QED BY <1>e, <2>1, <2>2, <3>2, <3>3 DEF OrderOK
  <2>3. CASE pc' # "verify"
    BY <1>1, <1>e, <2>1, <2>3, PublishMakes DEF OrderOK
  <2> QED BY <2>2, <2>3
<1>2. CASE Verify
  <2>1. /\ pc = "verify" /\ todo \in Seq(Module) /\ todo # <<>>
        /\ verified \in Seq(Module) /\ Sorted(verified \o todo) /\ landed' = <<>>
    BY <1>0, <1>2, VerifyMakes DEF PhaseOK, KeptOK, OrderOK
  <2>2. CASE pc' = "idle"
    BY <1>e, <2>1, <2>2 DEF OrderOK
  <2>3. CASE pc' # "idle" /\ verified' = verified
    <3>1. pc' = "verify" /\ todo' = Tail(todo)
      BY <1>2, <2>1, <2>3, VerifyMakes
    <3>2. Sorted(verified \o Tail(todo))
      BY <2>1, SortedWithout
    <3> QED BY <1>e, <2>1, <2>3, <3>1, <3>2 DEF OrderOK
  <2>4. CASE pc' # "idle" /\ verified' = Append(verified, Head(todo))
    <3>1. pc' = "verify" /\ todo' = Tail(todo)
      BY <1>2, <2>1, <2>4, VerifyMakes
    <3>2. Append(verified, Head(todo)) \o Tail(todo) = verified \o todo
      BY <2>1, Shift
    <3> QED BY <1>e, <2>1, <2>4, <3>1, <3>2 DEF OrderOK
  <2> QED BY <1>2, <2>2, <2>3, <2>4, VerifyMakes
<1>3. CASE VerifyRoot
  <2>1. /\ pc = "verify" /\ todo = <<>> /\ verified \in Seq(Module)
        /\ landed' = <<>> /\ Sorted(verified \o todo) /\ verified' = verified
        /\ pc' \in {"idle", "unpushed"}
    BY <1>0, <1>3, VerifyRootMakes DEF KeptOK, OrderOK
  <2>2. Sorted(verified)
    BY <2>1, Shift
  <2> QED BY <1>e, <2>1, <2>2 DEF OrderOK
<1>4. CASE NextPhase
  <2>1. landed' = landed /\ Sorted(landed)
    BY <1>0, <1>4, NextPhaseMakes DEF OrderOK
  <2>2. CASE pc' = "submit"
    <3>1. /\ landed = <<>> /\ Sorted(verified) /\ verified \in Seq(Module)
          /\ todo' = Only(verified, Module \ consumers)
      BY <1>0, <1>4, <2>2, NextPhaseMakes DEF KeptOK, OrderOK
    <3>2. Sorted(todo') /\ todo' \in Seq(Module)
      BY <3>1, SortedOnly, OnlyKeeps
    <3>3. <<>> \o todo' = todo'
      BY <3>2, Shift
    <3> QED BY <2>1, <2>2, <3>1, <3>2, <3>3 DEF OrderOK
  <2>3. CASE pc' # "submit"
    BY <1>4, <2>1, <2>3, NextPhaseMakes DEF OrderOK
  <2> QED BY <2>2, <2>3
<1>5. CASE Submit
  <2>1. /\ landed' = landed /\ Sorted(landed) /\ pc' = pc
        /\ pc \in {"submit", "nested", "pin"} /\ todo # <<>>
        /\ todo' = todo \/ todo' = Tail(todo)
    BY <1>0, <1>5, SubmitMakes DEF OrderOK
  <2>2. landed \in Seq(Repo) /\ todo \in Seq(Repo)
    BY <1>0, <2>1, HeadRepo DEF KeptOK
  <2>3. CASE pc = "submit"
    <3>1. Sorted(landed \o todo) /\ Sorted(landed \o Tail(todo))
      BY <1>0, <2>1, <2>2, <2>3, SortedWithout DEF OrderOK
    <3> QED BY <2>1, <2>3, <3>1 DEF OrderOK
  <2>4. CASE pc # "submit"
    BY <2>1, <2>4 DEF OrderOK
  <2> QED BY <2>3, <2>4
<1>6. CASE Push
  <2>1. landed \in Seq(Repo) /\ todo \in Seq(Repo) /\ todo # <<>>
    BY <1>0, <1>6, PushMakes, HeadRepo DEF KeptOK
  <2>2. Head(todo) \in Repo /\ Tail(todo) \in Seq(Repo)
    BY <2>1, HeadTail
  <2>3. CASE landed' = landed /\ pc' # "submit"
    <3>1. pc' = pc \/ pc' = "idle"
      BY <1>6, PushMakes
    <3>2. verified' = verified
      BY <1>6, PushMakes
    <3>3. pc # "verify"
      BY <1>0, <1>6, PushMakes DEF PhaseOK
    <3> QED BY <1>0, <2>3, <3>1, <3>2, <3>3 DEF OrderOK
  <2>4. CASE ~(landed' = landed /\ pc' # "submit")
    <3>1. /\ pc = "submit" /\ pc' = "submit" /\ todo' = Tail(todo)
          /\ landed' = Append(landed, Head(todo))
      BY <1>6, <2>4, PushMakes
    <3>2. landed' \o todo' = landed \o todo /\ landed' \in Seq(Repo)
      <4>1. Append(landed, Head(todo)) \o Tail(todo) = landed \o todo
        BY <2>1, Shift
      <4>2. Append(landed, Head(todo)) \in Seq(Repo)
        BY <2>1, <2>2, Members
      <4> QED BY <3>1, <4>1, <4>2
    <3>3. Sorted(landed' \o todo')
      BY <1>0, <3>1, <3>2 DEF OrderOK
    <3>4. Sorted(landed')
      BY <2>2, <3>1, <3>2, <3>3, Shift
    <3> QED BY <3>1, <3>3, <3>4 DEF OrderOK
  <2> QED BY <2>3, <2>4
<1>7. CASE Said \/ Interrupted
  BY <1>0, <1>7, EndMakes DEF OrderOK
<1>8. CASE Operator
  BY <1>0, <1>8, OperatorMakes DEF OrderOK
<1>9. CASE UNCHANGED vars
  BY <1>0, <1>9 DEF OrderOK, vars
<1> QED BY <1>1, <1>2, <1>3, <1>4, <1>5, <1>6, <1>7, <1>8, <1>9, Steps

(* The estate as it is cloned.                                             *)
LEMMA Begins == ASSUME Init PROVE IInv
<1>0. /\ \A r \in Repo : Child[r] \subseteq Repo
      /\ \A r \in Repo : [c \in Child[r] |-> 1] \in [Child[r] -> Nat]
  BY DEF Child, Repo
<1>1. /\ log = [r \in Repo |-> log[r]]
      /\ \A r \in Repo : log[r] \in Seq([Child[r] -> Nat]) /\ Len(log[r]) = 1
                         /\ log[r] # <<>>
  BY <1>0 DEF Init
<1>2. EstateOK
  <2>1. /\ files \in [Repo \cup New -> SUBSET Kind] /\ branch \in [Repo -> Branch]
        /\ origin \in [Repo -> Nat] /\ began = origin
        /\ \A r \in Repo : origin[r] = 1
    BY DEF Init
  <2>2. ASSUME NEW r \in Repo
        PROVE  began[r] <= origin[r] /\ origin[r] <= Len(log[r])
    <3>1. origin[r] = 1 /\ began[r] = 1 /\ Len(log[r]) = 1
      BY <1>1, <2>1
    <3> QED BY <3>1
  <2> QED BY <1>1, <2>1, <2>2 DEF EstateOK, Tip
<1>3. KeptOK
  <2>1. 0 \in 0..MaxEdits /\ 0 \in 0..MaxRuns
    BY LandingAssumption
  <2>2. <<>> \in Seq(Repo \cup New) /\ <<>> \in Seq(Module) /\ <<>> \in Seq(Repo)
    OBVIOUS
  <2> QED BY <2>1, <2>2 DEF Init, KeptOK
<1>4. StateOK
  BY <1>2, <1>3, StateParts
<1>5. PhaseOK /\ FoundOK
  BY DEF Init, PhaseOK, FoundOK, FailurePushesNothing, After
<1>6. OrderOK
  BY DEF Init, OrderOK, Sorted
<1> QED BY <1>4, <1>5, <1>6 DEF IInv

(* Every step of a landing, and of the operator at any moment of it, keeps *)
(* the invariant: the types, that what a phase has to do is of its kind,   *)
(* that all that was found is verified, skipped or to do, and the order.   *)
THEOREM LandingIInvariant == Spec => []IInv
<1>1. Init => IInv
  BY Begins
<1>2. IInv /\ [Next]_vars => IInv'
  <2> SUFFICES ASSUME IInv, [Next]_vars PROVE IInv'
    OBVIOUS
  <2>1. EstateOK' /\ KeptOK'
    BY EstateStep, KeptStep DEF IInv
  <2>2. StateOK'
    BY <2>1, StateParts DEF StateOK, EstateOK, KeptOK, TypeOK
  <2> QED BY <2>2, PhaseStep, FoundStep, OrderStep DEF IInv
<1> QED BY <1>1, <1>2, PTL DEF Spec

(* The core of a landing's state, for every estate: origin is only ever at *)
(* a commit its repository has, and a run that failed to verify, or that   *)
(* was refused, has pushed nothing (Publish-XmipChange.ps1,                *)
(* Test-XmipChangeTree.ps1).                                               *)
THEOREM LandingInvariant == Spec => []LandingInv
<1>1. IInv => LandingInv
  BY DEF IInv, StateOK, PhaseOK, LandingInv
<1> QED BY <1>1, LandingIInvariant, PTL

(* Nothing is submitted before what Cargo builds it on, whatever the       *)
(* modules and their dependencies (Sort-XmipModuleDependency).             *)
THEOREM BuildsLandFirst == Spec => []DependenciesLandFirst
<1>1. IInv => DependenciesLandFirst
  <2> SUFFICES ASSUME IInv, NEW i \in DOMAIN landed, NEW j \in DOMAIN landed,
                      landed[j] \in Builds[landed[i]] \ {landed[i]}
               PROVE  j < i
    BY DEF DependenciesLandFirst
  <2>1. landed \in Seq(Repo) /\ Sorted(landed)
    BY StateParts DEF IInv, KeptOK, OrderOK
  <2>2. i \in 1..Len(landed) /\ j \in 1..Len(landed) /\ Len(landed) \in Nat
    BY <2>1
  <2>3. ~(i < j) /\ i # j
    BY <2>1, <2>2 DEF Sorted
  <2> QED BY <2>2, <2>3
<1> QED BY <1>1, LandingIInvariant, PTL

(* What lands with changed code has had everything that uses it, however   *)
(* far away, verified or reported as skipped (Get-XmipModuleConsumer).     *)
THEOREM UsersAreChecked == Spec => []ConsumersChecked
<1>1. IInv => ConsumersChecked
  <2> SUFFICES ASSUME IInv, pc = "done", "Pin" \notin call,
                      NEW m \in Elements(landed) \cap coded
               PROVE  Users(m) \subseteq Elements(verified) \cup skipped
    BY DEF ConsumersChecked
  <2>1. /\ coded \subseteq changed /\ consumers = Consumers(coded) \ changed
        /\ changed \cup consumers = Elements(verified) \cup skipped
    BY DEF IInv, FoundOK
  <2>2. coded \in SUBSET Module /\ m \in Module
    BY StateParts DEF IInv, KeptOK
  <2> DEFINE C == coded \cup Consumers(coded)
  <2>3. /\ C \in SUBSET Module /\ m \in C
        /\ \A n \in Module : Uses(n) \cap C # {} => n \in C
    BY <2>2, ConsumersClosed
  <2>4. Users(m) \subseteq C
    <3> HIDE DEF C
    <3> QED BY <2>2, <2>3, UsersWithin
  <2> QED BY <2>1, <2>4
<1> QED BY <1>1, LandingIInvariant, PTL

------------------------------------------------------------------------------
(* What a run keeps where the operator waits for it, nothing is skipped    *)
(* and -Pin is not used.                                                   *)
Calm ==
    /\ Meanwhile = FALSE
    /\ \A c \in Calls : /\ "Pin" \notin c
                        /\ "All" \in c \/ "NoVerify" \in c \/ Verifiable = Module

(* A run has switches the operator calls with, and skips nothing.          *)
CallOK ==
    /\ pc # "idle" => call \in Calls
    /\ "Pin" \notin call /\ skipped = {}

(* No gitlink is ahead of the module it names.                             *)
PinsOK ==
    \A r \in Repo : \A i \in 1..Tip(r), c \in Child[r] : log[r][i][c] \in 1..Tip(c)

(* Origin lacks a commit of r; r has something to commit; r has neither,   *)
(* and its gitlinks are where their modules are.                           *)
Behind(r) == origin[r] < Tip(r)
Stale(r) == files[r] # {} \/ Moved(r) # {}
Whole(r) == origin[r] = Tip(r) /\ Moved(r) = {} /\ files[r] = {}

(* What was found still stands until the first commit, and whatever is     *)
(* behind was found.                                                       *)
KnownOK ==
    /\ pc \in {"verify", "unpushed"} => changed = FoundChanged
    /\ pc = "verify" =>
          \A r \in Repo \ {Root} : Behind(r) => Changed(r) \/ r \in unpushed
    /\ pc = "unpushed" =>
          /\ todo \in Seq(Repo \ {Root})
          /\ \A r \in Repo \ {Root} : Behind(r) => Changed(r) \/ r \in Elements(todo)
    /\ pc \in After => \A n \in New : files[n] = {}

(* Whatever is behind has something to commit under it, or is being pushed.*)
Rises ==
    /\ todo \in Seq(Repo \ {Root})
    /\ pushing => ~Stale(Head(todo))
    /\ \A r \in Repo \ {Root} : Behind(r) =>
          \/ \E s \in Under(r) : Stale(s)
          \/ pushing /\ r = Head(todo)

(* Every file left is in a module still to submit.                         *)
SubmitOK ==
    pc = "submit" =>
        /\ Rises
        /\ \A s \in Repo \ {Root} : files[s] # {} => s \in Elements(todo)

(* Every gitlink left is in a nested parent still to do, deepest first.    *)
NestedOK ==
    pc = "nested" =>
        /\ Rises /\ DeepFirst(todo)
        /\ \A s \in Repo \ {Root} : /\ files[s] = {}
                                    /\ Moved(s) # {} => s \in Elements(todo)

(* The platform is pinned when all under it is whole.                      *)
PinOK ==
    /\ pc = "pin" => /\ \A r \in Repo \ {Root} : Whole(r)
                     /\ todo = <<Root>> \/ todo = <<>>
                     /\ pushing => ~Stale(Root)
                     /\ todo = <<>> => Whole(Root)
    /\ pc = "done" => \A r \in Repo : Whole(r)

(* A set of commits on origin that has the platform's main and whatever a  *)
(* member pins.                                                            *)
Covers(G) ==
    /\ <<Root, origin[Root]>> \in G
    /\ \A a \in G : /\ a[1] \in Repo /\ a[2] \in 1..origin[a[1]]
                    /\ \A c \in Child[a[1]] : <<c, log[a[1]][a[2]][c]>> \in G

(* There is such a set: a fresh clone finds what it asks for.              *)
Cloneable == \E G : Covers(G)

(* The inductive invariant of a calm landing, beside IInv.                 *)
CalmInv ==
    /\ CallOK /\ PinsOK /\ KnownOK /\ SubmitOK /\ NestedOK /\ PinOK
    /\ Cloneable

(* Numbers of a repository.                                                *)
LEMMA Numbers ==
    ASSUME StateOK, NEW r \in Repo
    PROVE  /\ Tip(r) \in Nat /\ Tip(r) # 0 /\ origin[r] \in Nat /\ origin[r] <= Tip(r)
           /\ log[r] \in Seq([Child[r] -> Nat]) /\ Child[r] \subseteq Repo
           /\ \A c \in Child[r] : c \in Module \ New /\ Parent[c] = r
<1>1. /\ log[r] \in Seq([Child[r] -> Nat]) /\ log[r] # <<>> /\ origin[r] \in Nat
      /\ origin[r] <= Tip(r)
  BY StateParts DEF EstateOK
<1>2. Tip(r) \in Nat /\ Tip(r) # 0
  BY <1>1 DEF Tip
<1>3. Child[r] \subseteq Repo /\ \A c \in Child[r] : c \in Module \ New /\ Parent[c] = r
  BY DEF Child, Repo
<1> QED BY <1>1, <1>2, <1>3

(* Nothing mounts itself, and nothing mounts Root.                         *)
LEMMA NoSelf ==
    ASSUME NEW r \in Repo
    PROVE  r \notin Child[r] /\ Root \notin Child[r]
<1>1. \A c \in Child[r] : c \in Module \ New /\ Parent[c] = r
  BY DEF Child
<1>2. Root \notin Child[r]
  BY <1>1, Kinds
<1>3. ASSUME r \in Child[r] PROVE FALSE
  <2>1. r \in Module \ New /\ Parent[r] = r /\ r # Root
    BY <1>1, <1>2, <1>3
  <2>2. Depth(r) < Depth(r) /\ Depth(r) \in Nat
    BY <2>1, Deeper, DepthRange, RepoFinite, FS_CardinalityType
  <2> QED BY <2>2
<1> QED BY <1>2, <1>3

(* What counts as changed of a module depends on no file of the platform's.*)
LEMMA ChangedKeep ==
    ASSUME log' = log, \A f \in (Repo \cup New) \ {Root} : files'[f] = files[f]
    PROVE  /\ \A m \in Module : Changed(m)' <=> Changed(m)
           /\ \A r \in Repo : Moved(r)' = Moved(r) /\ Tip(r)' = Tip(r)
           /\ FoundChanged' = FoundChanged
<1>1. \A r \in Repo : Moved(r)' = Moved(r) /\ Tip(r)' = Tip(r)
  BY DEF Moved, Tip, Pinned
<1>2. \A n \in New : files'[n] = files[n]
  BY Kinds
<1>3. \A r \in Repo : Swallowed(r)' = Swallowed(r)
  BY <1>2 DEF Swallowed
<1>4. ASSUME NEW m \in Module PROVE Changed(m)' <=> Changed(m)
  <2>1. CASE m \in New
    BY <1>2, <2>1 DEF Changed
  <2>2. CASE m \notin New
    <3>1. m \in Repo /\ m # Root
      BY <2>2, Kinds
    <3>2. \A r \in Under(m) : r \in Repo /\ r # Root
      BY <3>1, UnderHolds, RootAbove
    <3>3. \A r \in Under(m) : /\ files'[r] = files[r] /\ Moved(r)' = Moved(r)
                              /\ Swallowed(r)' = Swallowed(r)
      BY <3>2, <1>1, <1>3
    <3> QED BY <2>2, <3>3 DEF Changed
  <2> QED BY <2>1, <2>2
<1>5. FoundChanged' = FoundChanged
  BY <1>4 DEF FoundChanged
<1> QED BY <1>1, <1>4, <1>5

(* What a file of its own, or a commit below, means for a repository.      *)
LEMMA ChangedBy ==
    ASSUME NEW m \in Module
    PROVE  /\ files[m] # {} => Changed(m)
           /\ (m \notin New /\ \A n \in New : files[n] = {}) =>
                 (Changed(m) <=> \E s \in Under(m) : Stale(s))
<1>1. ASSUME files[m] # {} PROVE Changed(m)
  <2>1. m \notin New => m \in Under(m)
    BY Kinds, UnderHolds
  <2> QED BY <1>1, <2>1 DEF Changed
<1>2. ASSUME m \notin New, \A n \in New : files[n] = {}
      PROVE  Changed(m) <=> \E s \in Under(m) : Stale(s)
  <2>1. \A r : Swallowed(r) = {}
    BY <1>2 DEF Swallowed
  <2> QED BY <1>2, <2>1 DEF Changed, Stale
<1> QED BY <1>1, <1>2

(* What a commit does to the gitlinks.                                     *)
LEMMA CommitMoves ==
    ASSUME StateOK, PinsOK, NEW h \in Repo, CommitAll(h)
    PROVE  /\ Moved(h)' = {} /\ files'[h] = {}
           /\ \A s \in Repo : s # h => /\ Moved(s) # {} => Moved(s)' # {}
                                       /\ Moved(s)' \subseteq Moved(s) \cup {h}
                                       /\ Tip(s)' = Tip(s)
           /\ Tip(h)' = Tip(h) + 1
           /\ h # Root => h \in Moved(Parent[h])'
           /\ PinsOK'
<1>1. /\ \A x \in Repo : x # h => log'[x] = log[x]
      /\ log'[h] = Append(log[h], [c \in Child[h] |-> Tip(c)])
      /\ \A x \in Repo : /\ Tip(x) \in Nat /\ Tip(x) # 0
                         /\ Len(log'[x]) = IF x = h THEN Tip(x) + 1 ELSE Tip(x)
                         /\ \A i \in 1..Tip(x) : log'[x][i] = log[x][i]
      /\ files'[h] = {}
  BY CommitMakes
<1>2. \A x \in Repo : Tip(x)' = IF x = h THEN Tip(x) + 1 ELSE Tip(x)
  BY <1>1 DEF Tip
<1>3. \A x \in Repo : x # h => \A c : Pinned(x, c)' = Pinned(x, c)
  BY <1>1 DEF Pinned, Tip
<1>4. \A c \in Child[h] : log'[h][Tip(h) + 1][c] = Tip(c)
  <2>1. log[h] \in Seq([Child[h] -> Nat]) /\ Tip(h) = Len(log[h])
    BY Numbers DEF Tip
  <2>2. log'[h][Tip(h) + 1] = [c \in Child[h] |-> Tip(c)]
    <3>1. [c \in Child[h] |-> Tip(c)] \in [Child[h] -> Nat]
      BY <1>1, Numbers
    <3> HIDE DEF Tip
    <3> QED BY <1>1, <2>1, <3>1
  <2> QED BY <2>2
<1>5. \A x \in Repo : /\ Child[x] \subseteq Repo /\ x \notin Child[x]
                      /\ \A c \in Child[x] : c \in Module \ New /\ Parent[c] = x
  BY Numbers, NoSelf
<1>6. Moved(h)' = {}
  <2>1. \A c \in Child[h] : Tip(c)' = Tip(c) /\ Pinned(h, c)' = Tip(c)
    BY <1>1, <1>2, <1>4, <1>5 DEF Pinned
  <2> QED BY <2>1 DEF Moved
<1>7. \A x \in Repo : \A c \in Child[x] : Pinned(x, c) \in 1..Tip(c)
  <2> SUFFICES ASSUME NEW x \in Repo, NEW c \in Child[x]
               PROVE  Pinned(x, c) \in 1..Tip(c)
    OBVIOUS
  <2>1. Tip(x) \in 1..Tip(x)
    BY <1>1
  <2> QED BY <2>1 DEF PinsOK, Pinned
<1>8. ASSUME NEW s \in Repo, s # h
      PROVE  /\ Moved(s) # {} => Moved(s)' # {}
             /\ Moved(s)' \subseteq Moved(s) \cup {h}
             /\ h \in Child[s] => h \in Moved(s)'
  <2>1. \A c \in Child[s] : c # h => Tip(c)' = Tip(c)
    BY <1>2, <1>5
  <2>2. \A c \in Child[s] : Pinned(s, c)' = Pinned(s, c)
    BY <1>3, <1>8
  <2>3. ASSUME h \in Child[s] PROVE h \in Moved(s)'
    <3>1. Tip(h)' = Tip(h) + 1 /\ Tip(h) \in Nat
      BY <1>1, <1>2
    <3>2. Pinned(s, h)' \in 1..Tip(h)
      BY <1>7, <2>2, <2>3
    <3>3. Tip(h)' # Pinned(s, h)'
      BY <3>1, <3>2
    <3> QED BY <2>3, <3>3 DEF Moved
  <2>4. Moved(s)' \subseteq Moved(s) \cup {h}
    BY <2>1, <2>2 DEF Moved
  <2>5. \A c \in Moved(s) : c # h => c \in Moved(s)'
    BY <2>1, <2>2 DEF Moved
  <2>6. Moved(s) \subseteq Child[s]
    BY DEF Moved
  <2> QED BY <2>3, <2>4, <2>5, <2>6
<1>9. ASSUME h # Root PROVE h \in Moved(Parent[h])'
  <2>1. h \in Module \ New /\ Parent[h] \in Repo
    BY <1>9, LandingAssumption DEF Repo
  <2>2. h \in Child[Parent[h]]
    BY <2>1 DEF Child
  <2>3. Parent[h] # h
    BY <2>1, <2>2, <1>5
  <2> QED BY <2>1, <2>2, <2>3, <1>8
<1>10. PinsOK'
  <2> SUFFICES ASSUME NEW r \in Repo, NEW i \in 1..Tip(r)', NEW c \in Child[r]
               PROVE  log'[r][i][c] \in 1..Tip(c)'
    BY DEF PinsOK
  <2>1. c \in Repo /\ Tip(c) \in Nat /\ Tip(c) # 0
        /\ (Tip(c)' = Tip(c) \/ Tip(c)' = Tip(c) + 1)
    BY <1>1, <1>2, <1>5
  <2>2. CASE i \in 1..Tip(r)
    <3>1. log'[r][i] = log[r][i]
      BY <1>1, <2>2
    <3>2. log[r][i][c] \in 1..Tip(c)
      BY <2>2 DEF PinsOK
    <3> QED BY <2>1, <3>1, <3>2
  <2>3. CASE i \notin 1..Tip(r)
    <3>1. r = h /\ i = Tip(h) + 1
      BY <1>1, <1>2, <2>3
    <3>2. log'[r][i][c] = Tip(c)
      BY <3>1, <1>4
    <3> QED BY <2>1, <3>2
  <2> QED BY <2>2, <2>3
<1> QED BY <1>1, <1>2, <1>6, <1>8, <1>9, <1>10

(* No step skips a module, pins alone, or moves a gitlink ahead.           *)
LEMMA CallStep ==
    ASSUME Calm, IInv, CallOK, [Next]_vars
    PROVE  CallOK'
<1>1. CASE Publish
  BY <1>1, PublishMakes DEF Calm, CallOK
<1>2. CASE Verify
  <2>1. /\ pc = "verify" /\ todo \in Seq(Module) /\ todo # <<>>
    BY <1>2, VerifyMakes DEF IInv, PhaseOK
  <2>2. Head(todo) \in Module /\ call \in Calls
    BY <2>1, HeadTail DEF CallOK
  <2>3. skipped' = skipped
    <3>1. "All" \in call \/ "NoVerify" \in call \/ Head(todo) \in Verifiable
      BY <2>2 DEF Calm
    <3> QED BY <1>2, <3>1 DEF Verify
  <2> QED BY <1>2, <2>2, <2>3, VerifyMakes DEF CallOK
<1>3. CASE VerifyRoot
  BY <1>3, VerifyRootMakes DEF CallOK
<1>4. CASE NextPhase
  BY <1>4, NextPhaseMakes DEF CallOK
<1>5. CASE Submit
  BY <1>5, SubmitMakes DEF CallOK
<1>6. CASE Push
  BY <1>6, PushMakes DEF CallOK, IInv, PhaseOK
<1>7. CASE Said \/ Interrupted
  BY <1>7, EndMakes DEF CallOK
<1>8. CASE Operator
  BY <1>8, OperatorMakes DEF CallOK
<1>9. CASE UNCHANGED vars
  BY <1>9 DEF CallOK, vars
<1> QED BY <1>1, <1>2, <1>3, <1>4, <1>5, <1>6, <1>7, <1>8, <1>9, Steps

(* The log changes by a commit alone, and files clear by one.              *)
LEMMA LogStep ==
    ASSUME IInv, [Next]_vars
    PROVE  \/ log' = log
           \/ \E h \in Repo : CommitAll(h)
<1>1. CASE Submit
  <2>1. Head(todo) \in Repo
    BY <1>1, SubmitMakes, HeadRepo DEF IInv
  <2> QED BY <1>1, <2>1, SubmitMakes
<1>2. CASE Operator
  BY <1>2 DEF Operator, Edit, HandCommit, Switch
<1>3. CASE ~(Submit \/ Operator)
  BY <1>3, Steps, PublishMakes, VerifyMakes, VerifyRootMakes, NextPhaseMakes,
     PushMakes, EndMakes DEF vars
<1> QED BY <1>1, <1>2, <1>3

(* No step makes a gitlink go ahead of its module.                         *)
LEMMA PinsStep ==
    ASSUME IInv, PinsOK, [Next]_vars
    PROVE  PinsOK'
<1>1. CASE log' = log
  BY <1>1 DEF PinsOK, Tip
<1>2. ASSUME NEW h \in Repo, CommitAll(h) PROVE PinsOK'
  BY <1>2, CommitMoves DEF IInv
<1> QED BY <1>1, <1>2, LogStep

(* Where the operator waits, he works only between runs.                   *)
LEMMA OperatorWaits ==
    ASSUME Calm, Operator
    PROVE  pc = "idle" /\ pc' = "idle"
BY OperatorMakes DEF Calm

(* What is not committed is tested before anything is committed, but for   *)
(* what the operator edits after its test and for what is skipped.         *)
TestedOK ==
    call \cap {"NoVerify", "Pin"} = {} =>
        /\ swept \subseteq late \cup skipped
        /\ pc = "verify" => swept = {}
        /\ pc = "verify" => \A f \in Repo \cup New : files[f] # {} =>
              f \in tested \cup late \cup skipped \cup Elements(todo) \cup {Root}
        /\ pc \in After => \A f \in Repo \cup New : files[f] # {} =>
              f \in tested \cup late \cup skipped

(* What the operator edits is not tested since.                            *)
LEMMA OperatorFiles ==
    ASSUME StateOK, Operator
    PROVE  /\ \A f \in Repo \cup New : files'[f] # {} => files[f] # {} \/ f \in late'
           /\ tested' \subseteq tested /\ tested \subseteq tested' \cup late'
           /\ late \subseteq late'
<1>0. EstateOK
  BY StateParts
<1>1. ASSUME NEW r \in Repo \cup New, NEW k \in Kind, Edit(r, k)
      PROVE  /\ \A f \in Repo \cup New : files'[f] # {} => files[f] # {} \/ f \in late'
             /\ tested' = tested \ {r} /\ late' = late \cup {r}
  BY <1>0, <1>1 DEF Edit, EstateOK
<1>2. ASSUME NEW r \in Repo, HandCommit(r)
      PROVE  /\ \A f \in Repo \cup New : files'[f] # {} => files[f] # {}
             /\ tested' = tested /\ late' = late
  BY <1>0, <1>2, CommitMakes DEF HandCommit
<1>3. ASSUME NEW r \in Repo, Switch(r)
      PROVE  UNCHANGED <<files, tested, late>>
  BY <1>3 DEF Switch
<1> QED BY <1>1, <1>2, <1>3 DEF Operator

(* Files are tested before they are committed.                             *)
LEMMA TestedStep ==
    ASSUME IInv, TestedOK, [Next]_vars
    PROVE  TestedOK'
<1>0. StateOK /\ PhaseOK /\ KeptOK /\ EstateOK
  BY StateParts DEF IInv
<1>1. CASE Publish
  <2>1. swept' = {}
    BY <1>1, PublishMakes
  <2>2. CASE pc' = "verify"
    <3>1. Elements(todo') = FoundChanged \cup FoundConsumers
      BY <1>1, <2>2, PublishMakes
    <3>2. ASSUME NEW f \in Repo \cup New, files'[f] # {}, f # Root
          PROVE  f \in Elements(todo')
      <4>1. files'[f] = files[f]
        BY <1>0, <1>1, <3>2, PublishMakes DEF EstateOK
      <4>2. f \in Module
        BY <3>2, Kinds DEF Repo
      <4>3. Changed(f)
        BY <3>2, <4>1, <4>2, ChangedBy
      <4> QED BY <3>1, <4>2, <4>3 DEF FoundChanged
    <3>3. Elements(todo)' = Elements(todo')
      BY DEF Elements
    <3> QED BY <2>1, <2>2, <3>2, <3>3 DEF TestedOK, After
  <2>3. CASE pc' # "verify"
    <3>1. pc' \in After => "Pin" \in call'
      BY <1>1, <2>3, PublishMakes DEF After
    <3> QED BY <2>1, <2>3, <3>1 DEF TestedOK
  <2> QED BY <2>2, <2>3
<1>2. CASE Verify
  <2>1. /\ pc = "verify" /\ todo \in Seq(Module) /\ todo # <<>>
    BY <1>0, <1>2, VerifyMakes DEF PhaseOK
  <2>2. /\ Elements(todo) = {Head(todo)} \cup Elements(Tail(todo))
        /\ Elements(todo)' = Elements(todo')
    BY <2>1, HeadTail DEF Elements
  <2>3. /\ swept' = swept /\ call' = call /\ files' = files
        /\ pc' = "idle" \/ (pc' = "verify" /\ todo' = Tail(todo))
    BY <1>2, VerifyMakes
  <2>4. CASE call \cap {"NoVerify", "Pin"} = {} /\ pc' = "verify"
    <3>1. \/ tested' = tested \cup {Head(todo)} /\ late' = late \ {Head(todo)}
             /\ skipped' = skipped
          \/ skipped' = skipped \cup {Head(todo)} /\ UNCHANGED <<tested, late>>
      BY <1>2, <2>1, <2>4, VerifyMakes
    <3>2. Elements(todo') = Elements(Tail(todo))
      BY <2>1, <2>3, <2>4
    <3> QED BY <2>1, <2>2, <2>3, <2>4, <3>1, <3>2 DEF TestedOK, After
  <2>5. CASE call \cap {"NoVerify", "Pin"} # {}
    BY <2>3, <2>5 DEF TestedOK
  <2>6. CASE pc' = "idle"
    BY <2>1, <2>3, <2>6 DEF TestedOK, After
  <2> QED BY <2>3, <2>4, <2>5, <2>6
<1>3. CASE VerifyRoot
  <2>1. Elements(<<>>) = {}
    BY DEF Elements
  <2>2. /\ pc = "verify" /\ todo = <<>> /\ swept' = swept /\ call' = call
        /\ files' = files /\ pc' \in {"idle", "unpushed"} /\ skipped' = skipped
        /\ tested' = IF "NoVerify" \in call THEN tested ELSE tested \cup {Root}
        /\ late' = IF "NoVerify" \in call THEN late ELSE late \ {Root}
    BY <1>3, VerifyRootMakes
  <2> QED BY <2>1, <2>2 DEF TestedOK, After
<1>4. CASE NextPhase
  <2>1. /\ UNCHANGED <<files, tested, late, skipped, swept, call>> /\ pc' # "verify"
        /\ pc' \in After => pc \in After
    BY <1>4, NextPhaseMakes DEF After
  <2> QED BY <2>1 DEF TestedOK
<1>5. CASE Submit
  <2> DEFINE h == Head(todo)
  <2>1. h \in Repo /\ pc \in After /\ pc # "verify"
    BY <1>0, <1>5, SubmitMakes, HeadRepo DEF After
  <2>2. pc' = pc /\ UNCHANGED <<call, tested, late, skipped>>
    BY <1>5, SubmitMakes
  <2>3. CASE Staged(h)
    <3>1. CommitAll(h) /\ swept' = swept \cup ({f \in {h} \cup Swallowed(h) :
                                            files[f] # {}} \ tested)
      BY <1>5, <2>3, SubmitMakes
    <3> HIDE DEF h
    <3>2. {h} \cup Swallowed(h) \subseteq Repo \cup New
      BY <2>1 DEF Swallowed
    <3>3. \A f \in Repo \cup New : files'[f] # {} => files[f] # {}
      BY <1>0, <2>1, <3>1, CommitMakes
    <3> QED BY <2>1, <2>2, <3>1, <3>2, <3>3 DEF TestedOK
  <2>4. CASE ~Staged(h)
    BY <1>5, <2>1, <2>2, <2>4, SubmitMakes DEF TestedOK
  <2> QED BY <2>3, <2>4
<1>6. CASE Push
  <2>1. /\ UNCHANGED <<files, tested, late, skipped, swept, call>> /\ pc # "verify"
        /\ (pc' = pc \/ pc' = "idle")
    BY <1>0, <1>6, PushMakes DEF PhaseOK
  <2>2. pc' # "verify" /\ (pc' \in After => pc \in After)
    BY <2>1 DEF After
  <2> QED BY <2>1, <2>2 DEF TestedOK
<1>7. CASE Said \/ Interrupted
  BY <1>7, EndMakes DEF TestedOK, After
<1>8. CASE Operator
  <2>1. UNCHANGED <<pc, call, skipped, swept, todo>>
    BY <1>8, OperatorMakes
  <2>2. Elements(todo)' = Elements(todo)
    BY <2>1 DEF Elements
  <2> QED BY <1>0, <1>8, <2>1, <2>2, OperatorFiles DEF TestedOK
<1>9. CASE UNCHANGED vars
  BY <1>9 DEF TestedOK, Elements, vars
<1> QED BY <1>1, <1>2, <1>3, <1>4, <1>5, <1>6, <1>7, <1>8, <1>9, Steps

(* What a landing that tests commits untested was edited by the operator   *)
(* during the run, after its test, or belongs to a module that was skipped *)
(* (Test-XmipChangeTree.ps1, Submit-XmipModule.ps1), whatever the operator *)
(* does meanwhile and whatever interrupts the run.                         *)
THEOREM TestsFirst == Spec => []TestedFirst
<1>1. Init => TestedOK
  BY DEF Init, TestedOK, After
<1>2. IInv /\ TestedOK /\ [Next]_vars => TestedOK'
  BY TestedStep
<1>3. TestedOK => TestedFirst
  BY DEF TestedOK, TestedFirst
<1> QED BY <1>1, <1>2, <1>3, LandingIInvariant, PTL DEF Spec

(* Where no file and no commit changes, neither does what is stale.        *)
LEMMA Frame ==
    ASSUME files' = files, log' = log
    PROVE  /\ FoundChanged' = FoundChanged
           /\ \A m \in Module : Changed(m)' <=> Changed(m)
           /\ \A r \in Repo : /\ Moved(r)' = Moved(r) /\ Tip(r)' = Tip(r)
                              /\ Stale(r)' <=> Stale(r)
<1>1. /\ FoundChanged' = FoundChanged
      /\ \A m \in Module : Changed(m)' <=> Changed(m)
      /\ \A r \in Repo : Moved(r)' = Moved(r) /\ Tip(r)' = Tip(r)
  BY ChangedKeep
<1> QED BY <1>1 DEF Stale

(* What is found stands until the first commit.                            *)
LEMMA KnownStep ==
    ASSUME Calm, IInv, CallOK, KnownOK, [Next]_vars
    PROVE  KnownOK'
<1>0. StateOK /\ PhaseOK /\ EstateOK
  BY StateParts DEF IInv
<1>1. CASE Publish
  <2>1. /\ log' = log /\ origin' = origin /\ changed' = FoundChanged
        /\ unpushed' = FoundUnpushed /\ "Pin" \notin call'
    BY <1>1, PublishMakes DEF Calm
  <2>2. pc' \in {"idle", "verify"}
    BY <1>1, <2>1, PublishMakes
  <2>3. \A f \in (Repo \cup New) \ {Root} : files'[f] = files[f]
    BY <1>0, <1>1, PublishMakes DEF EstateOK
  <2>4. /\ \A m \in Module : Changed(m)' <=> Changed(m)
        /\ \A r \in Repo : Tip(r)' = Tip(r)
        /\ FoundChanged' = FoundChanged
    BY <2>1, <2>3, ChangedKeep
  <2>5. ASSUME NEW r \in Repo \ {Root}, Behind(r)'
        PROVE  Changed(r)' \/ r \in unpushed'
    <3>1. r \in Module \ New /\ origin[r] < Tip(r)
      BY <2>1, <2>4, <2>5 DEF Repo, Behind
    <3>2. AheadBy(r) > 0
      <4>1. Tip(r) \in Nat /\ origin[r] \in Nat
        BY <1>0, Numbers
      <4> QED BY <3>1, <4>1 DEF AheadBy
    <3> QED BY <2>1, <2>4, <3>1, <3>2 DEF FoundUnpushed
  <2> QED BY <2>1, <2>2, <2>4, <2>5 DEF KnownOK, After
<1>2. CASE Verify
  <2>1. /\ UNCHANGED <<files, log, origin, changed, unpushed>> /\ pc = "verify"
        /\ pc' \in {"idle", "verify"}
    BY <1>2, VerifyMakes
  <2>2. /\ FoundChanged' = FoundChanged
        /\ \A m \in Module : Changed(m)' <=> Changed(m)
        /\ \A r \in Repo : Tip(r)' = Tip(r)
    BY <2>1, Frame
  <2>3. Repo \ {Root} \subseteq Module
    BY DEF Repo
  <2> QED BY <2>1, <2>2, <2>3 DEF KnownOK, After, Behind
<1>3. CASE VerifyRoot
  <2>1. /\ UNCHANGED <<files, log, origin, changed, unpushed>> /\ pc = "verify"
        /\ pc' \in {"idle", "unpushed"}
        /\ pc' = "unpushed" => /\ todo' = Only(Declared, unpushed)
                               /\ changed \cap New = {}
    BY <1>3, VerifyRootMakes
  <2>2. /\ FoundChanged' = FoundChanged
        /\ \A m \in Module : Changed(m)' <=> Changed(m)
        /\ \A r \in Repo : Tip(r)' = Tip(r)
    BY <2>1, Frame
  <2>3. Repo \ {Root} \subseteq Module /\ New \subseteq Module
    BY Kinds DEF Repo
  <2>4. CASE pc' = "unpushed"
    <3>1. /\ Elements(todo') = Module \cap unpushed /\ todo' \in Seq(Module)
      BY <2>1, <2>4, OnlyKeeps, DeclaredAll
    <3>2. todo' \in Seq(Elements(todo'))
      BY <3>1, Members
    <3>3. Elements(todo') \subseteq Repo \ {Root}
      BY <1>0, <3>1, Kinds DEF PhaseOK
    <3>4. todo' \in Seq(Repo \ {Root})
      BY <3>2, <3>3, SeqWider
    <3>5. ASSUME NEW n \in New PROVE files[n] = {}
      <4>1. changed = FoundChanged /\ n \notin changed /\ n \in Module
        BY <2>1, <2>3, <2>4 DEF KnownOK
      <4>2. ~Changed(n)
        BY <4>1 DEF FoundChanged
      <4> QED BY <4>2 DEF Changed
    <3> QED BY <2>1, <2>2, <2>3, <2>4, <3>1, <3>4, <3>5 DEF KnownOK, Behind
  <2>5. CASE pc' # "unpushed"
    BY <2>1, <2>5 DEF KnownOK, After
  <2> QED BY <2>4, <2>5
<1>4. CASE NextPhase
  <2>1. files' = files /\ pc' \in {"submit", "nested", "pin", "done"} /\ pc \in After
    BY <1>4, NextPhaseMakes DEF After
  <2> QED BY <2>1 DEF KnownOK
<1>5. CASE Submit
  <2>1. /\ pc' = pc /\ pc \in {"submit", "nested", "pin"} /\ Head(todo) \in Repo
        /\ CommitAll(Head(todo)) \/ files' = files
    BY <1>0, <1>5, SubmitMakes, HeadRepo
  <2>2. \A f \in Repo \cup New : files[f] = {} => files'[f] = {}
    <3>1. CASE files' = files
      BY <3>1
    <3>2. CASE CommitAll(Head(todo))
      BY <1>0, <2>1, <3>2, CommitMakes
    <3> QED BY <2>1, <3>1, <3>2
  <2> QED BY <2>1, <2>2 DEF KnownOK, After
<1>6. CASE Push
  <2>1. /\ UNCHANGED <<files, log, changed, unpushed>> /\ pc \in After
        /\ todo # <<>> /\ (pc' = "idle" \/ pc' = pc)
        /\ pc' # "idle" => /\ todo' = Tail(todo)
                           /\ origin' = [origin EXCEPT ![Head(todo)] = Tip(Head(todo))]
    BY <1>0, <1>6, PushMakes DEF PhaseOK, After
  <2>2. /\ FoundChanged' = FoundChanged
        /\ \A m \in Module : Changed(m)' <=> Changed(m)
        /\ \A r \in Repo : Tip(r)' = Tip(r) /\ Tip(r) \in Nat
    BY <1>0, <2>1, Frame, Numbers
  <2>3. CASE pc' = "unpushed"
    <3>1. pc = "unpushed" /\ todo \in Seq(Repo \ {Root})
      BY <2>1, <2>3 DEF KnownOK
    <3>2. /\ todo' \in Seq(Repo \ {Root}) /\ Head(todo) \in Repo
          /\ Elements(todo) = {Head(todo)} \cup Elements(todo')
      <4>1. /\ Tail(todo) \in Seq(Repo \ {Root}) /\ Head(todo) \in Repo \ {Root}
            /\ Elements(todo) = {Head(todo)} \cup Elements(Tail(todo))
        BY <2>1, <3>1, HeadTail
      <4> QED BY <2>1, <2>3, <4>1
    <3>3. ASSUME NEW r \in Repo \ {Root}, Behind(r)'
          PROVE  Changed(r)' \/ r \in Elements(todo')
      <4>1. origin \in [Repo -> Nat]
        BY <1>0 DEF EstateOK
      <4>2. r # Head(todo) /\ origin'[r] = origin[r]
        BY <2>1, <2>2, <2>3, <3>2, <3>3, <4>1 DEF Behind
      <4>3. Behind(r) /\ r \in Module
        BY <2>2, <3>3, <4>2 DEF Behind, Repo
      <4> QED BY <2>2, <3>1, <3>2, <4>2, <4>3 DEF KnownOK
    <3>4. Elements(todo)' = Elements(todo')
      BY DEF Elements
    <3> QED BY <2>1, <2>2, <2>3, <3>1, <3>2, <3>3, <3>4 DEF KnownOK, After
  <2>4. CASE pc' # "unpushed"
    <3>1. pc' # "verify" /\ (pc' \in After => pc \in After)
      BY <2>1 DEF After
    <3> QED BY <2>1, <2>4, <3>1 DEF KnownOK
  <2> QED BY <2>3, <2>4
<1>7. CASE Said \/ Interrupted
  BY <1>7, EndMakes DEF KnownOK, After
<1>8. CASE Operator
  BY <1>8, OperatorWaits DEF KnownOK, After
<1>9. CASE UNCHANGED vars
  <2>1. UNCHANGED <<files, log, origin, changed, unpushed, pc, todo>>
    BY <1>9 DEF vars
  <2>2. /\ FoundChanged' = FoundChanged
        /\ \A m \in Module : Changed(m)' <=> Changed(m)
        /\ \A r \in Repo : Tip(r)' = Tip(r)
    BY <2>1, Frame
  <2>3. Repo \ {Root} \subseteq Module
    BY DEF Repo
  <2> QED BY <2>1, <2>2, <2>3 DEF KnownOK, Behind
<1> QED BY <1>1, <1>2, <1>3, <1>4, <1>5, <1>6, <1>7, <1>8, <1>9, Steps

(* What is behind still rises after a commit, which what mounts it has to  *)
(* pin.                                                                    *)
LEMMA RisesCommit ==
    ASSUME StateOK, PinsOK, Rises, ~pushing, todo # <<>>, pushing' = TRUE,
           todo' = todo, origin' = origin,
           NEW h \in Repo, h = Head(todo), CommitAll(h)
    PROVE  Rises'
<1>0. todo \in Seq(Repo \ {Root})
  BY DEF Rises
<1>1. h \in Repo /\ h # Root
  BY <1>0, HeadTail
<1>2. CommitAll(h) /\ Head(todo') = h
  OBVIOUS
<1>3. /\ Moved(h)' = {} /\ files'[h] = {}
      /\ \A s \in Repo : s # h => /\ Moved(s) # {} => Moved(s)' # {}
                                  /\ Tip(s)' = Tip(s)
      /\ h \in Moved(Parent[h])'
  BY <1>1, <1>2, CommitMoves
<1>4. \A s \in Repo : s # h => files'[s] = files[s]
  <2>1. \A f \in Repo \cup New :
           files'[f] = IF f \in {h} \cup Swallowed(h) THEN {} ELSE files[f]
    BY <1>1, <1>2, CommitMakes
  <2>2. \A s \in Repo : s \notin New
    BY Kinds DEF Repo
  <2>3. Swallowed(h) \subseteq New
    BY DEF Swallowed
  <2> QED BY <2>1, <2>2, <2>3
<1>5. ~Stale(h)'
  BY <1>3 DEF Stale
<1>6. \A s \in Repo : s # h /\ Stale(s) => Stale(s)'
  BY <1>3, <1>4 DEF Stale
<1>7. ASSUME NEW r \in Repo \ {Root}, Behind(r)', r # h
      PROVE  \E s \in Under(r) : Stale(s)'
  <2>1. Behind(r)
    BY <1>3, <1>7 DEF Behind
  <2>2. PICK s \in Under(r) : Stale(s)
    BY <2>1 DEF Rises
  <2>3. Under(r) \subseteq Repo
    BY UnderHolds
  <2>4. CASE s # h
    BY <1>6, <2>2, <2>3, <2>4
  <2>5. CASE s = h
    <3>1. Parent[h] \in Under(r)
      BY <1>7, <2>2, <2>5, UnderHolds
    <3>2. Stale(Parent[h])'
      BY <1>3 DEF Stale
    <3> QED BY <3>1, <3>2
  <2> QED BY <2>4, <2>5
<1>8. \A r \in Repo : Under(r)' = Under(r)
  BY DEF Under
<1>9. ASSUME NEW r \in Repo \ {Root}, Behind(r)'
      PROVE  (\E s \in Under(r) : Stale(s)') \/ (r = Head(todo)')
  BY <1>2, <1>7, <1>9
<1> QED BY <1>0, <1>2, <1>5, <1>8, <1>9 DEF Rises

(* And after the first of what is to do is passed over or pushed.          *)
LEMMA RisesTail ==
    ASSUME Rises, todo # <<>>, files' = files, log' = log, todo' = Tail(todo),
           pushing' = FALSE,
           \A r \in Repo : origin'[r] = origin[r] \/ origin'[r] = Tip(r),
           pushing => origin'[Head(todo)] = Tip(Head(todo)),
           \A r \in Repo : Tip(r) \in Nat
    PROVE  Rises'
<1>1. /\ todo \in Seq(Repo \ {Root})
      /\ \A r \in Repo \ {Root} : Behind(r) =>
            (\E s \in Under(r) : Stale(s)) \/ (pushing /\ r = Head(todo))
  BY DEF Rises
<1>2. todo' \in Seq(Repo \ {Root})
  BY <1>1, HeadTail
<1>3. \A r \in Repo : Tip(r)' = Tip(r) /\ Stale(r)' = Stale(r)
  <2>1. \A r \in Repo : Tip(r)' = Tip(r) /\ (Stale(r)' <=> Stale(r))
    BY Frame
  <2> QED BY <2>1 DEF Stale
<1>4. ASSUME NEW r \in Repo \ {Root}, Behind(r)'
      PROVE  \E s \in Under(r) : Stale(s)'
  <2>1. origin'[r] < Tip(r)
    BY <1>3, <1>4 DEF Behind
  <2>2. origin'[r] # Tip(r)
    BY <2>1
  <2>3. Behind(r) /\ ~(pushing /\ r = Head(todo))
    BY <2>1, <2>2 DEF Behind
  <2>4. PICK s \in Under(r) : Stale(s)
    BY <1>1, <2>3
  <2>5. s \in Repo
    BY UnderHolds
  <2> QED BY <1>3, <2>4, <2>5
<1>5. \A r \in Repo : Under(r)' = Under(r)
  BY DEF Under
<1> QED BY <1>2, <1>4, <1>5 DEF Rises

(* What a push does to origin.                                             *)
LEMMA PushMoves ==
    ASSUME StateOK, PhaseOK, Push
    PROVE  /\ Head(todo) \in Repo
           /\ \A r \in Repo : /\ Tip(r) \in Nat /\ Tip(r)' = Tip(r)
                              /\ origin'[r] = origin[r] \/ origin'[r] = Tip(r)
                              /\ origin'[r] # origin[r] => r = Head(todo)
           /\ pc' # "idle" => origin'[Head(todo)] = Tip(Head(todo))
<1>1. Head(todo) \in Repo
  BY PushMakes, HeadRepo
<1>2. origin \in [Repo -> Nat]
  BY StateParts DEF EstateOK
<1>3. \A r \in Repo : Tip(r) \in Nat /\ Tip(r)' = Tip(r)
  BY Numbers, Frame, PushMakes
<1>4. /\ \/ origin' = origin
         \/ origin' = [origin EXCEPT ![Head(todo)] = Tip(Head(todo))]
      /\ pc' # "idle" => origin' = [origin EXCEPT ![Head(todo)] = Tip(Head(todo))]
  BY PushMakes
<1> QED BY <1>1, <1>2, <1>3, <1>4

(* Every file found is in what is submitted.                               *)
LEMMA SubmitStep ==
    ASSUME Calm, IInv, CallOK, PinsOK, KnownOK, SubmitOK, [Next]_vars
    PROVE  SubmitOK'
<1>0. StateOK /\ PhaseOK /\ FoundOK /\ KeptOK
  BY StateParts DEF IInv
<1>1. CASE NextPhase /\ pc' = "submit"
  <2>1. /\ pc = "unpushed" /\ todo = <<>> /\ files' = files /\ log' = log
        /\ origin' = origin /\ todo' = Only(verified, Module \ consumers)
        /\ pushing' = pushing
    BY <1>1, NextPhaseMakes
  <2>2. pushing = FALSE
    BY <1>0, <2>1 DEF PhaseOK, KeptOK
  <2>3. /\ changed \cup consumers = Elements(verified)
        /\ consumers \cap changed = {} /\ changed \cap New = {}
    BY <1>0, <2>1 DEF FoundOK, CallOK, After
  <2>4. Elements(todo') = changed /\ todo' \in Seq(Module)
    <3>1. verified \in Seq(Module) /\ changed \subseteq Module
      BY <1>0 DEF KeptOK
    <3>2. /\ Elements(todo') = Elements(verified) \cap (Module \ consumers)
          /\ todo' \in Seq(Module)
      BY <2>1, <3>1, OnlyKeeps
    <3> QED BY <2>3, <3>1, <3>2
  <2>5. todo' \in Seq(Repo \ {Root})
    <3>1. changed \subseteq Repo \ {Root}
      BY <1>0, <2>3, Kinds DEF KeptOK
    <3>2. todo' \in Seq(Elements(todo'))
      BY <2>4, Members
    <3> QED BY <2>4, <3>1, <3>2, SeqWider
  <2>6. changed = FoundChanged /\ \A n \in New : files[n] = {}
    BY <2>1 DEF KnownOK, After
  <2>7. \A r \in Repo : Tip(r)' = Tip(r) /\ (Stale(r)' <=> Stale(r))
    BY <2>1, Frame
  <2>8. ASSUME NEW r \in Repo \ {Root}, Behind(r)'
        PROVE  \E s \in Under(r) : Stale(s)'
    <3>1. Behind(r) /\ r \in Module \ New
      BY <2>1, <2>7, <2>8 DEF Behind, Repo
    <3>2. Changed(r)
      <4>1. Elements(<<>>) = {}
        BY DEF Elements
      <4> QED BY <2>1, <3>1, <4>1 DEF KnownOK
    <3>3. PICK s \in Under(r) : Stale(s)
      BY <2>6, <3>1, <3>2, ChangedBy
    <3>4. s \in Repo
      BY UnderHolds
    <3> QED BY <2>7, <3>3, <3>4
  <2>9. ASSUME NEW s \in Repo \ {Root}, files'[s] # {} PROVE s \in Elements(todo')
    <3>1. s \in Module /\ files[s] # {}
      BY <2>1, <2>9 DEF Repo
    <3>2. Changed(s)
      BY <3>1, ChangedBy
    <3> QED BY <2>4, <2>6, <3>1, <3>2 DEF FoundChanged
  <2>10. \A r \in Repo : Under(r)' = Under(r)
    BY DEF Under
  <2>11. Elements(todo)' = Elements(todo')
    BY DEF Elements
  <2>12. Rises'
    BY <2>1, <2>2, <2>5, <2>8, <2>10 DEF Rises
  <2> QED BY <2>9, <2>11, <2>12 DEF SubmitOK
<1>2. CASE Submit /\ pc = "submit"
  <2>1. /\ Rises /\ ~pushing /\ todo # <<>> /\ Head(todo) \in Repo
        /\ origin' = origin /\ todo \in Seq(Repo \ {Root})
    BY <1>0, <1>2, SubmitMakes, HeadRepo DEF SubmitOK, Rises
  <2>2. Elements(todo) = {Head(todo)} \cup Elements(Tail(todo))
    BY <2>1, HeadTail
  <2>3. CASE Staged(Head(todo))
    <3>1. CommitAll(Head(todo)) /\ todo' = todo /\ pushing' = TRUE
      BY <1>2, <2>3, SubmitMakes
    <3>2. PICK h \in Repo : h = Head(todo)
      BY <2>1
    <3>3. Rises'
      BY <1>0, <2>1, <3>1, <3>2, RisesCommit
    <3>4. \A s \in Repo : files'[s] # {} => files[s] # {}
      BY <1>0, <3>1, <3>2, CommitMakes
    <3> QED BY <1>2, <3>1, <3>3, <3>4 DEF SubmitOK
  <2>4. CASE ~Staged(Head(todo))
    <3>1. /\ files' = files /\ log' = log /\ todo' = Tail(todo) /\ pushing' = FALSE
      BY <1>2, <2>4, SubmitMakes
    <3>2. Rises'
      BY <1>0, <2>1, <3>1, RisesTail, Numbers
    <3>3. files[Head(todo)] = {}
      BY <2>4 DEF Staged
    <3>4. Elements(todo)' = Elements(Tail(todo))
      BY <3>1 DEF Elements
    <3> QED BY <1>2, <2>2, <3>1, <3>2, <3>3, <3>4 DEF SubmitOK
  <2> QED BY <2>3, <2>4
<1>3. CASE Push /\ pc' = "submit"
  <2>1. /\ files' = files /\ log' = log /\ todo' = Tail(todo) /\ pushing' = FALSE
        /\ pc = "submit" /\ todo # <<>> /\ pushing
    BY <1>3, PushMakes
  <2>2. Rises /\ ~Stale(Head(todo)) /\ todo \in Seq(Repo \ {Root})
    BY <2>1 DEF SubmitOK, Rises
  <2>3. Rises'
    BY <1>0, <1>3, <2>1, <2>2, PushMoves, RisesTail
  <2>4. Elements(todo) = {Head(todo)} \cup Elements(Tail(todo))
    BY <2>1, <2>2, HeadTail
  <2>5. Elements(todo)' = Elements(Tail(todo))
    BY <2>1 DEF Elements
  <2> QED BY <2>1, <2>2, <2>3, <2>4, <2>5 DEF SubmitOK, Stale
<1>4. CASE UNCHANGED vars
  <2>1. UNCHANGED <<files, log, origin, pc, todo, pushing>>
    BY <1>4 DEF vars
  <2> QED BY <2>1 DEF SubmitOK, Rises, Behind, Stale, Moved, Tip, Pinned, Under
<1>5. CASE pc' # "submit"
  BY <1>5 DEF SubmitOK
<1>6. CASE pc' = "submit" /\ ~(UNCHANGED vars)
  <2>1. ~Publish
    BY <1>6, PublishMakes
  <2>2. ~Verify /\ ~VerifyRoot
    BY <1>6, VerifyMakes, VerifyRootMakes
  <2>3. ~Said /\ ~Interrupted
    BY <1>6, EndMakes
  <2>4. ~Operator
    BY <1>6, OperatorWaits
  <2>5. Submit => pc = "submit"
    BY <1>6, SubmitMakes
  <2> QED BY <1>1, <1>2, <1>3, <1>6, <2>1, <2>2, <2>3, <2>4, <2>5, Steps
<1> QED BY <1>4, <1>5, <1>6

(* The rest of a list that is deepest first is so too, and what mounts its *)
(* first and is no platform is in it.                                      *)
LEMMA DeepRest ==
    ASSUME NEW s \in Seq(Repo \ {Root}), s # <<>>, DeepFirst(s)
    PROVE  /\ DeepFirst(Tail(s))
           /\ Parent[Head(s)] # Root => Parent[Head(s)] \in Elements(s)
<1>1. /\ Head(s) \in Repo \ {Root} /\ Tail(s) \in Seq(Repo \ {Root})
      /\ Head(s) = s[1] /\ Len(s) \in Nat /\ 1 \in 1..Len(s)
      /\ Len(Tail(s)) = Len(s) - 1
      /\ \A i \in 1..Len(Tail(s)) : i + 1 \in 1..Len(s) /\ Tail(s)[i] = s[i + 1]
      /\ \A i \in 1..Len(s) : i # 1 => i - 1 \in 1..Len(Tail(s)) /\ s[i] = Tail(s)[i - 1]
  BY HeadTail
<1>2. ASSUME NEW i \in 1..Len(Tail(s)), NEW p \in Mounting,
             Depth(p) < Depth(Tail(s)[i])
      PROVE  \E j \in 1..Len(Tail(s)) : i < j /\ Tail(s)[j] = p
  <2>1. i + 1 \in 1..Len(s) /\ Depth(p) < Depth(s[i + 1])
    BY <1>1, <1>2
  <2>2. PICK k \in 1..Len(s) : i + 1 < k /\ s[k] = p
    BY <2>1 DEF DeepFirst
  <2>3. k # 1 /\ i < k - 1
    BY <2>2
  <2> QED BY <1>1, <2>2, <2>3
<1>3. ASSUME Parent[Head(s)] # Root PROVE Parent[Head(s)] \in Elements(s)
  <2>1. Head(s) \in Module \ New
    BY <1>1 DEF Repo
  <2>2. /\ Parent[Head(s)] \in Mounting
        /\ Depth(Parent[Head(s)]) < Depth(s[1])
    BY <1>1, <1>3, <2>1, Deeper
  <2>3. PICK j \in 1..Len(s) : s[j] = Parent[Head(s)]
    BY <1>1, <2>2 DEF DeepFirst
  <2> QED BY <2>3, Members
<1> QED BY <1>2, <1>3 DEF DeepFirst

(* Whatever mounts a commit not pinned yet is in the nested pins to do.    *)
LEMMA NestedStep ==
    ASSUME Calm, IInv, CallOK, PinsOK, SubmitOK, NestedOK, [Next]_vars
    PROVE  NestedOK'
<1>0. StateOK /\ PhaseOK /\ KeptOK
  BY StateParts DEF IInv
<1>1. CASE NextPhase /\ pc' = "nested"
  <2>1. /\ pc = "submit" /\ todo = <<>> /\ files' = files /\ log' = log
        /\ origin' = origin /\ todo' = NestedParents /\ pushing' = pushing
    BY <1>1, NextPhaseMakes DEF CallOK
  <2>2. pushing = FALSE
    BY <1>0, <2>1 DEF PhaseOK, KeptOK
  <2>3. /\ Rises
        /\ \A s \in Repo \ {Root} : files[s] = {}
    <3>1. Elements(<<>>) = {}
      BY DEF Elements
    <3> QED BY <2>1, <3>1 DEF SubmitOK
  <2>4. /\ todo' \in Seq(Repo \ {Root}) /\ Elements(todo') = Mounting
        /\ DeepFirst(todo')
    <3>1. NestedParents \in Seq(Mounting) /\ Mounting \subseteq Repo \ {Root}
      BY NestedHolds, Members, Kinds
    <3>2. NestedParents \in Seq(Repo \ {Root})
      BY <3>1, SeqWider
    <3> QED BY <2>1, <3>2, NestedHolds
  <2>5. \A r \in Repo : /\ Tip(r)' = Tip(r) /\ (Stale(r)' <=> Stale(r))
                        /\ Moved(r)' = Moved(r)
    BY <2>1, Frame
  <2>6. ASSUME NEW r \in Repo \ {Root}, Behind(r)'
        PROVE  \E s \in Under(r) : Stale(s)'
    <3>1. Behind(r)
      BY <2>1, <2>5, <2>6 DEF Behind
    <3>2. PICK s \in Under(r) : Stale(s)
      BY <2>2, <2>3, <3>1 DEF Rises
    <3>3. s \in Repo
      BY UnderHolds
    <3> QED BY <2>5, <3>2, <3>3
  <2>7. ASSUME NEW s \in Repo \ {Root}, Moved(s)' # {} PROVE s \in Elements(todo')
    <3>1. PICK c \in Child[s] : TRUE
      BY <2>5, <2>7 DEF Moved
    <3>2. c \in Module /\ Parent[c] = s /\ s \in Module
      BY <3>1 DEF Child, Repo
    <3> QED BY <2>4, <3>2 DEF Mounting
  <2>8. \A r \in Repo : Under(r)' = Under(r)
    BY DEF Under
  <2>9. Elements(todo)' = Elements(todo')
    BY DEF Elements
  <2>10. Rises'
    BY <2>1, <2>2, <2>4, <2>6, <2>8 DEF Rises
  <2>11. DeepFirst(todo)'
    BY <2>4 DEF DeepFirst
  <2> QED BY <2>1, <2>3, <2>7, <2>9, <2>10, <2>11 DEF NestedOK
<1>2. CASE Submit /\ pc = "nested"
  <2>1. /\ Rises /\ ~pushing /\ todo # <<>> /\ Head(todo) \in Repo
        /\ origin' = origin /\ todo \in Seq(Repo \ {Root}) /\ DeepFirst(todo)
        /\ pc' = "nested"
    BY <1>0, <1>2, SubmitMakes, HeadRepo DEF NestedOK, Rises
  <2>2. Elements(todo) = {Head(todo)} \cup Elements(Tail(todo))
    BY <2>1, HeadTail
  <2>3. CASE Staged(Head(todo))
    <3>1. CommitAll(Head(todo)) /\ todo' = todo /\ pushing' = TRUE
      BY <1>2, <2>3, SubmitMakes
    <3>2. PICK h \in Repo : h = Head(todo)
      BY <2>1
    <3>3. Rises'
      BY <1>0, <2>1, <3>1, <3>2, RisesCommit
    <3>4. \A s \in Repo : files'[s] # {} => files[s] # {}
      BY <1>0, <3>1, <3>2, CommitMakes
    <3>5. ASSUME NEW s \in Repo \ {Root}, Moved(s)' # {} PROVE s \in Elements(todo)
      <4>1. /\ s # h /\ Moved(s)' \subseteq Moved(s) \cup {h}
        BY <1>0, <3>1, <3>2, <3>5, CommitMoves
      <4>2. CASE Moved(s) # {}
        BY <1>2, <4>2 DEF NestedOK
      <4>3. CASE Moved(s) = {}
        <5>1. h \in Child[s]
          BY <3>5, <4>1, <4>3 DEF Moved
        <5>2. Parent[h] = s
          BY <5>1 DEF Child
        <5> QED BY <2>1, <3>2, <5>2, DeepRest
      <4> QED BY <4>2, <4>3
    <3>6. Elements(todo)' = Elements(todo) /\ DeepFirst(todo)'
      BY <2>1, <3>1 DEF Elements, DeepFirst
    <3> QED BY <1>2, <3>3, <3>4, <3>5, <3>6 DEF NestedOK
  <2>4. CASE ~Staged(Head(todo))
    <3>1. /\ files' = files /\ log' = log /\ todo' = Tail(todo) /\ pushing' = FALSE
      BY <1>2, <2>4, SubmitMakes
    <3>2. Rises'
      BY <1>0, <2>1, <3>1, RisesTail, Numbers
    <3>3. Moved(Head(todo)) = {}
      BY <2>4 DEF Staged
    <3>4. Elements(todo)' = Elements(Tail(todo))
      BY <3>1 DEF Elements
    <3>5. DeepFirst(Tail(todo))
      BY <2>1, DeepRest
    <3>6. DeepFirst(todo)'
      BY <3>1, <3>5 DEF DeepFirst
    <3>7. \A r \in Repo : Moved(r)' = Moved(r)
      BY <3>1, Frame
    <3> QED BY <1>2, <2>2, <3>1, <3>2, <3>3, <3>4, <3>6, <3>7 DEF NestedOK
  <2> QED BY <2>3, <2>4
<1>3. CASE Push /\ pc' = "nested"
  <2>1. /\ files' = files /\ log' = log /\ todo' = Tail(todo) /\ pushing' = FALSE
        /\ pc = "nested" /\ todo # <<>> /\ pushing
    BY <1>3, PushMakes
  <2>2. /\ Rises /\ ~Stale(Head(todo)) /\ todo \in Seq(Repo \ {Root})
        /\ DeepFirst(todo)
    BY <2>1 DEF NestedOK, Rises
  <2>3. Rises'
    BY <1>0, <1>3, <2>1, <2>2, PushMoves, RisesTail
  <2>4. Elements(todo) = {Head(todo)} \cup Elements(Tail(todo))
    BY <2>1, <2>2, HeadTail
  <2>5. Elements(todo)' = Elements(Tail(todo))
    BY <2>1 DEF Elements
  <2>6. DeepFirst(Tail(todo))
    BY <2>1, <2>2, DeepRest
  <2>7. DeepFirst(todo)'
    BY <2>1, <2>6 DEF DeepFirst
  <2>8. \A r \in Repo : Moved(r)' = Moved(r)
    BY <2>1, Frame
  <2> QED BY <2>1, <2>2, <2>3, <2>4, <2>5, <2>7, <2>8 DEF NestedOK, Stale
<1>4. CASE UNCHANGED vars
  <2>1. UNCHANGED <<files, log, origin, pc, todo, pushing>>
    BY <1>4 DEF vars
  <2>2. pc = "nested" => DeepFirst(todo)'
    BY <2>1 DEF NestedOK, DeepFirst
  <2> QED BY <2>1, <2>2 DEF NestedOK, Rises, Behind, Stale, Moved, Tip, Pinned, Under
<1>5. CASE pc' # "nested"
  BY <1>5 DEF NestedOK
<1>6. CASE pc' = "nested" /\ ~(UNCHANGED vars)
  <2>1. ~Publish
    BY <1>6, PublishMakes
  <2>2. ~Verify /\ ~VerifyRoot
    BY <1>6, VerifyMakes, VerifyRootMakes
  <2>3. ~Said /\ ~Interrupted
    BY <1>6, EndMakes
  <2>4. ~Operator
    BY <1>6, OperatorWaits
  <2>5. Submit => pc = "nested"
    BY <1>6, SubmitMakes
  <2> QED BY <1>1, <1>2, <1>3, <1>6, <2>1, <2>2, <2>3, <2>4, <2>5, Steps
<1> QED BY <1>4, <1>5, <1>6

(* The platform is pinned over what is whole.                              *)
LEMMA PinStep ==
    ASSUME Calm, IInv, CallOK, PinsOK, NestedOK, PinOK, [Next]_vars
    PROVE  PinOK'
<1>0. StateOK /\ PhaseOK /\ KeptOK
  BY StateParts DEF IInv
<1>1. /\ \A r \in Repo : /\ Tip(r) \in Nat /\ origin[r] \in Nat /\ origin[r] <= Tip(r)
                         /\ Root \notin Child[r]
      /\ Root \in Repo /\ Root \notin New
  BY <1>0, Numbers, NoSelf, Kinds
<1>2. Head(<<Root>>) = Root /\ Tail(<<Root>>) = <<>> /\ <<Root>> # <<>>
  OBVIOUS
<1>3. CASE NextPhase
  <2>1. /\ todo = <<>> /\ files' = files /\ log' = log /\ origin' = origin
        /\ pushing' = pushing
        /\ pc' = "pin" => pc = "nested" /\ todo' = <<Root>>
        /\ pc' = "done" => pc = "pin"
    BY <1>3, NextPhaseMakes
  <2>2. pushing = FALSE
    BY <1>0, <2>1 DEF PhaseOK, KeptOK
  <2>3. \A r \in Repo : Whole(r)' <=> Whole(r)
    <3>1. \A r \in Repo : Tip(r)' = Tip(r) /\ Moved(r)' = Moved(r)
      BY <2>1, Frame
    <3> QED BY <2>1, <3>1 DEF Whole
  <2>4. ASSUME pc = "nested", NEW r \in Repo \ {Root} PROVE Whole(r)
    <3>1. \A s \in Repo \ {Root} : ~Stale(s)
      <4>1. Elements(<<>>) = {}
        BY DEF Elements
      <4> QED BY <2>1, <2>4, <4>1 DEF NestedOK, Stale
    <3>2. Under(r) \subseteq Repo /\ Root \notin Under(r) /\ r \in Under(r)
      BY UnderHolds, RootAbove
    <3>3. ~Behind(r)
      BY <2>2, <2>4, <3>1, <3>2 DEF NestedOK, Rises
    <3>4. origin[r] = Tip(r)
      BY <1>1, <3>3 DEF Behind
    <3> QED BY <3>1, <3>4 DEF Whole, Stale
  <2>5. pc = "pin" => \A r \in Repo : Whole(r)
    BY <2>1 DEF PinOK
  <2> QED BY <1>2, <2>1, <2>2, <2>3, <2>4, <2>5 DEF PinOK
<1>4. CASE Submit /\ pc = "pin"
  <2>1. /\ \A r \in Repo \ {Root} : Whole(r)
        /\ todo = <<Root>> /\ Head(todo) = Root /\ ~pushing /\ pc' = "pin"
        /\ origin' = origin
    BY <1>2, <1>4, SubmitMakes DEF PinOK
  <2>2. CASE Staged(Root)
    <3>1. CommitAll(Root) /\ todo' = todo
      BY <1>4, <2>1, <2>2, SubmitMakes
    <3>2. /\ Moved(Root)' = {} /\ files'[Root] = {}
          /\ \A s \in Repo : s # Root => /\ Moved(s)' \subseteq Moved(s) \cup {Root}
                                         /\ Tip(s)' = Tip(s)
      BY <1>0, <1>1, <3>1, CommitMoves
    <3>3. \A s \in Repo : s # Root => files'[s] \subseteq files[s]
      BY <1>0, <1>1, <3>1, CommitMakes
    <3>4. \A s \in Repo : Root \notin Moved(s)'
      BY <1>1 DEF Moved
    <3>5. ASSUME NEW s \in Repo \ {Root} PROVE Whole(s)'
      BY <2>1, <3>2, <3>3, <3>4 DEF Whole
    <3>6. ~Stale(Root)'
      BY <3>2 DEF Stale
    <3> QED BY <1>2, <2>1, <3>1, <3>5, <3>6 DEF PinOK
  <2>3. CASE ~Staged(Root)
    <3>1. /\ files' = files /\ log' = log
          /\ \/ pushing' = TRUE /\ todo' = todo
             \/ ~(AheadBy(Root) > 0) /\ pushing' = FALSE /\ todo' = Tail(todo)
      BY <1>4, <2>1, <2>3, SubmitMakes
    <3>2. \A r \in Repo : /\ Tip(r)' = Tip(r) /\ Moved(r)' = Moved(r)
                          /\ (Stale(r)' <=> Stale(r))
      BY <3>1, Frame
    <3>3. \A r \in Repo : Whole(r)' <=> Whole(r)
      BY <2>1, <3>1, <3>2 DEF Whole
    <3>4. ~Stale(Root)'
      BY <1>1, <2>3, <3>2 DEF Staged, Stale
    <3>5. ~(AheadBy(Root) > 0) => Whole(Root)
      <4>1. ~(AheadBy(Root) > 0) => origin[Root] = Tip(Root)
        BY <1>1 DEF AheadBy
      <4> QED BY <4>1, <2>3 DEF Whole, Staged
    <3> QED BY <1>1, <1>2, <2>1, <3>1, <3>3, <3>4, <3>5 DEF PinOK
  <2> QED BY <2>2, <2>3
<1>5. CASE Push /\ pc' = "pin"
  <2>1. /\ files' = files /\ log' = log /\ todo' = Tail(todo) /\ pushing' = FALSE
        /\ pc = "pin" /\ todo # <<>> /\ pushing
    BY <1>5, PushMakes
  <2>2. /\ \A r \in Repo \ {Root} : Whole(r)
        /\ todo = <<Root>> /\ Head(todo) = Root /\ ~Stale(Root)
    BY <1>2, <2>1 DEF PinOK
  <2>3. \A r \in Repo : Tip(r)' = Tip(r) /\ Moved(r)' = Moved(r)
    BY <2>1, Frame
  <2>4. /\ origin'[Root] = Tip(Root)
        /\ \A r \in Repo : r # Root => origin'[r] = origin[r]
    BY <1>0, <1>5, <2>2, PushMoves
  <2>5. \A r \in Repo : Whole(r)'
    BY <2>1, <2>2, <2>3, <2>4 DEF Whole, Stale
  <2> QED BY <1>1, <1>2, <1>5, <2>1, <2>2, <2>5 DEF PinOK
<1>6. CASE UNCHANGED vars
  <2>1. UNCHANGED <<files, log, origin, pc, todo, pushing>>
    BY <1>6 DEF vars
  <2> QED BY <2>1 DEF PinOK, Whole, Stale, Moved, Tip, Pinned
<1>7. CASE pc' \notin {"pin", "done"}
  BY <1>7 DEF PinOK
<1>8. CASE pc' \in {"pin", "done"} /\ ~(UNCHANGED vars)
  <2>1. ~Publish
    BY <1>8, PublishMakes
  <2>2. ~Verify /\ ~VerifyRoot
    BY <1>8, VerifyMakes, VerifyRootMakes
  <2>3. ~Said /\ ~Interrupted
    BY <1>8, EndMakes
  <2>4. ~Operator
    BY <1>8, OperatorWaits
  <2>5. Submit => pc = "pin"
    BY <1>8, SubmitMakes
  <2>6. Push => pc' = "pin"
    BY <1>0, <1>8, PushMakes DEF PhaseOK
  <2> QED BY <1>3, <1>4, <1>5, <1>8, <2>1, <2>2, <2>3, <2>4, <2>5, <2>6, Steps
<1> QED BY <1>6, <1>7, <1>8

(* Commits stay, and origin moves by a push alone.                         *)
LEMMA CommitsStay ==
    ASSUME IInv, [Next]_vars
    PROVE  /\ \A r \in Repo : \A i \in 1..Tip(r) : log'[r][i] = log[r][i]
           /\ origin' = origin \/ Push
<1>0. StateOK
  BY DEF IInv
<1>1. ASSUME NEW h \in Repo, CommitAll(h)
      PROVE  \A r \in Repo : \A i \in 1..Tip(r) : log'[r][i] = log[r][i]
  BY <1>0, <1>1, CommitMakes
<1>2. \A r \in Repo : \A i \in 1..Tip(r) : log'[r][i] = log[r][i]
  BY <1>1, LogStep
<1>3. origin' = origin \/ Push
  BY Steps, PublishMakes, VerifyMakes, VerifyRootMakes, NextPhaseMakes,
     SubmitMakes, EndMakes, OperatorMakes DEF vars
<1> QED BY <1>2, <1>3

(* Every commit there is pins commits there are.                           *)
LEMMA AllCovered ==
    ASSUME StateOK, PinsOK
    PROVE  \E G : /\ <<Root, Tip(Root)>> \in G
                  /\ \A a \in G :
                        /\ a[1] \in Repo /\ a[2] \in 1..Tip(a[1])
                        /\ \A c \in Child[a[1]] : <<c, log[a[1]][a[2]][c]>> \in G
<1> DEFINE G == {a \in Repo \X Nat : a[2] \in 1..Tip(a[1])}
<1>1. \A r \in Repo : Tip(r) \in Nat /\ Tip(r) # 0 /\ Child[r] \subseteq Repo
  BY Numbers
<1>2. \A r \in Repo : \A i \in 1..Tip(r) : <<r, i>> \in G
  BY <1>1
<1>3. \A a \in G : a[1] \in Repo /\ a[2] \in 1..Tip(a[1])
  OBVIOUS
<1> HIDE DEF G
<1>4. <<Root, Tip(Root)>> \in G
  <2>1. Root \in Repo /\ Tip(Root) \in 1..Tip(Root)
    BY <1>1, Kinds
  <2> QED BY <1>2, <2>1
<1>5. ASSUME NEW a \in G, NEW c \in Child[a[1]]
      PROVE  <<c, log[a[1]][a[2]][c]>> \in G
  <2>1. a[1] \in Repo /\ a[2] \in 1..Tip(a[1]) /\ c \in Repo
    BY <1>1, <1>3
  <2>2. log[a[1]][a[2]][c] \in 1..Tip(c)
    BY <2>1 DEF PinsOK
  <2> QED BY <1>2, <2>1, <2>2
<1> QED BY <1>3, <1>4, <1>5

(* A clone of origin finds what it asks for, whatever step is taken.       *)
LEMMA CloneStep ==
    ASSUME Calm, IInv, CallOK, PinsOK, KnownOK, SubmitOK, NestedOK, PinOK,
           Cloneable, [Next]_vars
    PROVE  Cloneable'
<1>0. StateOK /\ PhaseOK
  BY DEF IInv
<1>1. /\ \A r \in Repo : \A i \in 1..Tip(r) : log'[r][i] = log[r][i]
      /\ origin' = origin \/ Push
  BY CommitsStay
<1>2. \A r \in Repo : Tip(r) \in Nat /\ origin[r] \in Nat /\ origin[r] <= Tip(r)
  BY <1>0, Numbers
<1>3. \A r \in Repo : origin'[r] \in Nat /\ origin[r] <= origin'[r]
  <2>1. \A r \in Repo : origin'[r] = origin[r] \/ origin'[r] = Tip(r)
    BY <1>0, <1>1, PushMoves
  <2> QED BY <1>2, <2>1
<1>4. CASE origin'[Root] = origin[Root]
  <2>1. PICK G : Covers(G)
    BY DEF Cloneable
  <2>2. ASSUME NEW a \in G
        PROVE  /\ a[1] \in Repo /\ a[2] \in 1..origin'[a[1]]
               /\ \A c \in Child[a[1]] : <<c, log'[a[1]][a[2]][c]>> \in G
    <3>1. /\ a[1] \in Repo /\ a[2] \in 1..origin[a[1]]
          /\ \A c \in Child[a[1]] : <<c, log[a[1]][a[2]][c]>> \in G
      BY <2>1 DEF Covers
    <3>2. a[2] \in 1..origin'[a[1]] /\ a[2] \in 1..Tip(a[1])
      BY <1>2, <1>3, <3>1
    <3>3. log'[a[1]][a[2]] = log[a[1]][a[2]]
      BY <1>1, <3>1, <3>2
    <3> QED BY <3>1, <3>2, <3>3
  <2>3. <<Root, origin'[Root]>> \in G
    BY <1>4, <2>1 DEF Covers
  <2>4. Covers(G)'
    BY <2>2, <2>3 DEF Covers
  <2> QED BY <2>4 DEF Cloneable
<1>5. CASE origin'[Root] # origin[Root]
  <2>1. Push /\ Head(todo) = Root /\ Root \in Repo
    BY <1>0, <1>1, <1>5, PushMoves, Kinds
  <2>2. todo \notin Seq(Repo \ {Root})
    BY <2>1, PushMakes, HeadTail
  <2>3. pc = "pin"
    BY <1>0, <2>1, <2>2, PushMakes
    DEF PhaseOK, KnownOK, SubmitOK, NestedOK, Rises
  <2>4. \A r \in Repo : r # Root => origin[r] = Tip(r)
    BY <2>3 DEF PinOK, Whole
  <2>5. log' = log /\ \A r \in Repo : origin'[r] = Tip(r)
    BY <1>0, <1>5, <2>1, <2>4, PushMoves, PushMakes
  <2>6. PICK G : /\ <<Root, Tip(Root)>> \in G
                 /\ \A a \in G :
                       /\ a[1] \in Repo /\ a[2] \in 1..Tip(a[1])
                       /\ \A c \in Child[a[1]] : <<c, log[a[1]][a[2]][c]>> \in G
    BY <1>0, AllCovered
  <2>7. Covers(G)'
    BY <2>1, <2>5, <2>6 DEF Covers
  <2> QED BY <2>7 DEF Cloneable
<1> QED BY <1>4, <1>5

(* A calm landing begins with nothing to land.                             *)
LEMMA CalmBegins == ASSUME Init PROVE CalmInv
<1>1. CallOK /\ KnownOK /\ SubmitOK /\ NestedOK /\ PinOK
  BY DEF Init, CallOK, KnownOK, SubmitOK, NestedOK, PinOK, After
<1>2. StateOK
  BY Begins DEF IInv
<1>3. \A r \in Repo : Child[r] \subseteq Repo
  BY DEF Child, Repo
<1>4. \A r \in Repo : /\ log[r] = << [c \in Child[r] |-> 1] >> /\ origin[r] = 1
                      /\ Tip(r) = 1
  BY DEF Init, Tip
<1>5. PinsOK
  <2> SUFFICES ASSUME NEW r \in Repo, NEW i \in 1..Tip(r), NEW c \in Child[r]
               PROVE  log[r][i][c] \in 1..Tip(c)
    BY DEF PinsOK
  <2>1. Tip(r) = 1 /\ Tip(c) = 1
    BY <1>3, <1>4
  <2>2. log[r][1] = [x \in Child[r] |-> 1]
    BY <1>4
  <2>3. i = 1
    BY <2>1
  <2> QED BY <2>1, <2>2, <2>3
<1>6. Cloneable
  <2>1. PICK G : /\ <<Root, Tip(Root)>> \in G
                 /\ \A a \in G :
                       /\ a[1] \in Repo /\ a[2] \in 1..Tip(a[1])
                       /\ \A c \in Child[a[1]] : <<c, log[a[1]][a[2]][c]>> \in G
    BY <1>2, <1>5, AllCovered
  <2>2. Covers(G)
    BY <1>4, <2>1, Kinds DEF Covers
  <2> QED BY <2>2 DEF Cloneable
<1> QED BY <1>1, <1>5, <1>6 DEF CalmInv

(* Where the operator waits for the run, nothing is skipped and -Pin is    *)
(* not used, every step of a landing keeps in sight what is still behind,  *)
(* from the finding of it to the pin of the platform.                      *)
THEOREM CalmInvariant == ASSUME Calm PROVE Spec => []CalmInv
<1>1. Init => CalmInv
  BY CalmBegins
<1>2. IInv /\ CalmInv /\ [Next]_vars => CalmInv'
  BY CallStep, PinsStep, KnownStep, SubmitStep, NestedStep, PinStep,
     CloneStep DEF CalmInv
<1> QED BY <1>1, <1>2, LandingIInvariant, PTL DEF Spec

(* A calm landing that says it succeeded left nothing behind: every        *)
(* repository is on origin, every gitlink where its module is, and no file *)
(* is uncommitted, over any nesting (Publish-XmipPin.ps1).                 *)
THEOREM CalmSuccessIsWhole == ASSUME Calm PROVE Spec => []SuccessIsWhole
<1>1. CalmInv => SuccessIsWhole
  BY DEF CalmInv, PinOK, Whole, SuccessIsWhole
<1> QED BY <1>1, CalmInvariant, PTL

(* A fresh clone of origin can be checked out at every moment of a calm    *)
(* landing, whatever interrupts it and whatever push is refused            *)
(* (Submit-XmipModule.ps1 Publish-XmipUnpushed).                           *)
THEOREM CalmCheckable == ASSUME Calm PROVE Spec => []EstateCheckable
<1>1. IInv /\ CalmInv => EstateCheckable
  <2> SUFFICES ASSUME IInv, Cloneable PROVE EstateCheckable
    BY DEF CalmInv
  <2>1. PICK G : Covers(G)
    BY DEF Cloneable
  <2>2. Asked \subseteq G
    BY <2>1, AskedWithin DEF Covers
  <2>3. ASSUME NEW a \in Asked PROVE a[2] <= origin[a[1]]
    <3>1. a[1] \in Repo /\ a[2] \in 1..origin[a[1]]
      BY <2>1, <2>2 DEF Covers
    <3>2. origin[a[1]] \in Nat
      BY <3>1, StateParts DEF IInv, EstateOK
    <3> QED BY <3>1, <3>2
  <2> QED BY <2>3 DEF EstateCheckable
<1> QED BY <1>1, CalmInvariant, LandingIInvariant, PTL
==============================================================================
