--------------------------- MODULE ListeningProofs ---------------------------
(***************************************************************************)
(* Proofs about what a node listens on and as whom it knows an arrival     *)
(* (Listening, Built), for every configuration, every build and any number *)
(* of edits.                                                               *)
(***************************************************************************)
EXTENDS Listening, WellFoundedInduction, FiniteSetTheorems, TLAPS

------------------------------------------------------------------------------
(* Induction.  The order of the natural numbers is well founded; from that *)
(* come induction over a set, a least member of every set and the          *)
(* existence of the function Those defines by recursion.                   *)

(* A set that has 0 and with each number the next has every number.        *)
LEMMA EveryNat ==
    ASSUME NEW T, 0 \in T, \A n \in Nat : n \in T => n + 1 \in T
    PROVE  Nat \subseteq T
<1> DEFINE U == Nat \ T
<1> DEFINE R == OpToRel(<, Nat)
<1> SUFFICES ASSUME U # {} PROVE FALSE
  OBVIOUS
<1>1. IsWellFoundedOn(R, Nat)
  BY NatLessThanWellFounded
<1>2. \E x \in U : \A y \in U : ~(<<y, x>> \in R)
  <2> HIDE DEF R
  <2> QED BY <1>1, WFMin
<1>3. PICK x \in U : \A y \in U : ~(<<y, x>> \in R)
  BY <1>2
<1>4. x # 0 /\ x - 1 \in Nat /\ x - 1 < x
  OBVIOUS
<1>5. x - 1 \in U
  BY <1>4
<1>6. <<x - 1, x>> \in R
  BY <1>4 DEF OpToRel
<1> QED BY <1>3, <1>5, <1>6

(* A set of numbers that has one has a least one.                          *)
LEMMA Least ==
    ASSUME NEW T \in SUBSET Nat, T # {}
    PROVE  \E x \in T : \A y \in T : x <= y
<1> DEFINE R == OpToRel(<, Nat)
<1>1. IsWellFoundedOn(R, Nat)
  BY NatLessThanWellFounded
<1>2. \E x \in T : \A y \in T : ~(<<y, x>> \in R)
  <2> HIDE DEF R
  <2> QED BY <1>1, WFMin
<1>3. PICK x \in T : \A y \in T : ~(<<y, x>> \in R)
  BY <1>2
<1>4. ASSUME NEW y \in T, y < x PROVE <<y, x>> \in R
  BY <1>4 DEF OpToRel
<1>5. ASSUME NEW y \in T PROVE x <= y
  <2> HIDE DEF R
  <2>1. ~(y < x)
    BY <1>3, <1>4
  <2>2. x \in Nat /\ y \in Nat
    OBVIOUS
  <2> QED BY <2>1, <2>2
<1> QED BY <1>5

(* f is the stages from x on, F[n] making the n-th of the one before it.   *)
InStages(f, X, x, F) ==
    /\ f \in [Nat -> X] /\ f[0] = x
    /\ \A n \in Nat : n # 0 => f[n] = F[n][f[n - 1]]

(* There are such stages, whatever makes them.                             *)
LEMMA Stages ==
    ASSUME NEW X, NEW x \in X, NEW F \in [Nat -> [X -> X]]
    PROVE  \E f : InStages(f, X, x, F)
<1> DEFINE Up(n, f) == /\ f \in [0..n -> X] /\ f[0] = x
                       /\ \A k \in 1..n : f[k] = F[k][f[k - 1]]
<1> DEFINE T == {n \in Nat : \E f : Up(n, f)}
<1> DEFINE U == {n \in Nat : \A f, g : Up(n, f) /\ Up(n, g) => f[n] = g[n]}
<1>1. 0 \in T
  <2>1. Up(0, [k \in 0..0 |-> x])
    OBVIOUS
  <2> QED BY <2>1
<1>2. ASSUME NEW n \in T PROVE n + 1 \in T
  <2>1. PICK f : Up(n, f)
    BY <1>2
  <2> DEFINE g == [k \in 0..(n + 1) |-> IF k = n + 1 THEN F[n + 1][f[n]] ELSE f[k]]
  <2>2. n \in Nat /\ f[n] \in X
    BY <2>1
  <2>3. F[n + 1][f[n]] \in X
    BY <2>2
  <2>4. g \in [0..(n + 1) -> X]
    BY <2>1, <2>2, <2>3
  <2>5. g[0] = x
    BY <2>1, <2>2
  <2>6. ASSUME NEW k \in 1..(n + 1) PROVE g[k] = F[k][g[k - 1]]
    <3>1. CASE k = n + 1
      <4>1. k - 1 \in 0..(n+1) /\ k - 1 # n + 1 /\ k - 1 = n
        BY <3>1, <2>2
      <4> QED BY <3>1, <4>1, <2>2
    <3>2. CASE k # n + 1
      <4>1. k \in 1..n /\ k - 1 \in 0..n /\ k \in 0..(n + 1)
            /\ k - 1 \in 0..(n + 1) /\ k - 1 # n + 1
        BY <3>2, <2>2
      <4>2. g[k] = f[k] /\ g[k - 1] = f[k - 1]
        BY <4>1, <3>2
      <4> QED BY <4>1, <4>2, <2>1
    <3> QED BY <3>1, <3>2
  <2>7. Up(n + 1, g)
    <3> HIDE DEF g
    <3> QED BY <2>4, <2>5, <2>6
  <2> QED
    <3> HIDE DEF Up
    <3> QED BY <2>2, <2>7
<1>3. Nat \subseteq T
  <2> HIDE DEF T
  <2> QED BY <1>1, <1>2, EveryNat
<1>4. 0 \in U
  OBVIOUS
<1>5. ASSUME NEW n \in U PROVE n + 1 \in U
  <2> SUFFICES ASSUME NEW f, NEW g, Up(n + 1, f), Up(n + 1, g) PROVE f[n + 1] = g[n + 1]
    OBVIOUS
  <2> DEFINE lower(h) == [k \in 0..n |-> h[k]]
  <2>1. n \in Nat /\ n + 1 \in 1..(n + 1) /\ n \in 0..n
    OBVIOUS
  <2>2. ASSUME NEW h, Up(n + 1, h) PROVE Up(n, lower(h))
    <3>1. \A k \in 0..n : k \in 0..(n + 1)
      BY <2>1
    <3>2. \A k \in 1..n : k \in 1..(n + 1) /\ k - 1 \in 0..n /\ k \in 0..n
      BY <2>1
    <3>3. lower(h) \in [0..n -> X]
      BY <2>2, <3>1
    <3>4. 0 \in 0..n
      BY <2>1
    <3> QED BY <2>2, <3>2, <3>3, <3>4
  <2>3. lower(f)[n] = lower(g)[n]
    <3>1. Up(n, lower(f)) /\ Up(n, lower(g))
      BY <2>2
    <3> HIDE DEF lower, Up
    <3> QED BY <3>1
  <2>4. f[n] = g[n]
    BY <2>3, <2>1
  <2>5. f[n + 1] = F[n + 1][f[n + 1 - 1]] /\ g[n + 1] = F[n + 1][g[n + 1 - 1]]
    BY <2>1
  <2>6. n + 1 - 1 = n
    BY <2>1
  <2> QED BY <2>4, <2>5, <2>6
<1>6. Nat \subseteq U
  <2> HIDE DEF U
  <2> QED BY <1>4, <1>5, EveryNat
<1> DEFINE st(n) == CHOOSE f : Up(n, f)
<1>7. \A n \in Nat : Up(n, st(n))
  <2> HIDE DEF Up
  <2> QED BY <1>3
<1> DEFINE h == [n \in Nat |-> st(n)[n]]
<1>8. h \in [Nat -> X]
  <2> HIDE DEF st
  <2>1. \A n \in Nat : n \in 0..n /\ st(n)[n] \in X
    BY <1>7
  <2> QED BY <2>1
<1>9. h[0] = x
  <2> HIDE DEF st
  <2> QED BY <1>7
<1>10. ASSUME NEW n \in Nat, n # 0 PROVE h[n] = F[n][h[n - 1]]
  <2> HIDE DEF st
  <2>1. n - 1 \in Nat /\ n \in 1..n /\ n - 1 \in 0..(n - 1)
    BY <1>10
  <2> DEFINE f == st(n)
  <2> DEFINE low == [k \in 0..(n - 1) |-> f[k]]
  <2>2. Up(n, f)
    BY <1>7
  <2>3. Up(n - 1, low)
    <3> HIDE DEF f
    <3>1. \A k \in 0..(n - 1) : k \in 0..n
      BY <2>1
    <3>2. \A k \in 1..(n - 1) : k \in 1..n /\ k - 1 \in 0..(n - 1) /\ k \in 0..(n - 1)
      BY <2>1
    <3>3. low \in [0..(n - 1) -> X]
      BY <2>2, <3>1
    <3>4. 0 \in 0..(n - 1)
      BY <2>1
    <3> QED BY <2>2, <3>2, <3>3, <3>4
  <2>4. low[n - 1] = st(n - 1)[n - 1]
    <3> HIDE DEF low
    <3> QED BY <2>1, <2>3, <1>7, <1>6
  <2>5. f[n - 1] = h[n - 1]
    BY <2>1, <2>4
  <2>6. f[n] = F[n][f[n - 1]]
    BY <2>1, <2>2
  <2> QED BY <2>5, <2>6
<1> QED
  <2> HIDE DEF h
  <2> QED BY <1>8, <1>9, <1>10 DEF InStages

------------------------------------------------------------------------------
(* What Those returns.                                                     *)

(* The stages of Those.                                                    *)
LEMMA ThoseStages ==
    ASSUME NEW S, NEW s \in Seq(S), NEW I
    PROVE  \E f : /\ f[0] = <<>>
                  /\ \A i \in 1..Len(s) :
                        f[i] = IF i \in I THEN Append(f[i - 1], s[i])
                               ELSE f[i - 1]
                  /\ Those(s, I) = f[Len(s)]
<1> DEFINE f[i \in Nat] ==
            IF i = 0 THEN <<>>
            ELSE IF i \in I THEN Append(f[i - 1], s[i]) ELSE f[i - 1]
<1>1. Those(s, I) = f[Len(s)]
  BY DEF Those
<1> DEFINE X == Seq(S \cup {s[i] : i \in Nat})
<1> DEFINE F == [n \in Nat |-> [p \in X |->
                    IF n \in I THEN Append(p, s[n]) ELSE p]]
<1>2. <<>> \in X
  OBVIOUS
<1>3. F \in [Nat -> [X -> X]]
  OBVIOUS
<1>4. PICK g : InStages(g, X, <<>>, F)
  <2> HIDE DEF F, X
  <2> QED BY <1>2, <1>3, Stages
<1>5. ASSUME NEW n \in Nat, n # 0
      PROVE  g[n] = IF n \in I THEN Append(g[n - 1], s[n]) ELSE g[n - 1]
  <2> HIDE DEF X
  <2>1. n - 1 \in Nat
    BY <1>5
  <2>2. g[n - 1] \in X /\ g[n] = F[n][g[n - 1]]
    <3> HIDE DEF F
    <3> QED BY <1>4, <1>5, <2>1 DEF InStages
  <2> QED BY <2>2
<1>6. g = [i \in Nat |-> IF i = 0 THEN <<>>
            ELSE IF i \in I THEN Append(g[i - 1], s[i]) ELSE g[i - 1]]
  <2> HIDE DEF F, X
  <2> QED BY <1>4, <1>5 DEF InStages
<1>7. f = [i \in Nat |-> IF i = 0 THEN <<>>
            ELSE IF i \in I THEN Append(f[i - 1], s[i]) ELSE f[i - 1]]
  BY <1>6
<1> HIDE DEF f
<1>8. f[0] = <<>>
  BY <1>7
<1>9. \A i \in 1..Len(s) : f[i] = IF i \in I THEN Append(f[i - 1], s[i])
                                  ELSE f[i - 1]
  <2> SUFFICES ASSUME NEW i \in 1..Len(s)
               PROVE  f[i] = IF i \in I THEN Append(f[i - 1], s[i]) ELSE f[i - 1]
    OBVIOUS
  <2>1. i \in Nat /\ i # 0
    OBVIOUS
  <2> QED BY <1>7, <2>1
<1> QED BY <1>1, <1>8, <1>9

(* Those has what s has at the positions I, and keeps its order.           *)
LEMMA ThoseKeeps ==
    ASSUME NEW S, NEW s \in Seq(S), NEW I
    PROVE  /\ Those(s, I) \in Seq(S)
           /\ \A x : x \in Elements(Those(s, I))
                        <=> \E k \in 1..Len(s) : k \in I /\ s[k] = x
           /\ \A i, j \in 1..Len(Those(s, I)) : i < j =>
                 \E k, l \in 1..Len(s) :
                    /\ k \in I /\ l \in I /\ k < l
                    /\ s[k] = Those(s, I)[i] /\ s[l] = Those(s, I)[j]
<1>1. PICK f : /\ f[0] = <<>>
               /\ \A i \in 1..Len(s) :
                     f[i] = IF i \in I THEN Append(f[i - 1], s[i]) ELSE f[i - 1]
               /\ Those(s, I) = f[Len(s)]
  BY ThoseStages
<1> DEFINE Of(n, o) ==
        /\ o \in Seq(S)
        /\ \A x : (\E i \in 1..Len(o) : o[i] = x)
                     <=> (\E k \in 1..n : k \in I /\ s[k] = x)
        /\ \A i \in 1..Len(o) : \E k \in 1..n : k \in I /\ s[k] = o[i]
        /\ \A i, j \in 1..Len(o) : i < j =>
              \E k, l \in 1..n : /\ k \in I /\ l \in I /\ k < l
                                 /\ s[k] = o[i] /\ s[l] = o[j]
<1> DEFINE Kept(n) == Of(n, f[n])
<1> DEFINE K == {n \in Nat : n <= Len(s) => Kept(n)}
<1>2. Len(s) \in Nat /\ \A n \in 1..Len(s) : s[n] \in S
  OBVIOUS
<1>3. 0 \in K
  <2>1. f[0] \in Seq(S) /\ Len(f[0]) = 0
    BY <1>1
  <2> QED BY <2>1
<1>4. ASSUME NEW n \in K PROVE n + 1 \in K
  <2> SUFFICES ASSUME n + 1 <= Len(s) PROVE Kept(n + 1)
    <3> HIDE DEF Kept
    <3> QED OBVIOUS
  <2>1. n \in Nat /\ n + 1 \in 1..Len(s) /\ n + 1 - 1 = n /\ Kept(n)
    <3> HIDE DEF Kept
    <3> QED BY <1>2
  <2>2. f[n + 1] = IF n + 1 \in I THEN Append(f[n], s[n + 1]) ELSE f[n]
    BY <1>1, <2>1
  <2>10. \A k \in 1..(n + 1) : k \in 1..n \/ k = n + 1
    BY <2>1
  <2>11. \A k \in 1..n : k \in 1..(n + 1) /\ k < n + 1
    BY <2>1
  <2>3. CASE n + 1 \notin I
    <3>1. f[n + 1] = f[n]
      BY <2>2, <2>3
    <3>2. \A x : (\E k \in 1..(n + 1) : k \in I /\ s[k] = x)
                   <=> (\E k \in 1..n : k \in I /\ s[k] = x)
      BY <2>3, <2>10, <2>11
    <3>3. \A i \in 1..Len(f[n]) : \E k \in 1..(n + 1) : k \in I /\ s[k] = f[n][i]
      BY <2>1, <2>11
    <3>4. ASSUME NEW i \in 1..Len(f[n]), NEW j \in 1..Len(f[n]), i < j
          PROVE  \E k, l \in 1..(n + 1) : /\ k \in I /\ l \in I /\ k < l
                                          /\ s[k] = f[n][i] /\ s[l] = f[n][j]
      <4>1. PICK k \in 1..n, l \in 1..n : /\ k \in I /\ l \in I /\ k < l
                                          /\ s[k] = f[n][i] /\ s[l] = f[n][j]
        BY <2>1, <3>4
      <4> QED BY <4>1, <2>11
    <3>5. f[n] \in Seq(S) /\ \A x : (\E i \in 1..Len(f[n]) : f[n][i] = x)
                     <=> (\E k \in 1..(n + 1) : k \in I /\ s[k] = x)
      BY <2>1, <3>2
    <3>6. Of(n + 1, f[n])
      BY <3>3, <3>4, <3>5
    <3> HIDE DEF Of
    <3> QED BY <3>1, <3>6
  <2>4. CASE n + 1 \in I
    <3> DEFINE p == f[n]
               y == s[n + 1]
               q == Append(p, y)
    <3>1. p \in Seq(S) /\ y \in S /\ f[n + 1] = q
      BY <2>1, <2>2, <2>4, <1>2
    <3>2. /\ q \in Seq(S) /\ Len(q) = Len(p) + 1 /\ q[Len(p) + 1] = y
          /\ \A i \in 1..Len(p) : q[i] = p[i]
      <4> HIDE DEF p, y
      <4> QED BY <3>1
    <3>3. \A i \in 1..Len(q) : i \in 1..Len(p) \/ i = Len(p) + 1
      <4> HIDE DEF p, y, q
      <4> QED BY <3>1, <3>2
    <3>6. \A i \in 1..Len(p) : i \in 1..Len(q) /\ i # Len(p) + 1
      <4> HIDE DEF p, y, q
      <4> QED BY <3>1, <3>2
    <3>61. Len(p) + 1 \in 1..Len(q)
      <4> HIDE DEF p, y, q
      <4> QED BY <3>1, <3>2
    <3>7. \A x : (\E i \in 1..Len(q) : q[i] = x)
                     <=> (\E k \in 1..(n + 1) : k \in I /\ s[k] = x)
      <4> SUFFICES ASSUME NEW x
                   PROVE  (\E i \in 1..Len(q) : q[i] = x)
                             <=> (\E k \in 1..(n + 1) : k \in I /\ s[k] = x)
        OBVIOUS
      <4>1. (\E i \in 1..Len(q) : q[i] = x) <=> (x = y \/ \E i \in 1..Len(p) : p[i] = x)
        <5> HIDE DEF p, y, q
        <5> QED BY <3>2, <3>3, <3>6, <3>61
      <4>2. (\E k \in 1..(n + 1) : k \in I /\ s[k] = x)
               <=> (x = y \/ \E k \in 1..n : k \in I /\ s[k] = x)
        BY <2>10, <2>11, <2>1, <2>4
      <4> QED BY <4>1, <4>2, <2>1
    <3>8. \A i \in 1..Len(q) : \E k \in 1..(n + 1) : k \in I /\ s[k] = q[i]
      BY <3>2, <3>3, <2>11, <2>1, <2>4
    <3>9. ASSUME NEW i \in 1..Len(q), NEW j \in 1..Len(q), i < j
          PROVE  \E k, l \in 1..(n + 1) : /\ k \in I /\ l \in I /\ k < l
                                          /\ s[k] = q[i] /\ s[l] = q[j]
      <4>1. i \in 1..Len(p)
        <5> HIDE DEF p, y, q
        <5> QED BY <3>1, <3>3, <3>9
      <4>2. CASE j \in 1..Len(p)
        <5>1. PICK k \in 1..n, l \in 1..n : /\ k \in I /\ l \in I /\ k < l
                                            /\ s[k] = p[i] /\ s[l] = p[j]
          BY <4>1, <4>2, <2>1, <3>9
        <5> QED BY <5>1, <4>1, <4>2, <3>2, <2>11
      <4>3. CASE j = Len(p) + 1
        <5>1. PICK k \in 1..n : k \in I /\ s[k] = p[i]
          BY <4>1, <2>1
        <5>2. k < n + 1 /\ k \in 1..(n + 1) /\ n + 1 \in 1..(n + 1)
          BY <2>1
        <5>3. s[k] = q[i] /\ s[n + 1] = q[j]
          BY <5>1, <4>1, <4>3, <3>2
        <5> QED BY <5>1, <5>2, <5>3, <2>4
      <4> QED BY <4>2, <4>3, <3>3
    <3>10. Of(n + 1, q)
      <4> HIDE DEF q
      <4> QED BY <3>1, <3>2, <3>7, <3>8, <3>9
    <3> HIDE DEF Of
    <3> QED BY <3>1, <3>10
  <2> QED BY <2>3, <2>4
<1>5. Kept(Len(s))
  <2>1. Nat \subseteq K
    <3> HIDE DEF K
    <3> QED BY <1>3, <1>4, EveryNat
  <2>2. Len(s) \in K
    BY <2>1, <1>2
  <2> HIDE DEF Kept
  <2> QED BY <2>2
<1> DEFINE o == Those(s, I)
<1>6. Of(Len(s), o)
  <2> HIDE DEF Of
  <2> QED BY <1>1, <1>5
<1> HIDE DEF Kept, K
<1>7. DOMAIN o = 1..Len(o)
  <2> HIDE DEF o
  <2> QED BY <1>6
<1>8. \A x : x \in Elements(o) <=> \E k \in 1..Len(s) : k \in I /\ s[k] = x
  <2> HIDE DEF o
  <2>1. \A x : x \in Elements(o) <=> \E i \in 1..Len(o) : o[i] = x
    BY <1>7 DEF Elements
  <2> QED BY <2>1, <1>6
<1> QED BY <1>6, <1>8

(* What a concatenation holds, and where.                                  *)
LEMMA Concat ==
    ASSUME NEW S, NEW p \in Seq(S), NEW q \in Seq(S)
    PROVE  /\ p \o q \in Seq(S) /\ Len(p \o q) = Len(p) + Len(q)
           /\ \A i \in 1..Len(p) : i \in 1..Len(p \o q) /\ (p \o q)[i] = p[i]
           /\ \A i \in 1..Len(q) : /\ Len(p) + i \in 1..Len(p \o q)
                                   /\ (p \o q)[Len(p) + i] = q[i]
           /\ \A i \in 1..Len(p \o q) :
                 i \in 1..Len(p) \/ \E k \in 1..Len(q) : i = Len(p) + k
           /\ Elements(p \o q) = Elements(p) \cup Elements(q)
<1> DEFINE c == p \o q
<1>1. c \in Seq(S) /\ Len(c) = Len(p) + Len(q) /\ Len(p) \in Nat /\ Len(q) \in Nat
  OBVIOUS
<1>2. \A i \in 1..Len(p) : i \in 1..Len(c) /\ c[i] = p[i]
  BY <1>1
<1>3. \A i \in 1..Len(q) : Len(p) + i \in 1..Len(c) /\ c[Len(p) + i] = q[i]
  BY <1>1
<1>4. ASSUME NEW i \in 1..Len(c)
      PROVE  i \in 1..Len(p) \/ \E k \in 1..Len(q) : i = Len(p) + k
  <2>1. CASE i <= Len(p)
    BY <1>1, <2>1
  <2>2. CASE ~(i <= Len(p))
    <3> HIDE DEF c
    <3>1. i - Len(p) \in 1..Len(q) /\ i = Len(p) + (i - Len(p))
      BY <1>1, <2>2
    <3> QED BY <3>1
  <2> QED BY <2>1, <2>2
<1>5. DOMAIN c = 1..Len(c) /\ DOMAIN p = 1..Len(p) /\ DOMAIN q = 1..Len(q)
  BY <1>1
<1>6. Elements(c) = Elements(p) \cup Elements(q)
  <2> HIDE DEF c
  <2>1. \A x : x \in Elements(c) <=> \E i \in 1..Len(c) : c[i] = x
    BY <1>5 DEF Elements
  <2>2. \A x : x \in Elements(p) <=> \E i \in 1..Len(p) : p[i] = x
    BY <1>5 DEF Elements
  <2>3. \A x : x \in Elements(q) <=> \E i \in 1..Len(q) : q[i] = x
    BY <1>5 DEF Elements
  <2>4. ASSUME NEW x \in Elements(c) PROVE x \in Elements(p) \cup Elements(q)
    <3>1. PICK i \in 1..Len(c) : c[i] = x
      BY <2>1
    <3>2. CASE i \in 1..Len(p)
      BY <3>1, <3>2, <1>2, <2>2
    <3>3. CASE \E k \in 1..Len(q) : i = Len(p) + k
      BY <3>1, <3>3, <1>3, <2>3
    <3> QED BY <1>4, <3>2, <3>3
  <2>5. ASSUME NEW x \in Elements(p) \cup Elements(q) PROVE x \in Elements(c)
    BY <1>2, <1>3, <2>1, <2>2, <2>3
  <2> QED BY <2>4, <2>5
<1> QED BY <1>1, <1>2, <1>3, <1>4, <1>6
------------------------------------------------------------------------------
(* What --listening says.                                                  *)

(* Where a sequence has its elements.                                      *)
LEMMA Indexed ==
    ASSUME NEW S, NEW s \in Seq(S)
    PROVE  /\ DOMAIN s = 1..Len(s) /\ Len(s) \in Nat
           /\ \A x : x \in Elements(s) <=> \E i \in 1..Len(s) : s[i] = x
           /\ \A i \in 1..Len(s) : s[i] \in S
           /\ Elements(s) \subseteq S
<1>1. DOMAIN s = 1..Len(s) /\ Len(s) \in Nat /\ \A i \in 1..Len(s) : s[i] \in S
  OBVIOUS
<1>2. \A x : x \in Elements(s) <=> \E i \in 1..Len(s) : s[i] = x
  BY <1>1 DEF Elements
<1> QED BY <1>1, <1>2

(* What each of a sequence's elements is made into.                        *)
LEMMA Mapped ==
    ASSUME NEW S, NEW T, NEW s \in Seq(S), NEW g \in [S -> T],
           NEW r, r = [i \in DOMAIN s |-> g[s[i]]]
    PROVE  /\ r \in Seq(T) /\ Len(r) = Len(s) /\ DOMAIN r = DOMAIN s
           /\ \A x : x \in Elements(r) <=> \E y \in Elements(s) : x = g[y]
<1>1. /\ DOMAIN s = 1..Len(s) /\ Len(s) \in Nat
      /\ \A x : x \in Elements(s) <=> \E i \in 1..Len(s) : s[i] = x
      /\ \A i \in 1..Len(s) : s[i] \in S
  BY Indexed
<1>2. r \in Seq(T) /\ Len(r) = Len(s) /\ DOMAIN r = DOMAIN s
  BY <1>1
<1>3. \A x : x \in Elements(r) <=> \E i \in 1..Len(s) : r[i] = x
  BY <1>1, <1>2 DEF Elements
<1>4. \A i \in 1..Len(s) : r[i] = g[s[i]]
  BY <1>1
<1>5. \A x : x \in Elements(r) <=> \E y \in Elements(s) : x = g[y]
  BY <1>1, <1>3, <1>4
<1> QED BY <1>2, <1>5

(* What the configuration names as a listener, and what is said of it.     *)
What == STRING \cup {"operate", "storage", "ACME", "list"}
Named == [at : Address, what : What]
Line == [port : Port, protocol : {"tcp"}, listener : What]

(* A port is a number.                                                     *)
LEMMA PortsAreNumbers ==
    /\ \A a \in Address : port_of(a) \in Nat /\ port_of(a) \in Port
    /\ \A x \in Line : x.port \in Nat /\ x.protocol = "tcp"
<1>1. \A n \in Port : n \in Nat
  BY DEF Port
<1>2. \A a \in Address : a.port \in Port
  BY DEF Address
<1>3. \A x \in Line : x.port \in Port /\ x.protocol = "tcp"
  BY DEF Line
<1>4. 0 \in Port
  BY DEF Port
<1> QED BY <1>1, <1>2, <1>3, <1>4 DEF port_of

(* Each port that is named is said, no other and each in one line.         *)
LEMMA LinesSay ==
    ASSUME NEW s \in Seq(Named)
    PROVE  /\ Lines(s) \in Seq(Line)
           /\ \A p : p \in Ports(Lines(s))
                        <=> p # 0 /\ \E l \in Elements(s) : p = port_of(l.at)
           /\ Len(Lines(s)) = Cardinality(Ports(Lines(s)))
<1> DEFINE g == [l \in Named |-> [port |-> port_of(l.at), protocol |-> "tcp",
                                  listener |-> l.what]]
           line == [i \in DOMAIN s |-> [port |-> port_of(s[i].at), protocol |-> "tcp",
                                        listener |-> s[i].what]]
           I == {i \in DOMAIN s :
                    /\ line[i].port > 0
                    /\ \A j \in 1..(i - 1) : line[j].port # line[i].port}
           t == Those(line, I)
<1>1. Lines(s) = t
  BY DEF Lines
<1>2. g \in [Named -> Line]
  <2>1. ASSUME NEW l \in Named
        PROVE  [port |-> port_of(l.at), protocol |-> "tcp", listener |-> l.what] \in Line
    <3>1. l.at \in Address /\ l.what \in What
      BY DEF Named
    <3>2. port_of(l.at) \in Port
      BY <3>1, PortsAreNumbers
    <3> QED BY <3>1, <3>2 DEF Line
  <2> QED BY <2>1
<1>3. line = [i \in DOMAIN s |-> g[s[i]]]
  <2>1. \A i \in DOMAIN s : s[i] \in Named
    BY Indexed
  <2> QED BY <2>1
<1>4. /\ line \in Seq(Line) /\ Len(line) = Len(s) /\ DOMAIN line = DOMAIN s
      /\ \A x : x \in Elements(line) <=> \E y \in Elements(s) : x = g[y]
  <2> HIDE DEF g, line
  <2>1. line \in Seq(Line) /\ Len(line) = Len(s) /\ DOMAIN line = DOMAIN s
    BY <1>2, <1>3, Mapped
  <2>2. \A x : x \in Elements(line) <=> \E i \in 1..Len(s) : line[i] = x
    BY <2>1, Indexed
  <2>3. \A x : x \in Elements(s) <=> \E i \in 1..Len(s) : s[i] = x
    BY Indexed
  <2>4. \A i \in 1..Len(s) : line[i] = g[s[i]]
    BY <1>3, <2>1
  <2> QED BY <2>1, <2>2, <2>3, <2>4
<1>5. /\ t \in Seq(Line)
      /\ \A x : x \in Elements(t) <=> \E k \in 1..Len(line) : k \in I /\ line[k] = x
      /\ \A i, j \in 1..Len(t) : i < j =>
            \E k, l \in 1..Len(line) : /\ k \in I /\ l \in I /\ k < l
                                       /\ line[k] = t[i] /\ line[l] = t[j]
  <2> HIDE DEF line, I
  <2>1. line \in Seq(Line)
    BY <1>4
  <2>2. /\ t \in Seq(Line)
        /\ \A x : x \in Elements(t) <=> \E k \in 1..Len(line) : k \in I /\ line[k] = x
    BY <2>1, ThoseKeeps
  <2>3. ASSUME NEW i \in 1..Len(t), NEW j \in 1..Len(t), i < j
        PROVE  \E k, l \in 1..Len(line) : /\ k \in I /\ l \in I /\ k < l
                                          /\ line[k] = t[i] /\ line[l] = t[j]
    BY <2>1, <2>3, ThoseKeeps
  <2> HIDE DEF t
  <2> QED BY <2>2, <2>3
<1>6. DOMAIN s = 1..Len(s) /\ Len(s) \in Nat
  BY Indexed
<1>7. \A y \in Elements(s) : g[y].port = port_of(y.at) /\ g[y] \in Line
  <2>1. Elements(s) \subseteq Named
    BY Indexed
  <2> QED BY <1>2, <2>1
<1>8. /\ DOMAIN t = 1..Len(t) /\ Len(t) \in Nat
      /\ \A x : x \in Elements(t) <=> \E i \in 1..Len(t) : t[i] = x
      /\ \A i \in 1..Len(t) : t[i] \in Line
  <2> HIDE DEF t
  <2> QED BY <1>5, Indexed
<1>9. \A k \in 1..Len(line) : line[k] \in Line /\ line[k] \in Elements(line)
  <2> HIDE DEF line
  <2> QED BY <1>4, Indexed
<1>10. \A k \in I : /\ k \in 1..Len(line) /\ line[k].port > 0
                    /\ \A j \in 1..(k - 1) : line[j].port # line[k].port
  <2> HIDE DEF line
  <2> QED BY <1>4, <1>6
<1>11. \A k \in 1..Len(line) :
          (/\ line[k].port > 0
           /\ \A j \in 1..(k - 1) : line[j].port # line[k].port) => k \in I
  <2> HIDE DEF line
  <2> QED BY <1>4, <1>6
<1> HIDE DEF g, line, I, t
<1>12. ASSUME NEW p \in Ports(t)
       PROVE  p # 0 /\ \E l \in Elements(s) : p = port_of(l.at)
  <2>1. PICK x \in Elements(t) : x.port = p
    BY DEF Ports
  <2>2. PICK k \in 1..Len(line) : k \in I /\ line[k] = x
    BY <1>5
  <2>3. PICK y \in Elements(s) : x = g[y]
    BY <2>2, <1>9, <1>4
  <2>4. p = port_of(y.at)
    BY <2>1, <2>3, <1>7
  <2>5. p # 0
    BY <2>1, <2>2, <1>10, <1>9, PortsAreNumbers
  <2> QED BY <2>4, <2>5
<1>13. ASSUME NEW l \in Elements(s), port_of(l.at) # 0
       PROVE  port_of(l.at) \in Ports(t)
  <2> DEFINE p == port_of(l.at)
  <2>1. g[l] \in Elements(line) /\ g[l].port = p /\ g[l] \in Line
    BY <1>4, <1>7
  <2> HIDE DEF p
  <2> DEFINE K == {k \in 1..Len(line) : line[k].port = p}
  <2>2. Len(line) \in Nat /\ \E k \in 1..Len(line) : line[k] = g[l]
    BY <2>1, <1>4, Indexed
  <2>3. K # {} /\ K \in SUBSET Nat
    BY <2>1, <2>2
  <2>4. PICK k \in K : \A j \in K : k <= j
    <3> HIDE DEF K
    <3> QED BY <2>3, Least
  <2>5. k \in 1..Len(line) /\ line[k].port = p
    OBVIOUS
  <2>6. ASSUME NEW j \in 1..(k - 1) PROVE line[j].port # line[k].port
    <3>1. j \in 1..Len(line) /\ ~(k <= j)
      BY <2>2, <2>5
    <3> QED BY <3>1, <2>4, <2>5
  <2>7. line[k].port > 0
    <3>1. line[k] \in Line
      BY <2>5, <1>9
    <3>2. p # 0
      BY <1>13 DEF p
    <3> QED BY <3>1, <3>2, <2>5, PortsAreNumbers
  <2>8. k \in I
    BY <2>5, <2>6, <2>7, <1>11
  <2>9. line[k] \in Elements(t)
    BY <2>8, <2>5, <1>5
  <2> QED BY <2>9, <2>5 DEF Ports, p
<1>14. ASSUME NEW i \in 1..Len(t), NEW j \in 1..Len(t), i < j
       PROVE  t[i].port # t[j].port
  <2>1. PICK k \in 1..Len(line), l \in 1..Len(line) :
              /\ k \in I /\ l \in I /\ k < l /\ line[k] = t[i] /\ line[l] = t[j]
    BY <1>14, <1>5
  <2>2. k \in 1..(l - 1)
    BY <2>1, <1>4, <1>6
  <2> QED BY <2>1, <2>2, <1>10
<1>15. Len(t) = Cardinality(Ports(t))
  <2> DEFINE f == [i \in 1..Len(t) |-> t[i].port]
  <2>1. f \in [1..Len(t) -> Ports(t)]
    BY <1>8 DEF Ports
  <2>2. \A p \in Ports(t) : \E i \in 1..Len(t) : f[i] = p
    BY <1>8 DEF Ports
  <2>3. ASSUME NEW i \in 1..Len(t), NEW j \in 1..Len(t), f[i] = f[j] PROVE i = j
    <3>1. t[i].port = t[j].port
      BY <2>3
    <3>2. ~(i < j) /\ ~(j < i)
      BY <3>1, <1>14
    <3> QED BY <3>2, <1>8
  <2> HIDE DEF f
  <2>4. f \in Injection(1..Len(t), Ports(t))
    BY <2>1, <2>3 DEF Injection, IsInjective
  <2>5. f \in Surjection(1..Len(t), Ports(t))
    BY <2>1, <2>2 DEF Surjection
  <2>6. ExistsBijection(1..Len(t), Ports(t))
    BY <2>4, <2>5 DEF ExistsBijection, Bijection
  <2> QED BY <2>6, <1>8, FS_CountingElements
<1> QED BY <1>1, <1>5, <1>12, <1>13, <1>15

(* What a configuration says, part by part.                                *)
LEMMA DocumentParts ==
    ASSUME NEW d \in Documents
    PROVE  /\ d.operate \in Address \cup {None} /\ d.storage \in Address \cup {None}
           /\ d.serve \in Address \cup {None} /\ d.publish \in Address \cup {None}
           /\ d.stores \in BOOLEAN
           /\ d.own \in Seq(Location)
           /\ d.placed \in Seq([node : STRING, location : Location])
BY ListeningAssumption DEF Document

(* The Locations to start.                                                 *)
LEMMA ToStartStarts ==
    ASSUME NEW s \in Seq(Location)
    PROVE  /\ ToStart(s) \in Seq(Location)
           /\ \A l : l \in Elements(ToStart(s)) <=> l \in Elements(s) /\ l.start
<1> DEFINE I == {i \in DOMAIN s : s[i].start}
           t == Those(s, I)
<1>1. t \in Seq(Location)
      /\ \A x : x \in Elements(t) <=> \E k \in 1..Len(s) : k \in I /\ s[k] = x
  <2> HIDE DEF I
  <2> QED BY ThoseKeeps
<1>2. /\ DOMAIN s = 1..Len(s)
      /\ \A x : x \in Elements(s) <=> \E i \in 1..Len(s) : s[i] = x
  BY Indexed
<1>3. \A k \in 1..Len(s) : k \in I <=> s[k].start
  BY <1>2
<1>4. ToStart(s) = t
  BY DEF ToStart
<1> HIDE DEF I, t
<1>5. \A l : l \in Elements(t) <=> l \in Elements(s) /\ l.start
  BY <1>1, <1>2, <1>3
<1> QED BY <1>1, <1>4, <1>5

(* --listening lists the Locations the runtime starts.                     *)
LEMMA ReceivesStarted ==
    ASSUME NEW d \in Documents
    PROVE  Receives(d) \in Seq(Location) /\ Elements(Receives(d)) = Started(d)
<1> DEFINE P == [node : STRING, location : Location]
           I == {i \in DOMAIN d.placed : d.placed[i].node = This}
           here == Those(d.placed, I)
           g == [p \in P |-> p.location]
           at == [i \in DOMAIN here |-> here[i].location]
<1>1. d.own \in Seq(Location) /\ d.placed \in Seq(P)
  BY DocumentParts
<1>2. /\ here \in Seq(P)
      /\ \A x : x \in Elements(here)
                   <=> \E k \in 1..Len(d.placed) : k \in I /\ d.placed[k] = x
  <2> HIDE DEF I, P
  <2> QED BY <1>1, ThoseKeeps
<1>3. /\ DOMAIN d.placed = 1..Len(d.placed)
      /\ \A x : x \in Elements(d.placed)
                   <=> \E i \in 1..Len(d.placed) : d.placed[i] = x
      /\ Elements(d.placed) \subseteq P
  <2> HIDE DEF P
  <2> QED BY <1>1, Indexed
<1>4. \A k \in 1..Len(d.placed) : k \in I <=> d.placed[k].node = This
  BY <1>3
<1>5. \A x : x \in Elements(here) <=> x \in Elements(d.placed) /\ x.node = This
  <2> HIDE DEF I, P, here
  <2> QED BY <1>2, <1>3, <1>4
<1>6. g \in [P -> Location]
  OBVIOUS
<1>7. DOMAIN here = 1..Len(here) /\ \A i \in 1..Len(here) : here[i] \in P
  <2> HIDE DEF here, P
  <2> QED BY <1>2, Indexed
<1>8. at = [i \in DOMAIN here |-> g[here[i]]]
  <2> HIDE DEF here
  <2>1. \A i \in DOMAIN here : g[here[i]] = here[i].location
    BY <1>7
  <2> QED BY <2>1
<1>9. /\ at \in Seq(Location)
      /\ \A x : x \in Elements(at) <=> \E y \in Elements(here) : x = g[y]
  <2> HIDE DEF here, g, P, at
  <2> QED BY <1>2, <1>6, <1>8, Mapped
<1>10. \A x : x \in Elements(at)
                 <=> \E p \in Elements(d.placed) : p.node = This /\ x = p.location
  <2>1. \A y \in P : g[y] = y.location
    OBVIOUS
  <2> HIDE DEF here, g, P, at
  <2> QED BY <2>1, <1>3, <1>5, <1>9
<1> DEFINE all == d.own \o at
<1>11. all \in Seq(Location) /\ Elements(all) = Elements(d.own) \cup Elements(at)
  <2> HIDE DEF at
  <2> QED BY <1>1, <1>9, Concat
<1>12. Receives(d) = ToStart(all)
  BY DEF Receives
<1> HIDE DEF here, g, P, at, all
<1>13. /\ ToStart(all) \in Seq(Location)
       /\ \A l : l \in Elements(ToStart(all)) <=> l \in Elements(all) /\ l.start
  BY <1>11, ToStartStarts
<1>14. \A l : l \in Started(d) <=> l \in Elements(d.own) \cup Elements(at) /\ l.start
  BY <1>10 DEF Started
<1> QED BY <1>11, <1>12, <1>13, <1>14

(* Each Location that waits is named, where it waits.                      *)
LEMMA LocationsNamed ==
    ASSUME NEW d \in Documents
    PROVE  /\ Locations(d) \in Seq(Named)
           /\ \A a : (\E p \in Elements(Locations(d)) : a = p.at)
                        <=> \E l \in Started(d) : waits(l) /\ a = l.address
<1> DEFINE all == Receives(d)
           I == {i \in DOMAIN all : waits(all[i])}
           waiting == Those(all, I)
           g == [l \in Location |-> [at |-> l.address, what |-> l.name]]
           r == [i \in DOMAIN waiting |->
                    [at |-> waiting[i].address, what |-> waiting[i].name]]
<1>1. all \in Seq(Location) /\ Elements(all) = Started(d)
  BY ReceivesStarted
<1>2. /\ waiting \in Seq(Location)
      /\ \A x : x \in Elements(waiting)
                   <=> \E k \in 1..Len(all) : k \in I /\ all[k] = x
  <2> HIDE DEF all, I
  <2> QED BY <1>1, ThoseKeeps
<1>3. /\ DOMAIN all = 1..Len(all)
      /\ \A x : x \in Elements(all) <=> \E i \in 1..Len(all) : all[i] = x
      /\ Elements(all) \subseteq Location
  <2> HIDE DEF all
  <2> QED BY <1>1, Indexed
<1>4. \A k \in 1..Len(all) : k \in I <=> waits(all[k])
  <2> HIDE DEF all
  <2> QED BY <1>3
<1>5. \A x : x \in Elements(waiting) <=> x \in Started(d) /\ waits(x)
  <2> HIDE DEF all, I, waiting
  <2>1. ASSUME NEW x \in Elements(waiting) PROVE x \in Started(d) /\ waits(x)
    <3>1. PICK k \in 1..Len(all) : k \in I /\ all[k] = x
      BY <1>2
    <3> QED BY <3>1, <1>1, <1>3, <1>4
  <2>2. ASSUME NEW x \in Started(d), waits(x) PROVE x \in Elements(waiting)
    <3>1. PICK k \in 1..Len(all) : all[k] = x
      BY <1>1, <1>3
    <3>2. k \in I
      BY <2>2, <3>1, <1>4
    <3> QED BY <3>1, <3>2, <1>2
  <2> QED BY <2>1, <2>2
<1>6. \A l \in Location : /\ [at |-> l.address, what |-> l.name] \in Named
                          /\ g[l] = [at |-> l.address, what |-> l.name]
  BY DEF Location, Named, What
<1>7. g \in [Location -> Named]
  BY <1>6
<1>8. /\ DOMAIN waiting = 1..Len(waiting)
      /\ \A i \in 1..Len(waiting) : waiting[i] \in Location
      /\ Elements(waiting) \subseteq Location
  <2> HIDE DEF waiting
  <2> QED BY <1>2, Indexed
<1>9. r = [i \in DOMAIN waiting |-> g[waiting[i]]]
  <2> HIDE DEF waiting, g
  <2>1. \A i \in DOMAIN waiting :
           g[waiting[i]] = [at |-> waiting[i].address, what |-> waiting[i].name]
    BY <1>6, <1>8
  <2> QED BY <2>1
<1>10. /\ r \in Seq(Named)
       /\ \A x : x \in Elements(r) <=> \E y \in Elements(waiting) : x = g[y]
  <2> HIDE DEF waiting, g, r
  <2> QED BY <1>2, <1>7, <1>9, Mapped
<1>11. Locations(d) = r
  BY DEF Locations
<1>12. \A y \in Elements(waiting) : g[y].at = y.address
  <2> HIDE DEF waiting
  <2> QED BY <1>8
<1> HIDE DEF all, I, waiting, g, r
<1>13. \A a : (\E p \in Elements(r) : a = p.at)
                 <=> \E l \in Elements(waiting) : a = l.address
  BY <1>10, <1>12
<1>14. \A a : (\E l \in Elements(waiting) : a = l.address)
                 <=> \E l \in Started(d) : waits(l) /\ a = l.address
  BY <1>5
<1> QED BY <1>10, <1>11, <1>13, <1>14

(* What is said of a listener is what it is called and where it is.        *)
LEMMA ANamed ==
    ASSUME NEW x \in Address, NEW w \in What
    PROVE  [at |-> x, what |-> w] \in Named /\ [at |-> x, what |-> w].at = x
BY DEF Named

(* A single listener is named.                                             *)
LEMMA OneNamed ==
    ASSUME NEW n \in Named
    PROVE  /\ <<n>> \in Seq(Named) /\ <<n>> # <<>>
           /\ \A a : (\E q \in Elements(<<n>>) : a = q.at) <=> a = n.at
<1>1. <<n>> \in Seq(Named) /\ <<n>> # <<>> /\ Elements(<<n>>) = {n}
  BY DEF Elements
<1> QED BY <1>1

(* A part that is not there names nothing.                                 *)
LEMMA NoneNamed == <<>> \in Seq(Named) /\ Elements(<<>>) = {}
BY DEF Elements

(* The authority's listeners: its ACME server and its list.                *)
ForAuthority(d, a) ==
    /\ d.source = "internal-ca"
    /\ (d.serve # None /\ a = d.serve) \/ (d.publish # None /\ a = d.publish)

(* What authority::listens names.                                          *)
LEMMA ListensNamed ==
    ASSUME NEW d \in Documents
    PROVE  /\ listens(d) \in Seq(Named)
           /\ \A a : (\E q \in Elements(listens(d)) : a = q.at) <=> ForAuthority(d, a)
           /\ listens(d) # <<>>
                <=> /\ d.source = "internal-ca"
                    /\ d.serve # None \/ d.publish # None
<1> DEFINE p == Part(d.serve # None, [at |-> d.serve, what |-> "ACME"])
           q == Part(d.publish # None, [at |-> d.publish, what |-> "list"])
<1>1. CASE d.source # "internal-ca"
  <2>1. listens(d) = <<>> /\ Elements(listens(d)) = {}
    BY <1>1 DEF listens, Elements
  <2> QED BY <1>1, <2>1 DEF ForAuthority
<1>2. CASE d.source = "internal-ca"
  <2>1. listens(d) = p \o q
    BY <1>2 DEF listens
  <2>2. d.serve # None => d.serve \in Address
    BY DocumentParts
  <2>3. d.publish # None => d.publish \in Address
    BY DocumentParts
  <2>4. /\ p \in Seq(Named) /\ (p = <<>> <=> ~(d.serve # None))
        /\ \A a : (\E x \in Elements(p) : a = x.at) <=> d.serve # None /\ a = d.serve
    <3>1. CASE d.serve = None
      <4>1. p = <<>>
        BY <3>1 DEF Part
      <4> HIDE DEF p
      <4> QED BY <3>1, <4>1, NoneNamed
    <3>2. CASE d.serve # None
      <4> DEFINE n == [at |-> d.serve, what |-> "ACME"]
      <4>1. p = <<n>>
        BY <3>2 DEF Part
      <4>2. n \in Named /\ n.at = d.serve
        BY <3>2, <2>2, ANamed DEF What
      <4> HIDE DEF n, p
      <4>3. /\ p \in Seq(Named) /\ p # <<>>
            /\ \A a : (\E x \in Elements(p) : a = x.at) <=> a = n.at
        BY <4>1, <4>2, OneNamed
      <4> QED BY <3>2, <4>2, <4>3
    <3> QED BY <3>1, <3>2
  <2>5. /\ q \in Seq(Named) /\ (q = <<>> <=> ~(d.publish # None))
        /\ \A a : (\E x \in Elements(q) : a = x.at) <=> d.publish # None /\ a = d.publish
    <3>1. CASE d.publish = None
      <4>1. q = <<>>
        BY <3>1 DEF Part
      <4> HIDE DEF q
      <4> QED BY <3>1, <4>1, NoneNamed
    <3>2. CASE d.publish # None
      <4> DEFINE n == [at |-> d.publish, what |-> "list"]
      <4>1. q = <<n>>
        BY <3>2 DEF Part
      <4>2. n \in Named /\ n.at = d.publish
        BY <3>2, <2>3, ANamed DEF What
      <4> HIDE DEF n, q
      <4>3. /\ q \in Seq(Named) /\ q # <<>>
            /\ \A a : (\E x \in Elements(q) : a = x.at) <=> a = n.at
        BY <4>1, <4>2, OneNamed
      <4> QED BY <3>2, <4>2, <4>3
    <3> QED BY <3>1, <3>2
  <2> HIDE DEF p, q
  <2>6. /\ p \o q \in Seq(Named) /\ Len(p \o q) = Len(p) + Len(q)
        /\ Elements(p \o q) = Elements(p) \cup Elements(q)
    BY <2>4, <2>5, Concat
  <2>7. \A s \in Seq(Named) : Len(s) \in Nat /\ (s = <<>> <=> Len(s) = 0)
    OBVIOUS
  <2>8. p \o q = <<>> <=> p = <<>> /\ q = <<>>
    <3>1. Len(p) \in Nat /\ (p = <<>> <=> Len(p) = 0)
      BY <2>4, <2>7
    <3>2. Len(q) \in Nat /\ (q = <<>> <=> Len(q) = 0)
      BY <2>5, <2>7
    <3>3. p \o q = <<>> <=> Len(p \o q) = 0
      BY <2>6, <2>7
    <3> QED BY <3>1, <3>2, <3>3, <2>6
  <2>9. \A a : (\E x \in Elements(p \o q) : a = x.at)
                  <=> \/ \E x \in Elements(p) : a = x.at
                      \/ \E x \in Elements(q) : a = x.at
    BY <2>6
  <2>10. \A a : (\E x \in Elements(p \o q) : a = x.at) <=> ForAuthority(d, a)
    BY <1>2, <2>9, <2>4, <2>5 DEF ForAuthority
  <2> QED BY <1>2, <2>1, <2>4, <2>5, <2>6, <2>8, <2>10
<1> QED BY <1>1, <1>2

(* The addresses a configuration names for a listener, another one naming  *)
(* the authority's.                                                        *)
NamedAt(d, e, a) ==
    \/ d.operate # None /\ a = d.operate
    \/ d.stores /\ d.storage # None /\ a = d.storage
    \/ ForAuthority(e, a)
    \/ \E l \in Started(d) : waits(l) /\ a = l.address

(* Listeners names each of them.                                           *)
LEMMA ListenersNamed ==
    ASSUME NEW d \in Documents, NEW e \in Documents
    PROVE  /\ Listeners(d, e) \in Seq(Named)
           /\ \A a : (\E q \in Elements(Listeners(d, e)) : a = q.at)
                        <=> NamedAt(d, e, a)
<1> DEFINE p == Part(d.operate # None, [at |-> d.operate, what |-> "operate"])
           q == Part(d.stores /\ d.storage # None,
                     [at |-> d.storage, what |-> "storage"])
           r == listens(e)
           t == Locations(d)
           at(s, a) == \E x \in Elements(s) : a = x.at
<1>1. /\ p \in Seq(Named)
      /\ \A a : at(p, a) <=> d.operate # None /\ a = d.operate
  <2>1. d.operate # None => d.operate \in Address
    BY DocumentParts
  <2>2. CASE d.operate = None
    <3>1. p = <<>>
      BY <2>2 DEF Part
    <3> HIDE DEF p
    <3> QED BY <2>2, <3>1, NoneNamed
  <2>3. CASE d.operate # None
    <3> DEFINE n == [at |-> d.operate, what |-> "operate"]
    <3>1. p = <<n>>
      BY <2>3 DEF Part
    <3>2. n \in Named /\ n.at = d.operate
      BY <2>3, <2>1, ANamed DEF What
    <3> HIDE DEF n, p
    <3>3. p \in Seq(Named) /\ \A a : at(p, a) <=> a = n.at
      BY <3>1, <3>2, OneNamed
    <3> QED BY <2>3, <3>2, <3>3
  <2> QED BY <2>2, <2>3
<1>2. /\ q \in Seq(Named)
      /\ \A a : at(q, a) <=> d.stores /\ d.storage # None /\ a = d.storage
  <2>1. (d.stores /\ d.storage # None) => d.storage \in Address
    BY DocumentParts
  <2>2. CASE ~(d.stores /\ d.storage # None)
    <3>1. q = <<>>
      BY <2>2 DEF Part
    <3> HIDE DEF q
    <3> QED BY <2>2, <3>1, NoneNamed
  <2>3. CASE d.stores /\ d.storage # None
    <3> DEFINE n == [at |-> d.storage, what |-> "storage"]
    <3>1. q = <<n>>
      BY <2>3 DEF Part
    <3>2. n \in Named /\ n.at = d.storage
      BY <2>3, <2>1, ANamed DEF What
    <3> HIDE DEF n, q
    <3>3. q \in Seq(Named) /\ \A a : at(q, a) <=> a = n.at
      BY <3>1, <3>2, OneNamed
    <3> QED BY <2>3, <3>2, <3>3
  <2> QED BY <2>2, <2>3
<1>3. r \in Seq(Named) /\ \A a : at(r, a) <=> ForAuthority(e, a)
  BY ListensNamed
<1>4. /\ t \in Seq(Named)
      /\ \A a : at(t, a) <=> \E l \in Started(d) : waits(l) /\ a = l.address
  BY LocationsNamed
<1>5. Listeners(d, e) = ((p \o q) \o r) \o t
  BY DEF Listeners
<1> HIDE DEF p, q, r, t
<1>6. ASSUME NEW x \in Seq(Named), NEW y \in Seq(Named)
      PROVE  x \o y \in Seq(Named) /\ \A a : at(x \o y, a) <=> at(x, a) \/ at(y, a)
  <2>1. x \o y \in Seq(Named) /\ Elements(x \o y) = Elements(x) \cup Elements(y)
    BY Concat
  <2> QED BY <2>1
<1> HIDE DEF at
<1>7. p \o q \in Seq(Named) /\ \A a : at(p \o q, a) <=> at(p, a) \/ at(q, a)
  BY <1>1, <1>2, <1>6
<1> DEFINE m == p \o q
<1>8. m \o r \in Seq(Named) /\ \A a : at(m \o r, a) <=> at(m, a) \/ at(r, a)
  <2>1. m \in Seq(Named)
    BY <1>7
  <2> HIDE DEF m
  <2> QED BY <2>1, <1>3, <1>6
<1> DEFINE n == m \o r
<1>9. n \o t \in Seq(Named) /\ \A a : at(n \o t, a) <=> at(n, a) \/ at(t, a)
  <2>1. n \in Seq(Named)
    BY <1>8
  <2> HIDE DEF n
  <2> QED BY <2>1, <1>4, <1>6
<1>10. \A a : at(n \o t, a) <=> NamedAt(d, e, a)
  <2> SUFFICES ASSUME NEW a PROVE at(n \o t, a) <=> NamedAt(d, e, a)
    OBVIOUS
  <2>1. at(n \o t, a) <=> at(p, a) \/ at(q, a) \/ at(r, a) \/ at(t, a)
    BY <1>7, <1>8, <1>9
  <2>2. at(n \o t, a)
           <=> \/ d.operate # None /\ a = d.operate
               \/ d.stores /\ d.storage # None /\ a = d.storage
               \/ ForAuthority(e, a) \/ at(t, a)
    BY <2>1, <1>1, <1>2, <1>3
  <2> QED BY <2>2, <1>4 DEF NamedAt
<1> QED BY <1>5, <1>9, <1>10 DEF at

(* What the lines say of what a configuration names, another one naming    *)
(* the authority's: the ports of the addresses, each in one line, over TCP. *)
LEMMA LinesOf ==
    ASSUME NEW d \in Documents, NEW e \in Documents
    PROVE  LET s == Lines(Listeners(d, e))
           IN  /\ s \in Seq(Line)
               /\ \A p : p \in Ports(s)
                            <=> p # 0 /\ \E a : NamedAt(d, e, a) /\ p = port_of(a)
               /\ Len(s) = Cardinality(Ports(s))
<1> DEFINE s == Listeners(d, e)
<1>1. s \in Seq(Named) /\ \A a : (\E q \in Elements(s) : a = q.at) <=> NamedAt(d, e, a)
  BY ListenersNamed
<1> HIDE DEF s
<1>2. /\ Lines(s) \in Seq(Line)
      /\ \A p : p \in Ports(Lines(s))
                   <=> p # 0 /\ \E l \in Elements(s) : p = port_of(l.at)
      /\ Len(Lines(s)) = Cardinality(Ports(Lines(s)))
  BY <1>1, LinesSay
<1>3. \A p : (\E l \in Elements(s) : p = port_of(l.at))
                <=> \E a : NamedAt(d, e, a) /\ p = port_of(a)
  BY <1>1
<1> QED BY <1>2, <1>3 DEF s

------------------------------------------------------------------------------
(* The inductive invariant: what a node holds is what the documents it read *)
(* name, as far as its start has come.                                      *)

(* What a start binds, call by call: Running::start, operated, and of the   *)
(* authority its ACME server and its list.                                  *)
StartHeld(d) ==
    Held(Listener("storage", IF d.stores THEN d.storage ELSE None)
             \cup Waiting(d))

OperateHeld(d) == Held(Listener("operate", d.operate))

ServeHeld(d) ==
    IF listens(d) = <<>> THEN {} ELSE Held(Listener("ACME", d.serve))

ListHeld(d) ==
    IF listens(d) = <<>> THEN {} ELSE Held(Listener("list", d.publish))

(* What the node read, and read it before it got where it is.               *)
ReadOK ==
    /\ document \in Documents
    /\ pc \in {"down", "operate", "authorize", "publish", "up"}
    /\ pc # "down" => first \in Documents /\ Startable(first)
    /\ pc \in {"publish", "up"} => second \in Documents
    /\ pc = "publish" => listens(second) # <<>>

(* What it holds.                                                           *)
BoundOK ==
    /\ pc = "operate" => bound = StartHeld(first)
    /\ pc = "authorize" => bound = StartHeld(first) \cup OperateHeld(first)
    /\ pc = "publish" =>
          bound = StartHeld(first) \cup OperateHeld(first) \cup ServeHeld(second)
    /\ pc = "up" =>
          bound = (StartHeld(first) \cup OperateHeld(first) \cup ServeHeld(second))
                     \cup ListHeld(second)

(* What was said stays what is to be said of that configuration.            *)
SaidOK ==
    saidOf # None =>
        /\ saidOf \in Documents
        /\ Ports(said) = Ports(listening(saidOf))
        /\ Len(said) = Cardinality(Ports(listening(saidOf)))

IInv == ReadOK /\ BoundOK /\ SaidOK

(* A socket of h is at an address.                                         *)
At(h, a) == \E x \in h : x.address = a

(* What two hold together.                                                 *)
LEMMA AtEither ==
    ASSUME NEW h, NEW k, NEW a
    PROVE  At(h \cup k, a) <=> At(h, a) \/ At(k, a)
BY DEF At

(* What listeners hold: a socket each, unless it is a path.                *)
LEMMA HeldAt ==
    ASSUME NEW s, NEW a
    PROVE  At(Held(s), a) <=> a.socket /\ \E l \in s : l.address = a
<1> DEFINE x(l) == [protocol |-> l.protocol, address |-> l.address]
<1>1. \A l : x(l).address = l.address
  OBVIOUS
<1>2. \A y : y \in Held(s) <=> \E l \in s : l.address.socket /\ y = x(l)
  BY DEF Held
<1> HIDE DEF x
<1>3. ASSUME At(Held(s), a) PROVE a.socket /\ \E l \in s : l.address = a
  <2>1. PICK y \in Held(s) : y.address = a
    BY <1>3 DEF At
  <2>2. PICK l \in s : l.address.socket /\ y = x(l)
    BY <1>2
  <2> QED BY <1>1, <2>1, <2>2
<1>4. ASSUME a.socket, NEW l \in s, l.address = a PROVE At(Held(s), a)
  <2>1. x(l) \in Held(s) /\ x(l).address = a
    BY <1>1, <1>2, <1>4
  <2> QED BY <2>1 DEF At
<1> QED BY <1>3, <1>4

(* What one listener's binding holds.                                      *)
LEMMA ListenerHeld ==
    ASSUME NEW w, NEW x, NEW a
    PROVE  At(Held(Listener(w, x)), a) <=> x # None /\ a = x /\ a.socket
<1> DEFINE s == Listener(w, x)
<1>1. (\E l \in s : l.address = a) <=> x # None /\ a = x
  <2>1. CASE x = None
    BY <2>1 DEF Listener
  <2>2. CASE x # None
    <3> DEFINE n == [name |-> w, protocol |-> "tcp", address |-> x]
    <3>1. s = {n} /\ n.address = x
      BY <2>2 DEF Listener
    <3> HIDE DEF n, s
    <3> QED BY <2>2, <3>1
  <2> QED BY <2>1, <2>2
<1> HIDE DEF s
<1>2. At(Held(s), a) <=> a.socket /\ \E l \in s : l.address = a
  BY HeldAt
<1> QED BY <1>1, <1>2 DEF s

(* Where the Locations wait.                                               *)
LEMMA WaitingAt ==
    ASSUME NEW d, NEW a
    PROVE  (\E l \in Waiting(d) : l.address = a)
               <=> \E l \in Started(d) : l.waits /\ a = l.address
<1> DEFINE x(l) == [name |-> l.name, protocol |-> Protocol(l.technology),
                    address |-> l.address]
<1>1. \A l : x(l).address = l.address
  OBVIOUS
<1>2. \A y : y \in Waiting(d) <=> \E l \in Started(d) : l.waits /\ y = x(l)
  BY DEF Waiting
<1> HIDE DEF x
<1> QED BY <1>1, <1>2

(* What Running::start holds.                                              *)
LEMMA StartHolds ==
    ASSUME NEW d \in Documents, NEW a
    PROVE  At(StartHeld(d), a) <=>
              /\ a.socket
              /\ \/ d.stores /\ d.storage # None /\ a = d.storage
                 \/ \E l \in Started(d) : l.waits /\ a = l.address
<1> DEFINE x == IF d.stores THEN d.storage ELSE None
           p == Listener("storage", x)
           q == Waiting(d)
<1>1. At(Held(p), a) <=> x # None /\ a = x /\ a.socket
  <2> HIDE DEF x
  <2> QED BY ListenerHeld
<1>2. (\E l \in q : l.address = a) <=> \E l \in Started(d) : l.waits /\ a = l.address
  BY WaitingAt
<1>3. Held(p \cup q) = Held(p) \cup Held(q)
  <2> HIDE DEF p, q
  <2> QED BY DEF Held
<1>4. (x # None /\ a = x) <=> (d.stores /\ d.storage # None /\ a = d.storage)
  BY DocumentParts
<1>5. StartHeld(d) = Held(p \cup q)
  BY DEF StartHeld
<1> HIDE DEF p, q, x
<1>6. At(Held(q), a) <=> a.socket /\ \E l \in q : l.address = a
  BY HeldAt
<1>7. At(StartHeld(d), a) <=> At(Held(p), a) \/ At(Held(q), a)
  BY <1>3, <1>5, AtEither
<1> QED BY <1>1, <1>2, <1>4, <1>6, <1>7

(* What the authority holds.                                               *)
LEMMA AuthorityHolds ==
    ASSUME NEW d \in Documents, NEW a
    PROVE  At(ServeHeld(d), a) \/ At(ListHeld(d), a) <=> a.socket /\ ForAuthority(d, a)
<1>1. listens(d) # <<>> <=> /\ d.source = "internal-ca"
                            /\ d.serve # None \/ d.publish # None
  BY ListensNamed
<1>2. CASE listens(d) = <<>>
  BY <1>1, <1>2 DEF ServeHeld, ListHeld, ForAuthority, At
<1>3. CASE listens(d) # <<>>
  <2>1. At(ServeHeld(d), a) <=> d.serve # None /\ a = d.serve /\ a.socket
    BY <1>3, ListenerHeld DEF ServeHeld
  <2>2. At(ListHeld(d), a) <=> d.publish # None /\ a = d.publish /\ a.socket
    BY <1>3, ListenerHeld DEF ListHeld
  <2> QED BY <1>1, <1>3, <2>1, <2>2 DEF ForAuthority
<1> QED BY <1>2, <1>3

(* A configuration that could be started has no Location --listening has   *)
(* to guess about.                                                         *)
LEMMA StartableWaits ==
    ASSUME NEW d, Startable(d), NEW l \in Started(d)
    PROVE  waits(l) <=> l.waits
<1>1. l.technology \in Linked(d).transports
  BY DEF Startable
<1>2. Linked(d).transports = transports(build)
  BY DEF Linked, linked
<1> QED BY <1>1, <1>2 DEF waits

(* A start that read d and then e holds a socket at each address they name *)
(* that is no path.                                                        *)
LEMMA AllHeld ==
    ASSUME NEW d \in Documents, Startable(d), NEW e \in Documents, NEW h,
           h = (StartHeld(d) \cup OperateHeld(d) \cup ServeHeld(e)) \cup ListHeld(e),
           NEW a
    PROVE  At(h, a) <=> a.socket /\ NamedAt(d, e, a)
<1>1. At(OperateHeld(d), a) <=> d.operate # None /\ a = d.operate /\ a.socket
  BY ListenerHeld DEF OperateHeld
<1>2. (\E l \in Started(d) : waits(l) /\ a = l.address)
         <=> \E l \in Started(d) : l.waits /\ a = l.address
  BY StartableWaits
<1>3. At(StartHeld(d), a) <=>
         /\ a.socket
         /\ \/ d.stores /\ d.storage # None /\ a = d.storage
            \/ \E l \in Started(d) : waits(l) /\ a = l.address
  BY <1>2, StartHolds
<1>4. At(ServeHeld(e), a) \/ At(ListHeld(e), a) <=> a.socket /\ ForAuthority(e, a)
  BY AuthorityHolds
<1>5. At(h, a) <=> \/ At(StartHeld(d), a) \/ At(OperateHeld(d), a)
                   \/ At(ServeHeld(e), a) \/ At(ListHeld(e), a)
  BY DEF At
<1> QED BY <1>1, <1>3, <1>4, <1>5 DEF NamedAt

(* What is named is an address.                                            *)
LEMMA NamedAddress ==
    ASSUME NEW d \in Documents, NEW e \in Documents, NEW a, NamedAt(d, e, a)
    PROVE  a \in Address /\ port_of(a) \in Nat
<1>1. Started(d) \subseteq Location
  <2>1. Receives(d) \in Seq(Location) /\ Elements(Receives(d)) = Started(d)
    BY ReceivesStarted
  <2> QED BY <2>1, Indexed
<1>2. a \in Address
  BY <1>1, DocumentParts DEF NamedAt, ForAuthority, Location
<1> QED BY <1>2, PortsAreNumbers

(* The lines open the ports of the sockets held, every one over TCP.       *)
LEMMA PortsHeld ==
    ASSUME NEW d \in Documents, Startable(d), NEW e \in Documents, NEW h,
           h = (StartHeld(d) \cup OperateHeld(d) \cup ServeHeld(e)) \cup ListHeld(e)
    PROVE  LET s == Lines(Listeners(d, e))
           IN  /\ \A p : p \in Ports(s)
                            <=> p # 0 /\ \E x \in h : p = port_of(x.address)
               /\ \A o \in Elements(s) : o.protocol = "tcp"
               /\ \A x \in h : port_of(x.address) \in Nat
<1> DEFINE s == Lines(Listeners(d, e))
<1>1. /\ s \in Seq(Line)
      /\ \A p : p \in Ports(s)
                   <=> p # 0 /\ \E a : NamedAt(d, e, a) /\ p = port_of(a)
  BY LinesOf
<1>2. \A a : At(h, a) <=> a.socket /\ NamedAt(d, e, a)
  BY AllHeld
<1>3. \A x \in h : At(h, x.address)
  BY DEF At
<1>4. \A x \in h : port_of(x.address) \in Nat
  BY <1>2, <1>3, NamedAddress
<1> HIDE DEF s
<1>5. \A o \in Elements(s) : o.protocol = "tcp"
  <2>1. Elements(s) \subseteq Line
    BY <1>1, Indexed
  <2> QED BY <2>1, PortsAreNumbers
<1>6. \A a : NamedAt(d, e, a) /\ port_of(a) # 0 => At(h, a)
  <2>1. \A a : port_of(a) # 0 => a.socket
    BY DEF port_of
  <2> QED BY <1>2, <2>1
<1>7. \A p : (p # 0 /\ \E a : NamedAt(d, e, a) /\ p = port_of(a))
                <=> p # 0 /\ \E x \in h : p = port_of(x.address)
  <2>1. ASSUME NEW p, p # 0, NEW a, NamedAt(d, e, a), p = port_of(a)
        PROVE  \E x \in h : p = port_of(x.address)
    <3>1. At(h, a)
      BY <1>6, <2>1
    <3>2. PICK x \in h : x.address = a
      BY <3>1 DEF At
    <3> QED BY <2>1, <3>2
  <2>2. ASSUME NEW p, p # 0, NEW x \in h, p = port_of(x.address)
        PROVE  \E a : NamedAt(d, e, a) /\ p = port_of(a)
    BY <1>2, <1>3, <2>2
  <2> QED BY <2>1, <2>2
<1> QED BY <1>1, <1>4, <1>5, <1>7 DEF s

(* The inductive invariant implies FirewallFits.                           *)
LEMMA Fits == ASSUME IInv PROVE FirewallFits
<1> SUFFICES ASSUME pc = "up" PROVE FirewallFits
  BY DEF FirewallFits
<1>1. PICK f, g, h : f = first /\ g = second /\ h = bound
  OBVIOUS
<1> DEFINE s == Lines(Listeners(f, g))
           held == {port_of(x.address) : x \in h}
<1>2. /\ f \in Documents /\ g \in Documents /\ Startable(f)
      /\ h = (StartHeld(f) \cup OperateHeld(f) \cup ServeHeld(g)) \cup ListHeld(g)
  BY <1>1 DEF IInv, ReadOK, BoundOK
<1>3. /\ \A p : p \in Ports(s) <=> p # 0 /\ \E x \in h : p = port_of(x.address)
      /\ \A o \in Elements(s) : o.protocol = "tcp"
      /\ \A x \in h : port_of(x.address) \in Nat
  BY <1>2, PortsHeld
<1>5. ASSUME saidOf = f, f = g PROVE Len(said) = Cardinality(held \ {0})
  <2>1. f # None /\ listening(f) = s
    BY <1>2, <1>5, ListeningAssumption DEF listening
  <2>2. Len(said) = Cardinality(Ports(s))
    BY <1>5, <2>1 DEF IInv, SaidOK
  <2> HIDE DEF s
  <2>3. Ports(s) = held \ {0}
    BY <1>3
  <2> QED BY <2>2, <2>3
<1> HIDE DEF s
<1>6. \A o \in Elements(s) : o.port \in Ports(s)
  BY DEF Ports
<1>7. \A p \in Ports(s) : \E o \in Elements(s) : o.port = p
  BY DEF Ports
<1>8. ASSUME NEW x \in h
      PROVE  (\E o \in Elements(s) : /\ o.port = port_of(x.address)
                                     /\ o.protocol = x.protocol)
                 <=> x.protocol = "tcp" /\ port_of(x.address) > 0
  <2>1. port_of(x.address) > 0 <=> port_of(x.address) \in Ports(s)
    BY <1>3
  <2> QED BY <2>1, <1>3, <1>6, <1>7
<1>9. \A o \in Elements(s) : \E x \in h : port_of(x.address) = o.port
  BY <1>3, <1>6
<1> QED BY <1>1, <1>5, <1>8, <1>9 DEF FirewallFits, s

------------------------------------------------------------------------------
(* Each step keeps the invariant.                                          *)

(* No step changes the build.                                              *)
LEMMA BuildKept == ASSUME [Next]_vars PROVE build' = build
BY DEF Next, vars, Start, Operate, Authorize, Publish, Refused, Drain, Refuse,
       Ask, Edit, Others, Arrive

(* ... so what a configuration names and whether it can be started stay.   *)
LEMMA SameBuild ==
    ASSUME NEW d, build' = build
    PROVE  /\ Startable(d) => Startable(d)'
           /\ listening(d)' = listening(d)
<1>1. Startable(d) => Startable(d)'
  BY DEF Startable, Linked
<1>2. listening(d)' = listening(d)
  BY DEF listening, Listeners, Locations, waits
<1> QED BY <1>1, <1>2

(* A step that does not touch the node's own variables keeps ReadOK and     *)
(* BoundOK.                                                                 *)
LEMMA NodeKept ==
    ASSUME ReadOK, BoundOK, build' = build, UNCHANGED nodeVars, document' \in Documents
    PROVE  ReadOK' /\ BoundOK'
<1>1. PICK f, g, h : f = first /\ g = second /\ h = bound
  OBVIOUS
<1>2. first' = f /\ second' = g /\ bound' = h /\ pc' = pc
  BY <1>1 DEF nodeVars
<1>3. Startable(f) => Startable(f)'
  BY SameBuild
<1>4. pc # "down" => f \in Documents /\ Startable(f)
  BY <1>1 DEF ReadOK
<1>5. pc' # "down" => first' \in Documents /\ Startable(first)'
  BY <1>2, <1>3, <1>4
<1>6. ReadOK'
  BY <1>1, <1>2, <1>5 DEF ReadOK
<1>7. BoundOK'
  BY <1>1, <1>2 DEF BoundOK
<1> QED BY <1>6, <1>7

(* A step that says nothing keeps SaidOK.                                   *)
LEMMA SaidKept ==
    ASSUME SaidOK, build' = build, said' = said, saidOf' = saidOf
    PROVE  SaidOK'
<1>1. PICK d, s : d = saidOf /\ s = said
  OBVIOUS
<1>2. listening(d)' = listening(d)
  BY SameBuild
<1>3. saidOf' = d /\ said' = s
  BY <1>1
<1>4. Ports(s)' = Ports(s)
  OBVIOUS
<1> QED BY <1>1, <1>2, <1>3, <1>4 DEF SaidOK

(* A refusal, and the drain.                                                *)
LEMMA RefuseKeeps ==
    ASSUME IInv, Refuse PROVE IInv'
<1>1. SaidOK'
  BY SaidKept DEF IInv, Refuse
<1>2. ReadOK'
  BY DEF IInv, ReadOK, Refuse
<1>3. BoundOK'
  BY DEF BoundOK, Refuse
<1> QED BY <1>1, <1>2, <1>3 DEF IInv

(* Running::start.                                                          *)
LEMMA StartKeeps ==
    ASSUME IInv, Start PROVE IInv'
<1>1. SaidOK'
  BY SaidKept DEF IInv, Start
<1>2. PICK d : d = document
  OBVIOUS
<1>3. /\ d \in Documents /\ Startable(d) /\ bound' = StartHeld(d)
      /\ pc' = "operate" /\ first' = d /\ document' = d /\ build' = build
  BY <1>2 DEF Start, IInv, ReadOK, StartHeld
<1>4. Startable(d)'
  BY <1>3, SameBuild
<1>5. ReadOK'
  BY <1>3, <1>4 DEF ReadOK
<1>6. BoundOK'
  BY <1>3 DEF BoundOK
<1> QED BY <1>1, <1>5, <1>6 DEF IInv

(* operated.                                                                *)
LEMMA OperateKeeps ==
    ASSUME IInv, Operate PROVE IInv'
<1>1. SaidOK'
  BY SaidKept DEF IInv, Operate
<1>2. PICK f, d : f = first /\ d = document
  OBVIOUS
<1>3. /\ f \in Documents /\ Startable(f) /\ d \in Documents
      /\ bound' = StartHeld(f) \cup OperateHeld(f)
      /\ pc' = "authorize" /\ first' = f /\ document' = d /\ build' = build
  BY <1>2 DEF Operate, IInv, ReadOK, BoundOK, OperateHeld
<1>4. Startable(f)'
  BY <1>3, SameBuild
<1>5. ReadOK'
  BY <1>3, <1>4 DEF ReadOK
<1>6. BoundOK'
  BY <1>3 DEF BoundOK
<1> QED BY <1>1, <1>5, <1>6 DEF IInv

(* authorized, and its serve: nothing where the second reading names no     *)
(* authority.                                                               *)
LEMMA AuthorizeKeeps ==
    ASSUME IInv, Authorize PROVE IInv'
<1>1. SaidOK'
  BY SaidKept DEF IInv, Authorize
<1>2. PICK f, d : f = first /\ d = document
  OBVIOUS
<1>3. /\ f \in Documents /\ Startable(f) /\ d \in Documents
      /\ bound = StartHeld(f) \cup OperateHeld(f) /\ serve(d)
      /\ first' = f /\ second' = d /\ document' = d /\ build' = build
  BY <1>2 DEF Authorize, IInv, ReadOK, BoundOK
<1>4. Startable(f)'
  BY <1>3, SameBuild
<1>5. CASE listens(d) = <<>>
  <2>1. /\ pc' = "up"
        /\ bound' = (StartHeld(f) \cup OperateHeld(f) \cup ServeHeld(d)) \cup ListHeld(d)
    BY <1>3, <1>5 DEF serve, ServeHeld, ListHeld
  <2>2. ReadOK'
    BY <1>3, <1>4, <2>1 DEF ReadOK
  <2>3. BoundOK'
    BY <1>3, <2>1 DEF BoundOK
  <2> QED BY <1>1, <2>2, <2>3 DEF IInv
<1>6. CASE listens(d) # <<>>
  <2>1. pc' = "publish" /\ bound' = StartHeld(f) \cup OperateHeld(f) \cup ServeHeld(d)
    BY <1>3, <1>6 DEF serve, served, ServeHeld
  <2>2. ReadOK'
    BY <1>3, <1>4, <1>6, <2>1 DEF ReadOK
  <2>3. BoundOK'
    BY <1>3, <2>1 DEF BoundOK
  <2> QED BY <1>1, <2>2, <2>3 DEF IInv
<1> QED BY <1>5, <1>6

(* ... and its list.                                                        *)
LEMMA PublishKeeps ==
    ASSUME IInv, Publish PROVE IInv'
<1>1. SaidOK'
  BY SaidKept DEF IInv, Publish
<1>2. PICK f, g, d : f = first /\ g = second /\ d = document
  OBVIOUS
<1>3. /\ f \in Documents /\ Startable(f) /\ g \in Documents /\ d \in Documents
      /\ bound' = (StartHeld(f) \cup OperateHeld(f) \cup ServeHeld(g)) \cup ListHeld(g)
      /\ pc' = "up" /\ first' = f /\ second' = g /\ document' = d /\ build' = build
  BY <1>2 DEF Publish, IInv, ReadOK, BoundOK, ListHeld
<1>4. Startable(f)'
  BY <1>3, SameBuild
<1>5. ReadOK'
  BY <1>3, <1>4 DEF ReadOK
<1>6. BoundOK'
  BY <1>3 DEF BoundOK
<1> QED BY <1>1, <1>5, <1>6 DEF IInv

(* --listening.                                                             *)
LEMMA AskKeeps ==
    ASSUME IInv, Ask PROVE IInv'
<1>1. ReadOK' /\ BoundOK'
  BY NodeKept DEF IInv, Ask, ReadOK
<1>2. PICK d : d = document
  OBVIOUS
<1>3. /\ d \in Documents /\ said' = listening(d) /\ saidOf' = d /\ build' = build
  BY <1>2 DEF Ask, IInv, ReadOK
<1>4. listening(d)' = listening(d)
  BY <1>3, SameBuild
<1>5. Len(listening(d)) = Cardinality(Ports(listening(d)))
  BY <1>3, LinesOf DEF listening
<1>6. SaidOK'
  BY <1>3, <1>4, <1>5 DEF SaidOK
<1> QED BY <1>1, <1>6 DEF IInv

(* The inductive invariant holds at every step.                             *)
THEOREM ListeningInvariant == Spec => []IInv
<1>1. Init => IInv
  BY DEF Init, IInv, ReadOK, BoundOK, SaidOK
<1>2. IInv /\ [Next]_vars => IInv'
  <2> SUFFICES ASSUME IInv, [Next]_vars PROVE IInv'
    OBVIOUS
  <2>1. build' = build
    BY BuildKept
  <2>2. CASE Start BY <2>2, StartKeeps
  <2>3. CASE Operate BY <2>3, OperateKeeps
  <2>4. CASE Authorize BY <2>4, AuthorizeKeeps
  <2>5. CASE Publish BY <2>5, PublishKeeps
  <2>6. CASE Refused BY <2>6, RefuseKeeps DEF Refused
  <2>7. CASE Drain BY <2>7, RefuseKeeps DEF Drain
  <2>8. CASE Ask BY <2>8, AskKeeps
  <2>9. CASE Edit
    <3>1. document' \in Documents /\ UNCHANGED nodeVars /\ said' = said /\ saidOf' = saidOf
      BY <2>9 DEF Edit
    <3> QED BY <2>1, <3>1, NodeKept, SaidKept DEF IInv
  <2>10. ASSUME NEW a \in Sockets, Others(a) PROVE IInv'
    <3>1. document' = document /\ UNCHANGED nodeVars /\ said' = said /\ saidOf' = saidOf
      BY <2>10 DEF Others
    <3> QED BY <2>1, <3>1, NodeKept, SaidKept DEF IInv, ReadOK
  <2>11. ASSUME NEW presented \in Presented, Arrive(presented) PROVE IInv'
    <3>1. document' = document /\ UNCHANGED nodeVars /\ said' = said /\ saidOf' = saidOf
      BY <2>11 DEF Arrive
    <3> QED BY <2>1, <3>1, NodeKept, SaidKept DEF IInv, ReadOK
  <2>12. CASE UNCHANGED vars
    <3>1. document' = document /\ UNCHANGED nodeVars /\ said' = said /\ saidOf' = saidOf
      BY <2>12 DEF vars, nodeVars
    <3> QED BY <2>1, <3>1, NodeKept, SaidKept DEF IInv, ReadOK
  <2> QED
    BY <2>2, <2>3, <2>4, <2>5, <2>6, <2>7, <2>8, <2>9, <2>10, <2>11, <2>12 DEF Next
<1> QED BY <1>1, <1>2, PTL DEF Spec

(* FirewallFits for every configuration, build and number of edits: of the  *)
(* sockets a node that serves holds, the lines of what it read open exactly *)
(* TCP's at a named port, and no port nobody holds (run.rs operated,        *)
(* authorized; listening.rs listening).                                     *)
THEOREM FirewallHolds == Spec => []FirewallFits
<1>1. IInv => FirewallFits
  BY Fits
<1> QED BY <1>1, ListeningInvariant, PTL

------------------------------------------------------------------------------
(* Who an arrival is known as.                                             *)

(* The technologies of the first gate.                                     *)
Gate == {"identify-certificate", "identify-jwt", "identify-api-key",
         "identify-username", "identify-broker", "identify-ip"}

(* ... in the order the gate asks them.                                    *)
LEMMA GateOrder ==
    /\ Identifiers \in Seq(Gate) /\ Len(Identifiers) = 6
    /\ \A m \in Gate : \E k \in 1..6 : Identifiers[k] = m
<1>1. Identifiers \in Seq(Gate) /\ Len(Identifiers) = 6
  BY DEF Identifiers, Gate
<1>2. /\ Identifiers[1] = "identify-certificate" /\ Identifiers[2] = "identify-jwt"
      /\ Identifiers[3] = "identify-api-key" /\ Identifiers[4] = "identify-username"
      /\ Identifiers[5] = "identify-broker" /\ Identifiers[6] = "identify-ip"
  BY DEF Identifiers
<1> QED BY <1>1, <1>2 DEF Gate

(* What a claim is worth is a number, nothing for one no gate reads.       *)
LEMMA WorthNumbers ==
    /\ \A m : Worth(m) \in Nat
    /\ \A m : m \notin Gate => Worth(m) = 0
BY DEF Worth, Gate

(* The gate asks for what is worth more first.                             *)
LEMMA GateWorth ==
    ASSUME NEW k \in 1..6, NEW l \in 1..6, k < l
    PROVE  Worth(Identifiers[k]) >= Worth(Identifiers[l])
<1> DEFINE w == [i \in 1..6 |-> Worth(Identifiers[i])]
<1>1. w[1] = 4 /\ w[2] = 3 /\ w[3] = 3 /\ w[4] = 3 /\ w[5] = 2 /\ w[6] = 1
  BY DEF Identifiers, Worth
<1>2. k \in {1, 2, 3, 4, 5, 6} /\ l \in {1, 2, 3, 4, 5, 6}
  OBVIOUS
<1>3. w[k] = Worth(Identifiers[k]) /\ w[l] = Worth(Identifiers[l])
  OBVIOUS
<1> HIDE DEF w
<1> QED BY <1>1, <1>2, <1>3

(* The technologies a build asks are those it reads, in the gate's order.  *)
LEMMA AskedInOrder ==
    ASSUME NEW b, "identify" \in b
    PROVE  LET asked == transport_identifiers(b)
           IN  /\ asked \in Seq(Gate)
               /\ \A m : m \in Elements(asked)
                            <=> m \in Gate /\ m \in b \cup {"identify-broker"}
               /\ \A i, j \in 1..Len(asked) :
                     i < j => Worth(asked[i]) >= Worth(asked[j])
<1> DEFINE J == {i \in DOMAIN Identifiers : Identifiers[i] \in b \cup {"identify-broker"}}
           asked == transport_identifiers(b)
<1>1. asked = Those(Identifiers, J)
  BY DEF transport_identifiers
<1>2. DOMAIN Identifiers = 1..6
  BY GateOrder
<1>3. \A k \in 1..6 : k \in J <=> Identifiers[k] \in b \cup {"identify-broker"}
  BY <1>2
<1> HIDE DEF J, asked
<1>4. /\ asked \in Seq(Gate)
      /\ \A x : x \in Elements(asked) <=> \E k \in 1..6 : k \in J /\ Identifiers[k] = x
  <2>1. Identifiers \in Seq(Gate) /\ Len(Identifiers) = 6
    BY GateOrder
  <2>2. /\ asked \in Seq(Gate)
        /\ \A x : x \in Elements(asked)
                     <=> \E k \in 1..Len(Identifiers) : k \in J /\ Identifiers[k] = x
    BY <1>1, <2>1, ThoseKeeps
  <2> QED BY <2>1, <2>2
<1>5. ASSUME NEW i \in 1..Len(asked), NEW j \in 1..Len(asked), i < j
      PROVE  Worth(asked[i]) >= Worth(asked[j])
  <2>1. \E k, l \in 1..Len(Identifiers) :
           /\ k \in J /\ l \in J /\ k < l
           /\ Identifiers[k] = asked[i] /\ Identifiers[l] = asked[j]
    <3>1. Identifiers \in Seq(Gate)
      BY GateOrder
    <3> QED BY <1>1, <1>5, <3>1, ThoseKeeps
  <2>2. PICK k \in 1..6, l \in 1..6 :
           k < l /\ Identifiers[k] = asked[i] /\ Identifiers[l] = asked[j]
    BY <2>1, GateOrder
  <2> QED BY <2>2, GateWorth
<1>6. \A k \in 1..6 : Identifiers[k] \in Gate
  BY DEF Identifiers, Gate
<1>7. \A m : m \in Elements(asked) <=> m \in Gate /\ m \in b \cup {"identify-broker"}
  BY <1>3, <1>4, <1>6, GateOrder
<1> QED BY <1>4, <1>5, <1>7 DEF asked

(* The first that is read of what was presented is worth most.             *)
LEMMA FirstRead ==
    ASSUME NEW asked \in Seq(Gate), NEW presented,
           \A i, j \in 1..Len(asked) : i < j => Worth(asked[i]) >= Worth(asked[j]),
           NEW m \in Elements(asked), m \in presented
    PROVE  LET read == Those(asked, {i \in DOMAIN asked : asked[i] \in presented})
           IN  read # <<>> /\ Worth(read[1]) >= Worth(m)
<1> DEFINE I == {i \in DOMAIN asked : asked[i] \in presented}
           read == Those(asked, I)
<1>1. /\ DOMAIN asked = 1..Len(asked)
      /\ \A x : x \in Elements(asked) <=> \E i \in 1..Len(asked) : asked[i] = x
  BY Indexed
<1>2. /\ read \in Seq(Gate)
      /\ \A x : x \in Elements(read) <=> \E k \in 1..Len(asked) : k \in I /\ asked[k] = x
  <2> HIDE DEF I
  <2> QED BY ThoseKeeps
<1>3. PICK k \in 1..Len(asked) : asked[k] = m
  BY <1>1
<1>4. k \in I
  BY <1>1, <1>3
<1>5. m \in Elements(read)
  <2> HIDE DEF I, read
  <2> QED BY <1>2, <1>3, <1>4
<1>6. ASSUME NEW i \in 1..Len(read), NEW j \in 1..Len(read), i < j
      PROVE  Worth(read[i]) >= Worth(read[j])
  <2>1. \E x, y \in 1..Len(asked) : /\ x \in I /\ y \in I /\ x < y
                                    /\ asked[x] = read[i] /\ asked[y] = read[j]
    <3> HIDE DEF I
    <3> QED BY <1>6, ThoseKeeps
  <2> HIDE DEF I, read
  <2> QED BY <2>1
<1> HIDE DEF I, read
<1>7. PICK j \in 1..Len(read) : read[j] = m
  BY <1>2, <1>5, Indexed
<1>8. Len(read) \in Nat /\ 1 \in 1..Len(read) /\ read # <<>>
  BY <1>2, <1>7
<1>9. Worth(read[1]) >= Worth(m)
  <2>1. CASE j = 1
    BY <2>1, <1>7, WorthNumbers
  <2>2. CASE j # 1
    <3>1. 1 < j
      BY <2>2, <1>8
    <3> QED BY <3>1, <1>6, <1>7, <1>8
  <2> QED BY <2>1, <2>2
<1> QED BY <1>8, <1>9 DEF read, I

(* A claim is worth what the build can read of what was presented.         *)
LEMMA ClaimWorth ==
    ASSUME NEW presented, NEW m \in presented \cap Readable
    PROVE  Worth(Claim(presented)) >= Worth(m)
<1> DEFINE asked == transport_identifiers(build)
           read == Those(asked, {i \in DOMAIN asked : asked[i] \in presented})
<1>1. Linked(first).transport_identifiers = asked
  BY DEF Linked, linked
<1>2. Claim(presented) = IF read = <<>> THEN "circumstance" ELSE read[1]
  BY <1>1 DEF Claim
<1>3. "identify" \in build /\ m \in build \cup {"identify-broker"}
  BY DEF Readable
<1>4. CASE m \notin Gate
  BY <1>4, WorthNumbers
<1>5. CASE m \in Gate
  <2>1. PICK b : b = build
    OBVIOUS
  <2>2. /\ asked \in Seq(Gate) /\ m \in Elements(asked)
        /\ \A i, j \in 1..Len(asked) : i < j => Worth(asked[i]) >= Worth(asked[j])
    BY <1>3, <1>5, <2>1, AskedInOrder
  <2>3. read # <<>> /\ Worth(read[1]) >= Worth(m)
    <3> HIDE DEF asked
    <3> QED BY <2>2, FirstRead
  <2> HIDE DEF read
  <2> QED BY <1>2, <2>3
<1> QED BY <1>4, <1>5

(* No mechanism answers for an address.                                    *)
LEMMA NoAddressProved == Proof("identify-ip") \notin authenticators(build)
BY DEF Proof, authenticators

(* CredentialFirst for every build and every arrival: it is known by the    *)
(* most it presented that the build can read, and nobody is let in as the   *)
(* address they came from (built.rs transport_identifiers, authenticators). *)
THEOREM CredentialHolds == Spec => []CredentialFirst
<1>1. Init => CredentialFirst
  BY DEF Init, NoArrival, CredentialFirst
<1>2. CredentialFirst /\ [Next]_vars => CredentialFirst'
  <2> SUFFICES ASSUME CredentialFirst, [Next]_vars PROVE CredentialFirst'
    OBVIOUS
  <2>1. build' = build
    BY BuildKept
  <2>2. CASE arrival' = arrival
    BY <2>1, <2>2 DEF CredentialFirst, Readable
  <2>3. ASSUME NEW presented \in Presented, Arrive(presented) PROVE CredentialFirst'
    <3>1. PICK c : c = Claim(presented)
      OBVIOUS
    <3>2. PICK l \in Started(first) :
            arrival' = [presented |-> presented, claim |-> c,
                        admitted |-> /\ Proof(c) \in Linked(first).authenticators
                                     /\ Proof(c) = l.accept
                                     /\ l.name \in Linked(first).admits]
      BY <2>3, <3>1 DEF Arrive
    <3>3. /\ arrival'.presented = presented /\ arrival'.claim = c
          /\ arrival'.admitted => Proof(c) \in Linked(first).authenticators
      BY <3>2
    <3>4. Linked(first).authenticators = authenticators(build)
      BY DEF Linked, linked
    <3>5. arrival'.admitted => c # "identify-ip"
      BY <3>3, <3>4, NoAddressProved
    <3>6. \A m \in presented \cap Readable : Worth(c) >= Worth(m)
      BY <3>1, ClaimWorth
    <3>7. Readable' = Readable
      BY <2>1 DEF Readable
    <3> QED BY <3>3, <3>5, <3>6, <3>7 DEF CredentialFirst
  <2>4. arrival' = arrival \/ \E presented \in Presented : Arrive(presented)
    BY DEF Next, vars, Start, Operate, Authorize, Publish, Refused, Drain, Refuse,
           Ask, Edit, Others
  <2> QED BY <2>2, <2>3, <2>4
<1> QED BY <1>1, <1>2, PTL DEF Spec
==============================================================================
