----------------------------- MODULE Induction -----------------------------
(***************************************************************************)
(* Induction and recursion over the natural numbers.  The theorems of      *)
(* NaturalsInduction take operators as parameters; stated of a set of      *)
(* numbers, and of a function on functions, they are first-order, and      *)
(* every prover can cite them.                                             *)
(***************************************************************************)
EXTENDS Integers, TLAPS, WellFoundedInduction

LEMMA LeastNatural ==
  ASSUME NEW T \in SUBSET Nat, T # {}
  PROVE  \E x \in T : \A y \in T : x <= y
<1> DEFINE Less == {ss \in Nat \X Nat : ss[1] < ss[2]}
<1>1. IsWellFoundedOn(Less, Nat)
  BY NatLessThanWellFounded DEF OpToRel
<1>2. PICK x \in T : \A y \in T : <<y, x>> \notin Less
  <2> HIDE DEF Less
  <2> QED BY <1>1, WFMin
<1>3. ASSUME NEW y \in T  PROVE x <= y
  <2>1. y < x => <<y, x>> \in Less
    OBVIOUS
  <2> QED BY <1>2, <2>1
<1> QED BY <1>3

\* What holds of n when it holds of all smaller numbers holds of all numbers.
LEMMA StrongInduction ==
  ASSUME NEW T \in SUBSET Nat,
         \A n \in Nat : (\A m \in 0..(n - 1) : m \in T) => n \in T
  PROVE  T = Nat
<1> SUFFICES ASSUME Nat \ T # {}  PROVE FALSE
  OBVIOUS
<1>1. PICK x \in Nat \ T : \A y \in Nat \ T : x <= y
  BY LeastNatural
<1> QED BY <1>1

LEMMA NaturalInduction ==
  ASSUME NEW T \in SUBSET Nat, 0 \in T, \A n \in T : n + 1 \in T
  PROVE  T = Nat
<1> SUFFICES ASSUME Nat \ T # {}  PROVE FALSE
  OBVIOUS
<1>1. PICK x \in Nat \ T : \A y \in Nat \ T : x <= y
  BY LeastNatural
<1>2. x # 0 /\ x - 1 \in T
  BY <1>1
<1> QED BY <1>2
-----------------------------------------------------------------------------
(* Recursive functions *)

\* What D makes of a function at s depends only on the values of that function
\* at elements of a smaller rank.
Descends(D, S, V, rank) ==
    \A g, h \in [S -> V], s \in S :
        (\A t \in S : rank[t] < rank[s] => g[t] = h[t]) => D[g][s] = D[h][s]

Solves(f, D, S, V) == f \in [S -> V] /\ f = D[f]

\* A recursive definition that descends in rank has a solution.
LEMMA RecursiveFunction ==
  ASSUME NEW S, NEW V, V # {}, NEW rank \in [S -> Nat],
         NEW D \in [[S -> V] -> [S -> V]], Descends(D, S, V, rank)
  PROVE  \E f : Solves(f, D, S, V)
<1> DEFINE Good(n, g) == \A s \in S : rank[s] <= n => g[s] = D[g][s]
           T == {n \in Nat : \E g \in [S -> V] : Good(n, g)}
<1>1. T = Nat
  <2>1. 0 \in T
    <3>1. PICK g \in [S -> V] : TRUE
      <4>1. PICK v \in V : TRUE
        OBVIOUS
      <4>2. [s \in S |-> v] \in [S -> V]
        OBVIOUS
      <4> QED BY <4>2
    <3>2. D[g] \in [S -> V]
      OBVIOUS
    <3>3. Good(0, D[g])
      BY <3>2 DEF Descends
    <3> QED BY <3>2, <3>3
  <2>2. ASSUME NEW n \in T  PROVE n + 1 \in T
    <3>1. PICK g \in [S -> V] : Good(n, g)
      OBVIOUS
    <3>2. D[g] \in [S -> V]
      OBVIOUS
    <3>3. ASSUME NEW s \in S, rank[s] <= n + 1  PROVE D[g][s] = D[D[g]][s]
      <4>1. \A t \in S : rank[t] < rank[s] => g[t] = D[g][t]
        BY <3>1, <3>3
      <4> QED BY <3>2, <4>1 DEF Descends
    <3> QED BY <3>2, <3>3
  <2> HIDE DEF T
  <2>3. T \in SUBSET Nat
    BY DEF T
  <2> QED BY <2>1, <2>2, <2>3, NaturalInduction
<1>2. ASSUME NEW m \in Nat, NEW n \in Nat, NEW g \in [S -> V], NEW h \in [S -> V],
             Good(m, g), Good(n, h), NEW s \in S, rank[s] <= m, rank[s] <= n
      PROVE  g[s] = h[s]
  <2> DEFINE U == {k \in Nat : \A t \in S :
                      rank[t] = k /\ k <= m /\ k <= n => g[t] = h[t]}
  <2>1. ASSUME NEW k \in Nat, \A j \in 0..(k - 1) : j \in U  PROVE k \in U
    <3> SUFFICES ASSUME NEW t \in S, rank[t] = k, k <= m, k <= n  PROVE g[t] = h[t]
      OBVIOUS
    <3>1. \A u \in S : rank[u] < rank[t] => g[u] = h[u]
      BY <2>1
    <3>2. g[t] = D[g][t] /\ h[t] = D[h][t]
      BY <1>2
    <3> QED BY <3>1, <3>2 DEF Descends
  <2>2. U = Nat
    <3> HIDE DEF U
    <3>1. U \in SUBSET Nat
      BY DEF U
    <3> QED BY <2>1, <3>1, StrongInduction
  <2> QED BY <1>2, <2>2
<1> DEFINE G == [n \in Nat |-> CHOOSE g \in [S -> V] : Good(n, g)]
           f == [s \in S |-> G[rank[s]][s]]
<1>3. \A n \in Nat : G[n] \in [S -> V] /\ Good(n, G[n])
  BY <1>1
<1> HIDE DEF G
<1>4. f \in [S -> V]
  <2> HIDE DEF Good
  <2> QED BY <1>3
<1>5. ASSUME NEW s \in S  PROVE f[s] = D[f][s]
  <2>1. ASSUME NEW t \in S, rank[t] < rank[s]  PROVE f[t] = G[rank[s]][t]
    <3> HIDE DEF Good
    <3> QED BY <1>2, <1>3, <2>1
  <2>2. D[f][s] = D[G[rank[s]]][s]
    <3> HIDE DEF Good, f
    <3> QED BY <1>3, <1>4, <2>1 DEF Descends
  <2>3. G[rank[s]][s] = D[G[rank[s]]][s]
    <3>1. Good(rank[s], G[rank[s]])
      <4> HIDE DEF Good
      <4> QED BY <1>3
    <3> QED BY <3>1
  <2> QED BY <2>2, <2>3
<1> HIDE DEF f
<1>6. D[f] \in [S -> V]
  BY <1>4
<1>7. f = D[f]
  BY <1>4, <1>5, <1>6
<1> QED BY <1>4, <1>7 DEF Solves

\* A loop of n turns over values of V.
Iterates(f, V, n, base, turn) ==
    /\ f \in [0..n -> V]
    /\ f[0] = base
    /\ \A t \in 1..n : f[t] = turn[t][f[t - 1]]

LEMMA Iteration ==
  ASSUME NEW V, NEW n \in Nat, NEW base \in V, NEW turn \in [1..n -> [V -> V]]
  PROVE  \E f : Iterates(f, V, n, base, turn)
<1> DEFINE S == 0..n
           D == [g \in [S -> V] |->
                    [t \in S |-> IF t = 0 THEN base ELSE turn[t][g[t - 1]]]]
           rank == [t \in S |-> t]
<1>1. D \in [[S -> V] -> [S -> V]]
  OBVIOUS
<1>2. Descends(D, S, V, rank)
  BY DEF Descends
<1>3. rank \in [S -> Nat] /\ V # {}
  OBVIOUS
<1>4. PICK f : Solves(f, D, S, V)
  <2> HIDE DEF D, S, rank
  <2> QED BY <1>1, <1>2, <1>3, RecursiveFunction, Zenon
<1>5. \A t \in S : f[t] = D[f][t]
  <2> HIDE DEF D, S
  <2> QED BY <1>4 DEF Solves
<1> QED BY <1>4, <1>5 DEF Solves, Iterates
=============================================================================
