--------------------------- MODULE TensorViewProofs ---------------------------
(***************************************************************************)
(* Proofs about TensorView for arrays of every shape and elements of every *)
(* size.  What FlattenSeq makes of pieces of one length gives the order of *)
(* the elements (Ndindex) and of their bytes (ToBytes); from these follows *)
(* what each form of __getitem__ shows of an array, and what tolist and    *)
(* the scalar conversions read of it.                                      *)
(***************************************************************************)
EXTENDS TensorView, Induction, FiniteSetTheorems

-----------------------------------------------------------------------------
(* Sequences *)

\* FlattenSeq is a loop that appends one sequence after the other.
LEMMA FlattenDef ==
  ASSUME NEW S, NEW ss \in Seq(Seq(S))
  PROVE  \E f \in [0..Len(ss) -> Seq(S)] :
            /\ f[0] = << >>
            /\ \A i \in 1..Len(ss) : f[i] = f[i - 1] \o ss[i]
            /\ FlattenSeq(ss) = f[Len(ss)]
<1> DEFINE turn == [i \in 1..Len(ss) |-> [s \in Seq(S) |-> s \o ss[i]]]
           Flatten == CHOOSE flatten : flatten =
                         [i \in 1..Len(ss) |-> IF i = 1 THEN ss[i] ELSE flatten[i - 1] \o ss[i]]
<1>1. turn \in [1..Len(ss) -> [Seq(S) -> Seq(S)]] /\ << >> \in Seq(S) /\ Len(ss) \in Nat
  OBVIOUS
<1>2. PICK f \in [0..Len(ss) -> Seq(S)] :
         f[0] = << >> /\ \A i \in 1..Len(ss) : f[i] = turn[i][f[i - 1]]
  <2> DEFINE V == Seq(S)
             n == Len(ss)
             base == << >>
  <2>1. n \in Nat /\ base \in V /\ turn \in [1..n -> [V -> V]]
    BY <1>1
  <2> HIDE DEF turn, V, n, base
  <2>2. PICK f : Iterates(f, V, n, base, turn)
    BY <2>1, Iteration, Zenon
  <2> QED BY <2>2 DEF n, V, base, Iterates
<1>3. f[0] = << >> /\ \A i \in 1..Len(ss) : f[i] = f[i - 1] \o ss[i]
  <2>1. ASSUME NEW i \in 1..Len(ss)  PROVE f[i] = f[i - 1] \o ss[i]
    <3>1. i - 1 \in 0..Len(ss)
      OBVIOUS
    <3>2. f[i - 1] \in Seq(S)
      BY <3>1
    <3>3. turn[i][f[i - 1]] = f[i - 1] \o ss[i]
      BY <3>2
    <3> QED BY <1>2, <3>3
  <2> QED BY <1>2, <2>1
<1>4. CASE Len(ss) = 0
  BY <1>3, <1>4 DEF FlattenSeq
<1>5. CASE Len(ss) # 0
  <2> DEFINE g == [i \in 1..Len(ss) |-> f[i]]
  <2>0. f[1] = ss[1]
    <3>1. 1 \in 1..Len(ss) /\ 1 - 1 = 0 /\ ss[1] \in Seq(S)
      BY <1>5
    <3>2. f[1] = << >> \o ss[1]
      BY <1>3, <3>1
    <3> QED BY <3>1, <3>2
  <2>1. g = [i \in 1..Len(ss) |-> IF i = 1 THEN ss[i] ELSE g[i - 1] \o ss[i]]
    <3>1. ASSUME NEW i \in 1..Len(ss), i # 1  PROVE g[i] = g[i - 1] \o ss[i]
      <4>1. i - 1 \in 1..Len(ss)
        BY <3>1
      <4> QED BY <1>3, <4>1
    <3>2. g[1] = ss[1]
      BY <1>5, <2>0
    <3> QED BY <3>1, <3>2
  <2> HIDE DEF g
  <2>2. Flatten = [i \in 1..Len(ss) |-> IF i = 1 THEN ss[i] ELSE Flatten[i - 1] \o ss[i]]
    BY <2>1
  <2>3. FlattenSeq(ss) = Flatten[Len(ss)]
    BY <1>5, Zenon DEF FlattenSeq
  <2> HIDE DEF Flatten
  <2> DEFINE T == {k \in Nat : k + 1 \in 1..Len(ss) => Flatten[k + 1] = f[k + 1]}
  <2>4. 0 \in T
    BY <2>0, <2>2
  <2>5. ASSUME NEW k \in T  PROVE k + 1 \in T
    <3> SUFFICES ASSUME k + 2 \in 1..Len(ss)  PROVE Flatten[k + 2] = f[k + 2]
      OBVIOUS
    <3>1. k + 2 # 1 /\ (k + 2) - 1 = k + 1 /\ k + 1 \in 1..Len(ss)
      OBVIOUS
    <3>2. Flatten[k + 2] = Flatten[k + 1] \o ss[k + 2]
      <4> HIDE DEF Flatten
      <4> QED BY <2>2, <3>1
    <3> QED BY <1>3, <3>1, <3>2
  <2>6. T = Nat
    <3> HIDE DEF T
    <3>1. T \in SUBSET Nat
      BY DEF T
    <3> QED BY <2>4, <2>5, <3>1, NaturalInduction
  <2>7. Len(ss) - 1 \in T
    <3> HIDE DEF T
    <3> QED BY <1>5, <2>6
  <2>8. Flatten[Len(ss)] = f[Len(ss)]
    BY <1>5, <2>7
  <2> QED BY <1>3, <2>3, <2>8
<1> QED BY <1>4, <1>5

\* Where the elements of a concatenation come from.
LEMMA Concatenation ==
  ASSUME NEW S, NEW s \in Seq(S), NEW t \in Seq(S)
  PROVE  /\ s \o t \in Seq(S) /\ Len(s \o t) = Len(s) + Len(t)
         /\ \A i \in 1..Len(s) : (s \o t)[i] = s[i]
         /\ \A i \in 1..Len(t) : (s \o t)[Len(s) + i] = t[i]
OBVIOUS

\* Multiples keep their order.
LEMMA Multiples ==
  ASSUME NEW a \in Nat, NEW b \in Nat, NEW m \in Nat, a <= b
  PROVE  a * m \in Nat /\ b * m \in Nat /\ a * m <= b * m
<1>1. PICK d \in Nat : b = a + d
  <2>1. b - a \in Nat /\ b = a + (b - a)
    OBVIOUS
  <2> QED BY <2>1
<1>2. b * m = a * m + d * m /\ d * m >= 0 /\ a * m \in Nat /\ b * m \in Nat
  BY <1>1
<1> QED BY <1>2

\* Positions in n blocks of m.
LEMMA InBlock ==
  ASSUME NEW n \in Nat, NEW m \in Nat, NEW q \in 0..(n - 1), NEW r \in 1..m
  PROVE  q * m \in Nat /\ n * m \in Nat /\ q * m + r \in 1..(n * m)
<1>1. (q + 1) * m <= n * m /\ q * m \in Nat /\ n * m \in Nat
  BY Multiples
<1>2. (q + 1) * m = q * m + m
  OBVIOUS
<1> QED BY <1>1, <1>2

\* Every place in n blocks of m is a place in one of them.
LEMMA BlockOf ==
  ASSUME NEW n \in Nat, NEW m \in Nat, NEW j \in 1..(n * m)
  PROVE  \E q \in 0..(n - 1), r \in 1..m : j = q * m + r
<1>1. m > 0
  OBVIOUS
<1> DEFINE q == (j - 1) \div m
           r == ((j - 1) % m) + 1
<1>2. q \in Int /\ r \in 1..m /\ j = q * m + r
  BY <1>1
<1> HIDE DEF q, r
<1>3. q >= 0
  <2>1. q <= -1 => q * m <= (-1) * m
    <3> SUFFICES ASSUME q <= -1  PROVE q * m <= (-1) * m
      OBVIOUS
    <3>1. (-1 - q) * m >= 0
      BY <1>1, <1>2
    <3> QED BY <1>2, <3>1
  <2> QED BY <1>1, <1>2, <2>1
<1>4. q < n
  <2> SUFFICES ASSUME n <= q  PROVE FALSE
    BY <1>2
  <2>1. n * m <= q * m
    BY <1>2, <1>3, Multiples
  <2> QED BY <1>2, <1>3, <2>1
<1> QED BY <1>2, <1>3, <1>4

\* What is where in a sequence made of sequences of one length.
LEMMA FlattenBlocks ==
  ASSUME NEW S, NEW ss \in Seq(Seq(S)), NEW m \in Nat,
         \A i \in 1..Len(ss) : Len(ss[i]) = m
  PROVE  /\ FlattenSeq(ss) \in Seq(S)
         /\ Len(FlattenSeq(ss)) = Len(ss) * m
         /\ \A q \in 0..(Len(ss) - 1), r \in 1..m : FlattenSeq(ss)[q * m + r] = ss[q + 1][r]
<1>1. PICK f \in [0..Len(ss) -> Seq(S)] :
         /\ f[0] = << >>
         /\ \A i \in 1..Len(ss) : f[i] = f[i - 1] \o ss[i]
         /\ FlattenSeq(ss) = f[Len(ss)]
  BY FlattenDef
<1> DEFINE Blocks(k) == /\ Len(f[k]) = k * m
                        /\ \A q \in 0..(k - 1), r \in 1..m : f[k][q * m + r] = ss[q + 1][r]
           T == {k \in Nat : k <= Len(ss) => Blocks(k)}
<1>2. 0 \in T
  BY <1>1
<1>3. ASSUME NEW k \in Nat, k + 1 <= Len(ss), Blocks(k)  PROVE Blocks(k + 1)
  <2>1. k + 1 \in 1..Len(ss) /\ f[k] \in Seq(S) /\ ss[k + 1] \in Seq(S)
    BY <1>3
  <2>2. f[k + 1] = f[k] \o ss[k + 1] /\ Len(ss[k + 1]) = m /\ Len(f[k]) = k * m
    <3>1. (k + 1) - 1 = k
      OBVIOUS
    <3> QED BY <1>1, <1>3, <2>1, <3>1
  <2> DEFINE fk == f[k]
             sk == ss[k + 1]
  <2>5. /\ Len(f[k + 1]) = Len(fk) + Len(sk)
        /\ \A i \in 1..Len(fk) : f[k + 1][i] = fk[i]
        /\ \A i \in 1..Len(sk) : f[k + 1][Len(fk) + i] = sk[i]
    <3>1. fk \in Seq(S) /\ sk \in Seq(S) /\ f[k + 1] = fk \o sk
      BY <2>1, <2>2
    <3> HIDE DEF fk, sk
    <3> QED BY <3>1, Concatenation
  <2>3. Len(f[k + 1]) = k * m + m /\ (k + 1) * m = k * m + m
    BY <2>2, <2>5
  <2>4. ASSUME NEW q \in 0..k, NEW r \in 1..m  PROVE f[k + 1][q * m + r] = ss[q + 1][r]
    <3>1. CASE q = k
      BY <2>2, <2>5, <3>1
    <3>2. CASE q # k
      <4>1. q * m + r \in 1..(k * m) /\ q \in 0..(k - 1)
        BY <3>2, InBlock
      <4>2. f[k + 1][q * m + r] = f[k][q * m + r]
        BY <2>2, <2>5, <4>1
      <4> QED BY <1>3, <4>1, <4>2
    <3> QED BY <3>1, <3>2
  <2> QED BY <2>3, <2>4
<1>4. T = Nat
  <2>1. \A k \in T : k + 1 \in T
    <3> HIDE DEF Blocks
    <3> QED BY <1>3
  <2> HIDE DEF T
  <2>2. T \in SUBSET Nat
    BY DEF T
  <2> QED BY <1>2, <2>1, <2>2, NaturalInduction
<1>5. Blocks(Len(ss))
  <2> HIDE DEF Blocks
  <2> QED BY <1>4
<1> HIDE DEF T
<1>6. f[Len(ss)] \in Seq(S) /\ Len(ss) \in Nat
  OBVIOUS
<1> QED BY <1>1, <1>5, <1>6

\* The elements of a flattened sequence are those of its parts.
LEMMA FlattenType ==
  ASSUME NEW S, NEW ss \in Seq(Seq(S))
  PROVE  FlattenSeq(ss) \in Seq(S)
<1>1. PICK f \in [0..Len(ss) -> Seq(S)] : FlattenSeq(ss) = f[Len(ss)]
  BY FlattenDef
<1> QED BY <1>1
-----------------------------------------------------------------------------
(* Shapes *)

\* The tail of a sequence that is not empty.
LEMMA TailFacts ==
  ASSUME NEW S, NEW s \in Seq(S), s # << >>
  PROVE  /\ Len(s) \in Nat \ {0} /\ s[1] \in S
         /\ Tail(s) \in Seq(S) /\ Len(Tail(s)) = Len(s) - 1
         /\ \A i \in 1..(Len(s) - 1) : Tail(s)[i] = s[i + 1]
OBVIOUS

\* A recursion over the axes of a shape.
Recurs(f, V, base, turn) ==
    /\ f \in [Seq(Nat) -> V]
    /\ f[<< >>] = base
    /\ \A s \in Seq(Nat) \ {<< >>} : f[s] = turn[s][f[Tail(s)]]

\* A recursion over the axes of a shape has a solution.
LEMMA AxisRecursion ==
  ASSUME NEW V, NEW base \in V, NEW turn \in [Seq(Nat) -> [V -> V]]
  PROVE  \E f : Recurs(f, V, base, turn)
<1> DEFINE S == Seq(Nat)
           D == [g \in [S -> V] |->
                    [s \in S |-> IF s = << >> THEN base ELSE turn[s][g[Tail(s)]]]]
           rank == [s \in S |-> Len(s)]
<1>1. D \in [[S -> V] -> [S -> V]]
  <2>1. ASSUME NEW g \in [S -> V], NEW s \in S, s # << >>  PROVE turn[s][g[Tail(s)]] \in V
    <3>1. Tail(s) \in S
      BY <2>1, TailFacts
    <3> QED BY <3>1
  <2> HIDE DEF S
  <2> QED BY <2>1
<1>2. ASSUME NEW g \in [S -> V], NEW h \in [S -> V], NEW s \in S,
             \A t \in S : rank[t] < rank[s] => g[t] = h[t]
      PROVE  D[g][s] = D[h][s]
  <2>1. s # << >> => Tail(s) \in S /\ rank[Tail(s)] < rank[s]
    BY TailFacts
  <2>2. s # << >> => g[Tail(s)] = h[Tail(s)]
    <3> HIDE DEF S, rank
    <3> QED BY <1>2, <2>1
  <2> QED BY <2>2
<1>3. Descends(D, S, V, rank)
  <2> HIDE DEF D, S, rank
  <2> QED BY <1>2 DEF Descends
<1>4. rank \in [S -> Nat] /\ V # {}
  OBVIOUS
<1>5. PICK f : Solves(f, D, S, V)
  <2> HIDE DEF D, S, rank
  <2> QED BY <1>1, <1>3, <1>4, RecursiveFunction, Zenon
<1>6. f \in [S -> V] /\ \A s \in S : f[s] = D[f][s]
  <2> HIDE DEF D, S
  <2> QED BY <1>5 DEF Solves
<1>7. << >> \in S
  OBVIOUS
<1> QED BY <1>6, <1>7 DEF Recurs

\* Induction over the axes of a shape.
LEMMA AxisInduction ==
  ASSUME NEW P \in SUBSET Seq(Nat), << >> \in P,
         \A s \in Seq(Nat) : s # << >> /\ Tail(s) \in P => s \in P
  PROVE  P = Seq(Nat)
<1> DEFINE T == {k \in Nat : \A s \in Seq(Nat) : Len(s) = k => s \in P}
<1>1. 0 \in T
  <2>1. \A s \in Seq(Nat) : Len(s) = 0 => s = << >>
    OBVIOUS
  <2> QED BY <2>1
<1>2. ASSUME NEW k \in T  PROVE k + 1 \in T
  <2> SUFFICES ASSUME NEW s \in Seq(Nat), Len(s) = k + 1  PROVE s \in P
    OBVIOUS
  <2>1. s # << >> /\ Tail(s) \in Seq(Nat) /\ Len(Tail(s)) = k
    OBVIOUS
  <2> QED BY <2>1
<1>3. T = Nat
  <2> HIDE DEF T
  <2>1. T \in SUBSET Nat
    BY DEF T
  <2> QED BY <1>1, <1>2, <2>1, NaturalInduction
<1>4. \A s \in Seq(Nat) : Len(s) \in T
  <2> HIDE DEF T
  <2> QED BY <1>3
<1> QED BY <1>4

\* Size satisfies its definition.
LEMMA SizeFacts ==
  /\ Size \in [Seq(Nat) -> Nat] /\ Size[<< >>] = 1
  /\ \A s \in Seq(Nat) \ {<< >>} : Size[s] = s[1] * Size[Tail(s)]
<1> DEFINE turn == [s \in Seq(Nat) |-> [x \in Nat |-> IF s = << >> THEN 1 ELSE s[1] * x]]
<1>1. turn \in [Seq(Nat) -> [Nat -> Nat]]
  <2>1. ASSUME NEW s \in Seq(Nat), NEW x \in Nat, s # << >>  PROVE s[1] * x \in Nat
    <3>1. s[1] \in Nat
      BY <2>1, TailFacts
    <3> QED BY <3>1
  <2> QED BY <2>1
<1>2. PICK f : Recurs(f, Nat, 1, turn)
  <2> DEFINE base == 1
  <2>1. base \in Nat
    OBVIOUS
  <2> HIDE DEF turn, base
  <2>2. \E f : Recurs(f, Nat, base, turn)
    BY <1>1, <2>1, AxisRecursion, Zenon
  <2> QED BY <2>2 DEF base
<1>3. \A s \in Seq(Nat) : s # << >> => Tail(s) \in Seq(Nat)
  BY TailFacts
<1>4. f = [s \in Seq(Nat) |-> IF s = << >> THEN 1 ELSE s[1] * f[Tail(s)]]
  BY <1>2, <1>3 DEF Recurs
<1>5. Size = [s \in Seq(Nat) |-> IF s = << >> THEN 1 ELSE s[1] * Size[Tail(s)]]
  BY <1>4 DEF Size
<1>6. \A s \in Seq(Nat), x \in Nat : turn[s][x] = IF s = << >> THEN 1 ELSE s[1] * x
  OBVIOUS
<1>7. ASSUME NEW s \in Seq(Nat), s # << >>
      PROVE  f[s] = s[1] * f[Tail(s)] /\ Size[s] = s[1] * Size[Tail(s)]
  <2>1. f[Tail(s)] \in Nat /\ f[s] = turn[s][f[Tail(s)]]
    BY <1>2, <1>3, <1>7 DEF Recurs
  <2> QED BY <1>5, <1>6, <1>7, <2>1
<1>8. f \in [Seq(Nat) -> Nat] /\ f[<< >>] = 1 /\ Size[<< >>] = 1
  BY <1>2, <1>5 DEF Recurs
<1> DEFINE P == {s \in Seq(Nat) : Size[s] = f[s]}
<1>9. P = Seq(Nat)
  <2>1. \A s \in Seq(Nat) : s # << >> /\ Tail(s) \in P => s \in P
    BY <1>7
  <2>2. P \in SUBSET Seq(Nat) /\ << >> \in P
    BY <1>8
  <2> HIDE DEF P
  <2> QED BY <2>1, <2>2, AxisInduction
<1>10. Size \in [Seq(Nat) -> Nat]
  <2>1. \A s \in Seq(Nat) : Size[s] = f[s]
    BY <1>9
  <2>2. Size = [s \in Seq(Nat) |-> Size[s]]
    BY <1>5
  <2> QED BY <1>8, <2>1, <2>2
<1> QED BY <1>7, <1>8, <1>10

\* The rows of an array with n of them.
Rows(n, row) == [i \in 1..n |-> [k \in DOMAIN row |-> <<i - 1>> \o row[k]]]

\* An element's index starts with the row it is in.
LEMMA RowsFacts ==
  ASSUME NEW n \in Nat, NEW row \in Seq(Seq(Nat))
  PROVE  /\ FlattenSeq(Rows(n, row)) \in Seq(Seq(Nat))
         /\ Len(FlattenSeq(Rows(n, row))) = n * Len(row)
         /\ \A q \in 0..(n - 1), r \in 1..Len(row) :
               FlattenSeq(Rows(n, row))[q * Len(row) + r] = <<q>> \o row[r]
<1> DEFINE ss == Rows(n, row)
           m == Len(row)
<1>1. ASSUME NEW i \in 1..n
      PROVE  /\ ss[i] \in Seq(Seq(Nat)) /\ Len(ss[i]) = m
             /\ \A r \in 1..m : ss[i][r] = <<i - 1>> \o row[r]
  <2>1. ss[i] = [k \in 1..m |-> <<i - 1>> \o row[k]]
    BY DEF Rows
  <2>2. \A k \in 1..m : <<i - 1>> \o row[k] \in Seq(Nat)
    OBVIOUS
  <2> HIDE DEF ss
  <2> QED BY <2>1, <2>2
<1>2. ss \in Seq(Seq(Seq(Nat))) /\ Len(ss) = n
  <2>1. DOMAIN ss = 1..n /\ ss = [i \in 1..n |-> ss[i]]
    BY DEF Rows
  <2> DEFINE X == Seq(Seq(Nat))
  <2>2. \A i \in 1..n : ss[i] \in X
    BY <1>1
  <2> HIDE DEF ss, X
  <2>3. [i \in 1..n |-> ss[i]] \in Seq(X) /\ Len([i \in 1..n |-> ss[i]]) = n
    BY <2>2
  <2> QED BY <2>1, <2>3 DEF X
<1>3. m \in Nat
  OBVIOUS
<1> HIDE DEF ss, m
<1>4. /\ FlattenSeq(ss) \in Seq(Seq(Nat))
      /\ Len(FlattenSeq(ss)) = Len(ss) * m
      /\ \A q \in 0..(Len(ss) - 1), r \in 1..m : FlattenSeq(ss)[q * m + r] = ss[q + 1][r]
  <2>1. \A i \in 1..Len(ss) : Len(ss[i]) = m
    BY <1>1, <1>2
  <2> QED BY <1>2, <1>3, <2>1, FlattenBlocks, ZenonT(30)
<1>5. ASSUME NEW q \in 0..(n - 1), NEW r \in 1..m
      PROVE  FlattenSeq(ss)[q * m + r] = <<q>> \o row[r]
  <2>1. q + 1 \in 1..n /\ (q + 1) - 1 = q
    OBVIOUS
  <2> QED BY <1>1, <1>2, <1>4, <2>1
<1> QED BY <1>2, <1>4, <1>5 DEF ss, m

\* The indices of an array are those of its rows, one row after the other.
LEMMA NdindexFacts ==
  /\ Ndindex \in [Seq(Nat) -> Seq(Seq(Nat))] /\ Ndindex[<< >>] = << << >> >>
  /\ \A s \in Seq(Nat) : Len(Ndindex[s]) = Size[s]
  /\ \A s \in Seq(Nat) \ {<< >>} : \A q \in 0..(s[1] - 1), r \in 1..Size[Tail(s)] :
        Ndindex[s][q * Size[Tail(s)] + r] = <<q>> \o Ndindex[Tail(s)][r]
<1> DEFINE V == Seq(Seq(Nat))
           base == << << >> >>
           turn == [s \in Seq(Nat) |-> [row \in V |->
                       IF s = << >> THEN base ELSE FlattenSeq(Rows(s[1], row))]]
<1>0. \A s \in Seq(Nat) : s # << >> => s[1] \in Nat /\ Tail(s) \in Seq(Nat)
  BY TailFacts
<1>1. turn \in [Seq(Nat) -> [V -> V]]
  <2>1. ASSUME NEW s \in Seq(Nat), NEW row \in V, s # << >>
        PROVE  FlattenSeq(Rows(s[1], row)) \in V
    BY <1>0, <2>1, RowsFacts
  <2>2. base \in V
    OBVIOUS
  <2> HIDE DEF V, base
  <2> QED BY <2>1, <2>2
<1>2. PICK f : Recurs(f, V, base, turn)
  <2>1. base \in V
    OBVIOUS
  <2> HIDE DEF turn, base, V
  <2> QED BY <1>1, <2>1, AxisRecursion, Zenon
<1>3. ASSUME NEW s \in Seq(Nat), s # << >>
      PROVE  f[Tail(s)] \in V /\ f[s] = FlattenSeq(Rows(s[1], f[Tail(s)]))
  <2>1. f[Tail(s)] \in V /\ f[s] = turn[s][f[Tail(s)]]
    <3> HIDE DEF turn, V
    <3> QED BY <1>0, <1>2, <1>3 DEF Recurs
  <2> HIDE DEF V
  <2> QED BY <1>3, <2>1
<1>4. f \in [Seq(Nat) -> V] /\ f[<< >>] = base
  <2> HIDE DEF V, turn
  <2> QED BY <1>2 DEF Recurs
<1>5. f = [s \in Seq(Nat) |-> IF s = << >> THEN base ELSE FlattenSeq(Rows(s[1], f[Tail(s)]))]
  <2> HIDE DEF V, base
  <2> QED BY <1>3, <1>4
<1>6. Ndindex = CHOOSE g : g =
         [s \in Seq(Nat) |-> IF s = << >> THEN base ELSE FlattenSeq(Rows(s[1], g[Tail(s)]))]
  BY Zenon DEF Ndindex, Rows
<1>7. Ndindex =
         [s \in Seq(Nat) |-> IF s = << >> THEN base ELSE FlattenSeq(Rows(s[1], Ndindex[Tail(s)]))]
  <2> HIDE DEF base
  <2> QED BY <1>5, <1>6
<1> DEFINE P == {s \in Seq(Nat) : Ndindex[s] \in V /\ Len(Ndindex[s]) = Size[s]}
<1>8. Ndindex[<< >>] = base /\ << >> \in P
  BY <1>7, SizeFacts
<1>9. ASSUME NEW s \in Seq(Nat), s # << >>, Tail(s) \in P
      PROVE  /\ s \in P
             /\ \A q \in 0..(s[1] - 1), r \in 1..Size[Tail(s)] :
                   Ndindex[s][q * Size[Tail(s)] + r] = <<q>> \o Ndindex[Tail(s)][r]
  <2>1. Ndindex[s] = FlattenSeq(Rows(s[1], Ndindex[Tail(s)]))
    <3> HIDE DEF base
    <3> QED BY <1>7, <1>9
  <2>2. Ndindex[Tail(s)] \in V /\ Len(Ndindex[Tail(s)]) = Size[Tail(s)] /\ s[1] \in Nat
    BY <1>0, <1>9
  <2>3. Size[s] = s[1] * Size[Tail(s)]
    BY <1>9, SizeFacts
  <2> DEFINE row == Ndindex[Tail(s)]
             n == s[1]
  <2>4. row \in V /\ n \in Nat
    BY <2>2
  <2>5. /\ FlattenSeq(Rows(n, row)) \in V
        /\ Len(FlattenSeq(Rows(n, row))) = n * Len(row)
        /\ \A q \in 0..(n - 1), r \in 1..Len(row) :
               FlattenSeq(Rows(n, row))[q * Len(row) + r] = <<q>> \o row[r]
    <3> HIDE DEF row, n
    <3> QED BY <2>4, RowsFacts
  <2> QED BY <2>1, <2>2, <2>3, <2>5, Zenon
<1>10. P = Seq(Nat)
  <2>1. P \in SUBSET Seq(Nat)
    OBVIOUS
  <2> HIDE DEF P
  <2> QED BY <1>8, <1>9, <2>1, AxisInduction
<1>11. Ndindex \in [Seq(Nat) -> V]
  <2>1. \A s \in Seq(Nat) : Ndindex[s] \in V
    BY <1>10
  <2>2. Ndindex = [s \in Seq(Nat) |-> Ndindex[s]]
    <3> HIDE DEF base
    <3> QED BY <1>7
  <2> QED BY <2>1, <2>2
<1>12. \A s \in Seq(Nat) : Len(Ndindex[s]) = Size[s]
  BY <1>10
<1>13. \A s \in Seq(Nat) \ {<< >>} : \A q \in 0..(s[1] - 1), r \in 1..Size[Tail(s)] :
         Ndindex[s][q * Size[Tail(s)] + r] = <<q>> \o Ndindex[Tail(s)][r]
  <2> HIDE DEF P
  <2> QED BY <1>0, <1>9, <1>10
<1> QED BY <1>8, <1>11, <1>12, <1>13
-----------------------------------------------------------------------------
(* Bytes *)

\* Sequences with the same elements are the same.
LEMMA SameSequence ==
  ASSUME NEW S, NEW s \in Seq(S), NEW t \in Seq(S), Len(s) = Len(t),
         \A i \in 1..Len(s) : s[i] = t[i]
  PROVE  s = t
OBVIOUS

\* A function on 1..n is a sequence of its values.
LEMMA IsSequence ==
  ASSUME NEW S, NEW n \in Nat, NEW f, f = [k \in 1..n |-> f[k]],
         \A k \in 1..n : f[k] \in S
  PROVE  f \in Seq(S) /\ Len(f) = n
<1>1. [k \in 1..n |-> f[k]] \in Seq(S) /\ Len([k \in 1..n |-> f[k]]) = n
  OBVIOUS
<1> QED BY <1>1

\* The empty sequence is the one without elements.
LEMMA EmptySequence ==
  ASSUME NEW S, NEW s \in Seq(S)
  PROVE  s = << >> <=> Len(s) = 0
OBVIOUS

\* What is in a part of a sequence.
LEMMA SubSeqFacts ==
  ASSUME NEW S, NEW s \in Seq(S), NEW from \in Nat, NEW to \in Nat, to <= Len(s)
  PROVE  /\ SubSeq(s, from + 1, to) \in Seq(S)
         /\ from <= to => /\ Len(SubSeq(s, from + 1, to)) = to - from
                          /\ \A k \in 1..(to - from) : SubSeq(s, from + 1, to)[k] = s[from + k]
         /\ to <= from => SubSeq(s, from + 1, to) = << >>
BY SMTT(30)

ByteSet == Seq(Nat) \X (1..ItemSize)

\* The bytes of a sequence of elements.
Joined(es) == FlattenSeq([n \in DOMAIN es |-> Bytes(es[n])])

\* The bytes of an element.
LEMMA BytesFacts ==
  ASSUME NEW e \in Seq(Nat)
  PROVE  /\ Bytes(e) \in Seq(ByteSet) /\ Len(Bytes(e)) = ItemSize
         /\ \A b \in 1..ItemSize : Bytes(e)[b] = <<e, b>>
<1>1. \A b \in 1..ItemSize : <<e, b>> \in ByteSet
  BY DEF ByteSet
<1> HIDE DEF ByteSet
<1> QED BY <1>1, ItemAssumption DEF Bytes

\* Where the bytes of an element are among those of a sequence.
LEMMA JoinedFacts ==
  ASSUME NEW es \in Seq(Seq(Nat))
  PROVE  /\ Joined(es) \in Seq(ByteSet) /\ Len(Joined(es)) = Len(es) * ItemSize
         /\ \A q \in 0..(Len(es) - 1), b \in 1..ItemSize :
               Joined(es)[q * ItemSize + b] = <<es[q + 1], b>>
<1> DEFINE ss == [n \in DOMAIN es |-> Bytes(es[n])]
           N == Len(es)
<1>1. N \in Nat /\ DOMAIN es = 1..N /\ \A n \in 1..N : es[n] \in Seq(Nat)
  OBVIOUS
<1>2. \A n \in 1..N : Bytes(es[n]) \in Seq(ByteSet)
  <2> HIDE DEF N
  <2> QED BY <1>1, BytesFacts
<1>3. ss \in Seq(Seq(ByteSet)) /\ Len(ss) = N /\ \A n \in 1..N : ss[n] = Bytes(es[n])
  <2> DEFINE X == Seq(ByteSet)
  <2>1. \A n \in 1..N : Bytes(es[n]) \in X
    BY <1>2
  <2> HIDE DEF X, N
  <2>2. [n \in 1..N |-> Bytes(es[n])] \in Seq(X) /\ Len([n \in 1..N |-> Bytes(es[n])]) = N
    BY <1>1, <2>1
  <2> QED BY <1>1, <2>2 DEF X
<1> HIDE DEF ss, N
<1>4. /\ FlattenSeq(ss) \in Seq(ByteSet)
      /\ Len(FlattenSeq(ss)) = Len(ss) * ItemSize
      /\ \A q \in 0..(Len(ss) - 1), r \in 1..ItemSize :
            FlattenSeq(ss)[q * ItemSize + r] = ss[q + 1][r]
  <2>1. \A i \in 1..Len(ss) : Len(ss[i]) = ItemSize
    BY <1>1, <1>3, BytesFacts
  <2> QED BY <1>3, <2>1, ItemAssumption, FlattenBlocks
<1>5. ASSUME NEW q \in 0..(N - 1), NEW b \in 1..ItemSize
      PROVE  FlattenSeq(ss)[q * ItemSize + b] = <<es[q + 1], b>>
  <2>1. q + 1 \in 1..N /\ q \in 0..(Len(ss) - 1)
    BY <1>1, <1>3
  <2>2. FlattenSeq(ss)[q * ItemSize + b] = ss[q + 1][b]
    BY <1>4, <2>1
  <2>3. es[q + 1] \in Seq(Nat) /\ ss[q + 1] = Bytes(es[q + 1])
    BY <1>1, <1>3, <2>1
  <2> QED BY <2>2, <2>3, BytesFacts
<1> QED BY <1>3, <1>4, <1>5 DEF Joined, ss, N

\* Bytes that are where they should be are those of the sequence.
LEMMA JoinedUnique ==
  ASSUME NEW es \in Seq(Seq(Nat)), NEW data \in Seq(ByteSet),
         Len(data) = Len(es) * ItemSize,
         \A q \in 0..(Len(es) - 1), b \in 1..ItemSize :
            data[q * ItemSize + b] = <<es[q + 1], b>>
  PROVE  data = Joined(es)
<1>1. ASSUME NEW j \in 1..Len(data)  PROVE data[j] = Joined(es)[j]
  <2>1. PICK q \in 0..(Len(es) - 1), b \in 1..ItemSize : j = q * ItemSize + b
    <3>1. Len(es) \in Nat /\ ItemSize \in Nat /\ j \in 1..(Len(es) * ItemSize)
      BY ItemAssumption
    <3> QED BY <3>1, BlockOf
  <2> QED BY <2>1, JoinedFacts
<1> QED BY <1>1, JoinedFacts, SameSequence

\* Cutting between elements gives the bytes of those between.
LEMMA CutJoined ==
  ASSUME NEW es \in Seq(Seq(Nat)), NEW from \in 0..Len(es), NEW to \in 0..Len(es)
  PROVE  Cut(Joined(es), from * ItemSize, to * ItemSize) = Joined(SubSeq(es, from + 1, to))
<1> DEFINE m == ItemSize
           N == Len(es)
           J == Joined(es)
           cut == SubSeq(J, from * m + 1, to * m)
           part == SubSeq(es, from + 1, to)
<1>1. from \in 0..N /\ to \in 0..N /\ m \in Nat /\ N \in Nat /\ J \in Seq(ByteSet) /\ Len(J) = N * m
  BY ItemAssumption, JoinedFacts
<1>2. from * m \in Nat /\ to * m \in Nat /\ to * m <= Len(J)
  <2> HIDE DEF m, N, J
  <2> QED BY <1>1, Multiples
<1>3. Cut(J, from * m, to * m) = cut
  <2> DEFINE x == from * m
             y == to * m
  <2>1. (IF y < Len(J) THEN y ELSE Len(J)) = y
    BY <1>1, <1>2
  <2> HIDE DEF x, y, J
  <2>2. Cut(J, x, y) = SubSeq(J, x + 1, y)
    BY <2>1 DEF Cut
  <2> QED BY <2>2 DEF x, y
<1>4. part \in Seq(Seq(Nat)) /\ Len(part) = IF from <= to THEN to - from ELSE 0
  OBVIOUS
<1>5. CASE from <= to
  <2>1. to * m = from * m + (to - from) * m
    <3> HIDE DEF m
    <3> QED BY <1>1
  <2> DEFINE x == from * m
             y == to * m
             z == (to - from) * m
  <2>2. x \in Nat /\ y \in Nat /\ z \in Nat /\ y = x + z /\ y <= Len(J) /\ to - from \in Nat
    <3>1. (to - from) \in Nat
      BY <1>5
    <3>2. (to - from) * m \in Nat
      <4> HIDE DEF m
      <4> QED BY <1>1, <3>1
    <3> QED BY <1>2, <2>1, <3>1, <3>2
  <2>3. /\ SubSeq(J, x + 1, y) \in Seq(ByteSet) /\ Len(SubSeq(J, x + 1, y)) = z
        /\ \A k \in 1..z : SubSeq(J, x + 1, y)[k] = J[x + k]
    <3> HIDE DEF x, y, z, J
    <3>1. x <= y /\ y - x = z
      BY <2>2
    <3> QED BY <1>1, <2>2, <3>1, SubSeqFacts
  <2>4. ASSUME NEW q \in 0..(to - from - 1), NEW b \in 1..m
        PROVE  cut[q * m + b] = <<part[q + 1], b>>
    <3>1. q * m + b \in 1..z /\ q * m \in Nat
      <4> DEFINE n == to - from
      <4>1. n \in Nat /\ q \in 0..(n - 1)
        BY <2>2
      <4> HIDE DEF m, n
      <4> QED BY <1>1, <4>1, InBlock DEF n
    <3>2. cut[q * m + b] = J[from * m + (q * m + b)]
      BY <2>3, <3>1
    <3>3. from * m + (q * m + b) = (from + q) * m + b /\ from + q \in 0..(N - 1)
      <4>1. from * m + (q * m + b) = (from + q) * m + b
        <5> HIDE DEF m
        <5> QED BY <1>1
      <4> QED BY <1>5, <4>1
    <3>4. J[(from + q) * m + b] = <<es[from + q + 1], b>>
      BY <3>3, JoinedFacts
    <3>5. part[q + 1] = es[from + q + 1]
      <4>1. q + 1 \in 1..(to - from) /\ from + (q + 1) = from + q + 1
        OBVIOUS
      <4> QED BY <1>5, <4>1, SubSeqFacts
    <3> QED BY <3>2, <3>3, <3>4, <3>5
  <2>5. cut \in Seq(ByteSet) /\ Len(cut) = Len(part) * m
    BY <1>4, <1>5, <2>3
  <2>6. \A q \in 0..(Len(part) - 1), b \in 1..m : cut[q * m + b] = <<part[q + 1], b>>
    BY <1>4, <1>5, <2>4
  <2> HIDE DEF cut, part
  <2> QED BY <1>3, <1>4, <2>5, <2>6, JoinedUnique DEF part
<1>6. CASE from > to
  <2>1. to * m <= from * m
    <3> HIDE DEF m
    <3> QED BY <1>1, <1>6, Multiples
  <2>2. cut = << >>
    <3> DEFINE x == from * m
               y == to * m
    <3>1. x \in Nat /\ y \in Nat /\ y <= x /\ y <= Len(J)
      BY <1>2, <2>1
    <3> HIDE DEF x, y, J
    <3>2. SubSeq(J, x + 1, y) = << >>
      BY <1>1, <3>1
    <3> QED BY <3>2 DEF x, y
  <2>3. part = << >>
    BY <1>6
  <2>4. Joined(<< >>) = << >>
    <3>1. << >> \in Seq(Seq(Nat)) /\ Len(<< >>) = 0
      OBVIOUS
    <3>2. Joined(<< >>) \in Seq(ByteSet) /\ Len(Joined(<< >>)) = 0
      <4>1. 0 * ItemSize = 0
        BY ItemAssumption
      <4> QED BY <3>1, <4>1, JoinedFacts
    <3> QED BY <3>2
  <2> QED BY <1>3, <2>2, <2>3, <2>4
<1> QED BY <1>5, <1>6

\* The bytes cut for one element are its bytes.
LEMMA CutElement ==
  ASSUME NEW es \in Seq(Seq(Nat)), NEW q \in 0..(Len(es) - 1)
  PROVE  Cut(Joined(es), q * ItemSize, (q + 1) * ItemSize) = Bytes(es[q + 1])
<1> DEFINE e == es[q + 1]
<1>1. q \in 0..Len(es) /\ q + 1 \in 0..Len(es) /\ e \in Seq(Nat)
  OBVIOUS
<1>2. SubSeq(es, q + 1, q + 1) = <<e>>
  <2> DEFINE part == SubSeq(es, q + 1, q + 1)
  <2>1. q \in Nat /\ q + 1 \in Nat /\ q <= q + 1 /\ (q + 1) - q = 1
    OBVIOUS
  <2>2. part \in Seq(Seq(Nat)) /\ Len(part) = 1 /\ part[1] = e
    BY <1>1, <2>1, SubSeqFacts
  <2> HIDE DEF part, e
  <2>3. <<e>> \in Seq(Seq(Nat)) /\ Len(<<e>>) = 1 /\ <<e>>[1] = e
    BY <1>1
  <2>4. \A i \in 1..Len(part) : part[i] = <<e>>[i]
    BY <2>2, <2>3
  <2>5. part = <<e>>
    BY <2>2, <2>3, <2>4, SameSequence
  <2> QED BY <2>5 DEF part
<1>3. Bytes(e) = Joined(<<e>>)
  <2>1. /\ <<e>> \in Seq(Seq(Nat)) /\ Len(<<e>>) = 1 /\ <<e>>[1] = e
        /\ 1 * ItemSize = ItemSize /\ 0 * ItemSize = 0
    BY <1>1, ItemAssumption
  <2> HIDE DEF e
  <2>2. /\ Bytes(e) \in Seq(ByteSet) /\ Len(Bytes(e)) = Len(<<e>>) * ItemSize
        /\ \A b \in 1..ItemSize : Bytes(e)[b] = <<e, b>>
    BY <1>1, <2>1, BytesFacts
  <2>3. ASSUME NEW x \in 0..(Len(<<e>>) - 1), NEW b \in 1..ItemSize
        PROVE  Bytes(e)[x * ItemSize + b] = <<(<<e>>[x + 1]), b>>
    <3>1. x = 0 /\ 0 * ItemSize + b = b /\ 0 + 1 = 1
      BY <2>1
    <3> QED BY <2>1, <2>2, <3>1
  <2> QED BY <2>1, <2>2, <2>3, JoinedUnique
<1>4. Cut(Joined(es), q * ItemSize, (q + 1) * ItemSize) = Joined(SubSeq(es, q + 1, q + 1))
  BY <1>1, CutJoined
<1> QED BY <1>2, <1>3, <1>4

\* They decode to that element.
LEMMA DecodeJoined ==
  ASSUME NEW es \in Seq(Seq(Nat)), NEW q \in 0..(Len(es) - 1), NEW v,
         v.data = Joined(es), item = ItemSize
  PROVE  DecodeAt(v, q) = Element(es[q + 1])
<1> DEFINE e == es[q + 1]
<1>1. e \in Seq(Nat)
  OBVIOUS
<1>2. Cut(v.data, q * item, (q + 1) * item) = Bytes(e)
  BY CutElement
<1> HIDE DEF e
<1>3. ItemSize \in Nat \ {0} /\ Len(Bytes(e)) = ItemSize /\ Bytes(e)[1] = <<e, 1>>
  BY <1>1, ItemAssumption, BytesFacts
<1>4. ~(item = 0 \/ Len(Bytes(e)) < item) /\ Bytes(e)[1][1] = e
  BY <1>3
<1>5. DecodeAt(v, q) = Element(e)
  BY <1>2, <1>4 DEF DecodeAt
<1> QED BY <1>5 DEF e

\* Nothing can be cut from no bytes.
LEMMA CutNothing ==
  ASSUME NEW from \in Nat, NEW to \in Nat
  PROVE  Cut(<< >>, from, to) = << >>
BY DEF Cut

\* Without bytes, or with an unknown dtype, nothing decodes.
LEMMA DecodeNothing ==
  ASSUME NEW q \in Nat, NEW v, item = 0 \/ (item = ItemSize /\ v.data = << >>)
  PROVE  DecodeAt(v, q) = Failure("undecodable")
<1>1. CASE item = 0
  BY <1>1 DEF DecodeAt
<1>2. CASE item = ItemSize /\ v.data = << >>
  <2>1. q * item \in Nat /\ (q + 1) * item \in Nat
    BY <1>2, ItemAssumption
  <2>2. Len(Cut(v.data, q * item, (q + 1) * item)) = 0
    BY <1>2, <2>1, CutNothing
  <2> QED BY <1>2, <2>2, ItemAssumption DEF DecodeAt
<1> QED BY <1>1, <1>2
-----------------------------------------------------------------------------
(* Arrays *)

\* The tuples of an array are those that are in range on every axis.
Box(s) == {t \in Seq(Nat) : Len(t) = Len(s) /\ \A k \in 1..Len(s) : t[k] < s[k]}

\* A sequence with an element put before it.
LEMMA HeadAndTail ==
  ASSUME NEW S, NEW q \in S, NEW t \in Seq(S)
  PROVE  /\ <<q>> \o t \in Seq(S) /\ Len(<<q>> \o t) = Len(t) + 1
         /\ (<<q>> \o t)[1] = q /\ \A k \in 1..Len(t) : (<<q>> \o t)[k + 1] = t[k]
OBVIOUS

\* A sequence that is not empty has a head and a tail.
LEMMA Uncons ==
  ASSUME NEW S, NEW t \in Seq(S), t # << >>
  PROVE  t = <<t[1]>> \o Tail(t)
OBVIOUS

\* The indices of an array are the tuples below its shape.
LEMMA TuplesFacts == \A s \in Seq(Nat) : AllTuples(s) = Box(s)
<1> DEFINE P == {s \in Seq(Nat) : AllTuples(s) = Box(s)}
<1>1. << >> \in P
  <2>1. AllTuples(<< >>) = {<< >>}
    BY NdindexFacts DEF AllTuples, ToSet
  <2>2. Box(<< >>) = {<< >>}
    <3>1. \A t \in Seq(Nat) : Len(t) = 0 <=> t = << >>
      OBVIOUS
    <3>2. << >> \in Seq(Nat) /\ Len(<< >>) = 0 /\ 1..0 = {}
      OBVIOUS
    <3>3. ASSUME NEW t \in Box(<< >>)  PROVE t = << >>
      BY <3>1, <3>2 DEF Box
    <3>4. << >> \in Box(<< >>)
      BY <3>2 DEF Box
    <3> QED BY <3>3, <3>4
  <2> QED BY <2>1, <2>2
<1>2. ASSUME NEW s \in Seq(Nat), s # << >>, Tail(s) \in P  PROVE s \in P
  <2> DEFINE n == s[1]
             m == Size[Tail(s)]
  <2>1. /\ n \in Nat /\ Tail(s) \in Seq(Nat) /\ Len(Tail(s)) = Len(s) - 1 /\ Len(s) \in Nat \ {0}
        /\ \A k \in 1..(Len(s) - 1) : Tail(s)[k] = s[k + 1]
    BY <1>2, TailFacts
  <2>2. m \in Nat /\ Len(Ndindex[s]) = n * m /\ Len(Ndindex[Tail(s)]) = m
    BY <1>2, <2>1, SizeFacts, NdindexFacts
  <2>3. Ndindex[s] \in Seq(Seq(Nat)) /\ Ndindex[Tail(s)] \in Seq(Seq(Nat))
    BY <2>1, NdindexFacts
  <2>4. AllTuples(s) = {Ndindex[s][j] : j \in 1..(n * m)}
    BY <2>2, <2>3 DEF AllTuples, ToSet
  <2>5. Box(Tail(s)) = {Ndindex[Tail(s)][r] : r \in 1..m}
    BY <1>2, <2>2, <2>3 DEF AllTuples, ToSet
  <2>6. \A q \in 0..(n - 1), r \in 1..m : Ndindex[s][q * m + r] = <<q>> \o Ndindex[Tail(s)][r]
    BY <1>2, NdindexFacts
  <2> HIDE DEF n, m
  <2>7. ASSUME NEW t \in AllTuples(s)  PROVE t \in Box(s)
    <3>1. PICK j \in 1..(n * m) : t = Ndindex[s][j]
      BY <2>4
    <3>2. PICK q \in 0..(n - 1), r \in 1..m : j = q * m + r
      BY <2>1, <2>2, BlockOf
    <3> DEFINE u == Ndindex[Tail(s)][r]
    <3>3. t = <<q>> \o u /\ u \in Box(Tail(s)) /\ q \in Nat /\ q < n
      <4>1. q \in Nat /\ q < n
        BY <2>1
      <4>2. t = <<q>> \o u
        BY <2>6, <3>1, <3>2
      <4> QED BY <2>5, <4>1, <4>2
    <3> HIDE DEF u
    <3>4. u \in Seq(Nat) /\ Len(u) = Len(s) - 1 /\ \A k \in 1..(Len(s) - 1) : u[k] < s[k + 1]
      BY <2>1, <3>3 DEF Box
    <3>5. t \in Seq(Nat) /\ Len(t) = Len(s) /\ t[1] = q /\ \A k \in 1..Len(u) : t[k + 1] = u[k]
      <4>1. /\ t \in Seq(Nat) /\ Len(t) = Len(u) + 1 /\ t[1] = q
            /\ \A k \in 1..Len(u) : t[k + 1] = u[k]
        BY <3>3, <3>4, HeadAndTail
      <4> QED BY <2>1, <3>4, <4>1
    <3>6. ASSUME NEW k \in 1..Len(s)  PROVE t[k] < s[k]
      <4>1. CASE k = 1
        BY <3>3, <3>5, <4>1 DEF n
      <4>2. CASE k # 1
        <5>1. k - 1 \in 1..(Len(s) - 1) /\ (k - 1) + 1 = k
          BY <2>1, <4>2
        <5>2. t[k] = u[k - 1]
          BY <3>4, <3>5, <5>1
        <5> QED BY <3>4, <5>1, <5>2
      <4> QED BY <4>1, <4>2
    <3> QED BY <3>5, <3>6 DEF Box
  <2>8. ASSUME NEW t \in Box(s)  PROVE t \in AllTuples(s)
    <3>1. t \in Seq(Nat) /\ Len(t) = Len(s) /\ t # << >> /\ \A k \in 1..Len(s) : t[k] < s[k]
      BY <2>1 DEF Box
    <3>2. /\ t[1] \in Nat /\ t[1] < n /\ t = <<t[1]>> \o Tail(t)
          /\ Tail(t) \in Seq(Nat) /\ Len(Tail(t)) = Len(s) - 1
          /\ \A k \in 1..(Len(s) - 1) : Tail(t)[k] = t[k + 1]
      BY <2>1, <3>1, TailFacts, Uncons DEF n
    <3>3. ASSUME NEW k \in 1..(Len(s) - 1)  PROVE Tail(t)[k] < Tail(s)[k]
      <4>1. k + 1 \in 1..Len(s)
        BY <2>1
      <4> QED BY <2>1, <3>1, <3>2, <4>1
    <3>4. Tail(t) \in Box(Tail(s))
      BY <2>1, <3>2, <3>3 DEF Box
    <3>5. PICK r \in 1..m : Tail(t) = Ndindex[Tail(s)][r]
      BY <2>5, <3>4
    <3> DEFINE q == t[1]
    <3>6. q \in 0..(n - 1)
      BY <2>1, <3>2
    <3>7. t = Ndindex[s][q * m + r]
      BY <2>6, <3>2, <3>5, <3>6
    <3>8. q * m + r \in 1..(n * m)
      BY <2>1, <2>2, <3>6, InBlock
    <3> QED BY <2>4, <3>7, <3>8
  <2> QED BY <2>7, <2>8
<1>3. P = Seq(Nat)
  <2>1. P \in SUBSET Seq(Nat)
    OBVIOUS
  <2> HIDE DEF P
  <2> QED BY <1>1, <1>2, <2>1, AxisInduction
<1> QED BY <1>3

IsArray(a) == /\ a = Array(a.shape, a.at)
              /\ a.shape \in Seq(Nat) /\ a.at \in [AllTuples(a.shape) -> Seq(Nat)]

\* An array holds as many elements as its shape says.
LEMMA ElementsFacts ==
  ASSUME NEW a, IsArray(a)
  PROVE  /\ Elements(a) \in Seq(Seq(Nat)) /\ Len(Elements(a)) = Size[a.shape]
         /\ \A n \in 1..Size[a.shape] : Elements(a)[n] = a.at[Ndindex[a.shape][n]]
<1> DEFINE nd == Ndindex[a.shape]
           N == Size[a.shape]
<1>1. nd \in Seq(Seq(Nat)) /\ Len(nd) = N /\ N \in Nat
  BY NdindexFacts, SizeFacts DEF IsArray
<1>2. DOMAIN nd = 1..N
  <2> HIDE DEF nd, N
  <2> QED BY <1>1
<1>3. \A n \in 1..N : nd[n] \in AllTuples(a.shape)
  BY <1>2 DEF AllTuples, ToSet
<1>4. \A n \in 1..N : a.at[nd[n]] \in Seq(Nat)
  BY <1>3 DEF IsArray
<1>5. Elements(a) = [n \in 1..N |-> a.at[nd[n]]]
  BY <1>2 DEF Elements
<1> DEFINE X == Seq(Nat)
           f == [n \in 1..N |-> a.at[nd[n]]]
<1>6. \A n \in 1..N : f[n] \in X /\ f[n] = a.at[nd[n]]
  BY <1>4
<1>7. f = [n \in 1..N |-> f[n]]
  OBVIOUS
<1> HIDE DEF nd, N, X, f
<1>8. f \in Seq(X) /\ Len(f) = N
  BY <1>1, <1>6, <1>7, IsSequence
<1> QED BY <1>5, <1>6, <1>8 DEF f, X, N, nd

Norm(shape, idx) ==
    [k \in 1..Len(idx) |-> IF idx[k] < 0 THEN idx[k] + shape[k] ELSE idx[k]]
InRange(shape, idx) ==
    /\ Len(idx) <= Len(shape)
    /\ \A k \in 1..Len(idx) : -shape[k] <= idx[k] /\ idx[k] < shape[k]
Rest(shape, n) == SubSeq(shape, n + 1, Len(shape))

\* An index out of range is an error.
LEMMA AtFails ==
  ASSUME NEW a, a.shape \in Seq(Nat), NEW idx \in Seq(Int), ~InRange(a.shape, idx)
  PROVE  At(a, idx) = Failure("IndexError")
<1>1. \/ Len(idx) > Len(a.shape)
      \/ /\ Len(idx) <= Len(a.shape)
         /\ \E k \in 1..Len(idx) : ~(-a.shape[k] <= idx[k] /\ idx[k] < a.shape[k])
  BY DEF InRange
<1>2. CASE Len(idx) > Len(a.shape)
  BY <1>2 DEF At
<1>3. CASE /\ Len(idx) <= Len(a.shape)
           /\ \E k \in 1..Len(idx) : ~(-a.shape[k] <= idx[k] /\ idx[k] < a.shape[k])
  <2>1. PICK k \in 1..Len(idx) : ~(-a.shape[k] <= idx[k] /\ idx[k] < a.shape[k])
    BY <1>3
  <2>2. idx[k] \in Int /\ a.shape[k] \in Nat
    BY <1>3
  <2>3. idx[k] < -a.shape[k] \/ idx[k] >= a.shape[k]
    BY <2>1, <2>2
  <2> QED BY <2>3 DEF At
<1> QED BY <1>1, <1>2, <1>3

\* The axes after the first n.
LEMMA RestFacts ==
  ASSUME NEW s \in Seq(Nat), NEW n \in 0..Len(s)
  PROVE  /\ Rest(s, n) \in Seq(Nat) /\ Len(Rest(s, n)) = Len(s) - n
         /\ \A k \in 1..(Len(s) - n) : Rest(s, n)[k] = s[n + k]
         /\ Rest(s, n) = << >> <=> n = Len(s)
<1>1. n \in Nat /\ Len(s) \in Nat /\ n <= Len(s)
  OBVIOUS
<1> DEFINE r == SubSeq(s, n + 1, Len(s))
           N == Len(s)
<1>2. r \in Seq(Nat) /\ Len(r) = N - n /\ \A k \in 1..(N - n) : r[k] = s[n + k]
  <2> HIDE DEF r, N
  <2> QED BY <1>1, SubSeqFacts DEF r, N
<1>3. r = << >> <=> Len(r) = 0
  <2> HIDE DEF r
  <2> QED BY <1>2
<1> HIDE DEF r
<1> QED BY <1>1, <1>2, <1>3 DEF Rest, r

\* All axes come after none.
LEMMA RestAll ==
  ASSUME NEW s \in Seq(Nat)
  PROVE  Rest(s, 0) = s
<1>1. 0 \in 0..Len(s) /\ Len(s) - 0 = Len(s) /\ \A k \in 1..Len(s) : 0 + k = k
  OBVIOUS
<1>2. /\ Rest(s, 0) \in Seq(Nat) /\ Len(Rest(s, 0)) = Len(s) - 0
      /\ \A k \in 1..(Len(s) - 0) : Rest(s, 0)[k] = s[0 + k]
  BY <1>1, RestFacts
<1>3. Len(Rest(s, 0)) = Len(s) /\ \A k \in 1..Len(s) : Rest(s, 0)[k] = s[k]
  BY <1>1, <1>2
<1> QED BY <1>2, <1>3, SameSequence

\* The first of the axes that are left, and the others.
LEMMA RestCons ==
  ASSUME NEW s \in Seq(Nat), NEW k \in 1..Len(s)
  PROVE  LET r == Rest(s, k - 1)
         IN r \in Seq(Nat) /\ r # << >> /\ r[1] = s[k] /\ Tail(r) = Rest(s, k)
<1> DEFINE r == Rest(s, k - 1)
           t == Rest(s, k)
           n == Len(s)
<1>1. k - 1 \in 0..n /\ k \in 0..n /\ n \in Nat /\ (k - 1) + 1 = k
  OBVIOUS
<1>2. r \in Seq(Nat) /\ Len(r) = n - (k - 1) /\ \A x \in 1..(n - (k - 1)) : r[x] = s[(k - 1) + x]
  BY <1>1, RestFacts
<1>3. t \in Seq(Nat) /\ Len(t) = n - k /\ \A x \in 1..(n - k) : t[x] = s[k + x]
  BY <1>1, RestFacts
<1> HIDE DEF r, t, n
<1>4. Len(r) # 0 /\ 1 \in 1..(n - (k - 1))
  BY <1>1, <1>2
<1>5. r # << >> /\ r[1] = s[k]
  BY <1>1, <1>2, <1>4, EmptySequence
<1>6. Tail(r) \in Seq(Nat) /\ Len(Tail(r)) = n - k /\ \A x \in 1..(n - k) : Tail(r)[x] = r[x + 1]
  <2>1. /\ Tail(r) \in Seq(Nat) /\ Len(Tail(r)) = Len(r) - 1
        /\ \A x \in 1..(Len(r) - 1) : Tail(r)[x] = r[x + 1]
    BY <1>2, <1>5, TailFacts
  <2>2. Len(r) - 1 = n - k
    BY <1>1, <1>2
  <2> QED BY <2>1, <2>2
<1>7. \A x \in 1..(n - k) : x + 1 \in 1..(n - (k - 1)) /\ (k - 1) + (x + 1) = k + x
  BY <1>1
<1>8. \A x \in 1..Len(Tail(r)) : Tail(r)[x] = t[x]
  <2> SUFFICES ASSUME NEW x \in 1..(n - k)  PROVE Tail(r)[x] = t[x]
    BY <1>6
  <2>1. Tail(r)[x] = r[x + 1]
    BY <1>6
  <2>2. r[x + 1] = s[(k - 1) + (x + 1)]
    BY <1>2, <1>7
  <2> QED BY <1>3, <1>7, <2>1, <2>2
<1>9. Tail(r) = t
  BY <1>3, <1>6, <1>8, SameSequence
<1> QED BY <1>2, <1>5, <1>9 DEF r, t

\* An index in range, counted from the front, indexes the array.
LEMMA NormFacts ==
  ASSUME NEW s \in Seq(Nat), NEW idx \in Seq(Int), InRange(s, idx)
  PROVE  /\ Norm(s, idx) \in Seq(Nat) /\ Len(Norm(s, idx)) = Len(idx)
         /\ \A k \in 1..Len(idx) : Norm(s, idx)[k] < s[k]
         /\ \A t \in AllTuples(Rest(s, Len(idx))) : Norm(s, idx) \o t \in AllTuples(s)
<1> DEFINE i == Norm(s, idx)
           n == Len(idx)
<1>1. n \in 0..Len(s)
  BY DEF InRange
<1>2. ASSUME NEW k \in 1..n  PROVE i[k] \in Nat /\ i[k] < s[k]
  <2>1. idx[k] \in Int /\ s[k] \in Nat /\ -s[k] <= idx[k] /\ idx[k] < s[k]
    BY <1>1 DEF InRange
  <2> QED BY <2>1 DEF Norm
<1>3. i \in Seq(Nat) /\ Len(i) = n
  <2>1. i = [k \in 1..n |-> i[k]] /\ n \in Nat
    BY DEF Norm
  <2> DEFINE X == Nat
  <2>2. \A k \in 1..n : i[k] \in X
    BY <1>2
  <2> HIDE DEF i, n, X
  <2>3. i \in Seq(X) /\ Len(i) = n
    BY <2>1, <2>2, IsSequence
  <2> QED BY <2>3 DEF X
<1>4. ASSUME NEW t \in AllTuples(Rest(s, n))  PROVE i \o t \in AllTuples(s)
  <2> DEFINE rest == Rest(s, n)
  <2>1. rest \in Seq(Nat) /\ Len(rest) = Len(s) - n /\ \A k \in 1..(Len(s) - n) : rest[k] = s[n + k]
    BY <1>1, RestFacts
  <2>2. t \in Seq(Nat) /\ Len(t) = Len(s) - n /\ \A k \in 1..(Len(s) - n) : t[k] < rest[k]
    BY <2>1, TuplesFacts DEF Box
  <2> HIDE DEF i
  <2>3. /\ i \o t \in Seq(Nat) /\ Len(i \o t) = Len(i) + Len(t)
        /\ \A k \in 1..Len(i) : (i \o t)[k] = i[k]
        /\ \A k \in 1..Len(t) : (i \o t)[Len(i) + k] = t[k]
    BY <1>3, <2>2, Concatenation, SMTT(30)
  <2>4. ASSUME NEW k \in 1..Len(s)  PROVE (i \o t)[k] < s[k]
    <3>1. CASE k <= n
      <4>1. k \in 1..n
        BY <3>1
      <4> QED BY <1>2, <1>3, <2>3, <4>1
    <3>2. CASE k > n
      <4>1. k - n \in 1..(Len(s) - n) /\ n + (k - n) = k
        BY <1>1, <3>2
      <4>2. (i \o t)[n + (k - n)] = t[k - n]
        BY <1>3, <2>2, <2>3, <4>1
      <4> QED BY <2>1, <2>2, <4>1, <4>2
    <3>3. k <= n \/ k > n
      OBVIOUS
    <3> QED BY <3>1, <3>2, <3>3
  <2>5. i \o t \in Box(s)
    <3>1. Len(i \o t) = Len(s)
      BY <1>1, <1>3, <2>2, <2>3
    <3> QED BY <2>3, <2>4, <3>1 DEF Box
  <2> QED BY <2>5, TuplesFacts
<1> QED BY <1>2, <1>3, <1>4

\* What an index in range selects of an array.
LEMMA AtFacts ==
  ASSUME NEW a, IsArray(a), NEW idx \in Seq(Int), InRange(a.shape, idx)
  PROVE  LET rest == Rest(a.shape, Len(idx))
             i == Norm(a.shape, idx)
         IN /\ rest = << >> => At(a, idx) = Element(a.at[i]) /\ i \in AllTuples(a.shape)
            /\ rest # << >> =>
                  /\ At(a, idx) = Array(rest, [t \in AllTuples(rest) |-> a.at[i \o t]])
                  /\ IsArray(At(a, idx))
<1> DEFINE rest == Rest(a.shape, Len(idx))
           i == Norm(a.shape, idx)
           at == [t \in AllTuples(rest) |-> a.at[i \o t]]
<1>1. a.shape \in Seq(Nat) /\ a.at \in [AllTuples(a.shape) -> Seq(Nat)]
  BY DEF IsArray
<1>2. Len(idx) \in 0..Len(a.shape)
  BY <1>1 DEF InRange
<1>3. ~(\/ Len(idx) > Len(a.shape)
        \/ \E k \in 1..Len(idx) : idx[k] < -a.shape[k] \/ idx[k] >= a.shape[k])
  <2>1. \A k \in 1..Len(idx) : idx[k] \in Int /\ a.shape[k] \in Nat
    BY <1>1, <1>2
  <2> QED BY <1>2, <2>1 DEF InRange
<1>4. At(a, idx) = IF rest = << >> THEN Element(a.at[i]) ELSE Array(rest, at)
  BY <1>3 DEF At, Norm, Rest
<1>5. at \in [AllTuples(rest) -> Seq(Nat)] /\ rest \in Seq(Nat)
  BY <1>1, <1>2, NormFacts, RestFacts
<1>6. i \in AllTuples(a.shape) \/ rest # << >>
  <2> SUFFICES ASSUME rest = << >>  PROVE i \in AllTuples(a.shape)
    OBVIOUS
  <2>1. << >> \in AllTuples(<< >>)
    BY NdindexFacts DEF AllTuples, ToSet
  <2>2. i \o << >> \in AllTuples(a.shape) /\ i \in Seq(Nat)
    BY <1>1, <2>1, NormFacts
  <2> HIDE DEF i
  <2> QED BY <2>2
<1> HIDE DEF rest, i, at
<1>7. rest # << >> => IsArray(Array(rest, at))
  BY <1>5 DEF IsArray, Array
<1> QED BY <1>4, <1>6, <1>7 DEF rest, i, at
-----------------------------------------------------------------------------
(* Rows *)

\* The elements of a row are consecutive.
LEMMA RowElements ==
  ASSUME NEW a, IsArray(a), a.shape # << >>, NEW q \in 0..(a.shape[1] - 1)
  PROVE  LET S == Size[Tail(a.shape)]
         IN /\ S \in Nat /\ Size[a.shape] = a.shape[1] * S
            /\ q * S \in 0..Size[a.shape] /\ (q + 1) * S \in 0..Size[a.shape]
            /\ (q + 1) * S = q * S + S
            /\ \A k \in 1..S : /\ q * S + k \in 1..Size[a.shape]
                               /\ Elements(a)[q * S + k] = a.at[<<q>> \o Ndindex[Tail(a.shape)][k]]
<1> DEFINE s == a.shape
           S == Size[Tail(s)]
           n == s[1]
<1>1. s \in Seq(Nat) /\ n \in Nat /\ Tail(s) \in Seq(Nat)
  BY TailFacts DEF IsArray
<1>2. S \in Nat /\ Size[s] = n * S
  BY <1>1, SizeFacts
<1>3. q * S \in 0..Size[s] /\ (q + 1) * S \in 0..Size[s]
  <2>1. q \in Nat /\ q + 1 \in Nat /\ q <= n /\ q + 1 <= n
    BY <1>1
  <2> HIDE DEF S, n, s
  <2>2. q * S \in Nat /\ (q + 1) * S \in Nat /\ n * S \in Nat /\ q * S <= n * S /\ (q + 1) * S <= n * S
    BY <1>1, <1>2, <2>1, Multiples
  <2> QED BY <1>2, <2>2
<1>4. (q + 1) * S = q * S + S
  <2> HIDE DEF S
  <2> QED BY <1>2
<1>5. ASSUME NEW k \in 1..S
      PROVE  q * S + k \in 1..Size[s] /\ Elements(a)[q * S + k] = a.at[<<q>> \o Ndindex[Tail(s)][k]]
  <2>1. q * S + k \in 1..Size[s]
    <3> HIDE DEF S, s
    <3>1. q * S + k \in 1..(n * S)
      <4> HIDE DEF n
      <4> QED BY <1>1, <1>2, InBlock DEF n, s
    <3> QED BY <1>2, <3>1
  <2>2. Ndindex[s][q * S + k] = <<q>> \o Ndindex[Tail(s)][k]
    BY <1>1, NdindexFacts
  <2>3. Elements(a)[q * S + k] = a.at[Ndindex[s][q * S + k]]
    <3> HIDE DEF S
    <3> QED BY <2>1, ElementsFacts
  <2> QED BY <2>1, <2>2, <2>3
<1> QED BY <1>2, <1>3, <1>4, <1>5

\* A row's elements are a part of the array's.
LEMMA RowIsPart ==
  ASSUME NEW a, IsArray(a), a.shape # << >>, NEW q \in 0..(a.shape[1] - 1),
         NEW r, IsArray(r), r.shape = Tail(a.shape),
         \A t \in AllTuples(r.shape) : r.at[t] = a.at[<<q>> \o t]
  PROVE  LET S == Size[Tail(a.shape)]
         IN Elements(r) = SubSeq(Elements(a), q * S + 1, (q + 1) * S)
<1> DEFINE S == Size[Tail(a.shape)]
           es == Elements(a)
           x == q * S
           y == (q + 1) * S
<1>1. /\ S \in Nat /\ x \in Nat /\ y \in Nat /\ y = x + S /\ y <= Len(es)
      /\ \A k \in 1..S : es[x + k] = a.at[<<q>> \o Ndindex[Tail(a.shape)][k]]
  <2>1. /\ S \in Nat
        /\ q * S \in 0..Size[a.shape] /\ (q + 1) * S \in 0..Size[a.shape]
        /\ (q + 1) * S = q * S + S
        /\ \A k \in 1..S : Elements(a)[q * S + k] = a.at[<<q>> \o Ndindex[Tail(a.shape)][k]]
    BY RowElements, Zenon
  <2>2. Len(es) = Size[a.shape]
    BY ElementsFacts
  <2> QED BY <2>1, <2>2
<1>2. Tail(a.shape) \in Seq(Nat)
  BY TailFacts DEF IsArray
<1>3. \A k \in 1..S : Ndindex[Tail(a.shape)][k] \in AllTuples(r.shape)
  <2>1. Len(Ndindex[r.shape]) = S /\ Ndindex[r.shape] \in Seq(Seq(Nat))
    BY <1>2, NdindexFacts
  <2>2. DOMAIN Ndindex[r.shape] = 1..S
    <3> HIDE DEF S
    <3> QED BY <2>1
  <2> QED BY <2>2 DEF AllTuples, ToSet
<1>4. /\ Elements(r) \in Seq(Seq(Nat)) /\ Len(Elements(r)) = S
      /\ \A k \in 1..S : Elements(r)[k] = es[x + k]
  <2>1. /\ Elements(r) \in Seq(Seq(Nat)) /\ Len(Elements(r)) = S
        /\ \A k \in 1..S : Elements(r)[k] = r.at[Ndindex[r.shape][k]]
    BY ElementsFacts
  <2> QED BY <1>1, <1>3, <2>1
<1>5. es \in Seq(Seq(Nat))
  BY ElementsFacts
<1> HIDE DEF S, es, x, y
<1>6. y - x = S /\ x <= y
  BY <1>1
<1>7. /\ SubSeq(es, x + 1, y) \in Seq(Seq(Nat)) /\ Len(SubSeq(es, x + 1, y)) = S
      /\ \A k \in 1..S : SubSeq(es, x + 1, y)[k] = es[x + k]
  BY <1>1, <1>5, <1>6, SubSeqFacts
<1>8. \A k \in 1..Len(Elements(r)) : Elements(r)[k] = SubSeq(es, x + 1, y)[k]
  BY <1>4, <1>7
<1>9. Elements(r) = SubSeq(es, x + 1, y)
  BY <1>4, <1>7, <1>8, SameSequence
<1> QED BY <1>9 DEF S, es, x, y

\* Dividing by a factor gives the other factor: __getitem__ divides the size of
\* an array by its first axis for the size of a row.
LEMMA DivExact ==
  ASSUME NEW n \in Nat \ {0}, NEW S \in Nat
  PROVE  (n * S) \div n = S
<1> DEFINE d == (n * S) \div n
           r == (n * S) % n
<1>1. d \in Int /\ r \in 0..(n - 1) /\ n * S = n * d + r
  BY Multiples
<1> HIDE DEF d, r
<1>2. n * (S - d) = r
  BY <1>1
<1>3. S - d >= 1 => n * (S - d) >= n
  BY <1>1
<1>4. S - d <= -1 => n * (S - d) <= -n
  BY <1>1
<1>5. S = d
  BY <1>1, <1>2, <1>3, <1>4
<1> QED BY <1>5 DEF d

ItemInv == item \in {0, ItemSize} /\ whole \in BOOLEAN

\* What a view shows, and how what the program has goes with what it means.
Shows(v, a) == IsArray(a) /\ v = View(IF whole THEN ToBytes(a) ELSE << >>, a.shape)

Agree(g, a) ==
    \/ Shows(g, a)
    \/ g.is = "element" /\ g = a
    \/ g = Failure("IndexError") /\ g = a
    \/ g = Failure("undecodable") /\ (item = 0 \/ ~whole)

\* One integer as an index.
LEMMA OneIndex ==
  ASSUME NEW s \in Seq(Nat), s # << >>, NEW i \in Int
  PROVE  LET at == IF i < 0 THEN i + s[1] ELSE i
         IN /\ InRange(s, <<i>>) <=> at \in 0..(s[1] - 1)
            /\ Norm(s, <<i>>) = <<at>> /\ Rest(s, 1) = Tail(s) /\ Len(<<i>>) = 1
            /\ <<i>> \in Seq(Int)
<1>1. <<i>> \in Seq(Int) /\ Len(<<i>>) = 1 /\ <<i>>[1] = i
  OBVIOUS
<1>2. s[1] \in Nat /\ Len(s) \in Nat \ {0}
  BY TailFacts
<1>3. InRange(s, <<i>>) <=> -s[1] <= i /\ i < s[1]
  <2>1. \A k : k \in 1..1 <=> k = 1
    OBVIOUS
  <2> QED BY <1>1, <1>2, <2>1 DEF InRange
<1>4. Norm(s, <<i>>) = <<IF i < 0 THEN i + s[1] ELSE i>>
  BY <1>1 DEF Norm
<1>5. Rest(s, 1) = Tail(s)
  <2>1. Rest(s, 1) \in Seq(Nat) /\ Len(Rest(s, 1)) = Len(s) - 1
        /\ \A k \in 1..(Len(s) - 1) : Rest(s, 1)[k] = s[1 + k]
    <3>1. 1 \in 0..Len(s)
      BY <1>2
    <3> QED BY <3>1, RestFacts
  <2>2. Tail(s) \in Seq(Nat) /\ Len(Tail(s)) = Len(s) - 1
        /\ \A k \in 1..(Len(s) - 1) : Tail(s)[k] = s[k + 1]
    BY TailFacts
  <2> HIDE DEF Rest
  <2>3. \A k \in 1..(Len(s) - 1) : 1 + k = k + 1
    BY <1>2
  <2>4. \A k \in 1..Len(Rest(s, 1)) : Rest(s, 1)[k] = Tail(s)[k]
    BY <2>1, <2>2, <2>3
  <2> QED BY <2>1, <2>2, <2>4, SameSequence
<1> QED BY <1>1, <1>2, <1>3, <1>4, <1>5

\* tobytes gives the bytes of the elements in order.
LEMMA BytesAreJoined == \A a : ToBytes(a) = Joined(Elements(a))
BY DEF ToBytes, Joined

\* Errors and elements are neither views nor arrays.
LEMMA NotArrayEnds ==
  \A v, why : Failure(why).is = "error" /\ Element(v).is = "element"
              /\ Failure(why).why = why
BY DEF Failure, Element

\* An integer selects the element or the row it would select of the array.
LEMMA IntFaithful ==
  ASSUME ItemInv, NEW v, NEW a, Shows(v, a), NEW i \in Int
  PROVE  Agree(GetInt(v, i), At(a, <<i>>))
<1> DEFINE s == a.shape
           at == IF i < 0 THEN i + s[1] ELSE i
<1>1. IsArray(a) /\ s \in Seq(Nat) /\ v.shape = s
      /\ v.data = IF whole THEN Joined(Elements(a)) ELSE << >>
  BY BytesAreJoined DEF Shows, View, IsArray
<1>2. ItemSize \in Nat \ {0} /\ item \in {0, ItemSize} /\ whole \in BOOLEAN
  BY ItemAssumption DEF ItemInv
<1>3. CASE s = << >>
  <2>1. ~InRange(s, <<i>>) /\ <<i>> \in Seq(Int)
    BY <1>3 DEF InRange
  <2>2. At(a, <<i>>) = Failure("IndexError")
    BY <1>1, <2>1, AtFails
  <2>3. GetInt(v, i) = Failure("IndexError")
    BY <1>1, <1>3 DEF GetInt
  <2> QED BY <2>2, <2>3 DEF Agree
<1>4. ASSUME s # << >>, at \notin 0..(s[1] - 1)
      PROVE  Agree(GetInt(v, i), At(a, <<i>>))
  <2>1. ~InRange(s, <<i>>) /\ <<i>> \in Seq(Int)
    BY <1>1, <1>4, OneIndex
  <2>2. At(a, <<i>>) = Failure("IndexError")
    BY <1>1, <2>1, AtFails
  <2>3. at < 0 \/ at >= s[1]
    <3>1. s[1] \in Nat
      BY <1>1, <1>4, TailFacts
    <3>2. at \in Int
      BY <3>1
    <3> HIDE DEF at
    <3> QED BY <1>4, <3>1, <3>2
  <2>4. GetInt(v, i) = Failure("IndexError")
    BY <1>1, <2>3 DEF GetInt
  <2> QED BY <2>2, <2>4 DEF Agree
<1>5. ASSUME s # << >>, at \in 0..(s[1] - 1)
      PROVE  Agree(GetInt(v, i), At(a, <<i>>))
  <2> DEFINE rest == Tail(s)
             S == Size[rest]
             es == Elements(a)
             n == s[1]
  <2>1. /\ InRange(s, <<i>>) /\ Norm(s, <<i>>) = <<at>> /\ Rest(s, 1) = rest
        /\ Len(<<i>>) = 1 /\ <<i>> \in Seq(Int)
    BY <1>1, <1>5, OneIndex
  <2>2. /\ rest \in Seq(Nat) /\ n \in Nat \ {0} /\ Len(s) \in Nat \ {0}
        /\ Len(rest) = Len(s) - 1 /\ (rest = << >> <=> Len(s) = 1)
    <3>1. /\ rest \in Seq(Nat) /\ n \in Nat /\ Len(s) \in Nat \ {0}
          /\ Len(rest) = Len(s) - 1
      BY <1>1, <1>5, TailFacts
    <3> HIDE DEF at, rest
    <3>2. n # 0
      <4> HIDE DEF n
      <4> QED BY <1>5, <3>1 DEF n
    <3>3. rest = << >> <=> Len(rest) = 0
      BY <3>1, EmptySequence
    <3> QED BY <3>1, <3>2, <3>3
  <2>3. ~(s = << >> \/ at < 0 \/ at >= n)
    BY <1>5, <2>2
  <2>4. /\ S \in Nat /\ Size[s] = n * S
        /\ at * S \in 0..Size[s] /\ (at + 1) * S \in 0..Size[s]
        /\ (at + 1) * S = at * S + S
        /\ \A k \in 1..S : /\ at * S + k \in 1..Size[s]
                           /\ es[at * S + k] = a.at[<<at>> \o Ndindex[rest][k]]
    <3> HIDE DEF at
    <3> QED BY <1>1, <1>5, RowElements, Zenon
  <2>5. es \in Seq(Seq(Nat)) /\ Len(es) = Size[s]
    BY <1>1, ElementsFacts
  <2>6. /\ rest = << >> => At(a, <<i>>) = Element(a.at[<<at>>])
        /\ rest # << >> =>
              /\ At(a, <<i>>) = Array(rest, [t \in AllTuples(rest) |-> a.at[<<at>> \o t]])
              /\ IsArray(At(a, <<i>>))
    <3> HIDE DEF at
    <3> QED BY <1>1, <2>1, AtFacts
  <2>7. CASE Len(s) = 1
    <3>1. GetInt(v, i) = DecodeAt(v, at)
      BY <1>1, <2>3, <2>7 DEF GetInt
    <3>2. CASE item = 0 \/ ~whole
      <4>1. at \in Nat
        BY <1>5, <2>2
      <4> HIDE DEF at
      <4>2. DecodeAt(v, at) = Failure("undecodable")
        BY <1>1, <1>2, <3>2, <4>1, DecodeNothing
      <4> QED BY <3>1, <3>2, <4>2 DEF Agree
    <3>3. CASE item # 0 /\ whole
      <4>1. S = 1 /\ Ndindex[rest][1] = << >>
        <5>1. rest = << >>
          BY <2>2, <2>7
        <5>2. Size[<< >>] = 1 /\ Ndindex[<< >>][1] = << >>
          BY SizeFacts, NdindexFacts
        <5> QED BY <5>1, <5>2
      <4>2. at \in 0..(Len(es) - 1) /\ es[at + 1] = a.at[<<at>>]
        <5>1. at \in Nat /\ 1 \in 1..S /\ at * S + 1 = at + 1
          BY <1>5, <2>2, <4>1
        <5> HIDE DEF at
        <5>2. at + 1 \in 1..Len(es) /\ es[at + 1] = a.at[<<at>> \o << >>]
          BY <2>4, <2>5, <4>1, <5>1
        <5>3. <<at>> \o << >> = <<at>>
          BY <5>1
        <5> QED BY <2>5, <5>1, <5>2, <5>3
      <4> HIDE DEF at, es
      <4>3. DecodeAt(v, at) = Element(es[at + 1])
        BY <1>1, <1>2, <2>5, <3>3, <4>2, DecodeJoined DEF es
      <4> QED BY <2>2, <2>6, <2>7, <3>1, <4>2, <4>3, NotArrayEnds DEF Agree
    <3> QED BY <1>2, <3>2, <3>3
  <2>8. CASE Len(s) # 1
    <3>1. CASE item = 0
      <4>1. GetInt(v, i) = Failure("undecodable")
        BY <1>1, <2>3, <2>8, <3>1 DEF GetInt
      <4> QED BY <3>1, <4>1 DEF Agree
    <3>2. CASE item # 0
      <4> DEFINE tail == S * ItemSize
                 cut == Cut(v.data, at * tail, (at + 1) * tail)
                 row == At(a, <<i>>)
      <4>1. (Size[s] \div n) * item = tail
        <5>1. Size[s] \div n = S
          <6> HIDE DEF S, n
          <6> QED BY <2>2, <2>4, DivExact
        <5> QED BY <1>2, <3>2, <5>1
      <4>2. GetInt(v, i) = View(cut, rest)
        BY <1>1, <2>3, <2>8, <3>2, <4>1 DEF GetInt
      <4>3. IsArray(row) /\ row.shape = rest /\ \A t \in AllTuples(rest) : row.at[t] = a.at[<<at>> \o t]
        <5>1. row = Array(rest, [t \in AllTuples(rest) |-> a.at[<<at>> \o t]]) /\ IsArray(row)
          BY <2>2, <2>6, <2>8
        <5> HIDE DEF row, rest, at
        <5> QED BY <5>1 DEF Array
      <4>4. at * tail = (at * S) * ItemSize /\ (at + 1) * tail = ((at + 1) * S) * ItemSize
            /\ at * tail \in Nat /\ (at + 1) * tail \in Nat
        <5>1. at \in Nat
          BY <1>5, <2>2
        <5> HIDE DEF at, S
        <5> QED BY <1>2, <2>4, <5>1
      <4>5. CASE ~whole
        <5>1. cut = << >>
          <6> HIDE DEF tail, at
          <6> QED BY <1>1, <4>4, <4>5, CutNothing
        <5> QED BY <4>2, <4>3, <4>5, <5>1 DEF Agree, Shows
      <4>6. CASE whole
        <5>1. cut = Joined(SubSeq(es, at * S + 1, (at + 1) * S))
          <6>1. at * S \in 0..Len(es) /\ (at + 1) * S \in 0..Len(es)
            BY <2>4, <2>5
          <6>2. v.data = Joined(es)
            BY <1>1, <4>6
          <6> DEFINE x == at * S
                     y == (at + 1) * S
          <6>3. cut = Cut(Joined(es), x * ItemSize, y * ItemSize)
            BY <4>4, <6>2
          <6> HIDE DEF es, cut, x, y
          <6>4. cut = Joined(SubSeq(es, x + 1, y))
            BY <2>5, <6>1, <6>3, CutJoined DEF x, y
          <6> QED BY <6>4 DEF x, y
        <5>2. SubSeq(es, at * S + 1, (at + 1) * S) = Elements(row)
          <6> HIDE DEF at, row
          <6> QED BY <1>1, <1>5, <4>3, RowIsPart
        <5> QED BY <4>2, <4>3, <4>6, <5>1, <5>2, BytesAreJoined DEF Agree, Shows
      <4> QED BY <1>2, <4>5, <4>6
    <3> QED BY <3>1, <3>2
  <2> QED BY <2>7, <2>8
<1> QED BY <1>3, <1>4, <1>5
-----------------------------------------------------------------------------
(* Tuples *)

Selection(a, rest, i) ==
    IF rest = << >> THEN Element(a.at[i])
    ELSE Array(rest, [t \in AllTuples(rest) |-> a.at[i \o t]])

\* What an index in range selects, in one term.
LEMMA AtSelection ==
  ASSUME NEW a, IsArray(a), NEW idx \in Seq(Int), InRange(a.shape, idx)
  PROVE  /\ At(a, idx) = Selection(a, Rest(a.shape, Len(idx)), Norm(a.shape, idx))
         /\ Rest(a.shape, Len(idx)) = << >> => Norm(a.shape, idx) \in AllTuples(a.shape)
BY AtFacts DEF Selection

Prefix(idx, k) == SubSeq(idx, 1, k)

\* The first k integers of an index.
LEMMA PrefixFacts ==
  ASSUME NEW idx \in Seq(Int), NEW k \in 0..Len(idx)
  PROVE  /\ Prefix(idx, k) \in Seq(Int) /\ Len(Prefix(idx, k)) = k
         /\ \A j \in 1..k : Prefix(idx, k)[j] = idx[j]
<1>1. k \in Nat /\ k <= Len(idx) /\ 0 <= k /\ k - 0 = k /\ 0 + 1 = 1 /\ \A j \in 1..k : 0 + j = j
  OBVIOUS
<1>2. /\ SubSeq(idx, 0 + 1, k) \in Seq(Int) /\ Len(SubSeq(idx, 0 + 1, k)) = k
      /\ \A j \in 1..k : SubSeq(idx, 0 + 1, k)[j] = idx[0 + j]
  BY <1>1, SubSeqFacts
<1> QED BY <1>1, <1>2 DEF Prefix

\* A negative integer counts from the end of its axis.
LEMMA Wrapped ==
  ASSUME NEW n \in Nat, NEW j \in Int
  PROVE  (-n <= j /\ j < n) <=> (IF j < 0 THEN j + n ELSE j) \in 0..(n - 1)
OBVIOUS

\* To index with one integer more is to index what was there.
LEMMA AtOneMore ==
  ASSUME NEW a, IsArray(a), NEW idx \in Seq(Int), NEW k \in 0..(Len(idx) - 1),
         k < Len(a.shape), InRange(a.shape, Prefix(idx, k))
  PROVE  /\ IsArray(At(a, Prefix(idx, k)))
         /\ At(a, Prefix(idx, k + 1)) = At(At(a, Prefix(idx, k)), <<idx[k + 1]>>)
<1> DEFINE s == a.shape
           p == Prefix(idx, k)
           p1 == Prefix(idx, k + 1)
           j == idx[k + 1]
           i == Norm(s, p)
           rest == Rest(s, k)
           b == At(a, p)
           at == IF j < 0 THEN j + s[k + 1] ELSE j
<1>1. /\ s \in Seq(Nat) /\ k \in 0..Len(s) /\ k + 1 \in 0..Len(s) /\ k + 1 \in 1..Len(s)
      /\ k \in 0..Len(idx) /\ k + 1 \in 0..Len(idx) /\ j \in Int
      /\ s[k + 1] \in Nat /\ a.at \in [AllTuples(s) -> Seq(Nat)]
  BY DEF IsArray
<1>2. /\ p \in Seq(Int) /\ Len(p) = k /\ \A x \in 1..k : p[x] = idx[x]
      /\ p1 \in Seq(Int) /\ Len(p1) = k + 1 /\ \A x \in 1..(k + 1) : p1[x] = idx[x]
  <2> HIDE DEF p, p1
  <2> QED BY <1>1, PrefixFacts DEF p, p1
<1>3. /\ rest \in Seq(Nat) /\ Len(rest) = Len(s) - k /\ rest # << >> /\ rest[1] = s[k + 1]
  <2>1. /\ rest \in Seq(Nat) /\ Len(rest) = Len(s) - k
        /\ \A x \in 1..(Len(s) - k) : rest[x] = s[k + x]
        /\ rest = << >> <=> k = Len(s)
    BY <1>1, RestFacts
  <2>2. 1 \in 1..(Len(s) - k) /\ k # Len(s)
    BY <1>1
  <2> HIDE DEF rest
  <2> QED BY <2>1, <2>2
<1>4. i \in Seq(Nat) /\ Len(i) = k
  BY <1>1, <1>2, NormFacts
<1>5. b = Array(rest, [t \in AllTuples(rest) |-> a.at[i \o t]]) /\ IsArray(b)
  BY <1>2, <1>3, AtFacts
<1>6. b.shape = rest /\ \A t \in AllTuples(rest) : b.at[t] = a.at[i \o t]
  <2> HIDE DEF b, rest, i
  <2> QED BY <1>5 DEF Array
<1>7. /\ InRange(rest, <<j>>) <=> at \in 0..(s[k + 1] - 1)
      /\ Norm(rest, <<j>>) = <<at>> /\ Rest(rest, 1) = Tail(rest) /\ Len(<<j>>) = 1
      /\ <<j>> \in Seq(Int)
  <2> HIDE DEF rest, j
  <2> QED BY <1>1, <1>3, OneIndex
<1>8. InRange(s, p1) <=> at \in 0..(s[k + 1] - 1)
  <2>1. \A x \in 1..k : -s[x] <= idx[x] /\ idx[x] < s[x]
    BY <1>2 DEF InRange
  <2>2. \A x \in 1..(k + 1) : x \in 1..k \/ x = k + 1
    BY <1>1
  <2>3. (-s[k + 1] <= j /\ j < s[k + 1]) <=> at \in 0..(s[k + 1] - 1)
    <3> HIDE DEF j, s
    <3> QED BY <1>1, Wrapped
  <2>4. k + 1 \in 1..(k + 1) /\ Len(p1) <= Len(s)
    BY <1>1, <1>2
  <2> HIDE DEF p1, at
  <2> QED BY <1>2, <2>1, <2>2, <2>3, <2>4 DEF InRange
<1>9. CASE at \notin 0..(s[k + 1] - 1)
  <2>1. At(a, p1) = Failure("IndexError")
    BY <1>1, <1>2, <1>8, <1>9, AtFails
  <2>2. At(b, <<j>>) = Failure("IndexError")
    <3> HIDE DEF b, j, at
    <3> QED BY <1>3, <1>6, <1>7, <1>9, AtFails
  <2> QED BY <1>5, <2>1, <2>2
<1>10. CASE at \in 0..(s[k + 1] - 1)
  <2>1. Rest(rest, 1) = Rest(s, k + 1)
    <3> DEFINE r1 == Rest(rest, 1)
               r2 == Rest(s, k + 1)
    <3>1. 1 \in 0..Len(rest)
      BY <1>1, <1>3
    <3>2. /\ r1 \in Seq(Nat) /\ Len(r1) = Len(rest) - 1
          /\ \A x \in 1..(Len(rest) - 1) : r1[x] = rest[1 + x]
      <4> HIDE DEF rest
      <4> QED BY <1>3, <3>1, RestFacts DEF rest
    <3>3. /\ r2 \in Seq(Nat) /\ Len(r2) = Len(s) - (k + 1)
          /\ \A x \in 1..(Len(s) - (k + 1)) : r2[x] = s[(k + 1) + x]
      BY <1>1, RestFacts
    <3>4. \A x \in 1..(Len(s) - k) : rest[x] = s[k + x]
      BY <1>1, RestFacts
    <3> HIDE DEF rest
    <3>5. Len(r1) = Len(r2)
      BY <1>1, <1>3, <3>2, <3>3
    <3>6. ASSUME NEW x \in 1..Len(r1)  PROVE r1[x] = r2[x]
      <4>1. /\ x \in 1..(Len(rest) - 1) /\ x \in 1..(Len(s) - (k + 1))
            /\ 1 + x \in 1..(Len(s) - k) /\ k + (1 + x) = (k + 1) + x
        <5> HIDE DEF r1, s
        <5>1. Len(s) \in Nat /\ k \in Nat /\ Len(r1) = Len(s) - (k + 1)
          BY <1>1, <1>3, <3>2 DEF s
        <5> QED BY <1>3, <3>2, <5>1
      <4> HIDE DEF r1, r2
      <4> QED BY <3>2, <3>3, <3>4, <4>1
    <3> HIDE DEF r1, r2
    <3>7. r1 = r2
      BY <3>2, <3>3, <3>5, <3>6, SameSequence
    <3> QED BY <3>7 DEF r1, r2
  <2>2. Norm(s, p1) = i \o <<at>>
    <3> DEFINE i1 == Norm(s, p1)
    <3>1. i1 \in Seq(Nat) /\ Len(i1) = k + 1
      BY <1>1, <1>2, <1>8, <1>10, NormFacts
    <3>2. at \in Nat
      BY <1>1, <1>10
    <3>3. i1[k + 1] = at
      <4>1. k + 1 \in 1..Len(p1) /\ p1[k + 1] = j
        BY <1>1, <1>2
      <4> QED BY <4>1 DEF Norm
    <3>4. \A x \in 1..k : i1[x] = i[x]
      <4>1. \A x \in 1..k : x \in 1..Len(p1) /\ x \in 1..Len(p) /\ p1[x] = p[x]
        <5> HIDE DEF p, p1
        <5>1. k \in Nat
          OBVIOUS
        <5>2. \A x \in 1..k : x \in 1..(k + 1)
          BY <5>1
        <5> QED BY <1>2, <5>2, Zenon
      <4> QED BY <4>1 DEF Norm
    <3> HIDE DEF i1, i, at
    <3>5. /\ i \o <<at>> \in Seq(Nat) /\ Len(i \o <<at>>) = k + 1
          /\ \A x \in 1..k : (i \o <<at>>)[x] = i[x]
          /\ (i \o <<at>>)[k + 1] = at
      BY <1>4, <3>2, SMTT(30)
    <3>6. \A x \in 1..Len(i1) : i1[x] = (i \o <<at>>)[x]
      <4>1. \A x \in 1..(k + 1) : x \in 1..k \/ x = k + 1
        BY <1>1
      <4> QED BY <3>1, <3>3, <3>4, <3>5, <4>1
    <3>7. i1 = i \o <<at>>
      BY <3>1, <3>5, <3>6, SameSequence
    <3> QED BY <3>7 DEF i1
  <2> DEFINE rest1 == Rest(s, k + 1)
  <2>3. /\ rest1 = << >> => At(a, p1) = Element(a.at[i \o <<at>>])
        /\ rest1 # << >> => At(a, p1) = Array(rest1, [t \in AllTuples(rest1) |-> a.at[(i \o <<at>>) \o t]])
    <3>1. InRange(s, p1) /\ p1 \in Seq(Int) /\ Len(p1) = k + 1
      BY <1>2, <1>8, <1>10
    <3> HIDE DEF i, at, p1
    <3> QED BY <2>2, <3>1, AtFacts
  <2>4. /\ rest1 = << >> => At(b, <<j>>) = Element(b.at[<<at>>]) /\ <<at>> \in AllTuples(rest)
        /\ rest1 # << >> => At(b, <<j>>) = Array(rest1, [t \in AllTuples(rest1) |-> b.at[<<at>> \o t]])
    <3> DEFINE J == <<j>>
    <3>1. InRange(rest, J) /\ J \in Seq(Int) /\ Len(J) = 1 /\ Norm(rest, J) = <<at>>
          /\ Rest(rest, 1) = rest1
      <4> HIDE DEF at, rest
      <4> QED BY <1>7, <1>10, <2>1
    <3> HIDE DEF b, J, at, rest, rest1
    <3>2. /\ rest1 = << >> => At(b, J) = Element(b.at[<<at>>]) /\ <<at>> \in AllTuples(rest)
          /\ rest1 # << >> => At(b, J) = Array(rest1, [t \in AllTuples(rest1) |-> b.at[<<at>> \o t]])
      <4>1. InRange(b.shape, J) /\ rest1 = Rest(b.shape, Len(J)) /\ <<at>> = Norm(b.shape, J)
        BY <1>6, <3>1
      <4>2. At(b, J) = Selection(b, rest1, <<at>>) /\ (rest1 = << >> => <<at>> \in AllTuples(b.shape))
        BY <1>5, <3>1, <4>1, AtSelection
      <4> QED BY <1>6, <4>2 DEF Selection
    <3> QED BY <3>2 DEF J
  <2>5. ASSUME NEW t \in AllTuples(rest1)
        PROVE  b.at[<<at>> \o t] = a.at[(i \o <<at>>) \o t]
    <3> HIDE DEF rest, at, i, b, j
    <3>1. <<at>> \o t \in AllTuples(rest)
      BY <1>3, <1>7, <1>10, <2>1, NormFacts
    <3>2. t \in Seq(Nat)
      <4>1. rest1 \in Seq(Nat)
        BY <1>1, RestFacts
      <4> QED BY <4>1, TuplesFacts DEF Box
    <3>3. at \in Nat
      BY <1>1, <1>10
    <3>4. (i \o <<at>>) \o t = i \o (<<at>> \o t)
      <4>1. <<at>> \in Seq(Nat)
        BY <3>3
      <4> DEFINE I == <<at>>
      <4>2. I \in Seq(Nat) /\ i \in Seq(Nat) /\ t \in Seq(Nat)
        BY <1>4, <3>2, <4>1
      <4> HIDE DEF I
      <4>3. (i \o I) \o t = i \o (I \o t)
        BY <4>2, SMTT(30)
      <4> QED BY <4>3 DEF I
    <3> QED BY <1>6, <3>1, <3>4
  <2>6. At(a, p1) = At(b, <<j>>)
    <3> HIDE DEF b, p1, at, i, rest, rest1, j
    <3>1. CASE rest1 = << >>
      BY <1>6, <2>3, <2>4, <3>1
    <3>2. CASE rest1 # << >>
      BY <2>3, <2>4, <2>5, <3>2
    <3> QED BY <3>1, <3>2
  <2> QED BY <1>5, <2>6
<1> QED BY <1>9, <1>10

\* What a program gets of a view, besides views.
Outcomes == {Failure("undecodable"), Failure("IndexError")} \cup {Element(e) : e \in Seq(Int)}

\* What a view may give that is no view.
LEMMA OutcomeFacts ==
  /\ \A e \in Seq(Int) : Element(e) \in Outcomes
  /\ Seq(Nat) \subseteq Seq(Int) /\ Garbage \in Seq(Int)
  /\ Failure("undecodable") \in Outcomes /\ Failure("IndexError") \in Outcomes
<1>1. \A e \in Seq(Int) : Element(e) \in Outcomes
  BY DEF Outcomes
<1>2. Garbage \in Seq(Int)
  BY DEF Garbage
<1> QED BY <1>1, <1>2 DEF Outcomes

\* What is cut from bytes are bytes.
LEMMA CutType ==
  ASSUME NEW data \in Seq(ByteSet), NEW x \in Nat, NEW y \in Nat
  PROVE  Cut(data, x, y) \in Seq(ByteSet)
<1> DEFINE z == IF y < Len(data) THEN y ELSE Len(data)
<1>1. z \in Nat /\ z <= Len(data)
  OBVIOUS
<1> HIDE DEF z
<1>2. SubSeq(data, x + 1, z) \in Seq(ByteSet)
  BY <1>1, SubSeqFacts
<1> QED BY <1>2 DEF Cut, z

\* Decoding gives an element, if only garbage, or fails.
LEMMA DecodeType ==
  ASSUME ItemInv, NEW v, v.data \in Seq(ByteSet), NEW q \in Nat
  PROVE  DecodeAt(v, q) \in Outcomes
<1> DEFINE bytes == Cut(v.data, q * item, (q + 1) * item)
<1>1. item \in Nat /\ q * item \in Nat /\ (q + 1) * item \in Nat
  <2>1. item \in Nat
    BY ItemAssumption DEF ItemInv
  <2> QED BY <2>1
<1>2. bytes \in Seq(ByteSet)
  BY <1>1, CutType
<1>3. Failure("undecodable") \in Outcomes
  BY OutcomeFacts
<1>4. ASSUME item # 0, Len(bytes) >= item  PROVE bytes[1][1] \in Seq(Nat)
  <2>1. bytes[1] \in ByteSet
    <3> HIDE DEF bytes
    <3>1. 1 \in 1..Len(bytes)
      BY <1>1, <1>2, <1>4
    <3> QED BY <1>2, <3>1
  <2> HIDE DEF bytes
  <2> QED BY <2>1 DEF ByteSet
<1>5. \A e \in Seq(Nat) : Element(e) \in Outcomes
  BY OutcomeFacts
<1>6. Element(Garbage) \in Outcomes
  BY OutcomeFacts
<1>7. Len(bytes) \in Nat
  <2> HIDE DEF bytes
  <2> QED BY <1>2
<1> HIDE DEF bytes
<1>8. \/ DecodeAt(v, q) = Failure("undecodable")
      \/ item # 0 /\ Len(bytes) >= item /\ DecodeAt(v, q) \in {Element(bytes[1][1]), Element(Garbage)}
  BY <1>1, <1>7 DEF DecodeAt, bytes
<1> QED BY <1>3, <1>4, <1>5, <1>6, <1>8

\* Bytes and a shape make a view.
LEMMA ViewType ==
  ASSUME NEW data \in Seq(ByteSet), NEW shape \in Seq(Nat)
  PROVE  View(data, shape) \in Views
BY DEF View, Views, ByteSet

\* An integer gives a view or an outcome, whatever bytes the view has.
LEMMA IntType ==
  ASSUME ItemInv, NEW v \in Views, NEW i \in Int
  PROVE  GetInt(v, i) \in Views \cup Outcomes
<1> DEFINE s == v.shape
           n == s[1]
           at == IF i < 0 THEN i + n ELSE i
           tail == (Size[s] \div n) * item
<1>1. s \in Seq(Nat) /\ v.data \in Seq(ByteSet)
  BY DEF Views, ByteSet
<1>3. CASE s = << >> \/ at < 0 \/ at >= n
  <2>1. GetInt(v, i) = Failure("IndexError")
    BY <1>3 DEF GetInt
  <2> QED BY <2>1, OutcomeFacts
<1>4. CASE ~(s = << >> \/ at < 0 \/ at >= n)
  <2>1. n \in Nat /\ Tail(s) \in Seq(Nat)
    BY <1>1, <1>4, TailFacts
  <2>2. at \in Nat /\ n # 0
    <3>1. at \in Int
      BY <2>1
    <3> HIDE DEF at, n, s
    <3> QED BY <1>4, <2>1, <3>1
  <2>3. CASE Len(s) = 1
    <3> HIDE DEF at
    <3> QED BY <1>1, <1>4, <2>2, <2>3, DecodeType DEF GetInt, at
  <2>4. CASE Len(s) # 1
    <3>1. CASE item = 0
      <4>1. GetInt(v, i) = Failure("undecodable")
        BY <1>4, <2>4, <3>1 DEF GetInt
      <4> QED BY <4>1, OutcomeFacts
    <3>2. CASE item # 0
      <4>1. GetInt(v, i) = View(Cut(v.data, at * tail, (at + 1) * tail), Tail(s))
        BY <1>4, <2>4, <3>2 DEF GetInt
      <4>2. tail \in Nat
        <5>1. item \in Nat /\ Size[s] \in Nat
          BY <1>1, ItemAssumption, SizeFacts DEF ItemInv
        <5>2. Size[s] \div n \in Nat
          <6>1. n \in Nat \ {0}
            BY <2>1, <2>2
          <6>2. Size[Tail(s)] \in Nat /\ Size[s] = n * Size[Tail(s)]
            BY <1>1, <1>4, SizeFacts, TailFacts
          <6> HIDE DEF n
          <6> QED BY <6>1, <6>2, DivExact
        <5> DEFINE d == Size[s] \div n
        <5> HIDE DEF d
        <5> QED BY <5>1, <5>2 DEF d
      <4>3. at * tail \in Nat /\ (at + 1) * tail \in Nat
        <5> HIDE DEF at, tail
        <5> QED BY <2>2, <4>2
      <4> HIDE DEF at, tail
      <4> QED BY <1>1, <2>1, <4>1, <4>3, CutType, ViewType
    <3> QED BY <3>1, <3>2
  <2> QED BY <2>3, <2>4
<1> QED BY <1>3, <1>4

\* What shows an array is a view.
LEMMA ShowsType ==
  ASSUME NEW v, NEW a, Shows(v, a)
  PROVE  v \in Views
<1>1. ToBytes(a) \in Seq(ByteSet) /\ << >> \in Seq(ByteSet) /\ a.shape \in Seq(Nat)
  BY BytesAreJoined, ElementsFacts, JoinedFacts DEF Shows, IsArray
<1> QED BY <1>1, ViewType DEF Shows

\* An array indexed with no integer is the array.
LEMMA AtNothing ==
  ASSUME NEW a, IsArray(a), a.shape # << >>, NEW idx \in Seq(Int), Len(idx) = 0
  PROVE  At(a, idx) = a
<1> DEFINE s == a.shape
           i == Norm(s, idx)
<1>1. s \in Seq(Nat) /\ a.at \in [AllTuples(s) -> Seq(Nat)] /\ a = Array(s, a.at) /\ Len(s) \in Nat \ {0}
  BY TailFacts DEF IsArray
<1>2. InRange(s, idx)
  BY <1>1 DEF InRange
<1>3. i = << >>
  <2>1. i \in Seq(Nat) /\ Len(i) = 0
    BY <1>1, <1>2, NormFacts
  <2> HIDE DEF i
  <2> QED BY <2>1, EmptySequence
<1>4. Rest(s, 0) = s
  BY <1>1, RestAll
<1>5. At(a, idx) = Array(s, [t \in AllTuples(s) |-> a.at[<< >> \o t]])
  <2> HIDE DEF i
  <2> QED BY <1>2, <1>3, <1>4, AtSelection DEF Selection, i
<1>6. \A t \in AllTuples(s) : << >> \o t = t
  <2>1. \A t \in Seq(Nat) : << >> \o t = t
    OBVIOUS
  <2> QED BY <1>1, <2>1, TuplesFacts DEF Box
<1>7. [t \in AllTuples(s) |-> a.at[<< >> \o t]] = a.at
  BY <1>1, <1>6
<1> QED BY <1>1, <1>5, <1>7

\* Row by row, a tuple selects what it selects of the array.
LEMMA RowsFaithful ==
  ASSUME ItemInv, NEW v, NEW a, Shows(v, a), NEW idx \in Seq(Int),
         Len(idx) < Len(a.shape)
  PROVE  Agree(RowByRow(v, idx), At(a, idx))
<1> DEFINE n == Len(idx)
           V == Views \cup Outcomes
           turn == [t \in 1..n |-> [u \in V |-> IF u.is = "view" THEN GetInt(u, idx[t]) ELSE u]]
           After == CHOOSE after : after = [t \in 0..n |->
                       IF t = 0 THEN v
                       ELSE IF after[t - 1].is = "view" THEN GetInt(after[t - 1], idx[t])
                       ELSE after[t - 1]]
<1>1. n \in Nat /\ v \in V
  BY ShowsType
<1>2. turn \in [1..n -> [V -> V]]
  <2>1. ASSUME NEW t \in 1..n, NEW u \in V, u.is = "view"  PROVE GetInt(u, idx[t]) \in V
    <3>1. u \in Views
      BY <2>1 DEF Outcomes, Failure, Element
    <3>2. idx[t] \in Int
      OBVIOUS
    <3> QED BY <3>1, <3>2, IntType
  <2> HIDE DEF V, n
  <2> QED BY <2>1
<1>3. PICK f : Iterates(f, V, n, v, turn)
  <2> HIDE DEF V, n, turn
  <2> QED BY <1>1, <1>2, Iteration, Zenon
<1>4. f = [t \in 0..n |-> IF t = 0 THEN v
                          ELSE IF f[t - 1].is = "view" THEN GetInt(f[t - 1], idx[t])
                          ELSE f[t - 1]]
  <2>1. f \in [0..n -> V] /\ f[0] = v /\ \A t \in 1..n : f[t] = turn[t][f[t - 1]]
    <3> HIDE DEF V, n, turn
    <3> QED BY <1>3 DEF Iterates
  <2>2. ASSUME NEW t \in 1..n
        PROVE  f[t] = IF f[t - 1].is = "view" THEN GetInt(f[t - 1], idx[t]) ELSE f[t - 1]
    <3>1. t - 1 \in 0..n
      BY <1>1
    <3>2. f[t - 1] \in V
      <4> HIDE DEF V
      <4> QED BY <2>1, <3>1
    <3> HIDE DEF V, n
    <3> QED BY <2>1, <3>2
  <2>3. f = [t \in 0..n |-> f[t]] /\ \A t \in 0..n : t = 0 \/ t \in 1..n
    <3> HIDE DEF V
    <3> QED BY <2>1
  <2> HIDE DEF V, n, turn
  <2> QED BY <2>1, <2>2, <2>3
<1>5. After = [t \in 0..n |-> IF t = 0 THEN v
                              ELSE IF After[t - 1].is = "view" THEN GetInt(After[t - 1], idx[t])
                              ELSE After[t - 1]]
  <2> HIDE DEF n
  <2> QED BY <1>4
<1>6. RowByRow(v, idx) = After[n]
  BY Zenon DEF RowByRow
<1> HIDE DEF After, turn, V
<1> DEFINE T == {t \in Nat : t <= n => Agree(After[t], At(a, Prefix(idx, t)))}
<1>7. IsArray(a) /\ a.shape # << >> /\ Len(a.shape) \in Nat
  <2>1. IsArray(a) /\ a.shape \in Seq(Nat)
    BY DEF Shows, IsArray
  <2> QED BY <1>1, <2>1
<1>8. 0 \in T
  <2>1. Prefix(idx, 0) \in Seq(Int) /\ Len(Prefix(idx, 0)) = 0
    BY <1>1, PrefixFacts
  <2>2. At(a, Prefix(idx, 0)) = a
    BY <1>7, <2>1, AtNothing
  <2>3. After[0] = v
    BY <1>1, <1>5
  <2> QED BY <2>2, <2>3 DEF Agree
<1>9. ASSUME NEW t \in T  PROVE t + 1 \in T
  <2> SUFFICES ASSUME t + 1 <= n  PROVE Agree(After[t + 1], At(a, Prefix(idx, t + 1)))
    OBVIOUS
  <2> DEFINE u == After[t]
             b == At(a, Prefix(idx, t))
             j == idx[t + 1]
  <2>1. /\ Agree(u, b) /\ t \in 0..(Len(idx) - 1) /\ t \in Nat /\ t < Len(a.shape) /\ j \in Int
        /\ t \in 0..Len(idx) /\ t + 1 \in 0..Len(idx) /\ t + 1 \in 0..n /\ t + 1 # 0 /\ (t + 1) - 1 = t
    BY <1>1, <1>7
  <2>2. After[t + 1] = IF u.is = "view" THEN GetInt(u, j) ELSE u
    <3> HIDE DEF n, T
    <3> QED BY <1>5, <2>1
  <2>3. CASE Shows(u, b)
    <3>1. u.is = "view"
      BY <2>3 DEF Shows, View
    <3>2. InRange(a.shape, Prefix(idx, t))
      <4> SUFFICES ASSUME ~InRange(a.shape, Prefix(idx, t))  PROVE FALSE
        OBVIOUS
      <4>1. b = Failure("IndexError")
        BY <1>7, <2>1, PrefixFacts, AtFails DEF IsArray
      <4>2. b.is = "array"
        BY <2>3 DEF Shows, IsArray, Array
      <4> QED BY <4>1, <4>2, NotArrayEnds
    <3>3. At(a, Prefix(idx, t + 1)) = At(b, <<j>>)
      BY <1>7, <2>1, <3>2, AtOneMore
    <3>4. Agree(GetInt(u, j), At(b, <<j>>))
      <4> HIDE DEF u, b, j
      <4> QED BY <2>1, <2>3, IntFaithful
    <3> QED BY <2>2, <3>1, <3>3, <3>4
  <2>4. CASE u.is = "element" /\ u = b
    <3>1. InRange(a.shape, Prefix(idx, t))
      <4> SUFFICES ASSUME ~InRange(a.shape, Prefix(idx, t))  PROVE FALSE
        OBVIOUS
      <4>1. b = Failure("IndexError")
        BY <1>7, <2>1, PrefixFacts, AtFails DEF IsArray
      <4> QED BY <2>4, <4>1, NotArrayEnds
    <3>2. IsArray(b)
      BY <1>7, <2>1, <3>1, AtOneMore
    <3>3. b.is = "array"
      BY <3>2 DEF IsArray, Array
    <3> QED BY <2>4, <3>3
  <2>5. CASE u = Failure("IndexError") /\ u = b
    <3>1. ~InRange(a.shape, Prefix(idx, t))
      <4> SUFFICES ASSUME InRange(a.shape, Prefix(idx, t))  PROVE FALSE
        OBVIOUS
      <4>1. IsArray(b)
        BY <1>7, <2>1, AtOneMore
      <4>2. b.is = "array"
        BY <4>1 DEF IsArray, Array
      <4> QED BY <2>5, <4>2, NotArrayEnds
    <3>2. ~InRange(a.shape, Prefix(idx, t + 1))
      <4>1. /\ Len(Prefix(idx, t)) = t /\ \A k \in 1..t : Prefix(idx, t)[k] = idx[k]
            /\ Len(Prefix(idx, t + 1)) = t + 1 /\ \A k \in 1..(t + 1) : Prefix(idx, t + 1)[k] = idx[k]
        BY <2>1, PrefixFacts
      <4>2. \A k \in 1..t : k \in 1..(t + 1)
        BY <2>1
      <4>3. InRange(a.shape, Prefix(idx, t + 1)) => InRange(a.shape, Prefix(idx, t))
        <5> SUFFICES ASSUME InRange(a.shape, Prefix(idx, t + 1))  PROVE InRange(a.shape, Prefix(idx, t))
          OBVIOUS
        <5>1. \A k \in 1..(t + 1) : -a.shape[k] <= idx[k] /\ idx[k] < a.shape[k]
          BY <4>1 DEF InRange
        <5>2. Len(Prefix(idx, t)) <= Len(a.shape)
          BY <2>1, <4>1
        <5> QED BY <4>1, <4>2, <5>1, <5>2 DEF InRange
      <4> QED BY <3>1, <4>3
    <3>3. At(a, Prefix(idx, t + 1)) = Failure("IndexError")
      BY <1>7, <2>1, <3>2, PrefixFacts, AtFails DEF IsArray
    <3>4. u.is # "view"
      BY <2>5, NotArrayEnds
    <3> QED BY <2>2, <2>5, <3>3, <3>4 DEF Agree
  <2>6. CASE u = Failure("undecodable") /\ (item = 0 \/ ~whole)
    <3>1. u.is # "view"
      BY <2>6, NotArrayEnds
    <3> QED BY <2>2, <2>6, <3>1 DEF Agree
  <2> QED BY <2>1, <2>3, <2>4, <2>5, <2>6 DEF Agree
<1>10. T = Nat
  <2>1. T \in SUBSET Nat
    OBVIOUS
  <2> HIDE DEF T
  <2> QED BY <1>8, <1>9, <2>1, NaturalInduction
<1>11. Agree(After[n], At(a, Prefix(idx, n)))
  BY <1>1, <1>10
<1>12. Prefix(idx, n) = idx
  <2>1. /\ Prefix(idx, n) \in Seq(Int) /\ Len(Prefix(idx, n)) = n
        /\ \A j \in 1..n : Prefix(idx, n)[j] = idx[j]
    BY <1>1, PrefixFacts
  <2> QED BY <2>1, SameSequence
<1> QED BY <1>6, <1>11, <1>12

\* The loop over the axes of a full tuple.
AxisTurn(s, idx, at, k) ==
    IF at.flat = -1 \/ Norm(s, idx)[k] < 0 \/ Norm(s, idx)[k] >= s[k]
    THEN [at EXCEPT !.flat = -1]
    ELSE [flat |-> at.flat + Norm(s, idx)[k] * at.stride, stride |-> at.stride * s[k]]

OffsetSet == [flat : Int, stride : Nat]

\* The loop over the axes of a full tuple.
LEMMA OffsetLoop ==
  ASSUME NEW s \in Seq(Nat), NEW idx \in Seq(Int), Len(idx) = Len(s)
  PROVE  \E f \in [0..Len(s) -> OffsetSet] :
            /\ f[0] = [flat |-> 0, stride |-> 1]
            /\ \A t \in 1..Len(s) : f[t] = AxisTurn(s, idx, f[t - 1], Len(s) - t + 1)
            /\ Offset(s, idx) = f[Len(s)].flat
<1> DEFINE n == Len(s)
           V == OffsetSet
           base == [flat |-> 0, stride |-> 1]
           turn == [t \in 1..n |-> [at \in V |-> AxisTurn(s, idx, at, n - t + 1)]]
           After == CHOOSE after : after =
                       [t \in 0..n |-> IF t = 0 THEN base
                                       ELSE AxisTurn(s, idx, after[t - 1], n - t + 1)]
<1>1. n \in Nat /\ base \in V
  BY DEF OffsetSet
<1>2. ASSUME NEW at \in V, NEW t \in 1..n  PROVE AxisTurn(s, idx, at, n - t + 1) \in V
  <2> DEFINE k == n - t + 1
             i == Norm(s, idx)[k]
  <2>1. k \in 1..n
    BY <1>1
  <2>2. i \in Int /\ s[k] \in Nat
    <3> HIDE DEF k
    <3>1. idx[k] \in Int /\ s[k] \in Nat
      BY <2>1
    <3> QED BY <2>1, <3>1 DEF Norm
  <2>3. at.flat \in Int /\ at.stride \in Nat
    BY DEF OffsetSet
  <2> HIDE DEF i, k
  <2>4. [at EXCEPT !.flat = -1] \in V
    BY DEF OffsetSet
  <2>5. [flat |-> at.flat + i * at.stride, stride |-> at.stride * s[k]] \in V
    <3>1. at.flat + i * at.stride \in Int /\ at.stride * s[k] \in Nat
      <4> DEFINE x == at.flat
                 y == at.stride
                 z == s[k]
      <4>1. x \in Int /\ y \in Nat /\ z \in Nat
        BY <2>2, <2>3
      <4> HIDE DEF x, y, z
      <4>2. x + i * y \in Int /\ y * z \in Nat
        BY <2>2, <4>1
      <4> QED BY <4>2 DEF x, y, z
    <3> QED BY <3>1 DEF OffsetSet
  <2> QED BY <2>4, <2>5 DEF AxisTurn, i, k
<1>3. PICK f : Iterates(f, V, n, base, turn)
  <2>1. turn \in [1..n -> [V -> V]]
    <3> HIDE DEF V, n
    <3> QED BY <1>2
  <2> HIDE DEF V, n, turn, base
  <2> QED BY <1>1, <2>1, Iteration, Zenon
<1>4. f \in [0..n -> V] /\ f[0] = base
      /\ \A t \in 1..n : f[t] = AxisTurn(s, idx, f[t - 1], n - t + 1)
  <2>1. f \in [0..n -> V] /\ f[0] = base /\ \A t \in 1..n : f[t] = turn[t][f[t - 1]]
    <3> HIDE DEF V, n, turn, base
    <3> QED BY <1>3 DEF Iterates
  <2>2. \A t \in 1..n : t - 1 \in 0..n
    BY <1>1
  <2> HIDE DEF V, n, base
  <2> QED BY <2>1, <2>2
<1>5. f = [t \in 0..n |-> IF t = 0 THEN base ELSE AxisTurn(s, idx, f[t - 1], n - t + 1)]
  <2>1. \A t \in 0..n : t = 0 \/ t \in 1..n
    BY <1>1
  <2> HIDE DEF V, n, base
  <2> QED BY <1>4, <2>1
<1>6. After = [t \in 0..n |-> IF t = 0 THEN base ELSE AxisTurn(s, idx, After[t - 1], n - t + 1)]
  <2> HIDE DEF n, base
  <2> QED BY <1>5
<1>7. Offset(s, idx) = After[n].flat
  BY ZenonT(30) DEF Offset, AxisTurn, Norm
<1> HIDE DEF After
<1> DEFINE T == {t \in Nat : t <= n => After[t] = f[t]}
<1>8. 0 \in T
  BY <1>1, <1>4, <1>6
<1>9. ASSUME NEW t \in T  PROVE t + 1 \in T
  <2> SUFFICES ASSUME t + 1 <= n  PROVE After[t + 1] = f[t + 1]
    OBVIOUS
  <2>1. t + 1 \in 0..n /\ t + 1 \in 1..n /\ t + 1 # 0 /\ (t + 1) - 1 = t /\ After[t] = f[t]
    BY <1>1
  <2> HIDE DEF n, T, base, V
  <2> QED BY <1>4, <1>6, <2>1
<1>10. T = Nat
  <2>1. T \in SUBSET Nat
    OBVIOUS
  <2> HIDE DEF T
  <2> QED BY <1>8, <1>9, <2>1, NaturalInduction
<1>11. Offset(s, idx) = f[n].flat
  BY <1>1, <1>7, <1>10
<1> QED BY <1>4, <1>11

\* It ends with -1 when an index is out of range.
LEMMA OffsetOutside ==
  ASSUME NEW s \in Seq(Nat), NEW idx \in Seq(Int), Len(idx) = Len(s), ~InRange(s, idx)
  PROVE  Offset(s, idx) = -1
<1> DEFINE n == Len(s)
<1>1. PICK k \in 1..n : ~(-s[k] <= idx[k] /\ idx[k] < s[k])
  BY DEF InRange
<1>2. PICK f \in [0..n -> OffsetSet] :
         /\ \A t \in 1..n : f[t] = AxisTurn(s, idx, f[t - 1], n - t + 1)
         /\ Offset(s, idx) = f[n].flat
  BY OffsetLoop
<1>3. n \in Nat /\ \A t \in 0..n : f[t] \in OffsetSet
  OBVIOUS
<1>4. Norm(s, idx)[k] < 0 \/ Norm(s, idx)[k] >= s[k]
  <2>1. idx[k] \in Int /\ s[k] \in Nat /\ k \in 1..Len(idx)
    OBVIOUS
  <2>2. Norm(s, idx)[k] = IF idx[k] < 0 THEN idx[k] + s[k] ELSE idx[k]
    BY <2>1 DEF Norm
  <2> QED BY <1>1, <2>1, <2>2
<1>5. \A at \in OffsetSet : [at EXCEPT !.flat = -1].flat = -1
  BY DEF OffsetSet
<1> HIDE DEF n
<1> DEFINE T == {t \in Nat : t <= n /\ t >= n - k + 1 => f[t].flat = -1}
<1>6. 0 \in T
  BY <1>3
<1>7. ASSUME NEW t \in T  PROVE t + 1 \in T
  <2> SUFFICES ASSUME t + 1 <= n, t + 1 >= n - k + 1  PROVE f[t + 1].flat = -1
    OBVIOUS
  <2>1. t + 1 \in 1..n /\ t \in 0..n /\ (t + 1) - 1 = t
    BY <1>3
  <2>2. f[t + 1] = AxisTurn(s, idx, f[t], n - (t + 1) + 1)
    BY <1>2, <2>1
  <2>3. f[t].flat = -1 \/ n - (t + 1) + 1 = k
    BY <1>3
  <2>4. f[t + 1] = [f[t] EXCEPT !.flat = -1]
    BY <1>4, <2>2, <2>3 DEF AxisTurn
  <2> QED BY <1>3, <1>5, <2>1, <2>4
<1>8. T = Nat
  <2>1. T \in SUBSET Nat
    OBVIOUS
  <2> HIDE DEF T
  <2> QED BY <1>6, <1>7, <2>1, NaturalInduction
<1>9. f[n].flat = -1
  <2>1. n >= n - k + 1 /\ n <= n /\ n \in T
    <3>1. n \in Nat /\ k \in 1..n
      BY <1>3
    <3> HIDE DEF T
    <3> QED BY <1>8, <3>1
  <2> QED BY <2>1
<1> QED BY <1>2, <1>9

\* Inside an array, the offset is the place of the element.
LEMMA OffsetInside ==
  ASSUME NEW s \in Seq(Nat), NEW idx \in Seq(Int), Len(idx) = Len(s), InRange(s, idx)
  PROVE  /\ Offset(s, idx) \in 0..(Size[s] - 1)
         /\ Ndindex[s][Offset(s, idx) + 1] = Norm(s, idx)
<1> DEFINE n == Len(s)
           i == Norm(s, idx)
<1>1. PICK f \in [0..n -> OffsetSet] :
         /\ f[0] = [flat |-> 0, stride |-> 1]
         /\ \A t \in 1..n : f[t] = AxisTurn(s, idx, f[t - 1], n - t + 1)
         /\ Offset(s, idx) = f[n].flat
  BY OffsetLoop
<1>2. n \in Nat /\ \A t \in 0..n : f[t] \in OffsetSet
  OBVIOUS
<1>3. i \in Seq(Nat) /\ Len(i) = n /\ \A k \in 1..n : i[k] \in Nat /\ i[k] < s[k] /\ s[k] \in Nat
  <2>1. i \in Seq(Nat) /\ Len(i) = n /\ \A k \in 1..n : i[k] < s[k]
    BY NormFacts
  <2> HIDE DEF i
  <2> QED BY <2>1
<1> HIDE DEF n, i
<1> DEFINE Reaches(t) == LET suffix == Rest(s, n - t)
                        IN /\ f[t].stride = Size[suffix]
                           /\ f[t].flat \in 0..(Size[suffix] - 1)
                           /\ Ndindex[suffix][f[t].flat + 1] = Rest(i, n - t)
           T == {t \in Nat : t <= n => Reaches(t)}
<1>4. 0 \in T
  <2>1. Rest(s, n) = << >> /\ Rest(i, n) = << >>
    BY <1>2, <1>3, RestFacts DEF n
  <2>2. n - 0 = n /\ f[0].flat = 0 /\ f[0].stride = 1 /\ 0 + 1 = 1
    BY <1>1, <1>2
  <2>3. Size[<< >>] = 1 /\ Ndindex[<< >>][1] = << >>
    BY SizeFacts, NdindexFacts
  <2> QED BY <2>1, <2>2, <2>3
<1>5. ASSUME NEW t \in Nat, t + 1 <= n, Reaches(t)  PROVE Reaches(t + 1)
  <2> DEFINE k == n - t
             more == Rest(s, k - 1)
             suffix == Rest(s, k)
             flat == f[t].flat
             S == Size[suffix]
  <2>1. /\ k \in 1..n /\ n - (t + 1) + 1 = k /\ n - (t + 1) = k - 1 /\ t + 1 \in 1..n /\ t \in 0..n
        /\ (t + 1) - 1 = t /\ k \in 0..n /\ k - 1 \in 0..n
    <3>1. t + 1 <= n /\ n \in Nat
      BY <1>2, <1>5
    <3> QED BY <3>1
  <2>2. f[t] \in OffsetSet /\ f[t].stride = S /\ flat \in 0..(S - 1)
        /\ Ndindex[suffix][flat + 1] = Rest(i, k)
    BY <1>2, <1>5, <2>1
  <2>3. f[t + 1] = [flat |-> flat + i[k] * S, stride |-> S * s[k]]
    <3>1. f[t + 1] = AxisTurn(s, idx, f[t], k)
      BY <1>1, <2>1
    <3>2. flat # -1 /\ ~(i[k] < 0) /\ ~(i[k] >= s[k])
      <4>1. i[k] \in Nat /\ i[k] < s[k] /\ s[k] \in Nat
        BY <1>3, <2>1
      <4>2. flat # -1
        <5>1. S \in Nat
          BY <2>1, SizeFacts, RestFacts DEF n
        <5> HIDE DEF flat, S
        <5> QED BY <2>2, <5>1
      <4> QED BY <4>1, <4>2
    <3> HIDE DEF S
    <3> QED BY <2>2, <3>1, <3>2 DEF AxisTurn, i
  <2>4. /\ more \in Seq(Nat) /\ more # << >> /\ more[1] = s[k] /\ Tail(more) = suffix
        /\ Rest(i, k - 1) \in Seq(Nat) /\ Rest(i, k - 1) # << >>
        /\ Rest(i, k - 1)[1] = i[k] /\ Tail(Rest(i, k - 1)) = Rest(i, k)
    BY <1>3, <2>1, RestCons DEF n
  <2>5. suffix \in Seq(Nat) /\ S \in Nat /\ Size[more] = s[k] * S /\ flat \in Nat
    <3>1. suffix \in Seq(Nat)
      BY <2>1, RestFacts DEF n
    <3>2. S \in Nat
      BY <3>1, SizeFacts
    <3>3. flat \in Nat
      <4> HIDE DEF flat, S
      <4> QED BY <2>2, <3>2
    <3> HIDE DEF more, suffix
    <3> QED BY <2>4, <3>1, <3>2, <3>3, SizeFacts
  <2>6. i[k] \in 0..(s[k] - 1) /\ i[k] \in Nat /\ s[k] \in Nat /\ flat + 1 \in 1..S
    <3>1. i[k] \in Nat /\ i[k] < s[k] /\ s[k] \in Nat
      BY <1>3, <2>1
    <3> HIDE DEF flat, S
    <3> QED BY <2>2, <2>5, <3>1
  <2> DEFINE flat1 == flat + i[k] * S
  <2>7. /\ i[k] * S \in Nat /\ i[k] * S + (flat + 1) \in 1..(s[k] * S)
        /\ i[k] * S + (flat + 1) = flat1 + 1 /\ flat1 \in 0..(s[k] * S - 1) /\ S * s[k] = s[k] * S
    <3> DEFINE q == i[k]
               d == s[k]
               r == flat + 1
    <3>1. q \in 0..(d - 1) /\ d \in Nat /\ r \in 1..S /\ flat \in Nat /\ r = flat + 1
      BY <2>5, <2>6
    <3> HIDE DEF q, d, r, flat, S
    <3>2. q * S \in Nat /\ d * S \in Nat /\ q * S + r \in 1..(d * S)
      BY <2>5, <3>1, InBlock
    <3>3. q * S + r = (flat + q * S) + 1 /\ flat + q * S \in 0..(d * S - 1) /\ S * d = d * S
      BY <2>5, <3>1, <3>2
    <3> QED BY <3>2, <3>3 DEF q, d, r
  <2>8. Ndindex[more][flat1 + 1] = <<i[k]>> \o Rest(i, k)
    <3>1. Ndindex[more][i[k] * S + (flat + 1)] = <<i[k]>> \o Ndindex[suffix][flat + 1]
      <4> HIDE DEF more, flat, suffix
      <4> QED BY <2>4, <2>6, NdindexFacts
    <3> QED BY <2>2, <2>7, <3>1
  <2>9. Rest(i, k - 1) = <<i[k]>> \o Rest(i, k)
    BY <2>4, Uncons
  <2>10. f[t + 1].flat = flat1 /\ f[t + 1].stride = S * s[k]
    BY <2>3
  <2>11. n - (t + 1) = k - 1
    BY <2>1
  <2> HIDE DEF flat1, S, more, suffix, k
  <2> QED BY <2>5, <2>7, <2>8, <2>9, <2>10, <2>11 DEF more
<1>6. T = Nat
  <2>1. \A t \in T : t + 1 \in T
    <3> SUFFICES ASSUME NEW t \in T, t + 1 <= n  PROVE Reaches(t + 1)
      OBVIOUS
    <3>1. t \in Nat /\ t <= n
      BY <1>2
    <3>2. Reaches(t)
      <4> HIDE DEF Reaches
      <4> QED BY <3>1
    <3> HIDE DEF Reaches, T
    <3> QED BY <1>5, <3>1, <3>2
  <2>2. T \in SUBSET Nat
    OBVIOUS
  <2> HIDE DEF T
  <2> QED BY <1>4, <2>1, <2>2, NaturalInduction
<1>7. Reaches(n)
  <2> HIDE DEF Reaches
  <2> QED BY <1>2, <1>6
<1>8. Rest(s, n - n) = s /\ Rest(i, n - n) = i
  <2>1. n - n = 0 /\ 0 \in 0..Len(s)
    BY <1>2
  <2> QED BY <1>3, <2>1, RestAll
<1> QED BY <1>1, <1>7, <1>8 DEF i

\* A tuple of integers selects what it selects of the array.
LEMMA TupleFaithful ==
  ASSUME ItemInv, NEW v, NEW a, Shows(v, a), NEW idx \in Seq(Int)
  PROVE  Agree(GetTuple(v, idx), At(a, idx))
<1> DEFINE s == a.shape
           es == Elements(a)
           o == Offset(s, idx)
<1>1. IsArray(a) /\ s \in Seq(Nat) /\ v.shape = s
      /\ v.data = IF whole THEN Joined(es) ELSE << >>
  BY BytesAreJoined DEF Shows, View, IsArray
<1>2. Len(idx) \in Nat /\ Len(s) \in Nat
  BY <1>1
<1>3. CASE Len(idx) > Len(s)
  <2>1. ~InRange(s, idx)
    BY <1>2, <1>3 DEF InRange
  <2>2. At(a, idx) = Failure("IndexError") /\ GetTuple(v, idx) = Failure("IndexError")
    BY <1>1, <1>3, <2>1, AtFails DEF GetTuple
  <2> QED BY <2>2 DEF Agree
<1>4. CASE Len(idx) < Len(s)
  <2>1. GetTuple(v, idx) = RowByRow(v, idx)
    BY <1>1, <1>2, <1>4 DEF GetTuple
  <2> QED BY <1>4, <2>1, RowsFaithful
<1>5. CASE Len(idx) = Len(s)
  <2>1. GetTuple(v, idx) = IF o = -1 THEN Failure("IndexError") ELSE DecodeAt(v, o)
    <3> HIDE DEF o
    <3> QED BY <1>1, <1>2, <1>5 DEF GetTuple, o
  <2>2. CASE ~InRange(s, idx)
    <3>1. At(a, idx) = Failure("IndexError") /\ o = -1
      BY <1>1, <1>5, <2>2, AtFails, OffsetOutside
    <3> QED BY <2>1, <3>1 DEF Agree
  <2>3. CASE InRange(s, idx)
    <3>1. o \in 0..(Size[s] - 1) /\ Ndindex[s][o + 1] = Norm(s, idx)
      BY <1>1, <1>5, <2>3, OffsetInside
    <3>2. es \in Seq(Seq(Nat)) /\ Len(es) = Size[s] /\ Size[s] \in Nat
          /\ \A n \in 1..Size[s] : es[n] = a.at[Ndindex[s][n]]
      BY <1>1, ElementsFacts, SizeFacts
    <3>3. Rest(s, Len(idx)) = << >>
      BY <1>1, <1>5, <1>2, RestFacts
    <3>4. At(a, idx) = Element(a.at[Norm(s, idx)])
      BY <1>1, <2>3, <3>3, AtSelection DEF Selection
    <3> HIDE DEF o, es, s
    <3>5. o \in Nat /\ o \in 0..(Len(es) - 1) /\ o + 1 \in 1..Size[s] /\ o # -1
      BY <3>1, <3>2
    <3>6. es[o + 1] = a.at[Norm(s, idx)]
      BY <3>1, <3>2, <3>5
    <3>7. CASE item = 0 \/ ~whole
      <4>1. DecodeAt(v, o) = Failure("undecodable")
        BY <1>1, <3>5, <3>7, DecodeNothing DEF ItemInv
      <4> QED BY <2>1, <3>5, <3>7, <4>1 DEF Agree
    <3>8. CASE item # 0 /\ whole
      <4>1. DecodeAt(v, o) = Element(es[o + 1])
        BY <1>1, <3>2, <3>5, <3>8, DecodeJoined DEF ItemInv
      <4> QED BY <2>1, <3>4, <3>5, <3>6, <4>1, NotArrayEnds DEF Agree
    <3> QED BY <3>7, <3>8 DEF ItemInv
  <2> QED BY <2>2, <2>3
<1> QED BY <1>2, <1>3, <1>4, <1>5
-----------------------------------------------------------------------------
(* Slices *)

\* slice.indices ends inside the axis, or just before or after it.
LEMMA SliceEnds ==
  ASSUME NEW n \in Nat, NEW s, s.step \in Int \ {0},
         s.start \in Int \cup {None}, s.stop \in Int \cup {None}
  PROVE  LET ends == SliceIndices(s, n)
         IN /\ s.step > 0 => ends.start \in 0..n /\ ends.stop \in 0..n
            /\ s.step < 0 => ends.start \in -1..(n - 1) /\ ends.stop \in -1..(n - 1)
<1> DEFINE lower == IF s.step > 0 THEN 0 ELSE -1
           upper == IF s.step > 0 THEN n ELSE n - 1
           Clamp(i) == CASE i < 0 /\ i + n < lower -> lower
                         [] i < 0 /\ i + n >= lower -> i + n
                         [] i >= 0 /\ i > upper -> upper
                         [] i >= 0 /\ i <= upper -> i
           from == IF s.start # None THEN Clamp(s.start)
                   ELSE IF s.step > 0 THEN lower ELSE upper
           to == IF s.stop # None THEN Clamp(s.stop)
                 ELSE IF s.step > 0 THEN upper ELSE lower
<1>1. lower \in Int /\ upper \in Int /\ lower <= upper /\ lower <= 0 /\ upper >= n - 1 /\ upper <= n
  OBVIOUS
<1>2. ASSUME NEW i \in Int  PROVE Clamp(i) \in lower..upper
  <2> HIDE DEF lower, upper
  <2>1. CASE i < 0 /\ i + n < lower
    BY <1>1, <2>1
  <2>2. CASE i < 0 /\ i + n >= lower
    BY <1>1, <2>2
  <2>3. CASE i >= 0 /\ i > upper
    BY <1>1, <2>3
  <2>4. CASE i >= 0 /\ i <= upper
    BY <1>1, <2>4
  <2> QED BY <1>1, <2>1, <2>2, <2>3, <2>4
<1>3. from \in lower..upper /\ to \in lower..upper
  <2> HIDE DEF lower, upper, Clamp
  <2> QED BY <1>1, <1>2
<1>4. SliceIndices(s, n) = [start |-> from, stop |-> to]
  BY DEF SliceIndices
<1> HIDE DEF from, to
<1>5. SliceIndices(s, n).start = from /\ SliceIndices(s, n).stop = to
  BY <1>4
<1> QED BY <1>3, <1>5

\* How many steps of m there are below d.
LEMMA StepsBelow ==
  ASSUME NEW d \in Int, NEW m \in Nat \ {0}
  PROVE  LET count == (d + m - 1) \div m
         IN count \in Int /\ \A q \in Nat : q < count <=> q * m < d
<1> DEFINE count == (d + m - 1) \div m
           r == (d + m - 1) % m
<1>1. count \in Int /\ r \in 0..(m - 1) /\ d + m - 1 = m * count + r
  OBVIOUS
<1> HIDE DEF count, r
<1>2. ASSUME NEW q \in Nat  PROVE q < count <=> q * m < d
  <2>1. m * (q + 1 - count) = q * m - d + r + 1
    BY <1>1
  <2>2. q + 1 - count >= 1 => m * (q + 1 - count) >= m
    BY <1>1
  <2>3. q + 1 - count <= 0 => m * (q + 1 - count) <= 0
    BY <1>1
  <2>4. q * m \in Nat /\ q + 1 - count \in Int
    BY <1>1
  <2> QED BY <1>1, <2>1, <2>2, <2>3, <2>4
<1> QED BY <1>1, <1>2 DEF count

\* The numbers divisible by m are its multiples.
LEMMA WholeSteps ==
  ASSUME NEW d \in Nat, NEW m \in Nat \ {0}
  PROVE  d % m = 0 <=> \E q \in Nat : d = q * m
<1>1. ASSUME d % m = 0  PROVE \E q \in Nat : d = q * m
  <2> DEFINE e == d \div m
  <2>1. e \in Int /\ d = m * e
    BY <1>1
  <2> HIDE DEF e
  <2>2. e <= -1 => m * e <= -m
    BY <2>1
  <2>3. e \in Nat /\ d = e * m
    BY <2>1, <2>2
  <2> QED BY <2>3
<1>2. ASSUME NEW q \in Nat, d = q * m  PROVE d % m = 0
  <2> DEFINE r == d % m
             e == d \div m
  <2>1. r \in 0..(m - 1) /\ e \in Int /\ d = m * e + r
    OBVIOUS
  <2> HIDE DEF r, e
  <2>2. m * (q - e) = r
    BY <1>2, <2>1
  <2>3. q - e >= 1 => m * (q - e) >= m
    BY <2>1
  <2>4. q - e <= -1 => m * (q - e) <= -m
    BY <2>1
  <2>5. q = e \/ q - e >= 1 \/ q - e <= -1
    BY <2>1
  <2>6. q = e => m * (q - e) = 0
    BY <2>1
  <2>7. r = 0
    BY <2>1, <2>2, <2>3, <2>4, <2>5, <2>6
  <2> QED BY <2>7 DEF r
<1> QED BY <1>1, <1>2

\* n different values are as many as they are.
LEMMA Enumerated ==
  ASSUME NEW N \in Nat, NEW tk, NEW n \in 0..N,
         \A p, q \in 0..(N - 1) : tk[p] = tk[q] => p = q
  PROVE  Cardinality({tk[p] : p \in 0..(n - 1)}) = n
<1> DEFINE T == {tk[p] : p \in 0..(n - 1)}
           f == [k \in 1..n |-> tk[k - 1]]
<1>1. \A k \in 1..n : k - 1 \in 0..(n - 1) /\ k - 1 \in 0..(N - 1)
  OBVIOUS
<1>2. f \in [1..n -> T]
  BY <1>1
<1>3. \A j, k \in 1..n : f[j] = f[k] => j = k
  <2> SUFFICES ASSUME NEW j \in 1..n, NEW k \in 1..n, tk[j - 1] = tk[k - 1]  PROVE j = k
    OBVIOUS
  <2>1. j - 1 = k - 1
    BY <1>1
  <2> QED BY <2>1
<1>4. \A t \in T : \E k \in 1..n : f[k] = t
  <2> SUFFICES ASSUME NEW p \in 0..(n - 1)  PROVE \E k \in 1..n : f[k] = tk[p]
    OBVIOUS
  <2>1. p + 1 \in 1..n /\ (p + 1) - 1 = p
    OBVIOUS
  <2>2. f[p + 1] = tk[p]
    BY <2>1
  <2> QED BY <2>1, <2>2
<1> HIDE DEF T, f
<1>5. f \in Bijection(1..n, T)
  BY <1>2, <1>3, <1>4 DEF Bijection, Injection, Surjection, IsInjective
<1>6. ExistsBijection(1..n, T)
  BY <1>5 DEF ExistsBijection
<1>7. Cardinality(T) = n
  BY <1>6, FS_CountingElements
<1> QED BY <1>7 DEF T

Taken(n, ends, step) ==
    {i \in 0..(n - 1) :
        IF step > 0
        THEN /\ ends.start <= i /\ i < ends.stop
             /\ (i - ends.start) % step = 0
        ELSE /\ ends.stop < i /\ i <= ends.start
             /\ (ends.start - i) % (-step) = 0}
Before(T, i, step) == {j \in T : IF step > 0 THEN j < i ELSE j > i}
Ordered(T, step) ==
    [k \in 1..Cardinality(T) |-> CHOOSE i \in T : Cardinality(Before(T, i, step)) = k - 1]

\* Where slice.indices leaves the ends of a slice.
Inside(n, ends, step) ==
    /\ step > 0 => ends.start \in 0..n /\ ends.stop \in 0..n
    /\ step < 0 => ends.start \in -1..(n - 1) /\ ends.stop \in -1..(n - 1)

\* range makes N steps, to where the slice takes an element.
Walks(N, n, ends, step) ==
    /\ Steps(ends.start, ends.stop, step) = [k \in 1..N |-> ends.start + (k - 1) * step]
    /\ Taken(n, ends, step) = {ends.start + q * step : q \in 0..(N - 1)}
    /\ step = 1 => N = IF ends.stop > ends.start THEN ends.stop - ends.start ELSE 0

\* The steps of a slice are where it takes an element.
LEMMA StepsTaken ==
  ASSUME NEW n \in Nat, NEW step \in Int \ {0}, NEW ends, Inside(n, ends, step)
  PROVE  \E N \in Nat : Walks(N, n, ends, step)
<1> DEFINE m == IF step > 0 THEN step ELSE -step
           from == ends.start
           to == ends.stop
           d == IF step > 0 THEN to - from ELSE from - to
           count == (d + m - 1) \div m
           N == IF count < 0 THEN 0 ELSE count
<1>1. m \in Nat \ {0} /\ from \in Int /\ to \in Int /\ d \in Int
  BY DEF Inside
<1>2. count \in Int /\ \A q \in Nat : q < count <=> q * m < d
  <2> HIDE DEF m, d
  <2> QED BY <1>1, StepsBelow
<1>3. N \in Nat /\ 1..count = 1..N /\ \A q \in Nat : q < N <=> q * m < d
  <2> HIDE DEF count, m, d
  <2>1. N \in Nat /\ \A q \in Nat : q < N <=> q < count
    BY <1>2
  <2>2. 1..count = 1..N
    BY <1>2
  <2> QED BY <1>2, <2>1, <2>2
<1>4. Steps(from, to, step) = [k \in 1..N |-> from + (k - 1) * step]
  <2>1. (IF step > 0 THEN (to - from + step - 1) \div step
                     ELSE (from - to - step - 1) \div (-step)) = count
    <3>1. CASE step > 0
      BY <3>1
    <3>2. CASE ~(step > 0)
      <4> DEFINE x == -step
      <4>1. from - to - step - 1 = from - to + x - 1 /\ m = x /\ d = from - to
        BY <1>1, <3>2
      <4> QED BY <3>2, <4>1
    <3> QED BY <3>1, <3>2
  <2> HIDE DEF count, N, from, to
  <2> QED BY <1>3, <2>1 DEF Steps
<1>5. ASSUME NEW i \in Taken(n, ends, step)
      PROVE  \E q \in 0..(N - 1) : i = from + q * step
  <2> DEFINE e == IF step > 0 THEN i - from ELSE from - i
  <2>1. e \in Nat /\ e % m = 0 /\ e < d /\ i \in Int
    BY <1>1 DEF Taken
  <2>2. PICK q \in Nat : e = q * m
    <3> HIDE DEF e, m
    <3> QED BY <1>1, <2>1, WholeSteps
  <2>3. q \in 0..(N - 1)
    <3> HIDE DEF e, m, d, N
    <3> QED BY <1>3, <2>1, <2>2
  <2>4. i = from + q * step
    <3>1. CASE step > 0
      <4>1. q * m = q * step /\ e = i - from
        BY <3>1
      <4> HIDE DEF e, m, from
      <4>2. q * step \in Int
        OBVIOUS
      <4> QED BY <1>1, <2>1, <2>2, <4>1, <4>2
    <3>2. CASE ~(step > 0)
      <4>1. q * m = -(q * step) /\ e = from - i
        BY <3>2
      <4> HIDE DEF e, m, from
      <4>2. q * step \in Int
        OBVIOUS
      <4> QED BY <1>1, <2>1, <2>2, <4>1, <4>2
    <3> QED BY <3>1, <3>2
  <2> QED BY <2>3, <2>4
<1>6. ASSUME NEW q \in 0..(N - 1)
      PROVE  from + q * step \in Taken(n, ends, step)
  <2> DEFINE e == q * m
             i == from + q * step
  <2>1. q \in Nat /\ e \in Nat /\ e < d /\ e % m = 0
    <3>1. q \in Nat /\ q < N
      BY <1>3
    <3>2. e \in Nat
      <4> HIDE DEF m
      <4> QED BY <1>1, <3>1
    <3>3. e % m = 0
      <4>1. \E p \in Nat : e = p * m
        BY <3>1
      <4> HIDE DEF e, m
      <4> QED BY <1>1, <3>2, <4>1, WholeSteps
    <3> QED BY <1>3, <3>1, <3>2, <3>3
  <2>2. CASE step > 0
    <3>1. m = step /\ e = q * step /\ d = to - from
      BY <2>2
    <3> DEFINE x == q * step
    <3>2. x \in Nat /\ x < to - from /\ x % step = 0
      BY <2>1, <3>1
    <3>3. from \in 0..n /\ to \in 0..n
      BY <2>2 DEF Inside
    <3> HIDE DEF x
    <3>4. from + x \in 0..(n - 1) /\ from <= from + x /\ from + x < to /\ (from + x) - from = x
      BY <3>2, <3>3
    <3>5. from + x \in Taken(n, ends, step)
      BY <2>2, <3>2, <3>4 DEF Taken
    <3> QED BY <3>5 DEF x
  <2>3. CASE ~(step > 0)
    <3>1. m = -step /\ e = -(q * step) /\ d = from - to
      BY <2>3
    <3> DEFINE x == q * step
    <3>2. x \in Int /\ e = -x
      BY <3>1
    <3>3. from \in -1..(n - 1) /\ to \in -1..(n - 1)
      BY <2>3 DEF Inside
    <3> HIDE DEF x, e, m, d
    <3>4. /\ from + x \in 0..(n - 1) /\ to < from + x /\ from + x <= from
          /\ from - (from + x) = e
      BY <2>1, <3>1, <3>2, <3>3
    <3>5. from + x \in Taken(n, ends, step)
      BY <2>1, <2>3, <3>1, <3>4 DEF Taken
    <3> QED BY <3>5 DEF x
  <2> QED BY <2>2, <2>3
<1>7. Taken(n, ends, step) = {from + q * step : q \in 0..(N - 1)}
  <2> HIDE DEF N, from
  <2> QED BY <1>5, <1>6
<1>8. step = 1 => N = IF to > from THEN to - from ELSE 0
  <2> SUFFICES ASSUME step = 1  PROVE N = IF to > from THEN to - from ELSE 0
    OBVIOUS
  <2>1. m = 1 /\ d = to - from
    OBVIOUS
  <2> HIDE DEF m, d, N, from, to
  <2>2. \A q \in Nat : q < N <=> q < d
    BY <1>3, <2>1
  <2>3. N < d => FALSE
    BY <1>1, <1>3, <2>2
  <2>4. d \in Nat => ~(d < N)
    BY <1>1, <1>3, <2>2
  <2>5. d <= 0 => N = 0
    <3> SUFFICES ASSUME d <= 0, N > 0  PROVE FALSE
      BY <1>3
    <3>1. 0 < N <=> 0 < d
      BY <2>2
    <3> QED BY <1>1, <1>3, <3>1
  <2> QED BY <1>1, <1>3, <2>1, <2>3, <2>4, <2>5
<1> QED BY <1>3, <1>4, <1>7, <1>8 DEF Walks

\* So they are what an array is sliced to.
LEMMA StepsOrdered ==
  ASSUME NEW n \in Nat, NEW step \in Int \ {0}, NEW ends, Inside(n, ends, step)
  PROVE  LET steps == Steps(ends.start, ends.stop, step)
         IN /\ Ordered(Taken(n, ends, step), step) = steps
            /\ steps \in Seq(0..(n - 1))
            /\ \A k \in 1..Len(steps) : steps[k] = ends.start + (k - 1) * step
            /\ step = 1 => Len(steps) = IF ends.stop > ends.start
                                        THEN ends.stop - ends.start ELSE 0
<1> DEFINE from == ends.start
           steps == Steps(from, ends.stop, step)
           T == Taken(n, ends, step)
           tk == [q \in Nat |-> from + q * step]
<1>1. PICK N \in Nat : Walks(N, n, ends, step)
  BY StepsTaken
<1>12. /\ steps = [k \in 1..N |-> from + (k - 1) * step]
       /\ T = {from + q * step : q \in 0..(N - 1)}
       /\ step = 1 => N = IF ends.stop > from THEN ends.stop - from ELSE 0
  BY <1>1 DEF Walks
<1>2. from \in Int /\ T \subseteq 0..(n - 1)
  BY DEF Inside, Taken
<1> HIDE DEF steps, T, from
<1>3. \A q \in Nat : q * step \in Int /\ tk[q] \in Int
  BY <1>2
<1>4. ASSUME NEW p \in Nat, NEW q \in Nat
      PROVE  p < q <=> IF step > 0 THEN tk[p] < tk[q] ELSE tk[p] > tk[q]
  <2> DEFINE x == p * step
             y == q * step
  <2>1. y - x = (q - p) * step /\ x \in Int /\ y \in Int /\ tk[p] = from + x /\ tk[q] = from + y
    BY <1>2
  <2>2. CASE step > 0
    <3>1. p < q => (q - p) * step > 0
      BY <2>2
    <3>2. p >= q => (q - p) * step <= 0
      BY <2>2
    <3> HIDE DEF x, y, tk
    <3> QED BY <1>2, <2>1, <2>2, <3>1, <3>2
  <2>3. CASE ~(step > 0)
    <3>1. p < q => (q - p) * step < 0
      BY <2>3
    <3>2. p >= q => (q - p) * step >= 0
      BY <2>3
    <3> HIDE DEF x, y, tk
    <3> QED BY <1>2, <2>1, <2>3, <3>1, <3>2
  <2> QED BY <2>2, <2>3
<1>5. T = {tk[q] : q \in 0..(N - 1)}
  <2>1. \A q \in 0..(N - 1) : q \in Nat /\ tk[q] = from + q * step
    OBVIOUS
  <2> HIDE DEF tk
  <2> QED BY <1>12, <2>1
<1> HIDE DEF tk
<1>6. \A p, q \in 0..(N - 1) : tk[p] = tk[q] => p = q
  <2>1. ASSUME NEW p \in Nat, NEW q \in Nat, tk[p] = tk[q]  PROVE p = q
    <3>1. ~(p < q) /\ ~(q < p)
      BY <1>3, <1>4, <2>1
    <3> QED BY <3>1
  <2> QED BY <2>1
<1>7. Cardinality(T) = N
  <2>1. N \in 0..N
    OBVIOUS
  <2> QED BY <1>5, <1>6, <2>1, Enumerated
<1>8. ASSUME NEW q \in 0..(N - 1)  PROVE Cardinality(Before(T, tk[q], step)) = q
  <2>1. Before(T, tk[q], step) = {tk[p] : p \in 0..(q - 1)}
    <3>1. \A p \in 0..(N - 1) :
             p < q <=> IF step > 0 THEN tk[p] < tk[q] ELSE tk[p] > tk[q]
      BY <1>4
    <3>2. 0..(q - 1) = {p \in 0..(N - 1) : p < q}
      OBVIOUS
    <3> QED BY <1>5, <3>1, <3>2 DEF Before
  <2>2. q \in 0..N
    OBVIOUS
  <2> QED BY <1>6, <2>1, <2>2, Enumerated
<1>9. ASSUME NEW k \in 1..N
      PROVE  (CHOOSE i \in T : Cardinality(Before(T, i, step)) = k - 1) = tk[k - 1]
  <2>1. k - 1 \in 0..(N - 1)
    OBVIOUS
  <2>2. tk[k - 1] \in T /\ Cardinality(Before(T, tk[k - 1], step)) = k - 1
    BY <1>5, <1>8, <2>1
  <2>3. \A i \in T : Cardinality(Before(T, i, step)) = k - 1 => i = tk[k - 1]
    BY <1>5, <1>8, <2>1
  <2> QED BY <2>2, <2>3
<1>10. Ordered(T, step) = steps
  <2>1. \A k \in 1..N : tk[k - 1] = from + (k - 1) * step
    BY DEF tk
  <2> QED BY <1>12, <1>7, <1>9, <2>1 DEF Ordered
<1>11. Len(steps) = N /\ steps \in Seq(0..(n - 1))
       /\ \A k \in 1..N : steps[k] = from + (k - 1) * step
  <2>1. \A k \in 1..N : from + (k - 1) * step \in 0..(n - 1)
    <3>1. \A k \in 1..N : k - 1 \in 0..(N - 1)
      OBVIOUS
    <3> QED BY <1>12, <1>2, <3>1
  <2> QED BY <1>12, <2>1
<1> QED BY <1>12, <1>10, <1>11 DEF from, steps, T

\* A shape of one axis.
LEMMA VectorFacts ==
  ASSUME NEW s \in Seq(Nat), Len(s) = 1
  PROVE  /\ s # << >> /\ s[1] \in Nat /\ Tail(s) = << >> /\ s = <<s[1]>> /\ Size[s] = s[1]
         /\ \A q \in 0..(s[1] - 1) : <<q>> \in AllTuples(s) /\ Ndindex[s][q + 1] = <<q>>
         /\ \A t \in AllTuples(s) : t[1] \in 0..(s[1] - 1) /\ Tail(t) = << >>
<1>1. s # << >> /\ s[1] \in Nat /\ Tail(s) = << >> /\ s = <<s[1]>>
  <2>1. s # << >> /\ s[1] \in Nat
    <3>1. s # << >>
      <4>1. s = << >> => Len(s) = 0
        BY EmptySequence
      <4> QED BY <4>1
    <3> QED BY <3>1, TailFacts
  <2>2. Tail(s) \in Seq(Nat) /\ Len(Tail(s)) = 0
    BY <2>1, TailFacts
  <2>3. Tail(s) = << >>
    BY <2>2, EmptySequence
  <2>4. s = <<s[1]>>
    <3>1. <<s[1]>> \in Seq(Nat) /\ Len(<<s[1]>>) = 1 /\ <<s[1]>>[1] = s[1]
      BY <2>1
    <3>2. \A i \in 1..Len(s) : i = 1
      OBVIOUS
    <3> QED BY <3>1, <3>2, SameSequence
  <2> QED BY <2>1, <2>3, <2>4
<1>2. Size[s] = s[1] /\ Size[Tail(s)] = 1
  <2>1. Size[s] = s[1] * Size[Tail(s)] /\ Size[Tail(s)] = 1
    BY <1>1, SizeFacts
  <2> QED BY <1>1, <2>1
<1>3. ASSUME NEW q \in 0..(s[1] - 1)
      PROVE  <<q>> \in AllTuples(s) /\ Ndindex[s][q + 1] = <<q>>
  <2>1. Ndindex[s][q * 1 + 1] = <<q>> \o Ndindex[Tail(s)][1]
    <3>1. 1 \in 1..Size[Tail(s)]
      BY <1>2
    <3>2. Ndindex[s][q * Size[Tail(s)] + 1] = <<q>> \o Ndindex[Tail(s)][1]
      BY <1>1, <3>1, NdindexFacts
    <3> QED BY <1>2, <3>2
  <2>2. Ndindex[Tail(s)][1] = << >> /\ q * 1 = q /\ q \in Nat
    <3>1. Ndindex[<< >>][1] = << >>
      BY NdindexFacts
    <3>2. Ndindex[Tail(s)][1] = << >>
      BY <1>1, <3>1
    <3>3. q \in Nat /\ q * 1 = q
      BY <1>1
    <3> QED BY <3>2, <3>3
  <2>3. <<q>> \o << >> = <<q>>
    OBVIOUS
  <2>4. <<q>> \in Seq(Nat) /\ Len(<<q>>) = 1 /\ <<q>>[1] = q /\ q < s[1]
    BY <1>1, <2>2
  <2>5. \A k : k \in 1..1 <=> k = 1
    OBVIOUS
  <2>6. <<q>> \in Box(s)
    BY <2>4, <2>5 DEF Box
  <2> QED BY <2>1, <2>2, <2>3, <2>6, TuplesFacts
<1>4. ASSUME NEW t \in AllTuples(s)  PROVE t[1] \in 0..(s[1] - 1) /\ Tail(t) = << >>
  <2>1. t \in Seq(Nat) /\ Len(t) = 1 /\ t[1] < s[1]
    <3>1. t \in Box(s)
      BY TuplesFacts
    <3> QED BY <3>1 DEF Box
  <2> QED BY <1>1, <2>1
<1> QED BY <1>1, <1>2, <1>3, <1>4

SlicedTo(a, order) ==
    LET shape == <<Len(order)>> \o Tail(a.shape)
    IN Array(shape, [t \in AllTuples(shape) |-> a.at[<<order[t[1] + 1]>> \o Tail(t)]])

\* A slice takes its rows in order.
LEMMA SlicedDef ==
  ASSUME NEW a, a.shape # << >>, NEW s
  PROVE  Sliced(a, s) = SlicedTo(a, Ordered(Taken(a.shape[1], SliceIndices(s, a.shape[1]), s.step), s.step))
BY Zenon DEF Sliced, SlicedTo, Ordered, Before, Taken

\* b holds the elements that are at these places of es.
Picks(b, es, places) ==
    /\ IsArray(b) /\ b.shape = <<Len(places)>>
    /\ Elements(b) \in Seq(Seq(Nat)) /\ Len(Elements(b)) = Len(places)
    /\ \A k \in 1..Len(places) : Elements(b)[k] = es[places[k] + 1]

\* What an array of one axis is sliced to.
LEMMA SlicedVector ==
  ASSUME NEW a, IsArray(a), Len(a.shape) = 1, NEW s,
         NEW steps \in Seq(0..(a.shape[1] - 1)),
         steps = Ordered(Taken(a.shape[1], SliceIndices(s, a.shape[1]), s.step), s.step)
  PROVE  Picks(Sliced(a, s), Elements(a), steps)
<1> DEFINE n == a.shape[1]
           N == Len(steps)
           shape == <<N>> \o Tail(a.shape)
           at == [t \in AllTuples(shape) |-> a.at[<<steps[t[1] + 1]>> \o Tail(t)]]
           b == Array(shape, at)
<1>1. /\ a.shape \in Seq(Nat) /\ a.shape # << >> /\ n \in Nat /\ Tail(a.shape) = << >>
      /\ Size[a.shape] = n
      /\ \A q \in 0..(n - 1) : <<q>> \in AllTuples(a.shape) /\ Ndindex[a.shape][q + 1] = <<q>>
  <2>1. a.shape \in Seq(Nat)
    BY DEF IsArray
  <2> QED BY <2>1, VectorFacts
<1>2. Sliced(a, s) = b
  <2>1. Sliced(a, s) = SlicedTo(a, steps)
    BY <1>1, SlicedDef, Zenon
  <2> QED BY <2>1, Zenon DEF SlicedTo
<1>3. N \in Nat /\ shape = <<N>> /\ \A k \in 1..N : steps[k] \in 0..(n - 1)
  <2>1. N \in Nat /\ \A k \in 1..N : steps[k] \in 0..(n - 1)
    <3> DEFINE R == 0..(n - 1)
    <3>1. steps \in Seq(R)
      OBVIOUS
    <3> HIDE DEF R
    <3>2. N \in Nat /\ \A k \in 1..N : steps[k] \in R
      BY <3>1
    <3> QED BY <3>2 DEF R
  <2> HIDE DEF N, n
  <2>2. <<N>> \o << >> = <<N>>
    BY <2>1
  <2> QED BY <1>1, <2>1, <2>2
<1>4. /\ shape \in Seq(Nat) /\ Len(shape) = 1 /\ shape[1] = N
      /\ Size[shape] = N
      /\ \A q \in 0..(N - 1) : <<q>> \in AllTuples(shape) /\ Ndindex[shape][q + 1] = <<q>>
      /\ \A t \in AllTuples(shape) : t[1] \in 0..(N - 1) /\ Tail(t) = << >>
  <2> HIDE DEF shape, N
  <2>1. shape \in Seq(Nat) /\ Len(shape) = 1 /\ shape[1] = N
    BY <1>3
  <2> QED BY <2>1, VectorFacts
<1> HIDE DEF shape
<1>5. ASSUME NEW t \in AllTuples(shape)
      PROVE  /\ t[1] + 1 \in 1..N /\ steps[t[1] + 1] \in 0..(n - 1)
             /\ at[t] = a.at[<<steps[t[1] + 1]>>] /\ at[t] \in Seq(Nat)
  <2>1. t[1] + 1 \in 1..N
    BY <1>3, <1>4
  <2>2. steps[t[1] + 1] \in 0..(n - 1)
    BY <1>3, <2>1
  <2>3. <<steps[t[1] + 1]>> \o Tail(t) = <<steps[t[1] + 1]>>
    <3>1. Tail(t) = << >>
      BY <1>4
    <3> DEFINE x == steps[t[1] + 1]
    <3> HIDE DEF x
    <3>2. <<x>> \o << >> = <<x>>
      OBVIOUS
    <3> QED BY <3>1, <3>2 DEF x
  <2>4. a.at[<<steps[t[1] + 1]>>] \in Seq(Nat)
    BY <1>1, <2>2 DEF IsArray
  <2> QED BY <2>1, <2>2, <2>3, <2>4
<1>6. b.shape = shape /\ b.at = at /\ b = Array(b.shape, b.at)
  <2> HIDE DEF at
  <2> QED BY DEF Array
<1>7. at \in [AllTuples(shape) -> Seq(Nat)]
  <2>1. at = [t \in AllTuples(shape) |-> at[t]]
    OBVIOUS
  <2> HIDE DEF at
  <2> QED BY <1>5, <2>1
<1>8. IsArray(b)
  <2> HIDE DEF at, b
  <2> QED BY <1>4, <1>6, <1>7 DEF IsArray
<1>9. /\ Elements(b) \in Seq(Seq(Nat)) /\ Len(Elements(b)) = N
      /\ \A k \in 1..N : Elements(b)[k] = at[Ndindex[shape][k]]
  <2> HIDE DEF at, b
  <2> QED BY <1>4, <1>6, <1>8, ElementsFacts
<1>10. ASSUME NEW k \in 1..N  PROVE Elements(b)[k] = Elements(a)[steps[k] + 1]
  <2>1. k - 1 \in 0..(N - 1) /\ (k - 1) + 1 = k
    BY <1>3
  <2>2. <<k - 1>> \in AllTuples(shape) /\ Ndindex[shape][k] = <<k - 1>> /\ <<k - 1>>[1] + 1 = k
    BY <1>4, <2>1
  <2>3. at[<<k - 1>>] = a.at[<<steps[k]>>]
    <3> HIDE DEF at
    <3> QED BY <1>5, <2>2
  <2>4. steps[k] \in 0..(n - 1) /\ steps[k] + 1 \in 1..Size[a.shape]
    <3> HIDE DEF n, N
    <3>1. steps[k] \in 0..(n - 1)
      BY <1>3
    <3>2. steps[k] + 1 \in 1..n
      <4> DEFINE x == steps[k]
      <4>1. n \in Nat /\ x \in 0..(n - 1)
        BY <1>1, <3>1
      <4> HIDE DEF x
      <4>2. x + 1 \in 1..n
        BY <4>1
      <4> QED BY <4>2 DEF x
    <3> QED BY <1>1, <3>1, <3>2
  <2>5. Elements(a)[steps[k] + 1] = a.at[<<steps[k]>>]
    BY <1>1, <2>4, ElementsFacts
  <2> HIDE DEF at, b
  <2> QED BY <1>9, <2>2, <2>3, <2>5
<1>11. /\ IsArray(b) /\ b.shape = <<N>>
       /\ Elements(b) \in Seq(Seq(Nat)) /\ Len(Elements(b)) = N
       /\ \A k \in 1..N : Elements(b)[k] = Elements(a)[steps[k] + 1]
  <2> HIDE DEF b, N
  <2> QED BY <1>3, <1>6, <1>8, <1>9, <1>10
<1> HIDE DEF b
<1> QED BY <1>2, <1>11 DEF Picks

\* What the program has, and what it means by it.
Faithful(g, a) ==
    \/ Agree(g, a)
    \/ g = Failure("not implemented") /\ (a = Failure("IndexError") \/ Len(a.shape) > 1)

\* Pieces without bytes make no bytes.
LEMMA NoBytes ==
  ASSUME NEW N \in Nat
  PROVE  FlattenSeq([k \in 1..N |-> << >>]) = << >>
<1> DEFINE ss == [k \in 1..N |-> << >>]
<1>1. ss \in Seq(Seq(Nat)) /\ Len(ss) = N /\ \A i \in 1..Len(ss) : Len(ss[i]) = 0
  <2>1. ss = [k \in 1..N |-> ss[k]] /\ \A k \in 1..N : ss[k] = << >>
    OBVIOUS
  <2>2. << >> \in Seq(Nat) /\ Len(<< >>) = 0
    OBVIOUS
  <2> HIDE DEF ss
  <2>3. \A k \in 1..N : ss[k] \in Seq(Nat)
    BY <2>1, <2>2
  <2>4. ss \in Seq(Seq(Nat)) /\ Len(ss) = N
    BY <2>1, <2>3, IsSequence
  <2> QED BY <2>1, <2>2, <2>4
<1> HIDE DEF ss
<1>2. FlattenSeq(ss) \in Seq(Nat) /\ Len(FlattenSeq(ss)) = Len(ss) * 0
  <2>1. 0 \in Nat
    OBVIOUS
  <2> QED BY <1>1, <2>1, FlattenBlocks
<1>3. Len(ss) * 0 = 0
  BY <1>1
<1>4. FlattenSeq(ss) = << >>
  BY <1>2, <1>3, EmptySequence
<1> QED BY <1>4 DEF ss

\* A slice of a view of one axis.
LEMMA VectorSliceFaithful ==
  ASSUME ItemInv, NEW v, NEW a, Shows(v, a), Len(a.shape) = 1,
         NEW s, s.step \in Int \ {0},
         s.start \in Int \cup {None}, s.stop \in Int \cup {None}
  PROVE  Agree(GetSlice(v, s), Sliced(a, s))
<1> DEFINE n == a.shape[1]
           ends == SliceIndices(s, n)
           from == ends.start
           to == ends.stop
           step == s.step
           steps == Steps(from, to, step)
           N == Len(steps)
           es == Elements(a)
           b == Sliced(a, s)
           width == IF to > from THEN to - from ELSE 0
           pieces == [k \in 1..N |-> Cut(v.data, steps[k] * item, (steps[k] + 1) * item)]
<1>1. IsArray(a) /\ a.shape \in Seq(Nat) /\ v.shape = a.shape
      /\ v.data = IF whole THEN Joined(es) ELSE << >>
  BY BytesAreJoined DEF Shows, View, IsArray
<1>2. ItemSize \in Nat \ {0} /\ item \in {0, ItemSize} /\ whole \in BOOLEAN
  BY ItemAssumption DEF ItemInv
<1>3. n \in Nat /\ es \in Seq(Seq(Nat)) /\ Len(es) = n
  <2>1. n \in Nat /\ Size[a.shape] = n
    BY <1>1, VectorFacts
  <2> QED BY <1>1, <2>1, ElementsFacts
<1>4. GetSlice(v, s) = IF item = 0 THEN Failure("undecodable")
                       ELSE IF step = 1
                            THEN View(Cut(v.data, from * item, to * item), <<width>>)
                            ELSE View(FlattenSeq(pieces), <<Len(pieces)>>)
  BY <1>1, Zenon DEF GetSlice
<1>5. Inside(n, ends, step)
  <2> HIDE DEF n
  <2> QED BY <1>3, SliceEnds DEF Inside
<1> HIDE DEF n, ends
<1>6. /\ Ordered(Taken(n, ends, step), step) = steps
      /\ steps \in Seq(0..(n - 1))
      /\ \A k \in 1..N : steps[k] = from + (k - 1) * step
      /\ step = 1 => N = width
  BY <1>3, <1>5, StepsOrdered
<1>7. /\ IsArray(b) /\ b.shape = <<N>>
      /\ Elements(b) \in Seq(Seq(Nat)) /\ Len(Elements(b)) = N
      /\ \A k \in 1..N : Elements(b)[k] = es[steps[k] + 1]
  <2>1. steps = Ordered(Taken(a.shape[1], SliceIndices(s, a.shape[1]), s.step), s.step)
        /\ steps \in Seq(0..(a.shape[1] - 1))
    BY <1>6 DEF n, ends
  <2> HIDE DEF steps
  <2>2. Picks(Sliced(a, s), Elements(a), steps)
    BY <1>1, <2>1, SlicedVector
  <2> QED BY <2>2, Zenon DEF Picks
<1>8. N \in Nat /\ Len(pieces) = N /\ \A k \in 1..N : steps[k] \in 0..(n - 1)
  <2> DEFINE R == 0..(n - 1)
  <2>1. steps \in Seq(R)
    BY <1>6
  <2> HIDE DEF R, steps
  <2>2. N \in Nat /\ \A k \in 1..N : steps[k] \in R
    BY <2>1
  <2> QED BY <2>2 DEF R
<1> HIDE DEF steps, N, width, b, pieces
<1>9. ASSUME item = 0  PROVE Agree(GetSlice(v, s), b)
  BY <1>4, <1>9 DEF Agree
<1>10. ASSUME item # 0, step = 1  PROVE Agree(GetSlice(v, s), b)
  <2> DEFINE cut == Cut(v.data, from * item, to * item)
  <2>1. GetSlice(v, s) = View(cut, b.shape)
    BY <1>4, <1>6, <1>7, <1>10
  <2>2. from \in 0..Len(es) /\ to \in 0..Len(es)
    BY <1>3, <1>5, <1>10 DEF Inside
  <2>3. from \in Nat /\ to \in Nat /\ from * ItemSize \in Nat /\ to * ItemSize \in Nat
    BY <1>2, <2>2
  <2>4. CASE ~whole
    <3>1. cut = << >>
      <4> DEFINE x == from * item
                 y == to * item
      <4>1. x \in Nat /\ y \in Nat /\ v.data = << >>
        BY <1>1, <1>2, <1>10, <2>3, <2>4
      <4> HIDE DEF x, y
      <4>2. Cut(v.data, x, y) = << >>
        BY <4>1, CutNothing
      <4> QED BY <4>2 DEF x, y
    <3> QED BY <1>7, <2>1, <2>4, <3>1 DEF Agree, Shows
  <2>5. CASE whole
    <3>1. cut = Joined(SubSeq(es, from + 1, to))
      <4>1. item = ItemSize /\ v.data = Joined(es)
        BY <1>1, <1>2, <1>10, <2>5
      <4> HIDE DEF es, from, to
      <4> QED BY <1>3, <2>2, <4>1, CutJoined
    <3>2. SubSeq(es, from + 1, to) = Elements(b)
      <4> DEFINE part == SubSeq(es, from + 1, to)
      <4>1. /\ part \in Seq(Seq(Nat))
            /\ from <= to => /\ Len(part) = to - from
                             /\ \A k \in 1..(to - from) : part[k] = es[from + k]
            /\ to <= from => part = << >>
        <5>1. to <= Len(es)
          BY <1>3, <2>2
        <5> HIDE DEF es, from, to
        <5> QED BY <1>3, <2>3, <5>1, SubSeqFacts, SMTT(30)
      <4>2. \A k \in 1..N : k - 1 \in Int /\ steps[k] + 1 = from + k
        BY <1>6, <1>10, <2>3
      <4> HIDE DEF part, es, from, to
      <4>3. Len(part) = N
        <5>1. to <= from => Len(part) = 0
          BY <4>1, EmptySequence
        <5> QED BY <1>6, <1>10, <2>3, <4>1, <5>1 DEF width
      <4>4. \A k \in 1..N : part[k] = Elements(b)[k]
        <5>1. N > 0 => from <= to /\ to - from = N
          BY <1>6, <1>8, <1>10, <2>3 DEF width
        <5>2. ASSUME NEW k \in 1..N  PROVE part[k] = es[from + k]
          <6>1. from <= to /\ to - from = N
            BY <1>8, <5>1
          <6> QED BY <4>1, <6>1
        <5> QED BY <1>7, <4>2, <5>2
      <4> QED BY <1>7, <4>1, <4>3, <4>4, SameSequence DEF part
    <3> QED BY <1>7, <2>1, <2>5, <3>1, <3>2, BytesAreJoined DEF Agree, Shows
  <2> QED BY <1>2, <2>4, <2>5
<1>11. ASSUME item # 0, step # 1  PROVE Agree(GetSlice(v, s), b)
  <2>1. GetSlice(v, s) = View(FlattenSeq(pieces), b.shape) /\ item = ItemSize
    BY <1>2, <1>4, <1>7, <1>8, <1>11
  <2>2. CASE ~whole
    <3>1. ASSUME NEW k \in 1..N
          PROVE  Cut(v.data, steps[k] * item, (steps[k] + 1) * item) = << >>
      <4> DEFINE x == steps[k] * item
                 y == (steps[k] + 1) * item
      <4>1. steps[k] \in Nat
        BY <1>3, <1>8
      <4>2. x \in Nat /\ y \in Nat /\ v.data = << >>
        BY <1>1, <1>2, <2>1, <2>2, <4>1
      <4> HIDE DEF x, y
      <4>3. Cut(v.data, x, y) = << >>
        BY <4>2, CutNothing
      <4> QED BY <4>3 DEF x, y
    <3>2. pieces = [k \in 1..N |-> << >>]
      BY <3>1 DEF pieces
    <3>3. FlattenSeq(pieces) = << >>
      BY <1>8, <3>2, NoBytes
    <3> QED BY <1>7, <2>1, <2>2, <3>3 DEF Agree, Shows
  <2>3. CASE whole
    <3>1. ASSUME NEW k \in 1..N
          PROVE  Cut(v.data, steps[k] * item, (steps[k] + 1) * item) = Bytes(Elements(b)[k])
      <4> DEFINE q == steps[k]
      <4>1. q \in 0..(Len(es) - 1) /\ Elements(b)[k] = es[q + 1]
        BY <1>3, <1>7, <1>8
      <4>2. item = ItemSize /\ v.data = Joined(es)
        BY <1>1, <2>1, <2>3
      <4> HIDE DEF q, es
      <4>3. Cut(v.data, q * item, (q + 1) * item) = Bytes(Elements(b)[k])
        BY <1>3, <4>1, <4>2, CutElement
      <4> QED BY <4>3 DEF q
    <3>2. DOMAIN Elements(b) = 1..N
      BY <1>7
    <3>3. pieces = [k \in DOMAIN Elements(b) |-> Bytes(Elements(b)[k])]
      BY <3>1, <3>2 DEF pieces
    <3>4. FlattenSeq(pieces) = ToBytes(b)
      BY <3>3 DEF ToBytes
    <3> QED BY <1>7, <2>1, <2>3, <3>4 DEF Agree, Shows
  <2> QED BY <1>2, <2>2, <2>3
<1> QED BY <1>9, <1>10, <1>11 DEF b

\* A slice gives what it would give of the array, or is refused.
LEMMA SliceFaithful ==
  ASSUME ItemInv, NEW v, NEW a, Shows(v, a), NEW s, s.step \in Int \ {0},
         s.start \in Int \cup {None}, s.stop \in Int \cup {None}
  PROVE  Faithful(GetSlice(v, s), Sliced(a, s))
<1>1. a.shape \in Seq(Nat) /\ v.shape = a.shape
  BY DEF Shows, View, IsArray
<1>2. CASE Len(a.shape) = 1
  BY <1>2, VectorSliceFaithful DEF Faithful
<1>3. ASSUME Len(a.shape) # 1  PROVE GetSlice(v, s) = Failure("not implemented")
  BY <1>1, <1>3 DEF GetSlice
<1>4. CASE a.shape = << >>
  <2>1. Sliced(a, s) = Failure("IndexError")
    BY <1>4, Zenon DEF Sliced
  <2>2. Len(a.shape) # 1
    BY <1>1, <1>4, EmptySequence
  <2> QED BY <1>3, <2>1, <2>2 DEF Faithful
<1>5. CASE a.shape # << >> /\ Len(a.shape) # 1
  <2> DEFINE n == a.shape[1]
             T == Taken(n, SliceIndices(s, n), s.step)
             order == Ordered(T, s.step)
             shape == <<Len(order)>> \o Tail(a.shape)
  <2>1. n \in Nat /\ Tail(a.shape) \in Seq(Nat) /\ Len(Tail(a.shape)) >= 1
    <3>1. n \in Nat /\ Tail(a.shape) \in Seq(Nat) /\ Len(Tail(a.shape)) = Len(a.shape) - 1
          /\ Len(a.shape) \in Nat \ {0}
      BY <1>1, <1>5, TailFacts
    <3> DEFINE y == Len(Tail(a.shape))
               z == Len(a.shape)
    <3>2. y = z - 1 /\ z \in Nat \ {0} /\ z # 1
      BY <1>5, <3>1
    <3> HIDE DEF y, z
    <3>3. y >= 1
      BY <3>2
    <3> QED BY <3>1, <3>3 DEF y
  <2>2. Len(order) \in Nat
    <3>1. IsFiniteSet(0..(n - 1)) /\ T \subseteq 0..(n - 1)
      <4> HIDE DEF n
      <4>1. 0 \in Int /\ n - 1 \in Int
        BY <2>1
      <4> QED BY <4>1, FS_Interval DEF Taken
    <3>2. Cardinality(T) \in Nat
      BY <3>1, FS_Subset, FS_CardinalityType
    <3> HIDE DEF T, n
    <3> QED BY <3>2 DEF Ordered
  <2> HIDE DEF order
  <2>3. Len(shape) > 1
    <3> DEFINE t == Tail(a.shape)
               x == Len(order)
    <3>1. x \in Nat /\ t \in Seq(Nat) /\ Len(t) \in Nat /\ Len(t) >= 1
      BY <2>1, <2>2
    <3> HIDE DEF x, t
    <3>2. Len(<<x>> \o t) > 1
      BY <3>1, HeadAndTail
    <3> QED BY <3>2 DEF x, t
  <2>4. Sliced(a, s) = SlicedTo(a, order)
    BY <1>5, SlicedDef DEF order
  <2>5. SlicedTo(a, order).shape = shape
    BY DEF SlicedTo, Array
  <2> QED BY <1>3, <1>5, <2>3, <2>4, <2>5 DEF Faithful
<1> QED BY <1>2, <1>4, <1>5

-----------------------------------------------------------------------------
(* What a program has *)

\* The inductive invariant: the array the program means is one, and what it
\* has is faithful to it.
FaithInv == ItemInv /\ Faithful(got, meant)

\* A worker's array comes with its bytes or with none.
LEMMA InitFaith == Init => FaithInv
<1> SUFFICES ASSUME Init  PROVE FaithInv
  OBVIOUS
<1>1. PICK shape \in Shapes :
         /\ whole \in BOOLEAN /\ item \in {0, ItemSize}
         /\ meant = Array(shape, [t \in AllTuples(shape) |-> t])
         /\ got = View(IF whole THEN ToBytes(meant) ELSE << >>, shape)
  BY DEF Init
<1>2. shape \in Seq(Nat)
  BY ShapesAssumption
<1>3. \A t \in AllTuples(shape) : t \in Seq(Nat)
  BY <1>2, TuplesFacts DEF Box
<1> DEFINE at == [t \in AllTuples(shape) |-> t]
<1>4. at \in [AllTuples(shape) -> Seq(Nat)]
  BY <1>3
<1>5. meant.shape = shape /\ meant.at = at /\ meant = Array(meant.shape, meant.at)
  <2> HIDE DEF at
  <2> QED BY <1>1 DEF Array, at
<1>6. IsArray(meant)
  <2> HIDE DEF at
  <2> QED BY <1>2, <1>4, <1>5 DEF IsArray
<1>7. Shows(got, meant)
  BY <1>1, <1>5, <1>6 DEF Shows
<1> QED BY <1>1, <1>7 DEF FaithInv, ItemInv, Faithful, Agree

\* A program that goes on has a view of the array it means.
LEMMA ViewShows ==
  ASSUME FaithInv, got.is = "view"
  PROVE  Shows(got, meant)
BY NotArrayEnds DEF FaithInv, Faithful, Agree

\* However a program indexes, it keeps what it would have of the array.
LEMMA NextFaith == FaithInv /\ [Next]_vars => FaithInv'
<1> SUFFICES ASSUME FaithInv, [Next]_vars  PROVE FaithInv'
  OBVIOUS
<1>1. ItemInv
  BY DEF FaithInv
<1>2. ASSUME NEW g, NEW a, Faithful(g, a), got' = g, meant' = a, UNCHANGED <<whole, item>>
      PROVE  FaithInv'
  BY <1>1, <1>2 DEF FaithInv, ItemInv, Faithful, Agree, Shows
<1>3. ASSUME NEW i \in Indices, Select(i)  PROVE FaithInv'
  <2>1. Shows(got, meant) /\ i \in Int
    BY <1>3, ViewShows, IndicesAssumption DEF Select
  <2>2. Faithful(GetInt(got, i), At(meant, <<i>>))
    BY <1>1, <2>1, IntFaithful DEF Faithful
  <2> QED BY <1>2, <1>3, <2>2 DEF Select
<1>4. ASSUME NEW n \in 0..3, NEW idx \in [1..n -> Indices], SelectTuple(idx)
      PROVE  FaithInv'
  <2>1. Shows(got, meant)
    BY <1>4, ViewShows DEF SelectTuple
  <2>2. idx \in Seq(Int)
    <3>1. n \in Nat /\ idx = [k \in 1..n |-> idx[k]]
      OBVIOUS
    <3>2. \A k \in 1..n : idx[k] \in Indices
      OBVIOUS
    <3>3. \A k \in 1..n : idx[k] \in Int
      BY <3>2, IndicesAssumption
    <3> QED BY <3>1, <3>3, IsSequence
  <2>3. Faithful(GetTuple(got, idx), At(meant, idx))
    BY <1>1, <2>1, <2>2, TupleFaithful DEF Faithful
  <2> QED BY <1>2, <1>4, <2>3 DEF SelectTuple
<1>5. ASSUME NEW start \in Ends, NEW stop \in Ends, NEW step \in SliceSteps,
             Slice([start |-> start, stop |-> stop, step |-> step])
      PROVE  FaithInv'
  <2> DEFINE s == [start |-> start, stop |-> stop, step |-> step]
  <2>1. Shows(got, meant)
    BY <1>5, ViewShows DEF Slice
  <2>2. s.step \in Int \ {0} /\ s.start \in Int \cup {None} /\ s.stop \in Int \cup {None}
    BY IndicesAssumption, StepsAssumption DEF Ends
  <2>3. got' = GetSlice(got, s) /\ meant' = Sliced(meant, s) /\ UNCHANGED <<whole, item>>
    BY <1>5 DEF Slice
  <2> HIDE DEF s
  <2>4. Faithful(GetSlice(got, s), Sliced(meant, s))
    BY <1>1, <2>1, <2>2, SliceFaithful
  <2> QED BY <1>2, <2>3, <2>4
<1>6. CASE UNCHANGED vars
  <2>1. Faithful(got, meant)
    BY DEF FaithInv
  <2> QED BY <1>2, <1>6, <2>1 DEF vars
<1> QED BY <1>3, <1>4, <1>5, <1>6 DEF Next

\* However the program indexes and slices an array of any shape, what it has
\* is what it would have of the array, or a refusal views owe it.
THEOREM FaithInvariant == Spec => []FaithInv
<1> QED BY InitFaith, NextFaith, PTL DEF Spec

\* __getitem__ in all its forms shows the elements of the array, in their order
\* and byte for byte, and gives an IndexError exactly when the array does.
THEOREM ViewsAreFaithful == Spec => []ViewFaithful
<1>1. ASSUME FaithInv  PROVE ViewFaithful
  <2>1. CASE Shows(got, meant)
    <3>1. meant.is = "array" /\ got.is = "view" /\ got.shape = meant.shape
          /\ got.data = IF whole THEN ToBytes(meant) ELSE << >>
      BY <2>1 DEF Shows, IsArray, View, Array
    <3> QED BY <3>1 DEF ViewFaithful
  <2>2. CASE ~Shows(got, meant)
    BY <1>1, <2>2 DEF FaithInv, Faithful, Agree, ViewFaithful
  <2> QED BY <2>1, <2>2
<1> QED BY <1>1, FaithInvariant, PTL

-----------------------------------------------------------------------------
(* Conversions *)

\* An outcome is no view.
LEMMA OutcomeEnds == \A x \in Outcomes : x.is # "view"
BY DEF Outcomes, Failure, Element

\* What a view gives for an integer, if it is a view, has one axis less.
LEMMA IntView ==
  ASSUME ItemInv, NEW v \in Views, NEW i \in Int, GetInt(v, i).is = "view"
  PROVE  /\ GetInt(v, i) \in Views /\ GetInt(v, i).shape = Tail(v.shape)
         /\ v.shape \in Seq(Nat) /\ v.shape # << >> /\ Len(Tail(v.shape)) < Len(v.shape)
<1> DEFINE at == IF i < 0 THEN i + v.shape[1] ELSE i
           tail == (Size[v.shape] \div v.shape[1]) * item
<1>1. GetInt(v, i) \in Views
  BY IntType, OutcomeEnds
<1>2. v.shape \in Seq(Nat) /\ v.data \in Seq(ByteSet)
  BY DEF Views, ByteSet
<1>3. ~(v.shape = << >> \/ at < 0 \/ at >= v.shape[1])
  <2> SUFFICES ASSUME v.shape = << >> \/ at < 0 \/ at >= v.shape[1]  PROVE FALSE
    OBVIOUS
  <2>1. GetInt(v, i) = Failure("IndexError")
    BY Zenon DEF GetInt
  <2> QED BY <2>1, NotArrayEnds
<1>4. v.shape[1] \in Nat /\ Len(Tail(v.shape)) < Len(v.shape)
  BY <1>2, <1>3, TailFacts
<1>5. at \in Nat
  <2>1. at \in Int
    BY <1>4
  <2> HIDE DEF at
  <2> QED BY <1>3, <2>1
<1>6. Len(v.shape) # 1 /\ item # 0
  <2> HIDE DEF at, tail
  <2>1. DecodeAt(v, at).is # "view"
    BY <1>2, <1>5, DecodeType, OutcomeEnds
  <2>2. Failure("undecodable").is # "view"
    BY NotArrayEnds
  <2> QED BY <1>3, <2>1, <2>2 DEF GetInt, at
<1>7. GetInt(v, i) = View(Cut(v.data, at * tail, (at + 1) * tail), Tail(v.shape))
  BY <1>3, <1>6, Zenon DEF GetInt
<1>8. GetInt(v, i).shape = Tail(v.shape)
  <2> HIDE DEF at, tail
  <2> QED BY <1>7 DEF View
<1> QED BY <1>1, <1>2, <1>3, <1>4, <1>8

\* What an item of a list adds to it, when f lists the rows.
Listed(f, u) == IF u.is = "view" THEN f[u] ELSE <<u>>
Lists(f, v) ==
    IF v.shape = << >> THEN <<DecodeAt(v, 0)>>
    ELSE FlattenSeq([i \in 1..v.shape[1] |-> Listed(f, GetInt(v, i - 1))])

\* One level of tolist gives a list of outcomes.
LEMMA ListsType ==
  ASSUME ItemInv, NEW f \in [Views -> Seq(Outcomes)], NEW v \in Views
  PROVE  Lists(f, v) \in Seq(Outcomes)
<1>1. v.shape \in Seq(Nat) /\ v.data \in Seq(ByteSet)
  BY DEF Views, ByteSet
<1>2. CASE v.shape = << >>
  <2>1. DecodeAt(v, 0) \in Outcomes
    BY <1>1, DecodeType
  <2>2. Lists(f, v) = <<DecodeAt(v, 0)>>
    BY <1>2 DEF Lists
  <2> QED BY <2>1, <2>2
<1>3. CASE v.shape # << >>
  <2> DEFINE n == v.shape[1]
             ss == [i \in 1..n |-> Listed(f, GetInt(v, i - 1))]
  <2>1. n \in Nat
    BY <1>1, <1>3, TailFacts
  <2>2. ASSUME NEW i \in 1..n  PROVE Listed(f, GetInt(v, i - 1)) \in Seq(Outcomes)
    <3> DEFINE u == GetInt(v, i - 1)
    <3>1. u \in Views \cup Outcomes
      <4>1. i - 1 \in Int
        BY <2>1
      <4> QED BY <4>1, IntType
    <3> HIDE DEF u
    <3>2. CASE u.is = "view"
      <4>1. u \in Views
        BY <3>1, <3>2, OutcomeEnds
      <4> QED BY <3>2, <4>1 DEF Listed, u
    <3>3. CASE u.is # "view"
      <4>1. u \in Outcomes
        BY <3>1, <3>3 DEF Views
      <4>2. <<u>> \in Seq(Outcomes)
        BY <4>1
      <4> QED BY <3>3, <4>2 DEF Listed, u
    <3> QED BY <3>2, <3>3
  <2> HIDE DEF n
  <2>3. ss \in Seq(Seq(Outcomes))
    BY <2>1, <2>2
  <2> HIDE DEF ss
  <2>4. FlattenSeq(ss) \in Seq(Outcomes)
    BY <2>3, FlattenType
  <2>5. Lists(f, v) = FlattenSeq(ss)
    BY <1>3 DEF Lists, ss, n
  <2> QED BY <2>4, <2>5
<1> QED BY <1>2, <1>3

\* tolist is the function that its recursion describes.
LEMMA ToListDef ==
  ASSUME ItemInv
  PROVE  ToList = [v \in Views |-> Lists(ToList, v)]
<1> DEFINE S == Views
           V == Seq(Outcomes)
           D == [f \in [S -> V] |-> [v \in S |-> Lists(f, v)]]
           rank == [v \in S |-> Len(v.shape)]
<1>1. D \in [[S -> V] -> [S -> V]]
  BY ListsType
<1>2. rank \in [S -> Nat] /\ V # {}
  <2>1. \A v \in Views : Len(v.shape) \in Nat
    BY DEF Views
  <2>2. << >> \in V
    OBVIOUS
  <2> QED BY <2>1, <2>2
<1>3. ASSUME NEW f \in [S -> V], NEW g \in [S -> V], NEW v \in S,
             \A u \in S : rank[u] < rank[v] => f[u] = g[u]
      PROVE  D[f][v] = D[g][v]
  <2>1. Lists(f, v) = Lists(g, v)
    <3>1. ASSUME v.shape # << >>, NEW i \in 1..v.shape[1]
          PROVE  Listed(f, GetInt(v, i - 1)) = Listed(g, GetInt(v, i - 1))
      <4> DEFINE u == GetInt(v, i - 1)
      <4>1. i - 1 \in Int
        OBVIOUS
      <4>2. u.is = "view" => u \in S /\ rank[u] < rank[v]
        BY <4>1, IntView
      <4>3. u.is = "view" => f[u] = g[u]
        BY <1>3, <4>2
      <4> QED BY <4>3 DEF Listed
    <3> QED BY <3>1 DEF Lists
  <2> QED BY <2>1
<1>4. Descends(D, S, V, rank)
  <2> HIDE DEF D, S, V, rank
  <2> QED BY <1>3 DEF Descends
<1>5. PICK f : Solves(f, D, S, V)
  <2> HIDE DEF D, S, V, rank
  <2> QED BY <1>1, <1>2, <1>4, RecursiveFunction, Zenon
<1>6. f = [v \in Views |-> Lists(f, v)]
  <2>1. f \in [S -> V] /\ f = D[f]
    BY <1>5 DEF Solves
  <2> QED BY <2>1
<1>7. f = [v \in Views |->
             IF v.shape = << >> THEN <<DecodeAt(v, 0)>>
             ELSE FlattenSeq([i \in 1..v.shape[1] |->
                      LET u == GetInt(v, i - 1)
                      IN IF u.is = "view" THEN f[u] ELSE <<u>>])]
  BY <1>6, Zenon DEF Lists, Listed
<1>8. ToList = [v \in Views |->
             IF v.shape = << >> THEN <<DecodeAt(v, 0)>>
             ELSE FlattenSeq([i \in 1..v.shape[1] |->
                      LET u == GetInt(v, i - 1)
                      IN IF u.is = "view" THEN ToList[u] ELSE <<u>>])]
  BY <1>7, Zenon DEF ToList
<1> QED BY <1>8, Zenon DEF Lists, Listed

\* A view that cannot decode lists nothing.
LEMMA NothingListed ==
  ASSUME ItemInv
  PROVE  \A v \in Views : item = 0 \/ v.data = << >> =>
            ToList[v] \in Seq({Failure("undecodable")})
<1> DEFINE S == {Failure("undecodable")}
           P == {s \in Seq(Nat) : \A v \in Views :
                    v.shape = s /\ (item = 0 \/ v.data = << >>) => ToList[v] \in Seq(S)}
<1>1. \A v \in Views : ToList[v] = Lists(ToList, v)
  BY ToListDef
<1>2. item \in {0, ItemSize} /\ ItemSize \in Nat \ {0}
  BY ItemAssumption DEF ItemInv
<1>3. ASSUME NEW v \in Views, item = 0 \/ v.data = << >>, NEW q \in Nat
      PROVE  DecodeAt(v, q) = Failure("undecodable")
  BY <1>2, <1>3, DecodeNothing
<1>4. ASSUME NEW v \in Views, v.shape = << >>, item = 0 \/ v.data = << >>
      PROVE  ToList[v] \in Seq(S)
  <2>1. DecodeAt(v, 0) \in S
    BY <1>3, <1>4
  <2>2. ToList[v] = <<DecodeAt(v, 0)>>
    BY <1>1, <1>4 DEF Lists
  <2> HIDE DEF S
  <2> QED BY <2>1, <2>2
<1>5. ASSUME NEW s \in Seq(Nat), s # << >>, Tail(s) \in P,
             NEW v \in Views, v.shape = s, item = 0 \/ v.data = << >>
      PROVE  ToList[v] \in Seq(S)
  <2> DEFINE n == s[1]
             ss == [i \in 1..n |-> Listed(ToList, GetInt(v, i - 1))]
  <2>1. n \in Nat /\ Len(s) \in Nat \ {0}
    BY <1>5, TailFacts
  <2>2. ASSUME NEW i \in 1..n  PROVE Listed(ToList, GetInt(v, i - 1)) \in Seq(S)
    <3> DEFINE q == i - 1
               u == GetInt(v, q)
               tail == (Size[s] \div n) * item
    <3>1. q \in Nat /\ q < n /\ ~(s = << >> \/ q < 0 \/ q >= n) /\ ~(q < 0)
      BY <1>5, <2>1
    <3> HIDE DEF q, n
    <3>2. u = IF Len(s) = 1 THEN DecodeAt(v, q)
              ELSE IF item = 0 THEN Failure("undecodable")
              ELSE View(Cut(v.data, q * tail, (q + 1) * tail), Tail(s))
      BY <1>5, <3>1, Zenon DEF GetInt, n
    <3>3. CASE Len(s) = 1 \/ item = 0
      <4>1. u = Failure("undecodable")
        BY <1>3, <1>5, <3>1, <3>2, <3>3
      <4>2. Listed(ToList, u) = <<u>>
        BY <4>1, NotArrayEnds DEF Listed
      <4>3. u \in S
        BY <4>1
      <4> HIDE DEF S, u
      <4>4. <<u>> \in Seq(S)
        BY <4>3
      <4> QED BY <4>2, <4>4, Zenon DEF u, q
    <3>4. CASE Len(s) # 1 /\ item # 0
      <4>1. Size[s] \div n \in Nat
        <5>1. Size[Tail(s)] \in Nat /\ Size[s] = n * Size[Tail(s)] /\ n \in Nat \ {0}
          BY <1>5, <2>1, <3>1, SizeFacts, TailFacts DEF n
        <5> QED BY <5>1, DivExact
      <4>2. tail \in Nat
        BY <1>2, <4>1
      <4>3. u = View(<< >>, Tail(s))
        <5> DEFINE x == q * tail
                   y == (q + 1) * tail
        <5> HIDE DEF tail
        <5>1. x \in Nat /\ y \in Nat
          BY <3>1, <4>2
        <5> HIDE DEF x, y
        <5>2. Cut(<< >>, x, y) = << >>
          BY <5>1, CutNothing
        <5>3. v.data = << >>
          BY <1>5, <3>4
        <5> QED BY <3>2, <3>4, <5>2, <5>3 DEF x, y
      <4>4. u \in Views /\ u.is = "view" /\ u.shape = Tail(s) /\ u.data = << >>
        <5>1. << >> \in Seq(ByteSet) /\ Tail(s) \in Seq(Nat)
          BY <1>5, TailFacts
        <5>2. u \in Views
          BY <4>3, <5>1, ViewType
        <5> HIDE DEF u
        <5> QED BY <4>3, <5>2 DEF View
      <4> HIDE DEF u
      <4>5. ToList[u] \in Seq(S)
        BY <1>5, <4>4
      <4> QED BY <4>4, <4>5 DEF Listed, u, q
    <3> QED BY <3>3, <3>4
  <2> HIDE DEF n, S
  <2>3. ss \in Seq(Seq(S))
    BY <2>1, <2>2
  <2> HIDE DEF ss
  <2>4. FlattenSeq(ss) \in Seq(S)
    BY <2>3, FlattenType
  <2>5. ToList[v] = FlattenSeq(ss)
    BY <1>1, <1>5 DEF Lists, ss, n
  <2> QED BY <2>4, <2>5
<1>6. P = Seq(Nat)
  <2>1. P \in SUBSET Seq(Nat) /\ << >> \in P
    <3>1. << >> \in Seq(Nat)
      OBVIOUS
    <3> QED BY <1>4, <3>1
  <2>2. \A s \in Seq(Nat) : s # << >> /\ Tail(s) \in P => s \in P
    <3> SUFFICES ASSUME NEW s \in Seq(Nat), s # << >>, Tail(s) \in P  PROVE s \in P
      OBVIOUS
    <3> QED BY <1>5
  <2> HIDE DEF P
  <2> QED BY <2>1, <2>2, AxisInduction
<1>7. \A v \in Views : v.shape \in Seq(Nat)
  BY DEF Views
<1> QED BY <1>6, <1>7

\* The rows of a view that can decode, or its elements when it has one axis.
LEMMA RowShown ==
  ASSUME ItemInv, item # 0, whole, NEW v, NEW a, Shows(v, a), a.shape # << >>,
         NEW q \in 0..(a.shape[1] - 1)
  PROVE  LET u == GetInt(v, q)
             S == Size[Tail(a.shape)]
         IN \/ /\ Tail(a.shape) = << >>
               /\ u = Element(Elements(a)[q * S + 1])
            \/ \E row : /\ Shows(u, row) /\ row.shape = Tail(a.shape)
                        /\ Elements(row) = SubSeq(Elements(a), q * S + 1, (q + 1) * S)
<1> DEFINE s == a.shape
           u == GetInt(v, q)
           row == At(a, <<q>>)
           rest == Tail(s)
           S == Size[rest]
<1>1. IsArray(a) /\ s \in Seq(Nat) /\ s[1] \in Nat /\ q \in Nat /\ ~(q < 0)
  <2>1. IsArray(a) /\ s \in Seq(Nat)
    BY DEF Shows, IsArray
  <2>2. s[1] \in Nat
    BY <2>1, TailFacts
  <2> QED BY <2>1, <2>2
<1>2. /\ InRange(s, <<q>>) /\ Norm(s, <<q>>) = <<q>> /\ Rest(s, 1) = rest
      /\ Len(<<q>>) = 1 /\ <<q>> \in Seq(Int)
  <2>1. q \in Int
    BY <1>1
  <2> QED BY <1>1, <2>1, OneIndex
<1>3. /\ rest = << >> => row = Element(a.at[<<q>>])
      /\ rest # << >> =>
            /\ row = Array(rest, [t \in AllTuples(rest) |-> a.at[<<q>> \o t]])
            /\ IsArray(row)
  BY <1>1, <1>2, AtFacts
<1>4. Agree(u, row)
  <2>1. q \in Int
    BY <1>1
  <2> QED BY <2>1, IntFaithful
<1> HIDE DEF u, row
<1>5. CASE rest = << >>
  <2>1. row = Element(a.at[<<q>>])
    BY <1>3, <1>5
  <2>2. u = row
    <3>1. ~IsArray(row)
      BY <2>1 DEF IsArray, Array, Element
    <3>2. ~Shows(u, row)
      BY <3>1 DEF Shows
    <3>3. ~(item = 0 \/ ~whole)
      OBVIOUS
    <3> QED BY <1>4, <3>2, <3>3 DEF Agree
  <2>3. Elements(a)[q * S + 1] = a.at[<<q>>]
    <3>1. 1 \in 1..S /\ Ndindex[rest][1] = << >>
      <4>1. Size[<< >>] = 1 /\ Ndindex[<< >>][1] = << >>
        BY SizeFacts, NdindexFacts
      <4>2. S = 1 /\ Ndindex[rest][1] = << >>
        BY <1>5, <4>1, Zenon
      <4> QED BY <4>2
    <3>2. Elements(a)[q * S + 1] = a.at[<<q>> \o Ndindex[rest][1]]
      BY <1>1, <3>1, RowElements
    <3>3. <<q>> \o << >> = <<q>>
      BY <1>1
    <3> QED BY <3>1, <3>2, <3>3
  <2> QED BY <1>5, <2>1, <2>2, <2>3 DEF u
<1>6. CASE rest # << >>
  <2>1. /\ IsArray(row) /\ row.shape = rest
        /\ \A t \in AllTuples(rest) : row.at[t] = a.at[<<q>> \o t]
    <3> HIDE DEF rest
    <3> QED BY <1>3, <1>6 DEF Array
  <2>2. Shows(u, row)
    <3>1. row.is = "array"
      BY <2>1 DEF IsArray, Array
    <3>2. Failure("IndexError").is = "error"
      BY NotArrayEnds
    <3>3. ~(item = 0 \/ ~whole)
      OBVIOUS
    <3> QED BY <1>4, <3>1, <3>2, <3>3 DEF Agree
  <2>3. Elements(row) = SubSeq(Elements(a), q * S + 1, (q + 1) * S)
    BY <1>1, <2>1, RowIsPart
  <2> QED BY <2>1, <2>2, <2>3 DEF u
<1> QED BY <1>5, <1>6

\* A list of elements as outcomes.
Decoded(es) == [n \in 1..Len(es) |-> Element(es[n])]

\* The list of the elements themselves.
LEMMA DecodedFacts ==
  ASSUME NEW es \in Seq(Seq(Nat))
  PROVE  /\ Decoded(es) \in Seq(Outcomes) /\ Len(Decoded(es)) = Len(es)
         /\ \A n \in 1..Len(es) : Decoded(es)[n] = Element(es[n])
<1>1. \A n \in 1..Len(es) : Element(es[n]) \in Outcomes
  BY OutcomeFacts
<1>2. Len(es) \in Nat
  OBVIOUS
<1>3. Decoded(es) = [n \in 1..Len(es) |-> Decoded(es)[n]]
      /\ \A n \in 1..Len(es) : Decoded(es)[n] = Element(es[n])
  BY DEF Decoded
<1> QED BY <1>1, <1>2, <1>3, IsSequence

\* Views of shape s list the elements of their arrays.
ListsElements(s) ==
    \A w, b : Shows(w, b) /\ b.shape = s => ToList[w] = Decoded(Elements(b))

\* What a row of a view adds to its list, when the rows list their elements.
LEMMA RowListed ==
  ASSUME ItemInv, item # 0, whole, NEW v, NEW a, Shows(v, a), a.shape # << >>,
         ListsElements(Tail(a.shape)),
         NEW q \in 0..(a.shape[1] - 1)
  PROVE  LET S == Size[Tail(a.shape)]
             l == Listed(ToList, GetInt(v, q))
         IN /\ l \in Seq(Outcomes) /\ Len(l) = S
            /\ \A r \in 1..S : l[r] = Element(Elements(a)[q * S + r])
<1> DEFINE rest == Tail(a.shape)
           S == Size[rest]
           es == Elements(a)
           u == GetInt(v, q)
           l == Listed(ToList, u)
<1>1. IsArray(a) /\ a.shape \in Seq(Nat)
  BY DEF Shows, IsArray
<1>2. /\ S \in Nat /\ Size[a.shape] = a.shape[1] * S
      /\ q * S \in 0..Size[a.shape] /\ (q + 1) * S \in 0..Size[a.shape]
      /\ (q + 1) * S = q * S + S
      /\ \A k \in 1..S : q * S + k \in 1..Size[a.shape]
  BY <1>1, RowElements
<1>3. es \in Seq(Seq(Nat)) /\ Len(es) = Size[a.shape]
  BY <1>1, ElementsFacts
<1>4. \/ rest = << >> /\ u = Element(es[q * S + 1])
      \/ \E row : /\ Shows(u, row) /\ row.shape = rest
                  /\ Elements(row) = SubSeq(es, q * S + 1, (q + 1) * S)
  BY RowShown
<1>5. CASE rest = << >> /\ u = Element(es[q * S + 1])
  <2>1. S = 1
    <3>1. Size[<< >>] = 1
      BY SizeFacts
    <3> QED BY <1>5, <3>1, Zenon
  <2> DEFINE e == es[q * S + 1]
  <2>2. e \in Seq(Nat)
    <3>1. q * S + 1 \in 1..Len(es)
      <4>1. 1 \in 1..S
        BY <2>1
      <4> HIDE DEF S, es
      <4> QED BY <1>2, <1>3, <4>1
    <3> DEFINE j == q * S + 1
    <3> HIDE DEF j, es
    <3>2. es[j] \in Seq(Nat)
      BY <1>3, <3>1 DEF j
    <3> QED BY <3>2 DEF j
  <2> HIDE DEF e, u
  <2>3. u = Element(e) /\ u.is # "view" /\ u \in Outcomes
    <3>1. u = Element(e)
      BY <1>5 DEF e
    <3> QED BY <2>2, <3>1, NotArrayEnds, OutcomeFacts
  <2>4. l = <<u>>
    BY <2>3 DEF Listed
  <2>5. l \in Seq(Outcomes) /\ Len(l) = 1 /\ l[1] = Element(e)
    BY <2>3, <2>4
  <2> HIDE DEF l, S
  <2>6. \A r \in 1..S : r = 1
    BY <2>1
  <2> QED BY <2>1, <2>5, <2>6 DEF l, e, u, S
<1>6. ASSUME NEW row, Shows(u, row), row.shape = rest,
             Elements(row) = SubSeq(es, q * S + 1, (q + 1) * S)
      PROVE  /\ l \in Seq(Outcomes) /\ Len(l) = S
             /\ \A r \in 1..S : l[r] = Element(es[q * S + r])
  <2> HIDE DEF u, es, S
  <2>1. l = ToList[u]
    <3>1. u.is = "view"
      BY <1>6 DEF Shows, View
    <3> QED BY <3>1 DEF Listed
  <2>2. l = Decoded(Elements(row))
    BY <1>6, <2>1 DEF rest, ListsElements
  <2> DEFINE x == q * S
             y == (q + 1) * S
             part == SubSeq(es, x + 1, y)
  <2>3. x \in Nat /\ y \in Nat /\ y = x + S /\ y <= Len(es)
    BY <1>2, <1>3
  <2> HIDE DEF x, y
  <2>4. /\ part \in Seq(Seq(Nat)) /\ Len(part) = S
        /\ \A k \in 1..S : part[k] = es[x + k]
    <3>1. x <= y /\ y - x = S
      BY <1>2, <2>3
    <3>2. /\ part \in Seq(Seq(Nat)) /\ Len(part) = y - x
          /\ \A k \in 1..(y - x) : part[k] = es[x + k]
      <4> HIDE DEF part
      <4>1. es \in Seq(Seq(Nat)) /\ x \in Nat /\ y \in Nat /\ y <= Len(es) /\ x <= y
        BY <1>3, <2>3, <3>1
      <4> QED BY <4>1, SubSeqFacts DEF part
    <3> QED BY <3>1, <3>2
  <2>5. Elements(row) = part
    BY <1>6 DEF x, y
  <2> HIDE DEF part
  <2>6. /\ Decoded(part) \in Seq(Outcomes) /\ Len(Decoded(part)) = S
        /\ \A r \in 1..S : Decoded(part)[r] = Element(part[r])
    BY <2>4, DecodedFacts
  <2> HIDE DEF l
  <2>7. /\ l \in Seq(Outcomes) /\ Len(l) = S /\ \A r \in 1..S : l[r] = Element(es[x + r])
    BY <2>2, <2>4, <2>5, <2>6
  <2> QED BY <2>7 DEF x
<1> QED BY <1>4, <1>5, <1>6

\* A view that can decode lists the elements of its array.
LEMMA ElementsListed ==
  ASSUME ItemInv, item # 0, whole
  PROVE  \A v, a : Shows(v, a) => ToList[v] = Decoded(Elements(a))
<1> DEFINE P == {s \in Seq(Nat) : ListsElements(s)}
<1>1. \A v, a : Shows(v, a) => /\ v.shape = a.shape /\ ToList[v] = Lists(ToList, v)
                               /\ IsArray(a) /\ a.shape \in Seq(Nat)
                               /\ v.data = Joined(Elements(a))
  <2> SUFFICES ASSUME NEW v, NEW a, Shows(v, a)
               PROVE  /\ v.shape = a.shape /\ ToList[v] = Lists(ToList, v)
                      /\ IsArray(a) /\ a.shape \in Seq(Nat)
                      /\ v.data = Joined(Elements(a))
    OBVIOUS
  <2>1. v.shape = a.shape /\ IsArray(a) /\ a.shape \in Seq(Nat) /\ v.data = Joined(Elements(a))
    BY BytesAreJoined DEF Shows, View, IsArray
  <2>2. v \in Views
    BY ShowsType
  <2>3. ToList[v] = Lists(ToList, v)
    BY <2>2, ToListDef
  <2> QED BY <2>1, <2>3
<1>2. item = ItemSize
  BY DEF ItemInv
<1>3. ASSUME NEW v, NEW a, Shows(v, a), a.shape = << >>
      PROVE  ToList[v] = Decoded(Elements(a))
  <2> DEFINE es == Elements(a)
  <2>1. es \in Seq(Seq(Nat)) /\ Len(es) = 1
    <3>1. Size[a.shape] = 1
      BY <1>3, SizeFacts
    <3> QED BY <1>1, <1>3, <3>1, ElementsFacts
  <2> HIDE DEF es
  <2>2. DecodeAt(v, 0) = Element(es[1])
    <3>1. 0 \in 0..(Len(es) - 1) /\ v.data = Joined(es) /\ 0 + 1 = 1
      BY <1>1, <1>3, <2>1 DEF es
    <3>2. DecodeAt(v, 0) = Element(es[0 + 1])
      BY <1>2, <2>1, <3>1, DecodeJoined
    <3> QED BY <3>1, <3>2
  <2>3. ToList[v] = <<Element(es[1])>>
    BY <1>1, <1>3, <2>2, Zenon DEF Lists
  <2>4. Decoded(es) = <<Element(es[1])>>
    BY <2>1 DEF Decoded
  <2> QED BY <2>3, <2>4 DEF es
<1>4. ASSUME NEW s \in Seq(Nat), s # << >>, Tail(s) \in P,
             NEW v, NEW a, Shows(v, a), a.shape = s
      PROVE  ToList[v] = Decoded(Elements(a))
  <2> DEFINE n == s[1]
             m == Size[Tail(s)]
             es == Elements(a)
             ss == [i \in 1..n |-> Listed(ToList, GetInt(v, i - 1))]
  <2>1. n \in Nat /\ m \in Nat /\ Size[s] = n * m
    BY <1>4, TailFacts, SizeFacts
  <2>2. es \in Seq(Seq(Nat)) /\ Len(es) = n * m
    BY <1>1, <1>4, <2>1, ElementsFacts
  <2>3. ASSUME NEW q \in 0..(n - 1)
        PROVE  LET l == Listed(ToList, GetInt(v, q))
               IN /\ l \in Seq(Outcomes) /\ Len(l) = m
                  /\ \A r \in 1..m : l[r] = Element(es[q * m + r])
    <3>1. ListsElements(Tail(a.shape))
      BY <1>4
    <3>2. q \in 0..(a.shape[1] - 1) /\ a.shape # << >>
      BY <1>4
    <3>3. LET S == Size[Tail(a.shape)]
              l == Listed(ToList, GetInt(v, q))
          IN /\ l \in Seq(Outcomes) /\ Len(l) = S
             /\ \A r \in 1..S : l[r] = Element(Elements(a)[q * S + r])
      <4> HIDE DEF n, m, es, ss
      <4>1. Shows(v, a)
        BY <1>4
      <4> QED BY <3>1, <3>2, <4>1, RowListed
    <3> QED BY <1>4, <3>3, Zenon
  <2> HIDE DEF es, m, n
  <2>4. /\ ss \in Seq(Seq(Outcomes)) /\ Len(ss) = n
        /\ \A i \in 1..n : /\ Len(ss[i]) = m
                           /\ \A r \in 1..m : ss[i][r] = Element(es[(i - 1) * m + r])
    <3>1. \A i \in 1..n : i - 1 \in 0..(n - 1)
      BY <2>1
    <3>2. \A i \in 1..n : ss[i] = Listed(ToList, GetInt(v, i - 1)) /\ ss[i] \in Seq(Outcomes)
      BY <2>3, <3>1
    <3>3. ss = [i \in 1..n |-> ss[i]]
      OBVIOUS
    <3> HIDE DEF ss
    <3>4. ss \in Seq(Seq(Outcomes)) /\ Len(ss) = n
      BY <2>1, <3>2, <3>3, IsSequence
    <3> QED BY <2>3, <3>1, <3>2, <3>4
  <2> HIDE DEF ss
  <2> DEFINE all == FlattenSeq(ss)
  <2>5. /\ all \in Seq(Outcomes) /\ Len(all) = n * m
        /\ \A q \in 0..(n - 1), r \in 1..m : all[q * m + r] = ss[q + 1][r]
    BY <2>1, <2>4, FlattenBlocks
  <2> HIDE DEF all
  <2>6. Decoded(es) \in Seq(Outcomes) /\ Len(Decoded(es)) = n * m
        /\ \A j \in 1..(n * m) : Decoded(es)[j] = Element(es[j])
    BY <2>2, DecodedFacts
  <2>7. ASSUME NEW j \in 1..(n * m)  PROVE all[j] = Decoded(es)[j]
    <3>1. PICK q \in 0..(n - 1), r \in 1..m : j = q * m + r
      BY <2>1, BlockOf
    <3>2. q + 1 \in 1..n /\ (q + 1) - 1 = q
      BY <2>1
    <3>3. all[j] = Element(es[q * m + r])
      BY <2>4, <2>5, <3>1, <3>2
    <3> QED BY <2>6, <3>1, <3>3
  <2>8. all = Decoded(es)
    BY <2>5, <2>6, <2>7, SameSequence
  <2>9. ToList[v] = all
    BY <1>1, <1>4, Zenon DEF Lists, all, ss, n
  <2> QED BY <2>8, <2>9 DEF es
<1>5. P = Seq(Nat)
  <2>1. P \in SUBSET Seq(Nat) /\ << >> \in P
    <3>1. << >> \in Seq(Nat)
      OBVIOUS
    <3> QED BY <1>3, <3>1 DEF ListsElements
  <2>2. \A s \in Seq(Nat) : s # << >> /\ Tail(s) \in P => s \in P
    <3> SUFFICES ASSUME NEW s \in Seq(Nat), s # << >>, Tail(s) \in P  PROVE s \in P
      OBVIOUS
    <3> QED BY <1>4 DEF ListsElements
  <2> HIDE DEF P
  <2> QED BY <2>1, <2>2, AxisInduction
<1> QED BY <1>1, <1>5 DEF ListsElements

\* tolist and the scalar conversions read the elements a view stands for and
\* no others, whatever the shape of the array and however it was indexed; a
\* view without its bytes, or of an unknown dtype, converts nothing.
THEOREM ConversionsAreFaithful == Spec => []ConversionsFaithful
<1>1. ASSUME FaithInv  PROVE ConversionsFaithful
  <2> SUFFICES ASSUME got.is = "view"  PROVE ConversionsFaithful
    BY DEF ConversionsFaithful
  <2> DEFINE es == Elements(meant)
             readable == whole /\ item # 0
  <2>1. ItemInv /\ Shows(got, meant)
    BY <1>1, ViewShows DEF FaithInv
  <2>2. got \in Views /\ got.shape = meant.shape /\ IsArray(meant)
        /\ got.data = IF whole THEN Joined(es) ELSE << >>
    BY <2>1, ShowsType, BytesAreJoined DEF Shows, View
  <2>3. es \in Seq(Seq(Nat)) /\ Len(es) = Size[got.shape] /\ whole \in BOOLEAN
    BY <2>1, <2>2, ElementsFacts DEF ItemInv
  <2>4. ASSUME readable
        PROVE  ToList[got] = [n \in 1..Len(es) |-> Element(es[n])]
    BY <2>1, <2>4, ElementsListed DEF Decoded
  <2>5. ASSUME ~readable
        PROVE  \A x \in ToSet(ToList[got]) : x = Failure("undecodable")
    <3>1. item = 0 \/ got.data = << >>
      BY <2>2, <2>3, <2>5
    <3>2. ToList[got] \in Seq({Failure("undecodable")})
      BY <2>1, <2>2, <3>1, NothingListed
    <3> QED BY <3>2 DEF ToSet
  <2>6. Scalar(got) = IF Len(es) # 1 THEN Failure("TypeError")
                      ELSE IF readable THEN Element(es[1])
                      ELSE Failure("undecodable")
    <3>1. CASE Len(es) # 1
      BY <2>3, <3>1 DEF Scalar
    <3>2. ASSUME Len(es) = 1, readable  PROVE DecodeAt(got, 0) = Element(es[1])
      <4>1. 0 \in 0..(Len(es) - 1) /\ got.data = Joined(es) /\ item = ItemSize /\ 0 + 1 = 1
        BY <2>1, <2>2, <3>2 DEF ItemInv
      <4> HIDE DEF es
      <4>2. DecodeAt(got, 0) = Element(es[0 + 1])
        BY <2>3, <4>1, DecodeJoined
      <4> QED BY <4>1, <4>2
    <3>3. ASSUME ~readable  PROVE DecodeAt(got, 0) = Failure("undecodable")
      <4>1. item = 0 \/ (item = ItemSize /\ got.data = << >>)
        BY <2>1, <2>2, <2>3, <3>3 DEF ItemInv
      <4>2. 0 \in Nat
        OBVIOUS
      <4> QED BY <4>1, <4>2, DecodeNothing
    <3> HIDE DEF es, readable
    <3> QED BY <2>3, <3>1, <3>2, <3>3 DEF Scalar
  <2> HIDE DEF es, readable
  <2> QED BY <2>4, <2>5, <2>6 DEF ConversionsFaithful, es, readable
<1> QED BY <1>1, FaithInvariant, PTL
=============================================================================
