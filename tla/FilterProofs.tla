---------------------------- MODULE FilterProofs ----------------------------
(***************************************************************************)
(* Proofs about Filter for every set of names and every profile: the lists *)
(* and the order of Allow, whatever a pattern matches; what matchWildcard  *)
(* matches; and from both, what a profile allows and denies.               *)
(***************************************************************************)
EXTENDS Filter, FiniteSetTheorems, Induction

\* LoadInv, and that the deny list is read last.
FInv == LoadInv /\ (phase = "allow" => denyList = {})

\* What has been read is in the filter, after every turn of the two loops:
\* the deny list may be read over the allow list because it is read last.
LEMMA LoadStep == FInv /\ [Next]_vars => FInv'
<1> SUFFICES ASSUME FInv, [Next]_vars  PROVE FInv'
  OBVIOUS
<1> USE DEF FInv, LoadInv, lists
<1>1. CASE \E entry \in Entries : LoadAllow(entry)
  <2> PICK entry \in Entries : LoadAllow(entry)
    BY <1>1
  <2> USE DEF LoadAllow
  <2>1. CASE HasStar(entry)
    BY <2>1
  <2>2. CASE ~HasStar(entry)
    <3>1. exact' = Put(exact, entry, TRUE)
      BY <2>2
    <3>2. DOMAIN exact' = {e \in (allowList \cup denyList)' : ~HasStar(e)}
      BY <2>2, <3>1 DEF Put
    <3>3. ASSUME NEW e \in DOMAIN exact'  PROVE exact'[e] = (e \notin denyList')
      <4>1. CASE e = entry
        BY <4>1, <3>1, <2>2 DEF Put
      <4>2. CASE e # entry
        BY <4>2, <3>1, <2>2 DEF Put
      <4> QED BY <4>1, <4>2
    <3> QED BY <2>2, <3>2, <3>3
  <2> QED BY <2>1, <2>2
<1>2. CASE \E entry \in Entries : LoadDeny(entry)
  <2> PICK entry \in Entries : LoadDeny(entry)
    BY <1>2
  <2> USE DEF LoadDeny
  <2>1. CASE HasStar(entry)
    BY <2>1
  <2>2. CASE ~HasStar(entry)
    <3>1. exact' = Put(exact, entry, FALSE)
      BY <2>2
    <3>2. DOMAIN exact' = {e \in (allowList \cup denyList)' : ~HasStar(e)}
      BY <2>2, <3>1 DEF Put
    <3>3. ASSUME NEW e \in DOMAIN exact'  PROVE exact'[e] = (e \notin denyList')
      <4>1. CASE e = entry
        BY <4>1, <3>1, <2>2 DEF Put
      <4>2. CASE e # entry
        BY <4>2, <3>1, <2>2 DEF Put
      <4> QED BY <4>1, <4>2
    <3> QED BY <2>2, <3>2, <3>3
  <2> QED BY <2>1, <2>2
<1>3. CASE ListEnds
  BY <1>3 DEF ListEnds
<1>4. CASE UNCHANGED vars
  BY <1>4 DEF vars
<1> QED BY <1>1, <1>2, <1>3, <1>4 DEF Next

\* In every state what has been read so far is in the filter.
THEOREM Loading == Spec => []LoadInv
<1>1. Init => FInv
  BY DEF Init, FInv, LoadInv
<1>2. FInv => LoadInv
  BY DEF FInv
<1> QED BY <1>1, <1>2, LoadStep, PTL DEF Spec

\* An entry more leaves the exact entries a function on the names of the lists.
LEMMA PutType ==
  ASSUME NEW S, NEW entry, NEW b \in BOOLEAN, exact \in [S -> BOOLEAN],
         exact' = Put(exact, entry, b)
  PROVE  exact' \in [S \cup {entry} -> BOOLEAN]
<1>1. exact' = [k \in S \cup {entry} |-> IF k = entry THEN b ELSE exact[k]]
  BY DEF Put
<1> QED BY <1>1

LEMMA TypeStep == TypeOK /\ [Next]_vars => TypeOK'
<1> SUFFICES ASSUME TypeOK, [Next]_vars  PROVE TypeOK'
  OBVIOUS
<1> DEFINE Plain == {e \in allowList \cup denyList : ~HasStar(e)}
<1>1. ASSUME NEW entry \in Entries, NEW b \in BOOLEAN,
             (allowList \cup denyList)' = allowList \cup denyList \cup {entry},
             IF HasStar(entry) THEN UNCHANGED exact ELSE exact' = Put(exact, entry, b)
      PROVE  exact' \in [Plain' -> BOOLEAN]
  <2>1. exact \in [Plain -> BOOLEAN]
    BY DEF TypeOK
  <2>2. CASE HasStar(entry)
    <3>1. Plain' = Plain
      BY <1>1, <2>2
    <3> QED BY <1>1, <2>1, <2>2, <3>1
  <2>3. CASE ~HasStar(entry)
    <3>1. Plain' = Plain \cup {entry}
      BY <1>1, <2>3
    <3>2. exact' = Put(exact, entry, b)
      BY <1>1, <2>3
    <3> HIDE DEF Plain
    <3> QED BY <2>1, <3>1, <3>2, PutType
  <2> QED BY <2>2, <2>3
<1>2. ASSUME NEW entry \in Entries, LoadAllow(entry)
      PROVE  TypeOK'
  <2>1. /\ (allowList \cup denyList)' = allowList \cup denyList \cup {entry}
        /\ IF HasStar(entry) THEN UNCHANGED exact ELSE exact' = Put(exact, entry, TRUE)
    BY <1>2 DEF LoadAllow
  <2>2. exact' \in [Plain' -> BOOLEAN]
    BY <1>1, <2>1
  <2> QED BY <1>2, <2>2 DEF LoadAllow, TypeOK
<1>3. ASSUME NEW entry \in Entries, LoadDeny(entry)
      PROVE  TypeOK'
  <2>1. /\ (allowList \cup denyList)' = allowList \cup denyList \cup {entry}
        /\ IF HasStar(entry) THEN UNCHANGED exact ELSE exact' = Put(exact, entry, FALSE)
    BY <1>3 DEF LoadDeny
  <2>2. exact' \in [Plain' -> BOOLEAN]
    BY <1>1, <2>1
  <2> QED BY <1>3, <2>2 DEF LoadDeny, TypeOK
<1>4. CASE ListEnds
  <2>1. Plain' = Plain
    BY <1>4 DEF ListEnds, lists
  <2> QED BY <1>4, <2>1 DEF ListEnds, lists, TypeOK
<1>5. CASE UNCHANGED vars
  BY <1>5 DEF vars, lists, TypeOK
<1> QED BY <1>2, <1>3, <1>4, <1>5 DEF Next

\* The exact entries are one map over the names of both lists, whatever the
\* lists repeat.
THEOREM TypeCorrect == Spec => []TypeOK
<1>1. Init => TypeOK
  BY DEF Init, TypeOK
<1> QED BY <1>1, TypeStep, PTL DEF Spec

\* A loaded filter decides every name as its profile says: a denial of the
\* name wins over every other entry, a permission of the name over patterns.
THEOREM Decides == Spec => []DecidesAsDocumented
<1>1. NamesAssumption => \A name \in Names : ~HasStar(name)
  BY DEF NamesAssumption, HasStar
<1>2. LoadInv => DecidesAsDocumented
  <2> SUFFICES ASSUME LoadInv, NEW name \in Names
               PROVE  Allow(name) <=> Documented(name)
    BY DEF DecidesAsDocumented
  <2>1. CASE name \in DOMAIN exact
    <3>1. name \in allowList \cup denyList
      BY <2>1 DEF LoadInv
    <3>2. Allow(name) = exact[name]
      BY <2>1 DEF Allow
    <3>3. exact[name] = (name \notin denyList)
      BY <2>1 DEF LoadInv
    <3>4. Documented(name) <=> name \notin denyList
      BY <3>1 DEF Documented
    <3> QED BY <3>2, <3>3, <3>4
  <2>2. CASE name \notin DOMAIN exact
    <3>1. name \notin allowList \cup denyList
      BY <1>1, <2>2, NamesAssumption DEF LoadInv
    <3>2. Allow(name) <=> /\ ~Matches(denyPatterns, name)
                          /\ Matches(allowPatterns, name) \/ defaultAllow
      BY <2>2 DEF Allow
    <3>3. Matches(denyPatterns, name)
            <=> ({e \in denyList : HasStar(e) /\ MatchWildcard(e, name)} # {})
      BY DEF Matches, LoadInv
    <3>4. Matches(allowPatterns, name)
            <=> ({e \in allowList : HasStar(e) /\ MatchWildcard(e, name)} # {})
      BY DEF Matches, LoadInv
    <3>5. Documented(name) <=>
              /\ {e \in denyList : HasStar(e) /\ MatchWildcard(e, name)} = {}
              /\ \/ {e \in allowList : HasStar(e) /\ MatchWildcard(e, name)} # {}
                 \/ defaultAllow
      BY <3>1 DEF Documented
    <3> QED BY <3>2, <3>3, <3>4, <3>5
  <2> QED BY <2>1, <2>2
<1> QED BY Loading, <1>2, PTL
-----------------------------------------------------------------------------
(* Sequences *)

\* One sequence begins, or ends, with the other.
LEMMA PrefixFacts ==
  ASSUME NEW S, NEW s \in Seq(S), NEW t \in Seq(S)
  PROVE  IsPrefix(s, t) <=> /\ Len(s) <= Len(t)
                            /\ \A i \in 1..Len(s) : s[i] = t[i]
<1> DEFINE m == Len(s)
<1>1. CASE m <= Len(t)
  <2>1. SubSeq(s, 1, m) = [i \in 1..m |-> s[i]]
    OBVIOUS
  <2>2. SubSeq(t, 1, m) = [i \in 1..m |-> t[i]]
    BY <1>1
  <2>3. [i \in 1..m |-> s[i]] = [i \in 1..m |-> t[i]] <=> \A i \in 1..m : s[i] = t[i]
    <3>1. ASSUME [i \in 1..m |-> s[i]] = [i \in 1..m |-> t[i]], NEW i \in 1..m
          PROVE  s[i] = t[i]
      <4>1. [j \in 1..m |-> s[j]][i] = s[i] /\ [j \in 1..m |-> t[j]][i] = t[i]
        OBVIOUS
      <4> QED BY <3>1, <4>1
    <3> HIDE DEF m
    <3> QED BY <3>1
  <2> QED BY <1>1, <2>1, <2>2, <2>3 DEF IsPrefix
<1>2. CASE ~(m <= Len(t))
  BY <1>2 DEF IsPrefix
<1> QED BY <1>1, <1>2

LEMMA SuffixFacts ==
  ASSUME NEW S, NEW s \in Seq(S), NEW t \in Seq(S)
  PROVE  IsSuffix(s, t) <=> /\ Len(s) <= Len(t)
                            /\ \A i \in 1..Len(s) : s[i] = t[Len(t) - Len(s) + i]
<1>1. /\ Reverse(s) \in Seq(S) /\ Len(Reverse(s)) = Len(s)
      /\ \A i \in 1..Len(s) : Reverse(s)[i] = s[Len(s) - i + 1]
  BY DEF Reverse
<1>2. /\ Reverse(t) \in Seq(S) /\ Len(Reverse(t)) = Len(t)
      /\ \A i \in 1..Len(t) : Reverse(t)[i] = t[Len(t) - i + 1]
  BY DEF Reverse
<1>3. IsSuffix(s, t) <=> /\ Len(s) <= Len(t)
                         /\ \A i \in 1..Len(s) : Reverse(s)[i] = Reverse(t)[i]
  BY <1>1, <1>2, PrefixFacts DEF IsSuffix
<1> SUFFICES ASSUME Len(s) <= Len(t)
             PROVE  (\A i \in 1..Len(s) : Reverse(s)[i] = Reverse(t)[i])
                      <=> (\A i \in 1..Len(s) : s[i] = t[Len(t) - Len(s) + i])
  BY <1>3
<1>4. ASSUME \A i \in 1..Len(s) : Reverse(s)[i] = Reverse(t)[i], NEW i \in 1..Len(s)
      PROVE  s[i] = t[Len(t) - Len(s) + i]
  <2> DEFINE j == Len(s) - i + 1
  <2>1. j \in 1..Len(s) /\ j \in 1..Len(t) /\ Len(s) - j + 1 = i
        /\ Len(t) - j + 1 = Len(t) - Len(s) + i
    OBVIOUS
  <2> HIDE DEF j
  <2> QED BY <1>1, <1>2, <1>4, <2>1
<1>5. ASSUME \A i \in 1..Len(s) : s[i] = t[Len(t) - Len(s) + i], NEW i \in 1..Len(s)
      PROVE  Reverse(s)[i] = Reverse(t)[i]
  <2> DEFINE j == Len(s) - i + 1
  <2>1. j \in 1..Len(s) /\ i \in 1..Len(t) /\ Len(t) - Len(s) + j = Len(t) - i + 1
    OBVIOUS
  <2>2. s[j] = t[Len(t) - i + 1]
    <3> HIDE DEF j
    <3> QED BY <1>5, <2>1
  <2> QED BY <1>1, <1>2, <2>1, <2>2
<1> QED BY <1>4, <1>5
-----------------------------------------------------------------------------
(* Patterns *)

Patterns == Seq(Chars \cup {"*"})

\* A pattern in front of its first star, and behind it; and what of a name
\* comes after as many characters.
Star(p) == CHOOSE i \in DOMAIN p : p[i] = "*" /\ \A j \in 1..(i - 1) : p[j] # "*"
Before(p) == SubSeq(p, 1, Star(p) - 1)
After(p) == SubSeq(p, Star(p) + 1, Len(p))
Rest(p, name) == SubSeq(name, Star(p), Len(name))

LEMMA StarFacts ==
  ASSUME NEW p \in Patterns, HasStar(p)
  PROVE  /\ Star(p) \in 1..Len(p) /\ p[Star(p)] = "*"
         /\ \A j \in 1..(Star(p) - 1) : p[j] # "*"
<1> DEFINE Stars == {i \in DOMAIN p : p[i] = "*"}
<1>1. Stars \in SUBSET Nat /\ Stars # {}
  BY DEF HasStar, Patterns
<1>2. PICK i \in Stars : \A j \in Stars : i <= j
  <2> HIDE DEF Stars
  <2> QED BY <1>1, LeastNatural
<1>3. i \in DOMAIN p /\ p[i] = "*" /\ \A j \in 1..(i - 1) : p[j] # "*"
  BY <1>2 DEF Patterns
<1>4. DOMAIN p = 1..Len(p)
  BY DEF Patterns
<1> QED BY <1>3, <1>4 DEF Star

\* What is before and behind the first star is there in the pattern, and shorter.
LEMMA SplitFacts ==
  ASSUME NEW p \in Patterns, HasStar(p)
  PROVE  /\ Before(p) \in Seq(Chars) /\ Len(Before(p)) = Star(p) - 1
         /\ \A j \in 1..(Star(p) - 1) : Before(p)[j] = p[j]
         /\ After(p) \in Patterns /\ Len(After(p)) = Len(p) - Star(p)
         /\ \A j \in 1..(Len(p) - Star(p)) : After(p)[j] = p[Star(p) + j]
<1> DEFINE k == Star(p)
<1>1. k \in 1..Len(p) /\ \A j \in 1..(k - 1) : p[j] # "*"
  BY StarFacts
<1>2. p \in [1..Len(p) -> Chars \cup {"*"}] /\ Len(p) \in Nat
  BY DEF Patterns
<1> HIDE DEF k
<1>3. Before(p) = [j \in 1..(k - 1) |-> p[j]]
  BY <1>1, <1>2 DEF Before, k
<1>4. \A j \in 1..(k - 1) : p[j] \in Chars
  BY <1>1, <1>2
<1>5. After(p) = [j \in 1..(Len(p) - k) |-> p[k + j]]
  BY <1>1, <1>2 DEF After, k
<1>6. \A j \in 1..(Len(p) - k) : p[k + j] \in Chars \cup {"*"}
  BY <1>1, <1>2
<1>7. Before(p) \in Seq(Chars) /\ Len(Before(p)) = k - 1
  BY <1>1, <1>3, <1>4
<1>8. After(p) \in Patterns /\ Len(After(p)) = Len(p) - k
  BY <1>1, <1>2, <1>5, <1>6 DEF Patterns
<1> QED BY <1>3, <1>5, <1>7, <1>8 DEF k

\* What matchWildcard makes of a pattern, if m is what it makes of what is
\* behind the first star.
Matched(p, m) ==
    [name \in Seq(Chars) |->
        IF ~HasStar(p)
        THEN p = name
        ELSE /\ IsPrefix(Before(p), name)
             /\ \/ After(p) = << >>
                \/ m[Rest(p, name)]
                \/ IsSuffix(After(p), Rest(p, name)) /\ ~HasStar(After(p))]

\* Every call of matchWildcard ends: the pattern gets shorter.
LEMMA MatchDef ==
  ASSUME NEW p \in Patterns
  PROVE  matchWildcard[p] = Matched(p, matchWildcard[After(p)])
<1> DEFINE V == [Seq(Chars) -> BOOLEAN]
           D == [m \in [Patterns -> V] |->
                    [q \in Patterns |-> Matched(q, m[After(q)])]]
           rank == [q \in Patterns |-> Len(q)]
<1>1. ASSUME NEW q, NEW m  PROVE Matched(q, m) \in V
  BY DEF Matched
<1>2. D \in [[Patterns -> V] -> [Patterns -> V]]
  <2> HIDE DEF V
  <2> QED BY <1>1
<1>3. ASSUME NEW g \in [Patterns -> V], NEW h \in [Patterns -> V], NEW q \in Patterns,
             \A t \in Patterns : rank[t] < rank[q] => g[t] = h[t]
      PROVE  D[g][q] = D[h][q]
  <2>1. CASE HasStar(q)
    <3>1. After(q) \in Patterns /\ Len(After(q)) < Len(q)
      BY <2>1, StarFacts, SplitFacts DEF Patterns
    <3>2. g[After(q)] = h[After(q)]
      BY <1>3, <3>1
    <3> HIDE DEF V
    <3> QED BY <3>2
  <2>2. CASE ~HasStar(q)
    <3>1. Matched(q, g[After(q)]) = Matched(q, h[After(q)])
      BY <2>2 DEF Matched
    <3> HIDE DEF V
    <3> QED BY <3>1
  <2> QED BY <2>1, <2>2
<1>4. Descends(D, Patterns, V, rank)
  <2> HIDE DEF D, V, rank
  <2> QED BY <1>3 DEF Descends
<1>5. rank \in [Patterns -> Nat]
  BY DEF Patterns
<1>6. PICK f : Solves(f, D, Patterns, V)
  <2>1. V # {}
    <3>1. [n \in Seq(Chars) |-> TRUE] \in V
      OBVIOUS
    <3> QED BY <3>1
  <2> HIDE DEF D, V, rank
  <2> QED BY <1>2, <1>4, <1>5, <2>1, RecursiveFunction, Zenon
<1>7. f = [q \in Patterns |-> Matched(q, f[After(q)])]
  <2> HIDE DEF V
  <2> QED BY <1>6 DEF Solves
<1>8. matchWildcard = CHOOSE m : m = [q \in Patterns |-> Matched(q, m[After(q)])]
  BY Zenon DEF matchWildcard, Matched, Star, Before, After, Rest, Patterns
<1>9. matchWildcard = [q \in Patterns |-> Matched(q, matchWildcard[After(q)])]
  BY <1>7, <1>8
<1> QED BY <1>9

LEMMA MatchCases ==
  ASSUME NEW p \in Patterns, NEW name \in Seq(Chars)
  PROVE  /\ ~HasStar(p) => (matchWildcard[p][name] <=> p = name)
         /\ HasStar(p) =>
              (matchWildcard[p][name] <=>
                 /\ IsPrefix(Before(p), name)
                 /\ \/ After(p) = << >>
                    \/ matchWildcard[After(p)][Rest(p, name)]
                    \/ IsSuffix(After(p), Rest(p, name)) /\ ~HasStar(After(p)))
<1> DEFINE m == matchWildcard[After(p)]
<1>1. matchWildcard[p] = Matched(p, m)
  BY MatchDef
<1> HIDE DEF m
<1>2. Matched(p, m)[name] = IF ~HasStar(p)
                            THEN p = name
                            ELSE /\ IsPrefix(Before(p), name)
                                 /\ \/ After(p) = << >>
                                    \/ m[Rest(p, name)]
                                    \/ /\ IsSuffix(After(p), Rest(p, name))
                                       /\ ~HasStar(After(p))
  BY Zenon DEF Matched
<1> QED BY <1>1, <1>2, Zenon DEF m

\* The name has the characters of the pattern before its first star, and what
\* is left of it is a name.
LEMMA RestFacts ==
  ASSUME NEW p \in Patterns, HasStar(p), NEW name \in Seq(Chars),
         IsPrefix(Before(p), name)
  PROVE  /\ Len(name) >= Star(p) - 1
         /\ \A j \in 1..(Star(p) - 1) : name[j] = p[j]
         /\ Rest(p, name) \in Seq(Chars)
         /\ Len(Rest(p, name)) = Len(name) - Star(p) + 1
         /\ \A j \in 1..(Len(name) - Star(p) + 1) :
               Rest(p, name)[j] = name[Star(p) - 1 + j]
<1> DEFINE k == Star(p)
<1>1. k \in 1..Len(p) /\ Len(p) \in Nat
  BY StarFacts DEF Patterns
<1>2. Len(name) >= k - 1 /\ \A j \in 1..(k - 1) : name[j] = p[j]
  BY SplitFacts, PrefixFacts
<1> HIDE DEF k
<1>3. Rest(p, name) = [j \in 1..(Len(name) - k + 1) |-> name[k - 1 + j]]
  BY <1>1, <1>2 DEF Rest, k
<1>4. \A j \in 1..(Len(name) - k + 1) : name[k - 1 + j] \in Chars
  BY <1>1, <1>2
<1>5. Rest(p, name) \in Seq(Chars) /\ Len(Rest(p, name)) = Len(name) - k + 1
  BY <1>1, <1>2, <1>3, <1>4
<1> QED BY <1>2, <1>3, <1>5 DEF k

\* Positions that witness a match.
Witness(pos, p, name) ==
    /\ pos \in [1..(Len(p) + 1) -> 0..Len(name)]
    /\ pos[1] = 0 /\ pos[Len(p) + 1] = Len(name)
    /\ \A i \in 1..Len(p) :
          /\ p[i] = "*" => pos[i + 1] >= pos[i]
          /\ p[i] # "*" => pos[i + 1] = pos[i] + 1 /\ name[pos[i + 1]] = p[i]

LEMMA WitnessFacts ==
  ASSUME NEW p \in Patterns, NEW name \in Seq(Chars)
  PROVE  Glob(p, name) <=> \E pos : Witness(pos, p, name)
<1>1. DOMAIN p = 1..Len(p)
  BY DEF Patterns
<1> QED BY <1>1, Zenon DEF Glob, Witness

\* The same for a pattern of which the name is matched after so many characters,
\* and up to as many as n more.
Covers(q, p, n, name, from) ==
    /\ q \in [1..(Len(p) + 1) -> 0..n]
    /\ q[1] = 0 /\ q[Len(p) + 1] = n
    /\ \A i \in 1..Len(p) :
          /\ p[i] = "*" => q[i + 1] >= q[i]
          /\ p[i] # "*" => q[i + 1] = q[i] + 1 /\ name[from + q[i + 1]] = p[i]

\* Up to its first star a pattern takes the name character by character; what
\* is behind the star may go on after any number of them.
LEMMA Extend ==
  ASSUME NEW p \in Patterns, HasStar(p), NEW name \in Seq(Chars),
         IsPrefix(Before(p), name),
         NEW d \in Nat, NEW n \in Nat, Star(p) - 1 + d + n = Len(name),
         NEW q, Covers(q, After(p), n, name, Star(p) - 1 + d)
  PROVE  Glob(p, name)
<1> DEFINE k == Star(p)
           pos == [i \in 1..(Len(p) + 1) |->
                      IF i <= k THEN i - 1 ELSE k - 1 + d + q[i - k]]
<1>0. /\ q \in [1..(Len(After(p)) + 1) -> 0..n]
      /\ q[1] = 0 /\ q[Len(After(p)) + 1] = n
      /\ \A i \in 1..Len(After(p)) :
           /\ After(p)[i] = "*" => q[i + 1] >= q[i]
           /\ After(p)[i] # "*" => /\ q[i + 1] = q[i] + 1
                                   /\ name[k - 1 + d + q[i + 1]] = After(p)[i]
  BY DEF Covers
<1>1. /\ k \in 1..Len(p) /\ Len(p) \in Nat /\ p[k] = "*"
      /\ \A j \in 1..(k - 1) : p[j] # "*"
  BY StarFacts DEF Patterns
<1>2. Len(After(p)) = Len(p) - k /\ \A j \in 1..(Len(p) - k) : After(p)[j] = p[k + j]
  BY SplitFacts
<1>3. Len(name) >= k - 1 /\ Len(name) \in Nat /\ \A j \in 1..(k - 1) : name[j] = p[j]
  BY RestFacts
<1> HIDE DEF k
<1>4. k - 1 + d + n = Len(name)
  BY DEF k
<1>5. \A i \in 1..(Len(p) - k + 1) : q[i] \in 0..n
  BY <1>0, <1>2
<1>6. pos \in [1..(Len(p) + 1) -> 0..Len(name)]
  <2>1. ASSUME NEW i \in 1..(Len(p) + 1)
        PROVE  (IF i <= k THEN i - 1 ELSE k - 1 + d + q[i - k]) \in 0..Len(name)
    <3>1. CASE i <= k
      BY <1>1, <1>3, <3>1
    <3>2. CASE ~(i <= k)
      <4>1. i - k \in 1..(Len(p) - k + 1)
        BY <1>1, <3>2
      <4>2. q[i - k] \in 0..n
        BY <1>5, <4>1
      <4>3. ASSUME NEW x \in 0..n  PROVE k - 1 + d + x \in 0..Len(name)
        <5>1. k \in Nat /\ k >= 1
          BY <1>1
        <5> QED BY <1>3, <1>4, <5>1
      <4> QED BY <3>2, <4>2, <4>3
    <3> QED BY <3>1, <3>2
  <2> QED BY <2>1
<1>7. pos[1] = 0 /\ pos[Len(p) + 1] = Len(name)
  <2>1. pos[1] = 0
    BY <1>1
  <2>2. q[Len(p) - k + 1] = n
    BY <1>0, <1>2
  <2>3. pos[Len(p) + 1] = k - 1 + d + q[Len(p) + 1 - k]
    BY <1>1
  <2>4. Len(p) + 1 - k = Len(p) - k + 1
    BY <1>1
  <2> QED BY <1>4, <2>1, <2>2, <2>3, <2>4
<1>8. ASSUME NEW i \in 1..Len(p)
      PROVE  /\ p[i] = "*" => pos[i + 1] >= pos[i]
             /\ p[i] # "*" => pos[i + 1] = pos[i] + 1 /\ name[pos[i + 1]] = p[i]
  <2>1. CASE i < k
    <3>1. pos[i] = i - 1 /\ pos[i + 1] = i /\ p[i] # "*" /\ name[i] = p[i]
      BY <1>1, <1>3, <2>1
    <3> HIDE DEF pos
    <3> QED BY <3>1
  <2>2. CASE i = k
    <3>1. pos[i] = k - 1 /\ pos[i + 1] = k - 1 + d + q[1]
      BY <1>1, <2>2
    <3>2. pos[i + 1] >= pos[i] /\ p[i] = "*"
      BY <1>0, <1>1, <2>2, <3>1
    <3> QED BY <3>2
  <2>3. CASE i > k
    <3> DEFINE j == i - k
    <3>1. /\ j \in 1..(Len(p) - k) /\ j \in 1..(Len(p) - k + 1)
          /\ j + 1 \in 1..(Len(p) - k + 1) /\ i = k + j
      BY <1>1, <2>3
    <3>2. pos[i] = k - 1 + d + q[j] /\ pos[i + 1] = k - 1 + d + q[i + 1 - k]
      BY <1>1, <2>3
    <3>3. i + 1 - k = j + 1
      BY <1>1, <2>3
    <3> HIDE DEF pos, j
    <3>4. q[j] \in 0..n /\ q[j + 1] \in 0..n
      BY <1>5, <3>1
    <3>5. p[i] = After(p)[j]
      BY <1>2, <3>1
    <3>6. p[i] = "*" => q[j + 1] >= q[j]
      BY <1>0, <1>2, <3>1, <3>5
    <3>7. p[i] # "*" => q[j + 1] = q[j] + 1 /\ name[k - 1 + d + q[j + 1]] = p[i]
      BY <1>0, <1>2, <3>1, <3>5
    <3>8. pos[i] = k - 1 + d + q[j] /\ pos[i + 1] = k - 1 + d + q[j + 1]
      BY <3>2, <3>3
    <3>9. k \in Int /\ q[j] \in Int /\ q[j + 1] \in Int
      BY <1>1, <3>4
    <3>10. CASE p[i] = "*"
      <4>1. q[j + 1] >= q[j]
        BY <3>6, <3>10
      <4> QED BY <3>8, <3>9, <3>10, <4>1
    <3>11. CASE p[i] # "*"
      <4>1. q[j + 1] = q[j] + 1 /\ name[k - 1 + d + q[j + 1]] = p[i]
        BY <3>7, <3>11
      <4> QED BY <3>8, <3>9, <3>11, <4>1
    <3> QED BY <3>10, <3>11
  <2> QED BY <1>1, <2>1, <2>2, <2>3
<1> HIDE DEF pos
<1>9. Witness(pos, p, name)
  BY <1>6, <1>7, <1>8 DEF Witness
<1> QED BY <1>9, WitnessFacts

\* A name is matched by itself.
LEMMA GlobItself ==
  ASSUME NEW p \in Seq(Chars)
  PROVE  Glob(p, p)
<1> DEFINE pos == [i \in 1..(Len(p) + 1) |-> i - 1]
<1>1. p \in Patterns /\ Len(p) \in Nat
  BY DEF Patterns
<1>2. \A i \in 1..Len(p) : p[i] # "*"
  BY NamesAssumption DEF NamesAssumption
<1>3. pos \in [1..(Len(p) + 1) -> 0..Len(p)] /\ pos[1] = 0 /\ pos[Len(p) + 1] = Len(p)
  BY <1>1
<1>4. \A i \in 1..Len(p) : pos[i + 1] = pos[i] + 1 /\ p[pos[i + 1]] = p[i]
  BY <1>1
<1> HIDE DEF pos
<1>5. Witness(pos, p, p)
  BY <1>2, <1>3, <1>4 DEF Witness
<1> QED BY <1>1, <1>5, WitnessFacts

\* Whatever matchWildcard matches is covered by the pattern, however many stars
\* it has.
THEOREM MatchSound ==
  ASSUME NEW p \in Patterns, NEW name \in Seq(Chars), MatchWildcard(p, name)
  PROVE  Glob(p, name)
<1> DEFINE Sound(r) == \A m \in Seq(Chars) : matchWildcard[r][m] => Glob(r, m)
           T == {l \in Nat : \A r \in Patterns : Len(r) = l => Sound(r)}
<1>1. ASSUME NEW l \in Nat, \A j \in 0..(l - 1) : j \in T,
             NEW r \in Patterns, Len(r) = l,
             NEW m \in Seq(Chars), matchWildcard[r][m]
      PROVE  Glob(r, m)
  <2>2. CASE ~HasStar(r)
    <3>1. r = m
      BY <1>1, <2>2, MatchCases
    <3> QED BY <3>1, GlobItself
  <2>3. CASE HasStar(r)
    <3> DEFINE a == After(r)
               b == Rest(r, m)
               k == Star(r)
    <3>1. /\ IsPrefix(Before(r), m)
          /\ a = << >> \/ matchWildcard[a][b] \/ (IsSuffix(a, b) /\ ~HasStar(a))
      BY <1>1, <2>3, MatchCases
    <3>2. /\ a \in Patterns /\ Len(a) \in 0..(l - 1) /\ Len(a) \in Nat
          /\ k \in Nat /\ k >= 1 /\ Len(m) \in Nat
      BY <1>1, <2>3, StarFacts, SplitFacts DEF Patterns
    <3>3. /\ b \in Seq(Chars) /\ Len(b) = Len(m) - k + 1 /\ Len(b) \in Nat
          /\ \A j \in 1..Len(b) : b[j] = m[k - 1 + j]
      BY <2>3, <3>1, RestFacts
    <3> HIDE DEF a, b, k
    <3>4. CASE a = << >>
      <4> DEFINE q == [i \in 1..1 |-> 0]
      <4>1. Len(a) = 0
        BY <3>4
      <4>2. /\ q \in [1..(Len(a) + 1) -> 0..0] /\ q[1] = 0 /\ q[Len(a) + 1] = 0
        BY <4>1
      <4>3. k - 1 + Len(b) + 0 = Len(m)
        BY <3>2, <3>3
      <4> HIDE DEF q
      <4>4. Covers(q, a, 0, m, k - 1 + Len(b))
        BY <4>1, <4>2 DEF Covers
      <4> QED BY <2>3, <3>1, <3>3, <4>3, <4>4, Extend, Zenon DEF a, k
    <3>5. CASE matchWildcard[a][b]
      <4>1. Glob(a, b)
        BY <1>1, <3>2, <3>3, <3>5
      <4>2. PICK q : Witness(q, a, b)
        BY <3>2, <3>3, <4>1, WitnessFacts
      <4>3. k - 1 + 0 + Len(b) = Len(m)
        BY <3>2, <3>3
      <4>4. ASSUME NEW i \in 1..Len(a), a[i] # "*"
            PROVE  q[i + 1] = q[i] + 1 /\ m[k - 1 + 0 + q[i + 1]] = a[i]
        <5>1. q[i] \in 0..Len(b) /\ q[i + 1] \in 0..Len(b)
          <6>1. q \in [1..(Len(a) + 1) -> 0..Len(b)]
            BY <4>2 DEF Witness
          <6>2. i \in 1..(Len(a) + 1) /\ i + 1 \in 1..(Len(a) + 1)
            BY <3>2
          <6> QED BY <6>1, <6>2
        <5>2. q[i + 1] = q[i] + 1 /\ b[q[i + 1]] = a[i]
          BY <4>2, <4>4 DEF Witness
        <5>3. q[i + 1] \in 1..Len(b)
          BY <3>3, <5>1, <5>2
        <5>4. k - 1 + 0 + q[i + 1] = k - 1 + q[i + 1]
          BY <3>2, <5>3
        <5> QED BY <3>3, <5>2, <5>3, <5>4
      <4>5. /\ q \in [1..(Len(a) + 1) -> 0..Len(b)]
            /\ q[1] = 0 /\ q[Len(a) + 1] = Len(b)
            /\ \A i \in 1..Len(a) : a[i] = "*" => q[i + 1] >= q[i]
        BY <4>2 DEF Witness
      <4>6. Covers(q, a, Len(b), m, k - 1 + 0)
        BY <4>4, <4>5 DEF Covers
      <4> QED BY <2>3, <3>1, <3>3, <4>3, <4>6, Extend DEF a, k
    <3>6. CASE IsSuffix(a, b) /\ ~HasStar(a)
      <4> DEFINE d == Len(b) - Len(a)
                 q == [i \in 1..(Len(a) + 1) |-> i - 1]
      <4>1. /\ \A i \in 1..Len(a) : a[i] # "*"
            /\ a \in Seq(Chars \cup {"*"}) /\ b \in Seq(Chars \cup {"*"})
        BY <3>2, <3>3, <3>6 DEF HasStar, Patterns
      <4>2. Len(a) <= Len(b) /\ \A i \in 1..Len(a) : a[i] = b[d + i]
        BY <3>6, <4>1, SuffixFacts
      <4>3. d \in Nat /\ k - 1 + d + Len(a) = Len(m)
        BY <3>2, <3>3, <4>2
      <4>4. /\ q \in [1..(Len(a) + 1) -> 0..Len(a)]
            /\ q[1] = 0 /\ q[Len(a) + 1] = Len(a)
        BY <3>2
      <4>5. ASSUME NEW i \in 1..Len(a)
            PROVE  q[i + 1] = q[i] + 1 /\ m[k - 1 + d + q[i + 1]] = a[i]
        <5>1. q[i] = i - 1 /\ q[i + 1] = i
          BY <3>2
        <5>2. d + i \in 1..Len(b) /\ k - 1 + (d + i) = k - 1 + d + i
          BY <3>2, <3>3, <4>2
        <5> HIDE DEF d, q
        <5> QED BY <3>3, <4>2, <5>1, <5>2
      <4> HIDE DEF d, q
      <4>6. Covers(q, a, Len(a), m, k - 1 + d)
        BY <4>1, <4>4, <4>5 DEF Covers
      <4> QED BY <2>3, <3>1, <3>2, <4>3, <4>6, Extend DEF a, k
    <3> QED BY <3>1, <3>4, <3>5, <3>6
  <2> QED BY <2>2, <2>3
<1>2. T = Nat
  <2>1. ASSUME NEW l \in Nat, \A j \in 0..(l - 1) : j \in T  PROVE l \in T
    BY <1>1, <2>1
  <2> HIDE DEF T
  <2>2. T \in SUBSET Nat
    BY DEF T
  <2> QED BY <2>1, <2>2, StrongInduction
<1>3. Len(p) \in T /\ p \in Patterns
  BY <1>2 DEF Patterns
<1> QED BY <1>3 DEF MatchWildcard

\* Between two stars, or before the first, a pattern takes characters one by one.
LEMMA Straight ==
  ASSUME NEW p \in Patterns, NEW name \in Seq(Chars), NEW pos, Witness(pos, p, name),
         NEW a \in 1..(Len(p) + 1), NEW b \in a..(Len(p) + 1),
         \A i \in a..(b - 1) : p[i] # "*"
  PROVE  \A i \in a..b : pos[i] = pos[a] + (i - a)
<1>1. Len(p) \in Nat /\ Len(name) \in Nat
  BY DEF Patterns
<1>2. /\ pos \in [1..(Len(p) + 1) -> 0..Len(name)]
      /\ \A i \in 1..Len(p) : p[i] # "*" => pos[i + 1] = pos[i] + 1
  BY DEF Witness
<1> DEFINE T == {n \in Nat : n <= b - a => pos[a + n] = pos[a] + n}
<1>3. pos[a] \in Nat
  BY <1>1, <1>2
<1>4. 0 \in T
  BY <1>3
<1>5. ASSUME NEW n \in T  PROVE n + 1 \in T
  <2> SUFFICES ASSUME n + 1 <= b - a  PROVE pos[a + (n + 1)] = pos[a] + (n + 1)
    OBVIOUS
  <2>1. n \in Nat /\ pos[a + n] = pos[a] + n
    OBVIOUS
  <2>2. a + n \in a..(b - 1) /\ a + n \in 1..Len(p)
    BY <1>1, <2>1
  <2>3. pos[(a + n) + 1] = pos[a + n] + 1
    BY <1>2, <2>2
  <2>4. (a + n) + 1 = a + (n + 1)
    BY <2>1
  <2> QED BY <1>3, <2>1, <2>3, <2>4
<1>6. T = Nat
  <2> HIDE DEF T
  <2>1. T \in SUBSET Nat
    BY DEF T
  <2> QED BY <1>4, <1>5, <2>1, NaturalInduction
<1>7. ASSUME NEW i \in a..b  PROVE pos[i] = pos[a] + (i - a)
  <2>1. i - a \in T /\ i - a <= b - a /\ a + (i - a) = i
    BY <1>6
  <2> QED BY <2>1
<1> QED BY <1>7

\* No star but one.
LEMMA SingleStar ==
  ASSUME NEW p \in Patterns, HasStar(p), OneStar(p)
  PROVE  \A i \in 1..Len(p) : p[i] = "*" => i = Star(p)
<1> DEFINE Stars == {i \in DOMAIN p : p[i] = "*"}
<1>1. DOMAIN p = 1..Len(p) /\ Len(p) \in Nat
  BY DEF Patterns
<1>2. Stars \in SUBSET (1..Len(p)) /\ IsFiniteSet(1..Len(p))
  BY <1>1, FS_Interval
<1>3. IsFiniteSet(Stars) /\ Cardinality(Stars) <= 1
  BY <1>2, FS_Subset DEF OneStar
<1>4. Star(p) \in Stars
  BY <1>1, StarFacts
<1> SUFFICES ASSUME NEW i \in Stars, i # Star(p)  PROVE FALSE
  BY <1>1
<1> HIDE DEF Stars
<1>5. /\ IsFiniteSet({Star(p), i}) /\ Cardinality({Star(p), i}) = 2
  <2>1. IsFiniteSet({Star(p)}) /\ Cardinality({Star(p)}) = 1
    BY FS_Singleton
  <2>2. {Star(p), i} = {Star(p)} \cup {i} /\ i \notin {Star(p)}
    OBVIOUS
  <2> QED BY <2>1, <2>2, FS_AddElement
<1>6. Cardinality({Star(p), i}) <= Cardinality(Stars) /\ Cardinality(Stars) \in Nat
  BY <1>3, <1>4, FS_Subset, FS_CardinalityType
<1> QED BY <1>3, <1>5, <1>6

\* A pattern with at most one star matches just the names it covers.
THEOREM MatchExact ==
  ASSUME NEW p \in Patterns, NEW name \in Seq(Chars), OneStar(p)
  PROVE  MatchWildcard(p, name) <=> Glob(p, name)
<1> SUFFICES ASSUME Glob(p, name)  PROVE matchWildcard[p][name]
  BY MatchSound DEF MatchWildcard
<1>1. PICK pos : Witness(pos, p, name)
  BY WitnessFacts
<1>2. /\ Len(p) \in Nat /\ Len(name) \in Nat /\ DOMAIN p = 1..Len(p)
      /\ p \in [1..Len(p) -> Chars \cup {"*"}] /\ name \in [1..Len(name) -> Chars]
      /\ name \in Patterns
  BY DEF Patterns
<1>3. /\ pos \in [1..(Len(p) + 1) -> 0..Len(name)]
      /\ pos[1] = 0 /\ pos[Len(p) + 1] = Len(name)
      /\ \A i \in 1..Len(p) :
            /\ p[i] = "*" => pos[i + 1] >= pos[i]
            /\ p[i] # "*" => name[pos[i + 1]] = p[i]
  BY <1>1 DEF Witness
<1>4. CASE ~HasStar(p)
  <2>1. \A i \in 1..Len(p) : p[i] # "*"
    BY <1>2, <1>4 DEF HasStar
  <2>2. \A i \in 1..(Len(p) + 1) : pos[i] = pos[1] + (i - 1)
    <3>1. /\ 1 \in 1..(Len(p) + 1) /\ Len(p) + 1 \in 1..(Len(p) + 1)
          /\ \A i \in 1..((Len(p) + 1) - 1) : p[i] # "*"
      BY <1>2, <2>1
    <3> QED BY <1>1, <3>1, Straight
  <2>3. Len(name) = Len(p)
    <3>1. Len(p) + 1 \in 1..(Len(p) + 1)
      BY <1>2
    <3>2. Len(name) = 0 + ((Len(p) + 1) - 1)
      BY <1>3, <2>2, <3>1
    <3> QED BY <1>2, <3>2
  <2>4. ASSUME NEW i \in 1..Len(p)  PROVE p[i] = name[i]
    <3>1. pos[i + 1] = i
      BY <1>2, <1>3, <2>2
    <3> QED BY <1>3, <2>1, <3>1
  <2>5. p = name
    BY <1>2, <2>3, <2>4
  <2> QED BY <1>4, <2>5, MatchCases
<1>5. CASE HasStar(p)
  <2> DEFINE k == Star(p)
             a == After(p)
             b == Rest(p, name)
  <2>1. k \in 1..Len(p) /\ p[k] = "*" /\ \A i \in 1..Len(p) : i # k => p[i] # "*"
    BY <1>5, StarFacts, SingleStar
  <2>2. /\ a \in Patterns /\ Len(a) = Len(p) - k
        /\ \A j \in 1..(Len(p) - k) : a[j] = p[k + j]
    BY <1>5, SplitFacts
  <2>3. ~HasStar(a)
    <3>1. \A j \in 1..(Len(p) - k) : k + j \in 1..Len(p) /\ k + j # k
      BY <1>2, <2>1
    <3>2. \A j \in 1..Len(a) : a[j] # "*"
      BY <2>1, <2>2, <3>1
    <3>3. DOMAIN a = 1..Len(a)
      BY <2>2 DEF Patterns
    <3> QED BY <3>2, <3>3 DEF HasStar
  <2> HIDE DEF k
  <2>4. \A i \in 1..k : pos[i] = i - 1
    <3>1. \A i \in 1..k : pos[i] = pos[1] + (i - 1)
      <4>1. 1 \in 1..(Len(p) + 1) /\ k \in 1..(Len(p) + 1)
        BY <1>2, <2>1
      <4>2. \A i \in 1..(k - 1) : p[i] # "*"
        BY <1>2, <2>1
      <4> QED BY <1>1, <4>1, <4>2, Straight
    <3> QED BY <1>3, <2>1, <3>1
  <2>5. \A i \in (k + 1)..(Len(p) + 1) : pos[i] = Len(name) - (Len(p) + 1 - i)
    <3>1. \A i \in (k + 1)..(Len(p) + 1) : pos[i] = pos[k + 1] + (i - (k + 1))
      <4>1. k + 1 \in 1..(Len(p) + 1) /\ Len(p) + 1 \in (k + 1)..(Len(p) + 1)
        BY <1>2, <2>1
      <4>2. \A i \in (k + 1)..((Len(p) + 1) - 1) : p[i] # "*"
        BY <1>2, <2>1
      <4> QED BY <1>1, <4>1, <4>2, Straight
    <3>2. pos[k + 1] \in Int /\ Len(name) = pos[k + 1] + (Len(p) + 1 - (k + 1))
      BY <1>2, <1>3, <2>1, <3>1
    <3> DEFINE c == pos[k + 1]
    <3>3. \A i \in (k + 1)..(Len(p) + 1) : c + (i - (k + 1)) = Len(name) - (Len(p) + 1 - i)
      <4>1. k \in Int /\ c \in Int
        BY <2>1, <3>2
      <4> HIDE DEF c
      <4>2. Len(name) = c + (Len(p) + 1 - (k + 1))
        BY <3>2 DEF c
      <4> QED BY <1>2, <4>1, <4>2
    <3> QED BY <3>1, <3>3
  <2>6. k - 1 + (Len(p) - k) <= Len(name)
    <3>1. pos[k] = k - 1 /\ pos[k + 1] = Len(name) - (Len(p) + 1 - (k + 1))
      BY <1>2, <2>1, <2>4, <2>5
    <3>2. pos[k + 1] >= pos[k]
      BY <1>3, <2>1
    <3> QED BY <1>2, <2>1, <3>1, <3>2
  <2>7. ASSUME NEW i \in 1..(k - 1)  PROVE p[i] = name[i]
    <3>1. i \in 1..Len(p) /\ i + 1 \in 1..k /\ i # k
      BY <1>2, <2>1
    <3>2. pos[i + 1] = i
      BY <2>4, <3>1
    <3> QED BY <1>3, <2>1, <3>1, <3>2
  <2>8. IsPrefix(Before(p), name)
    <3>1. /\ Before(p) \in Seq(Chars) /\ Len(Before(p)) = k - 1
          /\ \A j \in 1..(k - 1) : Before(p)[j] = p[j]
      BY <1>5, SplitFacts DEF k
    <3>2. k - 1 <= Len(name)
      BY <1>2, <2>1, <2>6
    <3> QED BY <2>7, <3>1, <3>2, PrefixFacts
  <2>9. /\ b \in Seq(Chars) /\ Len(b) = Len(name) - k + 1
        /\ \A j \in 1..(Len(name) - k + 1) : b[j] = name[k - 1 + j]
    BY <1>5, <2>8, RestFacts DEF k
  <2> HIDE DEF a, b
  <2>10. ASSUME NEW j \in 1..Len(a)  PROVE a[j] = b[Len(b) - Len(a) + j]
    <3>1. k + j \in 1..Len(p) /\ k + j # k /\ a[j] = p[k + j]
      BY <1>2, <2>1, <2>2
    <3>2. pos[(k + j) + 1] = Len(name) - (Len(p) + 1 - ((k + j) + 1))
      <4>1. (k + j) + 1 \in (k + 1)..(Len(p) + 1)
        BY <1>2, <2>1, <2>2
      <4> QED BY <2>5, <4>1
    <3>3. name[pos[(k + j) + 1]] = p[k + j]
      BY <1>3, <2>1, <3>1
    <3> DEFINE i == Len(b) - Len(a) + j
    <3>4. i \in 1..(Len(name) - k + 1) /\ k - 1 + i = pos[(k + j) + 1]
      BY <1>2, <2>1, <2>2, <2>6, <2>9, <3>2
    <3> HIDE DEF i
    <3>5. b[i] = name[pos[(k + j) + 1]]
      BY <2>9, <3>4
    <3> QED BY <3>1, <3>3, <3>5 DEF i
  <2>11. IsSuffix(a, b)
    <3>1. a \in Seq(Chars \cup {"*"}) /\ b \in Seq(Chars \cup {"*"})
      BY <2>2, <2>9 DEF Patterns
    <3>2. Len(a) <= Len(b)
      BY <1>2, <2>1, <2>2, <2>6, <2>9
    <3> QED BY <2>10, <3>1, <3>2, SuffixFacts
  <2> QED BY <1>5, <2>3, <2>8, <2>11, MatchCases DEF a, b
<1> QED BY <1>4, <1>5
-----------------------------------------------------------------------------
(* What a profile allows and denies *)

LEMMA NamesAreNames ==
  ASSUME NEW name \in Names
  PROVE  name \in Seq(Chars) /\ name \in Patterns /\ ~HasStar(name)
<1>1. name \in Seq(Chars)
  BY NamesAssumption DEF NamesAssumption
<1> QED BY <1>1, NamesAssumption DEF NamesAssumption, Patterns, HasStar

LEMMA EntriesArePatterns ==
  ASSUME TypeOK, NEW e \in allowList \cup denyList
  PROVE  e \in Patterns
BY EntriesAssumption DEF EntriesAssumption, TypeOK, Patterns

\* Under a profile that denies by default, whatever is allowed is covered by an
\* entry of the allow list, for any entries with any number of stars.
THEOREM AllowedIsCovered == Spec => []AllowBounded
<1>1. TypeOK /\ LoadInv => AllowBounded
  <2> SUFFICES ASSUME TypeOK, LoadInv, ~defaultAllow, NEW name \in Names, Allow(name)
               PROVE  \E e \in allowList : Glob(e, name)
    BY DEF AllowBounded
  <2>1. name \in Seq(Chars)
    BY NamesAreNames
  <2>2. CASE name \in DOMAIN exact
    <3>1. exact[name] /\ exact[name] = (name \notin denyList)
      BY <2>2 DEF Allow, LoadInv
    <3>2. name \in allowList
      BY <2>2, <3>1 DEF LoadInv
    <3> QED BY <2>1, <3>2, GlobItself
  <2>3. CASE name \notin DOMAIN exact
    <3>1. PICK e \in allowPatterns : MatchWildcard(e, name)
      BY <2>3 DEF Allow, Matches
    <3>2. e \in allowList /\ e \in Patterns
      BY EntriesArePatterns DEF LoadInv
    <3> QED BY <2>1, <3>1, <3>2, MatchSound
  <2> QED BY <2>2, <2>3
<1> QED BY <1>1, TypeCorrect, Loading, PTL

\* An entry of the deny list with at most one star denies whatever it covers,
\* for any profile, but for a name that is allowed by name.
THEOREM DeniedIsDenied == Spec => []DenyHolds
<1>1. TypeOK /\ LoadInv => DenyHolds
  <2> SUFFICES ASSUME TypeOK, LoadInv, NEW e \in denyList, NEW name \in Names,
                      OneStar(e), Glob(e, name), name \notin allowList
               PROVE  ~Allow(name)
    BY DEF DenyHolds
  <2>1. name \in Seq(Chars) /\ ~HasStar(name) /\ e \in Patterns
    BY NamesAreNames, EntriesArePatterns
  <2>2. MatchWildcard(e, name)
    BY <2>1, MatchExact
  <2>3. CASE name \in DOMAIN exact
    <3>1. name \in denyList
      BY <2>3 DEF LoadInv
    <3>2. exact[name] = (name \notin denyList)
      BY <2>3 DEF LoadInv
    <3> QED BY <2>3, <3>1, <3>2 DEF Allow
  <2>4. CASE name \notin DOMAIN exact
    <3>1. HasStar(e)
      <4>1. ~HasStar(e) => e = name
        BY <2>1, <2>2, MatchCases DEF MatchWildcard
      <4> QED BY <2>1, <2>4, <4>1 DEF LoadInv
    <3>2. e \in denyPatterns
      BY <3>1 DEF LoadInv
    <3>3. Matches(denyPatterns, name)
      BY <2>2, <3>2 DEF Matches
    <3> QED BY <2>4, <3>3 DEF Allow
  <2> QED BY <2>3, <2>4
<1> QED BY <1>1, TypeCorrect, Loading, PTL
=============================================================================
