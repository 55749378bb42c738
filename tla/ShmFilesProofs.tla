--------------------------- MODULE ShmFilesProofs ---------------------------
(***************************************************************************)
(* Proofs about ShmFiles for any number of requests, arguments and calls.  *)
(***************************************************************************)
EXTENDS ShmFiles, TLAPS

\* What appending an element does to a sequence and to the set of its elements.
LEMMA AppendFacts ==
  ASSUME NEW S, NEW q \in Seq(S), NEW x \in S
  PROVE  /\ Append(q, x) \in Seq(S)
         /\ Len(Append(q, x)) = Len(q) + 1
         /\ \A i \in 1..Len(q) : Append(q, x)[i] = q[i]
         /\ Append(q, x)[Len(q) + 1] = x
         /\ ToSet(Append(q, x)) = ToSet(q) \cup {x}
         /\ Head(Append(q, x)) = IF q = << >> THEN x ELSE Head(q)
<1>1. /\ Append(q, x) \in Seq(S)
      /\ Len(Append(q, x)) = Len(q) + 1
      /\ \A i \in 1..Len(q) : Append(q, x)[i] = q[i]
      /\ Append(q, x)[Len(q) + 1] = x
  OBVIOUS
<1>2. DOMAIN Append(q, x) = DOMAIN q \cup {Len(q) + 1}
  OBVIOUS
<1>3. ToSet(Append(q, x)) = ToSet(q) \cup {x}
  BY <1>1, <1>2 DEF ToSet
<1>4. CASE q = << >>
  BY <1>1, <1>3, <1>4
<1>5. CASE q # << >>
  <2>1. Len(q) > 0 /\ Head(q) = q[1] /\ Head(Append(q, x)) = Append(q, x)[1]
    BY <1>5
  <2> QED BY <1>1, <1>3, <1>5, <2>1
<1> QED BY <1>4, <1>5

\* A step replaces the call of one request.
LEMMA BecomesFacts ==
  ASSUME TypeOK, NEW r \in Requests, NEW c \in Calls, Becomes(r, c)
  PROVE  /\ call' \in [Requests -> Calls]
         /\ call'[r] = c
         /\ \A s \in Requests \ {r} : call'[s] = call[s]
BY DEF TypeOK, Becomes


\* NoSilentLoss and ResultInv for one call.
Loss(c) ==
    c.result # "none" =>
        \A i \in DOMAIN c.args :
            \/ c.args[i] \in {"plain", "array"} /\ c.given[i] = "same"
            \/ c.args[i] = "loose" /\ c.given[i] = "nearest"
            \/ c.args[i] = "object" /\ c.given[i] = "text"
            \/ /\ c.args[i] = "hollow" /\ c.given[i] = "another"
               /\ \E j \in 1..(i - 1) : /\ c.args[j] = "array"
                                        /\ c.resolved[j] = c.resolved[i]

Result(c) ==
    /\ c.step \notin {"resolving", "executing"}
    /\ c.step = "encoding" => c.result # "plain"
    /\ c.got # "value"

LEMMA PerCall ==
  /\ NoSilentLoss <=> \A r \in Requests : Loss(call[r])
  /\ ResultInv <=> \A r \in Requests : call[r].id \in resultFiles => Result(call[r])
BY DEF NoSilentLoss, Loss, ResultInv, Result

\* What a step that replaces the call of r by c owes to the invariant: c is a
\* good call, its files are its own, and those of the others are left alone.
LEMMA Preserved ==
  ASSUME IInv, NEW r \in Requests, NEW c \in Calls, Becomes(r, c),
         CallInv(c), Loss(c),
         shmCounter' \in Nat, shmCounter' >= shmCounter,
         calls' \in 0..MaxCalls, calls' >= calls,
         c.id \in 0..calls', c.id = call[r].id \/ c.id > calls,
         ToSet(c.blocks) \subseteq 1..shmCounter',
         argFiles' = (argFiles \ ToSet(call[r].blocks)) \cup ToSet(c.blocks),
         \A s \in Requests \ {r} : ToSet(c.blocks) \cap ToSet(call[s].blocks) = {},
         resultFiles' \subseteq resultFiles \cup {c.id},
         c.id \in resultFiles' => c.id > 0 /\ Result(c),
         hollowed' \subseteq Requests
  PROVE  IInv'
<1>1. /\ call' \in [Requests -> Calls]
      /\ call'[r] = c
      /\ \A s \in Requests \ {r} : call'[s] = call[s]
  BY BecomesFacts DEF IInv
<1>. USE BoundsAssumption
<1>2. TypeOK'
  <2>1. \A s \in Requests : /\ call'[s].id \in 0..calls'
                            /\ ToSet(call'[s].blocks) \subseteq 1..shmCounter'
    <3> SUFFICES ASSUME NEW s \in Requests
                 PROVE  /\ call'[s].id \in 0..calls'
                        /\ ToSet(call'[s].blocks) \subseteq 1..shmCounter'
      OBVIOUS
    <3>1. CASE s = r
      BY <3>1, <1>1
    <3>2. CASE s # r
      <4>1. /\ call[s].id \in 0..calls /\ calls \in Nat
            /\ ToSet(call[s].blocks) \subseteq 1..shmCounter /\ shmCounter \in Nat
        BY DEF IInv, TypeOK
      <4>2. 0..calls \subseteq 0..calls' /\ 1..shmCounter \subseteq 1..shmCounter'
        BY <4>1
      <4> QED BY <3>2, <1>1, <4>1, <4>2
    <3> QED BY <3>1, <3>2
  <2>2. argFiles' \subseteq 1..shmCounter'
    <3>1. argFiles \subseteq 1..shmCounter /\ shmCounter \in Nat
      BY DEF IInv, TypeOK
    <3>2. 1..shmCounter \subseteq 1..shmCounter'
      BY <3>1
    <3> QED BY <3>1, <3>2
  <2>3. resultFiles' \subseteq 1..calls'
    <3> SUFFICES ASSUME NEW n \in resultFiles'
                 PROVE  n \in 1..calls'
      OBVIOUS
    <3>1. CASE n = c.id
      BY <3>1
    <3>2. CASE n \in resultFiles
      <4>1. n \in 1..calls /\ calls \in Nat /\ calls' \in Nat
        BY <3>2 DEF IInv, TypeOK
      <4> QED BY <4>1
    <3> QED BY <3>1, <3>2
  <2> QED BY <1>1, <2>1, <2>2, <2>3 DEF TypeOK
<1>3. \A s \in Requests : CallInv(call'[s])
  BY <1>1 DEF IInv
<1>4. FileInv'
  <2>1. argFiles' = UNION {ToSet(call'[s].blocks) : s \in Requests}
    <3>1. argFiles = UNION {ToSet(call[s].blocks) : s \in Requests}
      BY DEF IInv, FileInv
    <3>2. \A s \in Requests \ {r} :
             ToSet(call[s].blocks) \cap ToSet(call[r].blocks) = {}
      BY DEF IInv, FileInv
    <3> QED BY <1>1, <3>1, <3>2
  <2>2. \A s \in Requests : \A t \in Requests \ {s} :
           ToSet(call'[s].blocks) \cap ToSet(call'[t].blocks) = {}
    BY <1>1 DEF IInv, FileInv
  <2>3. \A s \in Requests : \A t \in Requests \ {s} :
           call'[s].id = call'[t].id => call'[s].id = 0
    <3> SUFFICES ASSUME NEW s \in Requests, NEW t \in Requests \ {s},
                        call'[s].id = call'[t].id
                 PROVE  call'[s].id = 0
      OBVIOUS
    <3>1. \A q \in Requests \ {r} : call[q].id \in 0..calls
      BY DEF IInv, TypeOK
    <3>2. \A p \in Requests : \A q \in Requests \ {p} :
             call[p].id = call[q].id => call[p].id = 0
      BY DEF IInv, FileInv
    <3>3. c.id \in Nat /\ calls \in Nat
      BY DEF IInv, TypeOK
    <3>4. CASE s # r /\ t # r
      BY <1>1, <3>2, <3>4
    <3>5. CASE s = r
      BY <1>1, <3>1, <3>2, <3>3, <3>5
    <3>6. CASE t = r
      BY <1>1, <3>1, <3>2, <3>3, <3>6
    <3> QED BY <3>4, <3>5, <3>6
  <2> QED BY <2>1, <2>2, <2>3 DEF FileInv
<1>5. ResultInv'
  <2> SUFFICES ASSUME NEW s \in Requests, call'[s].id \in resultFiles'
               PROVE  Result(call'[s])
    BY DEF ResultInv, Result
  <2>1. CASE s = r
    BY <2>1, <1>1
  <2>2. CASE s # r
    <3>1. call'[s].id # c.id
      <4>1. call'[r].id = c.id
        BY <1>1
      <4>2. call'[s].id = call'[r].id => call'[s].id = 0
        BY <1>4, <2>2 DEF FileInv
      <4> QED BY <4>1, <4>2
    <3>2. call[s].id \in resultFiles
      BY <1>1, <2>2, <3>1
    <3> QED BY <1>1, <2>2, <3>2, PerCall DEF IInv
  <2> QED BY <2>1, <2>2
<1>6. NoSilentLoss'
  <2>1. \A s \in Requests : Loss(call'[s])
    BY <1>1, PerCall DEF IInv
  <2> QED BY <2>1 DEF NoSilentLoss, Loss
<1> QED BY <1>2, <1>3, <1>4, <1>5, <1>6 DEF IInv

\* The call of a request and the parts of the invariant that are about it.
LEMMA CallFacts ==
  ASSUME IInv, NEW r \in Requests
  PROVE  /\ call[r] \in Calls /\ CallInv(call[r]) /\ Loss(call[r])
         /\ call[r].id \in 0..calls
         /\ ToSet(call[r].blocks) \subseteq 1..shmCounter
         /\ \A s \in Requests \ {r} :
               ToSet(call[r].blocks) \cap ToSet(call[s].blocks) = {}
         /\ ToSet(call[r].blocks) \subseteq argFiles
         /\ call[r].id \in resultFiles => call[r].id > 0 /\ Result(call[r])
         /\ shmCounter \in Nat /\ calls \in Nat /\ calls \in 0..MaxCalls
         /\ hollowed \subseteq Requests
<1>1. /\ call[r].id \in resultFiles => Result(call[r])
      /\ Loss(call[r])
  BY PerCall DEF IInv
<1>2. resultFiles \subseteq 1..calls
  BY DEF IInv, TypeOK
<1>3. calls \in Nat
  BY BoundsAssumption DEF IInv, TypeOK
<1> QED BY <1>1, <1>2, <1>3 DEF IInv, TypeOK, FileInv

LEMMA EmptyGiven == << >> \in Seq(Forms)
  OBVIOUS

\* dispatch begins.
LEMMA BeginStep ==
  ASSUME IInv, NEW r \in Requests, Begin(r)
  PROVE  IInv'
<1>0. PICK n \in 0..MaxArgs : \E kinds \in [1..n -> ArgKinds] :
         Becomes(r, NewCall(calls + 1, kinds))
  BY DEF Begin
<1>1. PICK kinds \in [1..n -> ArgKinds] : Becomes(r, NewCall(calls + 1, kinds))
  BY <1>0
<1> DEFINE c == NewCall(calls + 1, kinds)
<1>2. calls' = calls + 1 /\ calls < MaxCalls /\ call[r].step = "idle"
      /\ UNCHANGED <<shmCounter, argFiles, resultFiles, hollowed>>
  BY DEF Begin
<1>3. kinds \in Seq(ArgKinds)
  BY BoundsAssumption
<1>4. calls + 1 \in Nat
  BY CallFacts
<1>5. /\ c \in Calls
      /\ c.step = "resolving" /\ c.id = calls + 1 /\ c.args = kinds
      /\ c.resolved = << >> /\ c.blocks = << >> /\ c.given = << >>
      /\ c.result = "none" /\ c.got = "none"
  BY <1>3, <1>4, EmptyGiven DEF NewCall, Calls, Steps
<1> HIDE DEF c
<1>6. CallInv(c)
  BY <1>3, <1>4, <1>5, CallFacts DEF CallInv
<1>7. Loss(c)
  BY <1>5 DEF Loss
<1>8. ToSet(c.blocks) = {} /\ ToSet(call[r].blocks) = {}
  BY <1>2, <1>5, CallFacts DEF ToSet, CallInv
<1>9. c.id \notin resultFiles
  BY <1>5, CallFacts DEF IInv, TypeOK
<1>10. calls' \in 0..MaxCalls /\ calls' >= calls /\ c.id \in 0..calls' /\ c.id > calls
  BY <1>2, <1>5, CallFacts, BoundsAssumption
<1> QED BY <1>1, <1>2, <1>5, <1>6, <1>7, <1>8, <1>9, <1>10, CallFacts, Preserved DEF c

\* A step after which the call has the blocks it had, and keeps what its result
\* may be: what is left to show for it is about the call alone.
LEMMA SameBlocks ==
  ASSUME IInv, NEW r \in Requests, NEW c \in Calls, Becomes(r, c),
         CallInv(c), Loss(c), c.id = call[r].id, c.blocks = call[r].blocks,
         UNCHANGED <<argFiles, calls>>, hollowed' \subseteq Requests,
         shmCounter' \in Nat, shmCounter' >= shmCounter,
         resultFiles' \subseteq resultFiles \cup {c.id},
         c.id \in resultFiles' => c.id > 0 /\ Result(c)
  PROVE  IInv'
<1>1. argFiles' = (argFiles \ ToSet(call[r].blocks)) \cup ToSet(c.blocks)
  BY CallFacts
<1>2. ToSet(c.blocks) \subseteq 1..shmCounter'
  BY CallFacts
<1>3. calls' \in 0..MaxCalls /\ calls' >= calls /\ c.id \in 0..calls'
  BY CallFacts
<1>4. \A s \in Requests \ {r} : ToSet(c.blocks) \cap ToSet(call[s].blocks) = {}
  BY CallFacts
<1> QED BY <1>1, <1>2, <1>3, <1>4, Preserved

\* dispatch returns an error.
LEMMA FailStep ==
  ASSUME IInv, NEW r \in Requests, Fail(r), call[r].step # "idle",
         UNCHANGED <<argFiles, hollowed, calls>>,
         shmCounter' \in Nat, shmCounter' >= shmCounter,
         resultFiles' \subseteq resultFiles \cup {call[r].id}
  PROVE  IInv'
<1> DEFINE c == [call[r] EXCEPT !.step = "freeing", !.got = "error"]
<1>1. Becomes(r, c)
  BY DEF Fail
<1>2. /\ c \in Calls
      /\ c.step = "freeing" /\ c.got = "error" /\ c.id = call[r].id
      /\ c.args = call[r].args /\ c.resolved = call[r].resolved
      /\ c.blocks = call[r].blocks /\ c.given = call[r].given
      /\ c.result = call[r].result
  BY CallFacts DEF Calls, Steps
<1> HIDE DEF c
<1>3. CallInv(c)
  BY <1>2, CallFacts DEF CallInv
<1>4. Loss(c)
  BY <1>2, CallFacts DEF Loss
<1>5. c.id > 0 /\ Result(c)
  BY <1>2, CallFacts DEF CallInv, Result
<1> QED BY <1>1, <1>2, <1>3, <1>4, <1>5, CallFacts, SameBlocks

\* What a step makes of a call when it resolves the next argument to f, an
\* argument that is not an array, or one that is taken for the first block.
LEMMA ResolvedFacts ==
  ASSUME NEW c \in Calls, CallInv(c), Loss(c), NEW f \in Nat, c.step = "resolving",
         Len(c.resolved) < Len(c.args),
         NEW k, k = c.args[Len(c.resolved) + 1], k # "array",
         k \in {"empty", "hollow"} => c.blocks # << >> /\ f = Head(c.blocks)
  PROVE  LET d == [c EXCEPT !.resolved = Append(@, f)]
         IN  d \in Calls /\ CallInv(d) /\ Loss(d)
<1> DEFINE d == [c EXCEPT !.resolved = Append(@, f)]
           n == Len(c.resolved)
<1>1. /\ c.resolved \in Seq(Nat) /\ c.args \in Seq(ArgKinds) /\ n \in Nat
      /\ Len(c.args) \in Nat
  BY DEF Calls
<1>2. /\ Append(c.resolved, f) \in Seq(Nat)
      /\ Len(Append(c.resolved, f)) = n + 1
      /\ \A i \in 1..n : Append(c.resolved, f)[i] = c.resolved[i]
      /\ Append(c.resolved, f)[n + 1] = f
  BY <1>1, AppendFacts
<1>3. /\ d \in Calls
      /\ d.step = "resolving" /\ d.got = c.got /\ d.id = c.id
      /\ d.args = c.args /\ d.blocks = c.blocks /\ d.given = c.given
      /\ d.result = c.result /\ d.resolved = Append(c.resolved, f)
  BY <1>2 DEF Calls
<1> HIDE DEF d
<1>4. Loss(d)
  BY <1>3 DEF Loss, CallInv
<1>5. /\ DOMAIN c.resolved = 1..n /\ DOMAIN d.resolved = 1..(n + 1)
  BY <1>1, <1>2, <1>3
<1>6. \A j \in 1..n : d.resolved[j] = c.resolved[j]
  BY <1>2, <1>3
<1>7. Len(d.resolved) <= Len(d.args)
  BY <1>1, <1>2, <1>3
<1>8. ASSUME NEW i \in DOMAIN d.resolved
      PROVE  /\ d.args[i] = "array" => d.resolved[i] \in ToSet(d.blocks)
             /\ d.args[i] \in {"empty", "hollow"} =>
                   \E j \in 1..(i - 1) : /\ d.args[j] = "array"
                                         /\ d.resolved[j] = d.resolved[i]
  <2>1. CASE i \in 1..n
    <3>1. \A j \in 1..(i - 1) : j \in 1..n
      BY <2>1, <1>1
    <3> QED BY <2>1, <3>1, <1>3, <1>5, <1>6 DEF CallInv
  <2>2. CASE i = n + 1
    <3>1. d.args[i] = k /\ d.resolved[i] = f
      BY <2>2, <1>2, <1>3
    <3>2. ASSUME k \in {"empty", "hollow"}
          PROVE  \E j \in 1..n : /\ c.args[j] = "array"
                                 /\ c.resolved[j] = f
      BY <3>2, <1>5 DEF CallInv
    <3>3. 1..(i - 1) = 1..n
      BY <2>2, <1>1
    <3> QED BY <3>1, <3>2, <3>3, <1>3, <1>6
  <2> QED BY <2>1, <2>2, <1>1, <1>5
<1>9. d.blocks # << >> =>
         \E j \in DOMAIN d.resolved : /\ d.args[j] = "array"
                                      /\ d.resolved[j] = Head(d.blocks)
  <2>1. \A j \in 1..n : j \in 1..(n + 1)
    BY <1>1
  <2> QED BY <2>1, <1>3, <1>5, <1>6 DEF CallInv
<1>10. ASSUME NEW i \in DOMAIN d.resolved, NEW j \in DOMAIN d.resolved \ {i},
              d.args[i] = "array", d.args[j] = "array"
       PROVE  d.resolved[i] # d.resolved[j]
  <2>1. d.args[n + 1] = k
    BY <1>3
  <2>2. i \in 1..n /\ j \in 1..n
    BY <1>1, <1>5, <1>10, <2>1
  <2> QED BY <1>3, <1>5, <1>6, <1>10, <2>2 DEF CallInv
<1>11. CallInv(d)
  BY <1>3, <1>7, <1>8, <1>9, <1>10 DEF CallInv
<1> QED BY <1>3, <1>4, <1>11 DEF d

LEMMA ResolveOtherStep ==
  ASSUME IInv, NEW r \in Requests, ResolveOther(r)
  PROVE  IInv'
<1> DEFINE c == [call[r] EXCEPT !.resolved = Append(@, NoFile)]
<1>1. /\ Becomes(r, c) /\ call[r].step = "resolving"
      /\ Len(call[r].resolved) < Len(call[r].args)
      /\ NextArg(r) \in Values \cup {"nested"}
      /\ UNCHANGED <<shmCounter, argFiles, resultFiles, hollowed, calls>>
  BY DEF ResolveOther, Resolving
<1>2. c \in Calls /\ CallInv(c) /\ Loss(c)
  BY <1>1, CallFacts, ResolvedFacts DEF NextArg, NoFile, Values
<1>3. c.id = call[r].id /\ c.blocks = call[r].blocks /\ c.step = "resolving"
  BY <1>1, CallFacts DEF Calls
<1>4. c.id \notin resultFiles
  BY <1>1, <1>3, CallFacts DEF Result
<1> HIDE DEF c
<1> QED BY <1>1, <1>2, <1>3, <1>4, CallFacts, SameBlocks

LEMMA ResolveEmptyStep ==
  ASSUME IInv, NEW r \in Requests, ResolveEmpty(r)
  PROVE  IInv'
<1>1. /\ call[r].step = "resolving"
      /\ Len(call[r].resolved) < Len(call[r].args)
      /\ NextArg(r) \in {"empty", "hollow"}
      /\ UNCHANGED <<shmCounter, argFiles, resultFiles, hollowed, calls>>
  BY DEF ResolveEmpty, Resolving
<1>2. CASE call[r].blocks = << >>
  <2>1. Fail(r)
    BY <1>2 DEF ResolveEmpty
  <2> QED BY <1>1, <2>1, CallFacts, FailStep
<1>3. CASE call[r].blocks # << >>
  <2> DEFINE f == Head(call[r].blocks)
             c == [call[r] EXCEPT !.resolved = Append(@, f)]
  <2>1. Becomes(r, c)
    BY <1>3 DEF ResolveEmpty
  <2>2. f \in Nat
    <3>1. call[r].blocks \in Seq(Nat)
      BY CallFacts DEF Calls
    <3> QED BY <1>3, <3>1
  <2>3. c \in Calls /\ CallInv(c) /\ Loss(c)
    <3> HIDE DEF f
    <3>1. /\ call[r] \in Calls /\ CallInv(call[r]) /\ Loss(call[r])
          /\ NextArg(r) = call[r].args[Len(call[r].resolved) + 1]
      BY CallFacts DEF NextArg
    <3>2. NextArg(r) # "array" /\ call[r].blocks # << >> /\ f = Head(call[r].blocks)
      BY <1>1, <1>3 DEF f
    <3> QED BY <1>1, <2>2, <3>1, <3>2, ResolvedFacts
  <2>4. c.id = call[r].id /\ c.blocks = call[r].blocks /\ c.step = "resolving"
    BY <1>1, CallFacts DEF Calls
  <2>5. c.id \notin resultFiles
    BY <1>1, <2>4, CallFacts DEF Result
  <2> HIDE DEF c
  <2> QED BY <1>1, <2>1, <2>3, <2>4, <2>5, CallFacts, SameBlocks
<1> QED BY <1>2, <1>3

LEMMA CallWorkerStep ==
  ASSUME IInv, NEW r \in Requests, CallWorker(r)
  PROVE  IInv'
<1> DEFINE c == [call[r] EXCEPT !.step = "executing"]
<1>1. /\ Becomes(r, c) /\ call[r].step = "resolving"
      /\ Len(call[r].resolved) = Len(call[r].args)
      /\ UNCHANGED <<shmCounter, argFiles, resultFiles, hollowed, calls>>
  BY DEF CallWorker
<1>2. /\ c \in Calls
      /\ c.step = "executing" /\ c.got = call[r].got /\ c.id = call[r].id
      /\ c.args = call[r].args /\ c.resolved = call[r].resolved
      /\ c.blocks = call[r].blocks /\ c.given = call[r].given
      /\ c.result = call[r].result
  BY CallFacts DEF Calls, Steps
<1> HIDE DEF c
<1>3. CallInv(c)
  BY <1>1, <1>2, CallFacts DEF CallInv
<1>4. Loss(c)
  BY <1>2, CallFacts DEF Loss
<1>5. c.id \notin resultFiles
  BY <1>1, <1>2, CallFacts DEF Result
<1> QED BY <1>1, <1>2, <1>3, <1>4, <1>5, CallFacts, SameBlocks

\* What the worker has of the arguments of a call that decodes: an array has a
\* file of its own, and a hollow one the file of an array before it.
LEMMA ReceivedFacts ==
  ASSUME NEW c \in Calls, CallInv(c), c.step = "executing", DecodesAll(c),
         NEW i \in DOMAIN c.args
  PROVE  /\ Received(c, i) \in Forms
         /\ \/ c.args[i] \in {"plain", "array"} /\ Received(c, i) = "same"
            \/ c.args[i] = "loose" /\ Received(c, i) = "nearest"
            \/ c.args[i] = "object" /\ Received(c, i) = "text"
            \/ /\ c.args[i] = "hollow" /\ Received(c, i) = "another"
               /\ \E j \in 1..(i - 1) : /\ c.args[j] = "array"
                                        /\ c.resolved[j] = c.resolved[i]
<1>1. /\ c.args \in Seq(ArgKinds) /\ c.resolved \in Seq(Nat)
      /\ Len(c.resolved) = Len(c.args) /\ DOMAIN c.resolved = DOMAIN c.args
      /\ DOMAIN c.args = 1..Len(c.args) /\ Len(c.args) \in Nat
  BY DEF Calls, CallInv
<1>2. CASE c.args[i] \in Values
  BY <1>2 DEF Received, Wire, Values, Forms
<1>3. CASE c.args[i] \notin Values
  <2>1. c.args[i] \in {"array", "hollow"} /\ c.resolved[i] \in argFiles
    BY <1>3 DEF DecodesAll, Decodes
  <2> DEFINE other == \E j \in DOMAIN c.args \ {i} :
                         c.args[j] = "array" /\ c.resolved[j] = c.resolved[i]
  <2>2. Received(c, i) = IF other THEN "another" ELSE "same"
    BY <1>3, <2>1 DEF Received
  <2>3. CASE c.args[i] = "array"
    <3>1. ~other
      BY <1>1, <2>3 DEF CallInv
    <3> QED BY <2>2, <2>3, <3>1 DEF Forms
  <2>4. CASE c.args[i] = "hollow"
    <3>1. PICK j \in 1..(i - 1) : c.args[j] = "array" /\ c.resolved[j] = c.resolved[i]
      BY <1>1, <2>4 DEF CallInv
    <3>2. j \in DOMAIN c.args \ {i}
      BY <1>1
    <3> QED BY <2>2, <2>4, <3>1, <3>2 DEF Forms
  <2> QED BY <2>1, <2>3, <2>4
<1> QED BY <1>2, <1>3

\* A call that decodes passes nothing that got lost, unless a hollow array has
\* been taken for another one.
LEMMA ExecuteStep ==
  ASSUME IInv, NEW r \in Requests, Execute(r)
  PROVE  IInv'
<1> DEFINE given == [i \in DOMAIN call[r].args |-> Received(call[r], i)]
<1>1. /\ call[r].step = "executing" /\ DecodesAll(call[r])
      /\ UNCHANGED <<shmCounter, argFiles, hollowed, calls>>
  BY DEF Execute
<1>2. PICK kind \in {"plain", "array", "nested"} :
         /\ Becomes(r, [call[r] EXCEPT !.step = "encoding", !.result = kind,
                                       !.given = given])
         /\ resultFiles' = IF kind = "plain" THEN resultFiles
                           ELSE resultFiles \cup {call[r].id}
  BY DEF Execute
<1>3. \A i \in DOMAIN call[r].args :
         /\ given[i] \in Forms
         /\ \/ call[r].args[i] \in {"plain", "array"} /\ given[i] = "same"
            \/ call[r].args[i] = "loose" /\ given[i] = "nearest"
            \/ call[r].args[i] = "object" /\ given[i] = "text"
            \/ /\ call[r].args[i] = "hollow" /\ given[i] = "another"
               /\ \E j \in 1..(i - 1) : /\ call[r].args[j] = "array"
                                        /\ call[r].resolved[j] = call[r].resolved[i]
  BY <1>1, CallFacts, ReceivedFacts
<1>4. given \in Seq(Forms)
  <2>1. call[r].args \in Seq(ArgKinds)
    BY CallFacts DEF Calls
  <2>2. Len(call[r].args) \in Nat /\ DOMAIN call[r].args = 1..Len(call[r].args)
    BY <2>1
  <2>3. given \in [1..Len(call[r].args) -> Forms]
    BY <1>3, <2>2
  <2> HIDE DEF given
  <2> QED BY <2>2, <2>3
<1> HIDE DEF given
<1> DEFINE c == [call[r] EXCEPT !.step = "encoding", !.result = kind, !.given = given]
<1>5. /\ c \in Calls
      /\ c.step = "encoding" /\ c.got = call[r].got /\ c.id = call[r].id
      /\ c.args = call[r].args /\ c.resolved = call[r].resolved
      /\ c.blocks = call[r].blocks /\ c.given = given /\ c.result = kind
  BY <1>4, CallFacts DEF Calls, Steps
<1>6. Becomes(r, c)
  BY <1>2
<1> HIDE DEF c
<1>7. call[r].got = "none" /\ call[r].id > 0 /\ call[r].result = "none"
  BY <1>1, CallFacts DEF CallInv
<1>8. CallInv(c)
  BY <1>1, <1>5, CallFacts DEF CallInv
<1>9. Loss(c)
  BY <1>3, <1>5 DEF Loss
<1>10. c.id \notin resultFiles
  BY <1>1, <1>5, CallFacts DEF Result
<1>11. c.id \in resultFiles' => c.id > 0 /\ Result(c)
  BY <1>2, <1>5, <1>7, <1>10 DEF Result
<1> QED BY <1>1, <1>2, <1>5, <1>6, <1>8, <1>9, <1>11, CallFacts, SameBlocks

LEMMA ExecuteFailsStep ==
  ASSUME IInv, NEW r \in Requests, ExecuteFails(r)
  PROVE  IInv'
<1>1. /\ call[r].step = "executing" /\ Fail(r)
      /\ resultFiles' \subseteq resultFiles \cup {call[r].id}
      /\ UNCHANGED <<shmCounter, argFiles, hollowed, calls>>
  BY DEF ExecuteFails
<1> QED BY <1>1, CallFacts, FailStep

\* The next argument is an array: a new file, which becomes the last block.
LEMMA ArrayFacts ==
  ASSUME NEW c \in Calls, CallInv(c), Loss(c), NEW f \in Nat, c.step = "resolving",
         Len(c.resolved) < Len(c.args), c.args[Len(c.resolved) + 1] = "array",
         f \notin ToSet(c.blocks)
  PROVE  LET d == [c EXCEPT !.resolved = Append(@, f), !.blocks = Append(@, f)]
         IN  /\ d \in Calls /\ CallInv(d) /\ Loss(d)
             /\ d.step = "resolving" /\ d.id = c.id
             /\ ToSet(d.blocks) = ToSet(c.blocks) \cup {f}
<1> DEFINE d == [c EXCEPT !.resolved = Append(@, f), !.blocks = Append(@, f)]
           n == Len(c.resolved)
<1>1. /\ c.resolved \in Seq(Nat) /\ c.blocks \in Seq(Nat)
      /\ c.args \in Seq(ArgKinds) /\ n \in Nat /\ Len(c.args) \in Nat
  BY DEF Calls
<1>2. /\ Append(c.resolved, f) \in Seq(Nat)
      /\ Len(Append(c.resolved, f)) = n + 1
      /\ \A i \in 1..n : Append(c.resolved, f)[i] = c.resolved[i]
      /\ Append(c.resolved, f)[n + 1] = f
  BY <1>1, AppendFacts
<1>3. /\ Append(c.blocks, f) \in Seq(Nat)
      /\ ToSet(Append(c.blocks, f)) = ToSet(c.blocks) \cup {f}
      /\ Head(Append(c.blocks, f)) = IF c.blocks = << >> THEN f ELSE Head(c.blocks)
  <2> DEFINE q == c.blocks
  <2>1. q \in Seq(Nat)
    BY <1>1
  <2> HIDE DEF q
  <2>2. /\ Append(q, f) \in Seq(Nat)
        /\ ToSet(Append(q, f)) = ToSet(q) \cup {f}
        /\ Head(Append(q, f)) = IF q = << >> THEN f ELSE Head(q)
    BY <2>1, AppendFacts
  <2> QED BY <2>2 DEF q
<1>4. /\ d \in Calls
      /\ d.step = "resolving" /\ d.got = c.got /\ d.id = c.id
      /\ d.args = c.args /\ d.given = c.given /\ d.result = c.result
      /\ d.resolved = Append(c.resolved, f) /\ d.blocks = Append(c.blocks, f)
  BY <1>2, <1>3 DEF Calls
<1> HIDE DEF d
<1>5. Loss(d)
  BY <1>4 DEF Loss, CallInv
<1>6. /\ DOMAIN c.resolved = 1..n /\ DOMAIN d.resolved = 1..(n + 1)
      /\ \A j \in 1..n : j \in 1..(n + 1)
  BY <1>1, <1>2, <1>4
<1>7. \A j \in 1..n : d.resolved[j] = c.resolved[j]
  BY <1>2, <1>4
<1>8. Len(d.resolved) <= Len(d.args)
  BY <1>1, <1>2, <1>4
<1>9. ASSUME NEW i \in DOMAIN d.resolved
      PROVE  /\ d.args[i] = "array" => d.resolved[i] \in ToSet(d.blocks)
             /\ d.args[i] \in {"empty", "hollow"} =>
                   \E j \in 1..(i - 1) : /\ d.args[j] = "array"
                                         /\ d.resolved[j] = d.resolved[i]
  <2>1. CASE i \in 1..n
    <3>1. \A j \in 1..(i - 1) : j \in 1..n
      BY <2>1, <1>1
    <3> QED BY <2>1, <3>1, <1>3, <1>4, <1>6, <1>7 DEF CallInv
  <2>2. CASE i = n + 1
    BY <2>2, <1>2, <1>3, <1>4
  <2> QED BY <2>1, <2>2, <1>1, <1>6
<1>10. \E j \in DOMAIN d.resolved : /\ d.args[j] = "array"
                                    /\ d.resolved[j] = Head(d.blocks)
  <2>1. CASE c.blocks = << >>
    <3>1. n + 1 \in 1..(n + 1)
      BY <1>1
    <3> QED BY <2>1, <3>1, <1>2, <1>3, <1>4, <1>6
  <2>2. CASE c.blocks # << >>
    BY <2>2, <1>3, <1>4, <1>6, <1>7 DEF CallInv
  <2> QED BY <2>1, <2>2
<1>11. ASSUME NEW i \in DOMAIN d.resolved, NEW j \in DOMAIN d.resolved \ {i},
              d.args[i] = "array", d.args[j] = "array"
       PROVE  d.resolved[i] # d.resolved[j]
  <2>1. \A k \in 1..n : c.args[k] = "array" => d.resolved[k] \in ToSet(c.blocks)
    BY <1>6, <1>7 DEF CallInv
  <2>2. d.resolved[n + 1] = f
    BY <1>2, <1>4
  <2>3. CASE i \in 1..n /\ j \in 1..n
    BY <1>4, <1>6, <1>7, <1>11, <2>3 DEF CallInv
  <2>4. CASE i \in 1..n /\ j = n + 1
    BY <1>4, <1>11, <2>1, <2>2, <2>4
  <2>5. CASE i = n + 1 /\ j \in 1..n
    BY <1>4, <1>11, <2>1, <2>2, <2>5
  <2> QED BY <1>1, <1>6, <2>3, <2>4, <2>5
<1>12. CallInv(d)
  BY <1>4, <1>8, <1>9, <1>10, <1>11 DEF CallInv
<1> QED BY <1>3, <1>4, <1>5, <1>12 DEF d

LEMMA ResolveArrayStep ==
  ASSUME IInv, NEW r \in Requests, ResolveArray(r)
  PROVE  IInv'
<1> DEFINE f == shmCounter + 1
           c == [call[r] EXCEPT !.resolved = Append(@, f), !.blocks = Append(@, f)]
<1>1. /\ call[r].step = "resolving"
      /\ Len(call[r].resolved) < Len(call[r].args)
      /\ NextArg(r) = "array" /\ shmCounter' = f
      /\ UNCHANGED <<resultFiles, hollowed, calls>>
  BY DEF ResolveArray, Resolving
<1>2. f \in Nat /\ f >= shmCounter
  BY CallFacts
<1>3. CASE argFiles' = argFiles \cup {f} /\ Becomes(r, c)
  <2>0. c \in Calls /\ CallInv(c) /\ Loss(c) /\ c.step = "resolving" /\ c.id = call[r].id
        /\ ToSet(c.blocks) = ToSet(call[r].blocks) \cup {f}
    <3>1. f \notin ToSet(call[r].blocks)
      BY CallFacts
    <3> HIDE DEF f
    <3> QED BY <1>1, <1>2, <3>1, CallFacts, ArrayFacts DEF NextArg
  <2> HIDE DEF c
  <2>1. \A s \in Requests : f \notin ToSet(call[s].blocks)
    BY CallFacts
  <2>2. \A s \in Requests \ {r} : ToSet(c.blocks) \cap ToSet(call[s].blocks) = {}
    BY <2>0, <2>1, CallFacts
  <2>3. ToSet(c.blocks) \subseteq 1..shmCounter'
    <3>1. ToSet(call[r].blocks) \subseteq 1..shmCounter /\ shmCounter \in Nat
      BY CallFacts
    <3>2. 1..shmCounter \subseteq 1..f /\ f \in 1..f
      BY <3>1
    <3> QED BY <2>0, <3>1, <3>2, <1>1
  <2>4. argFiles' = (argFiles \ ToSet(call[r].blocks)) \cup ToSet(c.blocks)
    <3>1. ToSet(call[r].blocks) \subseteq argFiles
      BY CallFacts
    <3> HIDE DEF f
    <3> QED BY <1>3, <2>0, <3>1
  <2>5. c.id \notin resultFiles
    BY <1>1, <2>0, CallFacts DEF Result
  <2>6. calls' \in 0..MaxCalls /\ calls' >= calls /\ c.id \in 0..calls'
    BY <1>1, <2>0, CallFacts
  <2>7. Becomes(r, c)
    BY <1>3
  <2> HIDE DEF f
  <2> QED BY <1>1, <1>2, <2>0, <2>2, <2>3, <2>4, <2>5, <2>6, <2>7, CallFacts, Preserved
<1>4. CASE Fail(r) /\ UNCHANGED argFiles
  BY <1>1, <1>2, <1>4, CallFacts, FailStep
<1> QED BY <1>1, <1>3, <1>4 DEF ResolveArray

LEMMA EncodeStep ==
  ASSUME IInv, NEW r \in Requests, Encode(r)
  PROVE  IInv'
<1> DEFINE g == IF call[r].result = "nested" THEN "hollow" ELSE "value"
           c == [call[r] EXCEPT !.step = "freeing", !.got = g]
<1>1. /\ call[r].step = "encoding" /\ Becomes(r, c)
      /\ resultFiles' = IF call[r].result = "array"
                        THEN resultFiles \ {call[r].id} ELSE resultFiles
      /\ hollowed' \subseteq hollowed \cup {r}
      /\ UNCHANGED <<shmCounter, argFiles, calls>>
  BY DEF Encode
<1>2. g \in {"hollow", "value"} /\ (g = "value" => call[r].result # "nested")
  OBVIOUS
<1> HIDE DEF g
<1>3. /\ c \in Calls
      /\ c.step = "freeing" /\ c.got = g /\ c.id = call[r].id
      /\ c.args = call[r].args /\ c.resolved = call[r].resolved
      /\ c.blocks = call[r].blocks /\ c.given = call[r].given
      /\ c.result = call[r].result
  BY <1>2, CallFacts DEF Calls, Steps
<1> HIDE DEF c
<1>4. CallInv(c)
  BY <1>1, <1>3, CallFacts DEF CallInv
<1>5. Loss(c)
  BY <1>3, CallFacts DEF Loss
<1>6. call[r].result \in {"plain", "array", "nested"}
  BY <1>1, CallFacts DEF CallInv, Calls
<1>7. c.id \in resultFiles' => c.id > 0 /\ Result(c)
  <2> SUFFICES ASSUME c.id \in resultFiles'
               PROVE  c.id > 0 /\ Result(c)
    OBVIOUS
  <2>1. c.id \in resultFiles /\ call[r].result # "array"
    BY <1>1, <1>3
  <2>2. call[r].result # "plain"
    BY <1>1, <1>3, <2>1, CallFacts DEF Result
  <2> QED BY <1>2, <1>3, <1>6, <2>1, <2>2, CallFacts DEF Result
<1> QED BY <1>1, <1>3, <1>4, <1>5, <1>7, CallFacts, SameBlocks

LEMMA EncodeFailsStep ==
  ASSUME IInv, NEW r \in Requests, EncodeFails(r)
  PROVE  IInv'
BY CallFacts, FailStep DEF EncodeFails

\* The call of a request after dispatch has returned.
LEMMA ReturnedFacts ==
  ASSUME NEW c, c.id \in Nat, c.got \in {"none", "value", "hollow", "error"}
  PROVE  LET d == Returned(c)
         IN  /\ d \in Calls /\ CallInv(d) /\ Loss(d)
             /\ d.step = "idle" /\ d.got = c.got /\ d.id = c.id
             /\ d.result = "none" /\ d.blocks = << >> /\ ToSet(d.blocks) = {}
<1> DEFINE d == Returned(c)
<1>1. << >> \in Seq(Nat) /\ << >> \in Seq(ArgKinds) /\ << >> \in Seq(Forms)
  OBVIOUS
<1>2. /\ d \in Calls
      /\ d.step = "idle" /\ d.got = c.got /\ d.id = c.id
      /\ d.args = << >> /\ d.resolved = << >> /\ d.blocks = << >>
      /\ d.result = "none"
  BY <1>1 DEF Returned, NewCall, Calls, Steps
<1> HIDE DEF d
<1>3. CallInv(d) /\ Loss(d) /\ ToSet(d.blocks) = {}
  BY <1>2 DEF CallInv, Loss, ToSet
<1> QED BY <1>2, <1>3 DEF d

LEMMA FreeAllStep ==
  ASSUME IInv, NEW r \in Requests, FreeAll(r)
  PROVE  IInv'
<1> DEFINE c == Returned(call[r])
<1>1. /\ call[r].step = "freeing" /\ Becomes(r, c)
      /\ argFiles' = argFiles \ ToSet(call[r].blocks)
      /\ UNCHANGED <<shmCounter, resultFiles, hollowed, calls>>
  BY DEF FreeAll
<1>2. call[r].id \in Nat /\ call[r].got \in {"none", "value", "hollow", "error"}
  BY CallFacts DEF Calls
<1>3. /\ c \in Calls /\ CallInv(c) /\ Loss(c)
      /\ c.step = "idle" /\ c.got = call[r].got /\ c.id = call[r].id
      /\ c.result = "none" /\ c.blocks = << >> /\ ToSet(c.blocks) = {}
  BY <1>2, ReturnedFacts
<1> HIDE DEF c
<1>4. c.id \in resultFiles' => c.id > 0 /\ Result(c)
  BY <1>1, <1>3, CallFacts DEF Result
<1>5. argFiles' = (argFiles \ ToSet(call[r].blocks)) \cup ToSet(c.blocks)
  BY <1>1, <1>3
<1>6. \A s \in Requests \ {r} : ToSet(c.blocks) \cap ToSet(call[s].blocks) = {}
  BY <1>3
<1> QED BY <1>1, <1>3, <1>4, <1>5, <1>6, CallFacts, Preserved

LEMMA InitStep == Init => IInv
<1> SUFFICES ASSUME Init PROVE IInv
  OBVIOUS
<1> DEFINE none == NewCall(0, << >>)
<1>1. none.id = 0 /\ none.got = "none"
  BY DEF NewCall
<1>2. \A r \in Requests :
        /\ call[r] \in Calls /\ CallInv(call[r]) /\ Loss(call[r])
        /\ call[r].id = 0 /\ call[r].result = "none" /\ ToSet(call[r].blocks) = {}
        /\ call[r].step = "idle" /\ call[r].blocks = << >>
  <2>1. \A r \in Requests : call[r] = Returned(none)
    BY DEF Init
  <2> HIDE DEF none
  <2> QED BY <1>1, <2>1, ReturnedFacts
<1>3. call \in [Requests -> Calls]
  <2>1. call = [r \in Requests |-> call[r]]
    BY DEF Init
  <2> QED BY <1>2, <2>1
<1>4. TypeOK
  <2>1. /\ shmCounter \in Nat /\ calls \in 0..MaxCalls
        /\ argFiles = {} /\ resultFiles = {} /\ hollowed = {}
    BY BoundsAssumption DEF Init
  <2>2. \A r \in Requests : call[r].id \in 0..calls
    BY <1>2, BoundsAssumption DEF Init
  <2> QED BY <1>2, <1>3, <2>1, <2>2 DEF TypeOK
<1>5. FileInv
  BY <1>2 DEF Init, FileInv
<1>6. ResultInv /\ NoSilentLoss
  BY <1>2 DEF Init, ResultInv, NoSilentLoss
<1> QED BY <1>2, <1>4, <1>5, <1>6 DEF IInv

LEMMA NextStep ==
  ASSUME IInv, [Next]_vars
  PROVE  IInv'
<1>1. CASE UNCHANGED vars
  <2>1. /\ call' = call /\ shmCounter' = shmCounter /\ argFiles' = argFiles
        /\ resultFiles' = resultFiles /\ hollowed' = hollowed /\ calls' = calls
    BY <1>1 DEF vars
  <2>2. TypeOK'
    BY <2>1 DEF IInv, TypeOK
  <2>3. \A r \in Requests : CallInv(call'[r])
    BY <2>1 DEF IInv
  <2>4. FileInv'
    BY <2>1 DEF IInv, FileInv
  <2>5. ResultInv'
    BY <2>1 DEF IInv, ResultInv
  <2>6. NoSilentLoss'
    BY <2>1 DEF IInv, NoSilentLoss
  <2> QED BY <2>2, <2>3, <2>4, <2>5, <2>6 DEF IInv
<1>2. CASE Next
  <2> SUFFICES ASSUME NEW r \in Requests, Dispatch(r)
               PROVE  IInv'
    BY <1>2 DEF Next
  <2> QED BY BeginStep, ResolveOtherStep, ResolveArrayStep, ResolveEmptyStep,
             CallWorkerStep, ExecuteStep, ExecuteFailsStep, EncodeStep,
             EncodeFailsStep, FreeAllStep DEF Dispatch
<1> QED BY <1>1, <1>2

\* The invariant holds for any number of requests, arguments and calls,
\* whichever of the steps fail: every file of dispatch and of the worker has its
\* owner at all times.
THEOREM Invariance == Spec => []IInv
<1>1. Init => IInv
  BY InitStep
<1>2. IInv /\ [Next]_vars => IInv'
  BY NextStep
<1> QED BY <1>1, <1>2, PTL DEF Spec

\* The names of shmName and the numbers of the calls are never used again.
THEOREM TypeCorrect == Spec => []TypeOK
<1>1. IInv => TypeOK
  BY DEF IInv
<1> QED BY <1>1, Invariance, PTL

\* Whichever step of dispatch fails, FreeAll leaves no file of a call in tmpfs.
THEOREM NoFileLeft == Spec => []ArgFilesBounded
<1>1. IInv => ArgFilesBounded
  BY DEF IInv, FileInv, CallInv, ArgFilesBounded
<1> QED BY <1>1, Invariance, PTL

\* FreeAll of one call never takes the files of another one.
THEOREM ArraysStay == Spec => []ArgsReadable
<1>1. IInv => ArgsReadable
  <2> SUFFICES ASSUME IInv, NEW r \in Requests, call[r].step = "executing",
                      NEW i \in DOMAIN call[r].args, call[r].args[i] = "array"
               PROVE  /\ call[r].resolved[i] \in argFiles
                      /\ \A s \in Requests \ {r} :
                            call[r].resolved[i] \notin ToSet(call[s].blocks)
    BY DEF ArgsReadable
  <2>1. i \in DOMAIN call[r].resolved
    <3>1. /\ call[r].args \in Seq(ArgKinds) /\ call[r].resolved \in Seq(Nat)
          /\ Len(call[r].args) = Len(call[r].resolved)
      BY CallFacts DEF CallInv, Calls
    <3> QED BY <3>1
  <2>2. call[r].resolved[i] \in ToSet(call[r].blocks)
    BY <2>1, CallFacts DEF CallInv
  <2> QED BY <2>2, CallFacts
<1> QED BY <1>1, Invariance, PTL

\* The worker computes a value of what was passed, of the nearest value or the
\* text the wire has for it, and in the place of a hollow array of another array
\* of the same call; of nothing else, whatever failed.
THEOREM NothingLost == Spec => []NoSilentLoss
<1>1. IInv => NoSilentLoss
  BY DEF IInv
<1> QED BY <1>1, Invariance, PTL

\* encodeNDArrayResult has unlinked the file of a result that was delivered.
THEOREM ResultGone == Spec => []ResultUnlinked
<1>1. IInv => ResultUnlinked
  BY DEF IInv, ResultInv, ResultUnlinked
<1> QED BY <1>1, Invariance, PTL
=============================================================================
