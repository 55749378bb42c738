---------------------------- MODULE NamesProofs ----------------------------
(***************************************************************************)
(* Proofs about Names for every library, filter and number of programs.    *)
(***************************************************************************)
EXTENDS Names, TLAPS

\* ProxiesTrue for one run.
Proxies(r) ==
    \A n \in Names :
        /\ r.view[n] = "function" => Kind[n] = "function"
        /\ r.view[n] = "value" => n \in Allowed /\ Kind[n] \in {"function", "value"}

\* The answer on its way to the cache is a plausible one.
Asks(r) == r.step = "storing" => Plausible(r.name, r.answer)

\* A run by itself.
RunType(r) ==
    /\ r \in ProgType
    /\ r.worker = NoWorker <=> r.step = "off"
    /\ r.name = NoName <=> r.step \in {"off", "running"}

IInv == /\ TypeOK
        /\ CacheTrue
        /\ \A p \in Programs : Proxies(prog[p]) /\ Asks(prog[p])

LEMMA RunFacts ==
  ASSUME IInv, NEW p \in Programs
  PROVE  /\ RunType(prog[p]) /\ Proxies(prog[p]) /\ Asks(prog[p])
         /\ \A q \in Programs \ {p} :
               prog[p].step # "off" => prog[p].worker # prog[q].worker
BY DEF IInv, TypeOK, RunType

\* What a step that replaces the run of p by r owes to the invariant.
LEMMA Preserved ==
  ASSUME IInv, NEW p \in Programs, NEW r, prog' = [prog EXCEPT ![p] = r],
         RunType(r), Proxies(r), Asks(r),
         r.step # "off" => \A q \in Programs \ {p} : prog[q].worker # r.worker,
         up' \subseteq Workers, loaded' \in [Workers -> SUBSET Lazy],
         DOMAIN probeCache' \subseteq Names,
         probeCache' \in [DOMAIN probeCache' -> Answers],
         CacheTrue'
  PROVE  IInv'
<1>1. /\ prog' \in [Programs -> ProgType]
      /\ prog'[p] = r
      /\ \A q \in Programs \ {p} : prog'[q] = prog[q]
  BY DEF IInv, TypeOK, RunType
<1>2. \A q \in Programs : Proxies(prog'[q]) /\ Asks(prog'[q])
  <2> SUFFICES ASSUME NEW q \in Programs, q # p
               PROVE  Proxies(prog'[q]) /\ Asks(prog'[q])
    BY <1>1
  <2>1. Proxies(prog[q]) /\ Asks(prog[q])
    BY RunFacts
  <2> QED BY <1>1, <2>1
<1>3. \A q \in Programs : RunType(prog'[q])
  BY <1>1, RunFacts
<1>4. \A q \in Programs : \A s \in Programs \ {q} :
         prog'[q].step # "off" => prog'[q].worker # prog'[s].worker
  <2> SUFFICES ASSUME NEW q \in Programs, NEW s \in Programs \ {q},
                      prog'[q].step # "off"
               PROVE  prog'[q].worker # prog'[s].worker
    OBVIOUS
  <2>1. CASE q = p
    BY <1>1, <2>1
  <2>2. CASE s = p
    <3>1. CASE r.step = "off"
      BY <1>1, <1>3, <2>2, <3>1 DEF RunType
    <3>2. CASE r.step # "off"
      BY <1>1, <2>2, <3>2
    <3> QED BY <3>1, <3>2
  <2>3. CASE q # p /\ s # p
    BY <1>1, <2>3, RunFacts
  <2> QED BY <2>1, <2>2, <2>3
<1>5. TypeOK'
  BY <1>1, <1>3, <1>4 DEF TypeOK, RunType
<1> QED BY <1>2, <1>5 DEF IInv

\* A step within a run, which keeps its worker.
LEMMA GoesOn ==
  ASSUME IInv, NEW p \in Programs, NEW step \in Steps \ {"off"},
         NEW n \in Names \cup {NoName}, NEW answer \in Answers,
         NEW view \in [Names -> Views], Goes(p, step, n, answer, view),
         prog[p].step # "off", n = NoName <=> step = "running",
         \A m \in Names :
             \/ view[m] = prog[p].view[m] \/ view[m] \in {"unknown", "module"}
             \/ view[m] = "function" /\ Kind[m] = "function"
             \/ view[m] = "value" /\ m \in Allowed /\ Kind[m] \in {"function", "value"},
         step = "storing" => Plausible(n, answer),
         up' \subseteq up, loaded' \in [Workers -> SUBSET Lazy],
         DOMAIN probeCache' \subseteq Names,
         probeCache' \in [DOMAIN probeCache' -> Answers],
         CacheTrue'
  PROVE  IInv'
<1> DEFINE r == [step |-> step, worker |-> prog[p].worker,
                 name |-> n, answer |-> answer, view |-> view]
<1>1. prog' = [prog EXCEPT ![p] = r]
  BY DEF Goes
<1>2. RunType(r)
  BY RunFacts, NoneAssumption DEF RunType, ProgType
<1>3. Proxies(r)
  BY RunFacts DEF Proxies
<1>4. Asks(r)
  BY DEF Asks
<1>5. \A q \in Programs \ {p} : prog[q].worker # r.worker
  BY RunFacts
<1>6. up' \subseteq Workers
  BY DEF IInv, TypeOK
<1> HIDE DEF r
<1> QED BY <1>1, <1>2, <1>3, <1>4, <1>5, <1>6, Preserved

\* The end of __getattr__, and an import.
LEMMA FinishStep ==
  ASSUME IInv, NEW p \in Programs, NEW n \in Names, NEW v \in Views,
         Finish(p, n, v), prog[p].step # "off",
         v = "function" => Kind[n] = "function",
         v = "value" => n \in Allowed /\ Kind[n] \in {"function", "value"},
         up' \subseteq up, loaded' \in [Workers -> SUBSET Lazy],
         DOMAIN probeCache' \subseteq Names,
         probeCache' \in [DOMAIN probeCache' -> Answers],
         CacheTrue'
  PROVE  IInv'
<1> DEFINE view == [prog[p].view EXCEPT ![n] = v]
<1>1. prog[p].view \in [Names -> Views]
  BY RunFacts DEF RunType, ProgType
<1>2. /\ view \in [Names -> Views] /\ view[n] = v
      /\ \A m \in Names \ {n} : view[m] = prog[p].view[m]
  BY <1>1
<1>3. Goes(p, "running", NoName, "neither", view)
  BY DEF Finish
<1>4. "running" \in Steps \ {"off"} /\ "neither" \in Answers
  BY DEF Steps, Answers
<1> HIDE DEF view
<1>5. \A m \in Names :
         \/ view[m] = prog[p].view[m] \/ view[m] \in {"unknown", "module"}
         \/ view[m] = "function" /\ Kind[m] = "function"
         \/ view[m] = "value" /\ m \in Allowed /\ Kind[m] \in {"function", "value"}
  BY <1>2 DEF Views
<1> QED BY <1>2, <1>3, <1>4, <1>5, GoesOn

\* __getattr__ goes on with a plausible answer.
LEMMA LearnStep ==
  ASSUME IInv, NEW p \in Programs, NEW n \in Names, NEW answer \in Answers,
         Learn(p, n, answer), prog[p].step # "off", Plausible(n, answer),
         up' \subseteq up, loaded' \in [Workers -> SUBSET Lazy],
         DOMAIN probeCache' \subseteq Names,
         probeCache' \in [DOMAIN probeCache' -> Answers],
         CacheTrue'
  PROVE  IInv'
<1>1. CASE answer = "module" /\ Finish(p, n, "module")
  BY <1>1, FinishStep DEF Views
<1>2. CASE answer = "callable" /\ Finish(p, n, "function")
  <2>1. Kind[n] = "function"
    BY <1>2 DEF Plausible, Seen
  <2> QED BY <1>2, <2>1, FinishStep DEF Views
<1>3. CASE answer = "neither" /\ Goes(p, "valuing", n, "neither", prog[p].view)
  <2>1. prog[p].view \in [Names -> Views]
    BY RunFacts DEF RunType, ProgType
  <2>2. n # NoName /\ "valuing" \in Steps \ {"off"} /\ "neither" \in Answers
    BY NoneAssumption DEF Steps, Answers
  <2> QED BY <1>3, <2>1, <2>2, GoesOn
<1> QED BY <1>1, <1>2, <1>3 DEF Learn

\* In __getattr__ the run has a name.
LEMMA NameFacts ==
  ASSUME IInv, NEW p \in Programs, prog[p].step \in {"asking", "storing", "valuing"}
  PROVE  /\ prog[p].name \in Names /\ prog[p].name # NoName
         /\ prog[p].view \in [Names -> Views] /\ prog[p].answer \in Answers
         /\ prog[p].worker \in Workers
BY RunFacts DEF RunType, ProgType

\* The cache and its type, when a step leaves it alone.
LEMMA CacheFacts ==
  ASSUME IInv
  PROVE  /\ DOMAIN probeCache \subseteq Names
         /\ probeCache \in [DOMAIN probeCache -> Answers]
         /\ loaded \in [Workers -> SUBSET Lazy] /\ up \subseteq Workers
         /\ UNCHANGED probeCache => /\ DOMAIN probeCache' \subseteq Names
                                    /\ probeCache' \in [DOMAIN probeCache' -> Answers]
                                    /\ CacheTrue'
BY DEF IInv, TypeOK, CacheTrue

LEMMA StartRunStep ==
  ASSUME IInv, NEW p \in Programs, NEW w \in Workers, StartRun(p, w)
  PROVE  IInv'
<1> DEFINE r == [Off EXCEPT !.step = "running", !.worker = w]
<1>1. /\ prog' = [prog EXCEPT ![p] = r]
      /\ \A q \in Programs : prog[q].worker # w
      /\ up' = up \cup {w} /\ UNCHANGED probeCache
      /\ loaded' \in [Workers -> SUBSET Lazy]
  BY CacheFacts DEF StartRun
<1>2. /\ r.step = "running" /\ r.worker = w /\ r.name = NoName
      /\ r.answer = "neither" /\ r.view = [n \in Names |-> "unknown"]
      /\ r \in ProgType
  BY DEF Off, ProgType, Steps, Answers, Views
<1> HIDE DEF r
<1>3. RunType(r)
  BY <1>2, NoneAssumption DEF RunType
<1>4. Proxies(r) /\ Asks(r)
  BY <1>2 DEF Proxies, Asks
<1> QED BY <1>1, <1>2, <1>3, <1>4, CacheFacts, Preserved

LEMMA EndRunStep ==
  ASSUME IInv, NEW p \in Programs, EndRun(p)
  PROVE  IInv'
<1>1. prog' = [prog EXCEPT ![p] = Off] /\ UNCHANGED <<up, loaded, probeCache>>
  BY DEF EndRun
<1>2. RunType(Off) /\ Off.step = "off"
  BY DEF RunType, ProgType, Off, Steps, Answers, Views
<1>3. Proxies(Off) /\ Asks(Off)
  BY DEF Proxies, Asks, Off
<1> QED BY <1>1, <1>2, <1>3, CacheFacts, Preserved

LEMMA ImportStep ==
  ASSUME IInv, NEW p \in Programs, NEW n \in Names, Import(p, n)
  PROVE  IInv'
<1>1. /\ Finish(p, n, "module") /\ prog[p].step # "off"
      /\ UNCHANGED <<up, loaded, probeCache>>
  BY DEF Import
<1> QED BY <1>1, CacheFacts, FinishStep DEF Views

LEMMA TouchStep ==
  ASSUME IInv, NEW p \in Programs, NEW n \in Names, Touch(p, n)
  PROVE  IInv'
<1>1. prog[p].step # "off" /\ UNCHANGED <<up, loaded, probeCache>>
  BY DEF Touch
<1>2. CASE n \in DOMAIN probeCache
  <2>1. Learn(p, n, probeCache[n])
    BY <1>2 DEF Touch
  <2>2. Plausible(n, probeCache[n]) /\ probeCache[n] \in Answers
    BY <1>2, CacheFacts DEF IInv, CacheTrue
  <2> QED BY <1>1, <2>1, <2>2, CacheFacts, LearnStep
<1>3. CASE n \notin DOMAIN probeCache
  <2>1. Goes(p, "asking", n, "neither", prog[p].view)
    BY <1>3 DEF Touch
  <2>2. prog[p].view \in [Names -> Views]
    BY RunFacts DEF RunType, ProgType
  <2>3. n # NoName /\ "asking" \in Steps \ {"off"} /\ "neither" \in Answers
    BY NoneAssumption DEF Steps, Answers
  <2> QED BY <1>1, <2>1, <2>2, <2>3, CacheFacts, GoesOn
<1> QED BY <1>2, <1>3

LEMMA WorkerProbesStep ==
  ASSUME IInv, NEW p \in Programs, WorkerProbes(p)
  PROVE  IInv'
<1> DEFINE n == prog[p].name
           answer == Probe(prog[p].worker, n)
<1>1. /\ prog[p].step = "asking"
      /\ Goes(p, "storing", n, answer, prog[p].view)
      /\ UNCHANGED <<up, loaded, probeCache>>
  BY DEF WorkerProbes
<1>2. /\ n \in Names /\ n # NoName /\ prog[p].view \in [Names -> Views]
  BY <1>1, NameFacts
<1>3. Kind[n] \in {"module", "function", "value", "absent"}
  BY <1>2, KindAssumption
<1>4. answer \in Answers /\ Plausible(n, answer)
  BY <1>2, <1>3 DEF Probe, Resolves, Plausible, Seen, Answers
<1>5. "storing" \in Steps \ {"off"}
  BY DEF Steps
<1> HIDE DEF n, answer
<1> QED BY <1>1, <1>2, <1>4, <1>5, CacheFacts, GoesOn

\* An error of the worker changes nothing but the step.
LEMMA ProbeFailsStep ==
  ASSUME IInv, NEW p \in Programs, ProbeFails(p)
  PROVE  IInv'
<1>1. /\ prog[p].step = "asking" /\ up' = up \ {prog[p].worker}
      /\ Goes(p, "valuing", prog[p].name, "neither", prog[p].view)
      /\ UNCHANGED <<loaded, probeCache>>
  BY DEF ProbeFails
<1>2. "valuing" \in Steps \ {"off"} /\ "neither" \in Answers
  BY DEF Steps, Answers
<1> QED BY <1>1, <1>2, NameFacts, CacheFacts, GoesOn

\* What is stored is as plausible as what was answered.
LEMMA StoreFacts ==
  ASSUME IInv, NEW p \in Programs, Store(p)
  PROVE  /\ DOMAIN probeCache' \subseteq Names
         /\ probeCache' \in [DOMAIN probeCache' -> Answers]
         /\ CacheTrue'
         /\ Plausible(prog[p].name, prog[p].answer)
         /\ \A n \in DOMAIN probeCache :
               n \in DOMAIN probeCache' /\ (probeCache'[n] = probeCache[n] \/ n \in Lazy)
<1> DEFINE k == prog[p].name
           a == prog[p].answer
<1>1. probeCache' = [n \in DOMAIN probeCache \cup {k} |->
                        IF n = k THEN a ELSE probeCache[n]]
  BY DEF Store
<1>2. k \in Names /\ a \in Answers
  BY NameFacts DEF Store
<1>3. Plausible(k, a)
  BY RunFacts DEF Store, Asks
<1> HIDE DEF k, a
<1>4. /\ DOMAIN probeCache' \subseteq Names
      /\ probeCache' \in [DOMAIN probeCache' -> Answers]
  BY <1>1, <1>2, CacheFacts
<1>5. CacheTrue'
  <2> SUFFICES ASSUME NEW n \in DOMAIN probeCache'
               PROVE  Plausible(n, probeCache'[n])
    BY DEF CacheTrue, Plausible, Seen
  <2>1. CASE n = k
    BY <1>1, <1>3, <2>1
  <2>2. CASE n # k
    BY <1>1, <2>2 DEF IInv, CacheTrue
  <2> QED BY <2>1, <2>2
<1>6. ASSUME NEW n \in DOMAIN probeCache
      PROVE  n \in DOMAIN probeCache' /\ (probeCache'[n] = probeCache[n] \/ n \in Lazy)
  <2>1. CASE n = k
    BY <1>1, <1>3, <2>1 DEF IInv, CacheTrue, Plausible
  <2>2. CASE n # k
    BY <1>1, <2>2
  <2> QED BY <2>1, <2>2
<1> QED BY <1>3, <1>4, <1>5, <1>6 DEF k, a

LEMMA StoreStep ==
  ASSUME IInv, NEW p \in Programs, Store(p)
  PROVE  IInv'
<1>1. /\ prog[p].step = "storing" /\ UNCHANGED <<up, loaded>>
      /\ Learn(p, prog[p].name, prog[p].answer)
  BY DEF Store
<1> QED BY <1>1, NameFacts, StoreFacts, CacheFacts, LearnStep

\* What is run to have its value is an allowed function.
LEMMA ValueCalledStep ==
  ASSUME IInv, NEW p \in Programs, ValueCalled(p)
  PROVE  IInv'
<1> DEFINE n == prog[p].name
<1>1. /\ prog[p].step = "valuing" /\ Runs(prog[p].worker, n)
      /\ UNCHANGED <<up, probeCache>>
  BY DEF ValueCalled
<1>2. PICK v \in {"value", "unknown"} : Finish(p, n, v)
  BY DEF ValueCalled
<1>3. n \in Names /\ n \in Allowed /\ Kind[n] = "function"
  BY <1>1, NameFacts DEF Runs
<1>4. loaded' \in [Workers -> SUBSET Lazy]
  BY <1>1, CacheFacts DEF Runs
<1> HIDE DEF n
<1> QED BY <1>1, <1>2, <1>3, <1>4, CacheFacts, FinishStep DEF Views

LEMMA ValueFailsStep ==
  ASSUME IInv, NEW p \in Programs, ValueFails(p)
  PROVE  IInv'
<1>1. /\ prog[p].step = "valuing" /\ up' \subseteq up
      /\ Finish(p, prog[p].name, "unknown")
      /\ UNCHANGED <<loaded, probeCache>>
  BY DEF ValueFails
<1> QED BY <1>1, NameFacts, CacheFacts, FinishStep DEF Views

LEMMA CallStep ==
  ASSUME IInv, NEW p \in Programs, NEW n \in Names, Call(p, n)
  PROVE  IInv'
<1>1. Runs(prog[p].worker, n) /\ UNCHANGED <<prog, up, probeCache>>
  BY DEF Call
<1>2. loaded' \in [Workers -> SUBSET Lazy]
  BY <1>1, CacheFacts DEF Runs
<1>3. TypeOK'
  BY <1>1, <1>2 DEF IInv, TypeOK
<1>4. CacheTrue' /\ \A q \in Programs : Proxies(prog'[q]) /\ Asks(prog'[q])
  BY <1>1, CacheFacts DEF IInv
<1> QED BY <1>3, <1>4 DEF IInv

LEMMA ProgramStep ==
  ASSUME IInv, NEW p \in Programs, Program(p)
  PROVE  IInv'
BY StartRunStep, EndRunStep, ImportStep, TouchStep, CallStep, WorkerProbesStep,
   ProbeFailsStep, StoreStep, ValueCalledStep, ValueFailsStep DEF Program

LEMMA NextStep ==
  ASSUME IInv, [Next]_vars
  PROVE  IInv'
<1>1. CASE UNCHANGED vars
  BY <1>1 DEF vars, IInv, TypeOK, CacheTrue
<1>2. CASE Next
  BY <1>2, ProgramStep DEF Next
<1> QED BY <1>1, <1>2

LEMMA InitStep == Init => IInv
<1> SUFFICES ASSUME Init PROVE IInv
  OBVIOUS
<1>1. \A p \in Programs : prog[p] = Off
  BY DEF Init
<1>2. RunType(Off) /\ Proxies(Off) /\ Asks(Off) /\ Off.step = "off"
  BY DEF RunType, ProgType, Off, Steps, Answers, Views, Proxies, Asks
<1>3. prog \in [Programs -> ProgType]
  BY <1>2 DEF Init, RunType
<1>4. /\ DOMAIN probeCache = {} /\ up = Workers /\ loaded \in [Workers -> SUBSET Lazy]
      /\ probeCache \in [DOMAIN probeCache -> Answers]
  BY DEF Init
<1>5. TypeOK
  BY <1>1, <1>2, <1>3, <1>4 DEF TypeOK, RunType
<1>6. CacheTrue
  BY <1>4 DEF CacheTrue
<1> QED BY <1>1, <1>2, <1>5, <1>6 DEF IInv

LEMMA Invariance == Spec => []IInv
<1>1. IInv /\ [Next]_vars => IInv'
  BY NextStep
<1> QED BY <1>1, InitStep, PTL DEF Spec

\* Runs have workers of their own, and names while they look them up.
THEOREM TypeCorrect == Spec => []TypeOK
<1>1. IInv => TypeOK
  BY DEF IInv
<1> QED BY <1>1, Invariance, PTL

\* However many runs fill the cache at once, and whichever workers die, what it
\* says of a name that every worker resolves is true.
THEOREM CacheIsTrue == Spec => []CacheTrue
<1>1. IInv => CacheTrue
  BY DEF IInv
<1> QED BY <1>1, Invariance, PTL

\* Whatever failed in the worker or on the way to it, __getattr__ makes no
\* function of anything else, and has no value of a name that does not exist or
\* that the filter refuses.
THEOREM ProxiesAreTrue == Spec => []ProxiesTrue
<1>1. IInv => ProxiesTrue
  BY DEF IInv, Proxies, ProxiesTrue
<1> QED BY <1>1, Invariance, PTL

\* Runs that ask for one name at the same time agree on the answer.
THEOREM CacheIsStable == Spec => CacheStable
<1> DEFINE Stable == \A n \in DOMAIN probeCache :
                        /\ n \in DOMAIN probeCache'
                        /\ probeCache'[n] = probeCache[n] \/ n \in Lazy
<1>1. ASSUME IInv, [Next]_vars
      PROVE  [Stable]_vars
  <2>1. CASE UNCHANGED probeCache
    BY <2>1
  <2>2. ASSUME NEW p \in Programs, Store(p)
        PROVE  Stable
    BY <1>1, <2>2, StoreFacts
  <2>3. Next => UNCHANGED probeCache \/ \E p \in Programs : Store(p)
    BY DEF Next, Program, StartRun, EndRun, Import, Touch, Call, WorkerProbes,
           ProbeFails, ValueCalled, ValueFails
  <2> QED BY <1>1, <2>1, <2>2, <2>3 DEF vars
<1> QED BY <1>1, Invariance, PTL DEF Spec, CacheStable
=============================================================================
