---------------------------- MODULE ServerProofs ----------------------------
(***************************************************************************)
(* Proofs about Server for every number of requests and workers, and every *)
(* timeout.                                                                *)
(***************************************************************************)
EXTENDS Server, TLAPS

\* Integers that fit are left alone, and those above never become greater.
LEMMA WrapFacts ==
  ASSUME NEW n \in Nat
  PROVE  /\ Wrap(n) \in Int
         /\ Wrap(n) <= n
         /\ n < Half => Wrap(n) = n
<1> DEFINE m == 2 * Half
           x == n + Half
<1>1. m \in Nat /\ m > 0 /\ x \in Nat /\ Half \in Nat
  BY UnitsAssumption
<1>2. x % m \in 0..(m - 1)
  <2> HIDE DEF m, x
  <2> QED BY <1>1
<1>3. x < m => x % m = x
  <2> HIDE DEF m, x
  <2> QED BY <1>1
<1>4. Wrap(n) = (x % m) - Half
  BY DEF Wrap
<1>5. CASE x < m
  BY <1>1, <1>3, <1>4, <1>5
<1>6. CASE x >= m
  <2>1. Wrap(n) < Half /\ n >= Half /\ Wrap(n) \in Int
    BY <1>1, <1>2, <1>4, <1>6
  <2> QED BY <2>1, <1>1
<1> QED BY <1>1, <1>5, <1>6

\* What is left of n seconds is at most n seconds.
LEMMA Product ==
  ASSUME NEW n \in Nat
  PROVE  n * Second \in Nat /\ (n + 5) * Second = n * Second + 5 * Second
BY UnitsAssumption

LEMMA WrapInt ==
  ASSUME NEW n \in Int
  PROVE  Wrap(n) \in Int
<1> DEFINE m == 2 * Half
           x == n + Half
<1>1. m \in Nat /\ m > 0 /\ x \in Int /\ Half \in Int
  BY UnitsAssumption
<1>2. x % m \in Int
  <2> HIDE DEF m, x
  <2> QED BY <1>1
<1> QED BY <1>1, <1>2 DEF Wrap

\* Whatever timeout_sec a client sends, its run has no more time than that (or
\* the default), and exactly that long as five seconds more still fit.
THEOREM LimitFacts ==
  ASSUME NEW t \in Int
  PROVE  /\ Limit(t) \in Int
         /\ Limit(t) <= Seconds(t) * Second
         /\ Seconds(t) * Second + 5 * Second < Half => Limit(t) = Seconds(t) * Second
<1> DEFINE s == Seconds(t)
           p == s * Second
           h == (s + 5) * Second
<1>1. s \in Nat
  BY DEF Seconds
<1>2. /\ p \in Nat /\ h = p + 5 * Second /\ h \in Nat
      /\ Second \in Nat /\ Second >= 1 /\ Half \in Nat
  <2> HIDE DEF s
  <2> QED BY <1>1, Product, UnitsAssumption
<1>3. s + 5 <= h
  <2> HIDE DEF s
  <2> QED BY <1>1, <1>2
<1>4. PoolLimit(t) \in Int /\ PoolLimit(t) <= p /\ (p < Half => PoolLimit(t) = p)
  <2>1. PoolLimit(t) = Wrap(p)
    BY DEF PoolLimit
  <2> HIDE DEF p
  <2> QED BY <1>2, <2>1, WrapFacts
<1>5. HandlerLimit(t) \in Int
  <2>1. Wrap(s + 5) \in Int
    BY <1>1, WrapInt
  <2>2. Wrap(s + 5) * Second \in Int
    BY <2>1, <1>2
  <2>3. HandlerLimit(t) = Wrap(Wrap(s + 5) * Second)
    BY DEF HandlerLimit
  <2> QED BY <2>2, <2>3, WrapInt
<1>6. ASSUME h < Half
      PROVE  HandlerLimit(t) = h
  <2>1. s + 5 \in Nat /\ s + 5 < Half
    <3> HIDE DEF s, h
    <3> QED BY <1>1, <1>2, <1>3, <1>6
  <2>2. Wrap(s + 5) = s + 5
    BY <2>1, WrapFacts
  <2>3. HandlerLimit(t) = Wrap(h)
    BY <2>2 DEF HandlerLimit
  <2> HIDE DEF h
  <2> QED BY <1>2, <1>6, <2>3, WrapFacts
<1>7. Limit(t) = IF HandlerLimit(t) < PoolLimit(t) THEN HandlerLimit(t) ELSE PoolLimit(t)
  BY DEF Limit
<1> HIDE DEF p, h
<1>8. Limit(t) \in Int /\ Limit(t) <= p
  BY <1>2, <1>4, <1>5, <1>7
<1>9. p + 5 * Second < Half => Limit(t) = p
  BY <1>2, <1>4, <1>6, <1>7
<1> QED BY <1>8, <1>9 DEF p, s
-----------------------------------------------------------------------------
(* The request and its goroutine in the pool *)

\* TypeOK for one request.
RunType(u, c) ==
    /\ u \in Runs
    /\ u.step = "acquiring" =>
          c \in {"waiting", "pinging", "replacing", "spawning", "holding"}
    /\ u.step = "releasing" => c \in {"holding", "releasing"}
    /\ u.step \notin {"acquiring", "releasing", "cut"} => c = "idle"

\* DeadlineKept for one request.
Kept(u) ==
    /\ u.limit <= Seconds(u.timeout) * Second
    /\ Seconds(u.timeout) * Second + 5 * Second < Half =>
          u.limit = Seconds(u.timeout) * Second

\* ReplyInv for one request.
Replies(u) ==
    /\ u.step \in {"filtering", "acquiring", "releasing"} => u.kind = "good"
    /\ u.step \in {"releasing", "answering"} =>
          u.reply \in Service!Befitting(u.kind)

LEMMA PerRequest ==
  IInv <=> /\ run \in [Requests -> Runs] /\ pc \in [Requests -> Pool!PCs]
           /\ srv \in Srvs /\ signalled \in BOOLEAN
           /\ \A r \in Requests : /\ RunType(run[r], pc[r])
                                  /\ Kept(run[r]) /\ Replies(run[r])
           /\ CloseInv
<1>1. TypeOK <=> /\ run \in [Requests -> Runs] /\ pc \in [Requests -> Pool!PCs]
                 /\ srv \in Srvs /\ signalled \in BOOLEAN
                 /\ \A r \in Requests : RunType(run[r], pc[r])
  BY DEF TypeOK, RunType
<1>2. DeadlineKept <=> \A r \in Requests : Kept(run[r])
  BY DEF DeadlineKept, Kept
<1>3. ReplyInv <=> \A r \in Requests : Replies(run[r])
  BY DEF ReplyInv, Replies
<1> QED BY <1>1, <1>2, <1>3 DEF IInv

\* What a step of the handling of r, which becomes u, owes to the invariant.
LEMMA Preserved ==
  ASSUME IInv, NEW r \in Requests, NEW u \in Runs, run' = [run EXCEPT ![r] = u],
         RunType(u, pc'[r]), Kept(u), Replies(u),
         pc' \in [Requests -> Pool!PCs],
         \A q \in Requests \ {r} : pc'[q] = pc[q],
         UNCHANGED <<srv, signalled>>, CloseInv'
  PROVE  IInv'
<1>1. /\ run' \in [Requests -> Runs] /\ run'[r] = u
      /\ \A q \in Requests \ {r} : run'[q] = run[q]
  BY PerRequest
<1>2. \A q \in Requests : RunType(run'[q], pc'[q]) /\ Kept(run'[q]) /\ Replies(run'[q])
  BY <1>1, PerRequest
<1>3. TypeOK'
  BY <1>1, <1>2, PerRequest DEF TypeOK, RunType
<1>4. DeadlineKept'
  BY <1>2 DEF DeadlineKept, Kept
<1>5. ReplyInv'
  BY <1>2 DEF ReplyInv, Replies, Service!Befitting
<1> QED BY <1>3, <1>4, <1>5 DEF IInv

\* ... and one that leaves the requests alone.
LEMMA SameRuns ==
  ASSUME IInv, UNCHANGED <<run, pc>>, srv' \in Srvs, signalled' \in BOOLEAN, CloseInv'
  PROVE  IInv'
BY DEF IInv, TypeOK, DeadlineKept, ReplyInv, Service!Befitting

LEMMA RunFacts ==
  ASSUME IInv, NEW r \in Requests
  PROVE  /\ run[r] \in Runs /\ RunType(run[r], pc[r])
         /\ Kept(run[r]) /\ Replies(run[r]) /\ pc[r] \in Pool!PCs
BY PerRequest

\* The handling of r goes on, and nothing of it but the step and the answer
\* changes.
LEMMA GoesFacts ==
  ASSUME IInv, NEW r \in Requests, NEW step \in Steps, NEW reply, Goes(r, step, reply),
         reply \in {"none", "400", "403", "500", "ok", "stderr", "exited",
                    "timed out", "raw"},
         step = "acquiring" =>
            pc'[r] \in {"waiting", "pinging", "replacing", "spawning", "holding"},
         step = "releasing" => pc'[r] \in {"holding", "releasing"},
         step \notin {"acquiring", "releasing", "cut"} => pc'[r] = "idle",
         step \in {"filtering", "acquiring", "releasing"} => run[r].kind = "good",
         step \in {"releasing", "answering"} =>
            reply \in Service!Befitting(run[r].kind),
         pc' \in [Requests -> Pool!PCs],
         \A q \in Requests \ {r} : pc'[q] = pc[q],
         UNCHANGED <<srv, signalled>>, CloseInv'
  PROVE  IInv'
<1> DEFINE u == [step |-> step, kind |-> run[r].kind, timeout |-> run[r].timeout,
                 limit |-> run[r].limit, reply |-> reply]
<1>1. run' = [run EXCEPT ![r] = u]
  BY DEF Goes
<1>2. /\ u \in Runs /\ u.step = step /\ u.kind = run[r].kind /\ u.reply = reply
      /\ u.timeout = run[r].timeout /\ u.limit = run[r].limit
  BY RunFacts DEF Runs
<1> HIDE DEF u
<1>3. RunType(u, pc'[r])
  BY <1>2 DEF RunType
<1>4. Kept(u)
  BY <1>2, RunFacts DEF Kept
<1>5. Replies(u)
  BY <1>2 DEF Replies
<1> QED BY <1>1, <1>2, <1>3, <1>4, <1>5, Preserved
-----------------------------------------------------------------------------
(* What the steps of the pool change of pc and phase *)

\* A step of the goroutine of r in the pool takes it from one of the places
\* from to one of the places to.
Moves(r, from, to) ==
    /\ pc[r] \in from /\ pc'[r] \in to
    /\ pc' \in [Requests -> Pool!PCs]
    /\ \A q \in Requests \ {r} : pc'[q] = pc[q]
    /\ phase' = phase

LEMMA MovesFacts ==
  ASSUME IInv, NEW r \in Requests
  PROVE  /\ Pool!Enter(r) => Moves(r, {"idle"}, {"waiting"})
         /\ Pool!Receive(r) => Moves(r, {"waiting"}, {"pinging"})
         /\ Pool!Ping(r) => Moves(r, {"pinging"}, {"holding", "replacing"})
         /\ Pool!Replace(r) => Moves(r, {"replacing"}, {"spawning"})
         /\ Pool!SpawnReady(r) => Moves(r, {"spawning"}, {"holding"})
         /\ Pool!CtxDone(r) => Moves(r, {"waiting"}, {"idle"})
         /\ Pool!SpawnError(r) => Moves(r, {"spawning"}, {"idle"})
         /\ Pool!ReleaseCheck(r) => Moves(r, {"holding"}, {"releasing"})
         /\ Pool!ReleaseClosed(r) => Moves(r, {"holding"}, {"idle"})
         /\ Pool!ReleaseSend(r) => Moves(r, {"releasing"}, {"idle"})
         /\ Pool!ReceiveNil(r) => Moves(r, {"waiting"}, {"panicked"})
                                  /\ phase \in {"draining", "closed"}
         /\ Pool!ReleasePanics(r) => Moves(r, {"releasing"}, {"panicked"})
                                     /\ phase \in {"draining", "closed"}
<1>1. pc \in [Requests -> Pool!PCs]
  BY DEF IInv, TypeOK
<1>2. ASSUME NEW c \in Pool!PCs, NEW from, NEW to, c \in to, pc[r] \in from,
             pc' = [pc EXCEPT ![r] = c], phase' = phase
      PROVE  Moves(r, from, to)
  BY <1>1, <1>2 DEF Moves
<1> USE DEF Pool!PCs
<1>3. Pool!Enter(r) => Moves(r, {"idle"}, {"waiting"})
  BY <1>2 DEF Pool!Enter
<1>4. Pool!Receive(r) => Moves(r, {"waiting"}, {"pinging"})
  BY <1>2 DEF Pool!Receive
<1>5. Pool!Ping(r) => Moves(r, {"pinging"}, {"holding", "replacing"})
  BY <1>2 DEF Pool!Ping
<1>6. Pool!Replace(r) => Moves(r, {"replacing"}, {"spawning"})
  BY <1>2 DEF Pool!Replace
<1>7. Pool!SpawnReady(r) => Moves(r, {"spawning"}, {"holding"})
  BY <1>2 DEF Pool!SpawnReady
<1>8. Pool!CtxDone(r) => Moves(r, {"waiting"}, {"idle"})
  BY <1>2 DEF Pool!CtxDone
<1>9. Pool!SpawnError(r) => Moves(r, {"spawning"}, {"idle"})
  BY <1>2 DEF Pool!SpawnError
<1>10. Pool!ReleaseCheck(r) => Moves(r, {"holding"}, {"releasing"})
  BY <1>2 DEF Pool!ReleaseCheck
<1>11. Pool!ReleaseClosed(r) => Moves(r, {"holding"}, {"idle"})
  BY <1>2 DEF Pool!ReleaseClosed, Pool!Forget
<1>12. Pool!ReleaseSend(r) => Moves(r, {"releasing"}, {"idle"})
  BY <1>2 DEF Pool!ReleaseSend, Pool!Forget
<1>13. Pool!ReceiveNil(r) => Moves(r, {"waiting"}, {"panicked"})
                             /\ phase \in {"draining", "closed"}
  BY <1>2 DEF Pool!ReceiveNil, Pool!ChanClosed
<1>14. Pool!ReleasePanics(r) => Moves(r, {"releasing"}, {"panicked"})
                                /\ phase \in {"draining", "closed"}
  BY <1>2 DEF Pool!ReleasePanics, Pool!ChanClosed
<1> QED BY <1>3, <1>4, <1>5, <1>6, <1>7, <1>8, <1>9, <1>10, <1>11, <1>12, <1>13, <1>14

\* Only the steps of Close move the pool to its end, and no other lets a
\* goroutine panic.
LEMMA StaysClosed ==
  ASSUME IInv, NEW r \in Requests, NEW from, NEW to, Moves(r, from, to),
         UNCHANGED <<srv, signalled>>,
         "panicked" \notin to \/ phase \in {"draining", "closed"}
  PROVE  CloseInv'
<1>1. phase' = phase /\ srv' = srv /\ pc'[r] \in to
      /\ \A q \in Requests \ {r} : pc'[q] = pc[q]
  BY DEF Moves
<1>2. CloseInv
  BY DEF IInv
<1> QED BY <1>1, <1>2 DEF CloseInv
-----------------------------------------------------------------------------
(* The steps of the server *)

LEMMA ServeStep ==
  ASSUME IInv, Serve
  PROVE  IInv'
<1>1. srv \in Srvs /\ signalled \in BOOLEAN /\ CloseInv
  BY DEF IInv, TypeOK
<1>2. CASE Boots
  <2> USE DEF Pool!reqVars
  <2>1. pc' = pc /\ (phase' = phase \/ phase' \in {"open", "failed"})
    <3>1. CASE Pool!BootSpawn
      BY <3>1 DEF Pool!BootSpawn
    <3>2. CASE \E w \in booting : Pool!BootReady(w) \/ Pool!BootError(w)
      BY <3>2 DEF Pool!BootReady, Pool!BootError
    <3>3. CASE Pool!NewPoolFails \/ Pool!NewPoolReturns
      BY <3>3 DEF Pool!NewPoolFails, Pool!NewPoolReturns
    <3> QED BY <1>2, <3>1, <3>2, <3>3 DEF Boots, Pool!Boot
  <2> QED BY <1>1, <1>2, <2>1, SameRuns DEF Boots, CloseInv
<1>3. CASE BootReturns
  BY <1>1, <1>3, SameRuns DEF BootReturns, CloseInv, poolVars, Srvs
<1>5. CASE Signal
  BY <1>1, <1>5, SameRuns DEF Signal, CloseInv, poolVars
<1>6. CASE ServeReturns
  BY <1>1, <1>6, SameRuns DEF ServeReturns, CloseInv, poolVars, Srvs
<1>7. CASE Closes
  <2>1. pc' = pc
    BY <1>7 DEF Closes, Pool!Close, Pool!CloseFlag, Pool!CloseChan, Pool!CloseDrain,
                Pool!CloseReturns, Pool!reqVars
  <2> QED BY <1>1, <1>7, <2>1, SameRuns DEF Closes, CloseInv
<1>8. CASE RuntimeCloses
  BY <1>1, <1>8, SameRuns DEF RuntimeCloses, CloseInv, poolVars, Srvs
<1>9. CASE ProcessEnds
  <2>1. /\ srv' = "exited" /\ UNCHANGED <<pc, phase, signalled>>
        /\ run' = [r \in Requests |->
                      IF run[r].step \in {"idle", "answered", "cut"} THEN run[r]
                      ELSE [run[r] EXCEPT !.step = "cut"]]
    BY <1>9 DEF ProcessEnds, poolVars
  <2>2. ASSUME NEW r \in Requests
        PROVE  /\ run'[r] \in Runs /\ RunType(run'[r], pc'[r])
               /\ Kept(run'[r]) /\ Replies(run'[r])
    <3>1. CASE run'[r] = run[r]
      BY <2>1, <3>1, RunFacts
    <3>2. CASE run'[r] = [run[r] EXCEPT !.step = "cut"]
      <4> DEFINE u == [run[r] EXCEPT !.step = "cut"]
      <4>1. u \in Runs /\ u.step = "cut" /\ u.limit = run[r].limit
            /\ u.timeout = run[r].timeout
        BY RunFacts DEF Runs, Steps
      <4> HIDE DEF u
      <4>2. RunType(u, pc'[r]) /\ Kept(u) /\ Replies(u)
        BY <4>1, RunFacts DEF RunType, Kept, Replies
      <4> QED BY <3>2, <4>1, <4>2 DEF u
    <3> QED BY <2>1, <3>1, <3>2
  <2>3. run' \in [Requests -> Runs]
    BY <2>1, <2>2
  <2>4. TypeOK'
    BY <1>1, <2>1, <2>2, <2>3 DEF IInv, TypeOK, RunType, Srvs
  <2>5. DeadlineKept' /\ ReplyInv'
    BY <2>2 DEF DeadlineKept, Kept, ReplyInv, Replies, Service!Befitting
  <2>6. CloseInv'
    BY <2>1 DEF CloseInv
  <2> QED BY <2>4, <2>5, <2>6 DEF IInv
<1>4. CASE \E w \in alive : WorkerLeaves(w)
  BY <1>1, <1>4, SameRuns DEF WorkerLeaves, CloseInv
<1> QED BY <1>2, <1>3, <1>4, <1>5, <1>6, <1>7, <1>8, <1>9 DEF Serve, BootFails, Exit, ServeFails

LEMMA ArriveStep ==
  ASSUME IInv, NEW r \in Requests, Arrive(r)
  PROVE  IInv'
<1>1. PICK k \in {"bad", "unsafe", "good"} :
         \E t \in IF k = "good" THEN Timeouts ELSE {30} :
            run' = [run EXCEPT ![r] = [step |-> "handling", kind |-> k, timeout |-> t,
                                       limit |-> Limit(t), reply |-> "none"]]
  BY DEF Arrive
<1>2. PICK t \in IF k = "good" THEN Timeouts ELSE {30} :
         run' = [run EXCEPT ![r] = [step |-> "handling", kind |-> k, timeout |-> t,
                                    limit |-> Limit(t), reply |-> "none"]]
  BY <1>1
<1>3. t \in Int
  BY TimeoutsAssumption, UnitsAssumption
<1> DEFINE u == [step |-> "handling", kind |-> k, timeout |-> t,
                 limit |-> Limit(t), reply |-> "none"]
<1>4. /\ u \in Runs /\ u.step = "handling" /\ u.timeout = t /\ u.limit = Limit(t)
  BY <1>3, LimitFacts DEF Runs, Steps
<1>5. run' = [run EXCEPT ![r] = u]
  BY <1>2
<1> HIDE DEF u
<1>6. /\ UNCHANGED <<pc, phase, srv, signalled>>
      /\ run[r].step \in {"idle", "answered"}
  BY DEF Arrive, poolVars
<1>7. RunType(u, pc'[r]) /\ Replies(u)
  BY <1>4, <1>6, RunFacts DEF RunType, Replies
<1>8. Kept(u)
  BY <1>3, <1>4, LimitFacts DEF Kept
<1>9. CloseInv' /\ pc' \in [Requests -> Pool!PCs]
  BY <1>6 DEF IInv, TypeOK, CloseInv
<1> QED BY <1>4, <1>5, <1>6, <1>7, <1>8, <1>9, Preserved

\* A step of the handler that leaves the pool alone.
LEMMA LocalStep ==
  ASSUME IInv, NEW r \in Requests,
         Refuse(r) \/ Accept(r) \/ NoRun(r) \/ Answer(r) \/ RunEnds(r)
  PROVE  IInv'
<1>1. UNCHANGED <<pc, phase, srv, signalled>>
  BY DEF Refuse, Accept, NoRun, Answer, RunEnds, poolVars
<1>2. CloseInv' /\ pc' \in [Requests -> Pool!PCs]
  BY <1>1 DEF IInv, TypeOK, CloseInv
<1>3. /\ run[r].step \notin {"acquiring", "releasing", "cut"} => pc[r] = "idle"
      /\ run[r].step \in {"filtering", "acquiring", "releasing"} => run[r].kind = "good"
      /\ run[r].step \in {"releasing", "answering"} =>
            run[r].reply \in Service!Befitting(run[r].kind)
      /\ run[r].reply \in {"none", "400", "403", "500", "ok", "stderr", "exited",
                           "timed out", "raw"}
  BY RunFacts DEF RunType, Replies, Runs
<1> USE DEF Steps, Service!Befitting
<1>4. CASE Refuse(r)
  <2>1. CASE run[r].kind = "bad" /\ Goes(r, "answering", "400")
    BY <1>1, <1>2, <1>3, <1>4, <2>1, GoesFacts DEF Refuse
  <2>2. CASE run[r].kind = "unsafe" /\ Goes(r, "answering", "403")
    BY <1>1, <1>2, <1>3, <1>4, <2>2, GoesFacts DEF Refuse
  <2> QED BY <1>4, <2>1, <2>2 DEF Refuse
<1>5. CASE Accept(r)
  BY <1>1, <1>2, <1>3, <1>5, GoesFacts DEF Accept
<1>6. CASE NoRun(r)
  BY <1>1, <1>2, <1>3, <1>6, GoesFacts DEF NoRun
<1>7. CASE Answer(r)
  BY <1>1, <1>2, <1>3, <1>7, GoesFacts DEF Answer
<1>8. CASE RunEnds(r)
  <2>1. PICK end \in Ends, stderr \in BOOLEAN :
           Goes(r, "releasing", Translate(end, stderr))
    BY <1>8 DEF RunEnds
  <2>2. Translate(end, stderr) \in {"ok", "stderr", "exited", "timed out", "raw"}
    BY DEF Translate, Ends
  <2>3. pc[r] = "holding" /\ run[r].kind = "good"
    BY <1>3, <1>8 DEF RunEnds
  <2> QED BY <1>1, <1>2, <2>1, <2>2, <2>3, GoesFacts
<1> QED BY <1>4, <1>5, <1>6, <1>7, <1>8

\* A step of the handler in Acquire or release.
LEMMA PoolStep ==
  ASSUME IInv, NEW r \in Requests,
         Enters(r) \/ Acquires(r) \/ AcquireFails(r) \/ ReleaseChecks(r)
         \/ Releases(r) \/ Panics(r)
  PROVE  IInv'
<1> USE DEF Steps
<1>0. /\ run[r].step \in {"filtering", "acquiring", "releasing"} => run[r].kind = "good"
      /\ run[r].step = "releasing" => run[r].reply \in Service!Befitting(run[r].kind)
      /\ run[r].reply \in {"none", "400", "403", "500", "ok", "stderr", "exited",
                           "timed out", "raw"}
      /\ "500" \in Service!Befitting("good")
  BY RunFacts DEF RunType, Replies, Runs, Service!Befitting
<1>1. CASE Enters(r)
  <2>1. Moves(r, {"idle"}, {"waiting"})
    BY <1>1, MovesFacts DEF Enters
  <2>2. CloseInv'
    BY <1>1, <2>1, StaysClosed DEF Enters
  <2> QED BY <1>0, <1>1, <2>1, <2>2, GoesFacts DEF Enters, Moves
<1>2. CASE AcquireFails(r)
  <2>1. Moves(r, {"waiting", "spawning"}, {"idle"})
    BY <1>2, MovesFacts DEF AcquireFails, Moves
  <2>2. CloseInv'
    BY <1>2, <2>1, StaysClosed DEF AcquireFails
  <2> QED BY <1>0, <1>2, <2>1, <2>2, GoesFacts DEF AcquireFails, Moves
<1>3. CASE Releases(r)
  <2>1. Moves(r, {"holding", "releasing"}, {"idle"})
    BY <1>3, MovesFacts DEF Releases, Moves
  <2>2. CloseInv'
    BY <1>3, <2>1, StaysClosed DEF Releases
  <2> QED BY <1>0, <1>3, <2>1, <2>2, GoesFacts DEF Releases, Moves
<1>4. CASE Panics(r)
  <2>1. /\ Moves(r, {"waiting", "releasing"}, {"panicked"})
        /\ phase \in {"draining", "closed"}
    BY <1>4, MovesFacts DEF Panics, Moves
  <2>2. CloseInv'
    BY <1>4, <2>1, StaysClosed DEF Panics
  <2> QED BY <1>0, <1>4, <2>1, <2>2, GoesFacts DEF Panics, Moves
<1>5. ASSUME UNCHANGED <<run, srv, signalled>>, NEW to,
             Moves(r, Pool!PCs, to), "panicked" \notin to,
             RunType(run[r], pc'[r])
      PROVE  IInv'
  <2>1. CloseInv'
    BY <1>5, StaysClosed
  <2>2. run' = [run EXCEPT ![r] = run[r]]
    BY <1>5 DEF IInv, TypeOK
  <2> QED BY <1>5, <2>1, <2>2, RunFacts, Preserved DEF Moves
<1>6. CASE Acquires(r)
  <2> DEFINE to == {"pinging", "holding", "replacing", "spawning"}
  <2>1. Moves(r, Pool!PCs, to)
    BY <1>6, MovesFacts, RunFacts DEF Acquires, Moves
  <2>2. RunType(run[r], pc'[r])
    BY <1>6, <2>1, RunFacts DEF Acquires, Moves, RunType
  <2> QED BY <1>5, <1>6, <2>1, <2>2 DEF Acquires
<1>7. CASE ReleaseChecks(r)
  <2>1. Moves(r, Pool!PCs, {"releasing"})
    BY <1>7, MovesFacts, RunFacts DEF ReleaseChecks, Moves
  <2>2. RunType(run[r], pc'[r])
    BY <1>7, <2>1, RunFacts DEF ReleaseChecks, Moves, RunType
  <2> QED BY <1>5, <1>7, <2>1, <2>2 DEF ReleaseChecks
<1> QED BY <1>1, <1>2, <1>3, <1>4, <1>6, <1>7

LEMMA NextStep ==
  ASSUME IInv, [Next]_vars
  PROVE  IInv'
<1>1. CASE UNCHANGED vars \/ Faults
  <2>1. UNCHANGED <<phase, pc, srv, signalled, run>>
    <3>1. CASE UNCHANGED vars
      BY <3>1 DEF vars, poolVars
    <3>2. CASE Faults
      BY <3>2 DEF Faults, Pool!Desync, Pool!Crash, Pool!reqVars
    <3> QED BY <1>1, <3>1, <3>2
  <2>2. CloseInv' /\ srv' \in Srvs /\ signalled' \in BOOLEAN
    BY <2>1 DEF IInv, TypeOK, CloseInv
  <2> QED BY <2>1, <2>2, SameRuns
<1>2. CASE Serve
  BY <1>2, ServeStep
<1>3. ASSUME NEW r \in Requests, Handle(r)
      PROVE  IInv'
  BY <1>3, ArriveStep, LocalStep, PoolStep DEF Handle
<1> QED BY <1>1, <1>2, <1>3 DEF Next

LEMMA InitStep == Init => IInv
<1> SUFFICES ASSUME Init PROVE IInv
  OBVIOUS
<1> DEFINE u == [step |-> "idle", kind |-> "good", timeout |-> 30,
                 limit |-> Limit(30), reply |-> "none"]
<1>1. u \in Runs /\ u.step = "idle" /\ u.timeout = 30 /\ u.limit = Limit(30)
  BY LimitFacts DEF Runs, Steps
<1>2. run = [r \in Requests |-> u]
  BY DEF Init
<1> HIDE DEF u
<1>3. /\ pc = [r \in Requests |-> "idle"] /\ phase = "starting"
      /\ srv = "booting" /\ signalled = FALSE
  BY DEF Init, Pool!Init
<1>4. RunType(u, "idle") /\ Kept(u) /\ Replies(u)
  BY <1>1, LimitFacts DEF RunType, Kept, Replies
<1>5. run \in [Requests -> Runs] /\ pc \in [Requests -> Pool!PCs]
  BY <1>1, <1>2, <1>3 DEF Pool!PCs
<1>6. CloseInv
  BY <1>3 DEF CloseInv
<1> QED BY <1>2, <1>3, <1>4, <1>5, <1>6, PerRequest DEF Srvs

\* The server keeps its invariant for any number of requests and workers: of
\* the pool only that nothing but Close ends it is used.
THEOREM Invariance == Spec => []IInv
<1>1. IInv /\ [Next]_vars => IInv'
  BY NextStep
<1> QED BY <1>1, InitStep, PTL DEF Spec

\* A request that is not being run holds no worker and waits for none.
THEOREM TypeCorrect == Spec => []TypeOK
<1>1. IInv => TypeOK
  BY DEF IInv
<1> QED BY <1>1, Invariance, PTL

\* No run has more time than its client has asked for.
THEOREM Deadlines == Spec => []DeadlineKept
<1>1. IInv => DeadlineKept
  BY DEF IInv
<1> QED BY <1>1, Invariance, PTL
-----------------------------------------------------------------------------
(* The server implements RunService *)

Client == [r \in Requests |-> ClientView(run[r])]
Kind   == [r \in Requests |-> run[r].kind]
Reply  == [r \in Requests |-> ReplyView(run[r])]

\* What the client of r sees when its handling becomes u; the others see nothing.
LEMMA ViewStep ==
  ASSUME IInv, NEW r \in Requests, NEW u, run' = [run EXCEPT ![r] = u]
  PROVE  /\ Client' = [Client EXCEPT ![r] = ClientView(u)]
         /\ Kind' = [Kind EXCEPT ![r] = u.kind]
         /\ Reply' = [Reply EXCEPT ![r] = ReplyView(u)]
<1>1. run \in [Requests -> Runs]
  BY DEF IInv, TypeOK
<1>2. run'[r] = u /\ \A q \in Requests \ {r} : run'[q] = run[q]
  BY <1>1
<1>3. \A q \in Requests : /\ Client'[q] = IF q = r THEN ClientView(u) ELSE Client[q]
                          /\ Kind'[q] = IF q = r THEN u.kind ELSE Kind[q]
                          /\ Reply'[q] = IF q = r THEN ReplyView(u) ELSE Reply[q]
  BY <1>2 DEF Client, Kind, Reply, ClientView, ReplyView
<1> QED BY <1>3 DEF Client, Kind, Reply

\* ... and when it goes on at step.
LEMMA GoesView ==
  ASSUME IInv, NEW r \in Requests, NEW step, NEW reply, Goes(r, step, reply)
  PROVE  /\ Client' = [Client EXCEPT ![r] = IF step \in {"idle", "answered", "cut"}
                                            THEN step ELSE "sent"]
         /\ Kind' = Kind
         /\ Reply' = [Reply EXCEPT ![r] = IF step = "answered" THEN reply ELSE "none"]
<1> DEFINE u == [step |-> step, kind |-> run[r].kind, timeout |-> run[r].timeout,
                 limit |-> run[r].limit, reply |-> reply]
<1>1. run' = [run EXCEPT ![r] = u]
  BY DEF Goes
<1>2. u.step = step /\ u.kind = Kind[r] /\ u.reply = reply
  BY DEF Kind
<1> HIDE DEF u
<1>3. [Kind EXCEPT ![r] = u.kind] = Kind
  BY <1>2 DEF Kind
<1> QED BY <1>1, <1>2, <1>3, ViewStep DEF ClientView, ReplyView

\* A step after which the client of r still waits is none of RunService.
LEMMA SentStutters ==
  ASSUME IInv, NEW r \in Requests, NEW step, NEW reply, Goes(r, step, reply),
         run[r].step \notin {"idle", "answered", "cut"},
         step \notin {"idle", "answered", "cut"}, srv' = srv
  PROVE  UNCHANGED Service!serviceVars
<1>1. Client[r] = "sent" /\ Reply[r] = "none"
  BY DEF Client, Reply, ClientView, ReplyView
<1>2. Client' = Client /\ Reply' = Reply /\ Kind' = Kind
  BY <1>1, GoesView DEF Client, Reply
<1> QED BY <1>2 DEF Service!serviceVars, Client, Reply, Kind, ServerView

LEMMA HandleRefines ==
  ASSUME IInv, NEW r \in Requests, Handle(r)
  PROVE  [Service!Next]_(Service!serviceVars)
<1>0. ServerView \in {"up", "stopping", "down"} /\ (ServerView = "down" <=> srv = "exited")
  BY DEF IInv, TypeOK, Srvs, ServerView
<1>1. CASE Arrive(r)
  <2>1. PICK k \in Service!Kinds :
           \E t \in IF k = "good" THEN Timeouts ELSE {30} :
              run' = [run EXCEPT ![r] = [step |-> "handling", kind |-> k, timeout |-> t,
                                         limit |-> Limit(t), reply |-> "none"]]
    BY <1>1 DEF Arrive, Service!Kinds
  <2>2. PICK t \in IF k = "good" THEN Timeouts ELSE {30} :
           run' = [run EXCEPT ![r] = [step |-> "handling", kind |-> k, timeout |-> t,
                                      limit |-> Limit(t), reply |-> "none"]]
    BY <2>1
  <2> DEFINE u == [step |-> "handling", kind |-> k, timeout |-> t,
                   limit |-> Limit(t), reply |-> "none"]
  <2>3. u.kind = k /\ ClientView(u) = "sent" /\ ReplyView(u) = "none"
    BY DEF ClientView, ReplyView
  <2>4. run' = [run EXCEPT ![r] = u]
    BY <2>2
  <2> HIDE DEF u
  <2>5. /\ Client' = [Client EXCEPT ![r] = "sent"]
        /\ Kind' = [Kind EXCEPT ![r] = k]
        /\ Reply' = [Reply EXCEPT ![r] = "none"]
    <3>1. /\ Client' = [Client EXCEPT ![r] = ClientView(u)]
          /\ Kind' = [Kind EXCEPT ![r] = u.kind]
          /\ Reply' = [Reply EXCEPT ![r] = ReplyView(u)]
      BY <2>4, ViewStep
    <3> QED BY <2>3, <3>1
  <2>6. Client[r] \in {"idle", "answered"} /\ srv = "serving" /\ srv' = srv
    BY <1>1 DEF Arrive, Client, ClientView
  <2>7. Service!Send(r)
    BY <2>5, <2>6 DEF Service!Send, ServerView, Client, Kind, Reply
  <2> QED BY <2>7 DEF Service!Next
<1>2. CASE Answer(r)
  <2>1. /\ Client' = [Client EXCEPT ![r] = "answered"] /\ Kind' = Kind
        /\ Reply' = [Reply EXCEPT ![r] = run[r].reply]
    BY <1>2, GoesView DEF Answer
  <2>2. Client[r] = "sent" /\ srv # "exited" /\ srv' = srv
    BY <1>2 DEF Answer, Client, ClientView
  <2>3. run[r].reply \in Service!Befitting(Kind[r])
    BY <1>2, RunFacts DEF Answer, Replies, Kind
  <2>4. Service!Answer(r)
    BY <1>0, <2>1, <2>2, <2>3 DEF Service!Answer, ServerView, Client, Kind, Reply
  <2> QED BY <2>4 DEF Service!Next
<1>3. CASE Panics(r)
  <2>1. /\ Client' = [Client EXCEPT ![r] = "cut"] /\ Kind' = Kind
        /\ Reply' = [Reply EXCEPT ![r] = "none"]
    BY <1>3, GoesView DEF Panics
  <2>2. Client[r] = "sent" /\ Reply[r] = "none" /\ srv # "exited" /\ srv' = srv
    BY <1>3 DEF Panics, Client, Reply, ClientView, ReplyView
  <2>3. phase \in {"draining", "closed"}
    BY <1>3, MovesFacts DEF Panics
  <2>4. srv \in {"closing", "closed"}
    BY <2>2, <2>3 DEF IInv, TypeOK, CloseInv, Srvs
  <2>5. Reply' = Reply
    BY <2>1, <2>2 DEF Reply
  <2>6. Service!Cut(r)
    BY <2>1, <2>2, <2>4, <2>5 DEF Service!Cut, ServerView, Client, Kind, Reply
  <2> QED BY <2>6 DEF Service!Next
<1>4. CASE Refuse(r) \/ Accept(r) \/ NoRun(r) \/ Enters(r) \/ AcquireFails(r)
           \/ RunEnds(r) \/ Releases(r)
  <2>1. PICK step \in Steps \ {"idle", "answered", "cut"} :
           \E reply : Goes(r, step, reply)
    BY <1>4 DEF Refuse, Accept, NoRun, Enters, AcquireFails, RunEnds, Releases, Steps
  <2>2. run[r].step \notin {"idle", "answered", "cut"} /\ srv' = srv
    BY <1>4 DEF Refuse, Accept, NoRun, Enters, AcquireFails, RunEnds, Releases
  <2> QED BY <2>1, <2>2, SentStutters
<1>5. CASE Acquires(r) \/ ReleaseChecks(r)
  BY <1>5 DEF Acquires, ReleaseChecks, Service!serviceVars, ServerView, ClientView, ReplyView
<1> QED BY <1>1, <1>2, <1>3, <1>4, <1>5 DEF Handle

LEMMA ServeRefines ==
  ASSUME IInv, Serve
  PROVE  [Service!Next]_(Service!serviceVars)
<1> USE DEF Service!serviceVars, ClientView, ReplyView, ServerView
<1>0. srv \in Srvs
  BY DEF IInv, TypeOK
<1>1. CASE /\ UNCHANGED <<run, srv>>
  BY <1>1
<1>2. CASE BootReturns
  BY <1>2 DEF BootReturns
<1>3. CASE ServeReturns
  BY <1>3 DEF ServeReturns, Service!Next, Service!Stop
<1>4. CASE RuntimeCloses
  BY <1>4 DEF RuntimeCloses
<1>5. ASSUME srv # "exited", srv' = "exited",
             Client' = [r \in Requests |-> IF Client[r] = "sent" THEN "cut" ELSE Client[r]],
             Kind' = Kind, Reply' = Reply
      PROVE  Service!Next
  <2>1. ServerView # "down" /\ ServerView' = "down"
    BY <1>0, <1>5 DEF Srvs
  <2> QED BY <1>5, <2>1 DEF Service!Next, Service!Exit, Client, Kind, Reply
<1>6. CASE BootFails \/ Exit \/ ServeFails
  <2>1. /\ srv # "exited" /\ srv' = "exited"
        /\ run' = [r \in Requests |->
                      IF run[r].step \in {"idle", "answered", "cut"} THEN run[r]
                      ELSE [run[r] EXCEPT !.step = "cut"]]
    BY <1>6 DEF BootFails, Exit, ServeFails, ProcessEnds
  <2>2. ASSUME NEW r \in Requests
        PROVE  /\ Client'[r] = IF Client[r] = "sent" THEN "cut" ELSE Client[r]
               /\ Kind'[r] = Kind[r] /\ Reply'[r] = Reply[r]
    BY <2>1, <2>2, RunFacts DEF Client, Kind, Reply, Runs, Steps
  <2> QED BY <1>5, <2>1, <2>2 DEF Client, Kind, Reply
<1>7. CASE Boots \/ Signal \/ Closes \/ \E w \in alive : WorkerLeaves(w)
  BY <1>1, <1>7 DEF Boots, Signal, Closes, WorkerLeaves
<1> QED BY <1>2, <1>3, <1>4, <1>6, <1>7 DEF Serve

LEMMA InitRefines == Init => Service!Init
BY DEF Init, Service!Init, ClientView, ReplyView, ServerView

\* For any number of requests and workers the server is a RunService: every
\* step of pool, handler and main is one of it, or one no client sees.
THEOREM Refinement == Spec => ServiceSpec
<1>1. IInv /\ [Next]_vars => [Service!Next]_(Service!serviceVars)
  <2> SUFFICES ASSUME IInv, [Next]_vars
               PROVE  [Service!Next]_(Service!serviceVars)
    OBVIOUS
  <2>1. CASE UNCHANGED vars \/ Faults
    BY <2>1 DEF vars, Faults, Service!serviceVars, ClientView, ReplyView, ServerView
  <2> QED BY <2>1, HandleRefines, ServeRefines DEF Next
<1> QED BY <1>1, Invariance, InitRefines, PTL DEF Spec, ServiceSpec, Service!Spec
-----------------------------------------------------------------------------
(* The pool inside the server is the pool of WorkerPool: what is proved of   *)
(* that one alone holds of it, whatever the handlers and serve do.           *)

PoolFacts == INSTANCE WorkerPoolProofs

\* The assumptions of the pool are those of the server.
LEMMA SameAssumptions ==
  /\ Size \in Nat \ {0} /\ PoolFacts!IsFiniteSet(Requests)
  /\ MaxFaults \in Nat /\ MaxSpawnFailures \in Nat
BY PoolAssumption DEF PoolFacts!IsFiniteSet, IsFiniteSet

\* Both instances of the pool begin in the same states.
LEMMA SameInit == Pool!Init <=> PoolFacts!Init
BY DEF Pool!Init, PoolFacts!Init, Pool!NoWorker, PoolFacts!NoWorker

\* Theirs are the same steps.
LEMMA SameNext == [Pool!Next]_(Pool!vars) <=> [PoolFacts!Next]_(PoolFacts!vars)
BY DEF Pool!Next, PoolFacts!Next, Pool!Boot, PoolFacts!Boot, Pool!BootSpawn,
       PoolFacts!BootSpawn, Pool!BootReady, PoolFacts!BootReady,
       Pool!BootError, PoolFacts!BootError, Pool!NewPoolFails,
       PoolFacts!NewPoolFails, Pool!NewPoolReturns, PoolFacts!NewPoolReturns,
       Pool!AllReported, PoolFacts!AllReported, Pool!Acquire,
       PoolFacts!Acquire, Pool!Enter, PoolFacts!Enter, Pool!Receive,
       PoolFacts!Receive, Pool!ReceiveNil, PoolFacts!ReceiveNil, Pool!CtxDone,
       PoolFacts!CtxDone, Pool!Ping, PoolFacts!Ping, Pool!Replace,
       PoolFacts!Replace, Pool!SpawnReady, PoolFacts!SpawnReady,
       Pool!SpawnError, PoolFacts!SpawnError, Pool!Release, PoolFacts!Release,
       Pool!ReleaseClosed, PoolFacts!ReleaseClosed, Pool!ReleaseCheck,
       PoolFacts!ReleaseCheck, Pool!ReleaseSend, PoolFacts!ReleaseSend,
       Pool!ReleasePanics, PoolFacts!ReleasePanics, Pool!Desync,
       PoolFacts!Desync, Pool!Crash, PoolFacts!Crash, Pool!Close,
       PoolFacts!Close, Pool!CloseFlag, PoolFacts!CloseFlag, Pool!CloseChan,
       PoolFacts!CloseChan, Pool!CloseDrain, PoolFacts!CloseDrain,
       Pool!CloseReturns, PoolFacts!CloseReturns, Pool!ProcessUp,
       PoolFacts!ProcessUp, Pool!ProcessFailed, PoolFacts!ProcessFailed,
       Pool!ShutdownAll, PoolFacts!ShutdownAll, Pool!Forget, PoolFacts!Forget,
       Pool!Closed, PoolFacts!Closed, Pool!ChanClosed, PoolFacts!ChanClosed,
       Pool!Booted, PoolFacts!Booted, Pool!ToSet, PoolFacts!ToSet,
       Pool!NoWorker, PoolFacts!NoWorker, Pool!vars, PoolFacts!vars,
       Pool!bootVars, PoolFacts!bootVars, Pool!reqVars, PoolFacts!reqVars,
       Pool!procVars, PoolFacts!procVars, Pool!envVars, PoolFacts!envVars

\* And the same properties.
LEMMA SameProperties ==
  /\ Pool!ExclusiveOwnership <=> PoolFacts!ExclusiveOwnership
  /\ Pool!SlotAccounting <=> PoolFacts!SlotAccounting
  /\ Pool!DefaultUnreachable <=> PoolFacts!DefaultUnreachable
  /\ Pool!UsableNotShutDown <=> PoolFacts!UsableNotShutDown
  /\ Pool!NoOrphans <=> PoolFacts!NoOrphans
BY DEF Pool!ExclusiveOwnership, PoolFacts!ExclusiveOwnership,
       Pool!SlotAccounting, PoolFacts!SlotAccounting, Pool!DefaultUnreachable,
       PoolFacts!DefaultUnreachable, Pool!UsableNotShutDown,
       PoolFacts!UsableNotShutDown, Pool!NoOrphans, PoolFacts!NoOrphans,
       Pool!Owners, PoolFacts!Owners, Pool!Owned, PoolFacts!Owned, Pool!Queued,
       PoolFacts!Queued, Pool!Booted, PoolFacts!Booted, Pool!ToSet,
       PoolFacts!ToSet, Pool!IsInjective, PoolFacts!IsInjective,
       Pool!ChanClosed, PoolFacts!ChanClosed, Pool!NoWorker,
       PoolFacts!NoWorker, Pool!Cardinality, PoolFacts!Cardinality

\* A worker process leaves when the process of the server is gone.
WorkerGone ==
    /\ \E w \in alive : alive' = alive \ {w} /\ serving' = serving \ {w}
    /\ UNCHANGED <<phase, nextSockID, booting, started, bootFailed, workers, pc,
                   wk, stopped, faults, spawnFails>>

\* Nothing else in the server touches the pool but by a step of the pool.
LEMMA PoolMoves == [Next]_vars => [Pool!Next]_(Pool!vars) \/ WorkerGone
<1> SUFFICES ASSUME [Next]_vars  PROVE Pool!Next \/ UNCHANGED Pool!vars \/ WorkerGone
  OBVIOUS
<1>1. UNCHANGED poolVars => UNCHANGED Pool!vars
  BY DEF poolVars, Pool!vars, Pool!bootVars, Pool!reqVars, Pool!procVars, Pool!envVars
<1>2. CASE UNCHANGED vars
  BY <1>1, <1>2 DEF vars
<1>3. CASE Faults
  BY <1>3 DEF Faults, Pool!Next
<1>4. CASE Serve
  <2>1. ASSUME NEW w \in alive, WorkerLeaves(w)  PROVE WorkerGone
    BY <2>1 DEF WorkerLeaves, WorkerGone
  <2>2. CASE Boots \/ Closes
    BY <2>2 DEF Boots, Closes, Pool!Next
  <2>3. CASE \/ BootReturns \/ BootFails \/ Signal \/ ServeReturns
             \/ RuntimeCloses \/ Exit \/ ServeFails
    BY <1>1, <2>3 DEF BootReturns, BootFails, Signal, ServeReturns, RuntimeCloses,
       Exit, ServeFails, ProcessEnds
  <2> QED BY <1>4, <2>1, <2>2, <2>3 DEF Serve
<1>5. ASSUME NEW r \in Requests, Handle(r)
      PROVE  Pool!Next \/ UNCHANGED Pool!vars
  <2>1. CASE Arrive(r) \/ Refuse(r) \/ Accept(r) \/ NoRun(r) \/ RunEnds(r) \/ Answer(r)
    BY <1>1, <2>1 DEF Arrive, Refuse, Accept, NoRun, RunEnds, Answer
  <2>2. CASE Enters(r) \/ Acquires(r) \/ AcquireFails(r)
    BY <2>2 DEF Enters, Acquires, AcquireFails, Pool!Next, Pool!Acquire
  <2>3. CASE ReleaseChecks(r) \/ Releases(r)
    BY <2>3 DEF ReleaseChecks, Releases, Pool!Next, Pool!Release
  <2>4. CASE Panics(r)
    BY <2>4 DEF Panics, Pool!Next, Pool!Acquire, Pool!Release
  <2> QED BY <1>5, <2>1, <2>2, <2>3, <2>4 DEF Handle
<1> QED BY <1>2, <1>3, <1>4, <1>5 DEF Next

\* The inductive invariant of the pool holds inside the server.
LEMMA PoolInvariance == Spec => []PoolFacts!IInv
<1>1. Init => PoolFacts!IInv
  BY SameInit, SameAssumptions, PoolFacts!InitStep DEF Init
<1>2. PoolFacts!IInv /\ [Next]_vars => PoolFacts!IInv'
  <2> SUFFICES ASSUME PoolFacts!IInv, [Next]_vars  PROVE PoolFacts!IInv'
    OBVIOUS
  <2>1. CASE [Pool!Next]_(Pool!vars)
    BY <2>1, SameNext, SameAssumptions, PoolFacts!NextStep
  <2>2. CASE WorkerGone
    <3>1. UNCHANGED <<phase, nextSockID, PoolFacts!bootVars, workers,
                      PoolFacts!reqVars, stopped, PoolFacts!envVars>>
      BY <2>2 DEF WorkerGone, PoolFacts!bootVars, PoolFacts!reqVars, PoolFacts!envVars
    <3>2. \E w \in alive : alive' = alive \ {w} /\ serving' = serving \ {w}
      BY <2>2 DEF WorkerGone
    <3> QED BY <3>1, <3>2, SameAssumptions, PoolFacts!LeaveStep
  <2> QED BY <2>1, <2>2, PoolMoves
<1> QED BY <1>1, <1>2, PTL DEF Spec

\* Whatever requests come and go, while the server starts, stops and cuts them
\* off: no two runs share a worker, none uses one that was shut down, until Close
\* only failed replacements lose slots, and release always finds room.  As long
\* as the server's own process runs, every worker process is within reach of code
\* that stops it, but for the workers of requests whose send on the closed channel
\* has panicked, which net/http recovers.
THEOREM PoolSafe ==
    Spec => [](/\ Pool!ExclusiveOwnership
               /\ Pool!UsableNotShutDown
               /\ Pool!SlotAccounting
               /\ Pool!DefaultUnreachable
               /\ srv # "exited" => Pool!NoOrphans)
<1>1. PoolFacts!IInv => /\ Pool!ExclusiveOwnership /\ Pool!UsableNotShutDown
                        /\ Pool!SlotAccounting /\ Pool!DefaultUnreachable
                        /\ srv # "exited" => Pool!NoOrphans
  BY SameAssumptions, SameProperties, PoolFacts!ExclusiveFacts, PoolFacts!UsableFacts,
     PoolFacts!RoomFacts, PoolFacts!ReachFacts
     DEF PoolFacts!IInv, PoolFacts!SlotInv
<1> QED BY <1>1, PoolInvariance, PTL

\* And the same leases.
LEMMA SameLease ==
  /\ Pool!Lease!Init <=> PoolFacts!Lease!Init
  /\ [Pool!Lease!Next]_(Pool!Lease!leaseVars)
        <=> [PoolFacts!Lease!Next]_(PoolFacts!Lease!leaseVars)
BY DEF Pool!Lease!Init, PoolFacts!Lease!Init, Pool!Lease!Next,
       PoolFacts!Lease!Next, Pool!Lease!leaseVars, PoolFacts!Lease!leaseVars,
       Pool!Lease!Issue, PoolFacts!Lease!Issue, Pool!Lease!Stock,
       PoolFacts!Lease!Stock, Pool!Lease!Retire, PoolFacts!Lease!Retire,
       Pool!Lease!Take, PoolFacts!Lease!Take, Pool!Lease!Swap,
       PoolFacts!Lease!Swap, Pool!Lease!Return, PoolFacts!Lease!Return,
       Pool!Lease!Discard, PoolFacts!Lease!Discard, Pool!Lease!None,
       PoolFacts!Lease!None, Pool!Lease!Leased, PoolFacts!Lease!Leased,
       Pool!Lease!Unused, PoolFacts!Lease!Unused, Pool!Queued,
       PoolFacts!Queued, Pool!ToSet, PoolFacts!ToSet

\* The pool inside the server implements the lease, also when the server ends
\* at a moment the pool does not know of: a worker that leaves then, leaves as
\* one that dies in its place.
THEOREM PoolRefinement == Spec => Pool!LeaseSpec
<1>1. Init => Pool!Lease!Init
  BY SameInit, SameLease, SameAssumptions, PoolFacts!LeaseInit DEF Init
<1>2. PoolFacts!IInv /\ [Next]_vars => [Pool!Lease!Next]_(Pool!Lease!leaseVars)
  <2> SUFFICES ASSUME PoolFacts!IInv, [Next]_vars
               PROVE  [Pool!Lease!Next]_(Pool!Lease!leaseVars)
    OBVIOUS
  <2>1. CASE [Pool!Next]_(Pool!vars)
    BY <2>1, SameNext, SameLease, SameAssumptions, PoolFacts!LeaseStep
  <2>2. CASE WorkerGone
    BY <2>2 DEF WorkerGone, Pool!Lease!leaseVars, Pool!Queued
  <2> QED BY <2>1, <2>2, PoolMoves
<1> QED BY <1>1, <1>2, PoolInvariance, PTL DEF Spec, Pool!LeaseSpec, Pool!Lease!Spec
=============================================================================
