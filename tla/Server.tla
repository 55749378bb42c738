------------------------------- MODULE Server -------------------------------
(***************************************************************************)
(* The server: serve of cmd/chrysalis/main.go, the handler of POST /run    *)
(* (internal/handler), Pool.Run and Pool.Close of internal/pool, over the  *)
(* worker pool of WorkerPool.  What a run does with its worker is Bridge's *)
(* matter: here it ends some time, in one of the ways handleRun tells      *)
(* apart.                                                                  *)
(***************************************************************************)
EXTENDS Integers, Sequences, FiniteSets

CONSTANTS Requests, Size, MaxFaults, MaxSpawnFailures,   \* as in WorkerPool
          Timeouts,   \* the values of timeout_sec that clients send
          Second,     \* time.Second
          Half        \* 2^63: int and time.Duration hold -Half .. Half - 1

ASSUME PoolAssumption == /\ Size \in Nat \ {0} /\ IsFiniteSet(Requests)
                         /\ MaxFaults \in Nat /\ MaxSpawnFailures \in Nat
ASSUME TimeoutsAssumption == Timeouts \subseteq -Half..(Half - 1)
ASSUME UnitsAssumption == Second \in Nat \ {0} /\ Half \in Nat /\ Half > 35 * Second

VARIABLES
    phase, nextSockID, booting, started, bootFailed, workers, pc, wk,
    alive, serving, stopped, faults, spawnFails,   \* as in WorkerPool
    srv,         \* where serve is
    signalled,   \* the context of NotifyContext is done
    run          \* the handling of each request

Pool == INSTANCE WorkerPool

poolVars == <<phase, nextSockID, booting, started, bootFailed, workers, pc, wk,
              alive, serving, stopped, faults, spawnFails>>
vars == <<poolVars, srv, signalled, run>>

\* booting: in pool.New.  serving: in ListenAndServe.  closing: in wkPool.Close.
\* closed: the runtime is closed.  exited: the process is gone.
Srvs == {"booting", "serving", "closing", "closed", "exited"}

\* handling: in handleRun.  filtering: in LoadFilter.  acquiring: in Acquire, or
\* with its worker.  releasing: the run is over.  answering: in writeJSON.
Steps == {"idle", "handling", "filtering", "acquiring", "releasing",
          "answering", "answered", "cut"}
-----------------------------------------------------------------------------
(* Deadlines *)

\* Integers of 64 bits.
Wrap(n) == ((n + Half) % (2 * Half)) - Half

\* handleRun and Run replace what is not positive.
Seconds(t) == IF t <= 0 THEN 30 ELSE t

\* The context of handleRun, and that of Run within it: the earlier one counts.
HandlerLimit(t) == Wrap(Wrap(Seconds(t) + 5) * Second)
PoolLimit(t) == Wrap(Seconds(t) * Second)

\* Faulty variant: Pool.Run relies on the deadline of handleRun.
Limit_HandlerOnly(t) == HandlerLimit(t)

Limit(t) == IF HandlerLimit(t) < PoolLimit(t) THEN HandlerLimit(t) ELSE PoolLimit(t)

\* How a run ends (RunResult.Error), and what translateExecError makes of it
\* when the program has, or has not, written to stderr.
Ends == {"none", "exit", "deadline", "other"}
Translate(end, stderr) ==
    CASE end = "none"     -> "ok"
      [] end # "none" /\ stderr -> "stderr"
      [] end = "exit" /\ ~stderr -> "exited"
      [] end = "deadline" /\ ~stderr -> "timed out"
      [] end = "other" /\ ~stderr -> "raw"

Init ==
    /\ Pool!Init
    /\ srv = "booting"
    /\ signalled = FALSE
    /\ run = [r \in Requests |-> [step |-> "idle", kind |-> "good", timeout |-> 30,
                                  limit |-> Limit(30), reply |-> "none"]]

\* The handling of r goes on at step, and reply is what it has decided on.
Goes(r, step, reply) ==
    run' = [run EXCEPT ![r] = [step |-> step, kind |-> run[r].kind,
                               timeout |-> run[r].timeout, limit |-> run[r].limit,
                               reply |-> reply]]
-----------------------------------------------------------------------------
(* Faulty variants: what plausible mistakes would make of the definitions    *)
(* below.                                                                    *)

\* An error of Acquire is returned without an answer.
AcquireFails_NoAnswer(r) ==
    /\ srv # "exited" /\ run[r].step = "acquiring"
    /\ Pool!CtxDone(r) \/ Pool!SpawnError(r)
    /\ UNCHANGED <<srv, signalled, run>>

\* serve waits for the requests in progress before it closes the pool.
RuntimeCloses_Waits ==
    /\ srv = "closing" /\ phase = "closed"
    /\ \A r \in Requests : run[r].step \in {"idle", "answered"}
    /\ srv' = "closed"
    /\ UNCHANGED <<poolVars, signalled, run>>

\* The handler goes on after it has written an error.
Refuse_GoesOn(r) ==
    /\ srv # "exited" /\ run[r].step = "handling" /\ run[r].kind # "good"
    /\ Goes(r, "filtering", "none")
    /\ UNCHANGED <<poolVars, srv, signalled>>
-----------------------------------------------------------------------------
(* serve *)

\* pool.New, which heeds no signal.
Boots ==
    /\ srv = "booting"
    /\ Pool!Boot
    /\ UNCHANGED <<srv, signalled, run>>

BootReturns ==
    /\ srv = "booting" /\ phase = "open"
    /\ srv' = "serving"
    /\ UNCHANGED <<poolVars, signalled, run>>

Signal ==
    /\ ~signalled /\ srv # "exited"
    /\ signalled' = TRUE
    /\ UNCHANGED <<poolVars, srv, run>>

\* Shutdown closes the listeners, and ListenAndServe returns at once, whatever
\* requests are in progress.
ServeReturns ==
    /\ srv = "serving" /\ signalled
    /\ srv' = "closing"
    /\ UNCHANGED <<poolVars, signalled, run>>

\* The deferred p.Close: the workers, then the runtime.
Closes ==
    /\ srv = "closing"
    /\ Pool!Close
    /\ UNCHANGED <<srv, signalled, run>>

RuntimeCloses ==
    /\ srv = "closing" /\ phase = "closed"
    /\ srv' = "closed"
    /\ UNCHANGED <<poolVars, signalled, run>>

\* The process is gone, and with it every connection.
ProcessEnds ==
    /\ srv' = "exited"
    /\ run' = [r \in Requests |->
                  IF run[r].step \in {"idle", "answered", "cut"} THEN run[r]
                  ELSE [run[r] EXCEPT !.step = "cut"]]
    /\ UNCHANGED <<poolVars, signalled>>

\* serve returns; or log.Fatalf runs nothing deferred, when pool.New or the
\* listener fails.
Exit == srv = "closed" /\ ProcessEnds
BootFails == srv = "booting" /\ phase = "failed" /\ ProcessEnds
ServeFails == srv = "serving" /\ ProcessEnds

\* worker.py sees the end of its connection and leaves its loop.
WorkerLeaves(w) ==
    /\ srv = "exited"
    /\ w \in alive
    /\ alive' = alive \ {w} /\ serving' = serving \ {w}
    /\ UNCHANGED <<phase, nextSockID, booting, started, bootFailed, workers, pc,
                   wk, stopped, faults, spawnFails, srv, signalled, run>>
-----------------------------------------------------------------------------
(* Requests *)

\* A request comes in; of one that is to be run the context is made.
Arrive(r) ==
    /\ srv = "serving" /\ run[r].step \in {"idle", "answered"}
    /\ \E kind \in {"bad", "unsafe", "good"} :
       \E t \in IF kind = "good" THEN Timeouts ELSE {30} :
          run' = [run EXCEPT ![r] = [step |-> "handling", kind |-> kind,
                                     timeout |-> t, limit |-> Limit(t),
                                     reply |-> "none"]]
    /\ UNCHANGED <<poolVars, srv, signalled>>

\* No JSON or no code; or safety.Check has found something.
Refuse(r) ==
    /\ srv # "exited" /\ run[r].step = "handling"
    /\ \/ run[r].kind = "bad"    /\ Goes(r, "answering", "400")
       \/ run[r].kind = "unsafe" /\ Goes(r, "answering", "403")
    /\ UNCHANGED <<poolVars, srv, signalled>>

Accept(r) ==
    /\ srv # "exited" /\ run[r].step = "handling" /\ run[r].kind = "good"
    /\ Goes(r, "filtering", "none")
    /\ UNCHANGED <<poolVars, srv, signalled>>

\* The profile cannot be loaded, or the pool has been closed.
NoRun(r) ==
    /\ srv # "exited" /\ run[r].step = "filtering"
    /\ Goes(r, "answering", "500")
    /\ UNCHANGED <<poolVars, srv, signalled>>

Enters(r) ==
    /\ srv # "exited" /\ run[r].step = "filtering"
    /\ Pool!Enter(r)
    /\ Goes(r, "acquiring", "none")
    /\ UNCHANGED <<srv, signalled>>

\* A step of Acquire after which the request is still in it, or has its worker.
Acquires(r) ==
    /\ srv # "exited" /\ run[r].step = "acquiring"
    /\ \/ Pool!Receive(r) \/ Pool!Ping(r) \/ Pool!Replace(r) \/ Pool!SpawnReady(r)
    /\ UNCHANGED <<srv, signalled, run>>

\* Acquire returns an error.
AcquireFails(r) ==
    /\ srv # "exited" /\ run[r].step = "acquiring"
    /\ Pool!CtxDone(r) \/ Pool!SpawnError(r)
    /\ Goes(r, "answering", "500")
    /\ UNCHANGED <<srv, signalled>>

\* The run ends: by itself, by its deadline, or because the runtime is closed.
RunEnds(r) ==
    /\ srv # "exited" /\ run[r].step = "acquiring" /\ pc[r] = "holding"
    /\ \E end \in Ends, stderr \in BOOLEAN :
          Goes(r, "releasing", Translate(end, stderr))
    /\ UNCHANGED <<poolVars, srv, signalled>>

ReleaseChecks(r) ==
    /\ srv # "exited" /\ run[r].step = "releasing"
    /\ Pool!ReleaseCheck(r)
    /\ UNCHANGED <<srv, signalled, run>>

\* The deferred release, before Run returns.
Releases(r) ==
    /\ srv # "exited" /\ run[r].step = "releasing"
    /\ Pool!ReleaseClosed(r) \/ Pool!ReleaseSend(r)
    /\ Goes(r, "answering", run[r].reply)
    /\ UNCHANGED <<srv, signalled>>

\* net/http recovers a panic of Acquire or release and cuts the connection.
Panics(r) ==
    /\ srv # "exited" /\ run[r].step \in {"acquiring", "releasing"}
    /\ Pool!ReceiveNil(r) \/ Pool!ReleasePanics(r)
    /\ Goes(r, "cut", "none")
    /\ UNCHANGED <<srv, signalled>>

Answer(r) ==
    /\ srv # "exited" /\ run[r].step = "answering"
    /\ Goes(r, "answered", run[r].reply)
    /\ UNCHANGED <<poolVars, srv, signalled>>

\* Faults of worker processes.
Faults ==
    /\ srv # "exited"
    /\ \/ \E r \in Requests : run[r].step = "acquiring" /\ Pool!Desync(r)
       \/ \E w \in alive : Pool!Crash(w)
    /\ UNCHANGED <<srv, signalled, run>>

Serve == \/ Boots \/ BootReturns \/ BootFails \/ Signal \/ ServeReturns
         \/ Closes \/ RuntimeCloses \/ Exit \/ ServeFails
         \/ \E w \in alive : WorkerLeaves(w)

Handle(r) == \/ Arrive(r) \/ Refuse(r) \/ Accept(r) \/ NoRun(r) \/ Enters(r)
             \/ Acquires(r) \/ AcquireFails(r) \/ RunEnds(r)
             \/ ReleaseChecks(r) \/ Releases(r) \/ Panics(r) \/ Answer(r)

Next == Serve \/ Faults \/ \E r \in Requests : Handle(r)

Spec == Init /\ [][Next]_vars

\* Every goroutine goes on.  The deadline of a request that waits for a worker
\* passes, because every request has one; a run ends (Bridge says when it does
\* not).  Nobody has to send a request or a signal, the listener need not fail,
\* and a worker whose server has gone may be in a call that does not end.
Fairness ==
    /\ WF_vars(Boots) /\ WF_vars(BootReturns) /\ WF_vars(BootFails)
    /\ WF_vars(ServeReturns) /\ WF_vars(Closes) /\ WF_vars(RuntimeCloses)
    /\ WF_vars(Exit)
    /\ \A r \in Requests :
          /\ WF_vars(Refuse(r) \/ Accept(r))
          /\ WF_vars(NoRun(r) \/ Enters(r))
          /\ WF_vars(Acquires(r) \/ AcquireFails(r))
          /\ WF_vars(RunEnds(r))
          /\ WF_vars(ReleaseChecks(r) \/ Releases(r))
          /\ WF_vars(Panics(r))
          /\ WF_vars(Answer(r))

FairSpec == Spec /\ Fairness
-----------------------------------------------------------------------------
(* Properties *)

Runs == [step : Steps, kind : {"bad", "unsafe", "good"}, timeout : Int, limit : Int,
         reply : {"none", "400", "403", "500", "ok", "stderr", "exited",
                  "timed out", "raw"}]

\* Every variable of the server has its type, and a request is where its
\* goroutine is in the pool: whatever becomes of the pool, one that is not
\* being run holds no worker and waits for none.
TypeOK ==
    /\ run \in [Requests -> Runs]
    /\ pc \in [Requests -> Pool!PCs]
    /\ srv \in Srvs /\ signalled \in BOOLEAN
    /\ \A r \in Requests :
          /\ run[r].step = "acquiring" =>
                pc[r] \in {"waiting", "pinging", "replacing", "spawning", "holding"}
          /\ run[r].step = "releasing" => pc[r] \in {"holding", "releasing"}
          /\ run[r].step \notin {"acquiring", "releasing", "cut"} => pc[r] = "idle"

\* A run has the time that was asked for, or 30 seconds, and not the five that
\* handleRun adds; never more, and less only where the product of timeout_sec
\* and time.Second leaves 64 bits.
DeadlineKept ==
    \A r \in Requests :
        LET asked == Seconds(run[r].timeout) * Second
        IN /\ run[r].limit <= asked
           /\ asked + 5 * Second < Half => run[r].limit = asked

\* What the clients see of a request and of the server.
ClientView(u) == IF u.step \in {"idle", "answered", "cut"} THEN u.step ELSE "sent"
ReplyView(u) == IF u.step = "answered" THEN u.reply ELSE "none"
ServerView == CASE srv \in {"booting", "serving"} -> "up"
                [] srv \in {"closing", "closed"}  -> "stopping"
                [] srv = "exited"                 -> "down"

\* To its clients the server is a RunService: a request gets one answer and one
\* that befits it, through panics, failed spawns and the end of the pool, and
\* its connection is cut only when the server has stopped.
Service == INSTANCE RunService
    WITH client <- [r \in Requests |-> ClientView(run[r])],
         kind   <- [r \in Requests |-> run[r].kind],
         reply  <- [r \in Requests |-> ReplyView(run[r])],
         server <- ServerView
ServiceSpec == Service!Spec

\* No request hangs: it is answered, or the server ends and cuts it; also when
\* the pool has lost all its workers to failed spawns.
Answered ==
    \A r \in Requests :
        run[r].step = "handling" ~> run[r].step \in {"answered", "cut"}

\* The server ends after a signal, whenever it comes and whatever is running.
SignalEnds == signalled ~> srv = "exited"
-----------------------------------------------------------------------------
(* The inductive invariant *)

\* A request that is run is a good one, and the answer it is to get befits it.
ReplyInv ==
    \A r \in Requests :
        /\ run[r].step \in {"filtering", "acquiring", "releasing"} =>
              run[r].kind = "good"
        /\ run[r].step \in {"releasing", "answering"} =>
              run[r].reply \in Service!Befitting(run[r].kind)

\* Only serve closes the pool.
CloseInv ==
    /\ phase \in {"flagged", "draining", "closed"} => srv \notin {"booting", "serving"}
    /\ \A r \in Requests : pc[r] = "panicked" => srv \notin {"booting", "serving"}

IInv == TypeOK /\ DeadlineKept /\ ReplyInv /\ CloseInv
=============================================================================
