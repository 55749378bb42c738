----------------------------- MODULE WorkerPool -----------------------------
(***************************************************************************)
(* worker.Pool of internal/worker/pool.go: a fixed-size pool of Python     *)
(* worker processes shared by the concurrent /run requests.                *)
(*                                                                         *)
(* A worker is its socket number (spawn takes it from nextSockID), and the *)
(* buffered channel p.workers is the sequence `workers'.  A request is the *)
(* goroutine of one /run: it goes through Acquire, holds its worker while  *)
(* the dispatcher runs, and goes through release.  The goroutines that     *)
(* NewPool starts, the one that calls Close, and the Python processes,     *)
(* which may die or lose step with the protocol at any moment, interleave  *)
(* with the requests at the granularity of channel operations, loads of    *)
(* the `closed' flag and round trips to a worker.                          *)
(***************************************************************************)
EXTENDS Naturals, Sequences, FiniteSets, SequencesExt

CONSTANTS Requests,          \* the goroutines that serve /run
          Size,              \* the size NewPool is given
          MaxFaults,         \* bound: faults of worker processes
          MaxSpawnFailures   \* bound: times Start returns an error

\* NewPool refuses a size below 1.
ASSUME SizeAssumption == Size \in Nat \ {0}
ASSUME RequestsAssumption == IsFiniteSet(Requests)
ASSUME BoundsAssumption == MaxFaults \in Nat /\ MaxSpawnFailures \in Nat

VARIABLES
    phase,        \* what NewPool and Close have done so far
    nextSockID,   \* the counter spawn takes socket numbers from
    booting,      \* NewPool's spawns that have not reported yet
    started,      \* NewPool's started workers, in the order they reported
    bootFailed,   \* NewPool has seen an error
    workers,      \* the buffered channel p.workers
    pc,           \* where each request is
    wk,           \* the worker each request has, or NoWorker
    alive,        \* worker processes that run
    serving,      \* ... and answer in step with the protocol
    stopped,      \* workers Shutdown or Start has killed
    faults,       \* faults so far
    spawnFails    \* failures of Start so far

bootVars == <<booting, started, bootFailed>>
reqVars  == <<pc, wk>>
procVars == <<alive, serving, stopped>>
envVars  == <<faults, spawnFails>>
vars == <<phase, nextSockID, bootVars, workers, reqVars, procVars, envVars>>

NoWorker == 0

\* starting, failed: NewPool.  flagged: closed.Store(true) is done.
\* draining: close(p.workers) is done.  closed: Close has returned.
Phases == {"starting", "failed", "open", "flagged", "draining", "closed"}
Closed     == phase \in {"flagged", "draining", "closed"}
ChanClosed == phase \in {"draining", "closed"}

\* waiting: in the select of Acquire.  pinging: has received, Ping not done.
\* replacing: Ping has failed.  spawning: the replacement is starting.
\* holding: Acquire has returned.  releasing: release has seen ~closed.
\* panicked: the goroutine has died in Acquire or release.
PCs == {"idle", "waiting", "pinging", "replacing", "spawning", "holding",
        "releasing", "panicked"}

Queued == ToSet(workers)
Booted == ToSet(started)
Owners == {r \in Requests : wk[r] # NoWorker}
Owned  == {wk[r] : r \in Owners}

Init ==
    /\ phase = "starting"
    /\ nextSockID = 0
    /\ booting = {}
    /\ started = << >>
    /\ bootFailed = FALSE
    /\ workers = << >>
    /\ pc = [r \in Requests |-> "idle"]
    /\ wk = [r \in Requests |-> NoWorker]
    /\ alive = {}
    /\ serving = {}
    /\ stopped = {}
    /\ faults = 0
    /\ spawnFails = 0
-----------------------------------------------------------------------------
(* Worker processes *)

\* Start has seen the "ready" message of worker w.
ProcessUp(w) ==
    /\ alive' = alive \cup {w}
    /\ serving' = serving \cup {w}
    /\ UNCHANGED <<stopped, envVars>>

\* Start returns an error: the process never ran, never connected or was
\* killed.  Bound: MaxSpawnFailures.
ProcessFailed(w) ==
    /\ spawnFails < MaxSpawnFailures
    /\ spawnFails' = spawnFails + 1
    /\ stopped' = stopped \cup {w}
    /\ UNCHANGED <<alive, serving, faults>>

\* Worker.Shutdown of every worker in ws: it ignores the errors of its round
\* trip, kills the process and waits for it.
ShutdownAll(ws) ==
    /\ alive' = alive \ ws
    /\ serving' = serving \ ws
    /\ stopped' = stopped \cup ws

\* The request is over and has no worker any more.
Forget(r) ==
    /\ pc' = [pc EXCEPT ![r] = "idle"]
    /\ wk' = [wk EXCEPT ![r] = NoWorker]

\* The process dies.  Bound: MaxFaults.
Crash(w) ==
    /\ w \in alive
    /\ faults < MaxFaults
    /\ faults' = faults + 1
    /\ alive' = alive \ {w}
    /\ serving' = serving \ {w}
    /\ UNCHANGED <<phase, nextSockID, bootVars, workers, reqVars, stopped,
                   spawnFails>>

\* recv refuses a reply above 16 MiB without reading its body: whatever is
\* read from this connection afterwards is not a message, so Ping fails,
\* although the process is alive.  Bound: MaxFaults.
Desync(r) ==
    /\ pc[r] = "holding"
    /\ wk[r] \in serving
    /\ faults < MaxFaults
    /\ faults' = faults + 1
    /\ serving' = serving \ {wk[r]}
    /\ UNCHANGED <<phase, nextSockID, bootVars, workers, reqVars, alive,
                   stopped, spawnFails>>
-----------------------------------------------------------------------------
(* Faulty variants: what plausible mistakes would make of the actions below. *)

\* NewPool returns its error without the loop that tears down.
NewPoolFails_NoTeardown ==
    /\ phase = "starting" /\ nextSockID = Size /\ booting = {}
    /\ bootFailed
    /\ phase' = "failed"
    /\ started' = << >>
    /\ UNCHANGED <<nextSockID, booting, bootFailed, workers, reqVars, procVars,
                   envVars>>

\* Ping looks at the process and not at the type of what it receives.
Ping_AnyReply(r) ==
    /\ pc[r] = "pinging"
    /\ pc' = [pc EXCEPT ![r] = IF wk[r] \in alive THEN "holding"
                                                  ELSE "replacing"]
    /\ UNCHANGED <<phase, nextSockID, bootVars, workers, wk, procVars, envVars>>

\* Acquire returns the error of Ping and forgets the worker.
Ping_ErrorReturned(r) ==
    /\ pc[r] = "pinging"
    /\ IF wk[r] \in serving
       THEN /\ pc' = [pc EXCEPT ![r] = "holding"]
            /\ UNCHANGED <<wk, procVars>>
       ELSE Forget(r) /\ ShutdownAll({wk[r]})
    /\ UNCHANGED <<phase, nextSockID, bootVars, workers, envVars>>

\* `wk = replacement' is lost: the worker just shut down is handed out.
Replace_SameWorker(r) ==
    /\ pc[r] = "replacing"
    /\ ShutdownAll({wk[r]})
    /\ pc' = [pc EXCEPT ![r] = "holding"]
    /\ UNCHANGED <<phase, nextSockID, bootVars, workers, wk, envVars>>

\* The counter is read where it should be incremented.
Replace_NumberReused(r) ==
    /\ pc[r] = "replacing"
    /\ ShutdownAll({wk[r]})
    /\ wk' = [wk EXCEPT ![r] = nextSockID]
    /\ pc' = [pc EXCEPT ![r] = "spawning"]
    /\ UNCHANGED <<phase, nextSockID, bootVars, workers, envVars>>

\* The error of spawn is logged and Acquire goes on with a nil worker.
SpawnError_Ignored(r) ==
    /\ pc[r] = "spawning"
    /\ ProcessFailed(wk[r])
    /\ pc' = [pc EXCEPT ![r] = "holding"]
    /\ wk' = [wk EXCEPT ![r] = NoWorker]
    /\ UNCHANGED <<phase, nextSockID, bootVars, workers>>

\* A closed pool just forgets the worker.
ReleaseClosed_NoShutdown(r) ==
    /\ pc[r] = "holding"
    /\ Closed
    /\ Forget(r)
    /\ UNCHANGED <<phase, nextSockID, bootVars, workers, procVars, envVars>>

\* release is called a second time.
ReleaseSend_Twice(r) ==
    /\ pc[r] = "releasing"
    /\ ~ChanClosed
    /\ pc' = [pc EXCEPT ![r] = "holding"]
    /\ UNCHANGED wk
    /\ IF Len(workers) < Size
       THEN /\ workers' = Append(workers, wk[r])
            /\ UNCHANGED procVars
       ELSE /\ ShutdownAll({wk[r]})
            /\ UNCHANGED workers
    /\ UNCHANGED <<phase, nextSockID, bootVars, envVars>>

\* release shuts the worker down instead of putting it back.
ReleaseSend_NotReturned(r) ==
    /\ pc[r] = "releasing"
    /\ ~ChanClosed
    /\ Forget(r)
    /\ ShutdownAll({wk[r]})
    /\ UNCHANGED <<phase, nextSockID, bootVars, workers, envVars>>

\* Close waits for the workers that are out.
CloseReturns_WaitsForOwners ==
    /\ phase = "draining"
    /\ workers = << >>
    /\ Owners = {}
    /\ phase' = "closed"
    /\ UNCHANGED <<nextSockID, bootVars, workers, reqVars, procVars, envVars>>
-----------------------------------------------------------------------------
(* NewPool *)

\* One of the Size goroutines takes its socket number and calls Start.
BootSpawn ==
    /\ phase = "starting"
    /\ nextSockID < Size
    /\ nextSockID' = nextSockID + 1
    /\ booting' = booting \cup {nextSockID'}
    /\ UNCHANGED <<phase, started, bootFailed, workers, reqVars, procVars,
                   envVars>>

\* A goroutine reports a worker that is ready.
BootReady(w) ==
    /\ w \in booting
    /\ booting' = booting \ {w}
    /\ started' = Append(started, w)
    /\ ProcessUp(w)
    /\ UNCHANGED <<phase, nextSockID, bootFailed, workers, reqVars>>

\* A goroutine reports an error.
BootError(w) ==
    /\ w \in booting
    /\ booting' = booting \ {w}
    /\ bootFailed' = TRUE
    /\ ProcessFailed(w)
    /\ UNCHANGED <<phase, nextSockID, started, workers, reqVars>>

AllReported == phase = "starting" /\ nextSockID = Size /\ booting = {}

\* All results are in and one is an error: the started workers are torn down.
NewPoolFails ==
    /\ AllReported
    /\ bootFailed
    /\ phase' = "failed"
    /\ ShutdownAll(Booted)
    /\ started' = << >>
    /\ UNCHANGED <<nextSockID, booting, bootFailed, workers, reqVars, envVars>>

\* All workers are ready: they fill the channel.
NewPoolReturns ==
    /\ AllReported
    /\ ~bootFailed
    /\ phase' = "open"
    /\ workers' = started
    /\ started' = << >>
    /\ UNCHANGED <<nextSockID, booting, bootFailed, reqVars, procVars, envVars>>
-----------------------------------------------------------------------------
(* Acquire *)

\* Acquire passes its closed check; it refuses a closed pool and nothing
\* changes then.
Enter(r) ==
    /\ pc[r] = "idle"
    /\ phase = "open"
    /\ pc' = [pc EXCEPT ![r] = "waiting"]
    /\ UNCHANGED <<phase, nextSockID, bootVars, workers, wk, procVars, envVars>>

\* The select receives a worker; a closed channel still gives what it holds.
Receive(r) ==
    /\ pc[r] = "waiting"
    /\ workers # << >>
    /\ workers' = Tail(workers)
    /\ pc' = [pc EXCEPT ![r] = "pinging"]
    /\ wk' = [wk EXCEPT ![r] = Head(workers)]
    /\ UNCHANGED <<phase, nextSockID, bootVars, procVars, envVars>>

\* A closed and empty channel gives a nil worker, and Ping dereferences it.
ReceiveNil(r) ==
    /\ pc[r] = "waiting"
    /\ workers = << >>
    /\ ChanClosed
    /\ pc' = [pc EXCEPT ![r] = "panicked"]
    /\ UNCHANGED <<phase, nextSockID, bootVars, workers, wk, procVars, envVars>>

\* The select sees ctx.Done: the deadline of the request, or a client that
\* has gone.
CtxDone(r) ==
    /\ pc[r] = "waiting"
    /\ pc' = [pc EXCEPT ![r] = "idle"]
    /\ UNCHANGED <<phase, nextSockID, bootVars, workers, wk, procVars, envVars>>

\* The health check: a worker that serves is handed out.
Ping(r) ==
    /\ pc[r] = "pinging"
    /\ pc' = [pc EXCEPT ![r] = IF wk[r] \in serving THEN "holding"
                                                    ELSE "replacing"]
    /\ UNCHANGED <<phase, nextSockID, bootVars, workers, wk, procVars, envVars>>

\* The unhealthy worker is shut down and spawn takes a number for the next.
Replace(r) ==
    /\ pc[r] = "replacing"
    /\ ShutdownAll({wk[r]})
    /\ nextSockID' = nextSockID + 1
    /\ wk' = [wk EXCEPT ![r] = nextSockID']
    /\ pc' = [pc EXCEPT ![r] = "spawning"]
    /\ UNCHANGED <<phase, bootVars, workers, envVars>>

SpawnReady(r) ==
    /\ pc[r] = "spawning"
    /\ ProcessUp(wk[r])
    /\ pc' = [pc EXCEPT ![r] = "holding"]
    /\ UNCHANGED <<phase, nextSockID, bootVars, workers, wk>>

\* Acquire returns the error of spawn; nothing goes back to the channel.
SpawnError(r) ==
    /\ pc[r] = "spawning"
    /\ ProcessFailed(wk[r])
    /\ pc' = [pc EXCEPT ![r] = "idle"]
    /\ wk' = [wk EXCEPT ![r] = NoWorker]
    /\ UNCHANGED <<phase, nextSockID, bootVars, workers>>
-----------------------------------------------------------------------------
(* release *)

\* The run is over and release loads the closed flag: a closed pool shuts the
\* worker down.
ReleaseClosed(r) ==
    /\ pc[r] = "holding"
    /\ Closed
    /\ Forget(r)
    /\ ShutdownAll({wk[r]})
    /\ UNCHANGED <<phase, nextSockID, bootVars, workers, envVars>>

ReleaseCheck(r) ==
    /\ pc[r] = "holding"
    /\ ~Closed
    /\ pc' = [pc EXCEPT ![r] = "releasing"]
    /\ UNCHANGED <<phase, nextSockID, bootVars, workers, wk, procVars, envVars>>

\* The send of release, with its default branch.
ReleaseSend(r) ==
    /\ pc[r] = "releasing"
    /\ ~ChanClosed
    /\ Forget(r)
    /\ IF Len(workers) < Size
       THEN /\ workers' = Append(workers, wk[r])
            /\ UNCHANGED procVars
       ELSE /\ ShutdownAll({wk[r]})
            /\ UNCHANGED workers
    /\ UNCHANGED <<phase, nextSockID, bootVars, envVars>>

\* Close has closed the channel since release loaded the flag: the send
\* panics.
ReleasePanics(r) ==
    /\ pc[r] = "releasing"
    /\ ChanClosed
    /\ pc' = [pc EXCEPT ![r] = "panicked"]
    /\ UNCHANGED <<phase, nextSockID, bootVars, workers, wk, procVars, envVars>>
-----------------------------------------------------------------------------
(* Close *)

CloseFlag ==
    /\ phase = "open"
    /\ phase' = "flagged"
    /\ UNCHANGED <<nextSockID, bootVars, workers, reqVars, procVars, envVars>>

CloseChan ==
    /\ phase = "flagged"
    /\ phase' = "draining"
    /\ UNCHANGED <<nextSockID, bootVars, workers, reqVars, procVars, envVars>>

\* One iteration of the range over the closed channel.
CloseDrain ==
    /\ phase = "draining"
    /\ workers # << >>
    /\ workers' = Tail(workers)
    /\ ShutdownAll({Head(workers)})
    /\ UNCHANGED <<phase, nextSockID, bootVars, reqVars, envVars>>

CloseReturns ==
    /\ phase = "draining"
    /\ workers = << >>
    /\ phase' = "closed"
    /\ UNCHANGED <<nextSockID, bootVars, workers, reqVars, procVars, envVars>>
-----------------------------------------------------------------------------
Boot == \/ BootSpawn
        \/ \E w \in booting : BootReady(w) \/ BootError(w)
        \/ NewPoolFails
        \/ NewPoolReturns

Acquire(r) == \/ Enter(r) \/ Receive(r) \/ ReceiveNil(r) \/ CtxDone(r)
              \/ Ping(r) \/ Replace(r) \/ SpawnReady(r) \/ SpawnError(r)

Release(r) == \/ ReleaseClosed(r) \/ ReleaseCheck(r) \/ ReleaseSend(r)
              \/ ReleasePanics(r)

Close == CloseFlag \/ CloseChan \/ CloseDrain \/ CloseReturns

Next == \/ Boot
        \/ \E r \in Requests : Acquire(r) \/ Release(r) \/ Desync(r)
        \/ \E w \in alive : Crash(w)
        \/ Close

Spec == Init /\ [][Next]_vars

\* What goes on by itself: the goroutines of NewPool, a request past its
\* select, and a Close that has been called.  That a held worker is released
\* assumes that its run ends.  A request in the select is served in its turn
\* when workers keep coming (the runtime queues receivers first-in first-out).
\* Nobody has to call Acquire or Close, and no deadline has to pass.
Fairness ==
    /\ WF_vars(Boot)
    /\ WF_vars(CloseChan) /\ WF_vars(CloseDrain) /\ WF_vars(CloseReturns)
    /\ \A r \in Requests :
          /\ SF_vars(Receive(r))
          /\ WF_vars(ReceiveNil(r))
          /\ WF_vars(Ping(r))
          /\ WF_vars(Replace(r))
          /\ WF_vars(SpawnReady(r) \/ SpawnError(r))
          /\ WF_vars(Release(r))

FairSpec == Spec /\ Fairness
-----------------------------------------------------------------------------
(* Properties *)

SockIDs == 1..nextSockID

\* Every variable has its type: in particular the channel and the requests
\* hold workers that were started, never nil (workers chan *Worker; the error
\* returns of Acquire).
TypeOK ==
    /\ phase \in Phases
    /\ nextSockID \in Nat
    /\ booting \subseteq SockIDs
    /\ started \in Seq(SockIDs)
    /\ bootFailed \in BOOLEAN
    /\ workers \in Seq(SockIDs)
    /\ pc \in [Requests -> PCs]
    /\ wk \in [Requests -> SockIDs \cup {NoWorker}]
    /\ alive \subseteq SockIDs
    /\ serving \subseteq alive
    /\ stopped \subseteq SockIDs
    /\ faults \in 0..MaxFaults
    /\ spawnFails \in 0..MaxSpawnFailures

\* Each /run has its worker for itself (the package comment of pool.go): no
\* two requests have the same worker, no request has one that is still in the
\* channel, and the channel never holds one twice.
ExclusiveOwnership ==
    /\ \A r, s \in Owners : r # s => wk[r] # wk[s]
    /\ Owned \cap Queued = {}
    /\ IsInjective(workers)

\* Until Close, every slot of the pool is in the channel, with a request, or
\* was lost to a replacement that could not be spawned (Acquire returns the
\* error and puts nothing back): no other path of Acquire and release, and
\* no order of them, gains or loses a slot.
SlotAccounting ==
    phase = "open" =>
        Len(workers) + Cardinality(Owners) + spawnFails = Size

\* The default branch of release is never taken: "Should not happen --
\* channel is sized to the number of workers we ever own."
DefaultUnreachable ==
    \A r \in Requests :
        pc[r] = "releasing" /\ ~ChanClosed => Len(workers) < Size

\* No worker that a request uses, or that Acquire may receive, has been shut
\* down, whatever Close, replacements and other requests do meanwhile.
UsableNotShutDown ==
    \A w \in Queued \cup {wk[r] : r \in {q \in Owners : pc[q] # "spawning"}} :
        w \notin stopped

\* Every Python process that runs is within reach of code that has to shut it
\* down: NewPool's results, the channel, or a request whose goroutine runs.  The
\* one exception is the worker of a request whose send on the closed channel
\* has panicked (see OutShutDownOnRelease).
NoOrphans ==
    \A w \in alive :
        \/ w \in Booted \cup Queued
        \/ \E r \in Requests : wk[r] = w /\ pc[r] # "panicked"
        \/ ChanClosed /\ \E r \in Requests : wk[r] = w /\ pc[r] = "panicked"

\* A fault stays with the run it happens in: a request has a worker that is dead
\* or out of step only if it became so in its hands, not in those of an earlier
\* holder or in the channel ("If a worker is unhealthy on acquire, it is replaced
\* before being returned").
FaultsStayInRun ==
    [][\A r \in Requests :
          pc'[r] = "holding" /\ wk'[r] \notin serving' =>
              pc[r] = "holding" /\ wk'[r] = wk[r]]_vars
-----------------------------------------------------------------------------
(* The inductive invariant *)

\* Which phases and program counters go with which data.
ControlInv ==
    /\ \A r \in Requests :
          /\ pc[r] \in {"idle", "waiting"} => wk[r] = NoWorker
          /\ pc[r] \notin {"idle", "waiting", "panicked"} => wk[r] # NoWorker
          /\ pc[r] = "panicked" => ChanClosed
          /\ phase \in {"starting", "failed"} => pc[r] = "idle"
    /\ phase \in {"starting", "failed"} => workers = << >>
    /\ phase # "starting" => booting = {} /\ started = << >>

\* A worker is in one place at a time, and in none once it was shut down; a
\* process that runs is in one.
PlaceInv ==
    /\ IsInjective(started)
    /\ IsInjective(workers)
    /\ booting \cap Booted = {}
    /\ (booting \cup Booted \cup Queued) \cap stopped = {}
    /\ \A r \in Requests : wk[r] # NoWorker =>
          /\ wk[r] \notin Queued \cup stopped
          /\ \A s \in Requests : wk[r] = wk[s] => r = s
          /\ pc[r] = "spawning" => wk[r] \notin alive
    /\ \A w \in alive :
          w \in Booted \cup Queued \/ \E r \in Requests : wk[r] = w

\* Slots are neither gained nor lost, while NewPool runs and while the channel
\* is open.
SlotInv ==
    /\ phase = "starting" =>
          /\ IsFiniteSet(booting)
          /\ Len(started) + Cardinality(booting) + spawnFails = nextSockID
          /\ ~bootFailed => spawnFails = 0
    /\ SlotAccounting
    /\ phase = "flagged" => Len(workers) + Cardinality(Owners) <= Size

IInv == TypeOK /\ ControlInv /\ PlaceInv /\ SlotInv
-----------------------------------------------------------------------------
(* Refinement and liveness *)

\* The pool implements the lease of WorkerLease: the channel is the free set,
\* a request's worker is its lease, and workers shut down are retired.
Lease == INSTANCE WorkerLease
            WITH Clients <- Requests, issued <- nextSockID, free <- Queued,
                 lease <- wk, retired <- stopped
LeaseSpec == Lease!Spec

\* A request in the select of Acquire gets out of it, whoever else waits and
\* whichever workers die, as long as not every slot is lost to failed spawns
\* ("Acquire blocks until a worker is available or ctx is cancelled").
WaiterServed ==
    \A r \in Requests : pc[r] = "waiting" ~> pc[r] # "waiting"

\* Close returns, although requests still receive from the channel it drains
\* and hold workers it does not wait for.
CloseTerminates == phase = "flagged" ~> phase = "closed"

\* Once the pool is closed every worker process comes to an end, but for the
\* workers of requests whose send on the closed channel panicked.
ClosedPoolReaps ==
    Closed ~> \A w \in alive :
                  \E r \in Requests : pc[r] = "panicked" /\ wk[r] = w
-----------------------------------------------------------------------------
(* What the comments of pool.go say, and the code does not do *)

\* "Pool is a fixed-size set of long-running Python worker processes": before
\* Close, the workers in the channel and with requests are Size in number.
FixedSize ==
    phase = "open" => Len(workers) + Cardinality(Owners) = Size

\* "Workers that are out (acquired) will be shut down on release()": a request
\* that releases while or after Close runs gets rid of its worker.
OutShutDownOnRelease ==
    \A r \in Requests : pc[r] = "releasing" ~> wk[r] = NoWorker
=============================================================================
