------------------------------- MODULE Names -------------------------------
(***************************************************************************)
(* What a program sees of the libraries: the attributes of the proxy       *)
(* modules of shim/bootstrap.py, the probes that tell modules from         *)
(* functions, the cache of probes that all runs share (dispatch of         *)
(* internal/bridge/dispatcher.go) and the names a worker can resolve       *)
(* (shim/worker.py).                                                       *)
(***************************************************************************)
EXTENDS FiniteSets

CONSTANTS Programs, Workers,
          Names,    \* full names below the library
          Library,  \* the library itself, whose proxy every program has
          Parent,   \* the name before the last dot, or Library
          Kind,     \* what the name stands for in the Python environment
          Lazy,     \* names a worker resolves only after some function has
                    \* imported them
          Allowed,  \* names the filter lets programs call
          NoWorker, NoName

ASSUME ParentAssumption == Parent \in [Names -> Names \cup {Library}]
ASSUME LibraryAssumption == Library \notin Names
ASSUME NoneAssumption == NoWorker \notin Workers /\ NoName \notin Names
ASSUME KindAssumption == Kind \in [Names -> {"module", "function", "value", "absent"}]
ASSUME LazyAssumption ==
    Lazy \subseteq Names /\ \A n \in Names : Parent[n] \in Lazy => n \in Lazy

VARIABLES
    prog,       \* the run of each program
    up,         \* workers whose connection works
    loaded,     \* for each worker, the lazy names that have been imported in it
    probeCache  \* Dispatcher.probeCache: a function on names

vars == <<prog, up, loaded, probeCache>>

\* Attributes of proxies, by full name: not looked up yet, or what was made of it.
Views == {"unknown", "module", "function", "value"}

\* asking: the probe is on its way to the worker.  storing: its answer has not
\* been stored.  valuing: the name is called for its value.
Steps == {"off", "running", "asking", "storing", "valuing"}

\* A probe result: is_module goes before is_callable.
Answers == {"module", "callable", "neither"}

Off == [step |-> "off", worker |-> NoWorker, name |-> NoName, answer |-> "neither",
        view |-> [n \in Names |-> "unknown"]]

Init ==
    /\ prog = [p \in Programs |-> Off]
    /\ up = Workers
    /\ loaded = [w \in Workers |-> {}]
    /\ probeCache = [n \in {} |-> "neither"]

\* _resolve_attr in worker w.
Resolves(w, n) == Kind[n] # "absent" /\ (n \in Lazy => n \in loaded[w])

\* What a probe says of a name that resolves.
Seen(kind) == CASE kind = "module"   -> "module"
                [] kind = "function" -> "callable"
                [] OTHER             -> "neither"

\* Faulty variant: a name that does not resolve is taken to be callable.
Probe_CallableByDefault(w, n) ==
    IF Resolves(w, n) THEN Seen(Kind[n]) ELSE "callable"

\* _probe in worker w.
Probe(w, n) == IF Resolves(w, n) THEN Seen(Kind[n]) ELSE "neither"

\* The run of p goes on at step, in __getattr__ of name n.
Goes(p, step, n, answer, view) ==
    prog' = [prog EXCEPT ![p] = [step |-> step, worker |-> prog[p].worker,
                                 name |-> n, answer |-> answer, view |-> view]]

\* The end of __getattr__ of n, or of its import: n is seen as view.
Finish(p, n, view) ==
    Goes(p, "running", NoName, "neither", [prog[p].view EXCEPT ![n] = view])

\* __getattr__ of n goes on with the answer to its probe.
Learn(p, n, answer) ==
    \/ answer = "module"   /\ Finish(p, n, "module")
    \/ answer = "callable" /\ Finish(p, n, "function")
    \/ answer = "neither"  /\ Goes(p, "valuing", n, "neither", prog[p].view)
-----------------------------------------------------------------------------
(* Faulty variants: what plausible mistakes would make of the definitions    *)
(* below.                                                                    *)

\* An error is stored like an answer.
ProbeFails_Stored(p) ==
    /\ prog[p].step = "asking"
    /\ up' = up \ {prog[p].worker}
    /\ probeCache' = [n \in DOMAIN probeCache \cup {prog[p].name} |->
                         IF n = prog[p].name THEN "neither" ELSE probeCache[n]]
    /\ Goes(p, "valuing", prog[p].name, "neither", prog[p].view)
    /\ UNCHANGED loaded

\* A run that has ended still holds its worker.
EndRun_WorkerKept(p) ==
    /\ prog[p].step \in {"running", "valuing"}
    /\ prog' = [prog EXCEPT ![p] = [Off EXCEPT !.worker = prog[p].worker]]
    /\ UNCHANGED <<up, loaded, probeCache>>

\* The answer replaces all that has been stored.
Store_Fresh(p) ==
    /\ prog[p].step = "storing"
    /\ probeCache' = [n \in {prog[p].name} |-> prog[p].answer]
    /\ Learn(p, prog[p].name, prog[p].answer)
    /\ UNCHANGED <<up, loaded>>
-----------------------------------------------------------------------------
\* Acquire hands out a worker; one that does not answer is replaced.
StartRun(p, w) ==
    /\ prog[p].step = "off"
    /\ \A q \in Programs : prog[q].worker # w
    /\ prog' = [prog EXCEPT ![p] = [Off EXCEPT !.step = "running", !.worker = w]]
    /\ up' = up \cup {w}
    /\ loaded' = IF w \in up THEN loaded ELSE [loaded EXCEPT ![w] = {}]
    /\ UNCHANGED probeCache

\* A run ends after the request it has sent last has been dealt with, because
\* Run waits for the bridge goroutine.
EndRun(p) ==
    /\ prog[p].step \in {"running", "valuing"}
    /\ prog' = [prog EXCEPT ![p] = Off]
    /\ UNCHANGED <<up, loaded, probeCache>>

\* The program has the proxy that n is an attribute of.
HasParent(p, n) ==
    Parent[n] \in {Library} \cup {m \in Names : prog[p].view[m] = "module"}

\* _BridgeFinder finds every name, and asks nobody; the import system puts the
\* new proxy in the place of whatever the attribute was.
Import(p, n) ==
    /\ prog[p].step = "running"
    /\ HasParent(p, n)
    /\ Finish(p, n, "module")
    /\ UNCHANGED <<up, loaded, probeCache>>

\* __getattr__ of a name that is not in _attr_cache, up to probeCache.Load.
Touch(p, n) ==
    /\ prog[p].step = "running"
    /\ HasParent(p, n)
    /\ prog[p].view[n] = "unknown"
    /\ IF n \in DOMAIN probeCache
       THEN Learn(p, n, probeCache[n])
       ELSE Goes(p, "asking", n, "neither", prog[p].view)
    /\ UNCHANGED <<up, loaded, probeCache>>

\* wk.Probe.
WorkerProbes(p) ==
    LET w == prog[p].worker
        n == prog[p].name
    IN /\ prog[p].step = "asking"
       /\ w \in up
       /\ Goes(p, "storing", n, Probe(w, n), prog[p].view)
       /\ UNCHANGED <<up, loaded, probeCache>>

\* wk.Probe returns an error, which __getattr__ takes for an answer without
\* fields, and nothing is stored.
ProbeFails(p) ==
    /\ prog[p].step = "asking"
    /\ up' = up \ {prog[p].worker}
    /\ Goes(p, "valuing", prog[p].name, "neither", prog[p].view)
    /\ UNCHANGED <<loaded, probeCache>>

\* probeCache.Store: the last of the runs that asked for the name wins.
Store(p) ==
    /\ prog[p].step = "storing"
    /\ probeCache' = [n \in DOMAIN probeCache \cup {prog[p].name} |->
                         IF n = prog[p].name THEN prog[p].answer ELSE probeCache[n]]
    /\ Learn(p, prog[p].name, prog[p].answer)
    /\ UNCHANGED <<up, loaded>>

\* A function runs in worker w, which may import names; with a name its
\* ancestors are imported.
Runs(w, n) ==
    /\ n \in Allowed /\ w \in up
    /\ Resolves(w, n) /\ Kind[n] = "function"
    /\ \E more \in SUBSET Lazy :
          /\ \A m \in more : Parent[m] \in Lazy => Parent[m] \in more \cup loaded[w]
          /\ loaded' = [loaded EXCEPT ![w] = @ \cup more]

\* __getattr__ calls the name without arguments, to have its value: a function
\* runs and its result is the attribute, or it raises.
ValueCalled(p) ==
    /\ prog[p].step = "valuing"
    /\ Runs(prog[p].worker, prog[p].name)
    /\ \E view \in {"value", "unknown"} : Finish(p, prog[p].name, view)
    /\ UNCHANGED <<up, probeCache>>

\* Anything but a function cannot be called, and __getattr__ raises; so does a
\* name the filter refuses.  The worker may be gone, or go.
ValueFails(p) ==
    LET w == prog[p].worker
        n == prog[p].name
    IN /\ prog[p].step = "valuing"
       /\ \/ n \notin Allowed /\ UNCHANGED up
          \/ (~Resolves(w, n) \/ Kind[n] # "function") /\ UNCHANGED up
          \/ up' = up \ {w}
       /\ Finish(p, n, "unknown")
       /\ UNCHANGED <<loaded, probeCache>>

\* _BridgedFn is called, with a result or an error.
Call(p, n) ==
    /\ prog[p].step = "running"
    /\ prog[p].view[n] = "function"
    /\ Runs(prog[p].worker, n)
    /\ UNCHANGED <<prog, up, probeCache>>

Program(p) == \/ \E w \in Workers : StartRun(p, w)
              \/ EndRun(p)
              \/ \E n \in Names : Import(p, n) \/ Touch(p, n) \/ Call(p, n)
              \/ WorkerProbes(p) \/ ProbeFails(p) \/ Store(p)
              \/ ValueCalled(p) \/ ValueFails(p)

Next == \E p \in Programs : Program(p)

Spec == Init /\ [][Next]_vars
-----------------------------------------------------------------------------
(* Properties *)

ProgType == [step : Steps, worker : Workers \cup {NoWorker},
             name : Names \cup {NoName}, answer : Answers, view : [Names -> Views]]

\* Every variable has its type, a run has a worker of its own from its beginning
\* to its end, and a name while it is in __getattr__.
TypeOK ==
    /\ prog \in [Programs -> ProgType]
    /\ up \subseteq Workers
    /\ loaded \in [Workers -> SUBSET Lazy]
    /\ DOMAIN probeCache \subseteq Names
    /\ probeCache \in [DOMAIN probeCache -> Answers]
    /\ \A p \in Programs :
          /\ prog[p].worker = NoWorker <=> prog[p].step = "off"
          /\ prog[p].name = NoName <=> prog[p].step \in {"off", "running"}
          /\ \A q \in Programs \ {p} :
                prog[p].step # "off" => prog[p].worker # prog[q].worker

\* What a probe may say of a name: the truth, or, of a lazy name, nothing.
Plausible(n, answer) ==
    answer = Seen(Kind[n]) \/ (n \in Lazy /\ answer = "neither")

\* The cache holds the truth for the programs and workers to come, whichever
\* workers died when they were asked: an error is never cached.  Of a lazy name
\* it may hold for ever that it does not exist, in a worker that has loaded it.
CacheTrue == \A n \in DOMAIN probeCache : Plausible(n, probeCache[n])

\* A program gets proxies of functions for functions only, and what it takes for
\* the value of a name comes from a name that exists and that the filter lets it
\* call, whichever worker was asked and whatever has failed on the way.
ProxiesTrue ==
    \A p \in Programs, n \in Names :
        /\ prog[p].view[n] = "function" => Kind[n] = "function"
        /\ prog[p].view[n] = "value" =>
              n \in Allowed /\ Kind[n] \in {"function", "value"}

\* What has been cached stays, although two runs may have asked for the same
\* name at the same time; only of a lazy name the answer may change then.
CacheStable ==
    [][\A n \in DOMAIN probeCache :
          /\ n \in DOMAIN probeCache'
          /\ probeCache'[n] = probeCache[n] \/ n \in Lazy]_vars
-----------------------------------------------------------------------------
(* What bootstrap.py and docs/design.md say, and the code does not do *)

\* "Attribute value (e.g. np.pi)": when __getattr__ of an allowed name that
\* stands for a value ends, and the worker resolves the name and has answered,
\* the program has the value.
AttributesArrive ==
    [][\A p \in Programs :
          LET n == prog[p].name
          IN /\ prog[p].step = "valuing" /\ prog'[p].step = "running"
             /\ n \in Allowed /\ Kind[n] = "value"
             /\ prog[p].worker \in up' /\ Resolves(prog[p].worker, n)
             => prog'[p].view[n] = "value"]_vars
=============================================================================
