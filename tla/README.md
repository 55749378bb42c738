# Chrysalis in TLA+

Chrysalis runs untrusted Python programs in CPython compiled to WebAssembly and
lets them call selected functions of a native Python (numpy and the like)
through a bridge.  These modules specify the parts of it where the order of
steps matters: the pool of native workers, the server around it from start-up to
shutdown, one run with its pipes and its worker, the names a program looks up
and the cache they come from, the files that carry arrays and the views the
program has of them, and the filter that decides which functions may be called.
Every module is written from the code under `src/`.

- [The system](#the-system)
- [Modules](#modules)
- [Runs](#runs)
- [Proofs](#proofs)
- [Where the code and its comments disagree](#where-the-code-and-its-comments-disagree)
- [Bounds](#bounds) and [fairness](#fairness)
- [Not modelled](#not-modelled)
- [Plan](#plan)

To check a run: `tlc -config X.cfg M`; to check the proofs of a module:
`tlapm MProofs.tla`.

## The system

| Component | Source | State | Operations |
|---|---|---|---|
| Worker pool | `internal/worker/pool.go` | buffered channel of workers, `closed`, `nextSockID` | `NewPool`, `Acquire`, `release`, `Close`, `spawn` |
| Worker connection | `internal/worker/worker.go`, `protocol.go` | process, socket, next id | `Start`, `Ping`, `Call`, `Probe`, `Shutdown` |
| Bridge dispatcher | `internal/bridge/dispatcher.go` | two `io.Pipe`s, `stdoutBuf`, `bridgeDone`, `probeCache` | `Run`, `dispatch`, `resolveArg`, `encodeNDArrayResult`, `sendBridgeResponse` |
| Shared memory files | `internal/bridge/shm*.go` | files in `/dev/shm`, handles of one call | `Alloc`, `Get`, `FreeAll` |
| Filter | `internal/filter/filter.go` | exact map, two lists of patterns, default | `LoadFilter`, `Allow`, `AllowAll` |
| Bootstrap shim | `shim/bootstrap.py` | captured stdout, the streams of frames, proxy modules with `_attr_cache`, tensor views | `_bridge`, `_bridge_write`, `_bridge_read`, the flush at exit, `__getattr__`, `_TensorView` |
| Python worker | `shim/worker.py` | one connection, imported modules | `main` loop, `_ser`, `_deser` |
| Execution pool | `internal/pool/pool.go` | wazero runtime, worker pool | `New`, `Run`, `Close` |
| HTTP handler | `internal/handler/handler.go` | none | `ServeHTTP`, `translateExecError` |
| Safety pre-check | `internal/safety/checker.go` | none | `Check` |
| Server | `cmd/chrysalis/main.go` | HTTP server, signal context | start, shutdown |

**How they interact.** A `/run` request is a goroutine.  The handler checks the
code, the execution pool puts a deadline on the request's context, and
`Dispatcher.Run` loads the filter profile, acquires a worker from the pool
(which pings it and replaces it if it does not answer), starts the *bridge
goroutine* and runs the WASM module.  The program in the module writes
length-prefixed frames on its fd 1 and waits for an answer on its fd 0; both are
`io.Pipe`s.  The bridge goroutine reads a frame, asks the filter, unpacks array
arguments into files, calls the worker over a Unix socket, and writes the
answer back.  When the module has ended, `Run` closes the pipes in a fixed
order, waits for the bridge goroutine and gives the worker back.

**What is hard.**

- *Interleaving*: requests, `Close` and worker deaths meet in `Acquire` and
  `release`, where a flag is loaded in one step and the channel used in the next.
- *Blocking*: neither end of a pipe has a buffer, and wazero does not interrupt
  a module inside a host read or write, so a deadline only helps a module that
  executes instructions.
- *Matching*: answers carry ids that nobody compares; taking turns has to
  match them.
- *Shared answers*: all runs share the cache of probes, while the answer depends
  on the worker that was asked and on what it has imported so far.
- *Failure*: each step of a call can fail after earlier steps have created
  files; worker processes and their replacements can fail at any moment.
- *Shutdown* with requests in flight: `ListenAndServe` returns as soon as the
  listener is closed, and the deferred `Close` runs beside the handlers.

**What makes each component correct.**

- Worker pool: nobody shares a worker; a slot is lost by a replacement that
  fails and in no other way; a worker that is dead or out of step is handed to
  nobody; nobody uses one that was shut down; who waits is served; `Close` ends
  and leaves no process behind but those of requests that panicked.
- Bridge: an answer reaches the request it belongs to; a run leaves nothing in
  the worker's socket for the next one; the output of a finished program is in
  its result; a run comes to an end when its program or its deadline does,
  unless it is in one of a few states that are named.
- Files: those of arguments live exactly as long as the call that needs them; a
  result is computed from what was passed, or from what the wire makes of it by
  rule, and not from something else.
- Names: the cache and the proxies tell the truth about a name, whoever asks.
- Server: a request is answered once, fittingly and under the limit it asked
  for, or cut when the server ends; the server ends after a signal.
- Views: a view has the elements of the array it stands for, or refuses.
- Filter: decides in the documented order; allows nothing that no entry covers;
  denies what is to be denied.

`PROJECT.json` lists the hazards of the code line by line, with the properties
that watch each of them.

## Modules

| Module | What it is |
|---|---|
| `WorkerLease` | what the pool promises: workers are issued, free, leased or retired |
| `WorkerPool` | the pool, at the granularity of channel operations and flag loads |
| `WorkerPoolProofs` | its inductive invariant, its safety properties, the refinement of `WorkerLease` |
| `Bridge` | one `Dispatcher.Run`: request goroutine, bridge goroutine, program, worker |
| `BridgeProofs` | its inductive invariant and safety properties |
| `RunService` | what the server promises its clients: a request is sent and answered once, or cut |
| `Server` | `main.go`, the handler and the execution pool over an instance of `WorkerPool` |
| `ServerProofs` | its invariant, the deadlines, the refinement of `RunService`, the safety of the pool inside it |
| `Names` | proxies, probes, the shared cache of probes and the names workers resolve |
| `NamesProofs` | its type invariant and safety properties |
| `Filter` | `LoadFilter` as a state machine over the profile, `Allow`, `matchWildcard` |
| `FilterProofs` | that a loaded filter decides in the documented order, and what `matchWildcard` matches |
| `Induction` | induction and recursive functions over the natural numbers, in a form the provers can use |
| `ShmFiles` | the files of the arguments and results of concurrent calls |
| `ShmFilesProofs` | its inductive invariant and safety properties |
| `TensorView` | indexing, slicing and conversion of `_TensorView` beside the array it stands for |
| `TensorViewProofs` | that views and their conversions show the array, for every shape |
| `MCWorkerPool`, `MCBridge`, `MCServer`, `MCNames`, `MCFilter`, `MCShmFiles`, `MCTensorView` | the sets TLC uses |

The definitions with an underscore in their name (`ReleaseSend_Twice`) are
faulty variants: each is what a plausible mistake would make of the definition
before the underscore.  They are in no specification; putting one in place of
the real definition makes a property fail.

### WorkerPool

A worker is the socket number `spawn` gives it, so a replacement is a new
worker.  `workers` is the channel as a sequence.  `phase` says how far `NewPool`
and `Close` are (`flagged` and `draining` are the two instants between the flag,
the closing of the channel and the end of `Close`).  `pc[r]` is where request `r`
is in `Acquire` or `release`, `wk[r]` the worker it has there.  `alive`,
`serving` and `stopped` describe processes: running, in step with the protocol,
killed by `Shutdown`.

The steps are cut where another goroutine can get in between: `Enter` is the
check of `closed`, `Receive`, `ReceiveNil` and `CtxDone` the branches of the
select, `Ping` and `Replace` the health check, `SpawnReady` and `SpawnError` the
two ends of `Start`; `ReleaseCheck` and `ReleaseClosed` the load of the flag in
`release`, `ReleaseSend` and `ReleasePanics` the send.  `Crash` lets a process
die at any time, `Desync` puts a connection out of step (a reply above 16 MiB is
refused with its body unread), which only a later `Ping` finds out.  A request
that has panicked keeps its `wk[r]`: nobody else has that process, and no
goroutine is left that would stop it.

### Bridge

`main`, `bridge` and `wasm` are the program counters of the request goroutine,
the bridge goroutine and the module.  `frame` is the last frame of the program:
a kind (what makes the code take a different path) and a number; `req` is the
last request the bridge goroutine has read, likewise.  A pipe is a rendezvous:
`ReadHeader`, `ReadBody`, `SendHdr` and `SendBody` are steps of two parties, and
`ReadFrameEOF` is what the goroutine finds when the write end is closed, be it
before a frame or in the middle of one.  `toWorker` and
`fromWorker` are the worker's socket; `clogged` says that the body of a refused
message is in it.  `Kill` is wazero closing the module, possible only when the
module executes (`run`, `wrote`, `gotHdr`) and not while it is inside `fd_read`
or `fd_write`.  What the user's program does is free: any order of requests and
output, an oversized frame, an end with or without an exception (both flush the
output at exit), or an end without a flush (`Abort`, which is a reported success
when the status is 0).

The user's code shares the two descriptors with `bootstrap.py`, and may also
write to fd 1 and read fd 0 itself (`RawWrite`, `RawRead`).  Then nothing is
known of where one frame ends, and the goroutine may take a raw write as a part
of a header or a body (`TakeRaw`), as a complete header of any length
(`RawHeader`), or as a complete body of any kind (`RawBody`), with more of the
write to come or not; a raw read may get a part of a reply, or want more than
there is (`SendRaw`).  So a frame without a read of its reply and a truncated
frame are among the behaviours.  From the first such step on the program is no
longer `Kept`, and so is whatever it writes or reads afterwards, the flush
included.
A bridged function may never end (`endless`), and a request may be larger than
the buffers of the socket (`bulky`), so that sending it needs a worker that reads.
The worker may die at any moment; a request can then not be sent
(`DispatchFails`) or its answer not be received (`CallFails`).

### Server

`Server` has the variables of `WorkerPool` and uses its actions through
`INSTANCE`: `Boots` is a step of `NewPool`, `Closes` one of `Close`, and a
request takes the steps of `Acquire` and `release` while its handler is in
`acquiring` or `releasing`.  `srv` is where `serve` is, `signalled` the context
of `NotifyContext`, `run[r]` the handling of a request with what was sent, its
deadline and the answer decided on.  `Limit` computes the deadline as Go does,
with the products of `timeout_sec` and `time.Second` wrapped to a width
(`Half` is 2^63 there).  Of what happens between `Acquire` and `release`, which
is `Bridge`'s matter, only the end is left, in any of the ways
`translateExecError` tells apart.  A panic in `Acquire` or `release` is
recovered by `net/http`, which cuts the connection.  `Exit`, `BootFails` and
`ServeFails` end the process, the latter two by `log.Fatalf`, without the
deferred `Close`; afterwards workers may see the end of their connections
(`WorkerLeaves`), which nothing is claimed about.

`RunService` knows a client, a kind of request, a reply and a server that is up,
stopping or down.  `ClientView`, `ReplyView` and `ServerView` are the refinement
mapping.

### Names

A program's proxies are a view: for each full name, whether it has not been
looked up or was made a module, a function or a value.  `Touch` is
`__getattr__` up to the load of the cache; `WorkerProbes`, `ProbeFails` and
`Store` are the probe and the store, with other runs in between; `ValueCalled`
and `ValueFails` are what follows an answer that is neither module nor function.
What a name stands for does not change, but a worker resolves some names (the
`Lazy` ones, submodules that nothing has imported) only after a function has
imported them (`Runs`).

### TensorView

A view is a shape and a sequence of bytes.  The program indexes it with
integers, tuples and slices, and goes on with what it gets; `got` is that, and
`meant` the same selection of the array itself, defined by positions and not by
offsets.  A byte carries the element it belongs to, so a read across a boundary
is seen as garbage.  The bytes may not have come (`whole`), and the dtype may be
unknown to the view (`item = 0`).

`Ndindex` names the elements row by row, the order in which the worker writes
them, and `Sliced` takes the rows of a slice by counting those before each;
neither knows of offsets, strides or `range`, which are the code's (`GetInt`,
`GetSlice`, `Offset`, `Steps`).  `ToList` and the loops of tuples (`Offset`,
`RowByRow`) are recursive functions.

### Filter

One action per turn of the two loops of `LoadFilter`.  Names and patterns are
sequences of characters.  `matchWildcard` is the recursion of the code, and is
compared with `Glob`, a definition by positions that has nothing in common with
it.

### ShmFiles

A call is a record with its step, its arguments by kind, the file each was
resolved to, and the files its `ShmManager` owns.  Files have numbers
(`shmCounter`), so that reusing a name would be visible.  Failures are branches
of the actions: a file that cannot be created, an argument that does not decode,
a worker that dies before or after it has written the file of its result.

The values that are not arrays come in three kinds, by what the wire makes of
them (`Wire`).  They are written by `_ser_one`, decoded by Go into `interface{}`
(`dispatcher.go:163`), encoded again (`worker.go:145`) and read by `worker.py`:

- `plain` values arrive as they were;
- of `loose` ones the nearest that JSON and a float64 have: 1.0 arrives as 1, an
  integer above 2^53 rounded, a tuple as a list, the keys of a dict as texts;
- an `object` arrives as its `str()` (`bootstrap.py:118`).

`given` is what the worker computes with (`Received`): the value itself, one of
those two, or the bytes of another array, when the file it reads is another
argument's.  Results are converted in the same way on their way back; no
property speaks of their values.  Numbers that make a request unreadable (NaN,
an integer beyond the range of a float64) are the kind `bad` in `Bridge`.

## Runs

| Run | Configuration | Shows | Distinct states |
|---|---|---|---|
| `pool` | `WorkerPool` | ownership, slots, dead default branch, no use after shutdown, no orphans, a fault stays with its run, the inductive invariant; refinement of `WorkerLease`; waiting requests are served, `Close` ends, processes are reaped | 50,831 |
| `bridge` | `Bridge` | answers match, nothing left in the socket, output complete, the inductive invariant; a run returns after its end or deadline unless it stays for good in a named state | 635,880 |
| `server` | `Server` | deadlines kept, refinement of `RunService`, every request answered or cut, the server ends after a signal | 161,482 |
| `names` | `Names` | the cache and the proxies are true, the cache is stable | 1,883,633 (symmetry) |
| `filter` | `Filter` | order of decisions, nothing allowed uncovered, one-star denials hold | 33,204 |
| `shm` | `ShmFiles` | life of argument files, what results are computed from, result files removed, the inductive invariant | 4,259,050 (symmetry) |
| `views` | `Views` | views are faithful to their arrays, conversions too | 654, from a million steps |

Five more runs each refute one statement that the repository makes; see
[below](#where-the-code-and-its-comments-disagree).

What a reader might argue about:

- `SlotAccounting` says that a failed replacement loses a slot, and that this is
  the *only* way to lose one.  `FixedSize`, the statement without the loss, is
  refuted.
- `ClosedPoolReaps` excepts the workers of requests that panicked in `release`;
  they are the subject of `OutShutDownOnRelease`, which is refuted.
- `NoOrphans` makes the same exception: the goroutine of such a request is dead,
  `net/http` has recovered it, and nothing will stop its worker.  Of every other
  process it says who has it.
- `FaultsStayInRun` is the promise of `Acquire` (`internal/worker/pool.go:29`, "it is replaced
  before being returned"): a worker
  that died or lost step in the channel, or in the hands of the request before,
  is found out by `Ping` and reaches nobody.
- `WaiterServed` holds although `Close` hands nil workers to waiting requests:
  that ends their wait, by a panic in `Ping` (`ReceiveNil`).
- `QuiescentOnReturn` excepts a connection clogged by a reply that was too
  large.  `WorkerPool` takes it from there (`Desync`): the next `Ping` fails and
  the worker is replaced.
- `DenyHolds` is about entries with one star.  With several it is false:
  what follows a star has to match the rest of the name from its beginning,
  unless it holds no other star, so that in `*.*` the first star stands for
  nothing.
  `AllowBounded` is about all entries: that restriction never allows more.
- `NoSilentLoss` says with what each argument of a computed result was replaced:
  nothing, for plain values and arrays; the nearest value of JSON or a text, by
  the rule of `Wire`; and, the one case without a rule, another argument of the
  same call for an array that reached the program without bytes and is passed
  on.  That is the subject of `RepassedIntact`, which is refuted.  A list that
  holds an array, and an array of no elements, fail and are no loss.
- `RunReturnsUnlessStuck` says that a run returns, *or stays for good* (`[]Stuck`)
  in one of five states: being in one for a while does not count, and neither
  does a lost reply or a bridge goroutine that ended early.  A program that keeps
  to the frames stays only in a write above 8 MiB that nobody reads, in a bridged
  function that does not end, for `Worker.Call` has no deadline, or with a large
  request to a worker that is itself still writing.  One that uses the
  descriptors itself can also stay in a write after the goroutine has given up,
  or while it writes a reply (`dispatcher.go:198`), and in a read while the
  goroutine waits for a frame or for the rest of one (`dispatcher.go:143`).
  Nothing else holds a run up: the two pipes, closed in their order, let the
  bridge goroutine go everywhere else.
- `CacheTrue` and `ProxiesTrue` except lazy names.  The comment on `probeCache`
  says that "probes are deterministic given a fixed Python env, so the answer is
  the same regardless of which pool member would have served it"
  (`dispatcher.go:53-57`).  That is true of all other names; one that is first
  probed in a worker which has not imported it is stored as neither, and every
  program then calls it for its value, for the life of the server.
- `ProxiesTrue` says what a proxy may be taken for: a function's only if the name
  is one, and a value only under an allowed name.  Whether the value of an
  attribute arrives is another question, `AttributesArrive`, which is refuted.
- `DeadlineKept` is about the limit the context gets, not about the time a run
  takes, which is `RunReturnsUnlessStuck`.  It has a precondition for the lower
  bound: where `timeout_sec + 5`
  seconds leave 64 bits, the context is done at once, or earlier than asked.
  That a run is never *given* more time holds for every integer.
- `Answered` holds although the pool may have lost every worker to failed
  spawns, because every request has a deadline; the answer is then a 500.
- `ServiceSpec` allows a cut connection while the server is stopping: requests
  that wait in `Acquire` when `Close` closes the channel panic and get no answer.

## Proofs

All theorems are for every value of the constants, under the assumptions named
in the modules (such as a size of at least 1, finitely many requests, `*` not a
character of names).

**WorkerPool** (`WorkerPoolProofs`).  The safety properties are not inductive:
that nobody shares a worker depends on numbers being fresh, on the channel not
holding what a request has, and on which program counters go with a worker.
`IInv` is the conjunction of

- `TypeOK`: all numbers in use were issued, so that `nextSockID + 1` is fresh;
- `ControlInv`: which phases and program counters go with which data;
- `PlaceInv`: a worker is in one place, in none after `Shutdown`, and a process
  that runs is in one;
- `SlotInv`: the count of slots, during `NewPool`, while the pool is open, and
  as an upper bound between the flag and the closing of the channel, where
  `release` may still send.

Each part has a lemma for `Init` and one for a step (`TypeStep`, `ControlStep`,
`PlaceStep`, `SlotStep`), which use what they need of the other parts.
`AppendFacts` and `TailFacts` say what a channel operation does to the set of
queued workers; `OwnersGain` and `OwnersLoss` what a request that takes or gives
up its worker does to the count.  From `Invariance` follow `TypeCorrect`,
`Exclusive`, `SlotsAccounted`, `DefaultNeverTaken`, `NoUseAfterShutdown`,
`NeverOrphaned` (with its exception for panicked requests, whose channel is
closed by `ControlInv`) and the action property `FaultsContained`: the only step
that lets a request hold a worker it did not hold is a `Ping` that was answered
or a process that has just started.

`Refinement` proves `Spec => LeaseSpec`: the channel is the free set, `wk` the
lease, `stopped` the retired workers.  Starting a process, pinging and loading
flags are stutters; `NewPoolReturns` is `Stock`, `Replace` is `Swap`.  The
invariant is needed to show that what is stocked was issued and never used, and
that what is retired was free or leased to the one who retires it.

**Bridge** (`BridgeProofs`).  `ReplyMatches` alone is not inductive, since the
bridge answers with whatever it finds in the socket.  `IInv` adds `SocketInv`
(while a call is in progress the socket holds its request or its answer, else
nothing; what the program does with its descriptors cannot change that),
`TurnInv` (program and bridge take turns, as long as the program keeps to the
frames), `FrameInv` (requests count from 1, one number is left for the flush, and
the bridge has read every frame of such a program but the one being written) and
`FlushInv` (the one flush is followed from `fd_write` to the exit).
`TypeCorrect`, `RepliesMatch`, `Quiescent` and `OutputComplete` follow.

**Server** (`ServerProofs`).  The invariant relates each request to its goroutine
in the pool (`TypeOK`), its answer to what was sent (`ReplyInv`), and the phase
of the pool to `serve` (`CloseInv`: only the deferred `Close` closes it).  Of a
step of the pool it uses only where it takes the goroutine and that it leaves
the phase alone (`MovesFacts`), so the invariant of `WorkerPool` is not needed.
`LimitFacts` is about all integers: a product that leaves the range of
`time.Duration` becomes smaller, never larger.  `Refinement` proves
`Spec => ServiceSpec`: `Arrive` is `Send`, `Answer` is `Answer`, `Panics` is
`Cut`, which needs `CloseInv`, the ends of the process are `Exit`, and all else
stutters; that an answer befits its request needs `ReplyInv`.

That the pool may be proved correct by itself is proved too.  `PoolMoves`: every
step of the server is a step of the pool, leaves it alone, or is the end of a
worker process after the server's own (`WorkerGone`), which the pool by itself
does not have; `LeaveStep` of `WorkerPoolProofs` says that it keeps the pool's
invariant all the same.  `PoolSafe` and `PoolRefinement` carry the safety
properties of the pool and its refinement of `WorkerLease` over to the server.
`Pool` and the instance `PoolFacts`, which brings the lemmas, are the same
definitions under two names (`SameInit`, `SameNext`, `SameProperties`,
`SameLease`).  What `PoolSafe` carries over has the exceptions of the pool:
slots are lost by failed replacements, the workers of panicked requests have
nobody who stops them, and after the end of the server's process nothing is said
of who has a worker.

**Names** (`NamesProofs`).  That a proxy is true needs that the answer a run
carries between the probe and the store is plausible: true of the name, unless
it is lazy.  `Asks` states that, and the invariant adds it to the truth of the
cache and of the proxies.  It holds for any names, kinds and parents, and any
number of programs and workers.

**ShmFiles** (`ShmFilesProofs`).  `IInv` says of a call what its arguments have
been resolved to, in order, and that each array has a file of its own
(`CallInv`), that the files are those of the calls and no two calls share one
(`FileInv`), and when the file of a result exists (`ResultInv`).  That the names
of `shmName` are never given out twice is what keeps `FreeAll` of one call from
the files of another.  `ReceivedFacts` turns the files a call has when it is
executed into what the worker is given for each argument, and so into
`NoSilentLoss`; `ReturnedFacts` says that nothing of a call outlives it.

**Filter** (`FilterProofs`).  `LoadInv` relates the maps to the lists read so
far, and needs that the deny list is read last: that is why a denial overwrites
a permission of the same name.  `Decides` then holds for any profile and
whatever patterns match.

What patterns match is proved too.  `matchWildcard` is a recursive function, and
the induction theorems of the library take operators as parameters, which the
provers cannot instantiate; `Induction` states them of a *set* of numbers and of
a function on functions, which they can.  `RecursiveFunction` gives the equation
of `matchWildcard` (`MatchDef`), `MatchCases` its cases: the text before the
first star is a prefix of the name, and the rest of the pattern is a suffix or
is matched again.  `MatchSound`, by induction on the length of the pattern:
whatever matches is covered by the glob of the documentation, where every star
stands for some text, because the witnesses of the rest extend to one of the
whole (`Extend`).  `MatchExact`: up to one star the converse holds, so the
search from the first place is no loss.  `AllowedIsCovered` and `DeniedIsDenied`
follow with `LoadInv`, for any alphabet, names and profile.

**TensorView** (`TensorViewProofs`).  The inductive invariant `FaithInv` says that
what the program has shows what it means (`Faithful`): a view shows an array of
its shape, with the array's elements for its bytes or with no bytes at all.
`ViewFaithful` alone is not inductive, because it does not say what a view of
lost bytes is a view of, nor that the array behind it has an element at every
index.  A step keeps the invariant by one lemma for each kind of index, and each
rests on arithmetic over the bytes:

- `FlattenBlocks`: joining n sequences of length m gives one of length n * m in
  which block q starts at q * m.  From it, by induction on the axes, follow
  `NdindexFacts` (as many indices as `Size` says, each once) and `JoinedFacts`
  (where an element's bytes are); `CutJoined` and `DecodeJoined` say what the
  code reads at such a place, `CutNothing` and `DecodeNothing` what it reads of
  a view without bytes.
- `IntFaithful`: a row is the bytes from `at * tail` on, because `Size` without
  the first axis is `Size \div n` (`DivExact`).
- `RowsFaithful`: a partial tuple is so many selections, by induction on its
  length; `AtOneMore` says the same of the array.
- `TupleFaithful`: the loop of offset and stride ends at the place of the
  element (`OffsetInside`), or at -1 when an index is out of range
  (`OffsetOutside`).
- `SliceFaithful`: `range` yields the rows within the ends and on the step
  (`StepsTaken`), in their order (`StepsOrdered`), for steps of either sign.

`ConversionsAreFaithful` follows by induction on the number of axes: `ToListDef`
is the equation of `ToList`, `ElementsListed` what it lists, `NothingListed`
what it does without bytes or without a dtype.  The assumptions are those of the
module: shapes are sequences of natural numbers, indices integers, steps
integers other than 0 and the size of an element positive.

**Only model-checked.**  The liveness properties and everything under fairness,
with `ENABLED`: they are out of the prover's reach.  All invariants and action
properties of the passing runs are theorems.  That `AttributesArrive`,
`RepassedIntact` and the other refuted statements are false is shown by TLC's
behaviours.

## Where the code and its comments disagree

| Run | Statement | What the code does |
|---|---|---|
| `pool_fixed_size` | "Pool is a fixed-size set of long-running Python worker processes" (`pool.go:18`) | a replacement that cannot be spawned shrinks the pool for good; after `Size` of them every request waits for its deadline |
| `pool_out` | "Workers that are out (acquired) will be shut down on release()" (`pool.go:157`) | `release` loads the flag, `Close` sets it and closes the channel, the send panics and the process stays |
| `bridge_large` | in-flight modules are closed when the context is cancelled, "the module exits promptly" (`internal/pool/pool.go:51`) | after a frame above 8 MiB nobody reads the pipe, the program stays in its write, deadline or not, and the request keeps its worker |
| `names_value` | "Attribute value (e.g. np.pi)" (`bootstrap.py:502`); "It's an attribute value (e.g., np.pi, np.float64)" (`docs/design.md:328`); the profiles allow `numpy.pi` (`filters/autograder.yaml:47`, `filters/math-only.yaml:26`) | `__getattr__` calls the name through the bridge, the worker calls the float (`worker.py:282`), and the look-up raises |
| `shm_repass` | "the host always inlines the raw bytes in the bridge response (the Go side keeps a shm handle separately for the case where the array is later re-passed [...])" (`bootstrap.py:157-159`) | an array inside a list of results reaches the program without bytes; passed on, it is taken for handle 0, the first array argument of that call |

Observations of the same kind are in the models as transitions or in
comments, without a run of their own: a request that waits in `Acquire` while
`Close` closes the channel receives a nil worker (`ReceiveNil`); a run cut short by
`rt.Close` has exit code 0, which the filter of `dispatcher.go:212` takes for
success (`Kill` with outcome `closed`); a program that writes to fd 1 or reads
fd 0 itself can stop in either, past its deadline, while the bridge goroutine
waits for it (`Stuck`, `dispatcher.go:143` and `:198`); a number changes on its
way through `interface{}` (`Wire`); a pattern with several stars matches less than it says
(`DenyHolds`); the file of a result with nested arrays, or of a worker that dies
before its answer, stays in tmpfs (`ResultUnlinked`); an array inside a list of
arguments has no file and fails (`Decodes`); names that are imported late are not
what a probe promised (`CacheTrue`); a
timeout is answered with the last line of stderr when there is one
(`Translate`; `docs/design.md` shows both answers); `Shutdown` is not waited for,
so the pool is closed beside the requests in flight (`ServeReturns`).

## Bounds

| Bound | Where | Why it is enough |
|---|---|---|
| 2 workers, 3 requests | `WorkerPool` | more requests than workers, so that one waits while the others hold, replace and release; two workers can be confused with each other |
| `MaxFaults` 2, `MaxSpawnFailures` 1 | `WorkerPool` | a fault of each worker, or of a worker and its replacement; a slot lost.  With every slot lost `WaiterServed` is false, as it should be: that is `FixedSize` again |
| `MaxFrames` 2 | `Bridge` | an answer can be late by one request, and the flush at exit comes on top; raw writes are not bounded, only the bodies the bridge takes from them |
| 2 requests, 1 worker, a fault and a failed spawn | `Server` | one request waits for the other's worker; the pool can lose its only worker, and does so before, while and after a signal comes |
| seconds of 3 units, integers of 11 bits | `Server` | 337 is a timeout for which `HandlerLimit` overflows and `PoolLimit` does not |
| 2 programs, 2 workers, 4 names | `Names` | both programs miss the cache for one name with different workers, one of which has imported it; a name below a lazy one.  The number of runs is not bounded |
| `MaxEntries` 3, names of 3 characters over two letters | `Filter` | a name in both lists with a pattern beside it; stars at either end, inside, twice, thrice; a star that matches nothing |
| 2 requests, 7 kinds of argument, `MaxArgs` 2, `MaxCalls` 3 | `ShmFiles` | the second argument fails after the first was unpacked; calls of two requests overlap, and one request calls twice |
| ten shapes of up to three axes, indices -7 to 6, steps -2 to 3 | `TensorView` | empty axes first and last, scalars, a vector longer than any step, indices beyond every axis.  A step of 0 is refused by Python |

The theorems do not depend on these bounds.

## Fairness

- **WorkerPool.**  Weak fairness for the goroutines of `NewPool`, for a `Close`
  that has been called and for a request past its select: they run code that
  does not wait for anybody, or for a process that starts or fails.  Strong
  fairness for `Receive`: the Go runtime queues receivers first-in first-out, so
  a waiting request cannot be passed for ever.  `WF(Release)` assumes that runs
  end, which is the subject of `RunReturnsUnlessStuck` in `Bridge`.  No fairness
  for `Enter`, `CtxDone`, `CloseFlag`, `Crash`, `Desync`.
- **Bridge.**  Weak fairness for the two goroutines, for the interpreter between
  a frame and its answer, and for a worker that answers.  Strong fairness for
  `Kill`: wazero looks at every call and every turn of a loop, so a closed module
  that executes again and again notices, though it may be inside a read or a
  write at many moments.  A bridged function need not end (`endless`).  The
  user's code has no fairness, and neither the deadline nor a worker's death has
  to come: a program that loops is ended by its deadline or not at all.
- **Server.**  Weak fairness for `serve` and for every handler; none for the
  workers after the end of the process, which may be in a call.  In `acquiring` it is for *some* step, one of
  which is the deadline of a waiting request: every request has one.  It assumes
  that runs end (`RunEnds`), and that calls a worker is in end too.  No client
  has to send anything, no signal has to come, and the listener need not fail.
- **Names**, **Filter**, **ShmFiles** and **TensorView** are checked for safety
  only; nothing in them waits.

## Not modelled

- **Safety pre-check.**  A stateless search of the text by a regular expression
  and substrings, which the project itself says is no boundary; `Server` takes
  its verdict as an input.
- **Flags, logging, `/health`, JSON.**  They are I/O and change no state that a
  property is about.
- **Parsing of profiles, compiling the module.**  A missing or malformed profile
  is `Refuse` in `Bridge` and `NoRun` in `Server`; a module that does not compile
  is `BootFails`.
- **The bytes of a message on the worker's socket.**  A connection has one user
  at a time (`Worker.mu`), so messages do not mix; a message is taken whole, or
  refused, or the connection is broken.
- **What the bridged functions compute**, and the arrays behind a view but for
  the order of their elements.
- **Printing, comparing and hashing of views**, which are functions of shape and
  bytes.  Two views of equal shape that both came without bytes are equal and
  hash alike, whatever their arrays held.
- `Free` of `ShmManager` is not reached by the program;
  `shm_other.go` keeps the contract of `shm_unix.go` on other systems.

## Plan

1. Compose `Bridge` with `Server`, so that the states of `Stuck` become runs
   that never end and `SignalEnds` is checked with them.
2. Several signals and a listener that is closed twice.
