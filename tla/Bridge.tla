------------------------------- MODULE Bridge -------------------------------
(***************************************************************************)
(* One Dispatcher.Run of internal/bridge/dispatcher.go.                    *)
(*                                                                         *)
(* Three threads of control and a process take part.  The goroutine of the *)
(* request (main) runs the WASM module inside InstantiateModule and then   *)
(* closes the pipes; the bridge goroutine reads frames from pipeStdoutR,   *)
(* asks the worker and writes replies to pipeStdinW; the Python program in *)
(* the module (shim/bootstrap.py and the user's code) writes frames and    *)
(* reads replies; the worker process answers over its socket.  Both pipes  *)
(* are io.Pipe: a write returns when a reader has taken all of it, or when *)
(* the read end is closed.                                                 *)
(*                                                                         *)
(* The deadline closes the module, but the module notices only while it    *)
(* runs its own instructions, never inside a read or a write of a pipe.    *)
(***************************************************************************)
EXTENDS Naturals, Sequences

CONSTANTS Does,        \* what the program may do, a subset of Doings
          MaxFrames    \* bound: requests the program makes before it exits

\* call: a bridged function the filter allows.  denied: one it refuses, or an
\* argument that cannot be resolved.  probe: an attribute is looked up.  bad:
\* a request that encoding/json refuses (a NaN argument).  oversize: a frame
\* above 8 MiB (a large argument or a large output).  huge: a call whose result
\* the worker sends in more than 16 MiB.  bulky: one whose arguments are more
\* than the socket buffers.  endless: one of a function that never ends.  raw:
\* the user's code writes to fd 1 or reads fd 0 itself, whatever it likes.
Doings == {"call", "denied", "probe", "bad", "oversize", "huge", "bulky",
           "endless", "raw"}

ASSUME DoesAssumption == Does \subseteq Doings
ASSUME MaxFramesAssumption == MaxFrames \in Nat

VARIABLES
    main,         \* the goroutine of the request
    bridge,       \* the bridge goroutine
    wasm,         \* the module
    exiting,      \* the exit status the interpreter is leaving with, or "no"
    outcome,      \* how InstantiateModule ended
    frame,        \* the last frame of the program: kind and number; kind "raw"
                  \* once it has used the two descriptors for anything else
    req,          \* the last request the bridge has read: kind and number
    reply,        \* the number of the request the bridge answers
    captured,     \* the program has printed something
    collected,    \* ... and it is in stdoutBuf
    toWorker,     \* requests in the worker's socket: their numbers
    fromWorker,   \* answers in the worker's socket
    workerUp,     \* the worker process runs
    clogged,      \* the body of an answer recv refused is still in the socket
    probeCached,  \* the answer of the probe is in probeCache
    ctxDone,      \* the context of the request is done
    rtClosed      \* the server's rt.Close has closed the modules in flight

progVars   == <<exiting, captured>>
reqVars    == <<req, reply, collected>>
workerVars == <<toWorker, fromWorker, workerUp, clogged>>
closeVars  == <<ctxDone, rtClosed>>
vars == <<main, bridge, wasm, progVars, outcome, frame, reqVars, workerVars,
          probeCached, closeVars>>

\* outClosed: pipeStdoutW is closed.  waiting: pipeStdinR is closed too, and
\* main waits for bridgeDone.
Mains == {"start", "exec", "outClosed", "waiting", "returned"}

\* header, body: reading.  dispatch: has a request.  calling: in Worker.Call
\* or Probe.  sendHdr, sendBody: in the two writes of sendBridgeResponse.
Bridges == {"off", "header", "body", "dispatch", "calling", "sendHdr",
            "sendBody", "done"}

\* run: executing.  write, readHdr, readBody: inside fd_write or fd_read of a
\* frame.  wrote, gotHdr: executing between those.  read: in any other fd_read.
\* gone: it has ended.
Wasms == {"off", "run", "write", "wrote", "readHdr", "gotHdr", "readBody",
          "read", "gone"}
-----------------------------------------------------------------------------
(* Faulty variants: what plausible mistakes would make of the definitions    *)
(* below.                                                                    *)

\* Run does not wait for bridgeDone.
Return_NoWait ==
    /\ main = "waiting"
    /\ main' = "returned"
    /\ UNCHANGED <<bridge, wasm, progVars, outcome, frame, reqVars, workerVars,
                   probeCached, closeVars>>

\* The output is flushed at the end of the script, not at exit.
Exit_FlushOnSuccess(status) ==
    /\ wasm = "run"
    /\ exiting = "no"
    /\ exiting' = status
    /\ IF captured /\ status = "zero"
       THEN /\ wasm' = "write"
            /\ frame' = [kind |-> "stdout", id |-> frame.id + 1]
       ELSE UNCHANGED <<wasm, frame>>
    /\ UNCHANGED <<main, bridge, captured, outcome, reqVars, workerVars,
                   probeCached, closeVars>>

\* Call gives up at the deadline and leaves its answer to come in the socket.
CallFails_AtDeadline ==
    /\ bridge = "calling"
    /\ ctxDone \/ ~workerUp
    /\ fromWorker = << >>
    /\ bridge' = "sendHdr"
    /\ reply' = req.id
    /\ UNCHANGED <<main, wasm, progVars, outcome, frame, req, collected,
                   workerVars, probeCached, closeVars>>

\* An error of sending is logged and the loop goes on to the next frame.
DispatchFails_Unanswered ==
    /\ bridge = "dispatch"
    /\ \/ req.kind \in {"call", "huge", "bulky", "endless"}
       \/ req.kind = "probe" /\ ~probeCached
    /\ ~workerUp
    /\ bridge' = "header"
    /\ UNCHANGED <<main, wasm, progVars, outcome, frame, reqVars, workerVars,
                   probeCached, closeVars>>
-----------------------------------------------------------------------------
StdoutWClosed == main \in {"outClosed", "waiting", "returned"}
StdinRClosed  == main \in {"waiting", "returned"}
StdinWClosed  == bridge = "done"

\* The program has used the two descriptors by _bridge_write and _bridge_read only.
Kept == frame.kind # "raw"

Init ==
    /\ main = "start"
    /\ bridge = "off"
    /\ wasm = "off"
    /\ exiting = "no"
    /\ outcome = "none"
    /\ frame = [kind |-> "none", id |-> 0]
    /\ req = [kind |-> "none", id |-> 0]
    /\ reply = 0
    /\ captured = FALSE
    /\ collected = FALSE
    /\ toWorker = << >>
    /\ fromWorker = << >>
    /\ workerUp = TRUE
    /\ clogged = FALSE
    /\ probeCached \in BOOLEAN
    /\ ctxDone = FALSE
    /\ rtClosed = FALSE
-----------------------------------------------------------------------------
(* The goroutine of the request *)

\* The filter does not load, or Acquire fails: Run returns the error.
Refuse ==
    /\ main = "start"
    /\ main' = "returned"
    /\ outcome' = "refused"
    /\ UNCHANGED <<bridge, wasm, progVars, frame, reqVars, workerVars,
                   probeCached, closeVars>>

\* The worker is acquired, the bridge goroutine started, the module runs.  A
\* runtime that is closed makes no module: "runtime closed with exit_code(0)".
Start ==
    /\ main = "start"
    /\ main' = "exec"
    /\ bridge' = "header"
    /\ IF rtClosed
       THEN wasm' = "gone" /\ outcome' = "closed"
       ELSE wasm' = "run" /\ UNCHANGED outcome
    /\ UNCHANGED <<progVars, frame, reqVars, workerVars, probeCached, closeVars>>

\* InstantiateModule has returned: pipeStdoutW.Close().
CloseStdoutW ==
    /\ main = "exec"
    /\ wasm = "gone"
    /\ main' = "outClosed"
    /\ UNCHANGED <<bridge, wasm, progVars, outcome, frame, reqVars, workerVars,
                   probeCached, closeVars>>

\* pipeStdinR.Close().
CloseStdinR ==
    /\ main = "outClosed"
    /\ main' = "waiting"
    /\ UNCHANGED <<bridge, wasm, progVars, outcome, frame, reqVars, workerVars,
                   probeCached, closeVars>>

\* <-bridgeDone; the result is put together and the worker released.
Return ==
    /\ main = "waiting"
    /\ bridge = "done"
    /\ main' = "returned"
    /\ UNCHANGED <<bridge, wasm, progVars, outcome, frame, reqVars, workerVars,
                   probeCached, closeVars>>
-----------------------------------------------------------------------------
(* The program in the module: bootstrap.py and the user's code *)

\* print(): bootstrap.py keeps the text until exit.
PrintOutput ==
    /\ wasm = "run"
    /\ exiting = "no"
    /\ captured' = TRUE
    /\ UNCHANGED <<main, bridge, wasm, exiting, outcome, frame, reqVars,
                   workerVars, probeCached, closeVars>>

\* fd_write of a frame begins.
WriteFrame(kind) ==
    /\ wasm' = "write"
    /\ frame' = [kind |-> kind, id |-> frame.id + 1]

\* _bridge_write of a request.  Bound: MaxFrames.
Send(kind) ==
    /\ wasm = "run"
    /\ exiting = "no"
    /\ Kept
    /\ frame.id < MaxFrames
    /\ WriteFrame(kind)
    /\ UNCHANGED <<main, bridge, progVars, outcome, reqVars, workerVars,
                   probeCached, closeVars>>

\* The user's code writes to fd 1 itself: anything, frames or parts of frames.
\* From then on what bootstrap.py writes is part of that stream, and whatever
\* the module writes or reads counts as raw.
WriteRaw ==
    /\ wasm' = "write"
    /\ frame' = [kind |-> "raw", id |-> 0]

RawWrite ==
    /\ "raw" \in Does
    /\ wasm = "run"
    /\ exiting = "no"
    /\ WriteRaw
    /\ UNCHANGED <<main, bridge, progVars, outcome, reqVars, workerVars,
                   probeCached, closeVars>>

\* The user's code reads fd 0, the pipe of the replies, as input() does.
RawRead ==
    /\ "raw" \in Does
    /\ wasm = "run"
    /\ exiting = "no"
    /\ wasm' = "read"
    /\ frame' = [kind |-> "raw", id |-> 0]
    /\ UNCHANGED <<main, bridge, progVars, outcome, reqVars, workerVars,
                   probeCached, closeVars>>

\* After its frame is taken, or its header is read, the program goes on to
\* the next read of _bridge_read.
NextRead ==
    /\ \/ wasm = "wrote"  /\ wasm' = IF Kept THEN "readHdr" ELSE "read"
       \/ wasm = "gotHdr" /\ wasm' = "readBody"
    /\ UNCHANGED <<main, bridge, progVars, outcome, frame, reqVars, workerVars,
                   probeCached, closeVars>>

\* The bridge goroutine has closed pipeStdinW: EOFError, which the user's
\* code may catch.
ReadEOF ==
    /\ wasm \in {"readHdr", "readBody", "read"}
    /\ StdinWClosed
    /\ wasm' = "run"
    /\ UNCHANGED <<main, bridge, progVars, outcome, frame, reqVars, workerVars,
                   probeCached, closeVars>>

\* The script ends, or an exception ends it.  The atexit handler flushes what
\* was printed and waits for the ACK.
Exit(status) ==
    /\ wasm = "run"
    /\ exiting = "no"
    /\ exiting' = status
    /\ \/ ~captured /\ UNCHANGED <<wasm, frame>>
       \/ captured /\ ~Kept /\ WriteRaw
       \/ /\ captured /\ Kept
          /\ \E kind \in {"stdout"} \cup (Does \cap {"oversize"}) : WriteFrame(kind)
    /\ UNCHANGED <<main, bridge, captured, outcome, reqVars, workerVars,
                   probeCached, closeVars>>

\* os._exit(0), or os._exit of another status or a trap: the module ends and
\* nothing is flushed.
Abort ==
    /\ wasm = "run"
    /\ wasm' = "gone"
    /\ outcome' \in {"quit", "aborted"}
    /\ UNCHANGED <<main, bridge, progVars, frame, reqVars, workerVars,
                   probeCached, closeVars>>

\* proc_exit: InstantiateModule returns an exit error with the status.
Leave ==
    /\ wasm = "run"
    /\ exiting # "no"
    /\ wasm' = "gone"
    /\ outcome' = exiting
    /\ UNCHANGED <<main, bridge, progVars, frame, reqVars, workerVars,
                   probeCached, closeVars>>

\* wazero has closed the module, for the deadline or for rt.Close; the module
\* notices while it executes.
Kill ==
    /\ wasm \in {"run", "wrote", "gotHdr"}
    /\ \/ ctxDone  /\ outcome' = "deadline"
       \/ rtClosed /\ outcome' = "closed"
    /\ wasm' = "gone"
    /\ UNCHANGED <<main, bridge, progVars, frame, reqVars, workerVars,
                   probeCached, closeVars>>
-----------------------------------------------------------------------------
(* The bridge goroutine reads a frame *)

\* The header of a frame: the goroutine ends on an oversized one, whose body
\* nobody reads.
ReadHeader ==
    /\ bridge = "header"
    /\ wasm = "write"
    /\ Kept
    /\ bridge' = IF frame.kind = "oversize" THEN "done" ELSE "body"
    /\ UNCHANGED <<main, wasm, progVars, outcome, frame, reqVars, workerVars,
                   probeCached, closeVars>>

\* pipeStdoutW is closed: io.ReadFull of the header or of the body fails.
ReadFrameEOF ==
    /\ bridge \in {"header", "body"}
    /\ StdoutWClosed
    /\ bridge' = "done"
    /\ UNCHANGED <<main, wasm, progVars, outcome, frame, reqVars, workerVars,
                   probeCached, closeVars>>

Answer(n) ==
    /\ bridge' = "sendHdr"
    /\ reply' = n

\* The body is complete: output is stored and acknowledged, a request that does
\* not parse is answered, any other is dispatched.
Take(kind) ==
    /\ req' = [kind |-> kind, id |-> req.id + 1]
    /\ collected' = (collected \/ kind = "stdout")
    /\ IF kind \in {"stdout", "bad"}
       THEN Answer(req.id + 1)
       ELSE bridge' = "dispatch" /\ UNCHANGED reply

ReadBody ==
    /\ bridge = "body"
    /\ wasm = "write"
    /\ Kept
    /\ wasm' = "wrote"
    /\ Take(frame.kind)
    /\ UNCHANGED <<main, progVars, outcome, frame, workerVars, probeCached,
                   closeVars>>

\* A raw write that has been taken to its end: user code goes on, the flush
\* waits for its ACK.
RawWritten == IF exiting = "no" THEN "run" ELSE "wrote"

\* All of a raw write is part of one header or body.
TakeRaw ==
    /\ bridge \in {"header", "body"}
    /\ wasm = "write" /\ ~Kept
    /\ wasm' = RawWritten
    /\ UNCHANGED <<main, bridge, progVars, outcome, frame, reqVars, workerVars,
                   probeCached, closeVars>>

\* A raw write completes a header, of any length (0 and too many end the
\* goroutine); there may be more of it.
RawHeader ==
    /\ bridge = "header"
    /\ wasm = "write" /\ ~Kept
    /\ bridge' \in {"body", "done"}
    /\ wasm' \in {"write", RawWritten}
    /\ UNCHANGED <<main, progVars, outcome, frame, reqVars, workerVars,
                   probeCached, closeVars>>

\* ... or a body, of any kind.  Bound: MaxFrames.
RawBody(kind) ==
    /\ bridge = "body"
    /\ wasm = "write" /\ ~Kept
    /\ req.id <= MaxFrames
    /\ wasm' \in {"write", RawWritten}
    /\ Take(kind)
    /\ UNCHANGED <<main, progVars, outcome, frame, workerVars, probeCached,
                   closeVars>>
-----------------------------------------------------------------------------
(* The bridge goroutine answers it *)

NeedsWorker == \/ req.kind \in {"call", "huge", "bulky", "endless"}
               \/ req.kind = "probe" /\ ~probeCached

\* dispatch answers without the worker.
DispatchLocal ==
    /\ bridge = "dispatch"
    /\ ~NeedsWorker
    /\ Answer(req.id)
    /\ UNCHANGED <<main, wasm, progVars, outcome, frame, req, collected,
                   workerVars, probeCached, closeVars>>

\* Worker.Call or Worker.Probe sends the request.  A bulky one needs a worker
\* that reads, and one that is still sending does not.
DispatchCall ==
    /\ bridge = "dispatch"
    /\ NeedsWorker
    /\ workerUp
    /\ clogged => req.kind # "bulky"
    /\ bridge' = "calling"
    /\ toWorker' = Append(toWorker, req.id)
    /\ UNCHANGED <<main, wasm, progVars, outcome, frame, reqVars, fromWorker,
                   workerUp, clogged, probeCached, closeVars>>

\* ... or cannot, the connection being broken.
DispatchFails ==
    /\ bridge = "dispatch"
    /\ NeedsWorker
    /\ ~workerUp
    /\ Answer(req.id)
    /\ UNCHANGED <<main, wasm, progVars, outcome, frame, req, collected,
                   workerVars, probeCached, closeVars>>

\* ... and receives an answer, whichever is next in the socket.
CallReturns ==
    /\ bridge = "calling"
    /\ ~clogged
    /\ fromWorker # << >>
    /\ req.kind # "huge"
    /\ Answer(Head(fromWorker))
    /\ fromWorker' = Tail(fromWorker)
    /\ probeCached' = (probeCached \/ req.kind = "probe")
    /\ UNCHANGED <<main, wasm, progVars, outcome, frame, req, collected,
                   toWorker, workerUp, clogged, closeVars>>

\* ... or refuses a message that is too large, having read its header only.
\* The worker stays in sendall, and every later answer is looked for in the
\* text of that body, four bytes of which are too large a length again.
CallTooLarge ==
    /\ bridge = "calling"
    /\ \/ clogged /\ UNCHANGED <<clogged, fromWorker>>
       \/ /\ fromWorker # << >>
          /\ req.kind = "huge"
          /\ clogged' = TRUE
          /\ fromWorker' = Tail(fromWorker)
    /\ Answer(req.id)
    /\ UNCHANGED <<main, wasm, progVars, outcome, frame, req, collected,
                   toWorker, workerUp, probeCached, closeVars>>

\* ... or finds the connection broken.
CallFails ==
    /\ bridge = "calling"
    /\ ~workerUp
    /\ fromWorker = << >>
    /\ Answer(req.id)
    /\ toWorker' = << >>
    /\ UNCHANGED <<main, wasm, progVars, outcome, frame, req, collected,
                   fromWorker, workerUp, clogged, probeCached, closeVars>>

\* The two writes of sendBridgeResponse, each taken by a read of the program.
SendHdr ==
    /\ bridge = "sendHdr"
    /\ wasm = "readHdr"
    /\ bridge' = "sendBody"
    /\ wasm' = "gotHdr"
    /\ UNCHANGED <<main, progVars, outcome, frame, reqVars, workerVars,
                   probeCached, closeVars>>

SendBody ==
    /\ bridge = "sendBody"
    /\ wasm = "readBody"
    /\ bridge' = "header"
    /\ wasm' = "run"
    /\ UNCHANGED <<main, progVars, outcome, frame, reqVars, workerVars,
                   probeCached, closeVars>>

\* ... or by any other read, which may take a part only, or want more.
SendRaw ==
    /\ bridge \in {"sendHdr", "sendBody"}
    /\ wasm = "read"
    /\ \/ bridge' = bridge /\ wasm' = "run"
       \/ /\ bridge' = IF bridge = "sendHdr" THEN "sendBody" ELSE "header"
          /\ wasm' \in {"read", "run"}
    /\ UNCHANGED <<main, progVars, outcome, frame, reqVars, workerVars,
                   probeCached, closeVars>>

\* pipeStdinR is closed: the writes fail and their errors are ignored.
SendFails ==
    /\ bridge \in {"sendHdr", "sendBody"}
    /\ StdinRClosed
    /\ bridge' = "header"
    /\ UNCHANGED <<main, wasm, progVars, outcome, frame, reqVars, workerVars,
                   probeCached, closeVars>>
-----------------------------------------------------------------------------
(* The worker process, the clock and the server *)

\* worker.py answers the request it has received, if it comes to its end.
WorkerAnswers ==
    /\ workerUp
    /\ ~clogged
    /\ toWorker # << >>
    /\ ~(bridge = "calling" /\ req.kind = "endless")
    /\ fromWorker' = Append(fromWorker, Head(toWorker))
    /\ toWorker' = Tail(toWorker)
    /\ UNCHANGED <<main, bridge, wasm, progVars, outcome, frame, reqVars,
                   workerUp, clogged, probeCached, closeVars>>

WorkerDies ==
    /\ workerUp
    /\ workerUp' = FALSE
    /\ UNCHANGED <<main, bridge, wasm, progVars, outcome, frame, reqVars,
                   toWorker, fromWorker, clogged, probeCached, closeVars>>

\* timeout_sec has elapsed, or the client has gone.
CtxDone ==
    /\ ~ctxDone
    /\ main # "returned"
    /\ ctxDone' = TRUE
    /\ UNCHANGED <<main, bridge, wasm, progVars, outcome, frame, reqVars,
                   workerVars, probeCached, rtClosed>>

\* The server is stopping: pool.Close calls rt.Close, which closes the modules
\* that run with exit code 0.
RuntimeCloses ==
    /\ ~rtClosed
    /\ main # "returned"
    /\ rtClosed' = TRUE
    /\ UNCHANGED <<main, bridge, wasm, progVars, outcome, frame, reqVars,
                   workerVars, probeCached, ctxDone>>
-----------------------------------------------------------------------------
MainStep == Refuse \/ Start \/ CloseStdoutW \/ CloseStdinR \/ Return

UserStep == \/ PrintOutput
            \/ \E kind \in Does \ {"raw"} : Send(kind)
            \/ RawWrite \/ RawRead
            \/ \E status \in {"zero", "nonzero"} : Exit(status)
            \/ Abort

ReadStep == \/ ReadHeader \/ ReadFrameEOF \/ ReadBody
            \/ TakeRaw \/ RawHeader
            \/ \E kind \in (Does \ {"raw", "oversize"}) \cup {"bad", "stdout"} :
                  RawBody(kind)

CallStep == \/ DispatchLocal \/ DispatchCall \/ DispatchFails
            \/ CallReturns \/ CallTooLarge \/ CallFails

SendStep == SendHdr \/ SendBody \/ SendRaw \/ SendFails

BridgeStep == ReadStep \/ CallStep \/ SendStep

Next == \/ MainStep
        \/ UserStep \/ NextRead \/ ReadEOF \/ Leave \/ Kill
        \/ BridgeStep
        \/ WorkerAnswers \/ WorkerDies
        \/ CtxDone \/ RuntimeCloses

Spec == Init /\ [][Next]_vars

\* The goroutines, the interpreter and the worker make progress.  A closed
\* module that executes again and again notices, though it may be in a read
\* soon after: wazero looks at every call and every turn of a loop.  The user's
\* code may loop for ever, and no deadline has to pass.
Fairness ==
    /\ WF_vars(MainStep)
    /\ WF_vars(NextRead \/ ReadEOF \/ Leave)
    /\ SF_vars(Kill)
    /\ WF_vars(BridgeStep)
    /\ WF_vars(WorkerAnswers)

FairSpec == Spec /\ Fairness
-----------------------------------------------------------------------------
(* Properties *)

\* Every variable has its type; unless it is clogged, the worker's socket never
\* holds more than the one message of the call in progress.
TypeOK ==
    /\ main \in Mains
    /\ bridge \in Bridges
    /\ wasm \in Wasms
    /\ exiting \in {"no", "zero", "nonzero"}
    /\ outcome \in {"none", "refused", "zero", "nonzero", "quit", "aborted",
                   "deadline", "closed"}
    /\ frame \in [kind : Doings \cup {"none", "stdout"}, id : 0..(MaxFrames + 1)]
    /\ req \in [kind : Doings \cup {"none", "stdout"}, id : 0..(MaxFrames + 1)]
    /\ reply \in 0..req.id
    /\ captured \in BOOLEAN /\ collected \in BOOLEAN
    /\ toWorker \in Seq(1..req.id)
    /\ fromWorker \in Seq(1..req.id)
    /\ ~clogged => Len(toWorker) + Len(fromWorker) <= 1
    /\ workerUp \in BOOLEAN /\ clogged \in BOOLEAN /\ probeCached \in BOOLEAN
    /\ ctxDone \in BOOLEAN /\ rtClosed \in BOOLEAN

\* The answer the bridge writes is the answer to the last request it has read,
\* and for a program that keeps to the frames that is the last one it has sent:
\* neither Call (which does not look at the id of what it receives) nor
\* bootstrap.py checks that, they rely on taking turns.
ReplyMatches ==
    bridge \in {"sendHdr", "sendBody"} =>
        reply = req.id /\ (Kept => req.id = frame.id)

\* When Run returns, and its deferred release gives the worker to another
\* request, the bridge goroutine has ended and nothing of this run is in the
\* worker's socket: unless an answer was too large, which the Ping of the next
\* Acquire fails on.
QuiescentOnReturn ==
    main = "returned" => /\ bridge \in {"off", "done"}
                         /\ ~clogged => toWorker = << >> /\ fromWorker = << >>

\* A program that kept to the frames and came to its end, normally or by an
\* exception, has all its output in the result.
StdoutComplete ==
    main = "returned" /\ outcome \in {"zero", "nonzero"} /\ Kept /\ captured =>
        collected
-----------------------------------------------------------------------------
(* The inductive invariant *)

\* The bound on frames leaves one number for the flush; requests count from 1.
\* While the program keeps to the frames, the bridge has read all of them but
\* the one being written.
FrameInv ==
    /\ exiting = "no" => frame.id <= MaxFrames
    /\ req.kind # "none" => req.id > 0
    /\ Kept => frame.id = req.id + (IF wasm = "write" THEN 1 ELSE 0)

\* Program and bridge goroutine take turns, if the program keeps to the frames.
TurnInv ==
    /\ main = "start" => bridge = "off" /\ wasm = "off"
    /\ main = "exec" => bridge # "off" /\ wasm # "off"
    /\ main \in {"outClosed", "waiting"} => wasm = "gone" /\ bridge # "off"
    /\ main = "returned" => bridge \in {"off", "done"} /\ wasm \in {"off", "gone"}
    /\ Kept => /\ wasm # "read"
               /\ bridge = "body" => wasm = "write"
               /\ bridge \in {"dispatch", "calling", "sendHdr"} =>
                     wasm \in {"wrote", "readHdr", "gone"}
               /\ bridge = "sendBody" => wasm \in {"gotHdr", "readBody", "gone"}

\* The worker's socket holds the request that is being called, or its answer,
\* and nothing when no call is in progress.
SocketInv ==
    \/ clogged
    \/ bridge = "calling" /\ toWorker = <<req.id>> /\ fromWorker = << >>
    \/ bridge = "calling" /\ toWorker = << >> /\ fromWorker = <<req.id>>
    \/ bridge # "calling" /\ toWorker = << >> /\ fromWorker = << >>

\* An interpreter that is past its flush has had its output collected.
FlushInv ==
    /\ wasm = "off" => exiting = "no"
    /\ Kept /\ captured /\ exiting # "no" =>
          /\ wasm = "write" => frame.kind \in {"stdout", "oversize"}
          /\ bridge = "body" => frame.kind = "stdout"
          /\ wasm \in {"run", "wrote", "readHdr", "gotHdr", "readBody"} => collected
    /\ outcome \in {"zero", "nonzero"} =>
          wasm = "gone" /\ (Kept /\ captured => collected)

IInv == TypeOK /\ FrameInv /\ TurnInv /\ SocketInv /\ ReplyMatches /\ FlushInv
-----------------------------------------------------------------------------
(* Liveness, and what comments say that the code does not do *)

\* A run whose program has ended, or whose deadline has passed, returns and
\* releases its worker: "CloseOnContextDone makes wazero close in-flight
\* modules when their per-request context is cancelled [...] and the module
\* exits promptly".
RunReturns == (ctxDone \/ exiting # "no") ~> main = "returned"

\* Where a run can stay for good.  A program that keeps to the frames: in a
\* write of more than 8 MiB, which nobody reads; in a function that does not
\* end; in a request that a worker does not read because it is still sending.
\* A program that writes and reads the descriptors itself: in a write after the
\* bridge goroutine has given up, or while it writes a reply that is not being
\* read; in a read of what the goroutine, reading itself, does not write.
Stuck ==
    \/ wasm = "write" /\ bridge = "done" /\ (Kept => frame.kind = "oversize")
    \/ bridge = "calling" /\ req.kind = "endless" /\ workerUp
    \/ bridge = "dispatch" /\ req.kind = "bulky" /\ clogged /\ workerUp
    \/ ~Kept /\ wasm = "write" /\ bridge \in {"sendHdr", "sendBody"}
    \/ ~Kept /\ wasm = "read" /\ bridge \in {"header", "body"}

\* Whenever the worker dies, a run that has been told to end, by its program or
\* by its deadline, returns, or stays for good in one of those states.  A
\* program that keeps to the frames is always answered, and the pipes, closed
\* in their order, unblock the bridge goroutine.
RunReturnsUnlessStuck ==
    (ctxDone \/ exiting # "no") ~> (main = "returned" \/ []Stuck)
=============================================================================
