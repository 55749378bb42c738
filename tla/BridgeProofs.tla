---------------------------- MODULE BridgeProofs ----------------------------
(***************************************************************************)
(* Proofs about Bridge for any number of requests and any program.         *)
(* ReplyMatches is not inductive: that the answer taken from the worker's  *)
(* socket is the right one needs SocketInv, and that a program which keeps *)
(* to the frames writes none while one is answered needs TurnInv.  StdoutComplete needs        *)
(* FlushInv, which follows the one flush from fd_write to the exit.        *)
(***************************************************************************)
EXTENDS Bridge, TLAPS

\* The inductive invariant holds before Run does anything.
LEMMA InitIInv == Init => IInv
<1> SUFFICES ASSUME Init  PROVE IInv
  OBVIOUS
<1>1. TypeOK
  <2>1. /\ frame \in [kind : Doings \cup {"none", "stdout"}, id : 0..(MaxFrames + 1)]
        /\ req \in [kind : Doings \cup {"none", "stdout"}, id : 0..(MaxFrames + 1)]
        /\ req.id = 0
    BY MaxFramesAssumption DEF Init
  <2>2. /\ toWorker \in Seq(1..req.id) /\ fromWorker \in Seq(1..req.id)
        /\ Len(toWorker) + Len(fromWorker) <= 1
    BY DEF Init
  <2>3. main \in Mains /\ bridge \in Bridges /\ wasm \in Wasms
    BY DEF Init, Mains, Bridges, Wasms
  <2>4. reply \in 0..req.id
    BY <2>1 DEF Init
  <2>5. /\ captured \in BOOLEAN /\ collected \in BOOLEAN
        /\ workerUp \in BOOLEAN /\ clogged \in BOOLEAN /\ probeCached \in BOOLEAN
        /\ ctxDone \in BOOLEAN /\ rtClosed \in BOOLEAN
        /\ exiting = "no" /\ outcome = "none"
    BY DEF Init
  <2> QED BY <2>1, <2>2, <2>3, <2>4, <2>5 DEF TypeOK
<1>2. FrameInv /\ TurnInv /\ SocketInv /\ ReplyMatches /\ FlushInv
  BY MaxFramesAssumption
     DEF Init, Kept, FrameInv, TurnInv, SocketInv, ReplyMatches, FlushInv
<1> QED BY <1>1, <1>2 DEF IInv

\* Every step keeps the types.  That the socket holds one message at most is
\* SocketInv of the state reached.
LEMMA TypeStep ==
  TypeOK /\ FrameInv /\ TurnInv /\ SocketInv' /\ [Next]_vars
    => TypeOK' /\ FrameInv'
<1> SUFFICES ASSUME TypeOK, FrameInv, TurnInv, SocketInv', [Next]_vars
             PROVE  TypeOK' /\ FrameInv'
  OBVIOUS
<1> USE DoesAssumption, MaxFramesAssumption
        DEF TypeOK, FrameInv, Kept, Mains, Bridges, Wasms, Doings,
            progVars, reqVars, workerVars, closeVars
<1>0. (~clogged => Len(toWorker) + Len(fromWorker) <= 1)'
  <2>1. \A x : Len(<<x>>) + Len(<< >>) <= 1 /\ Len(<< >>) + Len(<<x>>) <= 1
    OBVIOUS
  <2>2. Len(<< >>) + Len(<< >>) <= 1
    OBVIOUS
  <2>3. SocketInv'
    OBVIOUS
  <2>4. CASE toWorker' = <<req.id>>' /\ fromWorker' = << >>
    BY <2>1, <2>4
  <2>5. CASE toWorker' = << >> /\ fromWorker' = <<req.id>>'
    BY <2>1, <2>5
  <2>6. CASE toWorker' = << >> /\ fromWorker' = << >>
    BY <2>2, <2>6
  <2> QED BY <2>3, <2>4, <2>5, <2>6 DEF SocketInv
<1>1. CASE MainStep
  <2>1. CASE Refuse
    BY <1>0, <2>1 DEF Refuse
  <2>3. CASE Start
    <3>1. wasm' \in {"gone", "run"} /\ outcome' \in {"closed", outcome}
      BY <2>3 DEF Start
    <3>2. Kept => frame.id = req.id
      BY <2>3 DEF Start, TurnInv
    <3> QED BY <1>0, <2>3, <3>1, <3>2 DEF Start
  <2>2. CASE CloseStdoutW \/ CloseStdinR \/ Return
    BY <1>0, <2>2 DEF CloseStdoutW, CloseStdinR, Return
  <2> QED BY <1>1, <2>1, <2>2, <2>3 DEF MainStep
<1>2. CASE UserStep
  <2>1. CASE PrintOutput
    BY <1>0, <2>1 DEF PrintOutput
  <2>4. CASE RawWrite \/ RawRead
    BY <1>0, <2>4 DEF RawWrite, RawRead, WriteRaw
  <2>5. CASE Abort
    BY <1>0, <2>5 DEF Abort
  <2>2. ASSUME NEW kind \in Does \ {"raw"}, Send(kind)
        PROVE  TypeOK' /\ FrameInv'
    <3>1. frame' = [kind |-> kind, id |-> frame.id + 1] /\ frame.id < MaxFrames
      BY <2>2 DEF Send, WriteFrame
    <3> QED BY <1>0, <2>2, <3>1 DEF Send, WriteFrame
  <2>3. ASSUME NEW status \in {"zero", "nonzero"}, Exit(status)
        PROVE  TypeOK' /\ FrameInv'
    <3>1. CASE captured /\ Kept
      BY <1>0, <2>3, <3>1 DEF Exit, WriteFrame
    <3>2. CASE captured /\ ~Kept
      BY <1>0, <2>3, <3>2 DEF Exit, WriteRaw
    <3>3. CASE ~captured
      BY <1>0, <2>3, <3>3 DEF Exit
    <3> QED BY <3>1, <3>2, <3>3
  <2> QED BY <1>2, <2>1, <2>2, <2>3, <2>4, <2>5 DEF UserStep
<1>3. CASE NextRead \/ ReadEOF \/ Leave \/ Kill
  <2>1. CASE NextRead
    BY <1>0, <2>1 DEF NextRead
  <2>2. CASE ReadEOF
    BY <1>0, <2>2 DEF ReadEOF
  <2>3. CASE Leave
    BY <1>0, <2>3 DEF Leave
  <2>4. CASE Kill
    BY <1>0, <2>4 DEF Kill
  <2> QED BY <1>3, <2>1, <2>2, <2>3, <2>4
<1>4. CASE ReadStep
  <2>1. CASE ReadHeader
    BY <1>0, <2>1 DEF ReadHeader
  <2>2. CASE ReadFrameEOF
    BY <1>0, <2>2 DEF ReadFrameEOF
  <2>3. ASSUME NEW kind \in Doings \cup {"none", "stdout"}, Take(kind),
               UNCHANGED <<main, outcome, progVars, frame, workerVars,
                           probeCached, closeVars>>,
               req.id <= MaxFrames, wasm' \in Wasms,
               Kept => wasm = "write" /\ wasm' # "write"
        PROVE  TypeOK' /\ FrameInv'
    BY <1>0, <2>3 DEF Take, Answer
  <2>4. CASE ReadBody
    <3>1. frame.kind \in Doings \cup {"none", "stdout"} /\ req.id <= MaxFrames
      BY <2>4 DEF ReadBody
    <3> QED BY <2>3, <2>4, <3>1 DEF ReadBody
  <2>5. CASE TakeRaw
    BY <1>0, <2>5 DEF TakeRaw, RawWritten
  <2>6. CASE RawHeader
    BY <1>0, <2>6 DEF RawHeader, RawWritten
  <2>7. ASSUME NEW kind \in (Does \ {"raw", "oversize"}) \cup {"bad", "stdout"},
               RawBody(kind)
        PROVE  TypeOK' /\ FrameInv'
    BY <2>3, <2>7 DEF RawBody, RawWritten
  <2> QED BY <1>4, <2>1, <2>2, <2>4, <2>5, <2>6, <2>7 DEF ReadStep
<1>5. CASE CallStep
  <2>1. CASE DispatchLocal \/ DispatchFails
    BY <1>0, <2>1 DEF DispatchLocal, DispatchFails, Answer
  <2>2. CASE DispatchCall
    <3>1. req.id \in 1..req.id
      BY <2>2 DEF DispatchCall, NeedsWorker
    <3> QED BY <1>0, <2>2, <3>1 DEF DispatchCall
  <2>3. CASE CallReturns
    BY <1>0, <2>3 DEF CallReturns, Answer
  <2>4. CASE CallTooLarge
    <3>1. CASE clogged /\ UNCHANGED <<clogged, fromWorker>>
      BY <1>0, <2>4, <3>1 DEF CallTooLarge, Answer
    <3>2. CASE fromWorker # << >> /\ clogged' = TRUE /\ fromWorker' = Tail(fromWorker)
      <4>1. fromWorker' \in Seq(1..req.id)
        BY <3>2
      <4> QED BY <1>0, <2>4, <3>2, <4>1 DEF CallTooLarge, Answer
    <3> QED BY <2>4, <3>1, <3>2 DEF CallTooLarge
  <2>5. CASE CallFails
    BY <1>0, <2>5 DEF CallFails, Answer
  <2> QED BY <1>5, <2>1, <2>2, <2>3, <2>4, <2>5 DEF CallStep
<1>6. CASE SendStep
  BY <1>0, <1>6 DEF SendStep, SendHdr, SendBody, SendRaw, SendFails
<1>7. CASE WorkerAnswers
  <2>1. /\ fromWorker' \in Seq(1..req.id)
        /\ toWorker' \in Seq(1..req.id)
    BY <1>7 DEF WorkerAnswers
  <2> QED BY <1>0, <1>7, <2>1 DEF WorkerAnswers
<1>8. CASE WorkerDies \/ CtxDone \/ RuntimeCloses
  <2>1. CASE WorkerDies
    <3>1. workerUp' \in BOOLEAN
      BY <2>1 DEF WorkerDies
    <3> QED BY <1>0, <2>1, <3>1 DEF WorkerDies
  <2>2. CASE CtxDone
    <3>1. ctxDone' \in BOOLEAN
      BY <2>2 DEF CtxDone
    <3> QED BY <1>0, <2>2, <3>1 DEF CtxDone
  <2>3. CASE RuntimeCloses
    <3>1. rtClosed' \in BOOLEAN
      BY <2>3 DEF RuntimeCloses
    <3> QED BY <1>0, <2>3, <3>1 DEF RuntimeCloses
  <2> QED BY <1>8, <2>1, <2>2, <2>3
<1>9. CASE UNCHANGED vars
  BY <1>9 DEF vars
<1> QED BY <1>1, <1>2, <1>3, <1>4, <1>5, <1>6, <1>7, <1>8, <1>9
        DEF Next, BridgeStep

\* A socket that takes a message, and gives it back.
LEMMA OneMessage ==
  \A x : /\ Append(<< >>, x) = <<x>>
        /\ Head(<<x>>) = x
        /\ Tail(<<x>>) = << >>
        /\ <<x>> # << >>
OBVIOUS

\* Every step keeps program and bridge goroutine taking turns.
LEMMA TurnStep == TurnInv /\ [Next]_vars => TurnInv'
<1> SUFFICES ASSUME TurnInv, [Next]_vars  PROVE TurnInv'
  OBVIOUS
<1> USE DEF TurnInv, Kept, progVars, reqVars, workerVars, closeVars
<1>1. CASE Refuse \/ Start \/ CloseStdoutW \/ CloseStdinR \/ Return
  BY <1>1 DEF Refuse, Start, CloseStdoutW, CloseStdinR, Return
<1>2. CASE UserStep
  BY <1>2 DEF UserStep, PrintOutput, Send, RawWrite, RawRead, Exit, Abort,
              WriteFrame, WriteRaw
<1>3. CASE NextRead \/ ReadEOF \/ Leave \/ Kill
  BY <1>3 DEF NextRead, ReadEOF, Leave, Kill, StdinWClosed
<1>4. CASE ReadStep
  BY <1>4 DEF ReadStep, ReadHeader, ReadFrameEOF, ReadBody, TakeRaw,
              RawHeader, RawBody, RawWritten, Take, Answer, StdoutWClosed
<1>5. CASE CallStep
  BY <1>5 DEF CallStep, DispatchLocal, DispatchCall, DispatchFails,
              CallReturns, CallTooLarge, CallFails, Answer
<1>6. CASE SendStep
  BY <1>6 DEF SendStep, SendHdr, SendBody, SendRaw, SendFails, StdinRClosed
<1>7. CASE WorkerAnswers \/ WorkerDies \/ CtxDone \/ RuntimeCloses
  BY <1>7 DEF WorkerAnswers, WorkerDies, CtxDone, RuntimeCloses
<1>8. CASE UNCHANGED vars
  BY <1>8 DEF vars
<1> QED BY <1>1, <1>2, <1>3, <1>4, <1>5, <1>6, <1>7, <1>8
        DEF Next, MainStep, BridgeStep

\* Every step keeps the worker's socket in step with the call in progress: the
\* frame does not change during a call, for the program waits for its answer.
LEMMA SocketStep == TurnInv /\ SocketInv /\ [Next]_vars => SocketInv'
<1> SUFFICES ASSUME TurnInv, SocketInv, [Next]_vars  PROVE SocketInv'
  OBVIOUS
<1> USE DEF SocketInv, progVars, reqVars, workerVars, closeVars
<1>1. CASE Refuse \/ Start \/ CloseStdoutW \/ CloseStdinR \/ Return
  BY <1>1 DEF Refuse, Start, CloseStdoutW, CloseStdinR, Return, TurnInv
<1>2. CASE UserStep
  BY <1>2 DEF UserStep, PrintOutput, Send, RawWrite, RawRead, Exit, Abort,
              WriteFrame, WriteRaw, TurnInv
<1>3. CASE NextRead \/ ReadEOF \/ Leave \/ Kill
  BY <1>3 DEF NextRead, ReadEOF, Leave, Kill
<1>4. CASE ReadStep
  BY <1>4 DEF ReadStep, ReadHeader, ReadFrameEOF, ReadBody, TakeRaw,
              RawHeader, RawBody, RawWritten, Take, Answer
<1>5. CASE CallStep
  <2>1. CASE DispatchLocal
    BY <2>1 DEF DispatchLocal, Answer
  <2>2. CASE DispatchCall
    BY <2>2, OneMessage DEF DispatchCall
  <2>3. CASE DispatchFails
    BY <2>3 DEF DispatchFails, Answer
  <2>4. CASE CallReturns
    BY <2>4, OneMessage DEF CallReturns, Answer
  <2>5. CASE CallTooLarge
    BY <2>5 DEF CallTooLarge, Answer
  <2>6. CASE CallFails
    BY <2>6 DEF CallFails, Answer
  <2> QED BY <1>5, <2>1, <2>2, <2>3, <2>4, <2>5, <2>6 DEF CallStep
<1>6. CASE SendStep
  BY <1>6 DEF SendStep, SendHdr, SendBody, SendRaw, SendFails
<1>7. CASE WorkerAnswers
  BY <1>7, OneMessage DEF WorkerAnswers
<1>8. CASE WorkerDies \/ CtxDone \/ RuntimeCloses
  BY <1>8 DEF WorkerDies, CtxDone, RuntimeCloses
<1>9. CASE UNCHANGED vars
  BY <1>9 DEF vars
<1> QED BY <1>1, <1>2, <1>3, <1>4, <1>5, <1>6, <1>7, <1>8, <1>9
        DEF Next, MainStep, BridgeStep

\* Every step keeps the answer that is being written the one to the last request
\* read: that this is the last frame sent follows from their numbers.
LEMMA ReplyStep ==
  /\ TurnInv /\ SocketInv /\ ReplyMatches /\ [Next]_vars
  /\ TypeOK' /\ FrameInv' /\ TurnInv'
  => ReplyMatches'
<1> DEFINE Right == bridge \in {"sendHdr", "sendBody"} => reply = req.id
<1> SUFFICES ASSUME TurnInv, SocketInv, Right, [Next]_vars,
                    TypeOK', FrameInv', TurnInv'
             PROVE  ReplyMatches'
  BY DEF ReplyMatches
<1>a. SUFFICES Right'
  <2>1. (Kept /\ bridge \in {"sendHdr", "sendBody"} => wasm # "write")'
    BY DEF TurnInv
  <2>2. req'.id \in Nat
    BY MaxFramesAssumption DEF TypeOK
  <2>3. (Kept /\ bridge \in {"sendHdr", "sendBody"} => frame.id = req.id)'
    BY <2>1, <2>2 DEF FrameInv
  <2> QED BY <2>3 DEF ReplyMatches
<1> USE DEF progVars, reqVars, workerVars, closeVars
<1>1. CASE Refuse \/ Start \/ CloseStdoutW \/ CloseStdinR \/ Return
  BY <1>1 DEF Refuse, Start, CloseStdoutW, CloseStdinR, Return
<1>2. CASE UserStep
  BY <1>2 DEF UserStep, PrintOutput, Send, RawWrite, RawRead, Exit, Abort
<1>3. CASE NextRead \/ ReadEOF \/ Leave \/ Kill
  BY <1>3 DEF NextRead, ReadEOF, Leave, Kill
<1>4. CASE ReadStep
  BY <1>4 DEF ReadStep, ReadHeader, ReadFrameEOF, ReadBody, TakeRaw,
              RawHeader, RawBody, Take, Answer
<1>5. CASE DispatchLocal \/ DispatchCall \/ DispatchFails
          \/ CallTooLarge \/ CallFails
  BY <1>5 DEF DispatchLocal, DispatchCall, DispatchFails, CallTooLarge,
              CallFails, Answer
<1>6. CASE CallReturns
  BY <1>6 DEF CallReturns, Answer, SocketInv
<1>7. CASE SendStep
  BY <1>7 DEF SendStep, SendHdr, SendBody, SendRaw, SendFails
<1>8. CASE WorkerAnswers \/ WorkerDies \/ CtxDone \/ RuntimeCloses
  BY <1>8 DEF WorkerAnswers, WorkerDies, CtxDone, RuntimeCloses
<1>9. CASE UNCHANGED vars
  BY <1>9 DEF vars
<1> QED BY <1>1, <1>2, <1>3, <1>4, <1>5, <1>6, <1>7, <1>8, <1>9
        DEF Next, MainStep, BridgeStep, CallStep

\* Every step keeps the output of a program past its flush collected.
LEMMA FlushStep == TurnInv /\ FlushInv /\ [Next]_vars => FlushInv'
<1> SUFFICES ASSUME TurnInv, FlushInv, [Next]_vars  PROVE FlushInv'
  OBVIOUS
<1> USE DEF FlushInv, Kept, progVars, reqVars, workerVars, closeVars
<1>1. CASE Refuse \/ Start \/ CloseStdoutW \/ CloseStdinR \/ Return
  BY <1>1 DEF Refuse, Start, CloseStdoutW, CloseStdinR, Return, TurnInv
<1>2. CASE PrintOutput \/ Abort
  BY <1>2 DEF PrintOutput, Abort
<1>3. CASE RawWrite \/ RawRead \/ \E kind \in Does \ {"raw"} : Send(kind)
  BY <1>3 DEF RawWrite, RawRead, WriteRaw, Send, WriteFrame, TurnInv
<1>4. CASE \E status \in {"zero", "nonzero"} : Exit(status)
  BY <1>4 DEF Exit, WriteFrame, WriteRaw, TurnInv
<1>5. CASE NextRead \/ ReadEOF \/ Leave \/ Kill
  BY <1>5 DEF NextRead, ReadEOF, Leave, Kill, TurnInv
<1>6. CASE ReadHeader \/ ReadFrameEOF \/ TakeRaw \/ RawHeader
  BY <1>6 DEF ReadHeader, ReadFrameEOF, TakeRaw, RawHeader, RawWritten
<1>7. CASE ReadBody
  BY <1>7 DEF ReadBody, Take, Answer, TurnInv
<1>8. ASSUME NEW kind \in (Does \ {"raw", "oversize"}) \cup {"bad", "stdout"},
             RawBody(kind)
      PROVE  FlushInv'
  BY <1>8 DEF RawBody, RawWritten, Take
<1>9. CASE CallStep
  BY <1>9 DEF CallStep, DispatchLocal, DispatchCall, DispatchFails,
              CallReturns, CallTooLarge, CallFails, Answer
<1>10. CASE SendStep
  BY <1>10 DEF SendStep, SendHdr, SendBody, SendRaw, SendFails, TurnInv
<1>11. CASE WorkerAnswers \/ WorkerDies \/ CtxDone \/ RuntimeCloses
  BY <1>11 DEF WorkerAnswers, WorkerDies, CtxDone, RuntimeCloses
<1>12. CASE UNCHANGED vars
  BY <1>12 DEF vars
<1> QED BY <1>1, <1>2, <1>3, <1>4, <1>5, <1>6, <1>7, <1>8, <1>9, <1>10, <1>11, <1>12
        DEF Next, MainStep, UserStep, BridgeStep, ReadStep

\* The inductive invariant holds in every state of every run.
THEOREM Invariance == Spec => []IInv
<1>1. IInv /\ [Next]_vars => IInv'
  BY TypeStep, TurnStep, SocketStep, ReplyStep, FlushStep DEF IInv
<1> QED BY InitIInv, <1>1, PTL DEF Spec

\* Every variable keeps its type, for any program: numbers of frames stay below
\* their bound, and the worker's socket never holds two messages of runs that
\* are in step.
THEOREM TypeCorrect == Spec => []TypeOK
<1>1. IInv => TypeOK
  BY DEF IInv
<1> QED BY Invariance, <1>1, PTL

\* No answer of a run, the worker's included, ever reaches a request it does
\* not belong to, although no id is compared.
THEOREM RepliesMatch == Spec => []ReplyMatches
<1>1. IInv => ReplyMatches
  BY DEF IInv
<1> QED BY Invariance, <1>1, PTL

\* A run that returns leaves nothing behind that could reach the next holder
\* of its worker.
THEOREM Quiescent == Spec => []QuiescentOnReturn
<1>1. IInv => QuiescentOnReturn
  BY DEF IInv, TurnInv, SocketInv, QuiescentOnReturn
<1> QED BY Invariance, <1>1, PTL

\* The output of a program that kept to the frames and came to its end is never
\* lost.
THEOREM OutputComplete == Spec => []StdoutComplete
<1>1. IInv => StdoutComplete
  BY DEF IInv, FlushInv, StdoutComplete
<1> QED BY Invariance, <1>1, PTL
=============================================================================
