-------------------------- MODULE WorkerPoolProofs --------------------------
(***************************************************************************)
(* Proofs about WorkerPool for every Size, every finite set of Requests    *)
(* and any number of faults.  TypeOK is not inductive: that a worker shut  *)
(* down has a number needs ControlInv, that no worker is in two places     *)
(* needs PlaceInv, and that the channel has room on release needs SlotInv. *)
(***************************************************************************)
EXTENDS WorkerPool, SequenceTheorems, FiniteSetTheorems, TLAPS

-----------------------------------------------------------------------------
(* Sequences without duplicates *)

\* What release does to the channel: one worker more, still none twice.
LEMMA AppendFacts ==
  ASSUME NEW S, NEW s \in Seq(S), NEW x \in S
  PROVE  /\ Append(s, x) \in Seq(S)
         /\ Len(Append(s, x)) = Len(s) + 1
         /\ ToSet(Append(s, x)) = ToSet(s) \cup {x}
         /\ IsInjective(s) /\ x \notin ToSet(s) => IsInjective(Append(s, x))
<1>1. /\ Append(s, x) \in Seq(S)
      /\ Len(Append(s, x)) = Len(s) + 1
      /\ \A i \in 1..Len(s) : Append(s, x)[i] = s[i]
      /\ Append(s, x)[Len(s) + 1] = x
  OBVIOUS
<1>2. DOMAIN s = 1..Len(s) /\ DOMAIN Append(s, x) = 1..(Len(s) + 1)
  OBVIOUS
<1>3. ToSet(Append(s, x)) = ToSet(s) \cup {x}
  BY <1>1, <1>2 DEF ToSet
<1>4. ASSUME IsInjective(s), x \notin ToSet(s)
      PROVE  IsInjective(Append(s, x))
  BY <1>1, <1>2, <1>4 DEF IsInjective, ToSet
<1> QED BY <1>1, <1>3, <1>4

\* What a receive does to the channel: the first worker is no longer in it.
LEMMA TailFacts ==
  ASSUME NEW S, NEW s \in Seq(S), s # << >>, IsInjective(s)
  PROVE  /\ Tail(s) \in Seq(S)
         /\ Head(s) \in ToSet(s)
         /\ Len(Tail(s)) = Len(s) - 1
         /\ ToSet(Tail(s)) = ToSet(s) \ {Head(s)}
         /\ IsInjective(Tail(s))
<1>1. /\ Tail(s) \in Seq(S)
      /\ Head(s) = s[1]
      /\ Len(s) \in Nat \ {0}
      /\ Len(Tail(s)) = Len(s) - 1
      /\ \A i \in 1..(Len(s) - 1) : Tail(s)[i] = s[i + 1]
  BY EmptySeq, HeadTailProperties
<1>2. DOMAIN s = 1..Len(s) /\ DOMAIN Tail(s) = 1..(Len(s) - 1)
  BY <1>1, LenProperties
<1>3. \A i, j \in 1..Len(s) : s[i] = s[j] => i = j
  BY <1>2 DEF IsInjective
<1>4. Head(s) \in ToSet(s)
  BY <1>1, <1>2 DEF ToSet
<1>5. ToSet(Tail(s)) = ToSet(s) \ {Head(s)}
  <2>1. ASSUME NEW v \in ToSet(Tail(s))  PROVE  v \in ToSet(s) \ {Head(s)}
    BY <1>1, <1>2, <1>3 DEF ToSet
  <2>2. ASSUME NEW v \in ToSet(s) \ {Head(s)}  PROVE  v \in ToSet(Tail(s))
    <3>1. PICK i \in 1..Len(s) : v = s[i]
      BY <1>2 DEF ToSet
    <3>2. i - 1 \in 1..(Len(s) - 1) /\ Tail(s)[i - 1] = s[i]
      BY <1>1, <3>1
    <3> QED BY <1>2, <3>1, <3>2 DEF ToSet
  <2> QED BY <2>1, <2>2
<1>6. IsInjective(Tail(s))
  BY <1>1, <1>2, <1>3 DEF IsInjective
<1> QED BY <1>1, <1>4, <1>5, <1>6

\* An empty channel holds nothing, and nothing twice.
LEMMA EmptyFacts == ToSet(<< >>) = {} /\ IsInjective(<< >>)
BY DEF ToSet, IsInjective

-----------------------------------------------------------------------------
(* Type correctness *)

\* The variables have their types before NewPool.
LEMMA TypeInit == Init => TypeOK
<1> SUFFICES ASSUME Init  PROVE TypeOK
  OBVIOUS
<1>1. << >> \in Seq(SockIDs)
  BY EmptySeq
<1>2. /\ pc \in [Requests -> PCs]
      /\ wk \in [Requests -> SockIDs \cup {NoWorker}]
  BY DEF Init, PCs
<1>3. bootFailed \in BOOLEAN
  BY DEF Init
<1>4. /\ phase \in Phases /\ nextSockID \in Nat
      /\ faults \in 0..MaxFaults /\ spawnFails \in 0..MaxSpawnFailures
  BY BoundsAssumption DEF Init, Phases
<1>5. /\ started = << >> /\ workers = << >>
      /\ booting = {} /\ alive = {} /\ serving = {} /\ stopped = {}
  BY DEF Init
<1> QED BY <1>1, <1>2, <1>3, <1>4, <1>5 DEF TypeOK

\* Every step keeps the types; a message is never nil because ControlInv says
\* which requests have a worker.
LEMMA TypeStep == TypeOK /\ ControlInv /\ [Next]_vars => TypeOK'
<1> SUFFICES ASSUME TypeOK, ControlInv, [Next]_vars  PROVE TypeOK'
  OBVIOUS
<1> USE BoundsAssumption DEF TypeOK, NoWorker, bootVars, reqVars, procVars, envVars
<1>0. /\ started \in Seq(1..(nextSockID + 1))
      /\ workers \in Seq(1..(nextSockID + 1))
  <2>1. 1..nextSockID \subseteq 1..(nextSockID + 1)
    OBVIOUS
  <2> QED BY <2>1, SeqMonotonic DEF SockIDs
<1>1. CASE BootSpawn
  BY <1>0, <1>1 DEF BootSpawn, SockIDs
<1>2. ASSUME NEW w \in booting, BootReady(w)  PROVE TypeOK'
  BY <1>2, AppendFacts DEF BootReady, ProcessUp, SockIDs
<1>3. ASSUME NEW w \in booting, BootError(w)  PROVE TypeOK'
  BY <1>3 DEF BootError, ProcessFailed, SockIDs
<1>4. CASE NewPoolFails
  <2>1. Booted \subseteq SockIDs
    BY ElementOfSeq, LenProperties DEF Booted, ToSet
  <2>2. << >> \in Seq(SockIDs)
    BY EmptySeq
  <2> QED BY <1>4, <2>1, <2>2 DEF NewPoolFails, ShutdownAll, Phases, SockIDs
<1>5. CASE NewPoolReturns
  BY <1>5, EmptySeq DEF NewPoolReturns, Phases, SockIDs
<1>6. ASSUME NEW r \in Requests, Enter(r)  PROVE TypeOK'
  BY <1>6 DEF Enter, PCs, SockIDs
<1>7. ASSUME NEW r \in Requests, Receive(r)  PROVE TypeOK'
  <2>1. Head(workers) \in SockIDs /\ Tail(workers) \in Seq(SockIDs)
    BY <1>7, HeadTailProperties DEF Receive
  <2> QED BY <1>7, <2>1 DEF Receive, PCs, SockIDs
<1>8. ASSUME NEW r \in Requests, ReceiveNil(r)  PROVE TypeOK'
  BY <1>8 DEF ReceiveNil, PCs, SockIDs
<1>9. ASSUME NEW r \in Requests, CtxDone(r)  PROVE TypeOK'
  BY <1>9 DEF CtxDone, PCs, SockIDs
<1>10. ASSUME NEW r \in Requests, Ping(r)  PROVE TypeOK'
  BY <1>10 DEF Ping, PCs, SockIDs
<1>11. ASSUME NEW r \in Requests, Replace(r)  PROVE TypeOK'
  <2>1. wk[r] # NoWorker
    BY <1>11 DEF Replace, ControlInv
  <2>2. /\ wk' \in [Requests -> SockIDs' \cup {NoWorker}]
        /\ pc' \in [Requests -> PCs]
    BY <1>11 DEF Replace, PCs, SockIDs
  <2>3. SockIDs \subseteq SockIDs' /\ nextSockID' \in Nat /\ wk[r] \in SockIDs
    BY <1>11, <2>1 DEF Replace, SockIDs
  <2>4. /\ booting' \subseteq SockIDs'
        /\ alive' \subseteq SockIDs'
        /\ serving' \subseteq alive'
        /\ stopped' \subseteq SockIDs'
    BY <1>11, <2>3 DEF Replace, ShutdownAll
  <2> QED BY <1>0, <1>11, <2>2, <2>3, <2>4 DEF Replace, SockIDs
<1>12. ASSUME NEW r \in Requests, SpawnReady(r)  PROVE TypeOK'
  <2>1. wk[r] # NoWorker
    BY <1>12 DEF SpawnReady, ControlInv
  <2> QED BY <1>12, <2>1 DEF SpawnReady, ProcessUp, PCs, SockIDs
<1>13. ASSUME NEW r \in Requests, SpawnError(r)  PROVE TypeOK'
  <2>1. wk[r] \in SockIDs
    BY <1>13 DEF SpawnError, ControlInv
  <2>2. /\ wk' \in [Requests -> SockIDs' \cup {NoWorker}]
        /\ pc' \in [Requests -> PCs]
    BY <1>13 DEF SpawnError, PCs, SockIDs
  <2>3. stopped' \subseteq SockIDs'
    BY <1>13, <2>1 DEF SpawnError, ProcessFailed, SockIDs
  <2>4. spawnFails' \in 0..MaxSpawnFailures
    BY <1>13 DEF SpawnError, ProcessFailed
  <2>5. /\ SockIDs' = SockIDs
        /\ UNCHANGED <<phase, nextSockID, bootVars, workers, alive, serving, faults>>
    BY <1>13 DEF SpawnError, ProcessFailed, SockIDs
  <2> QED BY <2>2, <2>3, <2>4, <2>5
<1>14. ASSUME NEW r \in Requests, ReleaseClosed(r)  PROVE TypeOK'
  <2>1. wk[r] # NoWorker
    BY <1>14 DEF ReleaseClosed, ControlInv
  <2> QED BY <1>14, <2>1 DEF ReleaseClosed, ShutdownAll, Forget, PCs, SockIDs
<1>15. ASSUME NEW r \in Requests, ReleaseCheck(r)  PROVE TypeOK'
  BY <1>15 DEF ReleaseCheck, PCs, SockIDs
<1>16. ASSUME NEW r \in Requests, ReleaseSend(r)  PROVE TypeOK'
  <2>1. wk[r] \in SockIDs
    BY <1>16 DEF ReleaseSend, ControlInv
  <2>2. Append(workers, wk[r]) \in Seq(SockIDs)
    BY <2>1, AppendFacts
  <2> QED BY <1>16, <2>1, <2>2 DEF ReleaseSend, ShutdownAll, Forget, PCs, SockIDs
<1>17. ASSUME NEW r \in Requests, ReleasePanics(r)  PROVE TypeOK'
  BY <1>17 DEF ReleasePanics, PCs, SockIDs
<1>18. ASSUME NEW r \in Requests, Desync(r)  PROVE TypeOK'
  <2>1. serving' \subseteq alive'
    BY <1>18 DEF Desync
  <2>2. faults' \in 0..MaxFaults
    BY <1>18 DEF Desync
  <2> QED BY <1>18, <2>1, <2>2 DEF Desync, SockIDs
<1>19. ASSUME NEW w \in alive, Crash(w)  PROVE TypeOK'
  BY <1>19 DEF Crash, SockIDs
<1>20. CASE CloseFlag
  BY <1>20 DEF CloseFlag, Phases, SockIDs
<1>21. CASE CloseChan
  BY <1>21 DEF CloseChan, Phases, SockIDs
<1>22. CASE CloseDrain
  <2>1. Head(workers) \in SockIDs /\ Tail(workers) \in Seq(SockIDs)
    BY <1>22, HeadTailProperties DEF CloseDrain
  <2> QED BY <1>22, <2>1 DEF CloseDrain, ShutdownAll, SockIDs
<1>23. CASE CloseReturns
  BY <1>23 DEF CloseReturns, Phases, SockIDs
<1>24. CASE UNCHANGED vars
  BY <1>24 DEF vars, SockIDs
<1> QED BY <1>1, <1>2, <1>3, <1>4, <1>5, <1>6, <1>7, <1>8, <1>9, <1>10,
     <1>11, <1>12, <1>13, <1>14, <1>15, <1>16, <1>17, <1>18, <1>19, <1>20,
     <1>21, <1>22, <1>23, <1>24
        DEF Next, Boot, Acquire, Release, Close

-----------------------------------------------------------------------------
(* Control *)

\* Before NewPool no request is under way.
LEMMA ControlInit == Init => ControlInv
BY DEF Init, ControlInv, NoWorker

\* Every step keeps phases and program counters in step with the data.
LEMMA ControlStep == TypeOK /\ ControlInv /\ [Next]_vars => ControlInv'
<1> SUFFICES ASSUME TypeOK, ControlInv, [Next]_vars  PROVE ControlInv'
  OBVIOUS
<1> USE DEF ControlInv, ChanClosed, NoWorker, bootVars, reqVars, procVars, envVars
<1>0. /\ phase \in Phases /\ nextSockID \in Nat
      /\ pc \in [Requests -> PCs] /\ wk \in [Requests -> SockIDs \cup {NoWorker}]
      /\ booting \subseteq SockIDs
      /\ workers \in Seq(SockIDs)
  BY DEF TypeOK
<1>00. 0 \notin SockIDs
  BY <1>0 DEF SockIDs
<1>1. CASE BootSpawn
  BY <1>0, <1>1 DEF BootSpawn
<1>2. ASSUME NEW w \in booting, BootReady(w)  PROVE ControlInv'
  BY <1>0, <1>2 DEF BootReady, ProcessUp
<1>3. ASSUME NEW w \in booting, BootError(w)  PROVE ControlInv'
  BY <1>0, <1>3 DEF BootError, ProcessFailed
<1>4. CASE NewPoolFails
  BY <1>0, <1>4 DEF NewPoolFails, AllReported
<1>5. CASE NewPoolReturns
  BY <1>0, <1>5 DEF NewPoolReturns, AllReported
<1>6. ASSUME NEW r \in Requests, Enter(r)  PROVE ControlInv'
  BY <1>0, <1>6 DEF Enter
<1>7. ASSUME NEW r \in Requests, Receive(r)  PROVE ControlInv'
  <2>1. Head(workers) \in SockIDs
    BY <1>0, <1>7, HeadTailProperties DEF Receive
  <2> QED BY <1>0, <1>00, <1>7, <2>1 DEF Receive
<1>8. ASSUME NEW r \in Requests, ReceiveNil(r)  PROVE ControlInv'
  BY <1>0, <1>8 DEF ReceiveNil, ChanClosed
<1>9. ASSUME NEW r \in Requests, CtxDone(r)  PROVE ControlInv'
  BY <1>0, <1>9 DEF CtxDone
<1>10. ASSUME NEW r \in Requests, Ping(r)  PROVE ControlInv'
  BY <1>0, <1>10 DEF Ping
<1>11. ASSUME NEW r \in Requests, Replace(r)  PROVE ControlInv'
  BY <1>0, <1>11 DEF Replace, ShutdownAll
<1>12. ASSUME NEW r \in Requests, SpawnReady(r)  PROVE ControlInv'
  BY <1>0, <1>12 DEF SpawnReady, ProcessUp
<1>13. ASSUME NEW r \in Requests, SpawnError(r)  PROVE ControlInv'
  BY <1>0, <1>13 DEF SpawnError, ProcessFailed
<1>14. ASSUME NEW r \in Requests, ReleaseClosed(r)  PROVE ControlInv'
  BY <1>0, <1>14 DEF ReleaseClosed, Forget, Closed
<1>15. ASSUME NEW r \in Requests, ReleaseCheck(r)  PROVE ControlInv'
  BY <1>0, <1>15 DEF ReleaseCheck
<1>16. ASSUME NEW r \in Requests, ReleaseSend(r)  PROVE ControlInv'
  BY <1>0, <1>16 DEF ReleaseSend, Forget
<1>17. ASSUME NEW r \in Requests, ReleasePanics(r)  PROVE ControlInv'
  BY <1>0, <1>17 DEF ReleasePanics, ChanClosed
<1>18. ASSUME NEW r \in Requests, Desync(r)  PROVE ControlInv'
  BY <1>0, <1>18 DEF Desync
<1>19. ASSUME NEW w \in alive, Crash(w)  PROVE ControlInv'
  BY <1>0, <1>19 DEF Crash
<1>20. CASE CloseFlag
  BY <1>0, <1>20 DEF CloseFlag
<1>21. CASE CloseChan
  BY <1>0, <1>21 DEF CloseChan
<1>22. CASE CloseDrain
  BY <1>0, <1>22 DEF CloseDrain
<1>23. CASE CloseReturns
  BY <1>0, <1>23 DEF CloseReturns
<1>24. CASE UNCHANGED vars
  BY <1>24 DEF vars
<1> QED BY <1>1, <1>2, <1>3, <1>4, <1>5, <1>6, <1>7, <1>8, <1>9, <1>10,
     <1>11, <1>12, <1>13, <1>14, <1>15, <1>16, <1>17, <1>18, <1>19, <1>20,
     <1>21, <1>22, <1>23, <1>24
        DEF Next, Boot, Acquire, Release, Close
-----------------------------------------------------------------------------
(* Places *)

\* Before NewPool there is no worker anywhere.
LEMMA PlaceInit == Init => PlaceInv
BY EmptyFacts DEF Init, PlaceInv, NoWorker, Booted, Queued

\* Every step moves a worker from one place to one other, or stops it.
LEMMA PlaceStep ==
  TypeOK /\ ControlInv /\ PlaceInv /\ [Next]_vars => PlaceInv'
<1> SUFFICES ASSUME TypeOK, ControlInv, PlaceInv, [Next]_vars  PROVE PlaceInv'
  OBVIOUS
<1> USE DEF PlaceInv, NoWorker, bootVars, reqVars, procVars, envVars, Queued,
        Booted
<1>0. /\ nextSockID \in Nat
      /\ pc \in [Requests -> PCs] /\ wk \in [Requests -> SockIDs \cup {NoWorker}]
      /\ started \in Seq(SockIDs) /\ workers \in Seq(SockIDs)
      /\ booting \subseteq SockIDs
      /\ alive \subseteq SockIDs /\ stopped \subseteq SockIDs
  BY DEF TypeOK
<1>s. /\ ToSet(started) \subseteq SockIDs /\ ToSet(workers) \subseteq SockIDs
      /\ nextSockID + 1 \notin SockIDs /\ nextSockID + 1 # NoWorker
      /\ 0 \notin SockIDs
  <2>1. ToSet(started) \subseteq SockIDs /\ ToSet(workers) \subseteq SockIDs
    BY <1>0, ElementOfSeq, LenProperties DEF ToSet
  <2> QED BY <1>0, <2>1 DEF SockIDs
<1>1. CASE BootSpawn
  BY <1>0, <1>s, <1>1 DEF BootSpawn
<1>2. ASSUME NEW w \in booting, BootReady(w)  PROVE PlaceInv'
  <2>1. /\ ToSet(started') = ToSet(started) \cup {w}
        /\ IsInjective(started')
    BY <1>0, <1>2, AppendFacts DEF BootReady
  <2>2. \A r \in Requests : pc[r] = "idle"
    BY <1>2 DEF ControlInv
  <2> QED BY <1>0, <1>2, <2>1, <2>2 DEF BootReady, ProcessUp
<1>3. ASSUME NEW w \in booting, BootError(w)  PROVE PlaceInv'
  <2>1. phase = "starting" /\ workers = << >> /\ \A r \in Requests : wk[r] = NoWorker
    BY <1>3 DEF ControlInv
  <2> QED BY <1>0, <1>3, <2>1, EmptyFacts DEF BootError, ProcessFailed
<1>4. CASE NewPoolFails
  <2>1. workers = << >> /\ \A r \in Requests : wk[r] = NoWorker
    BY <1>4 DEF ControlInv, NewPoolFails, AllReported
  <2> QED BY <1>0, <1>4, <2>1, EmptyFacts DEF NewPoolFails, ShutdownAll
<1>5. CASE NewPoolReturns
  <2>1. workers = << >> /\ \A r \in Requests : wk[r] = NoWorker
    BY <1>5 DEF ControlInv, NewPoolReturns, AllReported
  <2> QED BY <1>0, <1>5, <2>1, EmptyFacts DEF NewPoolReturns
<1>6. ASSUME NEW r \in Requests, Enter(r)  PROVE PlaceInv'
  BY <1>6 DEF Enter
<1>7. ASSUME NEW r \in Requests, Receive(r)  PROVE PlaceInv'
  <2>1. /\ Head(workers) \in ToSet(workers)
        /\ ToSet(workers') = ToSet(workers) \ {Head(workers)}
        /\ IsInjective(workers')
    BY <1>0, <1>7, TailFacts DEF Receive
  <2>2. wk[r] = NoWorker
    BY <1>7 DEF Receive, ControlInv
  <2>3. \A s \in Requests : wk'[s] = IF s = r THEN Head(workers) ELSE wk[s]
    BY <1>0, <1>7 DEF Receive
  <2> QED BY <1>0, <1>s, <1>7, <2>1, <2>2, <2>3 DEF Receive
<1>8. ASSUME NEW r \in Requests, ReceiveNil(r)  PROVE PlaceInv'
  BY <1>8 DEF ReceiveNil
<1>9. ASSUME NEW r \in Requests, CtxDone(r)  PROVE PlaceInv'
  BY <1>9 DEF CtxDone
<1>10. ASSUME NEW r \in Requests, Ping(r)  PROVE PlaceInv'
  BY <1>10 DEF Ping
<1>11. ASSUME NEW r \in Requests, Replace(r)  PROVE PlaceInv'
  <2>1. wk[r] # NoWorker /\ wk[r] \in SockIDs
    BY <1>0, <1>11 DEF Replace, ControlInv
  <2>2. \A s \in Requests : wk'[s] = IF s = r THEN nextSockID + 1 ELSE wk[s]
    BY <1>0, <1>11 DEF Replace
  <2>3. (booting \cup ToSet(started)) \cap {wk[r]} = {}
    BY <1>11, EmptyFacts DEF Replace, ControlInv
  <2> QED BY <1>0, <1>s, <1>11, <2>1, <2>2, <2>3 DEF Replace, ShutdownAll
<1>12. ASSUME NEW r \in Requests, SpawnReady(r)  PROVE PlaceInv'
  <2>1. wk[r] # NoWorker
    BY <1>12 DEF SpawnReady, ControlInv
  <2>2. \A s \in Requests : pc'[s] = IF s = r THEN "holding" ELSE pc[s]
    BY <1>0, <1>12 DEF SpawnReady
  <2>3. /\ alive' = alive \cup {wk[r]}
        /\ UNCHANGED <<booting, started, workers, wk, stopped>>
    BY <1>12 DEF SpawnReady, ProcessUp
  <2> QED BY <2>1, <2>2, <2>3
<1>13. ASSUME NEW r \in Requests, SpawnError(r)  PROVE PlaceInv'
  <2>1. wk[r] # NoWorker /\ booting = {} /\ started = << >>
    BY <1>13 DEF SpawnError, ControlInv
  <2>2. \A s \in Requests : wk'[s] = IF s = r THEN NoWorker ELSE wk[s]
    BY <1>0, <1>13 DEF SpawnError
  <2> QED BY <1>0, <1>13, <2>1, <2>2, EmptyFacts DEF SpawnError, ProcessFailed
<1>14. ASSUME NEW r \in Requests, ReleaseClosed(r)  PROVE PlaceInv'
  <2>1. wk[r] # NoWorker /\ booting = {} /\ started = << >>
    BY <1>14 DEF ReleaseClosed, ControlInv
  <2>2. \A s \in Requests : wk'[s] = IF s = r THEN NoWorker ELSE wk[s]
    BY <1>0, <1>14 DEF ReleaseClosed, Forget
  <2>3. \A s \in Requests \ {r} : pc'[s] = pc[s]
    BY <1>0, <1>14 DEF ReleaseClosed, Forget
  <2>4. /\ alive' = alive \ {wk[r]} /\ stopped' = stopped \cup {wk[r]}
        /\ UNCHANGED <<booting, started, workers>>
    BY <1>14 DEF ReleaseClosed, ShutdownAll
  <2> QED BY <2>1, <2>2, <2>3, <2>4, EmptyFacts
<1>15. ASSUME NEW r \in Requests, ReleaseCheck(r)  PROVE PlaceInv'
  BY <1>15 DEF ReleaseCheck
<1>16. ASSUME NEW r \in Requests, ReleaseSend(r)  PROVE PlaceInv'
  <2>1. wk[r] # NoWorker /\ booting = {} /\ started = << >>
    BY <1>16 DEF ReleaseSend, ControlInv
  <2>2. \A s \in Requests : wk'[s] = IF s = r THEN NoWorker ELSE wk[s]
    BY <1>0, <1>16 DEF ReleaseSend, Forget
  <2>3. \A s \in Requests \ {r} : pc'[s] = pc[s]
    BY <1>0, <1>16 DEF ReleaseSend, Forget
  <2>4. wk[r] \in SockIDs /\ wk[r] \notin ToSet(workers)
    BY <1>0, <2>1
  <2>5. CASE Len(workers) < Size
    <3>1. /\ workers' = Append(workers, wk[r])
          /\ UNCHANGED <<booting, started, alive, stopped>>
      BY <1>16, <2>5 DEF ReleaseSend
    <3>2. /\ ToSet(workers') = ToSet(workers) \cup {wk[r]}
          /\ IsInjective(workers')
      BY <1>0, <2>4, <3>1, AppendFacts
    <3> QED BY <2>1, <2>2, <2>3, <3>1, <3>2, EmptyFacts
  <2>6. CASE ~(Len(workers) < Size)
    <3>1. /\ alive' = alive \ {wk[r]} /\ stopped' = stopped \cup {wk[r]}
          /\ UNCHANGED <<booting, started, workers>>
      BY <1>16, <2>6 DEF ReleaseSend, ShutdownAll
    <3> QED BY <2>1, <2>2, <2>3, <3>1, EmptyFacts
  <2> QED BY <2>5, <2>6
<1>17. ASSUME NEW r \in Requests, ReleasePanics(r)  PROVE PlaceInv'
  BY <1>17 DEF ReleasePanics
<1>18. ASSUME NEW r \in Requests, Desync(r)  PROVE PlaceInv'
  BY <1>18 DEF Desync
<1>19. ASSUME NEW w \in alive, Crash(w)  PROVE PlaceInv'
  BY <1>19 DEF Crash
<1>20. CASE CloseFlag
  BY <1>20 DEF CloseFlag
<1>21. CASE CloseChan
  BY <1>21 DEF CloseChan
<1>22. CASE CloseDrain
  <2>1. /\ Head(workers) \in ToSet(workers)
        /\ ToSet(workers') = ToSet(workers) \ {Head(workers)}
        /\ IsInjective(workers')
    BY <1>0, <1>22, TailFacts DEF CloseDrain
  <2>2. booting = {} /\ started = << >>
    BY <1>22 DEF CloseDrain, ControlInv
  <2> QED BY <1>0, <1>22, <2>1, <2>2, EmptyFacts DEF CloseDrain, ShutdownAll
<1>23. CASE CloseReturns
  BY <1>23 DEF CloseReturns
<1>24. CASE UNCHANGED vars
  BY <1>24 DEF vars
<1> QED BY <1>1, <1>2, <1>3, <1>4, <1>5, <1>6, <1>7, <1>8, <1>9, <1>10,
     <1>11, <1>12, <1>13, <1>14, <1>15, <1>16, <1>17, <1>18, <1>19, <1>20,
     <1>21, <1>22, <1>23, <1>24
        DEF Next, Boot, Acquire, Release, Close

-----------------------------------------------------------------------------
(* Slots *)

\* The requests with a worker can be counted.
LEMMA OwnersFinite == IsFiniteSet(Owners) /\ Cardinality(Owners) \in Nat
<1>1. Owners \in SUBSET Requests
  BY DEF Owners
<1> QED BY <1>1, RequestsAssumption, FS_Subset, FS_CardinalityType

\* A request that is given a worker.
LEMMA OwnersGain ==
  ASSUME NEW r \in Requests, NEW w, w # NoWorker, wk[r] = NoWorker,
         wk \in [Requests -> SockIDs \cup {NoWorker}],
         wk' = [wk EXCEPT ![r] = w]
  PROVE  Cardinality(Owners') = Cardinality(Owners) + 1
<1>1. Owners' = Owners \cup {r} /\ r \notin Owners
  BY DEF Owners
<1> QED BY <1>1, OwnersFinite, FS_AddElement

\* A request that loses its worker.
LEMMA OwnersLoss ==
  ASSUME NEW r \in Requests, wk[r] # NoWorker,
         wk \in [Requests -> SockIDs \cup {NoWorker}],
         wk' = [wk EXCEPT ![r] = NoWorker]
  PROVE  /\ Cardinality(Owners') = Cardinality(Owners) - 1
         /\ Cardinality(Owners) \in Nat \ {0}
<1>1. Owners' = Owners \ {r} /\ r \in Owners
  BY DEF Owners
<1>2. Cardinality(Owners) # 0
  BY <1>1, OwnersFinite, FS_EmptySet
<1> QED BY <1>1, <1>2, OwnersFinite, FS_RemoveElement

\* Before NewPool no slot is filled.
LEMMA SlotInit == Init => SlotInv
<1> SUFFICES ASSUME Init  PROVE SlotInv
  OBVIOUS
<1>1. IsFiniteSet(booting) /\ Cardinality(booting) = 0
  BY FS_EmptySet DEF Init
<1>2. /\ phase = "starting" /\ nextSockID = 0 /\ Len(started) = 0 /\ spawnFails = 0
  BY DEF Init
<1> QED BY <1>1, <1>2 DEF SlotInv, SlotAccounting

\* Every step keeps the count of slots: what leaves the channel is with a
\* request, what leaves a request is in the channel or a failed spawn.
LEMMA SlotStep ==
  TypeOK /\ ControlInv /\ PlaceInv /\ SlotInv /\ [Next]_vars => SlotInv'
<1> SUFFICES ASSUME TypeOK, ControlInv, PlaceInv, SlotInv, [Next]_vars
             PROVE  SlotInv'
  OBVIOUS
<1> USE SizeAssumption DEF SlotInv, SlotAccounting, bootVars, reqVars, procVars,
        envVars
<1>0. /\ phase \in Phases /\ nextSockID \in Nat /\ spawnFails \in Nat
      /\ pc \in [Requests -> PCs] /\ wk \in [Requests -> SockIDs \cup {NoWorker}]
      /\ started \in Seq(SockIDs) /\ workers \in Seq(SockIDs)
      /\ Len(started) \in Nat /\ Len(workers) \in Nat
      /\ booting \subseteq SockIDs
  BY BoundsAssumption DEF TypeOK
<1>1. Cardinality(Owners) \in Nat /\ (wk' = wk => Owners' = Owners)
  BY OwnersFinite DEF Owners
<1>2. phase = "starting" => Cardinality(booting) \in Nat
  BY FS_CardinalityType
<1>3. CASE BootSpawn
  <2>1. nextSockID + 1 \notin booting
    BY <1>0 DEF SockIDs
  <2>2. /\ IsFiniteSet(booting')
        /\ Cardinality(booting') = Cardinality(booting) + 1
    BY <1>3, <2>1, FS_AddElement DEF BootSpawn
  <2> QED BY <1>0, <1>2, <1>3, <2>2 DEF BootSpawn
<1>4. ASSUME NEW w \in booting  PROVE /\ phase = "starting"
                                     /\ IsFiniteSet(booting \ {w})
                                     /\ Cardinality(booting \ {w})
                                           = Cardinality(booting) - 1
                                     /\ Cardinality(booting) \in Nat \ {0}
  <2>1. phase = "starting"
    BY <1>4 DEF ControlInv
  <2>2. Cardinality(booting) # 0
    BY <2>1, FS_EmptySet, <1>4
  <2> QED BY <1>2, <1>4, <2>1, <2>2, FS_RemoveElement
<1>5. ASSUME NEW w \in booting, BootReady(w)  PROVE SlotInv'
  <2>1. Len(started') = Len(started) + 1
    BY <1>0, <1>5, AppendFacts DEF BootReady
  <2>2. /\ IsFiniteSet(booting') /\ phase = "starting"
        /\ Cardinality(booting') = Cardinality(booting) - 1
        /\ Cardinality(booting) \in Nat
    BY <1>4, <1>5 DEF BootReady
  <2>3. UNCHANGED <<phase, nextSockID, bootFailed, workers, wk, spawnFails>>
    BY <1>5 DEF BootReady, ProcessUp
  <2> QED BY <1>0, <2>1, <2>2, <2>3
<1>6. ASSUME NEW w \in booting, BootError(w)  PROVE SlotInv'
  <2>1. bootFailed'
    BY <1>6 DEF BootError
  <2>2. /\ IsFiniteSet(booting') /\ phase = "starting"
        /\ Cardinality(booting') = Cardinality(booting) - 1
        /\ Cardinality(booting) \in Nat
    BY <1>4, <1>6 DEF BootError
  <2>3. /\ spawnFails' = spawnFails + 1
        /\ UNCHANGED <<phase, nextSockID, started, workers, wk>>
    BY <1>6 DEF BootError, ProcessFailed
  <2>s. Len(started) + Cardinality(booting) + spawnFails = nextSockID
    BY <2>2, Zenon
  <2>c. Cardinality(booting') = Cardinality(booting) - 1 /\ Cardinality(booting) \in Nat
    BY <2>2
  <2>d. /\ spawnFails' = spawnFails + 1 /\ started' = started
        /\ nextSockID' = nextSockID
    BY <2>3
  <2>4. Len(started') + Cardinality(booting') + spawnFails' = nextSockID'
    <3>1. Len(started) \in Nat /\ spawnFails \in Nat /\ nextSockID \in Nat
      BY <1>0
    <3>2. Len(started') = Len(started)
      BY <2>d
    <3> QED BY <2>s, <2>c, <2>d, <3>1, <3>2
  <2>5. phase' # "open" /\ phase' # "flagged"
    BY <2>2, <2>3
  <2> QED BY <2>1, <2>2, <2>4, <2>5, Zenon
<1>7. CASE NewPoolFails
  BY <1>7 DEF NewPoolFails
<1>8. CASE NewPoolReturns
  <2>1. Owners' = {}
    BY <1>8 DEF NewPoolReturns, AllReported, ControlInv, Owners
  <2>2. Cardinality(Owners') = 0 /\ Cardinality(booting) = 0
    BY <1>8, <2>1, FS_EmptySet DEF NewPoolReturns, AllReported
  <2> QED BY <1>0, <1>8, <2>2 DEF NewPoolReturns, AllReported
<1>9. ASSUME NEW r \in Requests, Enter(r)  PROVE SlotInv'
  BY <1>1, <1>9 DEF Enter
<1>10. ASSUME NEW r \in Requests, Receive(r)  PROVE SlotInv'
  <2>1. Head(workers) \in SockIDs /\ Len(workers') = Len(workers) - 1
    BY <1>0, <1>10, HeadTailProperties DEF Receive
  <2>2. Head(workers) # NoWorker /\ wk[r] = NoWorker /\ phase \notin {"starting", "failed"}
    BY <1>0, <1>10, <2>1 DEF Receive, ControlInv, SockIDs, NoWorker
  <2>3. Cardinality(Owners') = Cardinality(Owners) + 1
    BY <1>0, <1>10, <2>2, OwnersGain DEF Receive
  <2> QED BY <1>0, <1>1, <1>10, <2>1, <2>2, <2>3 DEF Receive
<1>11. ASSUME NEW r \in Requests, ReceiveNil(r)  PROVE SlotInv'
  BY <1>1, <1>11 DEF ReceiveNil
<1>12. ASSUME NEW r \in Requests, CtxDone(r)  PROVE SlotInv'
  BY <1>1, <1>12 DEF CtxDone
<1>13. ASSUME NEW r \in Requests, Ping(r)  PROVE SlotInv'
  BY <1>1, <1>13 DEF Ping
<1>14. ASSUME NEW r \in Requests, Replace(r)  PROVE SlotInv'
  <2>1. wk[r] # NoWorker /\ phase # "starting"
    BY <1>14 DEF Replace, ControlInv
  <2>2. Owners' = Owners
    BY <1>0, <1>14, <2>1 DEF Replace, Owners, NoWorker
  <2> QED BY <1>0, <1>14, <2>1, <2>2 DEF Replace
<1>15. ASSUME NEW r \in Requests, SpawnReady(r)  PROVE SlotInv'
  BY <1>1, <1>15 DEF SpawnReady, ProcessUp
<1>16. ASSUME NEW r \in Requests, SpawnError(r)  PROVE SlotInv'
  <2>1. wk[r] # NoWorker /\ phase # "starting"
    BY <1>16 DEF SpawnError, ControlInv
  <2>2. /\ Cardinality(Owners') = Cardinality(Owners) - 1
        /\ Cardinality(Owners) \in Nat \ {0}
    BY <1>0, <1>16, <2>1, OwnersLoss DEF SpawnError
  <2> QED BY <1>0, <1>16, <2>1, <2>2 DEF SpawnError, ProcessFailed
<1>17. ASSUME NEW r \in Requests, ReleaseClosed(r)  PROVE SlotInv'
  <2>1. wk[r] # NoWorker /\ phase \notin {"starting", "open"}
    BY <1>17 DEF ReleaseClosed, ControlInv, Closed
  <2>2. /\ Cardinality(Owners') = Cardinality(Owners) - 1
        /\ Cardinality(Owners) \in Nat \ {0}
    BY <1>0, <1>17, <2>1, OwnersLoss DEF ReleaseClosed, Forget
  <2> QED BY <1>0, <1>17, <2>1, <2>2 DEF ReleaseClosed
<1>18. ASSUME NEW r \in Requests, ReleaseCheck(r)  PROVE SlotInv'
  BY <1>1, <1>18 DEF ReleaseCheck
<1>19. ASSUME NEW r \in Requests, ReleaseSend(r)  PROVE SlotInv'
  <2>1. wk[r] # NoWorker /\ phase \in {"open", "flagged"}
    BY <1>0, <1>19 DEF ReleaseSend, ControlInv, ChanClosed, Phases
  <2>2. /\ Cardinality(Owners') = Cardinality(Owners) - 1
        /\ Cardinality(Owners) \in Nat \ {0}
    BY <1>0, <1>19, <2>1, OwnersLoss DEF ReleaseSend, Forget
  <2>3. Len(workers) < Size
    BY <1>0, <2>1, <2>2
  <2>4. wk[r] \in SockIDs
    BY <1>0, <2>1
  <2>5. Len(workers') = Len(workers) + 1
    BY <1>0, <1>19, <2>3, <2>4, AppendFacts DEF ReleaseSend
  <2> QED BY <1>0, <1>19, <2>1, <2>2, <2>5 DEF ReleaseSend
<1>20. ASSUME NEW r \in Requests, ReleasePanics(r)  PROVE SlotInv'
  BY <1>1, <1>20 DEF ReleasePanics
<1>21. ASSUME NEW r \in Requests, Desync(r)  PROVE SlotInv'
  BY <1>1, <1>21 DEF Desync
<1>22. ASSUME NEW w \in alive, Crash(w)  PROVE SlotInv'
  BY <1>1, <1>22 DEF Crash
<1>23. CASE CloseFlag
  BY <1>0, <1>1, <1>23 DEF CloseFlag
<1>24. CASE CloseChan
  BY <1>24 DEF CloseChan
<1>25. CASE CloseDrain
  BY <1>25 DEF CloseDrain
<1>26. CASE CloseReturns
  BY <1>26 DEF CloseReturns
<1>27. CASE UNCHANGED vars
  BY <1>1, <1>27 DEF vars
<1> QED BY <1>3, <1>5, <1>6, <1>7, <1>8, <1>9, <1>10, <1>11, <1>12, <1>13,
     <1>14, <1>15, <1>16, <1>17, <1>18, <1>19, <1>20, <1>21, <1>22, <1>23,
     <1>24, <1>25, <1>26, <1>27
        DEF Next, Boot, Acquire, Release, Close

-----------------------------------------------------------------------------
(* What holds of every pool, whatever its size and however many requests     *)
(* there are.                                                                *)

\* The inductive invariant holds at first.
LEMMA InitStep == Init => IInv
BY TypeInit, ControlInit, PlaceInit, SlotInit DEF IInv

\* A step of the pool keeps it.
LEMMA NextStep == IInv /\ [Next]_vars => IInv'
BY TypeStep, ControlStep, PlaceStep, SlotStep DEF IInv

\* So does a worker process that ends by itself, fault or not.
LEMMA LeaveStep ==
  /\ IInv
  /\ \E w \in alive : alive' = alive \ {w} /\ serving' = serving \ {w}
  /\ UNCHANGED <<phase, nextSockID, bootVars, workers, reqVars, stopped, envVars>>
  => IInv'
<1> SUFFICES ASSUME IInv, NEW w \in alive,
                    alive' = alive \ {w}, serving' = serving \ {w},
                    UNCHANGED <<phase, nextSockID, booting, started, bootFailed,
                                workers, pc, wk, stopped, faults, spawnFails>>
             PROVE  IInv'
  BY DEF bootVars, reqVars, envVars
<1>1. UNCHANGED <<SockIDs, Booted, Queued, Owners>>
  BY DEF SockIDs, Booted, Queued, Owners
<1>2. TypeOK'
  BY <1>1 DEF IInv, TypeOK
<1>3. ControlInv'
  BY DEF IInv, ControlInv, ChanClosed
<1>4. PlaceInv'
  BY <1>1 DEF IInv, PlaceInv
<1>5. SlotInv'
  BY <1>1 DEF IInv, SlotInv, SlotAccounting
<1> QED BY <1>2, <1>3, <1>4, <1>5 DEF IInv

\* No request shares a worker.
LEMMA ExclusiveFacts == IInv => ExclusiveOwnership
BY DEF IInv, PlaceInv, ExclusiveOwnership, Owners, Owned

\* While a request is about to send, the channel has room for its worker.
LEMMA RoomFacts == IInv => DefaultUnreachable
<1>1. ASSUME IInv, NEW r \in Requests, pc[r] = "releasing", ~ChanClosed
      PROVE  Len(workers) < Size
  <2>1. /\ phase \in {"open", "flagged"}
        /\ r \in Owners
        /\ Len(workers) \in Nat /\ spawnFails \in Nat
    BY <1>1, BoundsAssumption
       DEF IInv, TypeOK, ControlInv, ChanClosed, Phases, Owners
  <2>2. Cardinality(Owners) \in Nat \ {0}
    BY <2>1, OwnersFinite, FS_EmptySet
  <2> QED BY <1>1, <2>1, <2>2, SizeAssumption DEF IInv, SlotInv, SlotAccounting
<1> QED BY <1>1 DEF DefaultUnreachable

\* Workers in use and workers to be had were not shut down.
LEMMA UsableFacts == IInv => UsableNotShutDown
BY DEF IInv, PlaceInv, UsableNotShutDown, Owners

\* A process that runs is with somebody who runs, or with a request that has
\* panicked, which happens on a closed channel only.
LEMMA ReachFacts == IInv => NoOrphans
<1> SUFFICES ASSUME IInv, NEW w \in alive, w \notin Booted \cup Queued
             PROVE  \/ \E r \in Requests : wk[r] = w /\ pc[r] # "panicked"
                    \/ /\ ChanClosed
                       /\ \E r \in Requests : wk[r] = w /\ pc[r] = "panicked"
  BY DEF NoOrphans
<1>1. PICK r \in Requests : wk[r] = w
  BY DEF IInv, PlaceInv
<1>2. pc[r] = "panicked" => ChanClosed
  BY DEF IInv, ControlInv
<1> QED BY <1>1, <1>2

\* A request comes to hold a worker by a Ping that is answered or by a Start
\* that succeeds.
LEMMA HandOver ==
  ASSUME TypeOK, [Next]_vars, NEW r \in Requests,
         pc'[r] = "holding", wk'[r] \notin serving'
  PROVE  pc[r] = "holding" /\ wk'[r] = wk[r]
<1> USE DEF bootVars, reqVars, procVars, envVars
<1>0. pc \in [Requests -> PCs] /\ wk \in [Requests -> SockIDs \cup {NoWorker}]
  BY DEF TypeOK
<1>1. CASE pc'[r] = pc[r] /\ wk'[r] = wk[r]
  BY <1>1
<1>2. CASE Boot \/ Close \/ UNCHANGED vars
  <2>1. UNCHANGED <<pc, wk>>
    BY <1>2 DEF Boot, BootSpawn, BootReady, BootError, NewPoolFails, NewPoolReturns,
                Close, CloseFlag, CloseChan, CloseDrain, CloseReturns, vars
  <2> QED BY <1>1, <2>1
<1>3. CASE (\E q \in Requests : Desync(q)) \/ (\E w \in alive : Crash(w))
  BY <1>1, <1>3 DEF Desync, Crash
<1>4. ASSUME NEW q \in Requests, Ping(q)
      PROVE  pc[r] = "holding" /\ wk'[r] = wk[r]
  BY <1>0, <1>1, <1>4 DEF Ping
<1>5. ASSUME NEW q \in Requests, SpawnReady(q)
      PROVE  pc[r] = "holding" /\ wk'[r] = wk[r]
  BY <1>0, <1>1, <1>5 DEF SpawnReady, ProcessUp
<1>6. ASSUME NEW q \in Requests,
             \/ Enter(q) \/ Receive(q) \/ ReceiveNil(q) \/ CtxDone(q)
             \/ Replace(q) \/ SpawnError(q)
      PROVE  pc[r] = "holding" /\ wk'[r] = wk[r]
  <2>1. CASE q = r
    BY <1>0, <1>6, <2>1 DEF Enter, Receive, ReceiveNil, CtxDone, Replace, SpawnError
  <2>2. CASE q # r
    BY <1>0, <1>1, <1>6, <2>2
       DEF Enter, Receive, ReceiveNil, CtxDone, Replace, SpawnError
  <2> QED BY <2>1, <2>2
<1>7. ASSUME NEW q \in Requests, Release(q)
      PROVE  pc[r] = "holding" /\ wk'[r] = wk[r]
  <2>1. CASE q = r
    BY <1>0, <1>7, <2>1
       DEF Release, ReleaseClosed, ReleaseCheck, ReleaseSend, ReleasePanics, Forget
  <2>2. CASE q # r
    BY <1>0, <1>1, <1>7, <2>2
       DEF Release, ReleaseClosed, ReleaseCheck, ReleaseSend, ReleasePanics, Forget
  <2> QED BY <2>1, <2>2
<1> QED BY <1>2, <1>3, <1>4, <1>5, <1>6, <1>7 DEF Next, Acquire

\* The inductive invariant holds in every reachable state.
THEOREM Invariance == Spec => []IInv
BY InitStep, NextStep, PTL DEF Spec

\* The channel and the requests hold started workers, never nil.
THEOREM TypeCorrect == Spec => []TypeOK
<1>1. IInv => TypeOK
  BY DEF IInv
<1> QED BY <1>1, Invariance, PTL

\* Each /run has its worker for itself.
THEOREM Exclusive == Spec => []ExclusiveOwnership
BY ExclusiveFacts, Invariance, PTL

\* No path of Acquire and release but a failed replacement loses a slot.
THEOREM SlotsAccounted == Spec => []SlotAccounting
<1>1. IInv => SlotAccounting
  BY DEF IInv, SlotInv
<1> QED BY <1>1, Invariance, PTL

\* release never takes its default branch.
THEOREM DefaultNeverTaken == Spec => []DefaultUnreachable
BY RoomFacts, Invariance, PTL

\* Nobody uses, or can be handed, a worker that was shut down.
THEOREM NoUseAfterShutdown == Spec => []UsableNotShutDown
BY UsableFacts, Invariance, PTL

\* Every process that runs is within reach of code that stops it: NewPool, the
\* channel or a request that goes on.  Only a request that panicked on the closed
\* channel leaves one behind.
THEOREM NeverOrphaned == Spec => []NoOrphans
BY ReachFacts, Invariance, PTL

\* A worker that died or lost step with one request, or in the channel, is never
\* handed to another.
THEOREM FaultsContained == Spec => FaultsStayInRun
<1>1. TypeOK /\ [Next]_vars =>
        [\A r \in Requests :
            pc'[r] = "holding" /\ wk'[r] \notin serving' =>
                pc[r] = "holding" /\ wk'[r] = wk[r]]_vars
  BY HandOver
<1> QED BY <1>1, TypeCorrect, PTL DEF Spec, FaultsStayInRun

-----------------------------------------------------------------------------
(* The pool implements the lease of WorkerLease.                             *)

\* The pool begins as a lease of nothing.
LEMMA LeaseInit == Init => Lease!Init
BY EmptyFacts DEF Init, Lease!Init, Lease!None, NoWorker, Queued

\* Every step of the pool is a step of the lease or leaves it alone.
LEMMA LeaseStep == IInv /\ [Next]_vars => [Lease!Next]_(Lease!leaseVars)
<1> SUFFICES ASSUME IInv, [Next]_vars
             PROVE  Lease!Next \/ UNCHANGED Lease!leaseVars
  OBVIOUS
<1> USE DEF NoWorker, Lease!None, bootVars, reqVars, procVars, envVars
<1>0. /\ nextSockID \in Nat /\ SockIDs = 1..nextSockID
      /\ wk \in [Requests -> SockIDs \cup {NoWorker}]
      /\ started \in Seq(SockIDs) /\ workers \in Seq(SockIDs)
      /\ booting \subseteq SockIDs
      /\ Booted \subseteq SockIDs
      /\ IsInjective(workers)
  <2>1. /\ nextSockID \in Nat /\ started \in Seq(SockIDs) /\ workers \in Seq(SockIDs)
        /\ wk \in [Requests -> SockIDs \cup {NoWorker}] /\ booting \subseteq SockIDs
        /\ IsInjective(workers)
    BY DEF IInv, TypeOK, PlaceInv
  <2> QED BY <2>1, ElementOfSeq, LenProperties DEF Booted, ToSet, SockIDs
<1>a. workers' = workers => Queued' = Queued
  BY DEF Queued
<1>b. UNCHANGED <<nextSockID, workers, wk, stopped>> => UNCHANGED Lease!leaseVars
  BY <1>a DEF Lease!leaseVars
<1>u. ASSUME phase = "starting"
      PROVE  /\ Lease!Unused = SockIDs \ stopped
             /\ Queued = {} /\ workers = << >>
  <2>1. workers = << >> /\ \A r \in Requests : wk[r] = NoWorker
    BY <1>u DEF IInv, ControlInv
  <2> QED BY <1>0, <2>1, EmptyFacts DEF Lease!Unused, Lease!Leased, Queued
<1>1. CASE BootSpawn
  BY <1>a, <1>1 DEF BootSpawn, Lease!Next, Lease!Issue
<1>2. ASSUME NEW w \in booting, BootReady(w)  PROVE UNCHANGED Lease!leaseVars
  BY <1>b, <1>2 DEF BootReady, ProcessUp
<1>3. ASSUME NEW w \in booting, BootError(w)  PROVE Lease!Next
  <2>1. w \in Lease!Unused /\ Queued = {}
    BY <1>0, <1>3, <1>u DEF IInv, ControlInv, PlaceInv
  <2>2. /\ Queued' = Queued \ {w} /\ stopped' = stopped \cup {w}
        /\ UNCHANGED <<nextSockID, wk>>
    BY <1>3, <1>a, <2>1 DEF BootError, ProcessFailed
  <2> QED BY <2>1, <2>2 DEF Lease!Next, Lease!Retire
<1>4. CASE NewPoolFails
  <2>1. Booted \in SUBSET Lease!Unused /\ Queued = {}
    BY <1>0, <1>4, <1>u DEF IInv, PlaceInv, NewPoolFails, AllReported
  <2>2. /\ Queued' = Queued \ Booted /\ stopped' = stopped \cup Booted
        /\ UNCHANGED <<nextSockID, wk>>
    BY <1>4, <1>a, <2>1 DEF NewPoolFails, ShutdownAll
  <2> QED BY <2>1, <2>2 DEF Lease!Next, Lease!Retire
<1>5. CASE NewPoolReturns
  <2>1. Booted \in SUBSET Lease!Unused /\ Queued = {}
    BY <1>0, <1>5, <1>u DEF IInv, PlaceInv, NewPoolReturns, AllReported
  <2>2. Queued' = Queued \cup Booted /\ UNCHANGED <<nextSockID, wk, stopped>>
    BY <1>5, <2>1 DEF NewPoolReturns, Queued, Booted
  <2> QED BY <2>1, <2>2 DEF Lease!Next, Lease!Stock
<1>6. ASSUME NEW r \in Requests,
             \/ Enter(r) \/ ReceiveNil(r) \/ CtxDone(r) \/ Ping(r)
             \/ SpawnReady(r) \/ ReleaseCheck(r) \/ ReleasePanics(r) \/ Desync(r)
      PROVE  UNCHANGED Lease!leaseVars
  BY <1>b, <1>6 DEF Enter, ReceiveNil, CtxDone, Ping, SpawnReady, ProcessUp,
     ReleaseCheck, ReleasePanics, Desync
<1>7. ASSUME NEW r \in Requests, Receive(r)  PROVE Lease!Take(r)
  <2>1. Head(workers) \in Queued /\ Queued' = Queued \ {Head(workers)}
    BY <1>0, <1>7, TailFacts DEF Receive, Queued
  <2>2. wk[r] = NoWorker
    BY <1>7 DEF Receive, IInv, ControlInv
  <2> QED BY <1>7, <2>1, <2>2 DEF Receive, Lease!Take
<1>8. ASSUME NEW r \in Requests, Replace(r)  PROVE Lease!Swap(r)
  <2>1. wk[r] # NoWorker
    BY <1>8 DEF Replace, IInv, ControlInv
  <2> QED BY <1>8, <1>a, <2>1 DEF Replace, ShutdownAll, Lease!Swap
<1>9. ASSUME NEW r \in Requests, SpawnError(r)  PROVE Lease!Discard(r)
  <2>1. wk[r] # NoWorker
    BY <1>9 DEF SpawnError, IInv, ControlInv
  <2> QED BY <1>9, <1>a, <2>1 DEF SpawnError, ProcessFailed, Lease!Discard
<1>10. ASSUME NEW r \in Requests, ReleaseClosed(r)  PROVE Lease!Discard(r)
  <2>1. wk[r] # NoWorker
    BY <1>10 DEF ReleaseClosed, IInv, ControlInv
  <2> QED BY <1>10, <1>a, <2>1 DEF ReleaseClosed, ShutdownAll, Forget, Lease!Discard
<1>11. ASSUME NEW r \in Requests, ReleaseSend(r)
       PROVE  Lease!Return(r) \/ Lease!Discard(r)
  <2>1. wk[r] # NoWorker /\ wk[r] \in SockIDs
    BY <1>0, <1>11 DEF ReleaseSend, IInv, ControlInv
  <2>2. CASE Len(workers) < Size
    <3>1. workers' = Append(workers, wk[r])
      BY <1>11, <2>2 DEF ReleaseSend
    <3>2. ToSet(workers') = ToSet(workers) \cup {wk[r]}
      BY <1>0, <2>1, <3>1, AppendFacts
    <3>3. Queued' = Queued \cup {wk[r]}
      BY <3>2 DEF Queued
    <3> QED BY <1>11, <2>1, <2>2, <3>3 DEF ReleaseSend, Forget, Lease!Return
  <2>3. CASE ~(Len(workers) < Size)
    BY <1>11, <1>a, <2>1, <2>3 DEF ReleaseSend, Forget, ShutdownAll, Lease!Discard
  <2> QED BY <2>2, <2>3
<1>12. ASSUME NEW w \in alive, Crash(w)  PROVE UNCHANGED Lease!leaseVars
  BY <1>b, <1>12 DEF Crash
<1>13. CASE CloseFlag \/ CloseChan \/ CloseReturns
  BY <1>b, <1>13 DEF CloseFlag, CloseChan, CloseReturns
<1>14. CASE CloseDrain
  <2>1. Head(workers) \in Queued /\ Queued' = Queued \ {Head(workers)}
    BY <1>0, <1>14, TailFacts DEF CloseDrain, Queued
  <2>2. {Head(workers)} \in SUBSET (Queued \cup Lease!Unused)
    BY <2>1
  <2> QED BY <1>14, <2>1, <2>2 DEF CloseDrain, ShutdownAll, Lease!Next, Lease!Retire
<1>15. CASE UNCHANGED vars
  BY <1>b, <1>15 DEF vars
<1>16. ASSUME NEW r \in Requests,
              Lease!Take(r) \/ Lease!Swap(r) \/ Lease!Return(r) \/ Lease!Discard(r)
       PROVE  Lease!Next
  BY <1>16 DEF Lease!Next
<1> QED BY <1>1, <1>2, <1>3, <1>4, <1>5, <1>6, <1>7, <1>8, <1>9, <1>10,
     <1>11, <1>12, <1>13, <1>14, <1>15, <1>16
        DEF Next, Boot, Acquire, Release, Close

\* The pool refines the abstract lease: workers move between free, leased and
\* retired only as WorkerLease allows, and retired workers stay retired.
THEOREM Refinement == Spec => LeaseSpec
<1>1. IInv /\ [Next]_vars => [Lease!Next]_(Lease!leaseVars)
  BY LeaseStep
<1> QED BY LeaseInit, <1>1, Invariance, PTL DEF Spec, LeaseSpec, Lease!Spec

=============================================================================
