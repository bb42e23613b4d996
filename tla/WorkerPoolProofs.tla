-------------------------- MODULE WorkerPoolProofs --------------------------
(***************************************************************************)
(* Proofs about WorkerPool, for every number of workers, every rate and    *)
(* every limit.  They rest on one inductive invariant, IInv.               *)
(***************************************************************************)
EXTENDS WorkerPool, FiniteSetTheorems, TLAPS

-----------------------------------------------------------------------------
(* The inductive invariant *)

\* The wait group counts the goroutines; activeWorkers counts those that have
\* not left yet, and runs one ahead between the two halves of addWorkers.
CountInv ==
    /\ wgCount = Cardinality(Alive)
    /\ activeWorkers = Cardinality(Counted)
                         + (IF scaler = "register" THEN 1 ELSE 0)

\* How far Run has come says what is closed, done and over.
PhaseInv ==
    /\ run = "start" => /\ scaler = "idle" /\ collector = "idle"
                        /\ Alive = {}
    /\ run \notin {"start", "running"} => ctxDone /\ controlClosed
    /\ controlClosed => ctxDone
    /\ resultsClosed <=> run \in {"draining", "returned"}
    /\ run \in {"woken", "waited", "draining", "returned"} => Busy = {}
    /\ collector = "done" => resultsClosed /\ buffered = 0
    /\ run = "returned" => scaler = "stopped" /\ collector = "done"

\* While addWorkers runs, the workers still to come are within the bound too.
BoundInv ==
    /\ activeWorkers <= MaxActive
    /\ scaler \in {"add", "register"} => activeWorkers + left <= MaxActive
    /\ observed <= MaxActive
    /\ peakWorkers <= MaxActive

\* requestCounter is ahead of the statistics by what is in flight.
AccountInv ==
    LET accounted == totalRequests + buffered + Cardinality(Sending)
    IN  /\ ~ctxDone => requestCounter = accounted
        /\ accounted <= requestCounter
        /\ requestCounter <= totalRequests + buffered + MaxActive

IInv == /\ TypeOK /\ CountInv /\ PhaseInv /\ BoundInv /\ AccountInv
        /\ PanicOnlyInShutdown
-----------------------------------------------------------------------------
(* Counting workers *)

\* A set of workers at given points is finite, and its size is a number.
LEMMA AtFinite ==
    ASSUME NEW Q
    PROVE  /\ IsFiniteSet(At(Q)) /\ Cardinality(At(Q)) \in Nat
           /\ Cardinality(At(Q)) = 0 <=> At(Q) = {}
<1>1. IsFiniteSet(At(Q))
  <2>1. At(Q) \subseteq Workers  BY DEF At
  <2>2. QED  BY <2>1, FS_Subset, PoolAssumption
<1>2. QED  BY <1>1, FS_CardinalityType, FS_EmptySet

\* A worker that goes from one point to another changes the sizes by one.
LEMMA MoveAt ==
    ASSUME NEW w \in Workers, NEW a \in PC, NEW b \in PC, NEW Q,
           pc \in [Workers -> PC], Go(w, a, b)
    PROVE  /\ (a \in Q <=> b \in Q) => At(Q)' = At(Q)
           /\ a \in Q /\ b \notin Q =>
                Cardinality(At(Q)') = Cardinality(At(Q)) - 1
           /\ a \notin Q /\ b \in Q =>
                Cardinality(At(Q)') = Cardinality(At(Q)) + 1
<1>1. (a \in Q <=> b \in Q) => At(Q)' = At(Q)
  BY DEF Go, At
<1>2. CASE a \in Q /\ b \notin Q
  <2>1. At(Q)' = At(Q) \ {w} /\ w \in At(Q)  BY <1>2 DEF Go, At
  <2>2. QED  BY <1>2, <2>1, AtFinite, FS_RemoveElement
<1>3. CASE a \notin Q /\ b \in Q
  <2>1. At(Q)' = At(Q) \cup {w} /\ w \notin At(Q)  BY <1>3 DEF Go, At
  <2>2. QED  BY <1>3, <2>1, AtFinite, FS_AddElement
<1>4. QED  BY <1>1, <1>2, <1>3

\* Where pc does not change, no set of workers does.
LEMMA SameAt ==
    ASSUME UNCHANGED pc
    PROVE  /\ Alive' = Alive /\ Counted' = Counted /\ Busy' = Busy
           /\ Sending' = Sending /\ Free' = Free
BY DEF Alive, Counted, Busy, Sending, Free, At

\* The same facts for the four sets the invariant names, at one step of w.
LEMMA MoveWorker ==
    ASSUME NEW w \in Workers, NEW a \in PC, NEW b \in PC,
           pc \in [Workers -> PC], Go(w, a, b)
    PROVE  /\ pc' \in [Workers -> PC]
           /\ Cardinality(Alive') = Cardinality(Alive)
                + (IF b = "none" THEN 0 ELSE 1) - (IF a = "none" THEN 0 ELSE 1)
           /\ Cardinality(Counted') = Cardinality(Counted)
                + (IF b \in {"none", "leave"} THEN 0 ELSE 1)
                - (IF a \in {"none", "leave"} THEN 0 ELSE 1)
           /\ Cardinality(Sending') = Cardinality(Sending)
                + (IF b = "send" THEN 1 ELSE 0) - (IF a = "send" THEN 1 ELSE 0)
           /\ Busy = {} => a \notin {"wait", "work", "send"}
           /\ Busy = {} /\ b \notin {"wait", "work", "send"} => Busy' = {}
           /\ a # "none" => Alive # {}
<1>1. pc' \in [Workers -> PC]
  BY DEF Go
<1>2. Cardinality(Alive') = Cardinality(Alive)
        + (IF b = "none" THEN 0 ELSE 1) - (IF a = "none" THEN 0 ELSE 1)
  BY AtFinite, MoveAt DEF Alive
<1>3. Cardinality(Counted') = Cardinality(Counted)
        + (IF b \in {"none", "leave"} THEN 0 ELSE 1)
        - (IF a \in {"none", "leave"} THEN 0 ELSE 1)
  BY AtFinite, MoveAt DEF Counted
<1>4. Cardinality(Sending') = Cardinality(Sending)
        + (IF b = "send" THEN 1 ELSE 0) - (IF a = "send" THEN 1 ELSE 0)
  BY AtFinite, MoveAt DEF Sending
<1>5. /\ Busy = {} => a \notin {"wait", "work", "send"}
      /\ Busy = {} /\ b \notin {"wait", "work", "send"} => Busy' = {}
      /\ a # "none" => Alive # {}
  BY DEF Go, Busy, Alive, At
<1>6. QED  BY <1>1, <1>2, <1>3, <1>4, <1>5

\* The sizes are natural numbers, and a sending worker is a counted one.
LEMMA Sizes ==
    ASSUME pc \in [Workers -> PC]
    PROVE  /\ Cardinality(Alive) \in Nat /\ Cardinality(Counted) \in Nat
           /\ Cardinality(Sending) \in Nat
           /\ Cardinality(Sending) <= Cardinality(Counted)
           /\ Cardinality(Alive) = 0 <=> Alive = {}
           /\ Cardinality(Counted) <= Cardinality(Alive)
           /\ Alive = {} => Busy = {}
<1>1. Sending \subseteq Counted /\ Counted \subseteq Alive /\ Busy \subseteq Alive
  BY DEF Sending, Counted, Alive, Busy, At
<1>2. /\ IsFiniteSet(Alive) /\ IsFiniteSet(Counted) /\ IsFiniteSet(Sending)
      /\ Cardinality(Alive) = 0 <=> Alive = {}
  BY AtFinite DEF Alive, Counted, Sending
<1>3. QED  BY <1>1, <1>2, FS_Subset, FS_CardinalityType

\* A counted worker that is not sending makes the difference strict.
LEMMA NotSending ==
    ASSUME NEW w \in Workers, pc[w] \in {"top", "wait", "work", "exit"}
    PROVE  Cardinality(Sending) + 1 <= Cardinality(Counted)
<1>1. w \in Counted /\ Sending \subseteq Counted \ {w}
  BY DEF Sending, Counted, At, PC
<1>2. IsFiniteSet(Counted)
  BY AtFinite DEF Counted
<1>3. /\ IsFiniteSet(Counted \ {w}) /\ Cardinality(Counted) \in Nat
      /\ Cardinality(Counted \ {w}) = Cardinality(Counted) - 1
  BY <1>1, <1>2, FS_RemoveElement, FS_CardinalityType
<1>4. /\ Cardinality(Sending) \in Nat
      /\ Cardinality(Sending) <= Cardinality(Counted \ {w})
  BY <1>1, <1>3, FS_Subset, FS_CardinalityType
<1>5. QED  BY <1>3, <1>4

\* What the assumption on the constants says of the derived ones.
LEMMA Constants ==
    /\ TotalRPS \in Nat \ {0} /\ InitialCap \in Nat \ {0}
    /\ MaxScaleUpCap \in Nat \ {0} /\ RemoveShare \in Nat \ {0}
    /\ KeepWorkers \in Nat /\ ControlCap \in Nat /\ ResultBuf \in Nat
    /\ InitialWorkers \in Nat \ {0} /\ InitialWorkers <= MaxActive
    /\ Least(MaxScaleUpCap, TotalRPS) \in Nat \ {0} /\ MaxActive \in Nat
    /\ MaxActive = TotalRPS - 1 + Least(MaxScaleUpCap, TotalRPS)
<1>1. /\ TotalRPS \in Nat \ {0} /\ InitialCap \in Nat \ {0}
      /\ MaxScaleUpCap \in Nat \ {0} /\ RemoveShare \in Nat \ {0}
      /\ KeepWorkers \in Nat /\ ControlCap \in Nat /\ ResultBuf \in Nat
  BY PoolAssumption
<1>2. QED  BY <1>1 DEF InitialWorkers, MaxActive, Least

-----------------------------------------------------------------------------
(* Induction *)

\* The initial states satisfy the invariant.
LEMMA InitInv == Init => IInv
<1> SUFFICES ASSUME Init PROVE IInv
  OBVIOUS
<1>1. Alive = {} /\ Counted = {} /\ Busy = {} /\ Sending = {}
  BY DEF Init, Alive, Counted, Busy, Sending, At
<1>2. Cardinality(Alive) = 0 /\ Cardinality(Counted) = 0
      /\ Cardinality(Sending) = 0
  BY <1>1, FS_EmptySet
<1>3. TypeOK
  <2>1. pc \in [Workers -> PC]
    BY DEF Init, PC
  <2>2. 0 \in 0 .. ControlCap /\ 0 \in 0 .. ResultBuf
    BY Constants
  <2>3. QED
    BY <2>1, <2>2 DEF Init, TypeOK
<1>4. CountInv /\ PhaseInv /\ BoundInv /\ AccountInv /\ PanicOnlyInShutdown
  BY <1>1, <1>2, Constants
  DEF Init, CountInv, PhaseInv, BoundInv, AccountInv, PanicOnlyInShutdown
<1>5. QED  BY <1>3, <1>4 DEF IInv

\* Run's steps preserve the invariant.
LEMMA RunInv == ASSUME IInv, RunNext, panic = "none" PROVE IInv'
<1> USE DEF IInv, TypeOK, CountInv, PhaseInv, BoundInv, AccountInv,
            PanicOnlyInShutdown, resultVars, countVars, scalerVars
<1>1. CASE Start
  <2>1. PICK S \in SUBSET Workers :
          /\ Cardinality(S) = InitialWorkers
          /\ pc' = [w \in Workers |-> IF w \in S THEN "top" ELSE "none"]
    BY <1>1 DEF Start
  <2>2. /\ pc' \in [Workers -> PC]
        /\ Alive' = S /\ Counted' = S /\ Busy' = {} /\ Sending' = {}
    BY <2>1 DEF Alive, Counted, Busy, Sending, At, PC
  <2>3. Cardinality(Sending') = 0 /\ Cardinality(Sending) = 0
    BY <1>1, <2>2, Sizes, FS_EmptySet DEF Start
  <2>4. QED
    BY <1>1, <2>1, <2>2, <2>3, Constants DEF Start
<1>2. CASE CloseControl
  BY <1>2, SameAt DEF CloseControl
<1>3. CASE WaitEnter
  BY <1>3, SameAt, Sizes DEF WaitEnter
<1>4. CASE WaitRelease
  BY <1>4, SameAt, Sizes DEF WaitRelease
<1>5. CASE WaitReturn
  BY <1>5, SameAt DEF WaitReturn
<1>6. CASE CloseResults
  BY <1>6, SameAt DEF CloseResults
<1>7. CASE Return
  BY <1>7, SameAt DEF Return
<1>8. QED
  BY <1>1, <1>2, <1>3, <1>4, <1>5, <1>6, <1>7 DEF RunNext

\* Cancellation preserves the invariant: what is in flight may now be lost.
LEMMA CtxInv == ASSUME IInv, TestCtxDone PROVE IInv'
<1>1. Sending' = Sending /\ Cardinality(Sending) <= activeWorkers
  BY SameAt, Sizes DEF IInv, TypeOK, CountInv, TestCtxDone, countVars
<1>2. QED
  BY <1>1, SameAt
  DEF IInv, TypeOK, CountInv, PhaseInv, BoundInv, AccountInv, TestCtxDone,
      PanicOnlyInShutdown, resultVars, countVars, scalerVars

\* The collector's steps preserve the invariant.
LEMMA CollectorInv == ASSUME IInv, CollectorNext PROVE IInv'
<1> USE DEF IInv, TypeOK, CountInv, PhaseInv, BoundInv, AccountInv,
            PanicOnlyInShutdown, shutdownVars, countVars, scalerVars
<1>1. CASE CollectResult
  BY <1>1, SameAt, Sizes, Constants DEF CollectResult
<1>2. CASE Finalize
  BY <1>2, SameAt DEF Finalize
<1>3. QED  BY <1>1, <1>2 DEF CollectorNext

\* The scaler's steps preserve the invariant.
LEMMA ScalerInv ==
    ASSUME IInv, ScalerCheck \/ ScalerWork \/ ScalerStop
    PROVE  IInv'
<1> USE DEF IInv, TypeOK, CountInv, PhaseInv, BoundInv, AccountInv,
            PanicOnlyInShutdown, resultVars, countVars, shutdownVars
<1>1. CASE CheckIdle
  BY <1>1, SameAt DEF CheckIdle, Check
<1>2. CASE CheckScaleUp
  <2>1. PICK k \in 1 .. Least(MaxScaleUpCap, TotalRPS) :
          Check("add", k, activeWorkers)
    BY <1>2 DEF CheckScaleUp
  <2>2. activeWorkers < TotalRPS
    BY <1>2 DEF CheckScaleUp
  <2>3. QED  BY <2>1, <2>2, SameAt, Constants DEF Check
<1>3. CASE CheckScaleDown
  <2>1. PICK k \in 1 .. activeWorkers \div RemoveShare :
          Check("remove", k, activeWorkers)
    BY <1>3 DEF CheckScaleDown
  <2>2. k \in Nat
    BY <2>1, Constants
  <2>3. QED  BY <2>1, <2>2, SameAt DEF Check
<1>4. CASE CheckRevert
  <2>1. PICK k \in 1 .. activeWorkers - 1 :
          Check("remove", k, activeWorkers - k)
    BY <1>4 DEF CheckRevert
  <2>2. k \in Nat /\ activeWorkers - k \in Nat
    BY <2>1
  <2>3. QED  BY <2>1, <2>2, SameAt, Constants DEF Check
<1>5. CASE ScalerWake
  BY <1>5, SameAt DEF ScalerWake
<1>6. CASE ScalerStop
  BY <1>6, SameAt DEF ScalerStop
<1>7. CASE AddWorker
  <2>1. CASE left = 0
    BY <1>7, <2>1, SameAt DEF AddWorker
  <2>2. CASE left # 0
    <3>1. /\ scaler = "add" /\ scaler' = "register"
          /\ activeWorkers' = activeWorkers + 1 /\ left' = left - 1
          /\ UNCHANGED <<shutdownVars, pc, wgCount, resultVars, observed,
                         peakWorkers, stopSignals, panic>>
      BY <1>7, <2>2 DEF AddWorker
    <3>2. left' \in Nat /\ activeWorkers' \in Nat
      BY <2>2, <3>1
    <3>3. activeWorkers' <= MaxActive /\ activeWorkers' + left' <= MaxActive
      BY <3>1, <3>2, Constants
    <3>4. CountInv'
      BY <3>1, SameAt, Sizes
    <3>5. QED  BY <3>1, <3>2, <3>3, <3>4, SameAt, Constants
  <2>3. QED  BY <2>1, <2>2
<1>8. CASE RegisterWorker
  <2>1. CASE run = "parked" /\ wgCount = 0
    BY <1>8, <2>1, SameAt DEF RegisterWorker
  <2>2. CASE ~(run = "parked" /\ wgCount = 0)
    <3>1. PICK w \in Free : pc' = [pc EXCEPT ![w] = "top"]
      BY <1>8, <2>2 DEF RegisterWorker
    <3>2. w \in Workers /\ Go(w, "none", "top")
          /\ "none" \in PC /\ "top" \in PC
      BY <3>1 DEF Free, At, Go, PC
    <3>3. /\ pc' \in [Workers -> PC]
          /\ Cardinality(Alive') = Cardinality(Alive) + 1
          /\ Cardinality(Counted') = Cardinality(Counted) + 1
          /\ Cardinality(Sending') = Cardinality(Sending)
          /\ Busy = {} => Busy' = {}
      BY <3>2, MoveWorker, Sizes
    <3>4. QED  BY <1>8, <2>2, <3>3, Sizes DEF RegisterWorker
  <2>3. QED  BY <2>1, <2>2
<1>9. CASE RemoveWorker
  BY <1>9, SameAt, Constants DEF RemoveWorker
<1>10. CASE TrackPeak
  BY <1>10, SameAt DEF TrackPeak
<1>11. QED
  BY <1>1, <1>2, <1>3, <1>4, <1>5, <1>6, <1>7, <1>8, <1>9, <1>10
  DEF ScalerCheck, ScalerWork

\* A worker's steps preserve the invariant.
LEMMA WorkerInv ==
    ASSUME IInv, NEW w \in Workers, WorkerNext(w), panic = "none"
    PROVE  IInv'
<1> USE DEF IInv, TypeOK, CountInv, PhaseInv, BoundInv, AccountInv,
            PanicOnlyInShutdown, resultVars, scalerVars, shutdownVars
<1>p. PC = {"none", "top", "wait", "work", "send", "exit", "leave"}
  BY DEF PC
<1>1. CASE StopOnCtx(w) \/ StopOnSignal(w) \/ StopOnClosed(w)
  <2>1. Go(w, "top", "exit")
    BY <1>1 DEF StopOnCtx, StopOnSignal, StopOnClosed
  <2>2. QED
    BY <1>1, <1>p, <2>1, MoveWorker, Sizes, Constants
    DEF StopOnCtx, StopOnSignal, StopOnClosed
<1>2. CASE BeginRequest(w)
  <2>1. Go(w, "top", "wait")
    BY <1>2 DEF BeginRequest
  <2>2. QED  BY <1>2, <1>p, <2>1, MoveWorker, Sizes DEF BeginRequest
<1>3. CASE LimiterGrant(w)
  <2>1. Go(w, "wait", "work")
    BY <1>3 DEF LimiterGrant
  <2>2. QED  BY <1>3, <1>p, <2>1, MoveWorker, Sizes DEF LimiterGrant
<1>4. CASE LimiterFail(w)
  <2>1. Go(w, "wait", "exit")
    BY <1>4 DEF LimiterFail
  <2>2. QED  BY <1>4, <1>p, <2>1, MoveWorker, Sizes DEF LimiterFail
<1>5. CASE FinishWork(w)
  <2>1. CASE ctxDone
    <3>1. Go(w, "work", "exit")
      BY <1>5, <2>1 DEF FinishWork
    <3>2. QED  BY <1>5, <1>p, <2>1, <3>1, MoveWorker, Sizes DEF FinishWork
  <2>2. CASE ~ctxDone
    <3>1. Go(w, "work", "send")
      BY <1>5, <2>2 DEF FinishWork
    <3>2. /\ pc' \in [Workers -> PC]
          /\ Cardinality(Alive') = Cardinality(Alive)
          /\ Cardinality(Counted') = Cardinality(Counted)
          /\ Cardinality(Sending') = Cardinality(Sending) + 1
          /\ Busy # {}
      BY <1>p, <3>1, MoveWorker, Sizes
    <3>3. Cardinality(Sending') <= Cardinality(Counted')
      BY <3>1, <3>2, NotSending, Sizes DEF Go
    <3>4. QED  BY <1>5, <2>2, <3>2, <3>3, Sizes, Constants DEF FinishWork
  <2>3. QED  BY <2>1, <2>2
<1>6. CASE SendResult(w)
  <2>1. w \in Busy
    BY <1>6 DEF SendResult, Busy, At
  <2>2. ~resultsClosed /\ Go(w, "send", "top")
    BY <1>6, <2>1 DEF SendResult
  <2>3. QED
    BY <1>6, <1>p, <2>2, MoveWorker, Sizes, Constants DEF SendResult
<1>7. CASE SendAborted(w)
  <2>1. Go(w, "send", "exit")
    BY <1>7 DEF SendAborted
  <2>2. QED  BY <1>7, <1>p, <2>1, MoveWorker, Sizes, Constants DEF SendAborted
<1>8. CASE WorkerLeave(w)
  <2>1. Go(w, "exit", "leave")
    BY <1>8 DEF WorkerLeave
  <2>2. /\ pc' \in [Workers -> PC]
        /\ Cardinality(Alive') = Cardinality(Alive)
        /\ Cardinality(Counted') = Cardinality(Counted) - 1
        /\ Cardinality(Sending') = Cardinality(Sending)
        /\ Busy = {} => Busy' = {}
        /\ Alive # {}
    BY <1>p, <2>1, MoveWorker, Sizes
  <2>3. Cardinality(Counted) >= 1
    BY <2>1, NotSending, Sizes DEF Go
  <2>4. QED  BY <1>8, <2>2, <2>3, Sizes, Constants DEF WorkerLeave
<1>9. CASE WorkerDone(w)
  <2>1. Go(w, "leave", "none")
    BY <1>9 DEF WorkerDone
  <2>2. QED  BY <1>9, <1>p, <2>1, MoveWorker, Sizes DEF WorkerDone
<1>10. QED
  BY <1>1, <1>2, <1>3, <1>4, <1>5, <1>6, <1>7, <1>8, <1>9 DEF WorkerNext

\* Every step preserves the invariant.
LEMMA NextInv == IInv /\ [Next]_vars => IInv'
<1> SUFFICES ASSUME IInv, [Next]_vars PROVE IInv'
  OBVIOUS
<1>1. CASE panic = "none" /\ RunNext
  BY <1>1, RunInv
<1>2. CASE TestCtxDone
  BY <1>2, CtxInv
<1>3. CASE ScalerCheck \/ ScalerWork \/ ScalerStop
  BY <1>3, ScalerInv
<1>4. CASE panic = "none" /\ \E w \in Workers : WorkerNext(w)
  BY <1>4, WorkerInv
<1>5. CASE CollectorNext
  BY <1>5, CollectorInv
<1>6. CASE UNCHANGED vars
  BY <1>6, SameAt
  DEF vars, shutdownVars, countVars, resultVars, scalerVars, IInv, TypeOK,
      CountInv, PhaseInv, BoundInv, AccountInv, PanicOnlyInShutdown
<1>7. QED
  BY <1>1, <1>2, <1>3, <1>4, <1>5, <1>6 DEF Next, Terminated

\* The invariant holds throughout every behaviour.
THEOREM Invariance == Spec => []IInv
<1>1. Init => IInv
  BY InitInv
<1>2. IInv /\ [Next]_vars => IInv'
  BY NextInv
<1>3. QED  BY <1>1, <1>2, PTL DEF Spec

-----------------------------------------------------------------------------
(* The properties that the runs check *)

\* Types, and in particular that no counter goes below zero: workerWg never
\* panics with a negative counter, activeWorkers never underflows.
THEOREM TypeCorrect == Spec => []TypeOK
<1>1. IInv => TypeOK
  BY DEF IInv
<1>2. QED  BY <1>1, Invariance, PTL

\* After workerWg.Wait nobody is in a request or sends a result (pool.go: the
\* order of Wait and close(results)), even if addWorkers raced with Wait.
THEOREM Quiescence == Spec => []QuiescentAfterWait
<1>1. IInv => QuiescentAfterWait
  BY DEF IInv, PhaseInv, QuiescentAfterWait
<1>2. QED  BY <1>1, Invariance, PTL

\* The panics of the shutdown races are the only ones.
THEOREM PanicConfined == Spec => []PanicOnlyInShutdown
<1>1. IInv => PanicOnlyInShutdown
  BY DEF IInv
<1>2. QED  BY <1>1, Invariance, PTL

\* Concurrency stays below TotalRPS + min(MaxScaleUpCap, TotalRPS).
THEOREM Bounded == Spec => []ConcurrencyBounded
<1>1. IInv => ConcurrencyBounded
  BY DEF IInv, BoundInv, ConcurrencyBounded
<1>2. QED  BY <1>1, Invariance, PTL

\* Every counted request is in the statistics, in the channel or at its send,
\* but for at most MaxActive that cancellation took from a blocked send.
THEOREM Accounted == Spec => []ResultsAccounted
<1>1. IInv => ResultsAccounted
  <2> SUFFICES ASSUME IInv PROVE ResultsAccounted
    OBVIOUS
  <2>1. Cardinality(Sending) \in Nat
    BY Sizes DEF IInv, TypeOK
  <2>2. QED
    BY <2>1, Constants DEF IInv, TypeOK, AccountInv, ResultsAccounted
<1>2. QED  BY <1>1, Invariance, PTL

\* Nobody writes to the statistics any more once Run has returned them.
THEOREM Frozen == Spec => StatsFrozen
<1> DEFINE Frz == run = "returned" =>
                    UNCHANGED <<totalRequests, peakWorkers, requestCounter>>
<1>1. IInv /\ [Next]_vars => [Frz]_vars
  <2> SUFFICES ASSUME IInv, Next, run = "returned"
               PROVE  UNCHANGED <<totalRequests, peakWorkers, requestCounter>>
    OBVIOUS
  <2>1. scaler = "stopped" /\ collector = "done" /\ Busy = {}
    BY DEF IInv, PhaseInv
  <2>2. CASE RunNext
    BY <2>2 DEF RunNext, Start, CloseControl, WaitEnter, WaitRelease,
                WaitReturn, CloseResults, Return, resultVars, scalerVars
  <2>3. CASE TestCtxDone
    BY <2>3 DEF TestCtxDone, resultVars, scalerVars
  <2>4. ~(ScalerCheck \/ ScalerWork \/ ScalerStop)
    BY <2>1
    DEF ScalerCheck, CheckIdle, CheckScaleUp, CheckScaleDown, CheckRevert,
        Check, ScalerWork, ScalerWake, AddWorker, RegisterWorker,
        RemoveWorker, TrackPeak, ScalerStop
  <2>5. ASSUME NEW w \in Workers, WorkerNext(w)
        PROVE  UNCHANGED <<totalRequests, peakWorkers, requestCounter>>
    <3>1. pc[w] \notin {"work", "send"}
      BY <2>1 DEF Busy, At
    <3>2. QED
      BY <2>5, <3>1
      DEF WorkerNext, StopOnCtx, StopOnSignal, StopOnClosed, BeginRequest,
          LimiterGrant, LimiterFail, FinishWork, SendResult, SendAborted,
          WorkerLeave, WorkerDone, resultVars, scalerVars
  <2>6. ~CollectorNext
    BY <2>1 DEF CollectorNext, CollectResult, Finalize
  <2>7. CASE UNCHANGED vars
    BY <2>7 DEF vars, resultVars, scalerVars
  <2>8. QED
    BY <2>2, <2>3, <2>4, <2>5, <2>6, <2>7 DEF Next, Terminated
<1>2. QED  BY <1>1, Invariance, PTL DEF Spec, StatsFrozen

\* The pool implements the ledger: an accepted result is reported before the
\* final report, and nothing is accepted or reported after it.
THEOREM Refinement == Spec => ImplementsLedger
<1>1. Init => Ledger!Init
  BY DEF Init, Ledger!Init
<1>2. IInv /\ [Next]_vars => [Ledger!Next]_(Ledger!vars)
  <2> SUFFICES ASSUME IInv, [Next]_vars
               PROVE  [Ledger!Next]_(Ledger!vars)
    OBVIOUS
  <2> USE DEF Ledger!vars
  <2>0. /\ buffered \in Nat /\ totalRequests \in Nat
        /\ collector = "done" => resultsClosed /\ buffered = 0
        /\ resultsClosed => Busy = {}
    BY Constants DEF IInv, TypeOK, PhaseInv
  <2>1. CASE RunNext
    BY <2>1, <2>0 DEF RunNext, Start, CloseControl, WaitEnter, WaitRelease,
                WaitReturn, CloseResults, Return, resultVars, IInv, PhaseInv
  <2>2. CASE TestCtxDone
    BY <2>2 DEF TestCtxDone, resultVars
  <2>3. CASE ScalerCheck \/ ScalerWork \/ ScalerStop
    BY <2>3
    DEF ScalerCheck, CheckIdle, CheckScaleUp, CheckScaleDown, CheckRevert,
        Check, ScalerWork, ScalerWake, AddWorker, RegisterWorker,
        RemoveWorker, TrackPeak, ScalerStop, resultVars
  <2>4. ASSUME NEW w \in Workers, WorkerNext(w)
        PROVE  [Ledger!Next]_(Ledger!vars)
    <3>1. CASE SendResult(w)
      <4>1. w \in Busy
        BY <3>1 DEF SendResult, Busy, At
      <4>2. QED
        BY <2>0, <3>1, <4>1 DEF SendResult, Ledger!Next, Ledger!Accept
    <3>2. CASE ~SendResult(w)
      BY <2>4, <3>2
      DEF WorkerNext, StopOnCtx, StopOnSignal, StopOnClosed, BeginRequest,
          LimiterGrant, LimiterFail, FinishWork, SendAborted, WorkerLeave,
          WorkerDone, resultVars
    <3>3. QED  BY <3>1, <3>2
  <2>5. CASE CollectResult
    BY <2>0, <2>5 DEF CollectResult, Ledger!Next, Ledger!Report
  <2>6. CASE Finalize
    BY <2>0, <2>6 DEF Finalize, Ledger!Next, Ledger!Finish
  <2>7. CASE UNCHANGED vars
    BY <2>7 DEF vars, resultVars
  <2>8. QED
    BY <2>1, <2>2, <2>3, <2>4, <2>5, <2>6, <2>7
    DEF Next, Terminated, CollectorNext
<1>3. QED
  BY <1>1, <1>2, Invariance, PTL DEF Spec, ImplementsLedger, Ledger!Spec
=============================================================================
