----------------------------- MODULE WorkerPool -----------------------------
(***************************************************************************)
(* The life of one pool.Pool: Run, the workers, the dynamic scaler and the *)
(* result collector, which are goroutines that meet at a context, two      *)
(* channels, a wait group and two atomic counters (internal/engine/pool).  *)
(*                                                                         *)
(* Time and the policy of the scaler are abstracted: a check may take any  *)
(* decision the policy allows (module Scaler refines that choice).  A      *)
(* worker is an identity that is free again once its goroutine has ended.  *)
(***************************************************************************)
EXTENDS Integers, FiniteSets

CONSTANTS
    Workers,        \* goroutine identities; bounds how many exist at a time
    TotalRPS,       \* sum of the RPS of the targets
    InitialCap,     \* 10: most workers Run starts with
    MaxScaleUpCap,  \* 500: most workers one check adds
    KeepWorkers,    \* 10: no scale-down at or below this many workers
    RemoveShare,    \* 4: a scale-down removes at most 1/RemoveShare of them
    ControlCap,     \* 1000: capacity of workerControl
    ResultBuf,      \* 10000: capacity of results
    MaxRequests     \* bound on requestCounter, for TLC only

Least(a, b) == IF a <= b THEN a ELSE b

InitialWorkers == Least(TotalRPS, InitialCap)

ASSUME PoolAssumption ==
    /\ IsFiniteSet(Workers)
    /\ {TotalRPS, InitialCap, MaxScaleUpCap, RemoveShare} \subseteq Nat \ {0}
    /\ {KeepWorkers, ControlCap, ResultBuf, MaxRequests} \subseteq Nat
    /\ InitialWorkers <= Cardinality(Workers)

VARIABLES
    run,            \* where Run is
    ctxDone,        \* testCtx is cancelled: duration over, or parent cancelled
    pc,             \* pc[w]: where goroutine w is
    activeWorkers,  \* Pool.activeWorkers
    wgCount,        \* counter of Pool.workerWg
    stopSignals,    \* number of `false` values buffered in workerControl
    controlClosed,  \* workerControl is closed
    buffered,       \* number of results buffered in results
    resultsClosed,  \* results is closed
    requestCounter, \* Pool.requestCounter
    totalRequests,  \* stats.TotalRequests
    scaler,         \* where dynamicScaler is
    left,           \* iterations addWorkers / removeWorkers still has to do
    observed,       \* currentWorkers of the check in progress
    peakWorkers,    \* stats.PeakWorkers
    collector,      \* where collectResults is
    panic           \* the panic that ended the process, or "none"

shutdownVars == <<run, ctxDone, controlClosed, resultsClosed>>
countVars    == <<pc, activeWorkers, wgCount>>
resultVars   == <<buffered, requestCounter, totalRequests, collector>>
scalerVars   == <<scaler, left, observed, peakWorkers>>
vars == <<shutdownVars, countVars, resultVars, scalerVars, stopSignals, panic>>

\* The points of a worker: not there, at the select, in Limiter.Wait, in
\* doWork, at the send, returned from worker, between its deferred calls.
PC == {"none", "top", "wait", "work", "send", "exit", "leave"}

At(Q) == {w \in Workers : pc[w] \in Q}

Alive   == At(PC \ {"none"})             \* goroutines not yet workerWg.Done
Counted == At(PC \ {"none", "leave"})    \* those activeWorkers counts
Busy    == At({"wait", "work", "send"})  \* those in a request
Sending == At({"send"})
Free    == At({"none"})

Init ==
    /\ run = "start" /\ ctxDone = FALSE
    /\ controlClosed = FALSE /\ resultsClosed = FALSE
    /\ pc = [w \in Workers |-> "none"] /\ activeWorkers = 0 /\ wgCount = 0
    /\ buffered = 0 /\ requestCounter = 0 /\ totalRequests = 0
    /\ collector = "idle"
    /\ scaler = "idle" /\ left = 0 /\ observed = 0 /\ peakWorkers = 0
    /\ stopSignals = 0 /\ panic = "none"

-----------------------------------------------------------------------------
(* Run *)

\* Starts the collector, the scaler and the initial workers.
Start ==
    /\ run = "start"
    /\ \E S \in SUBSET Workers :
         /\ Cardinality(S) = InitialWorkers
         /\ pc' = [w \in Workers |-> IF w \in S THEN "top" ELSE "none"]
    /\ activeWorkers' = InitialWorkers
    /\ wgCount' = InitialWorkers
    /\ collector' = "running" /\ scaler' = "sleep" /\ run' = "running"
    /\ UNCHANGED <<ctxDone, controlClosed, resultsClosed, buffered,
                   requestCounter, totalRequests, left, observed, peakWorkers,
                   stopSignals, panic>>

\* The duration elapses, or main cancels the parent context on a signal.
TestCtxDone ==
    /\ ~ctxDone
    /\ ctxDone' = TRUE
    /\ UNCHANGED <<run, controlClosed, resultsClosed, countVars, resultVars,
                   scalerVars, stopSignals, panic>>

\* <-testCtx.Done(), then close(workerControl).
CloseControl ==
    /\ run = "running" /\ ctxDone
    /\ controlClosed' = TRUE /\ run' = "waiting"
    /\ UNCHANGED <<ctxDone, resultsClosed, countVars, resultVars, scalerVars,
                   stopSignals, panic>>

\* Mutant: Run does not wait for the workers before it closes results.
WaitEnterSkipped ==
    /\ run = "waiting"
    /\ run' = "waited"
    /\ UNCHANGED <<ctxDone, controlClosed, resultsClosed, countVars,
                   resultVars, scalerVars, stopSignals, panic>>

\* workerWg.Wait returns at once on a zero counter, otherwise it parks.
WaitEnter ==
    /\ run = "waiting"
    /\ run' = IF wgCount = 0 THEN "waited" ELSE "parked"
    /\ UNCHANGED <<ctxDone, controlClosed, resultsClosed, countVars,
                   resultVars, scalerVars, stopSignals, panic>>

\* The Done that brought the counter to zero releases the parked waiter.
WaitRelease ==
    /\ run = "parked" /\ wgCount = 0
    /\ run' = "woken"
    /\ UNCHANGED <<ctxDone, controlClosed, resultsClosed, countVars,
                   resultVars, scalerVars, stopSignals, panic>>

\* The woken waiter checks that nobody has reused the wait group meanwhile.
WaitReturn ==
    /\ run = "woken"
    /\ IF wgCount = 0
         THEN run' = "waited" /\ UNCHANGED panic
         ELSE panic' = "waitGroup" /\ UNCHANGED run
    /\ UNCHANGED <<ctxDone, controlClosed, resultsClosed, countVars,
                   resultVars, scalerVars, stopSignals>>

\* Mutant: Run forgets to close results.
CloseResultsForgotten ==
    /\ run = "waited"
    /\ run' = "draining"
    /\ UNCHANGED <<ctxDone, controlClosed, resultsClosed, countVars,
                   resultVars, scalerVars, stopSignals, panic>>

CloseResults ==
    /\ run = "waited"
    /\ resultsClosed' = TRUE /\ run' = "draining"
    /\ UNCHANGED <<ctxDone, controlClosed, countVars, resultVars, scalerVars,
                   stopSignals, panic>>

\* Mutant: Run waits for the collector only.
ReturnBeforeScaler ==
    /\ run = "draining" /\ collector = "done"
    /\ run' = "returned"
    /\ UNCHANGED <<ctxDone, controlClosed, resultsClosed, countVars,
                   resultVars, scalerVars, stopSignals, panic>>

\* wg.Wait for the collector and the scaler, then return p.stats.
Return ==
    /\ run = "draining" /\ collector = "done" /\ scaler = "stopped"
    /\ run' = "returned"
    /\ UNCHANGED <<ctxDone, controlClosed, resultsClosed, countVars,
                   resultVars, scalerVars, stopSignals, panic>>

-----------------------------------------------------------------------------
(* dynamicScaler *)

\* The end of the calibration sleep, which no cancellation shortens.
ScalerWake ==
    /\ scaler = "sleep"
    /\ scaler' = "select"
    /\ UNCHANGED <<shutdownVars, countVars, resultVars, left, observed,
                   peakWorkers, stopSignals, panic>>

ScalerStop ==
    /\ scaler = "select" /\ ctxDone
    /\ scaler' = "stopped"
    /\ UNCHANGED <<shutdownVars, countVars, resultVars, left, observed,
                   peakWorkers, stopSignals, panic>>

\* A tick is received and the policy decides: `step` says what comes next,
\* k how many workers it concerns, cur what currentWorkers ends up as.
Check(step, k, cur) ==
    /\ scaler = "select"
    /\ scaler' = step /\ left' = k /\ observed' = cur
    /\ UNCHANGED <<shutdownVars, countVars, resultVars, peakWorkers,
                   stopSignals, panic>>

CheckIdle == Check("peak", 0, activeWorkers)

\* Mutant: the check that there are fewer workers than TotalRPS is dropped.
CheckScaleUpUncapped ==
    /\ 0 < activeWorkers
    /\ \E k \in 1 .. Least(MaxScaleUpCap, TotalRPS) :
         /\ k <= Cardinality(Free)
         /\ Check("add", k, activeWorkers)

\* Under target.  That k identities are free is a bound of the model.
CheckScaleUp ==
    /\ 0 < activeWorkers /\ activeWorkers < TotalRPS
    /\ \E k \in 1 .. Least(MaxScaleUpCap, TotalRPS) :
         /\ k <= Cardinality(Free)
         /\ Check("add", k, activeWorkers)

\* Over target.
CheckScaleDown ==
    /\ activeWorkers > KeepWorkers
    /\ \E k \in 1 .. activeWorkers \div RemoveShare :
         Check("remove", k, activeWorkers)

\* A confirmed stall goes back to the worker count before the stall.
CheckRevert ==
    \E k \in 1 .. activeWorkers - 1 : Check("remove", k, activeWorkers - k)

\* One iteration of addWorkers, first half: the atomic increment.
AddWorker ==
    /\ scaler = "add"
    /\ IF left = 0
         THEN scaler' = "peak" /\ UNCHANGED <<activeWorkers, left>>
         ELSE /\ activeWorkers' = activeWorkers + 1 /\ left' = left - 1
              /\ scaler' = "register"
    /\ UNCHANGED <<shutdownVars, pc, wgCount, resultVars, observed,
                   peakWorkers, stopSignals, panic>>

\* Mutant: workerWg.Add is forgotten for the workers the scaler adds.
RegisterWorkerWithoutAdd ==
    /\ scaler = "register"
    /\ \E w \in Free : pc' = [pc EXCEPT ![w] = "top"]
    /\ scaler' = "add"
    /\ UNCHANGED <<shutdownVars, activeWorkers, wgCount, resultVars, left,
                   observed, peakWorkers, stopSignals, panic>>

\* Second half: workerWg.Add(1) and the go statement.  Add panics when it
\* raises a zero counter that a waiter is still parked on.
RegisterWorker ==
    /\ scaler = "register"
    /\ IF run = "parked" /\ wgCount = 0
         THEN panic' = "waitGroup" /\ UNCHANGED <<pc, wgCount, scaler>>
         ELSE /\ \E w \in Free : pc' = [pc EXCEPT ![w] = "top"]
              /\ wgCount' = wgCount + 1 /\ scaler' = "add"
              /\ UNCHANGED panic
    /\ UNCHANGED <<shutdownVars, activeWorkers, resultVars, left, observed,
                   peakWorkers, stopSignals>>

\* One iteration of removeWorkers: a send that does not block.
RemoveWorker ==
    /\ scaler = "remove"
    /\ \/ /\ left = 0
          /\ scaler' = "peak" /\ UNCHANGED <<left, stopSignals, panic>>
       \/ /\ left > 0 /\ controlClosed
          /\ panic' = "closedControl"
          /\ UNCHANGED <<scaler, left, stopSignals>>
       \/ /\ left > 0 /\ ~controlClosed
          /\ IF stopSignals < ControlCap
               THEN /\ stopSignals' = stopSignals + 1 /\ left' = left - 1
                    /\ UNCHANGED scaler
               ELSE left' = 0 /\ scaler' = "peak" /\ UNCHANGED stopSignals
          /\ UNCHANGED panic
    /\ UNCHANGED <<shutdownVars, countVars, resultVars, observed, peakWorkers>>

TrackPeak ==
    /\ scaler = "peak"
    /\ peakWorkers' = IF observed > peakWorkers THEN observed ELSE peakWorkers
    /\ scaler' = "select"
    /\ UNCHANGED <<shutdownVars, countVars, resultVars, left, observed,
                   stopSignals, panic>>

-----------------------------------------------------------------------------
(* worker *)

Go(w, from, to) == pc[w] = from /\ pc' = [pc EXCEPT ![w] = to]

StopOnCtx(w) ==
    /\ Go(w, "top", "exit") /\ ctxDone
    /\ UNCHANGED <<shutdownVars, activeWorkers, wgCount, resultVars,
                   scalerVars, stopSignals, panic>>

StopOnSignal(w) ==
    /\ Go(w, "top", "exit") /\ stopSignals > 0
    /\ stopSignals' = stopSignals - 1
    /\ UNCHANGED <<shutdownVars, activeWorkers, wgCount, resultVars,
                   scalerVars, panic>>

StopOnClosed(w) ==
    /\ Go(w, "top", "exit") /\ controlClosed /\ stopSignals = 0
    /\ UNCHANGED <<shutdownVars, activeWorkers, wgCount, resultVars,
                   scalerVars, stopSignals, panic>>

\* Mutant: the worker does not look at the context and the control channel.
BeginRequestBlindly(w) ==
    /\ Go(w, "top", "wait")
    /\ requestCounter < MaxRequests
    /\ UNCHANGED <<shutdownVars, activeWorkers, wgCount, resultVars,
                   scalerVars, stopSignals, panic>>

\* The default case of the select: no other case is ready.
BeginRequest(w) ==
    /\ Go(w, "top", "wait")
    /\ ~ctxDone /\ stopSignals = 0 /\ ~controlClosed
    /\ requestCounter < MaxRequests
    /\ UNCHANGED <<shutdownVars, activeWorkers, wgCount, resultVars,
                   scalerVars, stopSignals, panic>>

\* Limiter.Wait hands out a token ...
LimiterGrant(w) ==
    /\ Go(w, "wait", "work")
    /\ UNCHANGED <<shutdownVars, activeWorkers, wgCount, resultVars,
                   scalerVars, stopSignals, panic>>

\* ... or fails: testCtx is done, or its deadline is before the next token.
LimiterFail(w) ==
    /\ Go(w, "wait", "exit")
    /\ UNCHANGED <<shutdownVars, activeWorkers, wgCount, resultVars,
                   scalerVars, stopSignals, panic>>

\* doWork returns; the result of an interrupted request is discarded.
FinishWork(w) ==
    /\ pc[w] = "work"
    /\ IF ctxDone
         THEN Go(w, "work", "exit") /\ UNCHANGED requestCounter
         ELSE Go(w, "work", "send") /\ requestCounter' = requestCounter + 1
    /\ UNCHANGED <<shutdownVars, activeWorkers, wgCount, buffered,
                   totalRequests, collector, scalerVars, stopSignals, panic>>

\* Mutant: the select that sends has a default case, a full channel drops.
SendResultOrDrop(w) ==
    /\ Go(w, "send", "top")
    /\ buffered' = Least(buffered + 1, ResultBuf)
    /\ UNCHANGED <<shutdownVars, activeWorkers, wgCount, requestCounter,
                   totalRequests, collector, scalerVars, stopSignals, panic>>

\* A send on a closed channel panics; on a full one it waits.
SendResult(w) ==
    /\ pc[w] = "send"
    /\ IF resultsClosed
         THEN panic' = "closedResults" /\ UNCHANGED <<pc, buffered>>
         ELSE /\ buffered < ResultBuf /\ buffered' = buffered + 1
              /\ Go(w, "send", "top") /\ UNCHANGED panic
    /\ UNCHANGED <<shutdownVars, activeWorkers, wgCount, requestCounter,
                   totalRequests, collector, scalerVars, stopSignals>>

SendAborted(w) ==
    /\ Go(w, "send", "exit") /\ ctxDone
    /\ UNCHANGED <<shutdownVars, activeWorkers, wgCount, resultVars,
                   scalerVars, stopSignals, panic>>

\* The two deferred calls, last one first.
WorkerLeave(w) ==
    /\ Go(w, "exit", "leave") /\ activeWorkers' = activeWorkers - 1
    /\ UNCHANGED <<shutdownVars, wgCount, resultVars, scalerVars, stopSignals,
                   panic>>

WorkerDone(w) ==
    /\ Go(w, "leave", "none") /\ wgCount' = wgCount - 1
    /\ UNCHANGED <<shutdownVars, activeWorkers, resultVars, scalerVars,
                   stopSignals, panic>>

-----------------------------------------------------------------------------
(* collectResults *)

CollectResult ==
    /\ collector = "running" /\ buffered > 0
    /\ buffered' = buffered - 1 /\ totalRequests' = totalRequests + 1
    /\ UNCHANGED <<shutdownVars, countVars, requestCounter, collector,
                   scalerVars, stopSignals, panic>>

\* Mutant: the collector also stops when the test context is done.
FinalizeOnCtxDone ==
    /\ collector = "running" /\ ctxDone
    /\ collector' = "done"
    /\ UNCHANGED <<shutdownVars, countVars, buffered, requestCounter,
                   totalRequests, scalerVars, stopSignals, panic>>

\* The closed and drained channel: finalizeStats, OnComplete, return.
Finalize ==
    /\ collector = "running" /\ resultsClosed /\ buffered = 0
    /\ collector' = "done"
    /\ UNCHANGED <<shutdownVars, countVars, buffered, requestCounter,
                   totalRequests, scalerVars, stopSignals, panic>>

-----------------------------------------------------------------------------
RunNext == Start \/ CloseControl \/ WaitEnter \/ WaitRelease \/ WaitReturn
           \/ CloseResults \/ Return

ScalerCheck == CheckIdle \/ CheckScaleUp \/ CheckScaleDown \/ CheckRevert

ScalerWork == ScalerWake \/ AddWorker \/ RegisterWorker \/ RemoveWorker
              \/ TrackPeak

\* The steps a worker takes by itself, the loop's own choice among them.
WorkerNext(w) ==
    \/ StopOnCtx(w) \/ StopOnSignal(w) \/ StopOnClosed(w) \/ BeginRequest(w)
    \/ LimiterGrant(w) \/ LimiterFail(w) \/ FinishWork(w)
    \/ SendResult(w) \/ SendAborted(w) \/ WorkerLeave(w) \/ WorkerDone(w)

CollectorNext == CollectResult \/ Finalize

\* The process is over: Run returned and no goroutine is left, or it panicked.
Terminated ==
    /\ panic # "none" \/ (run = "returned" /\ Alive = {})
    /\ UNCHANGED vars

Next ==
    \/ /\ panic = "none"
       /\ \/ RunNext \/ TestCtxDone
          \/ ScalerCheck \/ ScalerWork \/ ScalerStop
          \/ \E w \in Workers : WorkerNext(w)
          \/ CollectorNext
    \/ Terminated

Spec == Init /\ [][Next]_vars

\* The Go scheduler runs every goroutine that can run, testCtx has a deadline,
\* Limiter.Wait and doWork return, and a select that finds both the context
\* and a tick ready picks one at random.
Fairness ==
    /\ WF_vars(panic = "none" /\ RunNext)
    /\ WF_vars(panic = "none" /\ TestCtxDone)
    /\ WF_vars(panic = "none" /\ ScalerWork)
    /\ SF_vars(panic = "none" /\ ScalerStop)
    /\ \A w \in Workers : WF_vars(panic = "none" /\ WorkerNext(w))
    /\ WF_vars(panic = "none" /\ CollectorNext)

FairSpec == Spec /\ Fairness

-----------------------------------------------------------------------------
(* Properties *)

\* Every variable has its type; the three counters never go below zero.
TypeOK ==
    /\ run \in {"start", "running", "waiting", "parked", "woken", "waited",
               "draining", "returned"}
    /\ pc \in [Workers -> PC]
    /\ scaler \in {"idle", "sleep", "select", "add", "register", "remove",
                  "peak", "stopped"}
    /\ collector \in {"idle", "running", "done"}
    /\ panic \in {"none", "closedControl", "waitGroup", "closedResults"}
    /\ ctxDone \in BOOLEAN /\ controlClosed \in BOOLEAN
    /\ resultsClosed \in BOOLEAN
    /\ activeWorkers \in Nat /\ wgCount \in Nat
    /\ stopSignals \in 0 .. ControlCap /\ buffered \in 0 .. ResultBuf
    /\ requestCounter \in Nat /\ totalRequests \in Nat
    /\ left \in Nat /\ observed \in Nat /\ peakWorkers \in Nat

\* Once workerWg.Wait has returned no goroutine is in a request or about to
\* send its result, also when addWorkers raced with Wait and a worker outlives
\* it: results is never sent on after it is closed, and the clients that
\* engine.Close closes after Run are not used any more.
QuiescentAfterWait == run \in {"waited", "draining", "returned"} => Busy = {}

\* A panic can only come from the shutdown races on workerControl and
\* workerWg, after the test context is done: never while load is generated,
\* and never from a send of a result.
PanicOnlyInShutdown ==
    panic # "none" => ctxDone /\ panic \in {"closedControl", "waitGroup"}

\* The most workers the policy can bring about: a check adds at most
\* maxScaleUp workers, and only when it finds fewer than TotalRPS.
MaxActive == TotalRPS - 1 + Least(MaxScaleUpCap, TotalRPS)

\* Concurrency is bounded by the configured rate whatever the order in which
\* checks, spawns, stop signals and exits interleave; the peak it reports
\* is within the same bound.
ConcurrencyBounded == activeWorkers <= MaxActive /\ peakWorkers <= MaxActive

\* No result is lost or counted twice between requestCounter, the channel and
\* the statistics while the test runs, and cancellation loses at most the one
\* result per worker that was waiting for room in the channel.
ResultsAccounted ==
    LET accounted == totalRequests + buffered + Cardinality(Sending)
    IN  /\ ~ctxDone => requestCounter = accounted
        /\ accounted <= requestCounter
        /\ requestCounter <= accounted + MaxActive

\* The statistics Run returns by pointer are no longer written: neither the
\* collector nor the scaler nor a worker that outlived Wait changes them.
StatsFrozen ==
    [][run = "returned" =>
         UNCHANGED <<totalRequests, peakWorkers, requestCounter>>]_vars

\* Cancellation ends the run: Run returns and every goroutine ends, unless
\* one of the shutdown races panics first.
ShutdownCompletes ==
    ctxDone ~> ((run = "returned" /\ Alive = {}) \/ panic # "none")

\* What the comment on workerWg.Wait says: "Wait for all workers (initial +
\* dynamically added) to finish".  addWorkers may still be running.
NoWorkerOutlivesWait == run \in {"waited", "draining", "returned"} => Alive = {}

\* What main logs on a signal, "Shutting down gracefully...": the process
\* does not panic on the channel that Run closes under the scaler.
GracefulShutdown == panic # "closedControl"

\* What the results channel promises to the one who reads the statistics: an
\* accepted result is reported, and nothing is accepted or reported after the
\* final report.
Ledger == INSTANCE ResultLedger WITH
              accepted <- totalRequests + buffered,
              reported <- totalRequests,
              final    <- collector = "done"

ImplementsLedger == Ledger!Spec
=============================================================================
