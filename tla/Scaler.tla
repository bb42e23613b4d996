------------------------------- MODULE Scaler -------------------------------
(***************************************************************************)
(* The policy of dynamicScaler (internal/engine/pool/scaler.go): what one  *)
(* check concludes from the requests of the last window, and what it does  *)
(* about stalls.  It refines the free choice of the checks in WorkerPool;  *)
(* shutdown is there.                                                      *)
(*                                                                         *)
(* A check reads activeWorkers, then requestCounter, may block in a log    *)
(* write, and only then adds workers or sends stop signals, one by one:    *)
(* the workers run on between any two of these steps.                      *)
(*                                                                         *)
(* The code divides the requests n of a window by 2.0 to get actualRPS.    *)
(* All its comparisons are made here on integers, multiplied out: they are *)
(* comparisons of correctly rounded quotients of small integers.           *)
(***************************************************************************)
EXTENDS Integers

CONSTANTS
    TotalRPS,     \* sum of the RPS of the targets
    ControlCap,   \* 1000: capacity of workerControl
    InitialCap,   \* 10: most workers a run starts with
    KeepWorkers,  \* 10: up to as many workers are not scaled down
    Requests,     \* the numbers of requests a window may count
    MaxLost,      \* bound: workers that leave without a stop signal
    PerWorker     \* requests per second of one worker, for LinearSpec

ASSUME ScalerAssumption ==
    /\ TotalRPS \in Nat \ {0} /\ ControlCap \in Nat \ {0}
    /\ InitialCap \in Nat \ {0} /\ KeepWorkers \in Nat \ {0}
    /\ PerWorker \in Nat \ {0} /\ Requests \subseteq Nat /\ MaxLost \in Nat

VARIABLES
    active,           \* Pool.activeWorkers
    pending,          \* stop signals in workerControl
    returning,        \* workers that counted a request, not yet at the select
    n,                \* requests counted since the last check read the counter
    reading,          \* a check has read activeWorkers, not yet requestCounter
    seen,             \* the activeWorkers it read; 0 when not reading
    adding,           \* workers the check has still to add
    removing,         \* stop signals the check has still to send
    prevN,            \* 2 * prevRPS
    prevWorkers,      \* prevWorkerCount
    added,            \* workersAddedLastCycle
    stallCycles,
    stallStart,       \* stallStartWorkerCount
    capacityReached,
    seconds,          \* real length of the window, for LinearSpec
    mark,             \* history: n when activeWorkers was read
    lost,             \* history: workers that left without a stop signal
    late              \* history: a check acted on counts that were not fresh

load    == <<active, pending, returning, n, lost>>
check   == <<reading, seen, adding, removing, mark, late>>
memory  == <<prevN, prevWorkers, added, stallCycles, stallStart,
             capacityReached, seconds>>
vars == <<load, check, memory>>

Least(a, b)    == IF a <= b THEN a ELSE b
Greatest(a, b) == IF a >= b THEN a ELSE b

initialWorkers == Least(TotalRPS, InitialCap)
maxScaleUp     == Least(500, TotalRPS)

\* The ticker ticks at 2s, 4s, 6s ..., but the first tick is received at 3s,
\* after the calibration sleep: the windows are of 3s, 1s, 2s, 2s, ...
Init ==
    /\ active = initialWorkers /\ pending = 0 /\ returning = 0 /\ n = 0
    /\ reading = FALSE /\ seen = 0 /\ adding = 0 /\ removing = 0
    /\ prevN = 0 /\ prevWorkers = 0 /\ added = 0
    /\ stallCycles = 0 /\ stallStart = 0 /\ capacityReached = FALSE
    /\ seconds = 3 /\ mark = 0 /\ lost = 0 /\ late = FALSE

-----------------------------------------------------------------------------
(* The workers, at any time *)

\* The count of requests reaches m, d workers take a stop signal, f leave
\* without one, and then u are between counting a request and the select.
Load(m, d, f, u) ==
    /\ n' = m /\ active' = active - d - f /\ pending' = pending - d
    /\ lost' = lost + f /\ returning' = u
    /\ UNCHANGED <<check, memory>>

\* A worker that has counted a request comes back to its select, where it
\* takes a signal if there is one.  It leaves without one when the wait for a
\* token fails or the context has ended.
Serve ==
    \E m \in Requests, d \in 0 .. Least(pending, active) :
      \E f \in 0 .. Least(active - d, MaxLost - lost) :
        \E u \in 0 .. Least(active - d - f, returning + m - n) :
          /\ m >= n
          /\ active = 0 => m = n
          /\ d = pending \/ returning + (m - n) <= d + f + u
          /\ Load(m, d, f, u)

\* A server that gives every worker PerWorker requests per second, with no
\* ceiling, and workers that take their signals within the window.
LinearWindow ==
    LET taken == Least(pending, active)
    IN  /\ n = 0 /\ ~reading /\ adding = 0 /\ removing = 0
        /\ Load(Least(TotalRPS, (active - taken) * PerWorker) * seconds,
                taken, 0, 0)

-----------------------------------------------------------------------------
(* One check *)

\* performanceRatio < 0.98 and > 1.03, improvement < 0.02
Below    == 100 * n < 196 * TotalRPS
Over     == 100 * n > 206 * TotalRPS
Stagnant == 100 * (n - prevN) < 2 * prevN

\* A third cycle in a row below target after a stagnant scale-up.
Confirmed == stallCycles >= 2 /\ Below

\* Mutant: stallCycles is not reset, so that the next check confirms again.
ConfirmStallForEver ==
    /\ Confirmed
    /\ stallCycles' = 2 /\ capacityReached' = TRUE
    /\ UNCHANGED stallStart

ConfirmStall ==
    /\ Confirmed
    /\ stallCycles' = 0 /\ capacityReached' = TRUE
    /\ UNCHANGED stallStart

\* The stall detection, case by case.
StallUpdate ==
    \/ /\ stallCycles > 0 /\ ~Below
       /\ stallCycles' = 0 /\ capacityReached' = FALSE
       /\ UNCHANGED stallStart
    \/ /\ stallCycles > 0 /\ Below /\ ~Confirmed
       /\ stallCycles' = stallCycles + 1
       /\ UNCHANGED <<stallStart, capacityReached>>
    \/ ConfirmStall
    \/ /\ stallCycles = 0 /\ added > 0 /\ prevN > 0 /\ Below /\ Stagnant
       /\ stallCycles' = 1 /\ stallStart' = prevWorkers
       /\ UNCHANGED capacityReached
    \/ /\ stallCycles = 0 /\ added > 0 /\ prevN > 0 /\ Below /\ ~Stagnant
       /\ capacityReached' = FALSE
       /\ UNCHANGED <<stallCycles, stallStart>>
    \/ /\ stallCycles = 0 /\ ~Below
       /\ capacityReached' = FALSE
       /\ UNCHANGED <<stallCycles, stallStart>>
    \/ /\ stallCycles = 0 /\ Below /\ ~(added > 0 /\ prevN > 0)
       /\ UNCHANGED <<stallCycles, stallStart, capacityReached>>

\* Workers a confirmed stall takes back, and currentWorkers after that.
reverted       == IF Confirmed THEN Greatest(0, seen - stallStart) ELSE 0
currentWorkers == seen - reverted

\* Mutant: requests per window taken for requests per second.
WorkersPerSecond(x) == {(x * currentWorkers) \div Greatest(1, n \div 2)}

\* int(x / rpsPerWorker), with x the deficit or excess: where the exact
\* quotient is an integer the rounded one may fall just short of it.
Workers(x) ==
    LET exact == (x * currentWorkers) \div n
    IN  IF (x * currentWorkers) % n = 0 THEN {exact - 1, exact} ELSE {exact}

\* Mutant: the cap on the workers added per check is dropped.
GrowthUncapped ==
    IF /\ Below /\ ~capacityReached' /\ stallCycles' = 0
       /\ 0 < currentWorkers /\ currentWorkers < TotalRPS /\ n > 0
      THEN {Greatest(1, k) : k \in Workers(2 * TotalRPS - n)}
      ELSE {0}

\* The numbers of workers the scale-up branch may add: none when it is not
\* taken, when there are as many workers as TotalRPS, or when none is useful.
Growth ==
    IF /\ Below /\ ~capacityReached' /\ stallCycles' = 0
       /\ 0 < currentWorkers /\ currentWorkers < TotalRPS /\ n > 0
      THEN {Greatest(1, Least(k, maxScaleUp)) : k \in Workers(2 * TotalRPS - n)}
      ELSE {0}

\* Mutant: the limit of a quarter is dropped.
ShrinkageUncapped ==
    IF Over /\ currentWorkers > KeepWorkers
      THEN {Greatest(0, k) : k \in Workers(n - 2 * TotalRPS)}
      ELSE {0}

\* The numbers of workers the scale-down branch may signal.
Shrinkage ==
    IF Over /\ currentWorkers > KeepWorkers
      THEN {Greatest(0, Least(k, currentWorkers \div 4)) :
              k \in Workers(n - 2 * TotalRPS)}
      ELSE {0}

\* Fresh counts: since they were read, x requests have ended, no more than are
\* due in three hundredths of a second at TotalRPS.
Fresh(x) == 100 * x <= 3 * TotalRPS

\* The first of the two counters is read.
ReadWorkers ==
    /\ ~reading /\ adding = 0 /\ removing = 0
    /\ reading' = TRUE /\ seen' = active /\ mark' = n
    /\ UNCHANGED <<load, adding, removing, late, memory>>

\* Mutant: workersAddedLastCycle is not reset at a check that adds nothing.
CheckKeepsAdded ==
    /\ reading
    /\ StallUpdate
    /\ \E up \in Growth, down \in Shrinkage :
         /\ adding' = up /\ removing' = reverted + down
         /\ added' = IF up > 0 THEN up ELSE added
    /\ prevN' = n /\ prevWorkers' = currentWorkers
    /\ n' = 0 /\ reading' = FALSE /\ seen' = 0 /\ mark' = 0
    /\ late' = (late \/ (removing' > 0 /\ ~Fresh(n - mark)))
    /\ seconds' = IF seconds = 3 THEN 1 ELSE 2
    /\ UNCHANGED <<active, pending, returning, lost>>

\* The second counter is read, and all is decided.
Check ==
    /\ reading
    /\ StallUpdate
    /\ \E up \in Growth, down \in Shrinkage :
         /\ adding' = up /\ removing' = reverted + down
         /\ added' = up
    /\ prevN' = n /\ prevWorkers' = currentWorkers
    /\ n' = 0 /\ reading' = FALSE /\ seen' = 0 /\ mark' = 0
    /\ late' = (late \/ (removing' > 0 /\ ~Fresh(n - mark)))
    /\ seconds' = IF seconds = 3 THEN 1 ELSE 2
    /\ UNCHANGED <<active, pending, returning, lost>>

\* One iteration of addWorkers.
AddWorker ==
    /\ adding > 0
    /\ active' = active + 1 /\ adding' = adding - 1
    /\ UNCHANGED <<pending, returning, n, lost, reading, seen, removing, mark,
                   late, memory>>

\* One iteration of removeWorkers: a full channel ends the loop.
SendSignal ==
    /\ removing > 0
    /\ \/ /\ pending < ControlCap
          /\ pending' = pending + 1 /\ removing' = removing - 1
          /\ late' = (late \/ ~Fresh(n))
       \/ /\ pending = ControlCap
          /\ removing' = 0 /\ UNCHANGED <<pending, late>>
    /\ UNCHANGED <<active, returning, n, lost, reading, seen, adding, mark,
                   memory>>

-----------------------------------------------------------------------------
Scale == ReadWorkers \/ Check \/ AddWorker \/ SendSignal

Next       == Serve \/ Scale
LinearNext == LinearWindow \/ (n > 0 /\ (ReadWorkers \/ Check))
                \/ AddWorker \/ SendSignal

Spec       == Init /\ [][Next]_vars
LinearSpec == Init /\ [][LinearNext]_vars

-----------------------------------------------------------------------------
(* Properties *)

\* Every variable has its type; a stall is never counted past three, and a
\* check is done with one adjustment before the next begins.
TypeOK ==
    /\ active \in Nat /\ pending \in 0 .. ControlCap
    /\ returning \in 0 .. active /\ n \in Nat
    /\ reading \in BOOLEAN /\ seen \in Nat
    /\ adding \in 0 .. maxScaleUp /\ removing \in Nat
    /\ reading => adding = 0 /\ removing = 0
    /\ prevN \in Nat /\ prevWorkers \in Nat /\ added \in 0 .. maxScaleUp
    /\ stallCycles \in 0 .. 2 /\ stallStart \in Nat
    /\ capacityReached \in BOOLEAN /\ seconds \in 1 .. 3
    /\ mark \in 0 .. n /\ lost \in 0 .. MaxLost /\ late \in BOOLEAN

\* As long as no check was delayed between reading the counters and its last
\* stop signal, the signals under way are fewer than the workers, but for
\* those lost to a failed wait: successive scale-downs and reverts, each
\* decided on a count that still includes the workers already told to stop,
\* do not empty the pool.
FreshChecksKeepPool == ~late => pending < active + lost

\* What WorkerPool lets a check do: add within the cap, and only with fewer
\* workers than TotalRPS; signal a quarter of more than KeepWorkers when over
\* target; or revert, and then leave at least one of those it has seen.
ChecksWithinContract ==
    [][Check =>
         /\ adding' > 0 =>
              /\ seen \in 1 .. TotalRPS - 1
              /\ adding' <= maxScaleUp
              /\ removing' = 0
         /\ removing' > 0 =>
              \/ seen > KeepWorkers /\ removing' <= seen \div 4
              \/ removing' <= seen - 1 /\ capacityReached']_vars

\* A declared capacity ceiling is lifted only by a window at target: in
\* particular not by scaling that was under way when it was declared.
CeilingLiftedAtTarget ==
    [][capacityReached /\ ~capacityReached' => ~Below]_vars

\* By the check's own estimate, n requests from currentWorkers, it neither
\* adds more than one worker past the target nor goes below it by removing.
NoProjectedOvershoot ==
    [][Check =>
         /\ adding' > 1 => (seen + adding') * n <= 2 * TotalRPS * seen
         /\ removing' > 0 /\ Over =>
              (seen - removing') * n >= 2 * TotalRPS * seen]_vars

\* What the warning of a revert announces, "Reverting %d workers to %d total",
\* and the comment on scale-down, "keep minimum": the pool is not emptied,
\* however late a check gets to send its signals.  (An empty pool stays
\* empty: the scale-up branch needs a worker to estimate from.)
PoolNeverEmptied == active + lost > 0

\* What the comment on stall detection says, "we added workers but RPS didn't
\* improve", with three cycles "to avoid false positives": against a server
\* that does more with every worker, no ceiling is ever declared.
NoFalseCeiling == ~capacityReached
=============================================================================
