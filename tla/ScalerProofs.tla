----------------------------- MODULE ScalerProofs -----------------------------
(***************************************************************************)
(* Proofs about the policy of the scaler, for every rate, every capacity   *)
(* of the control channel and every set of request counts.                 *)
(*                                                                         *)
(* The inductive invariant IInv adds to the types what the checks remember *)
(* of each other: a declared ceiling means the last check added nothing,   *)
(* a stall is counted from a worker count that exceeded the stop signals   *)
(* then under way, and while signals are under way every worker has passed *)
(* its select at most once since they were sent, which bounds the requests *)
(* that can have been counted.                                             *)
(***************************************************************************)
EXTENDS Scaler, TLAPS

\* A ceiling is only declared or kept by a check that adds no workers.
CeilingInv == capacityReached => added = 0

\* Workers are only added to a pool that has some, so the worker count a
\* stall goes back to is not zero; neither an addition nor a suspected stall
\* comes with signals to send.
StallInv ==
    /\ added > 0 => prevWorkers > 0 /\ removing = 0
    /\ stallCycles > 0 => stallStart > 0 /\ removing = 0

\* Additions stop below twice the rate, and workers only leave while a check
\* reads its counters.
WorkersInv ==
    /\ active + adding <= 2 * TotalRPS - 1
    /\ reading => active <= seen

\* While signals wait, a worker that passes its select takes one: no more
\* requests are counted than before the signals, plus one by every worker.
DrainInv ==
    pending > 0 =>
      100 * (n + active + adding - returning - 2 * TotalRPS) < 3 * TotalRPS

\* The signals, sent or still to be sent, never reach the worker count, nor
\* the count a stall would go back to.
SignalsInv ==
    /\ pending + removing < active + lost
    /\ added > 0 => pending < prevWorkers + lost
    /\ stallCycles > 0 => pending < stallStart + lost
    /\ reading /\ stallCycles > 0 => pending + seen < stallStart + active + lost

\* The count of workers a check has read is still right, or the window it
\* looks at was not over target when it read it.
SeenInv ==
    reading => \/ seen <= active + lost
               \/ 100 * (mark - 2 * TotalRPS) < 3 * TotalRPS

FreshInv == ~late => DrainInv /\ SignalsInv /\ SeenInv

IInv == TypeOK /\ CeilingInv /\ StallInv /\ WorkersInv /\ FreshInv

-----------------------------------------------------------------------------
\* Workers(x) are at most the quotient x * currentWorkers / n.
LEMMA WorkersBound ==
    ASSUME NEW x \in Int, n \in Nat, n > 0, currentWorkers \in Nat,
           NEW k \in Workers(x)
    PROVE  k \in Int /\ k * n <= x * currentWorkers
<1> DEFINE p == x * currentWorkers
           q == p \div n
<1>1. p \in Int
  OBVIOUS
<1>2. q \in Int /\ n * q <= p
  <2>1. ASSUME NEW a \in Int, NEW b \in Nat, b > 0
        PROVE  a \div b \in Int /\ b * (a \div b) <= a
    BY <2>1, SMT
  <2> QED BY <1>1, <2>1
<1>3. k = q \/ k = q - 1
  BY DEF Workers
<1> HIDE DEF p, q
<1>4. ASSUME NEW a \in Int, NEW b \in Int, NEW c \in Nat, c * a <= b,
             NEW d \in {a, a - 1}
      PROVE  d \in Int /\ d * c <= b
  <2>1. a * c = c * a /\ (a - 1) * c = c * a - c
    BY <1>4, SMT
  <2> QED BY <1>4, <2>1, SMT
<1> QED BY <1>1, <1>2, <1>3, <1>4 DEF p

\* A check below target does not revert and add at once, and what it adds is
\* within the cap.
LEMMA GrowthBound ==
    ASSUME TypeOK, StallUpdate, NEW up \in Growth
    PROVE  /\ up \in 0 .. maxScaleUp
           /\ up > 0 =>
                /\ Below /\ ~capacityReached' /\ stallCycles' = 0
                /\ reverted = 0 /\ currentWorkers = seen
                /\ 0 < seen /\ seen < TotalRPS /\ n > 0
           /\ up > 1 => (seen + up) * n <= 2 * TotalRPS * seen
<1> USE ScalerAssumption
<1>0. n \in Nat /\ seen \in Nat /\ stallStart \in Nat /\ TotalRPS \in Nat
      /\ maxScaleUp \in Nat \ {0}
  BY DEF TypeOK, maxScaleUp, Least
<1>1. CASE up = 0
  BY <1>0, <1>1
<1>2. CASE up # 0
  <2>1. PICK k \in Workers(2 * TotalRPS - n) :
             up = Greatest(1, Least(k, maxScaleUp))
    BY <1>2 DEF Growth
  <2>2. Below /\ ~capacityReached' /\ stallCycles' = 0 /\ n > 0
        /\ 0 < currentWorkers /\ currentWorkers < TotalRPS
    BY <1>2 DEF Growth
  <2>3. ~Confirmed
    BY <1>0, <2>2, ScalerAssumption DEF StallUpdate, ConfirmStall, Confirmed, Below, TypeOK
  <2>4. reverted = 0 /\ currentWorkers = seen
    BY <1>0, <2>3 DEF reverted, currentWorkers
  <2>5. k \in Int /\ k * n <= (2 * TotalRPS - n) * seen
    BY <1>0, <2>1, <2>2, <2>4, WorkersBound
  <2>6. up \in 1 .. maxScaleUp /\ (up > 1 => up <= k)
    BY <1>0, <2>1, <2>5 DEF Greatest, Least
  <2>7. up > 1 => (seen + up) * n <= 2 * TotalRPS * seen
    <3> SUFFICES ASSUME up > 1 PROVE (seen + up) * n <= 2 * TotalRPS * seen
      OBVIOUS
    <3>1. up * n <= k * n
      BY <1>0, <2>5, <2>6, SMT
    <3>2. (2 * TotalRPS - n) * seen = 2 * TotalRPS * seen - n * seen
      BY <1>0, SMT
    <3>3. (seen + up) * n = n * seen + up * n
      BY <1>0, <2>6, SMT
    <3> DEFINE a == up * n  b == k * n  c == n * seen
               d == 2 * TotalRPS * seen
    <3>4. a \in Int /\ b \in Int /\ c \in Int /\ d \in Int
      BY <1>0, <2>5, <2>6
    <3>5. a <= b /\ b <= d - c /\ (seen + up) * n = c + a
      BY <2>5, <3>1, <3>2, <3>3
    <3> HIDE DEF a, b, c, d
    <3>6. (seen + up) * n <= d
      BY <3>4, <3>5, SMT
    <3> QED BY <3>6 DEF d
  <2> QED BY <1>0, <2>2, <2>4, <2>6, <2>7
<1> QED BY <1>1, <1>2

\* A check over target does not revert, and signals at most a quarter.
LEMMA ShrinkageBound ==
    ASSUME TypeOK, NEW down \in Shrinkage
    PROVE  /\ down \in Nat
           /\ down > 0 =>
                /\ Over /\ ~Below /\ reverted = 0 /\ currentWorkers = seen
                /\ seen > KeepWorkers /\ down <= seen \div 4
                /\ (seen - down) * n >= 2 * TotalRPS * seen
<1> USE ScalerAssumption
<1>0. n \in Nat /\ seen \in Nat /\ stallStart \in Nat /\ TotalRPS \in Nat \ {0}
  BY DEF TypeOK
<1>1. CASE down = 0
  BY <1>1
<1>2. CASE down # 0
  <2>1. Over /\ currentWorkers > KeepWorkers
    BY <1>2 DEF Shrinkage
  <2>2. PICK k \in Workers(n - 2 * TotalRPS) :
             down = Greatest(0, Least(k, currentWorkers \div 4))
    BY <1>2, <2>1 DEF Shrinkage
  <2>3. ~Below /\ n > 0
    BY <1>0, <2>1 DEF Over, Below
  <2>4. reverted = 0 /\ currentWorkers = seen
    BY <1>0, <2>3 DEF reverted, currentWorkers, Confirmed
  <2>5. k \in Int /\ k * n <= (n - 2 * TotalRPS) * seen
    BY <1>0, <2>2, <2>3, <2>4, WorkersBound
  <2>6. seen \div 4 \in Nat
    BY <1>0
  <2>7. down \in Nat /\ down <= k /\ down <= seen \div 4
    BY <1>2, <2>2, <2>4, <2>5, <2>6 DEF Greatest, Least
  <2>8. (seen - down) * n >= 2 * TotalRPS * seen
    <3>1. down * n <= k * n
      BY <1>0, <2>5, <2>7, SMT
    <3>2. (n - 2 * TotalRPS) * seen = n * seen - 2 * TotalRPS * seen
      BY <1>0, SMT
    <3>3. (seen - down) * n = n * seen - down * n
      BY <1>0, <2>7, SMT
    <3> DEFINE a == down * n  b == k * n  c == n * seen
               d == 2 * TotalRPS * seen
    <3>4. a \in Int /\ b \in Int /\ c \in Int /\ d \in Int
      BY <1>0, <2>5, <2>7
    <3>5. a <= b /\ b <= c - d /\ (seen - down) * n = c - a
      BY <2>5, <3>1, <3>2, <3>3
    <3> HIDE DEF a, b, c, d
    <3>6. (seen - down) * n >= d
      BY <3>4, <3>5, SMT
    <3> QED BY <3>6 DEF d
  <2> QED BY <2>1, <2>3, <2>4, <2>7, <2>8
<1> QED BY <1>1, <1>2
-----------------------------------------------------------------------------
LEMMA InitInv == Init => IInv
<1> SUFFICES ASSUME Init PROVE IInv
  OBVIOUS
<1>1. /\ initialWorkers \in Nat \ {0} /\ maxScaleUp \in Nat /\ ControlCap \in Nat
      /\ initialWorkers <= 2 * TotalRPS - 1 /\ MaxLost \in Nat
  BY ScalerAssumption DEF initialWorkers, maxScaleUp, Least
<1>2. TypeOK
  <2>1. capacityReached \in BOOLEAN /\ reading \in BOOLEAN /\ late \in BOOLEAN
    BY DEF Init
  <2>2. /\ active \in Nat /\ pending \in 0 .. ControlCap
        /\ returning \in 0 .. active /\ n \in Nat /\ seen \in Nat
        /\ adding \in 0 .. maxScaleUp /\ removing \in Nat
        /\ (reading => adding = 0 /\ removing = 0)
        /\ prevN \in Nat /\ prevWorkers \in Nat /\ added \in 0 .. maxScaleUp
        /\ stallCycles \in 0 .. 2 /\ stallStart \in Nat /\ seconds \in 1 .. 3
        /\ mark \in 0 .. n /\ lost \in 0 .. MaxLost
    BY <1>1 DEF Init
  <2> QED BY <2>1, <2>2, Zenon DEF TypeOK
<1>3. CeilingInv /\ StallInv
  BY DEF Init, CeilingInv, StallInv
<1>4. WorkersInv /\ FreshInv
  BY <1>1 DEF Init, WorkersInv, FreshInv, DrainInv, SignalsInv, SeenInv
<1> QED BY <1>2, <1>3, <1>4 DEF IInv

LEMMA ServeInv == IInv /\ Serve => IInv'
<1> SUFFICES ASSUME IInv, Serve PROVE IInv'
  OBVIOUS
<1> USE ScalerAssumption DEF IInv
<1>0. /\ active \in Nat /\ pending \in Nat /\ returning \in 0 .. active /\ n \in Nat
      /\ lost \in 0 .. MaxLost /\ MaxLost \in Nat /\ TotalRPS \in Nat \ {0}
      /\ adding \in Nat /\ removing \in Nat /\ mark \in 0 .. n /\ seen \in Nat
      /\ prevWorkers \in Nat /\ stallStart \in Nat
      /\ (reading => adding = 0 /\ removing = 0)
  BY DEF TypeOK, maxScaleUp, Least
<1>1. PICK m \in Requests, d \in 0 .. Least(pending, active) :
        \E f \in 0 .. Least(active - d, MaxLost - lost) :
          \E u \in 0 .. Least(active - d - f, returning + m - n) :
            /\ m >= n
            /\ d = pending \/ returning + (m - n) <= d + f + u
            /\ Load(m, d, f, u)
  BY DEF Serve
<1>2. PICK f \in 0 .. Least(active - d, MaxLost - lost) :
        \E u \in 0 .. Least(active - d - f, returning + m - n) :
          /\ m >= n
          /\ d = pending \/ returning + (m - n) <= d + f + u
          /\ Load(m, d, f, u)
  BY <1>1
<1>3. PICK u \in 0 .. Least(active - d - f, returning + m - n) :
        /\ m >= n
        /\ d = pending \/ returning + (m - n) <= d + f + u
        /\ Load(m, d, f, u)
  BY <1>2
<1>4. /\ m \in Nat /\ d \in Nat /\ f \in Nat /\ u \in Nat
      /\ d <= pending /\ d + f <= active /\ lost + f <= MaxLost
      /\ u <= active - d - f /\ m >= n
      /\ d = pending \/ returning + (m - n) <= d + f + u
  <2>1. m \in Nat /\ d \in Nat /\ d <= pending /\ d <= active
    BY <1>0, <1>1 DEF Least
  <2>2. f \in Nat /\ f <= active - d /\ f <= MaxLost - lost
    BY <1>0, <1>2, <2>1 DEF Least
  <2>3. u \in Nat /\ u <= active - d - f
    BY <1>0, <1>3, <2>1, <2>2 DEF Least
  <2> QED BY <1>0, <1>3, <2>1, <2>2, <2>3
<1>5. /\ n' = m /\ active' = active - d - f /\ pending' = pending - d
      /\ lost' = lost + f /\ returning' = u
      /\ UNCHANGED <<reading, seen, adding, removing, mark, late>>
      /\ UNCHANGED <<prevN, prevWorkers, added, stallCycles, stallStart,
                     capacityReached, seconds>>
  BY <1>3 DEF Load, check, memory
<1>6. TypeOK'
  <2>1. /\ active' \in Nat /\ pending' \in 0 .. ControlCap
        /\ returning' \in 0 .. active' /\ n' \in Nat
        /\ mark' \in 0 .. n' /\ lost' \in 0 .. MaxLost
    BY <1>0, <1>4, <1>5 DEF TypeOK
  <2> QED BY <1>5, <2>1 DEF TypeOK, maxScaleUp, Least
<1>7. CeilingInv' /\ StallInv'
  BY <1>5 DEF CeilingInv, StallInv
<1>8. WorkersInv'
  BY <1>0, <1>4, <1>5 DEF WorkersInv
<1>9. ASSUME ~late'
      PROVE  (DrainInv /\ SignalsInv /\ SeenInv)'
  <2>0. DrainInv /\ SignalsInv /\ SeenInv
    BY <1>5, <1>9 DEF FreshInv
  <2>1. DrainInv'
    BY <1>0, <1>4, <1>5, <2>0 DEF DrainInv
  <2>2. SignalsInv'
    BY <1>0, <1>4, <1>5, <2>0 DEF SignalsInv
  <2>3. SeenInv'
    <3>1. CASE pending = 0
      BY <1>0, <1>4, <1>5, <2>0, <3>1 DEF SeenInv
    <3>2. CASE pending > 0 /\ reading
      BY <1>0, <1>4, <1>5, <2>0, <3>2 DEF SeenInv, DrainInv
    <3> QED BY <1>0, <1>5, <3>1, <3>2 DEF SeenInv
  <2> QED BY <2>1, <2>2, <2>3
<1> QED BY <1>6, <1>7, <1>8, <1>9 DEF FreshInv

LEMMA ReadWorkersInv == IInv /\ ReadWorkers => IInv'
<1> SUFFICES ASSUME IInv, ReadWorkers PROVE IInv'
  OBVIOUS
<1> USE ScalerAssumption DEF IInv
<1>0. /\ active \in Nat /\ pending \in Nat /\ n \in Nat /\ lost \in Nat
      /\ adding = 0 /\ removing = 0 /\ stallStart \in Nat /\ MaxLost \in Nat
  BY DEF TypeOK, ReadWorkers
<1>1. /\ reading' = TRUE /\ seen' = active /\ mark' = n
      /\ UNCHANGED <<active, pending, returning, n, lost, adding, removing, late>>
      /\ UNCHANGED <<prevN, prevWorkers, added, stallCycles, stallStart,
                     capacityReached, seconds>>
  BY DEF ReadWorkers, load, memory
<1>2. TypeOK'
  <2>1. reading' \in BOOLEAN /\ seen' \in Nat /\ mark' \in 0 .. n'
        /\ (reading' => adding' = 0 /\ removing' = 0)
    BY <1>0, <1>1
  <2> QED BY <1>1, <2>1 DEF TypeOK, maxScaleUp, Least
<1>3. CeilingInv' /\ StallInv'
  BY <1>1 DEF CeilingInv, StallInv
<1>4. WorkersInv'
  BY <1>0, <1>1 DEF WorkersInv
<1>5. FreshInv'
  BY <1>0, <1>1 DEF FreshInv, DrainInv, SignalsInv, SeenInv
<1> QED BY <1>2, <1>3, <1>4, <1>5

LEMMA AddWorkerInv == IInv /\ AddWorker => IInv'
<1> SUFFICES ASSUME IInv, AddWorker PROVE IInv'
  OBVIOUS
<1> USE ScalerAssumption DEF IInv
<1>0. /\ active \in Nat /\ pending \in Nat /\ n \in Nat /\ lost \in Nat
      /\ returning \in 0 .. active /\ adding \in 0 .. maxScaleUp /\ adding > 0
      /\ removing \in Nat /\ maxScaleUp \in Nat /\ TotalRPS \in Nat /\ ~reading
  BY DEF TypeOK, AddWorker, maxScaleUp, Least
<1>1. /\ active' = active + 1 /\ adding' = adding - 1
      /\ UNCHANGED <<pending, returning, n, lost, reading, seen, removing, mark,
                     late>>
      /\ UNCHANGED <<prevN, prevWorkers, added, stallCycles, stallStart,
                     capacityReached, seconds>>
  BY DEF AddWorker, memory
<1>2. TypeOK'
  <2>1. active' \in Nat /\ returning' \in 0 .. active' /\ adding' \in 0 .. maxScaleUp
        /\ ~reading' /\ (reading' => adding' = 0 /\ removing' = 0)
    BY <1>0, <1>1
  <2> QED BY <1>1, <2>1 DEF TypeOK, maxScaleUp, Least
<1>3. CeilingInv' /\ StallInv'
  BY <1>1 DEF CeilingInv, StallInv
<1>4. WorkersInv'
  BY <1>0, <1>1 DEF WorkersInv
<1>5. FreshInv'
  BY <1>0, <1>1 DEF FreshInv, DrainInv, SignalsInv, SeenInv
<1> QED BY <1>2, <1>3, <1>4, <1>5

\* A signal sent while the counts are fresh finds few requests counted.
LEMMA SendSignalInv == IInv /\ SendSignal => IInv'
<1> SUFFICES ASSUME IInv, SendSignal PROVE IInv'
  OBVIOUS
<1> USE ScalerAssumption DEF IInv
<1>0. /\ active \in Nat /\ pending \in 0 .. ControlCap /\ n \in Nat /\ lost \in Nat
      /\ returning \in Nat /\ adding \in Nat /\ removing \in Nat /\ removing > 0
      /\ TotalRPS \in Nat \ {0} /\ ControlCap \in Nat /\ ~reading /\ late \in BOOLEAN
      /\ prevWorkers \in Nat /\ stallStart \in Nat
  BY DEF TypeOK, SendSignal, maxScaleUp, Least
<1>1. UNCHANGED <<active, returning, n, lost, reading, seen, adding, mark>>
      /\ UNCHANGED <<prevN, prevWorkers, added, stallCycles, stallStart,
                     capacityReached, seconds>>
  BY DEF SendSignal, memory
<1>2. ~(added > 0) /\ ~(stallCycles > 0)
  BY <1>0 DEF StallInv
<1>3. CeilingInv' /\ StallInv'
  BY <1>1, <1>2 DEF CeilingInv, StallInv
<1>4. WorkersInv'
  BY <1>1 DEF WorkersInv
<1>5. CASE /\ pending < ControlCap
           /\ pending' = pending + 1 /\ removing' = removing - 1
           /\ late' = (late \/ ~Fresh(n))
  <2>1. TypeOK'
    <3>1. pending' \in 0 .. ControlCap /\ removing' \in Nat /\ late' \in BOOLEAN
          /\ (reading' => adding' = 0 /\ removing' = 0)
      BY <1>0, <1>1, <1>5
    <3> QED BY <1>1, <3>1 DEF TypeOK, maxScaleUp, Least
  <2>2. ASSUME ~late' PROVE (DrainInv /\ SignalsInv /\ SeenInv)'
    <3>1. Fresh(n) /\ ~late
      BY <1>5, <2>2
    <3>2. DrainInv'
      BY <1>0, <1>1, <1>5, <3>1 DEF DrainInv, Fresh, WorkersInv
    <3>3. SignalsInv' /\ SeenInv'
      BY <1>0, <1>1, <1>2, <1>5, <3>1 DEF SignalsInv, SeenInv, FreshInv
    <3> QED BY <3>2, <3>3
  <2> QED BY <1>3, <1>4, <2>1, <2>2 DEF FreshInv
<1>6. CASE pending = ControlCap /\ removing' = 0 /\ UNCHANGED <<pending, late>>
  <2>1. TypeOK'
    <3>1. removing' \in Nat /\ (reading' => adding' = 0 /\ removing' = 0)
      BY <1>0, <1>1, <1>6
    <3> QED BY <1>1, <1>6, <3>1 DEF TypeOK, maxScaleUp, Least
  <2>2. FreshInv'
    BY <1>0, <1>1, <1>2, <1>6 DEF FreshInv, DrainInv, SignalsInv, SeenInv
  <2> QED BY <1>3, <1>4, <2>1, <2>2
<1> QED BY <1>5, <1>6 DEF SendSignal

\* The stall detection keeps the types of its counters, goes back to a
\* positive count only, and lifts a ceiling in a window at target only.
LEMMA StallStep ==
    ASSUME IInv, StallUpdate
    PROVE  /\ capacityReached' \in BOOLEAN
           /\ stallCycles' \in 0 .. 2 /\ stallStart' \in Nat
           /\ stallCycles' > 0 => stallStart' > 0 /\ Below /\ ~Confirmed
           /\ ~late /\ stallCycles' > 0 => pending < stallStart' + lost
           /\ capacityReached /\ ~capacityReached' => ~Below
           /\ Confirmed => capacityReached' /\ stallStart > 0
<1>0. /\ stallCycles \in 0 .. 2 /\ stallStart \in Nat /\ prevWorkers \in Nat
      /\ capacityReached \in BOOLEAN /\ added \in Nat
      /\ stallCycles > 0 => stallStart > 0
      /\ added > 0 => prevWorkers > 0
      /\ ~late /\ stallCycles > 0 => pending < stallStart + lost
      /\ ~late /\ added > 0 => pending < prevWorkers + lost
      /\ capacityReached => added = 0
  BY ScalerAssumption
  DEF IInv, TypeOK, StallInv, CeilingInv, FreshInv, SignalsInv, maxScaleUp, Least
<1>1. CASE stallCycles > 0 /\ ~Below
  <2>1. stallCycles' = 0 /\ capacityReached' = FALSE /\ stallStart' = stallStart
    BY <1>0, <1>1 DEF StallUpdate, ConfirmStall, Confirmed
  <2>2. capacityReached' \in BOOLEAN
    BY <2>1
  <2>3. stallCycles' \in 0 .. 2 /\ stallStart' \in Nat /\ ~(stallCycles' > 0)
    BY <1>0, <2>1
  <2>4. ~Confirmed
    BY <1>1 DEF Confirmed
  <2> QED BY <1>1, <2>2, <2>3, <2>4, Zenon
<1>2. CASE stallCycles > 0 /\ Below /\ ~Confirmed
  <2>1. stallCycles' = stallCycles + 1 /\ stallStart' = stallStart
        /\ capacityReached' = capacityReached
    BY <1>0, <1>2 DEF StallUpdate, ConfirmStall
  <2>2. stallCycles = 1
    BY <1>0, <1>2 DEF Confirmed
  <2> QED BY <1>0, <1>2, <2>1, <2>2
<1>3. CASE Confirmed
  <2>1. stallCycles' = 0 /\ capacityReached' = TRUE /\ stallStart' = stallStart
    BY <1>0, <1>3 DEF StallUpdate, ConfirmStall, Confirmed
  <2> QED BY <1>0, <1>3, <2>1 DEF Confirmed
<1>4. CASE stallCycles = 0
  <2>1. ~Confirmed
    BY <1>4 DEF Confirmed
  <2>2. CASE added > 0 /\ prevN > 0 /\ Below /\ Stagnant
    <3>1. stallCycles' = 1 /\ stallStart' = prevWorkers
          /\ capacityReached' = capacityReached
      BY <1>4, <2>1, <2>2 DEF StallUpdate, ConfirmStall
    <3> QED BY <1>0, <2>1, <2>2, <3>1
  <2>3. CASE added > 0 /\ prevN > 0 /\ Below /\ ~Stagnant
    <3>1. stallCycles' = 0 /\ stallStart' = stallStart
          /\ capacityReached' = FALSE
      BY <1>4, <2>1, <2>3 DEF StallUpdate, ConfirmStall
    <3>2. ~capacityReached
      BY <1>0, <2>3
    <3>3. capacityReached' \in BOOLEAN
      BY <3>1
    <3>4. stallCycles' \in 0 .. 2 /\ stallStart' \in Nat /\ ~(stallCycles' > 0)
      BY <1>0, <3>1
    <3> QED BY <2>1, <3>2, <3>3, <3>4, Zenon
  <2>4. CASE ~Below
    <3>1. stallCycles' = 0 /\ stallStart' = stallStart
          /\ capacityReached' = FALSE
      BY <1>4, <2>1, <2>4 DEF StallUpdate, ConfirmStall
    <3>2. capacityReached' \in BOOLEAN
      BY <3>1
    <3>3. stallCycles' \in 0 .. 2 /\ stallStart' \in Nat /\ ~(stallCycles' > 0)
      BY <1>0, <3>1
    <3> QED BY <2>1, <2>4, <3>2, <3>3, Zenon
  <2>5. CASE Below /\ ~(added > 0 /\ prevN > 0)
    <3>1. stallCycles' = 0 /\ stallStart' = stallStart
          /\ capacityReached' = capacityReached
      BY <1>4, <2>1, <2>5 DEF StallUpdate, ConfirmStall
    <3> QED BY <1>0, <2>1, <3>1
  <2> QED BY <2>2, <2>3, <2>4, <2>5
<1>5. stallCycles > 0 \/ stallCycles = 0
  BY <1>0
<1> QED BY <1>1, <1>2, <1>3, <1>4, <1>5

\* What a check reverts leaves at least one of the workers it has seen, or it
\* reverts nothing.
LEMMA RevertBound ==
    ASSUME IInv, StallUpdate
    PROVE  /\ reverted \in Nat /\ currentWorkers \in Nat
           /\ reverted > 0 => /\ Below /\ Confirmed /\ capacityReached'
                              /\ reverted = seen - stallStart
                              /\ reverted <= seen - 1
<1>1. seen \in Nat /\ stallStart \in Nat
  BY DEF IInv, TypeOK
<1>2. Confirmed => Below /\ capacityReached' /\ stallStart > 0
  BY StallStep DEF Confirmed
<1> QED BY <1>1, <1>2 DEF reverted, currentWorkers, Greatest

LEMMA CheckInv == IInv /\ Check => IInv'
<1> SUFFICES ASSUME IInv, Check PROVE IInv'
  OBVIOUS
<1> USE ScalerAssumption
<1>0. TypeOK /\ reading /\ StallUpdate
  BY DEF IInv, Check
<1>1. PICK up \in Growth, down \in Shrinkage :
        adding' = up /\ removing' = reverted + down /\ added' = up
  BY DEF Check
<1>2. /\ n' = 0 /\ reading' = FALSE /\ seen' = 0 /\ mark' = 0
      /\ prevN' = n /\ prevWorkers' = currentWorkers
      /\ late' = (late \/ (removing' > 0 /\ ~Fresh(n - mark)))
      /\ seconds' = IF seconds = 3 THEN 1 ELSE 2
      /\ UNCHANGED <<active, pending, returning, lost>>
  BY DEF Check
<1>3. /\ active \in Nat /\ pending \in Nat /\ TotalRPS \in Nat \ {0}
      /\ lost \in Nat /\ n \in Nat /\ mark \in 0 .. n /\ seen \in Nat
      /\ returning \in 0 .. active /\ late \in BOOLEAN
      /\ adding = 0 /\ removing = 0 /\ maxScaleUp \in Nat /\ maxScaleUp <= TotalRPS
      /\ active <= 2 * TotalRPS - 1 /\ active <= seen
  BY <1>0 DEF IInv, TypeOK, WorkersInv, maxScaleUp, Least
<1>4. up \in 0 .. maxScaleUp
      /\ (up > 0 => /\ Below /\ ~capacityReached' /\ stallCycles' = 0
                    /\ reverted = 0 /\ currentWorkers = seen
                    /\ 0 < seen /\ seen < TotalRPS)
  BY <1>0, GrowthBound
<1>5. down \in Nat
      /\ (down > 0 => /\ Over /\ ~Below /\ reverted = 0 /\ currentWorkers = seen
                      /\ down <= seen \div 4)
  BY <1>0, ShrinkageBound
<1>6. /\ reverted \in Nat /\ currentWorkers \in Nat
      /\ reverted > 0 => Below /\ Confirmed /\ reverted = seen - stallStart
  BY <1>0, RevertBound
<1>7. /\ stallCycles' \in 0 .. 2 /\ stallStart' \in Nat
      /\ capacityReached' \in BOOLEAN
      /\ stallCycles' > 0 => stallStart' > 0 /\ Below /\ ~Confirmed
      /\ ~late /\ stallCycles' > 0 => pending < stallStart' + lost
  BY <1>0, StallStep
<1>8. up > 0 => removing' = 0
  <2>1. up > 0 => down = 0 /\ reverted = 0
    BY <1>4, <1>5
  <2> QED BY <1>1, <2>1
<1>9. TypeOK'
  <2>1. /\ adding' \in 0 .. maxScaleUp' /\ added' \in 0 .. maxScaleUp'
        /\ removing' \in Nat
    BY <1>1, <1>4, <1>5, <1>6 DEF maxScaleUp, Least
  <2>2. /\ active' \in Nat /\ pending' \in 0 .. ControlCap
        /\ returning' \in 0 .. active' /\ n' \in Nat /\ seen' \in Nat
        /\ prevN' \in Nat /\ prevWorkers' \in Nat
        /\ mark' \in 0 .. n' /\ lost' \in 0 .. MaxLost /\ seconds' \in 1 .. 3
    BY <1>0, <1>2, <1>3, <1>6 DEF TypeOK
  <2>3. reading' \in BOOLEAN /\ late' \in BOOLEAN /\ ~reading'
    BY <1>2, <1>3
  <2> QED BY <1>7, <2>1, <2>2, <2>3 DEF TypeOK
<1>10. CeilingInv'
  BY <1>1, <1>4, <1>3 DEF CeilingInv
<1>11. StallInv'
  <2>1. added' > 0 => prevWorkers' > 0 /\ removing' = 0
    BY <1>1, <1>2, <1>3, <1>4, <1>8
  <2>2. stallCycles' > 0 => removing' = 0
    <3>1. stallCycles' > 0 => reverted = 0 /\ down = 0
      BY <1>5, <1>6, <1>7
    <3> QED BY <1>1, <3>1
  <2> QED BY <1>7, <2>1, <2>2 DEF StallInv
<1>12. WorkersInv'
  BY <1>1, <1>2, <1>3, <1>4 DEF WorkersInv
<1>13. ASSUME ~late'
       PROVE  (DrainInv /\ SignalsInv /\ SeenInv)'
  <2>1. ~late /\ (removing' > 0 => Fresh(n - mark))
    BY <1>2, <1>13
  <2>2. /\ pending < active + lost
        /\ stallCycles > 0 => pending + seen < stallStart + active + lost
    BY <1>0, <1>3, <2>1 DEF IInv, FreshInv, SignalsInv
  <2>3. DrainInv'
    BY <1>1, <1>2, <1>3, <1>4 DEF DrainInv
  <2>4. pending' + removing' < active' + lost'
    <3>1. CASE down > 0
      <4>1. removing' = down /\ Over /\ Fresh(n - mark)
        BY <1>1, <1>5, <2>1, <3>1
      <4>2. pending = 0
        BY <1>3, <2>1, <4>1 DEF IInv, FreshInv, DrainInv, Over
      <4>3. seen <= active + lost
        BY <1>0, <1>3, <2>1, <4>1 DEF IInv, FreshInv, SeenInv, Over, Fresh
      <4>4. 4 * down <= seen
        <5>1. 4 * (seen \div 4) <= seen /\ seen \div 4 \in Nat
          BY <1>3
        <5> DEFINE q == seen \div 4
        <5>2. q \in Nat /\ 4 * q <= seen /\ down <= q
          BY <1>5, <3>1, <5>1
        <5> HIDE DEF q
        <5> QED BY <1>3, <1>5, <5>2
      <4> QED BY <1>2, <1>3, <1>5, <2>2, <3>1, <4>1, <4>2, <4>3, <4>4
    <3>2. CASE down = 0 /\ reverted > 0
      <4>1. stallCycles > 0 /\ stallStart \in Nat
        BY <1>0, <1>6, <3>2 DEF Confirmed, TypeOK
      <4> QED BY <1>1, <1>2, <1>3, <1>6, <2>2, <3>2, <4>1
    <3>3. CASE down = 0 /\ reverted = 0
      BY <1>1, <1>2, <1>3, <2>2, <3>3
    <3> QED BY <1>5, <1>6, <3>1, <3>2, <3>3
  <2>5. added' > 0 => pending' < prevWorkers' + lost'
    BY <1>1, <1>2, <1>3, <1>4, <2>2
  <2>6. stallCycles' > 0 => pending' < stallStart' + lost'
    BY <1>2, <1>7, <2>1
  <2> QED BY <1>2, <2>3, <2>4, <2>5, <2>6 DEF SignalsInv, SeenInv
<1> QED BY <1>9, <1>10, <1>11, <1>12, <1>13 DEF IInv, FreshInv

LEMMA StutterInv == IInv /\ UNCHANGED vars => IInv'
  BY DEF IInv, TypeOK, CeilingInv, StallInv, WorkersInv, FreshInv, DrainInv,
         SignalsInv, SeenInv, vars, load, check, memory, maxScaleUp, Least

\* The inductive invariant holds in every reachable state.
THEOREM Invariance == Spec => []IInv
<1>1. IInv /\ [Next]_vars => IInv'
  BY ServeInv, ReadWorkersInv, CheckInv, AddWorkerInv, SendSignalInv, StutterInv
  DEF Next, Scale
<1> QED BY InitInv, <1>1, PTL DEF Spec

\* The types: no check counts a stall past three cycles, adds more workers
\* than its cap, or begins before the one before has sent its signals.
THEOREM TypeCorrect == Spec => []TypeOK
<1>1. IInv => TypeOK
  BY DEF IInv
<1> QED BY Invariance, <1>1, PTL

\* Scale-downs and reverts that act on fresh counts never stop all the
\* workers, although each counts the workers already told to stop: a window
\* over target has more requests than workers can have counted with signals
\* waiting, so those have all been taken when the next scale-down is decided,
\* and a revert goes back to a worker count that was above the signals under
\* way when the stall began.
THEOREM FreshChecksKeep == Spec => []FreshChecksKeepPool
<1>1. IInv => FreshChecksKeepPool
  <2> SUFFICES ASSUME IInv, ~late PROVE pending < active + lost
    BY DEF FreshChecksKeepPool
  <2>1. active \in Nat /\ pending \in Nat /\ lost \in Nat /\ removing \in Nat
    BY ScalerAssumption DEF IInv, TypeOK
  <2> QED BY <2>1 DEF IInv, FreshInv, SignalsInv
<1> QED BY Invariance, <1>1, PTL

\* What a check of dynamicScaler does is within what WorkerPool allows one.
THEOREM Contract == Spec => ChecksWithinContract
<1>1. IInv /\ [Next]_vars =>
        [Check =>
         /\ adding' > 0 =>
              /\ seen \in 1 .. TotalRPS - 1
              /\ adding' <= maxScaleUp
              /\ removing' = 0
         /\ removing' > 0 =>
              \/ seen > KeepWorkers /\ removing' <= seen \div 4
              \/ removing' <= seen - 1 /\ capacityReached']_vars
  <2> SUFFICES ASSUME IInv, Check
               PROVE  /\ adding' > 0 =>
                           /\ seen \in 1 .. TotalRPS - 1
                           /\ adding' <= maxScaleUp
                           /\ removing' = 0
                      /\ removing' > 0 =>
                           \/ seen > KeepWorkers /\ removing' <= seen \div 4
                           \/ removing' <= seen - 1 /\ capacityReached'
    OBVIOUS
  <2> USE ScalerAssumption
  <2>0. TypeOK /\ StallUpdate /\ seen \in Nat /\ maxScaleUp \in Nat
        /\ TotalRPS \in Nat
    BY DEF IInv, Check, TypeOK, maxScaleUp, Least
  <2>1. PICK up \in Growth, down \in Shrinkage :
          adding' = up /\ removing' = reverted + down
    BY DEF Check
  <2>2. /\ up \in 0 .. maxScaleUp
        /\ up > 0 => Below /\ reverted = 0 /\ 0 < seen /\ seen < TotalRPS
    BY <2>0, GrowthBound
  <2>3. /\ down \in Nat
        /\ down > 0 => ~Below /\ reverted = 0 /\ seen > KeepWorkers
                       /\ down <= seen \div 4
    BY <2>0, ShrinkageBound
  <2>4. /\ reverted \in Nat
        /\ reverted > 0 => capacityReached' /\ reverted <= seen - 1
    BY <2>0, RevertBound
  <2>5. adding' > 0 => seen \in 1 .. TotalRPS - 1 /\ adding' <= maxScaleUp
                       /\ removing' = 0
    <3>1. up > 0 => down = 0 /\ reverted = 0
      BY <2>2, <2>3
    <3> QED BY <2>0, <2>1, <2>2, <3>1
  <2>6. CASE down > 0
    BY <2>1, <2>3, <2>5, <2>6
  <2>7. CASE down = 0
    BY <2>1, <2>4, <2>5, <2>7
  <2> QED BY <2>3, <2>6, <2>7
<1> QED BY Invariance, <1>1, PTL DEF Spec, ChecksWithinContract

\* A ceiling the stall detection has declared is lifted by a window at target
\* only: the branch that lifts it below target needs workers added by the
\* check before, and a check under a ceiling adds none.
THEOREM CeilingKept == Spec => CeilingLiftedAtTarget
<1>1. IInv /\ [Next]_vars =>
        [capacityReached /\ ~capacityReached' => ~Below]_vars
  <2>1. ASSUME IInv, Check
        PROVE  capacityReached /\ ~capacityReached' => ~Below
    BY <2>1, StallStep DEF Check
  <2>2. ASSUME Serve PROVE capacityReached' = capacityReached
    BY <2>2 DEF Serve, Load, memory
  <2>3. ASSUME ReadWorkers \/ AddWorker \/ SendSignal
        PROVE  capacityReached' = capacityReached
    BY <2>3 DEF ReadWorkers, AddWorker, SendSignal, memory
  <2> QED BY <2>1, <2>2, <2>3 DEF Next, Scale
<1> QED BY Invariance, <1>1, PTL DEF Spec, CeilingLiftedAtTarget

\* The rounding of the estimate never carries a check past the target.
THEOREM Estimate == Spec => NoProjectedOvershoot
<1>1. IInv /\ [Next]_vars =>
        [Check =>
         /\ adding' > 1 => (seen + adding') * n <= 2 * TotalRPS * seen
         /\ removing' > 0 /\ Over =>
              (seen - removing') * n >= 2 * TotalRPS * seen]_vars
  <2> SUFFICES ASSUME IInv, Check
               PROVE  /\ adding' > 1 =>
                           (seen + adding') * n <= 2 * TotalRPS * seen
                      /\ removing' > 0 /\ Over =>
                           (seen - removing') * n >= 2 * TotalRPS * seen
    OBVIOUS
  <2>0. TypeOK /\ StallUpdate /\ n \in Nat /\ TotalRPS \in Nat
    BY ScalerAssumption DEF IInv, Check, TypeOK
  <2>1. PICK up \in Growth, down \in Shrinkage :
          adding' = up /\ removing' = reverted + down
    BY DEF Check
  <2>2. up > 1 => (seen + up) * n <= 2 * TotalRPS * seen
    BY <2>0, GrowthBound
  <2>3. /\ down \in Nat
        /\ down > 0 => (seen - down) * n >= 2 * TotalRPS * seen
    BY <2>0, ShrinkageBound
  <2>4. reverted \in Nat /\ (reverted > 0 => Below)
    BY <2>0, RevertBound
  <2>5. Over => ~Below
    BY <2>0 DEF Over, Below
  <2>6. ASSUME removing' > 0, Over
        PROVE  removing' = down /\ down > 0
    BY <2>1, <2>3, <2>4, <2>5, <2>6
  <2>7. removing' > 0 /\ Over => (seen - removing') * n >= 2 * TotalRPS * seen
    BY <2>3, <2>6, Zenon
  <2> QED BY <2>1, <2>2, <2>7, Zenon
<1> QED BY Invariance, <1>1, PTL DEF Spec, NoProjectedOvershoot
===============================================================================
