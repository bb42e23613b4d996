--------------------------- MODULE CollectorProofs ---------------------------
(***************************************************************************)
(* Proofs about the collector, for any latencies, codes, messages and size *)
(* of the reservoir and any bounds: the totals, the breakdowns and the     *)
(* reservoir agree with one another, and the summary agrees with them.     *)
(***************************************************************************)
EXTENDS Collector, ArithmeticTheorems

\* A result has a duration among the latencies, whatever the engine.
LEMMA ResultLatency ==
  ASSUME NEW r \in Results(engine), engine \in {"http", "kafka", "grpc"}
  PROVE  r.duration \in Latencies
BY Zenon DEF Results, HTTPResults, KafkaResults, GRPCResults, Latencies

\* The latencies are numbers, and smaller than the sentinel.
LEMMA LatencyRange ==
  /\ Latencies \subseteq Nat
  /\ Forever \in Nat
BY CollectorAssumption DEF Latencies

\* The bounds are updated within their types.
LEMMA BoundTypes ==
  ASSUME NEW d \in Latencies
  PROVE  /\ \A m \in Latencies \cup {Forever} :
              Lower(m, d) \in Latencies \cup {Forever}
         /\ \A m \in Latencies : Higher(m, d) \in Latencies
BY DEF Lower, Higher

\* One more at one place of a table of counts.
LEMMA CountMore ==
  ASSUME NEW S, NEW f \in [S -> Nat], NEW x
  PROVE  [f EXCEPT ![x] = @ + 1] \in [S -> Nat]
<1>1. CASE x \in S
  BY <1>1
<1>2. CASE x \notin S
  BY <1>2
<1> QED
  BY <1>1, <1>2

\* The protocol of a run does not change.
EngineOK == engine \in {"http", "kafka", "grpc"}

\* TypeOK with the protocol of the run, which decides the shape of a result.
TInv == TypeOK /\ EngineOK

LEMMA TypesInit == Init => TInv
BY LatencyRange DEF Init, TInv, TypeOK, EngineOK, EmptyInterval, Counts, Latencies

\* Whatever it does with the latency, the reservoir stays a bag of latencies,
\* and it gains at most that one.
LEMMA ReservoirStep ==
  ASSUME samples \in [Latencies -> Nat], NEW d \in Latencies, AddLatencySample(d)
  PROVE  /\ samples' \in [Latencies -> Nat]
         /\ samples'[d] <= samples[d] + 1
         /\ \A x \in Latencies \ {d} : samples'[x] <= samples[x]
<1>1. CASE samples' = [samples EXCEPT ![d] = @ + 1]
  BY <1>1
<1>2. CASE UNCHANGED samples
  BY <1>2
<1>3. CASE \E old \in {x \in Latencies : samples[x] > 0} :
             samples' = [[samples EXCEPT ![old] = @ - 1] EXCEPT ![d] = @ + 1]
  <2>1. PICK old \in Latencies :
             /\ samples[old] > 0
             /\ samples' = [[samples EXCEPT ![old] = @ - 1] EXCEPT ![d] = @ + 1]
    BY <1>3
  <2>2. [samples EXCEPT ![old] = @ - 1] \in [Latencies -> Nat]
    BY <2>1
  <2> QED
    BY <2>1, <2>2
<1> QED
  BY <1>1, <1>2, <1>3 DEF AddLatencySample

\* The counts keep their types.
LEMMA CountTypes ==
  ASSUME TypeOK, NEW r, CountResult(r)
  PROVE  /\ {totalRequests', successRequests', failedRequests'} \subseteq Nat
         /\ statusCodes' \in [StatusCodes -> Nat] /\ errors' \in [Errs -> Nat]
<1>1. CASE r.error # Nil
  BY <1>1, CountMore DEF TypeOK, CountResult
<1>2. CASE r.error = Nil
  BY <1>2, CountMore DEF TypeOK, CountResult
<1> QED
  BY <1>1, <1>2

LEMMA TypesStep == TInv /\ [Next]_vars => TInv'
<1> SUFFICES ASSUME TInv, [Next]_vars PROVE TInv'
  OBVIOUS
<1> USE DEF TInv, EngineOK
<1>1. CASE CollectResult
  <2>1. PICK r \in Results(engine) :
          /\ CountResult(r)
          /\ minLatency' = Lower(minLatency, r.duration)
          /\ maxLatency' = Higher(maxLatency, r.duration)
          /\ interval' =
               [requests |-> interval.requests + 1,
                success  |-> interval.success + (IF r.error # Nil THEN 0 ELSE 1),
                failure  |-> interval.failure + (IF r.error # Nil THEN 1 ELSE 0),
                min      |-> Lower(interval.min, r.duration),
                max      |-> Higher(interval.max, r.duration),
                total    |-> interval.total + r.duration]
          /\ AddLatencySample(r.duration)
          /\ seen' = [seen EXCEPT ![r.duration] = @ + 1]
    BY <1>1 DEF CollectResult
  <2>2. r.duration \in Latencies
    BY <2>1, ResultLatency
  <2>3. /\ {totalRequests', successRequests', failedRequests'} \subseteq Nat
        /\ statusCodes' \in [StatusCodes -> Nat] /\ errors' \in [Errs -> Nat]
    BY <2>1, CountTypes
  <2>4. /\ minLatency' \in Latencies \cup {Forever}
        /\ maxLatency' \in Latencies
    BY <2>1, <2>2, BoundTypes, Zenon DEF TypeOK
  <2>5. samples' \in [Latencies -> Nat] /\ seen' \in [Latencies -> Nat]
    <3>1. samples' \in [Latencies -> Nat]
      BY <2>1, <2>2, ReservoirStep DEF TypeOK
    <3>2. seen' \in [Latencies -> Nat]
      BY <2>1, CountMore DEF TypeOK
    <3> QED
      BY <3>1, <3>2
  <2>6. interval' \in [requests : Nat, success : Nat, failure : Nat,
                       min : Latencies \cup {Forever}, max : Latencies, total : Nat]
    <3>1. /\ interval.min \in Latencies \cup {Forever}
          /\ interval.max \in Latencies
          /\ interval.requests \in Nat /\ interval.success \in Nat
          /\ interval.failure \in Nat /\ interval.total \in Nat
      BY DEF TypeOK
    <3>2. /\ Lower(interval.min, r.duration) \in Latencies \cup {Forever}
          /\ Higher(interval.max, r.duration) \in Latencies
      BY <3>1, <2>2, BoundTypes, Zenon
    <3>3. /\ interval.requests + 1 \in Nat
          /\ interval.success + (IF r.error # Nil THEN 0 ELSE 1) \in Nat
          /\ interval.failure + (IF r.error # Nil THEN 1 ELSE 0) \in Nat
          /\ interval.total + r.duration \in Nat
      <4>1. interval.requests + 1 \in Nat
        BY <3>1
      <4>2. interval.success + (IF r.error # Nil THEN 0 ELSE 1) \in Nat
        BY <3>1
      <4>3. interval.failure + (IF r.error # Nil THEN 1 ELSE 0) \in Nat
        BY <3>1
      <4>4. interval.total + r.duration \in Nat
        <5>1. r.duration \in Nat
          BY <2>2, LatencyRange, Zenon
        <5>2. interval.total \in Nat
          BY <3>1
        <5> QED
          BY <5>1, <5>2
      <4> QED
        BY <4>1, <4>2, <4>3, <4>4
    <3> QED
      BY <2>1, <3>2, <3>3, Zenon
  <2>7. UNCHANGED <<engine, workerSamples, shown>>
    BY <1>1 DEF CollectResult
  <2> QED
    BY <2>3, <2>4, <2>5, <2>6, <2>7 DEF TypeOK
<1>2. CASE Tick
  <2>1. workerSamples' \in [sum : Nat, count : Nat]
    BY <1>2, CollectorAssumption DEF Tick, TypeOK
  <2>2. shown' \in Counts
    BY <1>2 DEF Tick, OnInterval, TypeOK, Counts
  <2>3. interval' \in [requests : Nat, success : Nat, failure : Nat,
                       min : Latencies \cup {Forever}, max : Latencies, total : Nat]
    BY <1>2, LatencyRange DEF Tick, EmptyInterval, Latencies
  <2> QED
    BY <1>2, <2>1, <2>2, <2>3 DEF Tick, TypeOK, statVars
<1>3. CASE Finalize
  BY <1>3 DEF Finalize, TypeOK, Latencies
<1>4. CASE Finished \/ UNCHANGED vars
  BY <1>4 DEF Finished, vars, statVars, TypeOK, Counts
<1> QED
  BY <1>1, <1>2, <1>3, <1>4 DEF Next

\* Every variable keeps its type: no count of the collector falls below zero,
\* and no latency bound leaves the latencies and the sentinel.
THEOREM CollectorTypes == Spec => []TypeOK
<1>1. TInv => TypeOK
  BY DEF TInv
<1> QED
  BY <1>1, TypesInit, TypesStep, PTL DEF Spec

-----------------------------------------------------------------------------
(* The totals *)

LEMMA TotalsInit == Init => LiveTotalsAgree
BY DEF Init, LiveTotalsAgree, EmptyInterval

LEMMA TotalsStep == TInv /\ LiveTotalsAgree /\ [Next]_vars => LiveTotalsAgree'
<1> SUFFICES ASSUME TInv, LiveTotalsAgree, [Next]_vars PROVE LiveTotalsAgree'
  OBVIOUS
<1>1. /\ totalRequests \in Nat /\ successRequests \in Nat /\ failedRequests \in Nat
      /\ interval.requests \in Nat /\ interval.success \in Nat
      /\ interval.failure \in Nat
      /\ shown.requests \in Nat /\ shown.success \in Nat /\ shown.failure \in Nat
  BY DEF TInv, TypeOK, Counts
<1>2. CASE CollectResult
  <2>1. PICK r \in Results(engine) :
          /\ CountResult(r)
          /\ interval'.requests = interval.requests + 1
          /\ interval'.success = interval.success + (IF r.error # Nil THEN 0 ELSE 1)
          /\ interval'.failure = interval.failure + (IF r.error # Nil THEN 1 ELSE 0)
    BY <1>2 DEF CollectResult
  <2>2. shown' = shown
    BY <1>2 DEF CollectResult
  <2>3. CASE r.error # Nil
    <3>1. /\ interval'.requests = interval.requests + 1
          /\ interval'.success = interval.success
          /\ interval'.failure = interval.failure + 1
      BY <2>1, <2>3, <1>1
    <3>2. /\ totalRequests' = totalRequests + 1
          /\ successRequests' = successRequests
          /\ failedRequests' = failedRequests + 1
      BY <2>1, <2>3 DEF CountResult
    <3> QED
      BY <3>1, <3>2, <2>2, <1>1 DEF LiveTotalsAgree
  <2>4. CASE r.error = Nil
    BY <2>1, <2>2, <2>4, <1>1 DEF CountResult, LiveTotalsAgree
  <2> QED
    BY <2>3, <2>4
<1>3. CASE Tick
  BY <1>1, <1>3 DEF Tick, OnInterval, EmptyInterval, statVars, LiveTotalsAgree
<1>4. CASE Finalize
  BY <1>4 DEF Finalize, LiveTotalsAgree
<1>5. CASE Finished \/ UNCHANGED vars
  BY <1>5 DEF Finished, vars, statVars, LiveTotalsAgree
<1> QED
  BY <1>2, <1>3, <1>4, <1>5 DEF Next

\* The totals the console shows and the interval in progress make up the
\* statistics, after any number of results and ticks in any order.
THEOREM LiveTotals == Spec => []LiveTotalsAgree
BY TypesInit, TypesStep, TotalsInit, TotalsStep, PTL DEF Spec

-----------------------------------------------------------------------------
(* The breakdowns *)

\* What is counted by place is finite.
LEMMA FiniteTables ==
  /\ IsFiniteSet(StatusCodes) /\ IsFiniteSet(Errs) /\ IsFiniteSet(Latencies)
  /\ 0 \in StatusCodes /\ 0 \in Latencies
<1>1. IsFiniteSet(Durations)
  <2>1. Durations \subseteq 0 .. Forever /\ Forever \in Int
    BY CollectorAssumption
  <2>2. IsFiniteSet(0 .. Forever)
    BY <2>1, FS_Interval
  <2>3. QED  BY <2>1, <2>2, FS_Subset
<1>2. StatusCodes = Codes \cup {0} /\ Latencies = Durations \cup {0}
  BY DEF StatusCodes, Latencies
<1>3. IsFiniteSet(StatusCodes) /\ IsFiniteSet(Latencies)
  BY <1>1, <1>2, CollectorAssumption, FS_AddElement
<1>4. QED  BY <1>2, <1>3, CollectorAssumption

\* A result has an error message or a status code that are counted.
LEMMA ResultKeys ==
  ASSUME NEW r \in Results(engine), engine \in {"http", "kafka", "grpc"}
  PROVE  /\ r.error # Nil => r.error \in Errs
         /\ r.error = Nil => r.statusCode \in StatusCodes
<1>1. CASE engine = "http"
  BY <1>1, CollectorAssumption DEF Results, HTTPResults, StatusCodes
<1>2. CASE engine = "kafka"
  BY <1>2, CollectorAssumption DEF Results, KafkaResults, StatusCodes
<1>3. CASE engine = "grpc"
  BY <1>3, CollectorAssumption DEF Results, GRPCResults, StatusCodes
<1>4. QED  BY <1>1, <1>2, <1>3

\* An empty table has size 0, and the size grows with every count.
LEMMA SizeEmpty ==
  ASSUME NEW S, IsFiniteSet(S)
  PROVE  Size([x \in S |-> 0]) = 0
<1> DEFINE f == [x \in S |-> 0]
<1>1. \A x \in S : f[x] \in Int /\ f[x] = IF x \in S THEN 0 ELSE 0
  OBVIOUS
<1> DEFINE F == {A \in SUBSET S : SumFunctionOnSet(f, A) = 0}
<1>2. {} \in F
  BY SumEmpty
<1>3. ASSUME NEW A \in F, NEW x \in S \ A PROVE A \cup {x} \in F
  <2>1. IsFiniteSet(A) /\ x \notin A /\ \A y \in A \cup {x} : f[y] \in Int
    BY FS_Subset
  <2>2. SumFunctionOnSet(f, A \cup {x}) = f[x] + SumFunctionOnSet(f, A)
    <3> HIDE DEF f
    <3> QED  BY <2>1, SumInsert
  <2>3. QED  BY <2>2
<1>4. S \in F
  <2>1. F \in SUBSET SUBSET S
    OBVIOUS
  <2> HIDE DEF F
  <2>2. QED  BY <1>2, <1>3, <2>1, SubsetInduction
<1>5. DOMAIN f = S
  OBVIOUS
<1> HIDE DEF f
<1>6. QED  BY <1>4, <1>5 DEF Size, SumFunction, f

LEMMA SizeMore ==
  ASSUME NEW S, IsFiniteSet(S), NEW f \in [S -> Nat], NEW x \in S, NEW k \in Int,
         NEW g, DOMAIN g = S, \A y \in S : g[y] = IF y = x THEN f[y] + k ELSE f[y]
  PROVE  Size(g) = Size(f) + k /\ Size(f) \in Nat
<1>1. \A y \in S : f[y] \in Int /\ g[y] = IF y = x THEN f[y] + k ELSE f[y]
  OBVIOUS
<1>2. DOMAIN f = S /\ \A y \in S : f[y] \in Nat
  OBVIOUS
<1>3. SumFunctionOnSet(g, S) = SumFunctionOnSet(f, S) + k
  BY ONLY IsFiniteSet(S), x \in S, k \in Int, <1>1, SumChange, SMTT(30)
<1>4. SumFunctionOnSet(f, S) \in Nat
  BY <1>2, SumNat
<1>5. QED  BY <1>2, <1>3, <1>4 DEF Size, SumFunction

LEMMA SizeCount ==
  ASSUME NEW S, IsFiniteSet(S), NEW f \in [S -> Nat], NEW x \in S
  PROVE  Size([f EXCEPT ![x] = @ + 1]) = Size(f) + 1
<1> DEFINE g == [f EXCEPT ![x] = @ + 1]
<1>1. DOMAIN g = S /\ \A y \in S : g[y] = IF y = x THEN f[y] + 1 ELSE f[y]
  OBVIOUS
<1>2. 1 \in Int
  OBVIOUS
<1> HIDE DEF g
<1>3. Size(g) = Size(f) + 1
  BY <1>1, <1>2, SizeMore
<1>4. QED  BY <1>3 DEF g

LEMMA SizeUncount ==
  ASSUME NEW S, IsFiniteSet(S), NEW f \in [S -> Nat], NEW x \in S
  PROVE  Size([f EXCEPT ![x] = @ - 1]) = Size(f) - 1
<1> DEFINE g == [f EXCEPT ![x] = @ - 1]
           k == -1
<1>1. DOMAIN g = S /\ \A y \in S : g[y] = IF y = x THEN f[y] + k ELSE f[y]
  OBVIOUS
<1>2. k \in Int
  OBVIOUS
<1> HIDE DEF g, k
<1>3. Size(g) = Size(f) + k /\ Size(f) \in Nat
  BY <1>1, <1>2, SizeMore
<1>4. QED  BY <1>3 DEF g, k

LEMMA BreakdownsInit == Init => BreakdownsAgree
<1>1. Size([c \in StatusCodes |-> 0]) = 0 /\ Size([e \in Errs |-> 0]) = 0
  BY FiniteTables, SizeEmpty
<1>2. QED  BY <1>1 DEF Init, BreakdownsAgree

LEMMA BreakdownsStep == TInv /\ BreakdownsAgree /\ [Next]_vars => BreakdownsAgree'
<1> SUFFICES ASSUME TInv, BreakdownsAgree, [Next]_vars PROVE BreakdownsAgree'
  OBVIOUS
<1>1. /\ totalRequests \in Nat /\ successRequests \in Nat /\ failedRequests \in Nat
      /\ statusCodes \in [StatusCodes -> Nat] /\ errors \in [Errs -> Nat]
  BY DEF TInv, TypeOK
<1>2. CASE CollectResult
  <2>1. PICK r \in Results(engine) : CountResult(r)
    BY <1>2 DEF CollectResult
  <2>2. /\ r.error # Nil => r.error \in Errs
        /\ r.error = Nil => r.statusCode \in StatusCodes
    BY ResultKeys DEF TInv, EngineOK
  <2>3. CASE r.error # Nil
    <3>1. Size(errors') = Size(errors) + 1
      <4> DEFINE e == r.error
      <4>1. e \in Errs /\ errors' = [errors EXCEPT ![e] = @ + 1]
        BY <2>1, <2>2, <2>3 DEF CountResult
      <4> HIDE DEF e
      <4>2. QED  BY <1>1, <4>1, FiniteTables, SizeCount
    <3>2. /\ totalRequests' = totalRequests + 1 /\ failedRequests' = failedRequests + 1
          /\ UNCHANGED <<successRequests, statusCodes>>
      BY <2>1, <2>3 DEF CountResult
    <3>3. QED  BY <1>1, <3>1, <3>2 DEF BreakdownsAgree
  <2>4. CASE r.error = Nil
    <3>1. Size(statusCodes') = Size(statusCodes) + 1
      <4> DEFINE c == r.statusCode
      <4>1. c \in StatusCodes /\ statusCodes' = [statusCodes EXCEPT ![c] = @ + 1]
        BY <2>1, <2>2, <2>4 DEF CountResult
      <4> HIDE DEF c
      <4>2. QED  BY <1>1, <4>1, FiniteTables, SizeCount
    <3>2. /\ totalRequests' = totalRequests + 1 /\ successRequests' = successRequests + 1
          /\ UNCHANGED <<failedRequests, errors>>
      BY <2>1, <2>4 DEF CountResult
    <3>3. QED  BY <1>1, <3>1, <3>2 DEF BreakdownsAgree
  <2>5. QED  BY <2>3, <2>4
<1>3. CASE Tick \/ Finalize \/ Finished \/ UNCHANGED vars
  BY <1>3 DEF Tick, Finalize, Finished, vars, statVars, BreakdownsAgree
<1>4. QED  BY <1>2, <1>3 DEF Next

\* Every result is counted as a success or as a failure, never as both, and
\* under exactly one status code or message: the breakdowns of the statistics
\* add up to their totals.
THEOREM Breakdowns == Spec => []BreakdownsAgree
BY TypesInit, TypesStep, BreakdownsInit, BreakdownsStep, PTL DEF Spec

-----------------------------------------------------------------------------
(* The reservoir *)

\* The reservoir is a part of what was seen.
SamplesSeen == \A d \in Latencies : samples[d] <= seen[d]

LEMMA SeenStep == TInv /\ SamplesSeen /\ [Next]_vars => SamplesSeen'
<1> SUFFICES ASSUME TInv, SamplesSeen, [Next]_vars PROVE SamplesSeen'
  OBVIOUS
<1>1. samples \in [Latencies -> Nat] /\ seen \in [Latencies -> Nat]
  BY DEF TInv, TypeOK
<1>2. CASE CollectResult
  <2>1. PICK r \in Results(engine) :
          AddLatencySample(r.duration) /\ seen' = [seen EXCEPT ![r.duration] = @ + 1]
    BY <1>2 DEF CollectResult
  <2>2. r.duration \in Latencies
    BY ResultLatency DEF TInv, EngineOK
  <2>3. /\ samples' \in [Latencies -> Nat]
        /\ samples'[r.duration] <= samples[r.duration] + 1
        /\ \A x \in Latencies \ {r.duration} : samples'[x] <= samples[x]
    BY <1>1, <2>1, <2>2, ReservoirStep
  <2>4. /\ seen'[r.duration] = seen[r.duration] + 1
        /\ \A x \in Latencies \ {r.duration} : seen'[x] = seen[x]
    BY <1>1, <2>1, <2>2
  <2>5. samples'[r.duration] <= seen'[r.duration]
    BY <1>1, <2>2, <2>3, <2>4 DEF SamplesSeen
  <2>6. ASSUME NEW x \in Latencies \ {r.duration} PROVE samples'[x] <= seen'[x]
    BY <1>1, <2>3, <2>4 DEF SamplesSeen
  <2> QED
    BY <2>5, <2>6 DEF SamplesSeen
<1>3. CASE Tick \/ Finalize \/ Finished \/ UNCHANGED vars
  BY <1>3 DEF Tick, Finalize, Finished, vars, statVars, SamplesSeen
<1> QED
  BY <1>2, <1>3 DEF Next

\* The reservoir is filled, and then stays full.
ReservoirFull == Size(samples) = Lower(SampleSize, totalRequests)

LEMMA ReservoirSize ==
  ASSUME samples \in [Latencies -> Nat], NEW d \in Latencies, AddLatencySample(d)
  PROVE  /\ Size(samples) \in Nat
         /\ Size(samples') = IF Size(samples) < SampleSize THEN Size(samples) + 1
                                                           ELSE Size(samples)
<1>1. Size(samples) \in Nat
  <2>1. DOMAIN samples = Latencies /\ \A x \in Latencies : samples[x] \in Nat
    OBVIOUS
  <2>2. QED  BY <2>1, FiniteTables, SumNat DEF Size, SumFunction
<1>2. CASE Size(samples) < SampleSize
  BY <1>1, <1>2, FiniteTables, SizeCount DEF AddLatencySample
<1>3. CASE ~(Size(samples) < SampleSize)
  <2>1. CASE UNCHANGED samples
    BY <1>1, <1>3, <2>1
  <2>2. CASE ~ UNCHANGED samples
    <3>1. PICK old \in Latencies :
            /\ samples[old] > 0
            /\ samples' = [[samples EXCEPT ![old] = @ - 1] EXCEPT ![d] = @ + 1]
      BY <1>3, <2>2 DEF AddLatencySample
    <3> DEFINE less == [samples EXCEPT ![old] = @ - 1]
    <3>2. less \in [Latencies -> Nat]
      BY <3>1
    <3>3. samples' = [less EXCEPT ![d] = @ + 1]
      BY <3>1
    <3>4. Size(less) = Size(samples) - 1
      BY FiniteTables, SizeUncount
    <3> HIDE DEF less
    <3>5. Size(samples') = Size(less) + 1
      BY <3>2, <3>3, FiniteTables, SizeCount
    <3>6. QED  BY <1>1, <1>3, <3>4, <3>5
  <2>3. QED  BY <2>1, <2>2
<1>4. QED  BY <1>1, <1>2, <1>3

LEMMA FullStep == TInv /\ ReservoirFull /\ [Next]_vars => ReservoirFull'
<1> SUFFICES ASSUME TInv, ReservoirFull, [Next]_vars PROVE ReservoirFull'
  OBVIOUS
<1>1. samples \in [Latencies -> Nat] /\ totalRequests \in Nat /\ SampleSize \in Nat
  BY CollectorAssumption DEF TInv, TypeOK
<1>2. CASE CollectResult
  <2>1. PICK r \in Results(engine) :
          CountResult(r) /\ AddLatencySample(r.duration)
    BY <1>2 DEF CollectResult
  <2>2. r.duration \in Latencies
    BY ResultLatency DEF TInv, EngineOK
  <2>3. /\ Size(samples) \in Nat
        /\ Size(samples') = IF Size(samples) < SampleSize THEN Size(samples) + 1
                                                          ELSE Size(samples)
    BY <1>1, <2>1, <2>2, ReservoirSize
  <2>4. totalRequests' = totalRequests + 1
    BY <2>1 DEF CountResult
  <2>5. QED  BY <1>1, <2>3, <2>4 DEF ReservoirFull, Lower
<1>3. CASE Tick \/ Finalize \/ Finished \/ UNCHANGED vars
  BY <1>3 DEF Tick, Finalize, Finished, vars, statVars, ReservoirFull
<1>4. QED  BY <1>2, <1>3 DEF Next

LEMMA ReservoirInit == Init => SamplesSeen /\ ReservoirFull
<1>1. Size([d \in Latencies |-> 0]) = 0
  BY FiniteTables, SizeEmpty
<1>2. Lower(SampleSize, 0) = 0
  BY CollectorAssumption DEF Lower
<1>3. QED  BY <1>1, <1>2 DEF Init, SamplesSeen, ReservoirFull

\* The percentiles come from latencies of requests that were made: no latency
\* is more often in the reservoir than it was seen, whatever is replaced, and
\* none is missing as long as they fit.
THEOREM Reservoir == Spec => []ReservoirSound
<1>1. SamplesSeen /\ ReservoirFull => ReservoirSound
  BY DEF SamplesSeen, ReservoirFull, ReservoirSound
<1>2. QED
  BY <1>1, TypesInit, TypesStep, ReservoirInit, SeenStep, FullStep, PTL DEF Spec

\* The bounds of the statistics enclose every latency seen.
SeenWithinBounds ==
    \A d \in Latencies : seen[d] > 0 => minLatency <= d /\ d <= maxLatency

\* A bound that is updated with d encloses d and whatever it enclosed before.
LEMMA BoundsMove ==
  ASSUME NEW m \in Nat, NEW n \in Nat, NEW d \in Nat
  PROVE  /\ Lower(m, d) <= d /\ Lower(m, d) <= m
         /\ d <= Higher(n, d) /\ n <= Higher(n, d)
         /\ Lower(m, d) \in Nat /\ Higher(n, d) \in Nat
BY DEF Lower, Higher

LEMMA BoundsStep == TInv /\ SeenWithinBounds /\ [Next]_vars => SeenWithinBounds'
<1> SUFFICES ASSUME TInv, SeenWithinBounds, [Next]_vars PROVE SeenWithinBounds'
  OBVIOUS
<1>1. seen \in [Latencies -> Nat] /\ minLatency \in Nat /\ maxLatency \in Nat
  BY LatencyRange DEF TInv, TypeOK
<1>2. CASE CollectResult
  <2>1. PICK r \in Results(engine) :
          /\ minLatency' = Lower(minLatency, r.duration)
          /\ maxLatency' = Higher(maxLatency, r.duration)
          /\ seen' = [seen EXCEPT ![r.duration] = @ + 1]
    BY <1>2 DEF CollectResult
  <2>2. r.duration \in Latencies
    BY ResultLatency DEF TInv, EngineOK
  <2>3. PICK d \in Nat : d = r.duration
    BY <2>2, LatencyRange
  <2>4. /\ minLatency' <= d /\ minLatency' <= minLatency
        /\ d <= maxLatency' /\ maxLatency <= maxLatency'
        /\ minLatency' \in Nat /\ maxLatency' \in Nat
    BY <1>1, <2>1, <2>3, BoundsMove, Zenon
  <2>5. ASSUME NEW x \in Latencies, seen'[x] > 0
        PROVE  minLatency' <= x /\ x <= maxLatency'
    <3>1. CASE x = d
      BY <3>1, <2>4
    <3>2. CASE x # d
      <4>1. seen[x] > 0
        BY <1>1, <2>1, <2>3, <2>5, <3>2
      <4>2. minLatency <= x /\ x <= maxLatency /\ x \in Nat
        BY <4>1, LatencyRange DEF SeenWithinBounds
      <4> QED
        BY <1>1, <2>4, <4>2
    <3> QED
      BY <3>1, <3>2
  <2> QED
    BY <2>5 DEF SeenWithinBounds
<1>3. CASE Tick \/ Finished \/ UNCHANGED vars
  BY <1>3 DEF Tick, Finished, vars, statVars, SeenWithinBounds
<1>4. CASE Finalize
  <2>1. /\ minLatency' = minLatency \/ minLatency' = 0
        /\ UNCHANGED <<maxLatency, seen>>
    BY <1>4 DEF Finalize
  <2> QED
    BY <2>1, LatencyRange DEF SeenWithinBounds
<1> QED
  BY <1>2, <1>3, <1>4 DEF Next

-----------------------------------------------------------------------------
(* The summary *)

\* The part of a bag up to a latency.
LEMMA Parts ==
  ASSUME NEW bag \in [Latencies -> Nat], NEW v \in Latencies
  PROVE  /\ Below(bag, v) = SumFunctionOnSet(bag, {d \in Latencies : d < v})
         /\ UpTo(bag, v) = SumFunctionOnSet(bag, {d \in Latencies : d <= v})
         /\ Below(bag, v) \in Nat /\ UpTo(bag, v) = Below(bag, v) + bag[v]
         /\ Size(bag) = SumFunctionOnSet(bag, Latencies) /\ Size(bag) \in Nat
<1> DEFINE B == {d \in Latencies : d < v}
           U == {d \in Latencies : d <= v}
<1>1. Below(bag, v) = SumFunctionOnSet(bag, B)
  BY DEF Below
<1>2. /\ B \in SUBSET Latencies /\ IsFiniteSet(B) /\ v \notin B /\ U = B \cup {v}
      /\ \A d \in Latencies : bag[d] \in Nat /\ bag[d] \in Int
  <2>1. B \in SUBSET Latencies /\ v \in Nat /\ v \notin B
    BY LatencyRange
  <2>2. IsFiniteSet(B)
    BY <2>1, FiniteTables, FS_Subset
  <2>3. U = B \cup {v}
    <3>1. \A d \in Latencies : d \in Nat /\ (d <= v <=> d < v \/ d = v)
      BY <2>1, LatencyRange
    <3>2. QED  BY <3>1
  <2>4. QED  BY <2>1, <2>2, <2>3
<1> HIDE DEF B, U
<1>3. SumFunctionOnSet(bag, U) = bag[v] + SumFunctionOnSet(bag, B)
  BY <1>2, SumInsert
<1>4. SumFunctionOnSet(bag, B) \in Nat
  BY <1>2, SumNat
<1>5. Size(bag) = SumFunctionOnSet(bag, Latencies) /\ Size(bag) \in Nat
  <2>1. DOMAIN bag = Latencies
    OBVIOUS
  <2>2. QED  BY <1>2, <2>1, FiniteTables, SumNat DEF Size, SumFunction
<1>6. bag[v] \in Nat
  OBVIOUS
<1>7. UpTo(bag, v) = Below(bag, v) + bag[v]
  BY DEF UpTo
<1>8. QED  BY <1>1, <1>3, <1>4, <1>5, <1>6, <1>7 DEF B, U

\* What lies below a latency is what lies up to the one before it.
LEMMA Predecessor ==
  ASSUME NEW bag \in [Latencies -> Nat], NEW v \in Latencies
  PROVE  \/ Below(bag, v) = 0
         \/ \E u \in Latencies : u < v /\ Below(bag, v) = UpTo(bag, u)
<1> DEFINE B == {d \in Latencies : d < v}
<1>1. v \in Nat /\ B \in SUBSET (0 .. v)
  <2>1. v \in Nat /\ \A d \in Latencies : d \in Nat
    BY LatencyRange
  <2>2. \A d \in B : d \in 0 .. v
    BY <2>1
  <2>3. QED  BY <2>1, <2>2
<1>2. CASE B = {}
  BY <1>2, Parts, SumEmpty
<1>3. CASE B # {}
  <2>1. PICK u \in B : \A m \in B : m <= u
    <3> HIDE DEF B
    <3> QED  BY <1>1, <1>3, Greatest
  <2>2. u \in Latencies /\ u < v /\ u \in Nat
    BY LatencyRange
  <2>3. B = {d \in Latencies : d <= u}
    <3>1. \A d \in Latencies : d \in Nat
      BY LatencyRange
    <3>2. ASSUME NEW d \in Latencies PROVE d < v <=> d <= u
      <4>1. d < v => d <= u
        BY <2>1
      <4>2. d <= u => d < v
        BY <1>1, <2>2, <3>1
      <4>3. QED  BY <4>1, <4>2
    <3>3. QED  BY <3>2
  <2>4. QED  BY <2>2, <2>3, Parts
<1>4. QED  BY <1>2, <1>3

\* The latency v is the one at index idx of the sorted bag.
At(bag, idx, v) ==
    /\ v \in Latencies /\ idx < UpTo(bag, v)
    /\ \A u \in Latencies : u < v => UpTo(bag, u) <= idx

\* There is one, if the bag is larger; not more than idx lie below it.
LEMMA AtExists ==
  ASSUME NEW bag \in [Latencies -> Nat], NEW idx \in Nat, idx < Size(bag)
  PROVE  \E v : At(bag, idx, v)
<1> DEFINE T == {v \in Latencies : idx < UpTo(bag, v)}
<1>1. PICK m \in Latencies : \A d \in Latencies : d <= m
  <2>1. Latencies \in SUBSET (0 .. Forever) /\ Forever \in Nat /\ Latencies # {}
    <3>1. Forever >= 0
      BY LatencyRange
    <3>2. QED  BY <3>1, CollectorAssumption DEF Latencies
  <2>2. QED  BY <2>1, Greatest
<1>2. {d \in Latencies : d <= m} = Latencies
  BY <1>1
<1>3. UpTo(bag, m) = Size(bag)
  BY <1>2, Parts
<1>4. T \in SUBSET Nat /\ T # {}
  BY <1>3, LatencyRange
<1>5. PICK v \in T : \A u \in T : v <= u
  <2> HIDE DEF T
  <2> QED  BY <1>4, Least
<1>6. ASSUME NEW u \in Latencies, u < v PROVE UpTo(bag, u) <= idx
  <2>1. u \notin T
    <3>1. u \in Nat /\ v \in Nat
      BY <1>4, LatencyRange
    <3>2. ~(v <= u)
      BY <1>6, <3>1
    <3>3. QED  BY <1>5, <3>2
  <2>2. UpTo(bag, u) \in Nat
    <3>1. Below(bag, u) \in Nat /\ bag[u] \in Nat /\ UpTo(bag, u) = Below(bag, u) + bag[u]
      BY Parts
    <3>2. QED  BY <3>1
  <2>3. QED  BY <2>1, <2>2
<1>7. QED  BY <1>6 DEF At

LEMMA AtBounds ==
  ASSUME NEW bag \in [Latencies -> Nat], NEW idx \in Nat, NEW v, At(bag, idx, v)
  PROVE  Below(bag, v) <= idx /\ idx < UpTo(bag, v) /\ UpTo(bag, v) \in Nat /\ bag[v] > 0
<1>1. v \in Latencies /\ idx < UpTo(bag, v)
  BY DEF At
<1>2. Below(bag, v) \in Nat /\ bag[v] \in Nat /\ UpTo(bag, v) = Below(bag, v) + bag[v]
  BY <1>1, Parts
<1>3. Below(bag, v) <= idx
  <2>1. CASE Below(bag, v) = 0
    BY <2>1
  <2>2. ASSUME NEW u \in Latencies, u < v, Below(bag, v) = UpTo(bag, u)
        PROVE  Below(bag, v) <= idx
    BY <2>2 DEF At
  <2>3. QED  BY <1>1, <2>1, <2>2, Predecessor
<1>4. QED  BY <1>1, <1>2, <1>3

\* A greater index has no smaller latency.
LEMMA AtMonotonic ==
  ASSUME NEW bag \in [Latencies -> Nat], NEW i \in Nat, NEW j \in Nat, i <= j,
         NEW u, NEW v, At(bag, i, u), At(bag, j, v)
  PROVE  u <= v
<1>1. u \in Latencies /\ v \in Latencies /\ u \in Nat /\ v \in Nat
  BY LatencyRange DEF At
<1>2. ASSUME v < u PROVE FALSE
  <2>1. UpTo(bag, v) <= i /\ j < UpTo(bag, v) /\ UpTo(bag, v) \in Nat
    BY <1>1, <1>2, AtBounds DEF At
  <2>2. QED  BY <2>1
<1>3. QED  BY <1>1, <1>2

\* The percentages of the summary.
Percentages == {50, 95, 99}
Index(q) == (Size(samples) * q) \div 100

\* The index of a percentile is within the samples, and is the rounded
\* percentage of them.
LEMMA IndexRange ==
  ASSUME Size(samples) \in Nat, NEW q \in Percentages
  PROVE  /\ Index(q) \in Nat
         /\ Size(samples) > 0 => Index(q) < Size(samples)
         /\ 100 * Index(q) <= q * Size(samples)
         /\ q * Size(samples) < 100 * (Index(q) + 1)
<1> DEFINE n == Size(samples)
<1>1. n \in Nat /\ Index(q) = (n * q) \div 100
  BY DEF Index
<1> HIDE DEF n
<1>2. q = 50 \/ q = 95 \/ q = 99
  BY DEF Percentages
<1>3. QED  BY <1>1, <1>2 DEF n

LEMMA IndexMonotonic ==
  ASSUME Size(samples) \in Nat
  PROVE  Index(50) <= Index(95) /\ Index(95) <= Index(99)
<1> DEFINE n == Size(samples)
<1>1. n \in Nat /\ \A q : Index(q) = (n * q) \div 100
  BY DEF Index
<1> HIDE DEF n
<1>2. (n * 50) \div 100 <= (n * 95) \div 100 /\ (n * 95) \div 100 <= (n * 99) \div 100
  BY <1>1
<1>3. QED  BY <1>1, <1>2

\* What the summary says, once it is there, of the results it was made from.
Summarised ==
    ~Collecting =>
      /\ summary.max = maxLatency
      /\ totalRequests = 0 => /\ summary.min = 0 /\ summary.avg = 0
                              /\ summary.p50 = 0 /\ summary.p95 = 0 /\ summary.p99 = 0
      /\ totalRequests > 0 => /\ summary.min = minLatency
                              /\ summary.avg = AverageLatency
                              /\ At(samples, Index(50), summary.p50)
                              /\ At(samples, Index(95), summary.p95)
                              /\ At(samples, Index(99), summary.p99)

\* After the first result there are samples to take percentiles from.
LEMMA SomeSamples ==
  ASSUME TInv, ReservoirFull
  PROVE  /\ Size(samples) \in Nat /\ totalRequests \in Nat
         /\ totalRequests > 0 => Size(samples) > 0
<1>1. totalRequests \in Nat /\ samples \in [Latencies -> Nat]
  BY DEF TInv, TypeOK
<1>2. Size(samples) \in Nat
  BY <1>1, FiniteTables, Parts
<1>3. QED  BY <1>1, <1>2, CollectorAssumption DEF ReservoirFull, Lower

\* The code's percentile is the latency at the index.
LEMMA PercentileAt ==
  ASSUME TInv, ReservoirFull, totalRequests > 0, NEW q \in Percentages
  PROVE  At(samples, Index(q), Percentile(q))
<1>1. /\ samples \in [Latencies -> Nat]
      /\ Index(q) \in Nat /\ Index(q) < Size(samples)
  BY SomeSamples, IndexRange DEF TInv, TypeOK
<1>2. \E v : At(samples, Index(q), v)
  BY <1>1, AtExists
<1>3. Percentile(q)
        = CHOOSE v \in Latencies : /\ Index(q) < UpTo(samples, v)
                                   /\ \A u \in Latencies :
                                        u < v => UpTo(samples, u) <= Index(q)
  BY DEF Percentile, Index
<1>4. \E v \in Latencies : /\ Index(q) < UpTo(samples, v)
                            /\ \A u \in Latencies :
                                 u < v => UpTo(samples, u) <= Index(q)
  BY <1>2 DEF At
<1>5. QED  BY <1>3, <1>4 DEF At

LEMMA SummarisedStep ==
  TInv /\ ReservoirFull /\ Summarised /\ [Next]_vars => Summarised'
<1> SUFFICES ASSUME TInv, ReservoirFull, Summarised, [Next]_vars PROVE Summarised'
  OBVIOUS
<1>1. CASE CollectResult \/ Tick
  BY <1>1 DEF CollectResult, Tick, Collecting, Summarised
<1>2. CASE Finalize
  <2>1. /\ summary'.max = maxLatency
        /\ UNCHANGED <<totalRequests, maxLatency, samples>>
    BY <1>2 DEF Finalize
  <2>2. CASE totalRequests > 0
    <3>1. /\ summary'.min = minLatency /\ minLatency' = minLatency
          /\ summary'.avg = AverageLatency
          /\ summary'.p50 = Percentile(50) /\ summary'.p95 = Percentile(95)
          /\ summary'.p99 = Percentile(99)
      BY <1>2, <2>2 DEF Finalize
    <3>2. /\ At(samples, Index(50), Percentile(50))
          /\ At(samples, Index(95), Percentile(95))
          /\ At(samples, Index(99), Percentile(99))
      BY <2>2, PercentileAt DEF Percentages
    <3>3. AverageLatency' = AverageLatency /\ \A q : Index(q)' = Index(q)
      BY <2>1 DEF AverageLatency, Index
    <3>4. totalRequests' > 0 /\ totalRequests' # 0
      BY <2>1, <2>2, SomeSamples
    <3>5. QED  BY <2>1, <3>1, <3>2, <3>3, <3>4 DEF Summarised
  <2>3. CASE ~(totalRequests > 0)
    <3>1. totalRequests = 0
      BY <2>3, SomeSamples
    <3>2. /\ summary'.min = 0 /\ summary'.avg = 0
          /\ summary'.p50 = 0 /\ summary'.p95 = 0 /\ summary'.p99 = 0
      BY <1>2, <2>3 DEF Finalize
    <3>3. totalRequests' = 0 /\ ~(totalRequests' > 0)
      BY <2>1, <3>1
    <3>4. QED  BY <2>1, <3>2, <3>3 DEF Summarised
  <2>4. QED  BY <2>2, <2>3
<1>3. CASE Finished \/ UNCHANGED vars
  BY <1>3 DEF Finished, vars, statVars, Summarised, Collecting, AverageLatency, Index
<1>4. QED  BY <1>1, <1>2, <1>3 DEF Next

LEMMA SummarisedInit == Init => Summarised
BY DEF Init, Summarised, Collecting

\* The percentage of the samples below a percentile, and up to it.
LEMMA PercentileShares ==
  ASSUME TInv, ReservoirFull, NEW q \in Percentages, NEW p,
         At(samples, Index(q), p)
  PROVE  /\ 100 * Below(samples, p) <= q * Size(samples)
         /\ q * Size(samples) < 100 * UpTo(samples, p)
<1>1. samples \in [Latencies -> Nat] /\ p \in Latencies /\ q \in Nat
  BY DEF TInv, TypeOK, At, Percentages
<1>2. /\ Size(samples) \in Nat /\ Index(q) \in Nat
      /\ 100 * Index(q) <= q * Size(samples)
      /\ q * Size(samples) < 100 * (Index(q) + 1)
  BY SomeSamples, IndexRange
<1>3. /\ Below(samples, p) \in Nat /\ Below(samples, p) <= Index(q)
      /\ UpTo(samples, p) \in Nat /\ Index(q) < UpTo(samples, p)
  BY <1>1, <1>2, AtBounds, Parts
<1> DEFINE b == Below(samples, p)
           u == UpTo(samples, p)
           i == Index(q)
           n == q * Size(samples)
<1>4. n \in Int
  BY <1>1, <1>2, Products
<1>5. /\ b \in Nat /\ u \in Nat /\ i \in Nat /\ n \in Int
      /\ 100 * i <= n /\ n < 100 * (i + 1) /\ b <= i /\ i < u
  BY <1>2, <1>3, <1>4
<1> HIDE DEF b, u, i, n
<1>6. 100 * b <= n /\ n < 100 * u
  BY <1>5
<1>7. QED  BY <1>6 DEF b, u, n

\* For any results, size of the reservoir and samples kept: a reported
\* percentile q has at most q percent of the samples below it, and more than q
\* percent up to it.
THEOREM Percentiles == Spec => []PercentilesCorrect
<1>1. TInv /\ ReservoirFull /\ Summarised => PercentilesCorrect
  <2> SUFFICES ASSUME TInv, ReservoirFull, Summarised, ~Collecting, totalRequests > 0
               PROVE  \A q \in {50, 95, 99} :
                        LET p == CASE q = 50 -> summary.p50 [] q = 95 -> summary.p95
                                   [] q = 99 -> summary.p99
                        IN  /\ 100 * Below(samples, p) <= q * Size(samples)
                            /\ q * Size(samples) < 100 * UpTo(samples, p)
    BY DEF PercentilesCorrect
  <2>1. /\ At(samples, Index(50), summary.p50) /\ At(samples, Index(95), summary.p95)
        /\ At(samples, Index(99), summary.p99)
    BY DEF Summarised
  <2>2. ASSUME NEW q \in {50, 95, 99}
        PROVE  LET p == CASE q = 50 -> summary.p50 [] q = 95 -> summary.p95
                          [] q = 99 -> summary.p99
               IN  /\ 100 * Below(samples, p) <= q * Size(samples)
                   /\ q * Size(samples) < 100 * UpTo(samples, p)
    <3> DEFINE p == CASE q = 50 -> summary.p50 [] q = 95 -> summary.p95
                      [] q = 99 -> summary.p99
    <3>1. At(samples, Index(q), p)
      BY <2>1
    <3>2. q \in Percentages
      BY DEF Percentages
    <3> HIDE DEF p
    <3>3. /\ 100 * Below(samples, p) <= q * Size(samples)
          /\ q * Size(samples) < 100 * UpTo(samples, p)
      BY <3>1, <3>2, PercentileShares
    <3>4. QED  BY <3>3 DEF p
  <2>3. QED  BY <2>2
<1>2. QED
  BY <1>1, TypesInit, TypesStep, ReservoirInit, FullStep, SummarisedInit,
     SummarisedStep, PTL DEF Spec

\* The average of the samples lies between any bounds of them.
LEMMA AverageBounds ==
  ASSUME samples \in [Latencies -> Nat], Size(samples) > 0,
         NEW min \in Nat, NEW max \in Nat,
         \A d \in Latencies : samples[d] > 0 => min <= d /\ d <= max
  PROVE  min <= AverageLatency /\ AverageLatency <= max
<1> DEFINE W == [d \in Latencies |-> d * samples[d]]
           L == [d \in Latencies |-> min * samples[d]]
           H == [d \in Latencies |-> max * samples[d]]
           n == Size(samples)
           w == SumFunctionOnSet(W, Latencies)
<1>1. ASSUME NEW d \in Latencies
      PROVE  /\ L[d] \in Nat /\ W[d] \in Nat /\ H[d] \in Nat
             /\ L[d] <= W[d] /\ W[d] <= H[d] /\ samples[d] \in Nat
             /\ L[d] = min * samples[d] /\ H[d] = max * samples[d]
  <2>1. d \in Nat /\ samples[d] \in Nat
    BY LatencyRange
  <2> DEFINE k == samples[d]
  <2>2. k \in Nat /\ (k = 0 \/ (min <= d /\ d <= max))
    BY <2>1
  <2> HIDE DEF k
  <2>3. min * k \in Nat /\ d * k \in Nat /\ max * k \in Nat
    BY <2>1, <2>2
  <2>4. min * k <= d * k /\ d * k <= max * k
    <3>1. k * min = min * k /\ k * d = d * k /\ k * max = max * k
      BY <2>1, <2>2
    <3>2. CASE k = 0
      BY <2>1, <3>2
    <3>3. CASE min <= d /\ d <= max
      BY <2>1, <2>2, <3>1, <3>3, Products
    <3>4. QED  BY <2>2, <3>2, <3>3
  <2>5. QED  BY <2>1, <2>3, <2>4 DEF k
<1>2. /\ n = SumFunctionOnSet(samples, Latencies) /\ n \in Nat /\ n > 0
  BY FiniteTables, Parts
<1>3. AverageLatency = w \div n
  BY DEF AverageLatency, SumFunction
<1> HIDE DEF W, L, H, n
<1>4. w \in Nat
  BY <1>1, FiniteTables, SumNat
<1>5. /\ SumFunctionOnSet(L, Latencies) <= w
      /\ w <= SumFunctionOnSet(H, Latencies)
  <2>1. \A d \in Latencies : L[d] \in Int /\ W[d] \in Int /\ L[d] <= W[d]
    BY <1>1
  <2>2. \A d \in Latencies : W[d] \in Int /\ H[d] \in Int /\ W[d] <= H[d]
    BY <1>1
  <2>3. QED  BY <2>1, <2>2, FiniteTables, SumMonotonic
<1>6. /\ SumFunctionOnSet(L, Latencies) = min * n
      /\ SumFunctionOnSet(H, Latencies) = max * n
  <2>1. \A d \in Latencies : samples[d] \in Int
    BY <1>1
  <2>2. \A d \in Latencies : L[d] = min * samples[d]
    BY <1>1
  <2>3. \A d \in Latencies : H[d] = max * samples[d]
    BY <1>1
  <2>4. QED  BY <1>2, <2>1, <2>2, <2>3, FiniteTables, SumScaled
<1> HIDE DEF w
<1> DEFINE q == w \div n
<1>7. q \in Nat /\ n * q <= w /\ w < n * q + n
  BY <1>2, <1>4, QuotientBounds
<1> HIDE DEF q
<1>8. min * n <= w /\ w <= max * n /\ min * n = n * min /\ max * n = n * max
  BY <1>2, <1>5, <1>6
<1>9. /\ n * q \in Int /\ n * min \in Int /\ n * max \in Int
      /\ n * (q + 1) = n * q + n /\ n * (max + 1) = n * max + n
  BY <1>2, <1>7, Products
<1>10. min <= q
  <2>1. ASSUME q + 1 <= min PROVE FALSE
    <3>1. n * (q + 1) <= n * min
      BY <1>2, <1>7, <2>1, Products
    <3>2. n * q + n <= n * min /\ n * min <= w
      BY <1>8, <1>9, <3>1
    <3> DEFINE x == n * q
               y == n * min
    <3>3. x \in Int /\ y \in Int /\ n \in Int /\ w \in Int /\ w < x + n /\ x + n <= y /\ y <= w
      BY <1>2, <1>4, <1>7, <1>9, <3>2
    <3> HIDE DEF x, y
    <3>4. QED  BY <3>3
  <2>2. QED  BY <1>7, <2>1
<1>11. q <= max
  <2>1. ASSUME max + 1 <= q PROVE FALSE
    <3>1. n * (max + 1) <= n * q
      BY <1>2, <1>7, <2>1, Products
    <3>2. QED  BY <1>2, <1>4, <1>7, <1>8, <1>9, <3>1
  <2>2. QED  BY <1>7, <2>1
<1>12. QED  BY <1>3, <1>10, <1>11 DEF q

\* The fields of a summary are in order, for any results and any choice of
\* samples, although bounds, average and percentiles have different sources.
THEOREM SummaryInOrder == Spec => []SummaryOrdered
<1>1. TInv /\ ReservoirFull /\ SamplesSeen /\ SeenWithinBounds /\ Summarised
        => SummaryOrdered
  <2> SUFFICES ASSUME TInv, ReservoirFull, SamplesSeen, SeenWithinBounds, Summarised,
                      ~Collecting
               PROVE  /\ summary.min <= summary.p50 /\ summary.p50 <= summary.p95
                      /\ summary.p95 <= summary.p99 /\ summary.p99 <= summary.max
                      /\ summary.min <= summary.avg /\ summary.avg <= summary.max
    BY DEF SummaryOrdered
  <2>1. /\ samples \in [Latencies -> Nat] /\ seen \in [Latencies -> Nat]
        /\ minLatency \in Nat /\ maxLatency \in Nat /\ totalRequests \in Nat
        /\ summary.max = maxLatency
    BY LatencyRange DEF TInv, TypeOK, Summarised
  <2>2. CASE totalRequests = 0
    BY <2>1, <2>2 DEF Summarised
  <2>3. CASE totalRequests > 0
    <3>1. Size(samples) \in Nat /\ Size(samples) > 0
      BY <2>3, SomeSamples
    <3>2. \A d \in Latencies : samples[d] > 0 => minLatency <= d /\ d <= maxLatency
      BY <2>1 DEF SamplesSeen, SeenWithinBounds
    <3>3. minLatency <= AverageLatency /\ AverageLatency <= maxLatency
      BY <2>1, <3>1, <3>2, AverageBounds
    <3> DEFINE a == summary.p50
               b == summary.p95
               c == summary.p99
    <3>4. At(samples, Index(50), a) /\ At(samples, Index(95), b) /\ At(samples, Index(99), c)
      BY <2>3 DEF Summarised
    <3>5. Index(50) \in Nat /\ Index(95) \in Nat /\ Index(99) \in Nat
      BY <3>1, IndexRange DEF Percentages
    <3> HIDE DEF a, b, c
    <3>6. a <= b /\ b <= c
      BY <2>1, <3>1, <3>4, <3>5, IndexMonotonic, AtMonotonic
    <3>7. minLatency <= a
      BY <2>1, <3>2, <3>4, <3>5, AtBounds DEF At
    <3>8. c <= maxLatency
      BY <2>1, <3>2, <3>4, <3>5, AtBounds DEF At
    <3>9. summary.min = minLatency /\ summary.avg = AverageLatency
      BY <2>3 DEF Summarised
    <3>10. QED  BY <2>1, <3>3, <3>6, <3>7, <3>8, <3>9 DEF a, b, c
  <2>4. QED  BY <2>1, <2>2, <2>3
<1>2. Init => SeenWithinBounds
  BY DEF Init, SeenWithinBounds
<1>3. QED
  BY <1>1, <1>2, TypesInit, TypesStep, ReservoirInit, SeenStep, FullStep, BoundsStep,
     SummarisedInit, SummarisedStep, PTL DEF Spec
=============================================================================
