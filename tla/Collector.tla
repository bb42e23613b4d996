------------------------------ MODULE Collector ------------------------------
(***************************************************************************)
(* What collectResults makes of the results of the workers                 *)
(* (internal/engine/pool/collector.go): running totals, the totals of the  *)
(* current interval, a latency reservoir, and at the end the summary; with *)
(* the console connector, which keeps totals of its own, at the other end  *)
(* of the interval reports.                                                *)
(*                                                                         *)
(* Results are classified as the doWork of the three engines does.  Real   *)
(* time is abstracted: a tick of the interval ticker may come at any time. *)
(***************************************************************************)
EXTENDS Integers, FiniteSets, Functions

CONSTANTS
    Durations,     \* how long a request may take; 0 is a request not sent
    Forever,       \* 1<<63 - 1, the largest duration
    Codes,         \* HTTP status codes of responses
    GRPCCodes,     \* gRPC status codes of failed calls
    Errs,          \* error messages
    Nil,           \* nil: no error, no summary yet
    SampleSize,    \* 10000: size of the reservoir
    WorkerCounts,  \* what activeWorkers may be at a tick
    MaxResults,    \* bound on the results, for TLC only
    MaxTicks       \* bound on the ticks, for TLC only

ASSUME CollectorAssumption ==
    /\ Durations \subseteq Nat /\ Durations # {}
    /\ Forever \in Nat /\ \A d \in Durations : d < Forever
    /\ Nil \notin Errs
    /\ SampleSize \in Nat \ {0}
    /\ Codes \subseteq Nat /\ GRPCCodes \subseteq Nat
    /\ IsFiniteSet(Codes) /\ IsFiniteSet(Errs)
    /\ WorkerCounts \subseteq Nat

\* doWork of the HTTP engine: an error, or the status of any response.  The
\* field Success of a result is left out: nobody reads it.
HTTPResults ==
    [error : Errs, statusCode : {0}, duration : Durations]
    \cup [error : {Nil}, statusCode : Codes, duration : Durations]

\* doWork of the Kafka engine: an encoding error has no duration.
KafkaResults ==
    [error : Errs, statusCode : {0}, duration : {0}]
    \cup [error : Errs \cup {Nil}, statusCode : {0}, duration : Durations]

\* doWork of the gRPC engine: a failed call has a status code as well.
GRPCResults ==
    [error : Errs, statusCode : {0} \cup GRPCCodes, duration : Durations]
    \cup [error : {Nil}, statusCode : {0}, duration : Durations]

Results(e) == CASE e = "http"  -> HTTPResults
                [] e = "kafka" -> KafkaResults
                [] e = "grpc"  -> GRPCResults

Latencies == {0} \cup Durations
StatusCodes == {0} \cup Codes

VARIABLES
    engine,        \* the protocol of the run
    totalRequests, successRequests, failedRequests,  \* Pool.stats ...
    statusCodes, errors, minLatency, maxLatency,
    samples,       \* latencySamples, as a bag: their order is not used
    interval,      \* the counts and latencies of the current interval
    workerSamples, \* sum and number of the sampled worker counts
    shown,         \* the totals of the ConsoleConnector
    summary,       \* what OnComplete was given; Nil before that
    seen           \* history: the bag of all latencies

statVars == <<totalRequests, successRequests, failedRequests, statusCodes,
              errors, minLatency, maxLatency, samples, seen>>
vars == <<engine, statVars, interval, workerSamples, shown, summary>>

Collecting == summary = Nil

\* Mutant: the sentinels of the two bounds are swapped.
EmptyIntervalSwapped == [requests |-> 0, success |-> 0, failure |-> 0,
                         min |-> 0, max |-> Forever, total |-> 0]

EmptyInterval == [requests |-> 0, success |-> 0, failure |-> 0,
                  min |-> Forever, max |-> 0, total |-> 0]

Init ==
    /\ engine \in {"http", "kafka", "grpc"}
    /\ totalRequests = 0 /\ successRequests = 0 /\ failedRequests = 0
    /\ statusCodes = [c \in StatusCodes |-> 0]
    /\ errors = [e \in Errs |-> 0]
    /\ minLatency = Forever /\ maxLatency = 0
    /\ samples = [d \in Latencies |-> 0] /\ seen = [d \in Latencies |-> 0]
    /\ interval = EmptyInterval
    /\ workerSamples = [sum |-> 0, count |-> 0]
    /\ shown = [requests |-> 0, success |-> 0, failure |-> 0]
    /\ summary = Nil

Lower(a, b)  == IF b < a THEN b ELSE a
Higher(a, b) == IF b > a THEN b ELSE a

\* Sizes of bags over the latencies, and of the part of them below a bound.
Size(bag)     == SumFunction(bag)
Below(bag, v) == SumFunctionOnSet(bag, {d \in DOMAIN bag : d < v})
UpTo(bag, v)  == Below(bag, v) + bag[v]

-----------------------------------------------------------------------------
(* Results *)

\* Mutant: the sample that is replaced is not dropped.
AddLatencySampleGrowing(d) == samples' = [samples EXCEPT ![d] = @ + 1]

\* addLatencySample: fill the reservoir, then keep the latency d or not, and if
\* so in the place of any sample.
AddLatencySample(d) ==
    IF Size(samples) < SampleSize
      THEN samples' = [samples EXCEPT ![d] = @ + 1]
      ELSE \/ UNCHANGED samples
           \/ \E old \in {x \in Latencies : samples[x] > 0} :
                samples' = [[samples EXCEPT ![old] = @ - 1] EXCEPT ![d] = @ + 1]

\* Mutant: the status code of a failed call is counted too.
CountResultAnyStatus(r) ==
    /\ totalRequests' = totalRequests + 1
    /\ IF r.error # Nil
         THEN /\ failedRequests' = failedRequests + 1
              /\ errors' = [errors EXCEPT ![r.error] = @ + 1]
              /\ UNCHANGED successRequests
         ELSE /\ successRequests' = successRequests + 1
              /\ UNCHANGED <<failedRequests, errors>>
    /\ statusCodes' = [c \in StatusCodes |->
                         statusCodes[c] + (IF c = r.statusCode THEN 1 ELSE 0)]

\* The counts: a failure by its message, a success by its status code.
CountResult(r) ==
    /\ totalRequests' = totalRequests + 1
    /\ IF r.error # Nil
         THEN /\ failedRequests' = failedRequests + 1
              /\ errors' = [errors EXCEPT ![r.error] = @ + 1]
              /\ UNCHANGED <<successRequests, statusCodes>>
         ELSE /\ successRequests' = successRequests + 1
              /\ statusCodes' = [statusCodes EXCEPT ![r.statusCode] = @ + 1]
              /\ UNCHANGED <<failedRequests, errors>>

\* A result is received: totals, interval, latency bounds and reservoir.  The
\* OnRequest of every connector does nothing.
CollectResult ==
    /\ Collecting /\ totalRequests < MaxResults
    /\ \E r \in Results(engine) :
         LET failed == r.error # Nil
             d      == r.duration
         IN  /\ CountResult(r)
             /\ minLatency' = Lower(minLatency, d)
             /\ maxLatency' = Higher(maxLatency, d)
             /\ interval' = [requests |-> interval.requests + 1,
                             success  |-> interval.success + (IF failed THEN 0 ELSE 1),
                             failure  |-> interval.failure + (IF failed THEN 1 ELSE 0),
                             min      |-> Lower(interval.min, d),
                             max      |-> Higher(interval.max, d),
                             total    |-> interval.total + d]
             /\ AddLatencySample(d)
             /\ seen' = [seen EXCEPT ![d] = @ + 1]
    /\ UNCHANGED <<engine, workerSamples, shown, summary>>

\* OnInterval of the ConsoleConnector: it adds the interval to its totals.
OnInterval ==
    shown' = [requests |-> shown.requests + interval.requests,
              success  |-> shown.success + interval.success,
              failure  |-> shown.failure + interval.failure]

\* Mutant: the reset after a report forgets the failures.
TickKeepsFailures ==
    /\ Collecting /\ workerSamples.count < MaxTicks
    /\ \E w \in WorkerCounts :
         workerSamples' = [sum   |-> workerSamples.sum + w,
                           count |-> workerSamples.count + 1]
    /\ OnInterval
    /\ interval' = [EmptyInterval EXCEPT !.failure = interval.failure]
    /\ UNCHANGED <<engine, statVars, summary>>

\* The interval ticker: sample the worker count, report the interval to the
\* console, which adds it to its totals, and start the next interval.
Tick ==
    /\ Collecting /\ workerSamples.count < MaxTicks
    /\ \E w \in WorkerCounts :
         workerSamples' = [sum   |-> workerSamples.sum + w,
                           count |-> workerSamples.count + 1]
    /\ OnInterval
    /\ interval' = EmptyInterval
    /\ UNCHANGED <<engine, statVars, summary>>

-----------------------------------------------------------------------------
(* The end *)

\* Mutant: the index counts from one.
PercentileOffByOne(q) ==
    LET idx == (Size(samples) * q) \div 100 - 1
    IN  CHOOSE v \in Latencies : /\ idx < UpTo(samples, v)
                                 /\ \A u \in Latencies :
                                      u < v => UpTo(samples, u) <= idx

\* The sample at index len*q/100 of the sorted samples, counted from zero: the
\* least latency that more than so many samples do not exceed.
Percentile(q) ==
    LET idx == (Size(samples) * q) \div 100
    IN  CHOOSE v \in Latencies : /\ idx < UpTo(samples, v)
                                 /\ \A u \in Latencies :
                                      u < v => UpTo(samples, u) <= idx

\* Mutant: the total of the samples over the number of all requests.
AverageOverAll ==
    SumFunction([d \in Latencies |-> d * samples[d]]) \div totalRequests

\* An average over the samples, rounded down; 0 stands for an unset field.
AverageLatency ==
    SumFunction([d \in Latencies |-> d * samples[d]]) \div Size(samples)

\* The results channel is closed and empty: finalizeStats and OnComplete.
Finalize ==
    /\ Collecting
    /\ LET some == totalRequests > 0
       IN  /\ minLatency' = IF some THEN minLatency ELSE 0
           /\ summary' =
                [total |-> totalRequests, success |-> successRequests,
                 failed |-> failedRequests, statusCodes |-> statusCodes,
                 errors |-> errors,
                 min |-> IF some THEN minLatency ELSE 0, max |-> maxLatency,
                 avg |-> IF some THEN AverageLatency ELSE 0,
                 p50 |-> IF some THEN Percentile(50) ELSE 0,
                 p95 |-> IF some THEN Percentile(95) ELSE 0,
                 p99 |-> IF some THEN Percentile(99) ELSE 0,
                 avgWorkers |-> workerSamples]
    /\ UNCHANGED <<engine, totalRequests, successRequests, failedRequests,
                   statusCodes, errors, maxLatency, samples, seen, interval, workerSamples,
                   shown>>

\* collectResults has returned.
Finished == ~Collecting /\ UNCHANGED vars

Next == CollectResult \/ Tick \/ Finalize \/ Finished

Spec == Init /\ [][Next]_vars

-----------------------------------------------------------------------------
(* Properties *)

Counts == [requests : Nat, success : Nat, failure : Nat]

\* Every variable has its type.
TypeOK ==
    /\ {totalRequests, successRequests, failedRequests} \subseteq Nat
    /\ statusCodes \in [StatusCodes -> Nat] /\ errors \in [Errs -> Nat]
    /\ minLatency \in Latencies \cup {Forever} /\ maxLatency \in Latencies
    /\ samples \in [Latencies -> Nat] /\ seen \in [Latencies -> Nat]
    /\ interval \in [requests : Nat, success : Nat, failure : Nat,
                     min : Latencies \cup {Forever}, max : Latencies, total : Nat]
    /\ workerSamples \in [sum : Nat, count : Nat] /\ shown \in Counts

\* The breakdowns of the statistics agree with the totals: every result is in
\* exactly one of success and failure, and under one status code or error.
BreakdownsAgree ==
    /\ totalRequests = successRequests + failedRequests
    /\ successRequests = Size(statusCodes)
    /\ failedRequests = Size(errors)

\* The live totals of the console and the interval in progress make up the
\* statistics: no result is in two intervals or falls between two, whatever
\* the order in which results and ticks are received.
LiveTotalsAgree ==
    /\ shown.requests + interval.requests = totalRequests
    /\ shown.success + interval.success = successRequests
    /\ shown.failure + interval.failure = failedRequests

\* The reservoir holds latencies that were seen, no more often than seen, all
\* of them as long as they fit, and never more than SampleSize.
ReservoirSound ==
    /\ \A d \in Latencies : samples[d] <= seen[d]
    /\ Size(samples) = Lower(SampleSize, totalRequests)

\* The summary is consistent although its fields come from different sources
\* (bounds over all results, average and percentiles over the reservoir, min
\* from a sentinel that must not survive a run without results).
SummaryOrdered ==
    ~Collecting =>
      /\ summary.min <= summary.p50 /\ summary.p50 <= summary.p95
      /\ summary.p95 <= summary.p99 /\ summary.p99 <= summary.max
      /\ summary.min <= summary.avg /\ summary.avg <= summary.max

\* A reported percentile q has at most q percent of the samples below it, and
\* more than q percent up to it.
PercentilesCorrect ==
    ~Collecting /\ totalRequests > 0 =>
      \A q \in {50, 95, 99} :
        LET p == CASE q = 50 -> summary.p50 [] q = 95 -> summary.p95
                   [] q = 99 -> summary.p99
        IN  /\ 100 * Below(samples, p) <= q * Size(samples)
            /\ q * Size(samples) < 100 * UpTo(samples, p)

\* What the guide to the program's output says: "Success rate (2xx
\* responses)".  The collector counts every response as a success.
SuccessMeans2xx ==
    engine = "http" => successRequests <=
      SumFunctionOnSet(statusCodes,
                       {c \in StatusCodes : c = 0 \/ (200 <= c /\ c < 300)})
=============================================================================
