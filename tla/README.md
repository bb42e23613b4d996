# A TLA+ development of taiko

taiko is a load generator: it reads a YAML configuration, builds an engine for
HTTP, gRPC or Kafka, and lets a pool of worker goroutines send requests at a
configured rate while a scaler adjusts how many workers there are. This
directory holds models of it, the TLC runs that check them, and proofs checked
by TLAPS. Paths below are relative to `src/`.

## 1. The system

| Component | State | Operations | Talks to |
|---|---|---|---|
| Program, `cmd/main.go` | configuration, context, signal channel | load, merge, validate, build, run, close | engine registry, OS signals |
| Configuration, `internal/config` | none | find the file, parse and validate targets | files, environment |
| Engines, `internal/engine/{http,grpc,kafka}` | clients or connections, substitutor, pool | construct, `Run`, `doWork`, `Close` | pool (callback `doWork`), metrics connector, network |
| Worker pool, `internal/engine/pool/pool.go` | `activeWorkers`, `requestCounter`, `workerWg`, channels `workerControl` and `results` | `Run`, `worker`, `Close` | scaler, collector, limiters, `doWork` |
| Dynamic scaler, `pool/scaler.go` | previous rate and count, stall counter, ceiling flag | one check per tick, `addWorkers`, `removeWorkers` | pool counters, `workerControl`, `workerWg` |
| Result collector, `pool/collector.go` | `stats`, interval counters, latency reservoir | receive a result, tick, finalize | `results`, connector |
| Target selection, `pool/target.go` | none | weighted random choice | workers |
| Connectors, `internal/metrics` | console totals; the others are stubs | `OnInterval`, `OnComplete` | collector, display |
| Generators, `internal/generator`; substitutor | one atomic counter per sequence | `Next`, `NewValues`, `Apply` | all workers |
| Avro, `kafka/avro` | schema | encode; fetch a schema at construction | registry service |

Hard behaviours, in the order of their importance:

1. *Shutdown.* The context ends while workers are in requests, the scaler is in
   the middle of adding or removing workers, and the collector has results
   queued. Run closes one channel, waits, closes the other, waits again.
   Correct: it ends, no send on a closed channel, no result lost, returned
   statistics final.
2. *Scaling.* Decisions on a count read earlier, over many checks. Correct:
   concurrency bounded, never as many stop signals as workers (which only holds
   while checks are prompt), ceilings neither spurious nor lost.
3. *Collecting.* Results and ticks in any order, a reservoir at its limit.
   Correct: totals, interval reports and summary agree.
4. *Construction.* A step fails after others have acquired something. Correct:
   everything is given back once, load never runs on half an engine.
5. *Generating.* Sequence counters shared by all workers, several templates
   filled from one draw, integers and floats of limited width. Correct: no value
   twice in a round, one request from one draw, identities kept where the
   template shows them and the encoding has them.
6. *Pacing.* One limiter per target under all workers, with a deadline.
   Correct: no target is overdriven, nobody gives up before it has to.
7. *Configuring.* Precedence of files, values of unexpected types, proto files
   that import one another, targets that share a client. Correct: what runs is
   what the file declares.

## 2. Modules

| Module | Models | Code |
|---|---|---|
| `WorkerPool` | Run, workers, the scaler's steps, the collector's loop | `pool/pool.go`, `pool/scaler.go`, loop of `pool/collector.go` |
| `ResultLedger` | abstract: what the pool promises about results | - |
| `Scaler` | the steps of a check, its policy and memory, under workers that run on | `pool/scaler.go`, loop of `worker` |
| `Collector` | statistics, intervals, reservoir, summary | `pool/collector.go`, `metrics/console.go`, the `doWork` functions |
| `FixedWidth` | Go's `int`, `float64` and `float32` at a small width | - |
| `Generators` | the constructors and `Next` functions, on any width | `generator/generator.go` |
| `Avro` | schemas, `coerceTypes`, `Encode` | `kafka/avro/serializer.go` |
| `Requests` | workers from token to request: limiters, target choice, generators, templates, encoding | `pool/pool.go`, `pool/target.go`, `substitutor.go`, `doWork` of the engines |
| `Configuration` | what a file means: precedence, parsers, `Validate`, schemas, methods | `config/config.go`, `kafka/avro/registry.go`, `resolveMethodTypesFromProto` |
| `Session` | main, the three constructors, Close, signals | `cmd/main.go`, the engines |
| `WorkerPoolProofs`, `ScalerProofs`, `RequestsProofs`, `SessionProofs`, `CollectorProofs` | the theorems | - |
| `AvroProofs`, `ConfigurationProofs` | lemmas about the operators of `Avro` and `Configuration` | - |
| `ArithmeticTheorems` | lemmas about numbers and sums, induction | - |
| `MC*` | instances for TLC | - |

**WorkerPool.** Each goroutine is a program counter: `run`, `scaler`,
`collector`, and `pc[w]` for workers. A step is what happens between two points
where another goroutine can interfere: the two deferred calls of a worker are
two steps, an iteration of `addWorkers` is two (the atomic increment, then
`workerWg.Add` and `go`), an iteration of `removeWorkers` is one. The channels
are a count and a closed flag; `workerControl` only ever carries `false`. The
wait group follows Go's: `Wait` on a zero counter returns at once, otherwise it
parks, and both a woken waiter that finds the counter reused and an `Add` from
zero under a parked waiter panic. A panic ends the process: nothing but
`Terminated` is enabled after it. A worker identity is free again when its
goroutine has ended, so `Workers` bounds the goroutines that exist together,
not how many are ever started. The scaler's decision is any that its policy
could take: `Scaler` says which, and `ChecksWithinContract` there is what
`WorkerPool` assumes.

**Scaler.** A check takes several steps: it reads `activeWorkers`
(`ReadWorkers`), then `requestCounter`, from which it decides everything
(`Check`), and then adds its workers or sends its stop signals, one at a time
(`AddWorker`, `SendSignal`). Log writes that may block lie in between, so the
workers run on between any two of these steps (`Serve`): they count requests,
come back to their select and take a signal if there is one, or leave without,
because the wait for a token fails or the context has ended. A worker that has
counted a request need not be back at its select (`returning`); one that is
there takes a waiting signal before it begins another request. `n` is the part
of `requestCounter` since the last check. Rates are doubled counts, so that
`actualRPS >= 0.98 * targetRPS` becomes a comparison of integers; a truncated
quotient of floats may be the exact integer or one less, and the model allows
both. `mark`, `lost` and `late` are history variables: `late` is set when
requests ended between the reading of the counters and a signal, more than are
due in three hundredths of a second (`Fresh`). `LinearSpec` is the same scaler
against a service that gives each worker a fixed rate. Shutdown, the wait group
and the peak are in `WorkerPool`.

**Collector.** Results come from the outcomes that `doWork` of the run's
protocol can produce. The reservoir is a bag, since only its sorted contents
are used; which sample is replaced, and whether one is, is a free choice.
`seen` is a history variable.

**Requests.** It looks into the step that `WorkerPool` calls a request. A worker
chooses a target, books a token of its limiter, waits, draws a value from every
generator (one step per generator, since another worker may come between),
fills and encodes what the engine sends, and starts again. Time is discrete and
may pass between any two steps. A limiter, with its burst of one, is the
instant at which its next free token falls due; a booking for an instant after
the deadline fails at once, and the worker is gone. The sequence counters are
shared; the others keep no state. A template is a sequence of placeholders and
texts, and `Apply` concatenates what they become: a text is a sequence of
symbols, and `Spelling` says what `%v` prints for a value. So `{{a}}{{b}}` may
come out the same for different values, as in the code. `JSON` reads a text
back: strings without escapes and integers, everything else is invalid there.
`begun`, `drawn`, `sent` and `calls` are history variables. `Generators` and
`Avro` are pure: sequence values, `span` and its overflow, the coercion of JSON
numbers to the Go types that a schema wants, on integers of any width; float64
and float32 have the integers up to a limit each, and round to even above it.

**Configuration.** A raw value is what yaml makes of a text: a record with its
dynamic type. The parsers pick what has the expected type and drop the rest,
as the code does; a nested map comes with keys of any type, the way yaml.v2
makes it, or with strings only. `FindMethod` is the depth-first search through
proto files with its set of visited paths; a call of it is a record of the files
that are still to be searched and of those visited (`SearchFile`). `Compiles` is
what the search may rely on: the compiler accepts only files that are all there
and declare no service twice.

**Session.** One step per part of main or of a constructor that can fail. The
initial states are worlds: arguments, environment variable, files by path, some
unreadable, proto files and their imports. A resource is a name with two
counters, opened and closed. What is external (resolving a host, dialling,
reflection, a schema registry) may succeed or fail. The run is one step with
the outcomes `WorkerPool` has: it returns because the duration is over, because
it was cancelled, or it panics.

How they compose: `Session` validates what the others assume (`RunsComplete`
gives positive rates and a duration), `WorkerPool` runs the pool that `Session`
builds, under the contract of `Scaler`; `Requests` is what happens inside a
request, `Collector` what becomes of its result.

## 3. Runs

| Run | Checks | Result |
|---|---|---|
| `pool_safety` | types, `QuiescentAfterWait`, `PanicOnlyInShutdown`, `ConcurrencyBounded`, `ResultsAccounted`, `StatsFrozen`, `ImplementsLedger` | hold, 626,048 states |
| `pool_liveness` | `ShutdownCompletes` | holds, 75,536 states |
| `pool_graceful` | `GracefulShutdown` | violated |
| `pool_outlives` | `NoWorkerOutlivesWait` | violated |
| `scaler_policy` | types, `FreshChecksKeepPool`, `ChecksWithinContract`, `CeilingLiftedAtTarget`, `NoProjectedOvershoot` | hold, 397,879 states |
| `scaler_emptied` | `PoolNeverEmptied` | violated |
| `scaler_ceiling` | `NoFalseCeiling` | violated |
| `collector` | types, `BreakdownsAgree`, `LiveTotalsAgree`, `ReservoirSound`, `SummaryOrdered`, `PercentilesCorrect` | hold, 147,588 states |
| `collector_2xx` | `SuccessMeans2xx` | violated |
| `requests` | types, `RangesInclusive`, `SharesExact`, `EncodesConforming`, `PanicOnlyIfTooWide`, `EachValueOncePerRound`, `LockStep`, `RequestsConsistent`, `IdentitiesDistinct`, `RateKept`, `LeavesLate` | hold, 643,511 states |
| `session` | types, `ReleasedOnce`, `RunsComplete`, `RunsAsDeclared`, `MethodsFound`, `TimeoutsGranted`, `InterruptEndsRun` | hold, 47,564 states |
| `session_settings` | `SettingsAccepted` | violated |

The violated properties are statements of a comment, a log message or a
document, and each run is a disagreement between it and the code; see
"findings" in `PROJECT.json`. In short: the process can panic on a channel that
Run closes under the scaler; workers can be started after the wait for them;
stop signals that are sent late can stop every worker, and an empty pool stays
empty; the first windows are not of two seconds, which can make scaling look
stalled when it is not; a 500 counts as a success; a configuration with `metrics.config` panics.
Five more were met while modelling and have no run of their own: eleven workers
are scaled down to nine although the branch is to keep a minimum; a range wider
than half the integers makes a generator panic or skip values; a union takes
its first member that is not null, whatever the data; a timestamp without a
format is refused although the table gives it a default; an HTTP timeout below
the longest one, or below 30 seconds, is not applied.

What the two runs about stop signals show: a check counts workers that have a
signal waiting. As long as a worker that passes its select takes one, a window
that is over target has used the signals up, and the next scale-down is decided
on a count without them. A revert whose signals are sent late breaks that: the
requests that end before the signals exist put the next window over target, and
the scale-down that follows is decided on a count that includes every worker
just told to stop. In `scaler_emptied` 9 of 11 are reverted and 2 scaled down.
By the same arithmetic, with the limits of the code, at 30 requests per second:
30 of 40, and then a quarter of 40. `scaler_policy` shows that it takes
lateness: while all checks are prompt (`~late`), the signals never reach the
number of workers.

What `requests` shows: workers that advance the same sequences in any order
repeat no value before the range is used up, and two sequences in one request
stay in step (`LockStep`) because every request draws from all generators.
Key, value and headers of a record come from one draw. Different draws stay
different as long as the text shows the value (`Shows`: nothing before the
placeholder varies, and what follows cannot continue the value) and the
encoding preserves it (`Preserves`: a string, or an integer that stands alone
and that float64, and float32 for a float schema, have). Both conditions are
needed: the run has `{{id}}{{user}}` as a key, where (1,3) and (3,1) print the
same, and keys beyond the exact floats with a long and with a float schema, and
there the property fails without them. A
worker leaves only when the next token really is due after the deadline. The
generators, the choice of a target and the encoding agree with their
definitions on every small input (`RangesInclusive`, `SharesExact`,
`EncodesConforming`, `PanicOnlyIfTooWide`).

What `session` shows besides resources: the configuration that runs is that of
the flag before the environment before the default path, whole or not at all,
and each built target has the rate, headers, schemas, brokers and method source
of its raw form. The search for a method agrees with reachability, for all ways
in which up to three files import each other without a cycle (the compiler
refuses cycles).

**Bounds.**

- *Pool.* The limits of the code (10, 500, 10, 1/4, 1000, 10000) are constants
  scaled down so that each is reached: the control channel has room for one
  signal, the results channel for one result, one check adds up to two workers.
  The safety run has four identities, one more than `ConcurrencyBounded` allows
  to be active, so that the bound of the model does not stand in for the policy;
  an initial worker, a late one and one in a request coexist at shutdown.
  `MaxRequests` cuts off the counting of requests; no action tests the counter
  for anything else, and workers already in a request take it past the bound.
  Symmetry in the workers is used for the safety run only; the liveness run has two workers and no symmetry.
- *Scaler.* In `scaler_policy` the limits of ten are scaled down to two and the
  control channel to four, at a rate of four, so that the cap, the floor, the
  full channel, reverts and scale-downs are a few workers apart although every
  signal is a step. `MCRequests` has zero, a trickle, a count just below the
  target, the target itself and an excess; at most one worker leaves without a signal
  (`MaxLost`). At a rate of four, fresh means no request at all: how `late` is
  weighed at higher rates (one request from 34 on) is left to the proof.
  `scaler_emptied` has a rate of nine and two request counts, `scaler_ceiling` the
  limits of the code with 100 requests per second and 5 per worker, where the
  false stall shows.
- *Collector.* A reservoir of three and up to five results, so that replacement
  happens twice; three latencies including the 0 of a request that was not sent;
  statuses 200 and 500; two ticks in any position.
- *Requests.* Three workers, two targets with rates 2 and 1, a second of two
  instants and a duration of one second: bookings pile up on both limiters and
  some fail at the deadline. Integers up to 7, exact float64 up to 4 and
  exact float32 up to 2 put overflow and rounding within reach, and numbers are
  spelled in base two, so that small ones have several digits. Eighteen
  configurations cover the three engines, one and two sequences of equal and
  different lengths, a range that is too wide, a dashed name, placeholders next
  to each other and apart, schemas for key and value, quoted and not. Symmetry in the workers;
  no liveness is checked there.
- *Session.* Three targets: a failure with none, one and two built before it.
  3212 worlds: one odd target alone, after one and two plain ones and before
  one, in the file of the flag; every combination of arguments, variable and
  files present or unreadable; every acyclic import graph of three files with
  the service in any of them (if in two that are reached, they do not compile).

**Fairness.** `pool_liveness` assumes that the Go scheduler runs every
goroutine that can run (weak fairness of Run, of the scaler's work, of every
worker and of the collector), that the context ends (it has a deadline), and
that `Limiter.Wait` and `doWork` return: both get the context. The scaler's
select is strongly fair towards the context: when a tick is ready too, `select`
picks one at random, and ticks come only every two seconds. `session` assumes
weak fairness of main's way to the end and of the signal goroutine; nothing is
assumed of the duration, so `InterruptEndsRun` is due to the interrupt.

Deadlock is checked in all runs: a process that is over stutters explicitly.

## 4. Proofs

Every safety property of every passing run is a theorem: each run shows it on a
small instance, the theorem for every value of the constants.

`WorkerPoolProofs` proves, for any finite set of workers and any limits, every
safety property of `pool_safety`, the action property `StatsFrozen` and the
refinement of `ResultLedger`. Its inductive invariant strengthens the types by

- `CountInv`: `activeWorkers` and `wgCount` are the numbers of goroutines at
  the points they count, plus one while `addWorkers` is between its two halves;
- `PhaseInv`: how far Run is determines what is closed and, once the wait has
  been left, that no worker is in a request: one that is started later is at
  its select with the context done, so it can only leave;
- `BoundInv`: a check in progress decided on a count the pool still had;
- `AccountInv`: a counted result is in the statistics, in the channel, with a
  worker that is sending it, or was given up after cancellation.

None of the properties is inductive alone: that a send never meets a closed
channel, for example, needs that late workers cannot begin a request.

`ScalerProofs` proves all properties of `scaler_policy` for any rate, limits,
channel capacity and set of request counts. Its invariant relates what the
checks remember (`CeilingInv`, `StallInv`, `WorkersInv`) and, as long as no
check was late, the signals to the workers:

- `DrainInv`: while signals wait, every worker that passes its select takes one,
  so no more requests can be counted than were fresh when the signals were sent,
  plus one by every worker: a window over target means the signals are gone;
- `SeenInv`: the worker count that a check has read is still right, or its window
  was not over target;
- `SignalsInv`: the signals sent and still to be sent are fewer than the workers,
  and than those that a suspected stall would go back to.

`FreshChecksKeepPool` is not inductive without them: a revert is decided on a
stall begun checks before. The estimates need a lemma on truncated quotients.

`CollectorProofs` proves all properties of `collector`, for any latencies, codes,
messages and size of the reservoir.

- `LiveTotalsAgree` and `BreakdownsAgree`: each result moves one counter in each
  breakdown, and a sum moves with one of its terms.
- `ReservoirSound`: no latency is more often in the reservoir than it was seen
  (`SamplesSeen`), and the reservoir holds as many as there were requests, up to
  its size (`ReservoirFull`).
- `PercentilesCorrect`: the sample at a position of the sorted reservoir is the one
  latency with at most that many samples below it and more up to it (`At`), and
  both counts are sums over the reservoir (`Below`, `UpTo`).
- `SummaryOrdered`: bounds and percentiles come from different sources, and are
  ordered because every latency seen lies within the bounds
  (`SeenWithinBounds`). `Summarised` says what the summary was computed from.

`RequestsProofs` proves all properties of `requests`, for any width of integers,
any rates, duration, number of workers and configurations:

- `LockStep`: the sum of a sequence's counter and of the workers that still have
  to call it is the same for all sequences (`InStep`);
- `EachValueOncePerRound`: the k-th value drawn is what the sequence returns
  when it is called by itself (`DrawnInv`), whoever called;
- `RateKept` and `LeavesLate`: all tokens handed out fit before the next free
  one, those that fall due by now before now, and as long as nobody has given
  up its place, each period up to the next free token has its waiting worker
  (`RateInv`);
- `RangesInclusive` and `PanicOnlyIfTooWide`: arithmetic on the overflowing
  span; what the constructors refuse is enough (`PanicInv`);
- `RequestsConsistent`: what a worker has drawn is from the generators of its own
  configuration, one value for each name, and what was sent was filled from one
  such draw (`ConsistentInv`), whatever texts the values print as;
- `IdentitiesDistinct`: in its first round a value of a sequence belongs to one
  owner, the worker that drew it or the one request that was sent with it
  (`OneOwner`). That two texts which show different values differ is proved from
  the concatenation: the part before the placeholder is the same in both, and
  where the two spellings differ in length, the shorter one is followed by a
  symbol that the longer one does not have. The floats that `Preserves` asks for are those on
  which rounding is the identity, and JSON reads a spelling back as its number;
- `SharesExact`: how many points of `rand.Intn` choose a target is the difference
  of two running totals;
- `EncodesConforming`: `coerceTypes` is defined on every schema and datum
  (`AvroProofs`), and the encoder accepts its result exactly if the datum
  conforms; one lemma per kind of schema.

`SessionProofs` proves all safety properties of `session`, for any worlds and any
number of targets. The invariant says what the process owns at each point of
main (`Owned`): opened is one there and zero elsewhere, closed is zero until the
end. Every failing step closes what is owned, but for the connector. `Progress`
carries what validation has established to the run. `Declared` says that the
targets are the parsed ones of the file that was asked for, and what each built
target has of its own; with the lemmas of `ConfigurationProofs` on the parsers
this is `RunsAsDeclared`. For `MethodsFound`, `Searching` is what holds at every
call of the search: the roots, and what visited files import, are visited or
still to be searched, all of that is reachable, and no visited file has the
service. So an empty list means that the visited files are all that is
reachable, and the file where the search stops is the only one that counts.

**How recursion is proved about.** The provers cannot instantiate a rule that
takes a predicate, so `ArithmeticTheorems` states induction over numbers and over
finite sets for *sets*: to show P for all n, one takes `{n \in Nat : P}`. A
recursive function is a CHOOSE of a solution of its equation: first a solution
is shown to exist, by the same induction (for sums `SumsExist`, for the search
`CallsExist`, from a measure that falls with every call), then it is shown to have
the property. No definition that is proved about is a RECURSIVE operator: `Coerce` of
`Avro` is a recursive function on schemas of bounded depth.

**Assumptions** on constants are named, in the module that declares them, and
evaluated by TLC on its instances:

- `PoolAssumption`, `ScalerAssumption`, `WidthAssumption`, `RequestsAssumption`,
  `SessionAssumption`: limits are positive, rates are positive after validation
  (which is `RunsComplete`), yaml decodes targets to a list;
- `CollectorAssumption`: latencies are below the initial minimum 1<<63-1; a run
  meets finitely many messages, and status codes have three digits;
- `TemplatesAssumption`: a configuration has a template for each place of its
  engine, and the schemas that `Requests` has are primitive types;
- `SpellingAssumption`: what is printed for the values of one variable is not
  empty and differs from value to value, as it does between integers, and an
  integer is printed without quotes (a set of strings that prints two of them
  alike lists one twice);
- `InvalidAssumption`, `PanicAssumption`: an error is none of the values;
- `ConfigurationAssumption`, `TargetsAssumption`: no map or schema that yaml
  makes of a target is nil, and an int is a number;
- `ProtosAssumption`: there are finitely many proto files, and one that compiles
  imports files that are there.

**Only model-checked**: liveness under fairness (`ShutdownCompletes` and
`InterruptEndsRun`), which the prover does not do, and what the violated runs
show, which needs one behaviour.

## 5. Not modelled

Real time (only its order, and the instants of the limiters); the exchange with
the service under test, with proto compilers, reflection and registries; the
text of YAML, and of JSON beyond integers and strings without escapes; the display and its wording; the Prometheus and S3 stubs
and the registries, which are constant maps. In `Avro`: fractions, the bits of floats (only which
integers they have), the range of int32, the bytes that are written, and schemas other than those of
`Avro!Schemas`. In `Generators`: the bits of a UUID and the layout of times, and
the wrap of a 64-bit counter. The probability of the reservoir and of target
selection: the model has all outcomes, not their frequency. Header values that
are templates are filled in Kafka and gRPC but not in HTTP, which is in
`Requests`; that is as the documentation has it.

## 6. Plan

1. A refinement between `Scaler` and the checks of `WorkerPool`, in place of
   the contract property.
2. The reservoir's acceptance counted over all orders, so that each latency has
   the same share of outcomes.
3. The safety part of the shutdown argument (which step every goroutine still
   has to take) as an invariant, so that only fairness is left to TLC.
