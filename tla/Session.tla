------------------------------- MODULE Session -------------------------------
(***************************************************************************)
(* One execution of the program: main loads and checks a configuration,    *)
(* builds the engine of its protocol, runs it under a context that the     *)
(* signal goroutine cancels, and closes it (cmd/main.go, the constructors  *)
(* and Close of internal/engine/{http,kafka,grpc}/engine.go).              *)
(*                                                                         *)
(* What a construction acquires step by step, a later failing step has to  *)
(* give back.  Module Configuration says what the files mean.  The run is  *)
(* one step here; module WorkerPool has it.                                *)
(***************************************************************************)
EXTENDS Configuration

CONSTANTS
    MaxTargets,  \* bound on the targets of a configuration
    Worlds       \* what the process may be started in

\* A world has the arguments, the environment variable, the configuration
\* files by path, Nil for one that cannot be read, the proto files that compile
\* by path, and the paths of other files.  A configuration has an engine, raw targets, a
\* duration, the type of its metrics, whether metrics.config has entries, and
\* whether every variable has a usable generator.
ASSUME SessionAssumption ==
    /\ MaxTargets \in Nat \ {0}
    /\ \A world \in Worlds : \A p \in DOMAIN world.files :
         world.files[p] # Nil => /\ DOMAIN world.files[p].targets \in
                                       {1 .. n : n \in 0 .. MaxTargets}
                                /\ world.files[p].settings \in BOOLEAN
                                /\ world.files[p].variables \in BOOLEAN

\* Raw targets are what yaml makes of them.
ASSUME TargetsAssumption ==
    \A world \in Worlds : \A p \in DOMAIN world.files : world.files[p] # Nil =>
      \A i \in DOMAIN world.files[p].targets : IsRaw(world.files[p].targets[i])

\* The proto files of a world are finitely many.  One that imports a file that
\* is missing does not compile.
ASSUME ProtosAssumption ==
    \A world \in Worlds :
      /\ IsFiniteSet(DOMAIN world.protos)
      /\ \A p \in DOMAIN world.protos :
           world.protos[p].imports \in Seq(DOMAIN world.protos)

\* What an engine may hold: one connection per gRPC target, the Kafka client,
\* the metrics connector.
Conns(k)  == {<<"conn", i>> : i \in 1 .. k}
Client    == <<"client", 0>>
Connector == <<"connector", 0>>
Resources == Conns(MaxTargets) \cup {Client, Connector}

\* The &config.Config{} that loadConfig starts from.
EmptyConfig == [engine |-> "", targets |-> <<>>, duration |-> "", metrics |-> "",
                variables |-> TRUE]

\* An engine in construction: its targets, the brokers that they name, and the
\* timeout of the HTTP client.
NoEngine == [targets |-> <<>>, brokers |-> <<>>, timeout |-> DefaultTimeout]

VARIABLES
    world,     \* what the process was started in
    cfg,       \* main's configuration
    main,      \* where main is
    eng,       \* the engine as far as it is built
    opened,    \* how often each resource was opened
    closed,    \* how often each resource was closed
    notified,  \* signal.Notify was called
    sigChan,   \* signals buffered in sigChan
    handler,   \* where the signal goroutine is
    cancelled, \* ctx is cancelled
    exit       \* how the process ended, or "none"

setupVars  == <<world, cfg, eng>>
signalVars == <<notified, sigChan, handler, cancelled>>
vars == <<setupVars, main, opened, closed, signalVars, exit>>

Init ==
    /\ world \in Worlds
    /\ cfg = EmptyConfig /\ main = "load" /\ eng = NoEngine
    /\ opened = [r \in Resources |-> 0] /\ closed = [r \in Resources |-> 0]
    /\ notified = FALSE /\ sigChan = 0 /\ handler = "none"
    /\ cancelled = FALSE /\ exit = "none"

built == Len(eng.targets)

Times(S, f) == [r \in Resources |-> f[r] + (IF r \in S THEN 1 ELSE 0)]
Open(S)     == opened' = Times(S, opened) /\ UNCHANGED closed
Close(S)    == closed' = Times(S, closed)

\* os.Exit(1), after an error path that closed the resources S.
Fail(S) ==
    /\ main' = "exited" /\ exit' = "failed" /\ Close(S)
    /\ UNCHANGED <<setupVars, opened, signalVars>>

\* main goes on to its next point.
Continue(point) ==
    /\ main' = point
    /\ UNCHANGED <<setupVars, opened, closed, signalVars, exit>>

-----------------------------------------------------------------------------
(* loadConfig and validateConfig *)

There    == DOMAIN world.files \cup DOMAIN world.protos \cup world.schemas
FlagPath == ParseConfigFileFlag(world.args)
Path     == FindConfigFile(FlagPath, world.env, There)
Readable == Path # "" /\ Path \in DOMAIN world.files /\ world.files[Path] # Nil

\* No file, or one that was asked for by flag and cannot be loaded.
LoadFails ==
    /\ main = "load"
    /\ Path = "" \/ (~Readable /\ FlagPath # "")
    /\ Fail({})

\* A file of the environment or the default path that cannot be loaded is
\* only warned about: main goes on with the empty configuration.
LoadSkipped ==
    /\ main = "load" /\ Path # "" /\ ~Readable /\ FlagPath = ""
    /\ Continue("validate")

\* ParseTarget knows no parser for the protocol; the parsers drop what they
\* do not understand, and never fail.
ParseFails(c) == c.targets # <<>> /\ c.engine \notin Parsers

Parsed(c) == [i \in DOMAIN c.targets |-> ParseTarget(c.engine, c.targets[i])]

\* Validate refuses a target.
InvalidTarget(c) == \E i \in DOMAIN c.targets : ~Valid(c.engine, c.targets[i], There)

\* The file is merged into cfg.  Its targets are parsed and validated first;
\* then any entry of metrics.config is stored in a map that is nil.
LoadMerges ==
    /\ main = "load" /\ Readable
    /\ LET f == world.files[Path]
           c == [EmptyConfig EXCEPT !.engine = f.engine, !.targets = Parsed(f),
                                    !.duration = f.duration, !.metrics = f.metrics,
                                    !.variables = f.variables]
       IN  IF ParseFails(f) \/ InvalidTarget(c)
             THEN Fail({})
             ELSE /\ IF f.settings
                       THEN main' = "exited" /\ exit' = "nil map" /\ UNCHANGED cfg
                       ELSE main' = "validate" /\ cfg' = c /\ UNCHANGED exit
                  /\ UNCHANGED <<world, eng, opened, closed, signalVars>>

LongEnough(duration) ==
    duration \in DOMAIN Durations /\ Durations[duration] >= Second

\* Mutant: the lower limit of the duration is dropped.
ValidateAnyDuration ==
    /\ main = "validate"
    /\ IF cfg.targets = <<>> \/ InvalidTarget(cfg) \/ cfg.duration \notin DOMAIN Durations
         THEN Fail({})
         ELSE Continue("targets")

\* Targets are required, all valid, for at least a second.  So engine.Get finds
\* the engine, and its constructor targets and a duration that parses.
Validate ==
    /\ main = "validate"
    /\ IF cfg.targets = <<>> \/ InvalidTarget(cfg) \/ ~LongEnough(cfg.duration)
         THEN Fail({})
         ELSE Continue("targets")

\* A file of a target is gone since it was looked for.
FileGone ==
    /\ main = "validate"
    /\ \E i \in DOMAIN cfg.targets : FilesOf(cfg.engine, cfg.targets[i]) # {}
    /\ Fail({})

\* A host name of an HTTP target does not resolve to a private address.
HostRefused == main = "validate" /\ cfg.engine = "http" /\ Fail({})

-----------------------------------------------------------------------------
(* The constructors *)

\* closeConnections(grpcTargets), in the gRPC engine only.
Connections == IF cfg.engine = "grpc" THEN Conns(built) ELSE {}

\* The Kafka client, in the Kafka engine only.
KafkaClient == IF cfg.engine = "kafka" THEN {Client} ELSE {}

\* The loop of the constructor is at its next target, which is one of engine e.
Builds(e)  == main = "targets" /\ built < Len(cfg.targets) /\ cfg.engine = e
NextTarget == cfg.targets[built + 1]

AddTo(e, t) == [e EXCEPT !.targets = Append(@, t)]
Extend(e) ==
    /\ eng' = e
    /\ UNCHANGED <<world, cfg, main, opened, closed, signalVars, exit>>

\* Mutant: the client gets the timeout of the last target.
BuildHTTPLast ==
    /\ Builds("http")
    /\ IF NextTarget.url = "" \/ NextTarget.rps <= 0
         THEN Fail({})
         ELSE Extend([AddTo(eng, [rps |-> NextTarget.rps,
                                  headers |-> NextTarget.headers])
                        EXCEPT !.timeout = Timeout(NextTarget)])

\* An HTTP target.  The client will have the longest timeout of all.
BuildHTTP ==
    /\ Builds("http")
    /\ IF NextTarget.url = "" \/ NextTarget.rps <= 0
         THEN Fail({})
         ELSE Extend([AddTo(eng, [rps |-> NextTarget.rps,
                                  headers |-> NextTarget.headers])
                        EXCEPT !.timeout = IF Timeout(NextTarget) > @
                                             THEN Timeout(NextTarget) ELSE @])

\* The brokers of t that no target before it names, each once.
NewBrokers(t) ==
    Selected(t.brokers, {i \in DOMAIN t.brokers :
                           /\ t.brokers[i] \notin ToSet(eng.brokers)
                           /\ \A j \in 1 .. i - 1 : t.brokers[j] # t.brokers[i]})

\* A Kafka target: its schemas are resolved, its brokers pooled.
BuildKafka ==
    /\ Builds("kafka")
    /\ LET t == NextTarget
       IN  IF t.brokers = <<>> \/ t.topic = "" \/ t.rps <= 0
             THEN Fail({})
             ELSE \E k \in Serializers(t.registry, t.keySchema),
                     v \in Serializers(t.registry, t.valueSchema) :
                    Extend([AddTo(eng, [rps |-> t.rps, headers |-> t.headers,
                                        key |-> k, value |-> v])
                              EXCEPT !.brokers = @ \o NewBrokers(t)])

\* ResolveSchema fails: the file or the registry does not give one that parses.
SchemaFails ==
    /\ Builds("kafka") /\ {NextTarget.keySchema, NextTarget.valueSchema} # {Nil}
    /\ Fail({})

\* grpc.NewClient fails.
DialFails == Builds("grpc") /\ Fail(Connections)

\* grpc.NewClient succeeds, the connection is not in grpcTargets yet.
Dial ==
    /\ Builds("grpc")
    /\ main' = "resolve" /\ Open({<<"conn", built + 1>>})
    /\ UNCHANGED <<setupVars, signalVars, exit>>

\* Mutant: the connections of the targets before are forgotten.
ResolveFailsAlone == main = "resolve" /\ Fail({<<"conn", built + 1>>})

\* The method types are not found, the proto files do not compile, or the
\* service does not answer.
ResolveFails ==
    main = "resolve" /\ Fail({<<"conn", built + 1>>} \cup Connections)

\* The method types are found: in proto files if there are any, otherwise by
\* reflection.
Resolve ==
    /\ main = "resolve"
    /\ LET t      == NextTarget
           source == IF t.protoFiles # <<>> THEN "proto" ELSE "reflection"
       IN  /\ source = "proto" =>
                /\ Compiles(t.protoFiles, world.protos)
                /\ FindMethod(t.service, t.method, t.protoFiles, world.protos) = "found"
           /\ eng' = AddTo(eng, [rps |-> t.rps, headers |-> t.headers,
                                 timeout |-> Timeout(t), types |-> source])
    /\ main' = "targets"
    /\ UNCHANGED <<world, cfg, opened, closed, signalVars, exit>>

\* metrics.Get and Init, of the console if no type is given; no Init of a
\* registered connector fails.
GetConnector ==
    /\ main = "targets" /\ built = Len(cfg.targets)
    /\ IF cfg.metrics \notin {"", "console", "prometheus", "s3"}
         THEN Fail(Connections)
         ELSE /\ main' = "substitutor" /\ Open({Connector})
              /\ UNCHANGED <<setupVars, signalVars, exit>>

\* engine.NewSubstitutor; its failure leaves the connector open.
GetSubstitutor ==
    /\ main = "substitutor"
    /\ IF cfg.variables THEN Continue("client") ELSE Fail(Connections)

\* kgo.NewClient, in the Kafka engine only.
ClientFails ==
    main = "client" /\ cfg.engine = "kafka" /\ Fail({Connector})

GetClient ==
    /\ main = "client"
    /\ main' = "pool" /\ Open(KafkaClient)
    /\ UNCHANGED <<setupVars, signalVars, exit>>

\* pool.New, which checks targets, rates and duration once more.  Only the
\* Kafka engine closes its connector when it fails.
NewPool ==
    /\ main = "pool"
    /\ IF eng.targets = <<>> \/ Durations[cfg.duration] <= 0
          \/ \E i \in DOMAIN eng.targets : eng.targets[i].rps <= 0
         THEN Fail(IF cfg.engine = "kafka" THEN {Client, Connector}
                                           ELSE Connections)
         ELSE Continue("ready")

-----------------------------------------------------------------------------
(* The run *)

\* signal.Notify and the go statement of the signal goroutine.
Notify ==
    /\ main = "ready"
    /\ main' = "running" /\ notified' = TRUE /\ handler' = "waiting"
    /\ UNCHANGED <<setupVars, opened, closed, sigChan, cancelled, exit>>

\* A signal before Notify ends the process.
SignalKills ==
    /\ exit = "none" /\ ~notified
    /\ main' = "exited" /\ exit' = "killed"
    /\ UNCHANGED <<setupVars, opened, closed, signalVars>>

\* Mutant: a channel that never drops a signal.
SignalQueued ==
    /\ exit = "none" /\ notified /\ sigChan < 2
    /\ sigChan' = sigChan + 1
    /\ UNCHANGED <<setupVars, main, opened, closed, notified, handler,
                   cancelled, exit>>

\* After Notify it is put into sigChan, or dropped if there is one already.
Signal ==
    /\ exit = "none" /\ notified /\ sigChan < 1
    /\ sigChan' = sigChan + 1
    /\ UNCHANGED <<setupVars, main, opened, closed, notified, handler,
                   cancelled, exit>>

\* Mutant: the signal is logged, the context is not cancelled.
HandleWithoutCancel ==
    /\ exit = "none" /\ handler = "waiting" /\ sigChan > 0
    /\ sigChan' = sigChan - 1 /\ handler' = "done"
    /\ UNCHANGED <<setupVars, main, opened, closed, notified, cancelled, exit>>

\* The signal goroutine takes one signal, cancels, and ends: a second signal
\* finds nobody.
Handle ==
    /\ exit = "none" /\ handler = "waiting" /\ sigChan > 0
    /\ sigChan' = sigChan - 1 /\ handler' = "done" /\ cancelled' = TRUE
    /\ UNCHANGED <<setupVars, main, opened, closed, notified, exit>>

\* pool.Run returns, with no error ever, because the duration is over ...
RunElapses == main = "running" /\ Continue("closing")

\* ... or because ctx is cancelled ...
RunCancelled == main = "running" /\ cancelled /\ Continue("closing")

\* ... or a goroutine of the pool panics in its shutdown.
RunPanics ==
    /\ main = "running"
    /\ main' = "exited" /\ exit' = "panic"
    /\ UNCHANGED <<setupVars, opened, closed, signalVars>>

\* What Close of the engine closes: its pool, which closes the connector, and
\* its client or its connections.
Held == {Connector} \cup KafkaClient \cup Connections

\* The deferred calls of main: cancel, eng.Close, and the end.
Shutdown ==
    /\ main = "closing"
    /\ cancelled' = TRUE /\ Close(Held)
    /\ main' = "exited" /\ exit' = "ok"
    /\ UNCHANGED <<setupVars, opened, notified, sigChan, handler>>

Terminated == exit # "none" /\ UNCHANGED vars

-----------------------------------------------------------------------------
Setup ==
    \/ LoadFails \/ LoadSkipped \/ LoadMerges \/ Validate \/ FileGone
    \/ HostRefused \/ BuildHTTP \/ BuildKafka \/ SchemaFails \/ DialFails \/ Dial
    \/ ResolveFails \/ Resolve \/ GetConnector \/ GetSubstitutor \/ ClientFails
    \/ GetClient \/ NewPool \/ Notify

Finish == RunCancelled \/ Shutdown

Next ==
    \/ Setup \/ RunElapses \/ RunPanics \/ Finish
    \/ SignalKills \/ Signal \/ Handle \/ Terminated

\* The steps of main and of the signal goroutine are taken.  Nothing is
\* assumed of the duration, which may be days, nor of signals.
Spec == Init /\ [][Next]_vars /\ WF_vars(Finish) /\ WF_vars(Handle)

-----------------------------------------------------------------------------
(* Properties *)

\* Every variable has its type; sigChan holds one signal at most; an engine
\* has no more targets than its configuration.
TypeOK ==
    /\ DOMAIN cfg = DOMAIN EmptyConfig
    /\ main \in {"load", "validate", "targets", "resolve", "substitutor",
                "client", "pool", "ready", "running", "closing", "exited"}
    /\ DOMAIN eng = DOMAIN NoEngine
    /\ built <= Len(cfg.targets) /\ Len(cfg.targets) <= MaxTargets
    /\ opened \in [Resources -> 0 .. 1] /\ closed \in [Resources -> 0 .. 1]
    /\ notified \in BOOLEAN /\ sigChan \in 0 .. 1 /\ cancelled \in BOOLEAN
    /\ handler \in {"none", "waiting", "done"}
    /\ exit \in {"none", "ok", "failed", "killed", "panic", "nil map"}

\* Whatever step of a construction fails, and after how many targets: every
\* connection and client that was opened is closed once, and nothing else.  A
\* finished run closes the connector as well.
ReleasedOnce ==
    exit \in {"ok", "failed"} =>
      \A r \in Resources :
        closed[r] = opened[r] \/ (r = Connector /\ exit = "failed")

\* Load is generated only with an engine that has all it needs and has not
\* been closed, and with what pool.Run relies on: targets with positive rates
\* and a duration of at least a second.
RunsComplete ==
    main = "running" =>
      /\ built > 0 /\ built = Len(cfg.targets) /\ LongEnough(cfg.duration)
      /\ \A i \in 1 .. built : eng.targets[i].rps > 0
      /\ cfg.engine = "grpc" => \A r \in Conns(built) : opened[r] = 1
      /\ cfg.engine = "kafka" => opened[Client] = 1
      /\ opened[Connector] = 1 /\ \A r \in Resources : closed[r] = 0

\* The file that has precedence: of the flag, the environment, or the default.
Asked ==
    CASE FlagPath # "" -> FlagPath
      [] FlagPath = "" /\ world.env # "" -> world.env
      [] OTHER -> DefaultPath

\* A target that was built does what its raw form says, where that has the
\* right types: rate, headers, schemas with the wire format of their source,
\* brokers, the method from the proto files.
DoesAsDeclared(engine, raw, t) ==
    /\ Is(raw, "rps", "int") /\ t.rps = raw.rps.n
    /\ engine # "grpc" => EntriesAsDeclared(raw, "headers", t.headers)
    /\ engine = "kafka" =>
         /\ SchemaAsDeclared(raw, "key_schema", t.key)
         /\ SchemaAsDeclared(raw, "value_schema", t.value)
         /\ {raw.brokers.items[i].text : i \in {j \in DOMAIN raw.brokers.items :
               raw.brokers.items[j].go = "string"}} \subseteq ToSet(eng.brokers)
    /\ engine = "grpc" =>
         /\ EntriesAsDeclared(raw, "metadata", t.headers)
         /\ t.types = "proto" <=> StringsOf(raw, "proto_files") # <<>>

\* Load is generated only from the file that has precedence, never from the
\* rest of one or from another, and all its targets do what it declares.
RunsAsDeclared ==
    main = "running" =>
      /\ Asked \in DOMAIN world.files /\ world.files[Asked] # Nil
      /\ LET f == world.files[Asked]
         IN  /\ DOMAIN eng.targets = DOMAIN f.targets
             /\ \A i \in DOMAIN f.targets :
                  DoesAsDeclared(f.engine, f.targets[i], eng.targets[i])

\* Of the proto files that a target names, those are searched that they import,
\* each once, in whatever order: a method is found if and only if it is there.
MethodsFound ==
    main = "resolve" /\ NextTarget.protoFiles # <<>>
    /\ Compiles(NextTarget.protoFiles, world.protos) =>
      FindsTheMethod(NextTarget.service, NextTarget.method, NextTarget.protoFiles,
                     world.protos)

\* No request is given less time than its target's timeout, or 30 seconds if
\* that is missing or does not parse, whatever the other targets have.
TimeoutsGranted ==
    main = "running" =>
      \A i \in DOMAIN eng.targets :
        /\ cfg.engine = "http" => eng.timeout >= Timeout(cfg.targets[i])
        /\ cfg.engine = "grpc" => eng.targets[i].timeout = Timeout(cfg.targets[i])

\* An interrupt during the run ends the process without waiting for the
\* duration, although sigChan takes one signal and is read only once.
InterruptEndsRun == notified /\ sigChan > 0 ~> exit # "none"

\* What the comment on MetricsConfig says, "Metrics connector settings":
\* a configuration may have them.  The process ends in a nil map panic.
SettingsAccepted == exit # "nil map"
=============================================================================
