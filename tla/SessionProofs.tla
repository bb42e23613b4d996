----------------------------- MODULE SessionProofs -----------------------------
(***************************************************************************)
(* Proofs about Session, for any worlds and any number of targets: nothing *)
(* stays open or is closed twice, the engine that runs is complete, and no *)
(* target is given less time than it asks for.                             *)
(***************************************************************************)
EXTENDS Session, ConfigurationProofs

-----------------------------------------------------------------------------
(* Resources *)

\* Where the connector, and where the client has been opened.
Connected == {"substitutor", "client", "pool", "ready", "running", "closing"}
Complete  == {"pool", "ready", "running", "closing"}
Early     == {"load", "validate"}
Points    == Early \cup {"targets", "resolve", "exited"} \cup Connected

\* What is open while main is at a point.
Owned ==
    (IF main = "resolve" THEN Conns(built + 1) ELSE Connections)
    \cup (IF main \in Connected THEN {Connector} ELSE {})
    \cup (IF main \in Complete THEN KafkaClient ELSE {})

\* Connections are added one by one, and are neither client nor connector.
LEMMA ConnsGrow ==
    ASSUME NEW k \in Nat
    PROVE  /\ Conns(0) = {}
           /\ Conns(k + 1) = Conns(k) \cup {<<"conn", k + 1>>}
           /\ <<"conn", k + 1>> \notin Conns(k)
           /\ Client \notin Conns(k) /\ Connector \notin Conns(k) /\ Client # Connector
<1>1. Conns(0) = {}
  BY DEF Conns
<1>2. Conns(k + 1) = Conns(k) \cup {<<"conn", k + 1>>}
  <2>1. 1 .. k + 1 = (1 .. k) \cup {k + 1}
    OBVIOUS
  <2>2. QED  BY <2>1, Zenon DEF Conns
<1>3. ASSUME NEW i \in 1 .. k PROVE <<"conn", k + 1>> # <<"conn", i>>
  OBVIOUS
<1>4. <<"conn", k + 1>> \notin Conns(k)
  BY <1>3, Zenon DEF Conns
<1>5. ASSUME NEW i \in 1 .. k
      PROVE  Client # <<"conn", i>> /\ Connector # <<"conn", i>>
  BY DEF Client, Connector
<1>6. Client \notin Conns(k) /\ Connector \notin Conns(k)
  BY <1>5, Zenon DEF Conns
<1>7. Client # Connector
  BY DEF Client, Connector
<1>8. QED  BY <1>1, <1>2, <1>4, <1>6, <1>7

-----------------------------------------------------------------------------
(* The configuration and the engine *)

LEMMA Appends ==
    ASSUME NEW s, IsSeq(s), NEW x
    PROVE  /\ IsSeq(Append(s, x)) /\ Len(s) \in Nat
           /\ Len(Append(s, x)) = Len(s) + 1 /\ Append(s, x)[Len(s) + 1] = x
           /\ \A i \in 1 .. Len(s) : Append(s, x)[i] = s[i]
<1>1. PICK S : s \in Seq(S)
  BY DEF IsSeq
<1>2. s \in Seq(S \cup {x})
  BY <1>1
<1>3. Append(s, x) \in Seq(S \cup {x})
  BY <1>2
<1>4. QED  BY <1>2, <1>3 DEF IsSeq

\* An engine in construction, of whatever fields.
IsEngine(e) == \E s, b, t : e = [targets |-> s, brokers |-> b, timeout |-> t]

Shape ==
    /\ world \in Worlds /\ main \in Points
    /\ IsSeq(cfg.targets) /\ Len(cfg.targets) <= MaxTargets
    /\ IsEngine(eng)
    /\ IsSeq(eng.targets) /\ eng.timeout \in Nat
    /\ built <= Len(cfg.targets)
    /\ main \in Early => eng = NoEngine
    /\ main = "resolve" => cfg.engine = "grpc" /\ built < Len(cfg.targets)

LEMMA EmptyIsSeq == IsSeq(<<>>) /\ Len(<<>>) = 0
<1>1. <<>> \in Seq({})
  OBVIOUS
<1>2. IsSeq(<<>>)
  BY <1>1 DEF IsSeq
<1>3. Len(<<>>) = 0
  OBVIOUS
<1>4. QED  BY <1>2, <1>3, Zenon

LEMMA DefaultType == DefaultTimeout \in Nat
<1>1. Second \in Nat
  BY DEF Second
<1>2. QED  BY <1>1 DEF DefaultTimeout

LEMMA ShapeInit == Init => Shape
<1> SUFFICES ASSUME Init PROVE Shape
  OBVIOUS
<1>1. DefaultTimeout \in Nat
  BY DefaultType
<1>2. IsEngine(eng)
  BY DEF Init, NoEngine, IsEngine
<1>3. cfg.targets = <<>> /\ eng.targets = <<>> /\ eng.timeout = DefaultTimeout
  BY DEF Init, EmptyConfig, NoEngine
<1>4. MaxTargets \in Nat
  BY SessionAssumption
<1>5. world \in Worlds /\ main = "load" /\ eng = NoEngine
  BY DEF Init
<1>6. built <= Len(cfg.targets) /\ Len(cfg.targets) <= MaxTargets
  BY <1>3, <1>4, EmptyIsSeq DEF built
<1>7. IsSeq(cfg.targets) /\ IsSeq(eng.targets) /\ eng.timeout \in Nat
  <2>1. IsSeq(<<>>)
    BY EmptyIsSeq, Zenon
  <2>2. QED  BY <1>1, <1>3, <2>1, Zenon
<1>8. QED  BY <1>2, <1>5, <1>6, <1>7 DEF Shape, Points, Early

\* What the parsers make of a file is no longer than the file.
LEMMA ParsedShape ==
    ASSUME Shape, Readable
    PROVE  /\ IsSeq(Parsed(world.files[Path]))
           /\ Len(Parsed(world.files[Path])) <= MaxTargets
           /\ Len(Parsed(world.files[Path])) \in Nat
<1> DEFINE f == world.files[Path]
<1>1. PICK n \in 0 .. MaxTargets : DOMAIN f.targets = 1 .. n
  BY SessionAssumption DEF Shape, Readable
<1>2. /\ DOMAIN Parsed(f) = 1 .. n
      /\ Parsed(f) = [i \in DOMAIN Parsed(f) |-> Parsed(f)[i]]
  BY <1>1 DEF Parsed
<1>3. n \in Nat /\ n <= MaxTargets
  BY SessionAssumption
<1> HIDE DEF f
<1>4. IsSeq(Parsed(f)) /\ Len(Parsed(f)) = n
  BY <1>2, <1>3, FunctionIsSeq
<1>5. QED  BY <1>3, <1>4 DEF f

\* Another timeout, and other brokers.
LEMMA EngineExcept ==
    ASSUME NEW p, NEW q, NEW r, NEW b, NEW t
    PROVE  /\ [[targets |-> p, brokers |-> q, timeout |-> r] EXCEPT !.timeout = t] =
                [targets |-> p, brokers |-> q, timeout |-> t]
           /\ [[targets |-> p, brokers |-> q, timeout |-> r] EXCEPT !.brokers = b] =
                [targets |-> p, brokers |-> b, timeout |-> r]
<1>1. [[targets |-> p, brokers |-> q, timeout |-> r] EXCEPT !.timeout = t] =
        [targets |-> p, brokers |-> q, timeout |-> t]
  OBVIOUS
<1>2. [[targets |-> p, brokers |-> q, timeout |-> r] EXCEPT !.brokers = b] =
        [targets |-> p, brokers |-> b, timeout |-> r]
  OBVIOUS
<1>3. QED  BY <1>1, <1>2, Zenon

\* A target is added to the engine.
LEMMA Added ==
    ASSUME Shape, NEW x, NEW b, NEW t
    PROVE  /\ AddTo(eng, x) = [targets |-> Append(eng.targets, x),
                               brokers |-> eng.brokers, timeout |-> eng.timeout]
           /\ [AddTo(eng, x) EXCEPT !.timeout = t] =
                [targets |-> Append(eng.targets, x), brokers |-> eng.brokers, timeout |-> t]
           /\ [AddTo(eng, x) EXCEPT !.brokers = b] =
                [targets |-> Append(eng.targets, x), brokers |-> b, timeout |-> eng.timeout]
<1>1. PICK p, q, r : eng = [targets |-> p, brokers |-> q, timeout |-> r]
  BY DEF Shape, IsEngine
<1>2. AddTo(eng, x) = [targets |-> Append(p, x), brokers |-> q, timeout |-> r]
  BY <1>1 DEF AddTo
<1>3. eng.targets = p /\ eng.brokers = q /\ eng.timeout = r
  BY <1>1
<1>4. /\ [AddTo(eng, x) EXCEPT !.timeout = t] =
           [targets |-> Append(p, x), brokers |-> q, timeout |-> t]
      /\ [AddTo(eng, x) EXCEPT !.brokers = b] =
           [targets |-> Append(p, x), brokers |-> b, timeout |-> r]
  <2> DEFINE s == Append(p, x)
  <2>1. AddTo(eng, x) = [targets |-> s, brokers |-> q, timeout |-> r]
    BY <1>2
  <2> HIDE DEF s
  <2>2. [AddTo(eng, x) EXCEPT !.timeout = t] = [targets |-> s, brokers |-> q, timeout |-> t]
    BY <2>1, EngineExcept
  <2>3. [AddTo(eng, x) EXCEPT !.brokers = b] = [targets |-> s, brokers |-> b, timeout |-> r]
    BY <2>1, EngineExcept
  <2>4. QED  BY <2>2, <2>3 DEF s
<1>5. QED  BY <1>2, <1>3, <1>4, Zenon

LEMMA TimeoutType == ASSUME NEW t PROVE Timeout(t) \in Nat
BY ConfigurationAssumption, DefaultType DEF Timeout

LEMMA ShapeNext == Shape /\ [Next]_vars => Shape'
<1> SUFFICES ASSUME Shape, [Next]_vars PROVE Shape'
  OBVIOUS
<1> USE DEF Points, Early, Connected
<1>1. ASSUME NEW S, Fail(S) PROVE Shape'
  BY <1>1 DEF Shape, Fail, setupVars, built
<1>2. ASSUME NEW p \in Points \ (Early \cup {"resolve"}), Continue(p) PROVE Shape'
  BY <1>2 DEF Shape, Continue, setupVars, built
<1>3. CASE LoadSkipped
  BY <1>3 DEF LoadSkipped, Continue, Shape, setupVars, built
<1>4. CASE LoadMerges
  <2>1. CASE ParseFails(world.files[Path]) \/ InvalidTarget(
               [EmptyConfig EXCEPT !.engine = world.files[Path].engine,
                  !.targets = Parsed(world.files[Path]),
                  !.duration = world.files[Path].duration,
                  !.metrics = world.files[Path].metrics,
                  !.variables = world.files[Path].variables])
    BY <1>1, <1>4, <2>1 DEF LoadMerges
  <2>2. CASE cfg' = cfg /\ main' = "exited" /\ UNCHANGED <<world, eng>>
    BY <2>2 DEF Shape, built
  <2>3. ASSUME NEW e, NEW d, NEW m, NEW v, UNCHANGED <<world, eng>>, main' = "validate",
               cfg' = [engine |-> e, targets |-> Parsed(world.files[Path]),
                       duration |-> d, metrics |-> m, variables |-> v]
        PROVE  Shape'
    <3>1. cfg'.targets = Parsed(world.files[Path])
      BY <2>3
    <3>2. main = "load" /\ Readable
      BY <1>4 DEF LoadMerges
    <3>3. eng = NoEngine /\ built = 0
      BY <3>2, EmptyIsSeq DEF Shape, NoEngine, built
    <3>4. IsSeq(cfg'.targets) /\ Len(cfg'.targets) <= MaxTargets /\ 0 <= Len(cfg'.targets)
      BY <3>1, <3>2, ParsedShape
    <3>5. QED  BY <2>3, <3>3, <3>4 DEF Shape, built
  <2>4. QED
    BY <1>4, <2>1, <2>2, <2>3 DEF LoadMerges, EmptyConfig
<1>5. CASE Validate
  BY <1>1, <1>2, <1>5 DEF Validate
<1>16. ASSUME NEW x, NEW b, NEW t \in Nat, built < Len(cfg.targets),
              eng' = [targets |-> Append(eng.targets, x), brokers |-> b, timeout |-> t],
              world' = world, cfg' = cfg, main' = "targets"
       PROVE  Shape'
  <2> DEFINE s == eng.targets
             n == Len(cfg.targets)
  <2>1. n \in Nat /\ IsSeq(cfg.targets) /\ n <= MaxTargets
    BY Appends DEF Shape
  <2>2. IsSeq(Append(s, x)) /\ Len(s) \in Nat /\ Len(Append(s, x)) = Len(s) + 1
    BY Appends DEF Shape
  <2>3. Len(s) < n
    BY <1>16 DEF built
  <2>4. Len(Append(s, x)) <= n
    BY <2>1, <2>2, <2>3
  <2>5. eng'.targets = Append(s, x) /\ eng'.timeout = t
    BY <1>16
  <2>6. IsEngine(eng')
    BY <1>16, Zenon DEF IsEngine
  <2>7. built' <= Len(cfg'.targets)
    BY <1>16, <2>4, <2>5 DEF built
  <2>8. IsSeq(eng'.targets) /\ eng'.timeout \in Nat
    BY <1>16, <2>2, <2>5, Zenon
  <2>9. IsSeq(cfg'.targets) /\ Len(cfg'.targets) <= MaxTargets
    BY <1>16, <2>1, Zenon
  <2>10. world' \in Worlds
    BY <1>16 DEF Shape
  <2> HIDE DEF s, n
  <2>11. QED  BY <1>16, <2>6, <2>7, <2>8, <2>9, <2>10 DEF Shape
<1>6. CASE BuildHTTP
  <2>1. CASE NextTarget.url = "" \/ NextTarget.rps <= 0
    BY <1>1, <1>6, <2>1 DEF BuildHTTP
  <2>2. CASE ~(NextTarget.url = "" \/ NextTarget.rps <= 0)
    <3>1. eng.timeout \in Nat
      BY DEF Shape
    <3> DEFINE t == IF Timeout(NextTarget) > eng.timeout THEN Timeout(NextTarget)
                                                         ELSE eng.timeout
               x == [rps |-> NextTarget.rps, headers |-> NextTarget.headers]
    <3>2. t \in Nat
      BY <3>1, TimeoutType
    <3>7. AddTo(eng, x) = [targets |-> Append(eng.targets, x),
                           brokers |-> eng.brokers, timeout |-> eng.timeout]
      BY Added, Zenon
    <3>3. AddTo(eng, x).timeout = eng.timeout
      BY <3>7
    <3>4. eng' = [AddTo(eng, x) EXCEPT !.timeout = t]
      BY <1>6, <2>2, <3>3 DEF BuildHTTP, Extend
    <3>5. built < Len(cfg.targets) /\ world' = world /\ cfg' = cfg /\ main' = "targets"
      BY <1>6, <2>2 DEF BuildHTTP, Extend, Builds
    <3> HIDE DEF t, x
    <3>6. eng' = [targets |-> Append(eng.targets, x), brokers |-> eng.brokers, timeout |-> t]
      BY <3>4, Added, Zenon
    <3>8. QED  BY <1>16, <3>2, <3>5, <3>6, Zenon
  <2>3. QED  BY <2>1, <2>2
<1>7. CASE BuildKafka
  <2>1. CASE NextTarget.brokers = <<>> \/ NextTarget.topic = "" \/ NextTarget.rps <= 0
    BY <1>1, <1>7, <2>1 DEF BuildKafka
  <2>2. CASE ~(NextTarget.brokers = <<>> \/ NextTarget.topic = "" \/ NextTarget.rps <= 0)
    <3>1. PICK x, b : Extend([AddTo(eng, x) EXCEPT !.brokers = b])
      BY <1>7, <2>2 DEF BuildKafka
    <3>2. built < Len(cfg.targets) /\ world' = world /\ cfg' = cfg /\ main' = "targets"
      BY <1>7, <3>1 DEF BuildKafka, Extend, Builds
    <3>3. eng.timeout \in Nat
      BY DEF Shape
    <3>4. eng' = [targets |-> Append(eng.targets, x), brokers |-> b, timeout |-> eng.timeout]
      BY <3>1, Added, Zenon DEF Extend
    <3>5. QED  BY <1>16, <3>2, <3>3, <3>4, Zenon
  <2>3. QED  BY <2>1, <2>2
<1>8. CASE Dial
  BY <1>8 DEF Dial, Builds, Shape, built, setupVars
<1>9. CASE Resolve
  <2>1. PICK x : eng' = AddTo(eng, x)
    BY <1>9 DEF Resolve
  <2>2. built < Len(cfg.targets) /\ world' = world /\ cfg' = cfg /\ main' = "targets"
    BY <1>9 DEF Resolve, Shape
  <2>3. eng.timeout \in Nat
    BY DEF Shape
  <2>4. eng' = [targets |-> Append(eng.targets, x), brokers |-> eng.brokers,
                timeout |-> eng.timeout]
    BY <2>1, Added, Zenon
  <2>5. QED  BY <1>16, <2>2, <2>3, <2>4, Zenon
<1>10. CASE GetConnector
  BY <1>1, <1>10 DEF GetConnector, Shape, built, setupVars
<1>11. CASE GetSubstitutor
  BY <1>1, <1>2, <1>11 DEF GetSubstitutor
<1>12. CASE NewPool
  BY <1>1, <1>2, <1>12 DEF NewPool
<1>13. CASE UNCHANGED <<setupVars, main>>
  BY <1>13 DEF Shape, setupVars, built
<1>14. CASE GetClient \/ Notify \/ SignalKills \/ RunPanics \/ Shutdown
  BY <1>14 DEF GetClient, Notify, SignalKills, RunPanics, Shutdown, Shape, setupVars, built
<1>15. QED
  BY <1>1, <1>2, <1>3, <1>4, <1>5, <1>6, <1>7, <1>8, <1>9, <1>10, <1>11, <1>12,
     <1>13, <1>14
  DEF Next, Setup, Finish, LoadFails, FileGone, HostRefused, SchemaFails, DialFails,
      ResolveFails, ClientFails, RunElapses, RunCancelled, Signal, Handle, Terminated, vars

-----------------------------------------------------------------------------
(* Opened and closed *)

\* Before its end, the process has opened what it owns and closed nothing.
Books ==
    /\ opened \in [Resources -> 0 .. 1] /\ closed \in [Resources -> 0 .. 1]
    /\ main # "exited" => \A r \in Resources :
         opened[r] = (IF r \in Owned THEN 1 ELSE 0) /\ closed[r] = 0
    /\ main = "exited" <=> exit # "none"
    /\ ReleasedOnce

\* An end that closes everything, or, after a failure, all but the connector.
LEMMA Closing ==
    ASSUME Books, main # "exited", main' = "exited", opened' = opened, NEW S, Close(S),
           \/ exit' = "ok" /\ S = Owned
           \/ exit' = "failed" /\ S \subseteq Owned /\ Owned \ {Connector} \subseteq S
    PROVE  Books'
<1>1. closed' = [r \in Resources |-> closed[r] + (IF r \in S THEN 1 ELSE 0)]
  BY DEF Close, Times
<1>2. ASSUME NEW r \in Resources
      PROVE  /\ closed'[r] \in 0 .. 1
             /\ closed'[r] = opened[r] \/ (r = Connector /\ exit' = "failed")
  <2>1. opened[r] = (IF r \in Owned THEN 1 ELSE 0) /\ closed[r] = 0
    BY DEF Books
  <2>2. closed'[r] = IF r \in S THEN 1 ELSE 0
    BY <1>1, <2>1
  <2>3. /\ r \in S => r \in Owned
        /\ r \in Owned => r \in S \/ (r = Connector /\ exit' = "failed")
    OBVIOUS
  <2>4. QED  BY <2>1, <2>2, <2>3
<1>3. closed' \in [Resources -> 0 .. 1]
  BY <1>1, <1>2
<1>4. QED  BY <1>1, <1>2, <1>3 DEF Books, ReleasedOnce

\* What is opened is owned, and was not before.
LEMMA Opening ==
    ASSUME Books, main # "exited", NEW T, Open(T), main' # "exited", exit' = exit,
           Owned' = Owned \cup T, T \cap Owned = {}
    PROVE  Books'
<1>1. /\ opened' = [r \in Resources |-> opened[r] + (IF r \in T THEN 1 ELSE 0)]
      /\ closed' = closed
  BY DEF Open, Times
<1>2. ASSUME NEW r \in Resources
      PROVE  opened'[r] = IF r \in Owned' THEN 1 ELSE 0
  <2>1. opened[r] = IF r \in Owned THEN 1 ELSE 0
    BY DEF Books
  <2>2. opened'[r] = opened[r] + (IF r \in T THEN 1 ELSE 0)
    BY <1>1
  <2>3. /\ r \in Owned' <=> r \in Owned \/ r \in T
        /\ ~(r \in Owned /\ r \in T)
    BY Zenon
  <2>4. QED  BY <2>1, <2>2, <2>3
<1>3. opened' \in [Resources -> 0 .. 1]
  BY <1>1, <1>2
<1>4. QED  BY <1>1, <1>2, <1>3 DEF Books, ReleasedOnce

\* What is owned stays so.
LEMMA Keeping ==
    ASSUME Books, UNCHANGED <<opened, closed, exit>>, main # "exited", main' # "exited",
           Owned' = Owned
    PROVE  Books'
BY DEF Books, ReleasedOnce

\* An end without Close.
LEMMA Ending ==
    ASSUME Books, main # "exited", UNCHANGED <<opened, closed>>, main' = "exited",
           exit' \in {"killed", "panic", "nil map"}
    PROVE  Books'
BY DEF Books, ReleasedOnce

\* What is owned at the points of main.
OwnedWhere ==
    /\ main \in Early => Connections = {} /\ Owned = {}
    /\ main = "targets" => Owned = Connections
    /\ main = "resolve" => Owned = {<<"conn", built + 1>>} \cup Connections
    /\ main \in {"substitutor", "client"} => Owned = {Connector} \cup Connections
    /\ main \in Complete => Owned = Held

LEMMA Owning == Shape => OwnedWhere
<1> SUFFICES ASSUME Shape PROVE OwnedWhere
  OBVIOUS
<1> USE DEF Owned, OwnedWhere, Connected, Complete, Early
<1>1. built \in Nat
  BY Appends DEF Shape, built
<1>2. CASE main \in Early
  <2>1. built = 0
    BY <1>2, EmptyIsSeq DEF Shape, NoEngine, built
  <2>2. Connections = {}
    BY <1>1, <2>1, ConnsGrow DEF Connections
  <2>3. QED  BY <1>2, <2>2
<1>3. CASE main = "targets"
  BY <1>3
<1>4. CASE main = "resolve"
  <2>1. Connections = Conns(built)
    BY <1>4 DEF Shape, Connections
  <2>2. Conns(built + 1) = Conns(built) \cup {<<"conn", built + 1>>}
    BY <1>1, ConnsGrow
  <2>3. QED  BY <1>4, <2>1, <2>2
<1>5. CASE main \in {"substitutor", "client"}
  BY <1>5
<1>6. CASE main \in Complete
  BY <1>6 DEF Held
<1>7. CASE main = "exited"
  BY <1>7
<1>8. QED  BY <1>2, <1>3, <1>4, <1>5, <1>6, <1>7 DEF Shape, Points

LEMMA BooksInit == Init => Books
<1> SUFFICES ASSUME Init PROVE Books
  OBVIOUS
<1>1. Shape
  BY ShapeInit
<1>2. main = "load" /\ exit = "none" /\ \A r \in Resources : opened[r] = 0 /\ closed[r] = 0
  BY DEF Init
<1>3. Owned = {}
  BY <1>1, <1>2, Owning DEF OwnedWhere, Early
<1>4. opened \in [Resources -> 0 .. 1] /\ closed \in [Resources -> 0 .. 1]
  BY DEF Init
<1>5. QED  BY <1>2, <1>3, <1>4 DEF Books, ReleasedOnce

LEMMA BooksNext == Shape /\ Shape' /\ Books /\ [Next]_vars => Books'
<1> SUFFICES ASSUME Shape, Shape', Books, [Next]_vars PROVE Books'
  OBVIOUS
<1> USE DEF Early, Complete, OwnedWhere
<1>o. OwnedWhere
  BY Owning
<1>p. OwnedWhere'
  BY Owning, PTL
<1>1. ASSUME NEW S, Fail(S), main # "exited", S \subseteq Owned,
             Owned \ {Connector} \subseteq S
      PROVE  Books'
  BY <1>1, Closing DEF Fail
<1>2. ASSUME UNCHANGED <<setupVars, main, opened, closed, exit>> PROVE Books'
  BY <1>2 DEF setupVars, Books, Owned, Connections, KafkaClient, built, ReleasedOnce
<1>3. CASE LoadFails \/ FileGone \/ HostRefused
  BY <1>1, <1>3, <1>o DEF LoadFails, FileGone, HostRefused
<1>4. CASE LoadSkipped
  <2>1. UNCHANGED <<opened, closed, exit>> /\ main = "load" /\ main' = "validate"
    BY <1>4 DEF LoadSkipped, Continue
  <2>2. Owned = {} /\ Owned' = {}
    BY <2>1, <1>o, <1>p
  <2>3. QED  BY <2>1, <2>2, Keeping
<1>5. CASE LoadMerges
  <2>1. main = "load" /\ Owned = {}
    BY <1>5, <1>o DEF LoadMerges
  <2>2. CASE Fail({})
    BY <2>1, <2>2, <1>1
  <2>3. CASE main' = "exited" /\ exit' = "nil map" /\ UNCHANGED <<opened, closed>>
    BY <2>1, <2>3, Ending
  <2>4. CASE main' = "validate" /\ UNCHANGED <<opened, closed, exit>>
    <3>1. Owned' = {}
      BY <2>4, <1>p
    <3>2. QED  BY <2>1, <2>4, <3>1, Keeping
  <2>5. QED  BY <1>5, <2>2, <2>3, <2>4 DEF LoadMerges
<1>6. CASE Validate
  <2>1. main = "validate" /\ Owned = {} /\ Connections = {}
    BY <1>6, <1>o DEF Validate
  <2>2. CASE Fail({})
    BY <2>1, <2>2, <1>1
  <2>3. CASE Continue("targets")
    <3>1. Connections' = Connections
      BY <2>3 DEF Continue, setupVars, Connections, built
    <3>2. Owned' = {}
      BY <2>1, <2>3, <3>1, <1>p DEF Continue
    <3>3. QED  BY <2>1, <2>3, <3>2, Keeping DEF Continue
  <2>4. QED  BY <1>6, <2>2, <2>3 DEF Validate
<1>7. ASSUME main = "targets", cfg.engine # "grpc" PROVE Owned = {}
  BY <1>7, <1>o DEF Connections
<1>17. ASSUME main = "targets", cfg.engine # "grpc", NEW e, Extend(e) PROVE Books'
  <2>1. main' = "targets" /\ cfg' = cfg /\ UNCHANGED <<opened, closed, exit>>
    BY <1>17 DEF Extend
  <2>2. Owned' = {}
    BY <1>17, <2>1, <1>p DEF Connections
  <2>3. QED  BY <1>7, <1>17, <2>1, <2>2, Keeping
<1>8. CASE BuildHTTP
  <2>1. main = "targets" /\ cfg.engine # "grpc"
    BY <1>8 DEF BuildHTTP, Builds
  <2>2. CASE Fail({})
    BY <2>1, <2>2, <1>1, <1>7
  <2>3. QED  BY <1>8, <2>1, <2>2, <1>17 DEF BuildHTTP
<1>9. CASE BuildKafka
  <2>1. main = "targets" /\ cfg.engine # "grpc"
    BY <1>9 DEF BuildKafka, Builds
  <2>2. CASE Fail({})
    BY <2>1, <2>2, <1>1, <1>7
  <2>3. QED  BY <1>9, <2>1, <2>2, <1>17 DEF BuildKafka
<1>10. CASE SchemaFails
  BY <1>1, <1>7, <1>10 DEF SchemaFails, Builds
<1>11. CASE DialFails
  BY <1>1, <1>o, <1>11 DEF DialFails, Builds
<1>12. CASE Dial
  <2> DEFINE new == {<<"conn", built + 1>>}
  <2>1. main = "targets" /\ main' = "resolve" /\ Open(new) /\ UNCHANGED <<cfg, eng, exit>>
    BY <1>12 DEF Dial, Builds, setupVars
  <2>2. Connections' = Connections /\ built' = built
    BY <2>1 DEF Connections, built
  <2>3. Owned = Connections /\ Owned' = Owned \cup new
    BY <2>1, <2>2, <1>o, <1>p
  <2>4. Connections = Conns(built) /\ built \in Nat
    BY <1>12, Appends DEF Dial, Builds, Connections, Shape, built
  <2>5. new \cap Owned = {}
    BY <2>3, <2>4, ConnsGrow
  <2> HIDE DEF new
  <2>6. QED  BY <2>1, <2>3, <2>5, Opening
<1>13. CASE ResolveFails
  BY <1>1, <1>o, <1>13 DEF ResolveFails
<1>14. CASE Resolve
  <2>1. /\ main = "resolve" /\ main' = "targets" /\ UNCHANGED <<cfg, opened, closed, exit>>
        /\ cfg.engine = "grpc" /\ \E x : eng' = AddTo(eng, x)
    BY <1>14 DEF Resolve, Shape
  <2>2. built \in Nat /\ built' = built + 1
    <3>1. PICK x : eng' = AddTo(eng, x)
      BY <2>1
    <3>2. eng' = [targets |-> Append(eng.targets, x), brokers |-> eng.brokers,
                  timeout |-> eng.timeout]
      BY <3>1, Added, Zenon
    <3>3. eng'.targets = Append(eng.targets, x)
      BY <3>2
    <3>4. Len(eng.targets) \in Nat /\ Len(Append(eng.targets, x)) = Len(eng.targets) + 1
      BY Appends DEF Shape
    <3>5. QED  BY <3>3, <3>4 DEF built
  <2>3. Connections = Conns(built) /\ Connections' = Conns(built + 1)
    BY <2>1, <2>2 DEF Connections
  <2>4. Owned' = Owned
    BY <2>1, <2>2, <2>3, <1>o, <1>p, ConnsGrow
  <2>5. QED  BY <2>1, <2>4, Keeping
<1>15. CASE GetConnector
  <2>1. main = "targets" /\ Owned = Connections
    BY <1>15, <1>o DEF GetConnector
  <2>2. CASE Fail(Connections)
    BY <2>1, <2>2, <1>1
  <2>3. CASE main' = "substitutor" /\ Open({Connector}) /\ UNCHANGED <<cfg, eng, exit>>
    <3>1. Connections' = Connections
      BY <2>3 DEF Connections, built
    <3>2. Owned' = Owned \cup {Connector}
      BY <2>1, <2>3, <3>1, <1>p
    <3>3. built \in Nat
      BY Appends DEF Shape, built
    <3>4. Connector \notin Connections
      BY <3>3, ConnsGrow DEF Connections
    <3>5. QED  BY <2>1, <2>3, <3>2, <3>4, Opening
  <2>4. QED  BY <1>15, <2>2, <2>3 DEF GetConnector, setupVars
<1>16. CASE GetSubstitutor
  <2>1. main = "substitutor" /\ Owned = {Connector} \cup Connections
    BY <1>16, <1>o DEF GetSubstitutor
  <2>2. CASE Fail(Connections)
    BY <2>1, <2>2, <1>1
  <2>3. CASE Continue("client")
    <3>1. Connections' = Connections /\ main' = "client" /\ UNCHANGED <<opened, closed, exit>>
      BY <2>3 DEF Continue, setupVars, Connections, built
    <3>2. Owned' = Owned
      BY <2>1, <3>1, <1>p
    <3>3. QED  BY <2>1, <3>1, <3>2, Keeping
  <2>4. QED  BY <1>16, <2>2, <2>3 DEF GetSubstitutor
<1>18. CASE ClientFails
  <2>1. main = "client" /\ Fail({Connector}) /\ Owned = {Connector}
    BY <1>18, <1>o DEF ClientFails, Connections
  <2>2. QED  BY <2>1, <1>1
<1>19. CASE GetClient
  <2>1. main = "client" /\ main' = "pool" /\ Open(KafkaClient) /\ UNCHANGED <<cfg, eng, exit>>
    BY <1>19 DEF GetClient, setupVars
  <2>2. Connections' = Connections /\ KafkaClient' = KafkaClient
    BY <2>1 DEF Connections, KafkaClient, built
  <2>3. Owned = {Connector} \cup Connections /\ Owned' = Owned \cup KafkaClient
    BY <2>1, <2>2, <1>o, <1>p DEF Held
  <2>4. built \in Nat
    BY Appends DEF Shape, built
  <2>5. KafkaClient \cap Owned = {}
    BY <2>3, <2>4, ConnsGrow DEF Connections, KafkaClient
  <2>6. QED  BY <2>1, <2>3, <2>5, Opening
<1>20. CASE NewPool
  <2>1. main = "pool" /\ Owned = Held
    BY <1>20, <1>o DEF NewPool
  <2> DEFINE S == IF cfg.engine = "kafka" THEN {Client, Connector} ELSE Connections
  <2>2. S \subseteq Owned /\ Owned \ {Connector} \subseteq S
    BY <2>1 DEF Held, Connections, KafkaClient
  <2>3. CASE Fail(S)
    BY <2>1, <2>2, <2>3, <1>1
  <2>4. CASE Continue("ready")
    <3>1. Held' = Held /\ main' = "ready" /\ UNCHANGED <<opened, closed, exit>>
      BY <2>4 DEF Continue, setupVars, Held, Connections, KafkaClient, built
    <3>2. Owned' = Owned
      BY <2>1, <3>1, <1>p
    <3>3. QED  BY <2>1, <3>1, <3>2, Keeping
  <2>5. QED  BY <1>20, <2>3, <2>4 DEF NewPool
<1>21. CASE Notify \/ RunElapses \/ RunCancelled
  <2>1. /\ main \in Complete /\ main' \in Complete /\ main # "exited" /\ main' # "exited"
        /\ UNCHANGED <<cfg, eng, opened, closed, exit>>
    BY <1>21 DEF Notify, RunElapses, RunCancelled, Continue, setupVars
  <2>2. Held' = Held
    BY <2>1 DEF Held, Connections, KafkaClient, built
  <2>3. Owned' = Owned
    BY <2>1, <2>2, <1>o, <1>p
  <2>4. QED  BY <2>1, <2>3, Keeping
<1>22. CASE SignalKills \/ RunPanics
  <2>1. main # "exited"
    BY <1>22 DEF SignalKills, RunPanics, Books
  <2>2. QED  BY <1>22, <2>1, Ending DEF SignalKills, RunPanics
<1>23. CASE Shutdown
  <2>1. main = "closing" /\ Owned = Held
    BY <1>23, <1>o DEF Shutdown
  <2>2. QED  BY <1>23, <2>1, Closing DEF Shutdown
<1>24. CASE Signal \/ Handle \/ Terminated \/ UNCHANGED vars
  BY <1>2, <1>24 DEF Signal, Handle, Terminated, vars
<1>30. QED
  BY <1>3, <1>4, <1>5, <1>6, <1>8, <1>9, <1>10, <1>11, <1>12, <1>13, <1>14, <1>15,
     <1>16, <1>18, <1>19, <1>20, <1>21, <1>22, <1>23, <1>24
  DEF Next, Setup, Finish

-----------------------------------------------------------------------------
(* How far the engine is *)

\* What has been built of target i.
Built(i) ==
    /\ eng.targets[i].rps = cfg.targets[i].rps
    /\ cfg.engine = "http" => eng.timeout >= Timeout(cfg.targets[i])
    /\ cfg.engine = "grpc" => eng.targets[i].timeout = Timeout(cfg.targets[i])

Checked == /\ 0 < Len(cfg.targets) /\ cfg.engine \in Parsers
           /\ ~InvalidTarget(cfg) /\ LongEnough(cfg.duration)

Progress ==
    /\ main = "load" => cfg.targets = <<>>
    /\ main = "validate" => cfg.targets = <<>> \/ cfg.engine \in Parsers
    /\ main \notin Early \cup {"exited"} => Checked
    /\ main \in Connected => built = Len(cfg.targets)
    /\ main # "exited" => \A i \in 1 .. built : Built(i)

LEMMA NonEmpty == ASSUME NEW s, IsSeq(s), s # <<>> PROVE 0 < Len(s)
<1>1. PICK S : s \in Seq(S)
  BY DEF IsSeq
<1>2. QED  BY <1>1

LEMMA ProgressInit == Init => Progress
<1> SUFFICES ASSUME Init PROVE Progress
  OBVIOUS
<1>1. eng.targets = <<>> /\ cfg.targets = <<>> /\ main = "load"
  BY DEF Init, NoEngine, EmptyConfig
<1>2. built = 0
  BY <1>1, EmptyIsSeq DEF built
<1>3. QED  BY <1>1, <1>2 DEF Progress, Early, Connected

\* A target is built.
LEMMA Extended ==
    ASSUME Shape, Progress, main \notin Early \cup {"exited"}, main' = "targets",
           UNCHANGED <<world, cfg>>,
           NEW x, NEW b, NEW t \in Nat,
           eng' = [targets |-> Append(eng.targets, x), brokers |-> b, timeout |-> t],
           x.rps = NextTarget.rps,
           cfg.engine = "http" => t >= eng.timeout /\ t >= Timeout(NextTarget),
           cfg.engine = "grpc" => x.timeout = Timeout(NextTarget)
    PROVE  Progress'
<1> DEFINE s == eng.targets
<1>1. eng'.targets = Append(s, x) /\ eng'.timeout = t
  OBVIOUS
<1>2. /\ Len(s) \in Nat /\ Len(Append(s, x)) = Len(s) + 1 /\ Append(s, x)[Len(s) + 1] = x
      /\ \A i \in 1 .. Len(s) : Append(s, x)[i] = s[i]
  BY Appends DEF Shape
<1>3. built = Len(s) /\ built' = Len(s) + 1
  BY <1>1, <1>2 DEF built
<1>4. ASSUME NEW i \in 1 .. Len(s) PROVE Built(i)'
  <2>1. Built(i)
    BY <1>3 DEF Progress
  <2>2. eng'.targets[i] = eng.targets[i] /\ cfg'.targets[i] = cfg.targets[i]
        /\ cfg'.engine = cfg.engine
    BY <1>1, <1>2
  <2>3. Timeout(cfg.targets[i]) \in Nat /\ eng.timeout \in Nat
    BY TimeoutType DEF Shape
  <2>4. cfg.engine = "http" => t >= Timeout(cfg.targets[i])
    BY <2>1, <2>3 DEF Built
  <2> HIDE DEF s
  <2>5. QED  BY <2>1, <2>2, <2>4, <1>1 DEF Built
<1>5. ASSUME NEW i, i = Len(s) + 1 PROVE Built(i)'
  <2>1. eng'.targets[i] = x
    BY <1>1, <1>2, <1>5
  <2>2. cfg'.targets[i] = NextTarget /\ cfg'.engine = cfg.engine
    BY <1>3, <1>5 DEF NextTarget
  <2>3. eng'.targets[i].rps = cfg'.targets[i].rps
    BY <2>1, <2>2
  <2>4. cfg'.engine = "http" => eng'.timeout >= Timeout(cfg'.targets[i])
    BY <2>2, <1>1
  <2>5. cfg'.engine = "grpc" => eng'.targets[i].timeout = Timeout(cfg'.targets[i])
    BY <2>1, <2>2
  <2>6. QED  BY <2>3, <2>4, <2>5, Zenon DEF Built
<1>6. ASSUME NEW i \in 1 .. built' PROVE Built(i)'
  <2>1. i \in 1 .. Len(s) \/ i = Len(s) + 1
    BY <1>2, <1>3
  <2>2. QED  BY <1>4, <1>5, <2>1
<1>7. Checked'
  BY DEF Progress, Checked, InvalidTarget, There
<1>8. QED  BY <1>6, <1>7 DEF Progress, Early, Connected

LEMMA ProgressNext == Shape /\ Progress /\ [Next]_vars => Progress'
<1> SUFFICES ASSUME Shape, Progress, [Next]_vars PROVE Progress'
  OBVIOUS
<1> USE DEF Early, Connected
<1>1. ASSUME main' = "exited", UNCHANGED <<world, cfg, eng>> PROVE Progress'
  BY <1>1 DEF Progress
<1>2. ASSUME UNCHANGED <<world, cfg, eng>>,
             \/ main' = main
             \/ main = "load" /\ main' = "validate"
             \/ main \notin Early \cup {"exited"} /\ main' \in {"targets", "resolve"}
             \/ main \in Connected /\ main' \in Connected
             \/ main = "targets" /\ built = Len(cfg.targets) /\ main' = "substitutor"
      PROVE  Progress'
  <2>1. built' = built /\ cfg' = cfg /\ eng' = eng /\ There' = There
    BY <1>2 DEF built, There
  <2>2. Checked => Checked'
    BY <2>1 DEF Checked, InvalidTarget
  <2>3. ASSUME NEW i, Built(i) PROVE Built(i)'
    BY <2>1, <2>3 DEF Built
  <2>4. main' # "exited" => main # "exited"
    BY <1>2
  <2>5. main' # "exited" => \A i \in 1 .. built' : Built(i)'
    BY <2>1, <2>3, <2>4 DEF Progress
  <2>6. main' = "load" => cfg'.targets = <<>>
    BY <1>2, <2>1 DEF Progress
  <2>7. main' = "validate" => cfg'.targets = <<>> \/ cfg'.engine \in Parsers
    BY <1>2, <2>1 DEF Progress
  <2>8. main' \notin Early \cup {"exited"} => Checked'
    BY <1>2, <2>2 DEF Progress
  <2>9. main' \in Connected => built' = Len(cfg'.targets)
    BY <1>2, <2>1 DEF Progress
  <2>10. QED  BY <2>5, <2>6, <2>7, <2>8, <2>9 DEF Progress
<1>3. ASSUME NEW S, Fail(S) PROVE Progress'
  BY <1>1, <1>3 DEF Fail, setupVars
<1>4. CASE LoadSkipped
  BY <1>2, <1>4 DEF LoadSkipped, Continue, setupVars
<1>5. CASE LoadMerges
  <2> DEFINE f == world.files[Path]
             c == [EmptyConfig EXCEPT !.engine = f.engine, !.targets = Parsed(f),
                     !.duration = f.duration, !.metrics = f.metrics,
                     !.variables = f.variables]
  <2>1. main = "load"
    BY <1>5 DEF LoadMerges
  <2>2. CASE \E S : Fail(S)
    BY <1>3, <2>2
  <2>3. CASE main' = "exited" /\ UNCHANGED <<world, cfg, eng>>
    BY <1>1, <2>3
  <2>4. CASE main' = "validate" /\ cfg' = c /\ ~ParseFails(f) /\ UNCHANGED <<world, eng>>
    <3>1. cfg'.targets = Parsed(f) /\ cfg'.engine = f.engine
      BY <2>4 DEF EmptyConfig
    <3>2. f.engine \in Parsers \/ f.targets = <<>>
      BY <2>4 DEF ParseFails
    <3>3. f.targets = <<>> => Parsed(f) = <<>>
      BY DEF Parsed
    <3>4. built' = 0
      BY <2>1, <2>4, EmptyIsSeq DEF Shape, NoEngine, built
    <3> HIDE DEF f, c
    <3>5. cfg'.targets = <<>> \/ cfg'.engine \in Parsers
      BY <3>1, <3>2, <3>3
    <3>6. 1 .. built' = {}
      BY <3>4
    <3>7. QED  BY <2>4, <3>5, <3>6 DEF Progress
  <2>5. QED
    BY <1>5, <2>2, <2>3, <2>4 DEF LoadMerges
<1>6. CASE Validate
  <2>1. main = "validate"
    BY <1>6 DEF Validate
  <2>2. CASE Fail({})
    BY <1>3, <2>2
  <2>3. CASE /\ cfg.targets # <<>> /\ ~InvalidTarget(cfg) /\ LongEnough(cfg.duration)
             /\ Continue("targets")
    <3>1. /\ main' = "targets" /\ cfg' = cfg /\ eng' = eng /\ built' = built
          /\ world' = world /\ There' = There
      BY <2>3 DEF Continue, setupVars, built, There
    <3>2. 0 < Len(cfg.targets) /\ cfg.engine \in Parsers
      BY <2>1, <2>3, NonEmpty DEF Progress, Shape
    <3>3. Checked
      BY <2>3, <3>2 DEF Checked
    <3>4. Checked'
      BY <3>1, <3>3 DEF Checked, InvalidTarget
    <3>5. built = 0
      BY <2>1, EmptyIsSeq DEF Shape, NoEngine, built
    <3>6. 1 .. built' = {}
      BY <3>1, <3>5
    <3>7. QED  BY <3>1, <3>4, <3>6 DEF Progress
  <2>4. QED  BY <1>6, <2>2, <2>3 DEF Validate
<1>7. CASE BuildHTTP
  <2> DEFINE x == [rps |-> NextTarget.rps, headers |-> NextTarget.headers]
             t == IF Timeout(NextTarget) > eng.timeout THEN Timeout(NextTarget)
                                                       ELSE eng.timeout
  <2>1. main = "targets" /\ cfg.engine = "http"
    BY <1>7 DEF BuildHTTP, Builds
  <2>2. CASE Fail({})
    BY <1>3, <2>2
  <2>3. CASE Extend([AddTo(eng, x) EXCEPT !.timeout = IF Timeout(NextTarget) > @
                                             THEN Timeout(NextTarget) ELSE @])
    <3>1. eng.timeout \in Nat /\ Timeout(NextTarget) \in Nat
      BY TimeoutType DEF Shape
    <3>2. t \in Nat /\ t >= eng.timeout /\ t >= Timeout(NextTarget)
      BY <3>1
    <3>3. AddTo(eng, x) = [targets |-> Append(eng.targets, x),
                           brokers |-> eng.brokers, timeout |-> eng.timeout]
      BY Added, Zenon
    <3>4. AddTo(eng, x).timeout = eng.timeout
      BY <3>3
    <3>5. eng' = [AddTo(eng, x) EXCEPT !.timeout = t]
      BY <2>3, <3>4 DEF Extend
    <3>6. main' = "targets" /\ UNCHANGED <<world, cfg>>
      BY <2>1, <2>3 DEF Extend
    <3>7. x.rps = NextTarget.rps
      OBVIOUS
    <3> HIDE DEF t, x
    <3>8. eng' = [targets |-> Append(eng.targets, x), brokers |-> eng.brokers, timeout |-> t]
      BY <3>5, Added, Zenon
    <3>9. QED  BY <2>1, <3>2, <3>6, <3>7, <3>8, Extended
  <2>4. QED  BY <1>7, <2>2, <2>3 DEF BuildHTTP
<1>8. CASE BuildKafka
  <2>1. main = "targets" /\ cfg.engine = "kafka"
    BY <1>8 DEF BuildKafka, Builds
  <2>2. CASE Fail({})
    BY <1>3, <2>2
  <2>3. CASE \E k, v, b : Extend([AddTo(eng, [rps |-> NextTarget.rps,
                                                  headers |-> NextTarget.headers,
                                                  key |-> k, value |-> v])
                                     EXCEPT !.brokers = b])
    <3>1. PICK k, v, b : Extend([AddTo(eng, [rps |-> NextTarget.rps,
                                             headers |-> NextTarget.headers,
                                             key |-> k, value |-> v])
                                   EXCEPT !.brokers = b])
      BY <2>3
    <3> DEFINE x == [rps |-> NextTarget.rps, headers |-> NextTarget.headers,
                     key |-> k, value |-> v]
    <3>2. x.rps = NextTarget.rps
      OBVIOUS
    <3>3. eng' = [AddTo(eng, x) EXCEPT !.brokers = b]
          /\ main' = "targets" /\ UNCHANGED <<world, cfg>>
      BY <2>1, <3>1 DEF Extend
    <3>4. eng.timeout \in Nat
      BY DEF Shape
    <3> HIDE DEF x
    <3>5. eng' = [targets |-> Append(eng.targets, x), brokers |-> b, timeout |-> eng.timeout]
      BY <3>3, Added, Zenon
    <3>6. QED  BY <2>1, <3>2, <3>3, <3>4, <3>5, Extended
  <2>4. QED  BY <1>8, <2>2, <2>3 DEF BuildKafka
<1>9. CASE Resolve
  <2>1. main = "resolve" /\ cfg.engine = "grpc" /\ main' = "targets" /\ UNCHANGED <<world, cfg>>
    BY <1>9 DEF Resolve, Shape
  <2>2. PICK s : eng' = AddTo(eng, [rps |-> NextTarget.rps, headers |-> NextTarget.headers,
                                    timeout |-> Timeout(NextTarget), types |-> s])
    BY <1>9 DEF Resolve
  <2> DEFINE x == [rps |-> NextTarget.rps, headers |-> NextTarget.headers,
                   timeout |-> Timeout(NextTarget), types |-> s]
  <2>3. x.rps = NextTarget.rps /\ x.timeout = Timeout(NextTarget) /\ eng' = AddTo(eng, x)
    BY <2>2
  <2>4. eng.timeout \in Nat
    BY DEF Shape
  <2> HIDE DEF x
  <2>5. eng' = [targets |-> Append(eng.targets, x), brokers |-> eng.brokers,
                timeout |-> eng.timeout]
    BY <2>3, Added, Zenon
  <2>6. QED  BY <2>1, <2>3, <2>4, <2>5, Extended
<1>10. CASE LoadFails \/ FileGone \/ HostRefused \/ SchemaFails \/ DialFails
            \/ ResolveFails \/ ClientFails
  BY <1>3, <1>10 DEF LoadFails, FileGone, HostRefused, SchemaFails, DialFails,
     ResolveFails, ClientFails
<1>11. CASE Dial
  BY <1>2, <1>11 DEF Dial, Builds, setupVars
<1>12. CASE GetConnector
  <2>1. CASE Fail(Connections)
    BY <1>3, <2>1
  <2>2. CASE main' = "substitutor" /\ UNCHANGED setupVars
    BY <1>2, <1>12, <2>2 DEF GetConnector, setupVars
  <2>3. QED  BY <1>12, <2>1, <2>2 DEF GetConnector
<1>13. CASE GetSubstitutor
  BY <1>2, <1>3, <1>13 DEF GetSubstitutor, Continue, setupVars
<1>14. CASE NewPool
  BY <1>2, <1>3, <1>14 DEF NewPool, Continue, setupVars
<1>15. CASE GetClient \/ Notify \/ RunElapses \/ RunCancelled
  BY <1>2, <1>15 DEF GetClient, Notify, RunElapses, RunCancelled, Continue, setupVars
<1>16. CASE SignalKills \/ RunPanics \/ Shutdown
  BY <1>1, <1>16 DEF SignalKills, RunPanics, Shutdown, setupVars
<1>17. CASE Signal \/ Handle \/ Terminated \/ UNCHANGED vars
  BY <1>2, <1>17 DEF Signal, Handle, Terminated, vars, setupVars
<1>18. QED
  BY <1>4, <1>5, <1>6, <1>7, <1>8, <1>9, <1>10, <1>11, <1>12, <1>13, <1>14, <1>15,
     <1>16, <1>17
  DEF Next, Setup, Finish

-----------------------------------------------------------------------------
(* Types, signals among them *)

Types ==
    /\ DOMAIN cfg = DOMAIN EmptyConfig
    /\ notified \in BOOLEAN /\ sigChan \in 0 .. 1 /\ cancelled \in BOOLEAN
    /\ handler \in {"none", "waiting", "done"}
    /\ exit \in {"none", "ok", "failed", "killed", "panic", "nil map"}

LEMMA TypesNext == Types /\ [Next]_vars => Types'
<1> SUFFICES ASSUME Types, [Next]_vars PROVE Types'
  OBVIOUS
<1> USE DEF Types
<1>1. ASSUME NEW S, Fail(S) PROVE Types'
  BY <1>1 DEF Fail, setupVars, signalVars
<1>2. ASSUME UNCHANGED <<cfg, signalVars, exit>> PROVE Types'
  BY <1>2 DEF signalVars
<1>3. CASE LoadMerges
  <2>1. DOMAIN cfg' = DOMAIN EmptyConfig
    BY <1>3 DEF LoadMerges, Fail, setupVars, EmptyConfig
  <2>2. UNCHANGED signalVars /\ exit' \in {exit, "failed", "nil map"}
    BY <1>3 DEF LoadMerges, Fail
  <2>3. QED  BY <2>1, <2>2 DEF signalVars
<1>4. CASE BuildKafka
  BY <1>1, <1>2, <1>4 DEF BuildKafka, Extend
<1>5. CASE LoadFails \/ FileGone \/ HostRefused \/ SchemaFails \/ DialFails
           \/ ResolveFails \/ ClientFails
  BY <1>1, <1>5 DEF LoadFails, FileGone, HostRefused, SchemaFails, DialFails,
     ResolveFails, ClientFails
<1>6. CASE LoadSkipped \/ Validate \/ GetSubstitutor \/ NewPool \/ RunElapses \/ RunCancelled
  BY <1>1, <1>2, <1>6 DEF LoadSkipped, Validate, GetSubstitutor, NewPool, RunElapses,
     RunCancelled, Continue, setupVars
<1>7. CASE BuildHTTP \/ Dial \/ Resolve \/ GetConnector \/ GetClient
  BY <1>1, <1>2, <1>7 DEF BuildHTTP, Dial, Resolve, GetConnector, GetClient, Extend,
     setupVars, signalVars
<1>8. CASE Notify
  BY <1>8 DEF Notify, setupVars
<1>9. CASE Signal
  BY <1>9 DEF Signal, setupVars
<1>10. CASE Handle
  BY <1>10 DEF Handle, setupVars
<1>11. CASE SignalKills \/ RunPanics
  BY <1>11 DEF SignalKills, RunPanics, setupVars, signalVars
<1>12. CASE Shutdown
  BY <1>12 DEF Shutdown, setupVars
<1>13. CASE Terminated \/ UNCHANGED vars
  BY <1>2, <1>13 DEF Terminated, vars, setupVars
<1>14. QED
  BY <1>3, <1>4, <1>5, <1>6, <1>7, <1>8, <1>9, <1>10, <1>11, <1>12, <1>13
  DEF Next, Setup, Finish

-----------------------------------------------------------------------------
(* What was declared *)

File == world.files[Path]

\* What the engine has of target i.
Does(i) ==
    /\ eng.targets[i].headers = cfg.targets[i].headers
    /\ cfg.engine = "kafka" =>
         /\ eng.targets[i].key \in Serializers(cfg.targets[i].registry,
                                               cfg.targets[i].keySchema)
         /\ eng.targets[i].value \in Serializers(cfg.targets[i].registry,
                                                 cfg.targets[i].valueSchema)
         /\ ToSet(cfg.targets[i].brokers) \subseteq ToSet(eng.brokers)
    /\ cfg.engine = "grpc" =>
         (eng.targets[i].types = "proto" <=> cfg.targets[i].protoFiles # <<>>)

\* The targets are those of the file that was asked for, or none.
Merged ==
    cfg.targets # <<>> =>
      Readable /\ cfg.engine = File.engine /\ cfg.targets = Parsed(File)

Declared ==
    main # "exited" =>
      IsSeq(eng.brokers) /\ Merged /\ \A i \in 1 .. built : Does(i)

LEMMA DeclaredInit == Init => Declared
<1> SUFFICES ASSUME Init PROVE Declared
  OBVIOUS
<1>1. eng.targets = <<>> /\ eng.brokers = <<>> /\ cfg.targets = <<>>
  BY DEF Init, NoEngine, EmptyConfig
<1>2. IsSeq(eng.brokers) /\ built = 0
  BY <1>1, EmptyIsSeq DEF built
<1>3. QED  BY <1>1, <1>2 DEF Declared, Merged

\* A target of the configuration is one of the file, parsed.
LEMMA TargetsParsed ==
    ASSUME Shape, Merged, NEW i \in 1 .. Len(cfg.targets)
    PROVE  /\ Readable /\ cfg.engine = File.engine
           /\ DOMAIN File.targets = 1 .. Len(cfg.targets) /\ i \in DOMAIN File.targets
           /\ IsRaw(File.targets[i])
           /\ cfg.targets[i] = ParseTarget(cfg.engine, File.targets[i])
<1>1. cfg.targets # <<>>
  BY EmptyIsSeq
<1>2. Readable /\ cfg.engine = File.engine /\ cfg.targets = Parsed(File)
  BY <1>1 DEF Merged
<1>3. PICK S : cfg.targets \in Seq(S)
  BY DEF Shape, IsSeq
<1>4. DOMAIN cfg.targets = 1 .. Len(cfg.targets)
  BY <1>3
<1>5. DOMAIN Parsed(File) = DOMAIN File.targets
      /\ \A j \in DOMAIN File.targets : Parsed(File)[j] = ParseTarget(File.engine, File.targets[j])
  BY DEF Parsed
<1>6. DOMAIN File.targets = 1 .. Len(cfg.targets) /\ i \in DOMAIN File.targets
  BY <1>2, <1>4, <1>5
<1>7. IsRaw(File.targets[i])
  BY <1>2, <1>6, TargetsAssumption DEF Shape, Readable, File
<1>8. QED  BY <1>2, <1>5, <1>6, <1>7

\* Brokers and proto files of a target are sequences.
LEMMA NamesAreSeqs ==
    ASSUME Shape, Merged, NEW i \in 1 .. Len(cfg.targets)
    PROVE  /\ cfg.engine = "kafka" => IsSeq(cfg.targets[i].brokers)
           /\ cfg.engine = "grpc" => IsSeq(cfg.targets[i].protoFiles)
<1> DEFINE raw == File.targets[i]
<1>1. IsRaw(raw) /\ cfg.targets[i] = ParseTarget(cfg.engine, raw)
  BY TargetsParsed
<1> HIDE DEF raw
<1>2. CASE cfg.engine = "kafka"
  <2>1. cfg.targets[i].brokers = StringsOf(raw, "brokers")
    BY <1>1, <1>2 DEF ParseTarget, ParseKafkaTarget
  <2>2. IsSeq(StringsOf(raw, "brokers"))
    BY <1>1, StringsKept
  <2>3. QED  BY <1>2, <2>1, <2>2
<1>3. CASE cfg.engine = "grpc"
  <2>1. cfg.targets[i].protoFiles = StringsOf(raw, "proto_files")
    BY <1>1, <1>3 DEF ParseTarget, ParseGRPCTarget
  <2>2. IsSeq(StringsOf(raw, "proto_files"))
    BY <1>1, StringsKept
  <2>3. QED  BY <1>3, <2>1, <2>2
<1>4. QED  BY <1>2, <1>3

\* The new brokers of a target are added, the others are there.
LEMMA BrokersAdded ==
    ASSUME NEW t, IsSeq(eng.brokers), IsSeq(t.brokers)
    PROVE  /\ IsSeq(eng.brokers \o NewBrokers(t))
           /\ ToSet(eng.brokers \o NewBrokers(t)) = ToSet(eng.brokers) \cup ToSet(t.brokers)
<1> DEFINE s == t.brokers
           kept == {i \in DOMAIN s : /\ s[i] \notin ToSet(eng.brokers)
                                     /\ \A j \in 1 .. i - 1 : s[j] # s[i]}
<1>1. PICK S : s \in Seq(S)
  BY DEF IsSeq
<1>2. PICK R : eng.brokers \in Seq(R)
  BY DEF IsSeq
<1>3. Selected(s, kept) \in Seq(S) /\ ToSet(Selected(s, kept)) = {s[j] : j \in kept}
  <2>1. kept \in SUBSET (DOMAIN s)
    OBVIOUS
  <2> HIDE DEF s, kept
  <2>2. QED  BY <1>1, <2>1, SelectedItems
<1>4. NewBrokers(t) = Selected(s, kept)
  BY DEF NewBrokers
<1>5. ToSet(s) \subseteq ToSet(eng.brokers) \cup {s[j] : j \in kept}
      /\ {s[j] : j \in kept} \subseteq ToSet(s)
  <2>1. ASSUME NEW k \in DOMAIN s, s[k] \notin ToSet(eng.brokers)
        PROVE  s[k] \in {s[j] : j \in kept}
    <3> DEFINE T == {j \in DOMAIN s : s[j] = s[k]}
    <3>1. DOMAIN s = 1 .. Len(s) /\ Len(s) \in Nat
      <4> HIDE DEF s
      <4> QED  BY <1>1
    <3>2. T \in SUBSET Nat /\ T # {}
      <4> HIDE DEF s
      <4> QED  BY <2>1, <3>1
    <3>3. PICK n \in T : \A m \in T : n <= m
      <4> HIDE DEF T
      <4> QED  BY <3>2, Least
    <3>4. n \in DOMAIN s /\ n \in Nat /\ s[n] = s[k]
      <4> HIDE DEF s
      <4> QED  BY <3>2, <3>3
    <3>5. ASSUME NEW j \in 1 .. n - 1 PROVE s[j] # s[n]
      <4> HIDE DEF s
      <4>1. j \in DOMAIN s /\ ~(n <= j)
        BY <3>1, <3>4
      <4>2. QED  BY <3>3, <3>4, <4>1
    <3>6. n \in kept
      BY <2>1, <3>4, <3>5
    <3> HIDE DEF kept
    <3>7. QED  BY <3>4, <3>6
  <2>2. QED  BY <2>1 DEF ToSet
<1> HIDE DEF s, kept
<1> DEFINE u == Selected(s, kept)
           b == eng.brokers
<1>6. b \in Seq(R \cup S) /\ u \in Seq(R \cup S)
  BY <1>2, <1>3
<1>7. b \o u \in Seq(R \cup S) /\ ToSet(b \o u) = ToSet(b) \cup ToSet(u)
  <2> HIDE DEF b, u
  <2> QED  BY <1>6, ItemsOfBoth
<1>8. QED  BY <1>3, <1>4, <1>5, <1>7 DEF IsSeq, s

\* The next target is added with what it declares.
LEMMA DeclaredExtended ==
    ASSUME Shape, Declared, main # "exited", UNCHANGED <<world, cfg>>,
           NEW x, NEW b, NEW t,
           eng' = [targets |-> Append(eng.targets, x), brokers |-> b, timeout |-> t],
           IsSeq(b), ToSet(eng.brokers) \subseteq ToSet(b),
           x.headers = NextTarget.headers,
           cfg.engine = "kafka" =>
             /\ x.key \in Serializers(NextTarget.registry, NextTarget.keySchema)
             /\ x.value \in Serializers(NextTarget.registry, NextTarget.valueSchema)
             /\ ToSet(NextTarget.brokers) \subseteq ToSet(b),
           cfg.engine = "grpc" => (x.types = "proto" <=> NextTarget.protoFiles # <<>>)
    PROVE  Declared'
<1>1. eng'.targets = Append(eng.targets, x) /\ eng'.brokers = b
  OBVIOUS
<1>2. /\ Len(eng.targets) \in Nat /\ built' = Len(eng.targets) + 1
      /\ eng'.targets[Len(eng.targets) + 1] = x
      /\ \A i \in 1 .. Len(eng.targets) : eng'.targets[i] = eng.targets[i]
  BY <1>1, Appends DEF Shape, built
<1>3. Merged'
  BY DEF Declared, Merged, Readable, File, Path, FlagPath, There
<1>4. ASSUME NEW i \in 1 .. built' PROVE Does(i)'
  <2>1. CASE i \in 1 .. Len(eng.targets)
    <3>1. Does(i) /\ eng'.targets[i] = eng.targets[i]
      BY <1>2, <2>1 DEF Declared, built
    <3>2. QED  BY <1>1, <3>1 DEF Does
  <2>2. CASE i \notin 1 .. Len(eng.targets)
    <3>1. i = Len(eng.targets) + 1
      BY <1>2, <1>4, <2>2
    <3>2. eng'.targets[i] = x /\ NextTarget = cfg.targets[i] /\ cfg' = cfg
      BY <1>2, <3>1 DEF NextTarget, built
    <3>3. QED  BY <1>1, <3>2 DEF Does
  <2>3. QED  BY <2>1, <2>2
<1>5. QED  BY <1>1, <1>3, <1>4 DEF Declared

LEMMA DeclaredNext == Shape /\ Declared /\ [Next]_vars => Declared'
<1> SUFFICES ASSUME Shape, Declared, [Next]_vars PROVE Declared'
  OBVIOUS
<1>1. ASSUME main' = "exited" PROVE Declared'
  BY <1>1 DEF Declared
<1>2. ASSUME UNCHANGED <<world, cfg, eng>>, main' # "exited" => main # "exited" PROVE Declared'
  <2>1. Merged => Merged'
    BY <1>2 DEF Merged, Readable, File, Path, FlagPath, There
  <2>2. \A i : Does(i) => Does(i)'
    BY <1>2 DEF Does
  <2>3. built' = built
    BY <1>2 DEF built
  <2>4. QED  BY <1>2, <2>1, <2>2, <2>3 DEF Declared
<1>3. ASSUME NEW S, Fail(S) PROVE Declared'
  BY <1>1, <1>3 DEF Fail
<1>4. CASE LoadSkipped
  BY <1>2, <1>4 DEF LoadSkipped, Continue, setupVars
<1>5. CASE LoadMerges
  <2> DEFINE f == world.files[Path]
             c == [EmptyConfig EXCEPT !.engine = f.engine, !.targets = Parsed(f),
                     !.duration = f.duration, !.metrics = f.metrics,
                     !.variables = f.variables]
  <2>1. main = "load" /\ Readable
    BY <1>5 DEF LoadMerges
  <2>2. CASE main' = "exited"
    BY <1>1, <2>2
  <2>3. CASE main' = "validate" /\ cfg' = c /\ UNCHANGED <<world, eng>>
    <3>1. cfg'.targets = Parsed(f) /\ cfg'.engine = f.engine
      BY <2>3 DEF EmptyConfig
    <3>2. built' = 0
      BY <2>1, <2>3, EmptyIsSeq DEF Shape, Early, NoEngine, built
    <3>3. IsSeq(eng'.brokers)
      BY <2>1, <2>3 DEF Declared
    <3>4. Readable' /\ File' = f
      BY <2>1, <2>3 DEF Readable, File, Path, FlagPath, There
    <3> HIDE DEF f, c
    <3>5. Merged'
      <4>1. Parsed(File)' = Parsed(f)
        BY <3>4 DEF Parsed
      <4>2. QED  BY <3>1, <3>4, <4>1 DEF Merged
    <3>6. 1 .. built' = {}
      BY <3>2
    <3>7. QED  BY <3>3, <3>5, <3>6 DEF Declared
  <2>4. QED  BY <1>5, <2>2, <2>3 DEF LoadMerges, Fail
<1>6. CASE BuildHTTP
  <2>1. main = "targets" /\ cfg.engine = "http"
    BY <1>6 DEF BuildHTTP, Builds
  <2>2. CASE Fail({})
    BY <1>3, <2>2
  <2>3. CASE \E r : Extend([AddTo(eng, [rps |-> NextTarget.rps, headers |-> NextTarget.headers])
                                EXCEPT !.timeout = r])
    <3>1. PICK r : Extend([AddTo(eng, [rps |-> NextTarget.rps, headers |-> NextTarget.headers])
                              EXCEPT !.timeout = r])
      BY <2>3
    <3> DEFINE x == [rps |-> NextTarget.rps, headers |-> NextTarget.headers]
    <3>2. x.headers = NextTarget.headers
      OBVIOUS
    <3>3. eng' = [AddTo(eng, x) EXCEPT !.timeout = r] /\ UNCHANGED <<world, cfg>>
      BY <3>1 DEF Extend
    <3> HIDE DEF x
    <3>4. eng' = [targets |-> Append(eng.targets, x), brokers |-> eng.brokers, timeout |-> r]
      BY <3>3, Added, Zenon
    <3>5. IsSeq(eng.brokers)
      BY <2>1 DEF Declared
    <3>6. cfg.engine # "kafka" /\ cfg.engine # "grpc" /\ main # "exited"
      BY <2>1
    <3>7. QED  BY <3>2, <3>3, <3>4, <3>5, <3>6, DeclaredExtended
  <2>4. QED  BY <1>6, <2>2, <2>3 DEF BuildHTTP
<1>7. CASE BuildKafka
  <2>1. main = "targets" /\ cfg.engine = "kafka" /\ built < Len(cfg.targets)
    BY <1>7 DEF BuildKafka, Builds
  <2>2. CASE Fail({})
    BY <1>3, <2>2
  <2>3. CASE \E k \in Serializers(NextTarget.registry, NextTarget.keySchema),
                v \in Serializers(NextTarget.registry, NextTarget.valueSchema) :
               Extend([AddTo(eng, [rps |-> NextTarget.rps, headers |-> NextTarget.headers,
                                   key |-> k, value |-> v])
                         EXCEPT !.brokers = eng.brokers \o NewBrokers(NextTarget)])
    <3> DEFINE b == eng.brokers \o NewBrokers(NextTarget)
    <3>1. PICK k \in Serializers(NextTarget.registry, NextTarget.keySchema),
               v \in Serializers(NextTarget.registry, NextTarget.valueSchema) :
                 Extend([AddTo(eng, [rps |-> NextTarget.rps, headers |-> NextTarget.headers,
                                     key |-> k, value |-> v])
                           EXCEPT !.brokers = b])
      BY <2>3
    <3> DEFINE x == [rps |-> NextTarget.rps, headers |-> NextTarget.headers,
                     key |-> k, value |-> v]
    <3>2. x.headers = NextTarget.headers /\ x.key = k /\ x.value = v
      OBVIOUS
    <3>3. eng' = [AddTo(eng, x) EXCEPT !.brokers = b] /\ UNCHANGED <<world, cfg>>
      BY <3>1 DEF Extend
    <3>4. IsSeq(eng.brokers) /\ Merged
      BY <2>1 DEF Declared
    <3>5. IsSeq(NextTarget.brokers)
      <4>1. built \in Nat /\ Len(cfg.targets) \in Nat
        BY Appends DEF Shape, built
      <4>2. built + 1 \in 1 .. Len(cfg.targets)
        BY <2>1, <4>1
      <4>3. QED  BY <2>1, <3>4, <4>2, NamesAreSeqs DEF NextTarget
    <3>6. IsSeq(b) /\ ToSet(b) = ToSet(eng.brokers) \cup ToSet(NextTarget.brokers)
      BY <3>4, <3>5, BrokersAdded
    <3> HIDE DEF x, b
    <3>7. eng' = [targets |-> Append(eng.targets, x), brokers |-> b, timeout |-> eng.timeout]
      BY <3>3, Added, Zenon
    <3>8. /\ x.key \in Serializers(NextTarget.registry, NextTarget.keySchema)
          /\ x.value \in Serializers(NextTarget.registry, NextTarget.valueSchema)
          /\ ToSet(NextTarget.brokers) \subseteq ToSet(b)
          /\ ToSet(eng.brokers) \subseteq ToSet(b)
      BY <3>2, <3>6
    <3>9. cfg.engine # "grpc" /\ main # "exited"
      BY <2>1
    <3>10. QED  BY <3>2, <3>3, <3>6, <3>7, <3>8, <3>9, DeclaredExtended
  <2>4. QED
    <3>1. ASSUME NEW x
          PROVE  [AddTo(eng, x) EXCEPT !.brokers = @ \o NewBrokers(NextTarget)] =
                   [AddTo(eng, x) EXCEPT !.brokers = eng.brokers \o NewBrokers(NextTarget)]
      <4>1. AddTo(eng, x) = [targets |-> Append(eng.targets, x),
                             brokers |-> eng.brokers, timeout |-> eng.timeout]
        BY Added, Zenon
      <4>2. AddTo(eng, x).brokers = eng.brokers
        BY <4>1
      <4>3. QED  BY <4>2
    <3>2. QED  BY <1>7, <2>2, <2>3, <3>1 DEF BuildKafka
<1>8. CASE Resolve
  <2>1. main = "resolve" /\ cfg.engine = "grpc" /\ UNCHANGED <<world, cfg>>
    BY <1>8 DEF Resolve, Shape
  <2> DEFINE s == IF NextTarget.protoFiles # <<>> THEN "proto" ELSE "reflection"
             x == [rps |-> NextTarget.rps, headers |-> NextTarget.headers,
                   timeout |-> Timeout(NextTarget), types |-> s]
  <2>2. eng' = AddTo(eng, x)
    BY <1>8 DEF Resolve
  <2>3. x.headers = NextTarget.headers /\ (x.types = "proto" <=> NextTarget.protoFiles # <<>>)
    OBVIOUS
  <2> HIDE DEF x
  <2>4. eng' = [targets |-> Append(eng.targets, x), brokers |-> eng.brokers,
                timeout |-> eng.timeout]
    BY <2>2, Added, Zenon
  <2>5. IsSeq(eng.brokers)
    BY <2>1 DEF Declared
  <2>6. cfg.engine # "kafka" /\ main # "exited"
    BY <2>1
  <2>7. QED  BY <2>1, <2>3, <2>4, <2>5, <2>6, DeclaredExtended
<1>9. CASE LoadFails \/ FileGone \/ HostRefused \/ SchemaFails \/ DialFails
           \/ ResolveFails \/ ClientFails
  BY <1>3, <1>9 DEF LoadFails, FileGone, HostRefused, SchemaFails, DialFails,
     ResolveFails, ClientFails
<1>10. CASE Validate \/ GetSubstitutor \/ NewPool \/ RunElapses \/ RunCancelled
  BY <1>2, <1>3, <1>10 DEF Validate, GetSubstitutor, NewPool, RunElapses, RunCancelled,
     Continue, setupVars
<1>11. CASE Dial \/ GetConnector \/ GetClient \/ Notify
  BY <1>2, <1>3, <1>11 DEF Dial, GetConnector, GetClient, Notify, Builds, setupVars
<1>12. CASE SignalKills \/ RunPanics \/ Shutdown
  BY <1>1, <1>12 DEF SignalKills, RunPanics, Shutdown
<1>13. CASE Signal \/ Handle \/ Terminated \/ UNCHANGED vars
  BY <1>2, <1>13 DEF Signal, Handle, Terminated, vars, setupVars
<1>14. QED
  BY <1>4, <1>5, <1>6, <1>7, <1>8, <1>9, <1>10, <1>11, <1>12, <1>13
  DEF Next, Setup, Finish

-----------------------------------------------------------------------------
(* The theorems *)

Inv == Shape /\ Books /\ Progress /\ Types /\ Declared

LEMMA Invariant == Spec => []Inv
<1>1. Init => Inv
  <2> SUFFICES ASSUME Init PROVE Inv
    OBVIOUS
  <2>1. Types
    <3>1. cfg = EmptyConfig /\ notified = FALSE /\ sigChan = 0 /\ handler = "none"
          /\ cancelled = FALSE /\ exit = "none"
      BY DEF Init
    <3>2. DOMAIN cfg = DOMAIN EmptyConfig
      BY <3>1
    <3>3. sigChan \in 0 .. 1
      BY <3>1
    <3>4. QED  BY <3>1, <3>2, <3>3, Zenon DEF Types
  <2>2. QED  BY <2>1, ShapeInit, BooksInit, ProgressInit, DeclaredInit DEF Inv
<1>2. Inv /\ [Next]_vars => Inv'
  BY ShapeNext, BooksNext, ProgressNext, TypesNext, DeclaredNext DEF Inv
<1>3. QED  BY <1>1, <1>2, PTL DEF Spec

\* Every variable keeps its type; the channel of signals holds one at most, an
\* engine never has more targets than its configuration.
THEOREM TypeCorrect == Spec => []TypeOK
<1>1. Inv => TypeOK
  <2> SUFFICES ASSUME Inv PROVE TypeOK
    OBVIOUS
  <2>1. main \in Points /\ built <= Len(cfg.targets) /\ Len(cfg.targets) <= MaxTargets
    BY DEF Inv, Shape
  <2>2. DOMAIN eng = DOMAIN NoEngine
    BY DEF Inv, Shape, IsEngine, NoEngine
  <2>3. QED
    BY <2>1, <2>2 DEF Inv, Types, Books, TypeOK, Points, Early, Connected
<1>2. QED  BY <1>1, Invariant, PTL

\* Whatever fails, and when: what was opened is closed once, by the error paths
\* of the constructors or by Close.
THEOREM Releases == Spec => []ReleasedOnce
<1>1. Inv => ReleasedOnce
  BY DEF Inv, Books
<1>2. QED  BY <1>1, Invariant, PTL

\* pool.Run gets what it relies on: targets with positive rates, a duration of
\* at least a second, open connections, client and connector.
THEOREM CompleteWhenRun == Spec => []RunsComplete
<1>1. Inv => RunsComplete
  <2> SUFFICES ASSUME Inv, main = "running" PROVE RunsComplete
    BY DEF RunsComplete
  <2>1. /\ IsSeq(cfg.targets) /\ Len(cfg.targets) <= MaxTargets
        /\ built = Len(cfg.targets) /\ 0 < Len(cfg.targets)
        /\ cfg.engine \in Parsers /\ ~InvalidTarget(cfg) /\ LongEnough(cfg.duration)
    BY DEF Inv, Shape, Progress, Checked, Connected, Early
  <2>2. Len(cfg.targets) \in Nat /\ DOMAIN cfg.targets = 1 .. Len(cfg.targets)
    <3>1. PICK S : cfg.targets \in Seq(S)
      BY <2>1 DEF IsSeq
    <3>2. QED  BY <3>1
  <2>3. ASSUME NEW i \in 1 .. built PROVE eng.targets[i].rps > 0
    <3>1. Valid(cfg.engine, cfg.targets[i], There)
      BY <2>1, <2>2 DEF InvalidTarget
    <3>2. cfg.targets[i].rps > 0
      BY <2>1, <3>1 DEF Valid, ValidHTTP, ValidGRPC, ValidKafka, Parsers
    <3>3. eng.targets[i].rps = cfg.targets[i].rps
      BY DEF Inv, Progress, Built
    <3>4. QED  BY <3>2, <3>3
  <2>4. Owned = Held
    BY Owning DEF Inv, OwnedWhere, Complete
  <2>5. \A r \in Resources : opened[r] = (IF r \in Held THEN 1 ELSE 0) /\ closed[r] = 0
    BY <2>4 DEF Inv, Books
  <2>6. opened[Connector] = 1
    BY <2>5 DEF Resources, Held
  <2>7. cfg.engine = "kafka" => opened[Client] = 1
    BY <2>5 DEF Resources, Held, KafkaClient
  <2>8. cfg.engine = "grpc" => \A r \in Conns(built) : opened[r] = 1
    <3>1. MaxTargets \in Nat
      BY SessionAssumption
    <3>2. 1 .. built \subseteq 1 .. MaxTargets
      BY <2>1, <2>2, <3>1
    <3>3. Conns(built) \subseteq Resources
      BY <3>2, Zenon DEF Resources, Conns
    <3>4. QED  BY <2>5, <3>3 DEF Held, Connections
  <2>9. QED
    BY <2>1, <2>3, <2>5, <2>6, <2>7, <2>8 DEF RunsComplete
<1>2. QED  BY <1>1, Invariant, PTL

\* Timeouts of several targets: the client of HTTP has the longest one, a gRPC
\* target its own.
THEOREM EnoughTime == Spec => []TimeoutsGranted
<1>1. Inv => TimeoutsGranted
  <2> SUFFICES ASSUME Inv, main = "running" PROVE TimeoutsGranted
    BY DEF TimeoutsGranted
  <2>1. DOMAIN eng.targets = 1 .. built
    <3>1. PICK S : eng.targets \in Seq(S)
      BY DEF Inv, Shape, IsSeq
    <3>2. QED  BY <3>1 DEF built
  <2>2. \A i \in 1 .. built : Built(i)
    BY DEF Inv, Progress
  <2>3. QED  BY <2>1, <2>2 DEF TimeoutsGranted, Built
<1>2. QED  BY <1>1, Invariant, PTL

\* The engine that runs is that of the file that has precedence, and every one of
\* its targets does what it declares.
THEOREM DeclaredWhenRun == Spec => []RunsAsDeclared
<1>1. Inv => RunsAsDeclared
  <2> SUFFICES ASSUME Inv, main = "running" PROVE RunsAsDeclared
    BY DEF RunsAsDeclared
  <2> DEFINE n == Len(cfg.targets)
  <2>1. /\ Shape /\ Merged /\ 0 < n /\ built = n /\ n \in Nat
        /\ cfg.engine \in Parsers /\ ~InvalidTarget(cfg)
        /\ \A i \in 1 .. n : Built(i) /\ Does(i)
    <3>1. n \in Nat
      BY Appends DEF Inv, Shape
    <3> HIDE DEF n
    <3>2. QED
      BY <3>1 DEF Inv, Progress, Declared, Checked, Connected, Early, n
  <2>2. 1 \in 1 .. n
    BY <2>1
  <2>3. Readable /\ cfg.engine = File.engine /\ DOMAIN File.targets = 1 .. n
    BY <2>1, <2>2, TargetsParsed
  <2>4. Asked = Path
    <3>1. Path # "" /\ Path = FindConfigFile(FlagPath, world.env, There)
      BY <2>3 DEF Readable, Path
    <3>2. QED  BY <3>1 DEF Asked, FindConfigFile
  <2>5. DOMAIN eng.targets = 1 .. n
    <3>1. PICK S : eng.targets \in Seq(S)
      BY DEF Inv, Shape, IsSeq
    <3>2. QED  BY <2>1, <3>1 DEF built
  <2>6. ASSUME NEW i \in 1 .. n
        PROVE  DoesAsDeclared(File.engine, File.targets[i], eng.targets[i])
    <3> DEFINE raw == File.targets[i]
               t == eng.targets[i]
               c == cfg.targets[i]
    <3>1. IsRaw(raw) /\ c = ParseTarget(cfg.engine, raw)
      BY <2>1, TargetsParsed
    <3>2. t.rps = c.rps /\ t.headers = c.headers
      BY <2>1 DEF Built, Does
    <3>3. Valid(cfg.engine, c, There)
      <4>1. DOMAIN cfg.targets = 1 .. n
        <5>1. PICK S : cfg.targets \in Seq(S)
          BY <2>1 DEF Shape, IsSeq
        <5>2. QED  BY <5>1
      <4>2. QED  BY <2>1, <4>1 DEF InvalidTarget
    <3>4. Does(i)
      BY <2>1
    <3> HIDE DEF raw
    <3>5. c.rps = IntOf(raw, "rps") /\ c.rps > 0
      <4>1. c.rps = IntOf(raw, "rps")
        BY <2>1, <3>1 DEF Parsers, ParseTarget, ParseHTTPTarget, ParseGRPCTarget, ParseKafkaTarget
      <4>2. c.rps > 0
        BY <2>1, <3>3 DEF Parsers, Valid, ValidHTTP, ValidGRPC, ValidKafka
      <4>3. QED  BY <4>1, <4>2
    <3>6. Is(raw, "rps", "int") /\ t.rps = raw.rps.n
      <4>1. Is(raw, "rps", "int")
        BY <3>5 DEF IntOf
      <4>2. IntOf(raw, "rps") = raw.rps.n
        BY <4>1 DEF IntOf
      <4>3. QED  BY <3>2, <3>5, <4>1, <4>2
    <3>7. CASE cfg.engine = "http"
      <4>1. t.headers = StringMap(raw, "headers")
        BY <3>1, <3>2, <3>7 DEF ParseTarget, ParseHTTPTarget
      <4>2. EntriesAsDeclared(raw, "headers", t.headers)
        BY <3>1, <4>1, EntriesKept
      <4>3. QED  BY <2>3, <3>6, <3>7, <4>2 DEF DoesAsDeclared, raw
    <3>8. CASE cfg.engine = "grpc"
      <4>1. t.headers = StringMap(raw, "metadata") /\ c.protoFiles = StringsOf(raw, "proto_files")
        BY <3>1, <3>2, <3>8 DEF ParseTarget, ParseGRPCTarget
      <4>2. EntriesAsDeclared(raw, "metadata", t.headers)
        BY <3>1, <4>1, EntriesKept
      <4>3. t.types = "proto" <=> StringsOf(raw, "proto_files") # <<>>
        BY <3>4, <3>8, <4>1 DEF Does
      <4>4. QED  BY <2>3, <3>6, <3>8, <4>2, <4>3 DEF DoesAsDeclared, raw
    <3>9. CASE cfg.engine = "kafka"
      <4>1. /\ t.headers = StringMap(raw, "headers")
            /\ c.brokers = StringsOf(raw, "brokers")
            /\ c.registry = ParseSchemaRegistryConfig(raw)
            /\ c.keySchema = ParseSchemaConfig(raw, "key_schema")
            /\ c.valueSchema = ParseSchemaConfig(raw, "value_schema")
        BY <3>1, <3>2, <3>9 DEF ParseTarget, ParseKafkaTarget
      <4>2. EntriesAsDeclared(raw, "headers", t.headers)
        BY <3>1, <4>1, EntriesKept
      <4>3. SchemaAsDeclared(raw, "key_schema", t.key)
            /\ SchemaAsDeclared(raw, "value_schema", t.value)
        <5>1. t.key \in Serializers(ParseSchemaRegistryConfig(raw),
                                    ParseSchemaConfig(raw, "key_schema"))
              /\ t.value \in Serializers(ParseSchemaRegistryConfig(raw),
                                         ParseSchemaConfig(raw, "value_schema"))
          BY <3>4, <3>9, <4>1 DEF Does
        <5>2. "key_schema" \in SchemaKeys /\ "value_schema" \in SchemaKeys
          BY DEF SchemaKeys
        <5>3. QED  BY <3>1, <5>1, <5>2, SchemaKept
      <4>4. {raw.brokers.items[j].text : j \in {k \in DOMAIN raw.brokers.items :
               raw.brokers.items[k].go = "string"}} \subseteq ToSet(eng.brokers)
        <5>1. ToSet(c.brokers) \subseteq ToSet(eng.brokers)
          BY <3>4, <3>9 DEF Does
        <5>2. c.brokers # <<>>
          BY <3>3, <3>9 DEF Valid, ValidKafka
        <5>3. Is(raw, "brokers", "slice")
          BY <4>1, <5>2 DEF StringsOf
        <5>4. ToSet(StringsOf(raw, "brokers")) =
                {raw["brokers"].items[j].text : j \in {k \in DOMAIN raw["brokers"].items :
                   raw["brokers"].items[k].go = "string"}}
          BY <3>1, <5>3, StringsKept
        <5>5. QED  BY <4>1, <5>1, <5>4
      <4>5. QED  BY <2>3, <3>6, <3>9, <4>2, <4>3, <4>4 DEF DoesAsDeclared, raw
    <3>10. QED  BY <2>1, <3>7, <3>8, <3>9 DEF Parsers
  <2>7. QED
    BY <2>3, <2>4, <2>5, <2>6 DEF RunsAsDeclared, File, Readable
<1>2. QED  BY <1>1, Invariant, PTL

\* Whatever proto files there are, and whatever they import: the method of a gRPC
\* target is found if and only if it is in them.
THEOREM FindsMethods == Spec => []MethodsFound
<1>1. Inv => MethodsFound
  <2> SUFFICES ASSUME Inv, main = "resolve", NextTarget.protoFiles # <<>>,
                      Compiles(NextTarget.protoFiles, world.protos)
               PROVE  FindsTheMethod(NextTarget.service, NextTarget.method,
                                     NextTarget.protoFiles, world.protos)
    BY DEF MethodsFound
  <2>1. Shape /\ Merged /\ cfg.engine = "grpc" /\ built < Len(cfg.targets)
    BY DEF Inv, Shape, Declared
  <2>2. IsSeq(NextTarget.protoFiles)
    <3>1. built \in Nat /\ Len(cfg.targets) \in Nat
      BY <2>1, Appends DEF Shape, built
    <3>2. built + 1 \in 1 .. Len(cfg.targets)
      BY <2>1, <3>1
    <3>3. QED  BY <2>1, <3>2, NamesAreSeqs DEF NextTarget
  <2> DEFINE s == NextTarget.protoFiles
  <2>3. s \in Seq(DOMAIN world.protos)
    <3>1. PICK S : s \in Seq(S)
      BY <2>2 DEF IsSeq
    <3>2. ToSet(s) \subseteq DOMAIN world.protos
      BY DEF Compiles
    <3>3. DOMAIN s = 1 .. Len(s) /\ Len(s) \in Nat /\ s = [i \in DOMAIN s |-> s[i]]
      BY <3>1
    <3>4. \A i \in 1 .. Len(s) : s[i] \in DOMAIN world.protos
      BY <3>2, <3>3 DEF ToSet
    <3> HIDE DEF s
    <3>5. QED  BY <3>3, <3>4
  <2>4. IsDisk(world.protos)
    BY <2>1, ProtosAssumption DEF IsDisk, Shape
  <2>5. QED  BY <2>3, <2>4, SearchFinds
<1>2. QED  BY <1>1, Invariant, PTL
=============================================================================
