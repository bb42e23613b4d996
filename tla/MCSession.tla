------------------------------ MODULE MCSession ------------------------------
(* Session with up to three targets: one that is odd, alone and after others, *)
(* in the file of the flag; and every way to name a file, with an even one.   *)
EXTENDS Session

Text(s)  == [go |-> "string", text |-> s]
Num(k)   == [go |-> "int", n |-> k]
Many(s)  == [go |-> "slice", items |-> s]
Map(f)   == [go |-> "map[any]", entries |-> f]
Empty    == [x \in {} |-> {}]
With(f, x, v)  == [y \in DOMAIN f \cup {x} |-> IF y = x THEN v ELSE f[y]]
Without(f, x)  == [y \in DOMAIN f \ {x} |-> f[y]]

MCDurations == [x \in {"500ms", "5s", "60s"} |->
                  CASE x = "500ms" -> 500 [] x = "5s" -> 5000 [] x = "60s" -> 60000]

HTTP  == [url |-> Text("http://a.svc."), rps |-> Num(1)]
GRPC  == [endpoint |-> Text("a"), service |-> Text("s"), method |-> Text("m"),
          rps |-> Num(2)]
Kafka == [brokers |-> Many(<<Text("a"), Text("b")>>), topic |-> Text("t"), rps |-> Num(1)]

Extras == [http |-> [timeout |-> Text("60s"), headers |-> Map([a |-> Text("v"), b |-> Num(1)])],
           grpc |-> [timeout |-> Text("5s"), metadata |-> Map([a |-> Text("v")])],
           kafka |-> [headers |-> [go |-> "map[string]", entries |-> [a |-> Text("v")]]]]

Latest  == Map([subject |-> Text("users")])
Third   == Map(With([subject |-> Text("users"), version |-> Num(3)], NotAString, Num(1)))
InFile  == Map([file |-> Text("s.avsc")])
Lost    == Map([file |-> Text("lost.avsc")])
Both    == Map([subject |-> Text("users"), file |-> Text("s.avsc")])
Service == Map([url |-> Text("http://r"), username |-> Text("u")])
Keyed(t, r, k) == With(With(t, "schema_registry", r), "key_schema", k)

\* Targets that lack something or have too much, with a plain one.
Odd(engine, plain, required) ==
    {plain, plain @@ Extras[engine], With(plain, "rps", Num(0)), With(plain, "rps", Text("2"))}
    \cup {Without(plain, f) : f \in required} \cup {With(plain, f, Num(8)) : f \in required}

OddHTTP  == Odd("http", HTTP, {"url"})
            \cup {With(HTTP, "timeout", Text(s)) : s \in {"5s", "60s", "soon"}}
OddGRPC  == Odd("grpc", GRPC, {"endpoint", "service", "method"})
            \cup {With(GRPC, "proto_files", Many(<<Text(p)>>)) : p \in {"a", "s.avsc", "lost"}}
            \cup {With(GRPC, "proto_files", Text("a"))}
OddKafka == Odd("kafka", Kafka, {"brokers", "topic"})
            \cup {Keyed(Kafka, Service, k) : k \in {Latest, Third, InFile, Lost, Both, Map(Empty)}}
            \cup {Keyed(Kafka, Map(Empty), k) : k \in {Latest, InFile}}
            \cup {With(Kafka, "key_schema", k) : k \in {Latest, InFile, Text("s.avsc")}}
            \cup {With(With(Kafka, "key_schema", InFile), "value_schema", InFile),
                  With(Kafka, "brokers", Many(<<Text("b"), Num(1), Text("c"), Text("c")>>))}

Lists(plain, odd) == UNION {{<<o>>, <<plain, o>>, <<plain, plain, o>>, <<o, plain>>} : o \in odd}

File(e, t) == [engine |-> e, targets |-> t, duration |-> "5s", metrics |-> "console",
               settings |-> FALSE, variables |-> TRUE]
Even == {File("http", <<HTTP, HTTP>>), File("grpc", <<GRPC, GRPC, GRPC>>), File("kafka", <<Kafka>>)}

Files == {File("http", t) : t \in Lists(HTTP, OddHTTP)}
         \cup {File("grpc", t) : t \in Lists(GRPC, OddGRPC)}
         \cup {File("kafka", t) : t \in Lists(Kafka, OddKafka)}
         \cup {[f EXCEPT !.duration = d] : f \in Even, d \in {"", "500ms", "long"}}
         \cup {[f EXCEPT !.metrics = m] : f \in Even, m \in {"", "statsd"}}
         \cup {[f EXCEPT !.settings = TRUE] : f \in Even}
         \cup {[f EXCEPT !.variables = FALSE] : f \in Even}
         \cup {File("soap", <<HTTP>>), File("http", <<>>)}

Arg(s)    == [form |-> "other", text |-> s]
Flag      == [form |-> "flag", text |-> "-config-file"]
Assign(s) == [form |-> "assignment", text |-> "-config-file=", value |-> s]

NoProtos  == [p \in {"a"} |-> [imports |-> <<>>, services |-> [s |-> {"m"}]]]
World(args, env, files, protos) ==
    [args |-> args, env |-> env, files |-> files, protos |-> protos, schemas |-> {"s.avsc"}]

\* The file of the flag is any of the files.
Standard == {World(<<Flag, Arg("mine")>>, "", [p \in {"mine"} |-> f], NoProtos) : f \in Files}

\* Files of every source, that are there or not, and can be read or not.
Sources ==
    {World(args, env, files, NoProtos) :
       args  \in {<<>>, <<Arg("mine")>>, <<Flag>>, <<Flag, Arg("mine")>>, <<Assign("")>>,
                  <<Arg("x"), Assign("mine"), Flag, Arg("env")>>},
       env   \in {"", "env"},
       files \in UNION {[P -> {Nil, File("http", <<HTTP>>), File("kafka", <<Kafka>>)}] :
                          P \in SUBSET {"mine", "env", DefaultPath}}}

\* Proto files that import one another, with the service in some of them or none.
Orders(S) == {s \in UNION {[1 .. n -> S] : n \in 0 .. Cardinality(S)} :
                \A i, j \in DOMAIN s : s[i] = s[j] => i = j}
Protos ==
    {[p \in {"a", "b", "c"} |->
        [imports  |-> CASE p = "a" -> ia [] p = "b" -> ib [] p = "c" -> <<>>,
         services |-> IF p \in at THEN [s |-> methods] ELSE Empty]] :
       ia \in Orders({"b", "c"}), ib \in Orders({"c"}),
       at \in SUBSET {"a", "b", "c"}, methods \in {{}, {"m"}}}
Searches ==
    {World(<<Assign("mine")>>, "",
           [p \in {"mine"} |-> File("grpc", <<With(GRPC, "proto_files",
              Many([i \in DOMAIN roots |-> Text(roots[i])]))>>)], protos) :
       roots \in Orders({"a", "b", "c"}) \ {<<>>}, protos \in Protos}

MCWorlds == Standard \cup Sources \cup Searches
=============================================================================
