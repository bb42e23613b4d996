----------------------------- MODULE MCRequests -----------------------------
(* Requests with few workers, and configurations that reach every generator, *)
(* engine, encoding and way to fail.                                         *)
EXTENDS Requests, TLC

CONSTANTS ann, bob

Range(n, m, a, b) == [name |-> n, type |-> "int_range", mode |-> m, min |-> a, max |-> b]
Set(n, t, m, s)   == [name |-> n, type |-> t, mode |-> m, values |-> s]

Id       == Range("id", "seq", 1, 3)
Beyond   == Range("id", "seq", MaxExact - 1, MaxExact + 1)
All(m)   == Range("id", m, MinInt, MaxInt)
User     == Set("user", "string_set", "seq", <<ann, bob>>)
Dice     == Set("user", "int_set", "rnd", <<1, 2>>)
Falling  == Set("user", "int_set", "seq", <<3, 2, 1>>)
Powers   == Set("id", "int_set", "seq", <<1, 2, 4>>)
NoValues == Set("user", "int_set", "rnd", <<>>)
NoMode   == Range("id", Unusable, 1, 3)
Dashed   == Set("user-id", "int_set", "seq", <<1, 1>>)
Trace    == [name |-> "trace", type |-> "uuid"]
Stamp(f) == [name |-> "at", type |-> "timestamp", format |-> f]
Typo     == [name |-> "id", type |-> "guid"]

\* A spelling with the digits of base two, so that small numbers have several.
Digits[n \in 0 .. MaxInt + 1] ==
    (IF n < 2 THEN <<>> ELSE Digits[n \div 2]) \o <<IF n % 2 = 0 THEN "0" ELSE "1">>
MCSpelling ==
    [v \in Ints \cup {ann, bob, UUID, RFC3339} |->
       IF v \in {ann, bob, UUID, RFC3339} THEN <<v>>
       ELSE IF v < 0 THEN <<"-">> \o Digits[-v] ELSE Digits[v]]
MCSymbols == {"0", "1", "-", "/", ann, bob, UUID, RFC3339, Quote, Unfilled}

Slash == Literal(<<"/">>)
Mark  == Literal(<<Quote>>)

HTTP(v) ==
    [engine |-> "http", variables |-> v, schemas |-> Empty,
     templates |-> [url |-> <<Slash, Slot("id"), Slash, Slot("user")>>,
                    body |-> <<Slot("id"), Slot("user")>>]]
GRPC(v) ==
    [engine |-> "grpc", variables |-> v, schemas |-> Empty,
     templates |-> [payload |-> <<Mark, Slot("id"), Mark, Slot("user-id")>>,
                    metadata |-> <<Slot("id"), Slot("trace"), Slot("at")>>]]
Kafka(v, key, value, s) ==
    [engine |-> "kafka", variables |-> v, schemas |-> s,
     templates |-> [key |-> key, value |-> value, headers |-> <<Slot("id")>>]]

Only(x)     == <<Slot(x)>>
InQuotes(x) == <<Mark, Slot(x), Mark>>
Adjacent    == <<Slot("id"), Slot("user")>>

MCConfigurations ==
    {HTTP(<<Id>>), HTTP(<<All("seq")>>), HTTP(<<All("seq"), All("rnd")>>),
     HTTP(<<Id, NoValues>>), HTTP(<<Typo>>), HTTP(<<Stamp("ansi")>>),
     GRPC(<<NoMode>>), GRPC(<<Id, Dashed>>), GRPC(<<Dice, Stamp("unix")>>),
     GRPC(<<All("seq"), Stamp("rfc3339")>>),
     Kafka(<<Id, User>>, Only("id"), Only("user"), [key |-> "long"]),
     Kafka(<<Beyond, Dice>>, Only("id"), Only("user"), [key |-> "long", value |-> "int"]),
     Kafka(<<Beyond>>, Only("id"), <<>>, [key |-> "float"]),
     Kafka(<<Powers>>, Only("id"), <<>>, [key |-> "float"]),
     Kafka(<<Id, Falling>>, Adjacent, Only("user"), Empty),
     Kafka(<<Dashed, User>>, <<>>, InQuotes("user"), [key |-> "long", value |-> "string"]),
     Kafka(<<User>>, InQuotes("user"), <<>>, [key |-> "string"]),
     Kafka(<<Trace>>, Only("trace"), <<>>, [key |-> "long"])}

MCRPS      == <<2, 1>>
MCOverflow == MinInt
MCNumbers  == 1 .. MaxInt
MCStrings  == {ann, bob}
Symmetry   == Permutations(Workers)
=============================================================================
