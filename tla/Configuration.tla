---------------------------- MODULE Configuration ----------------------------
(***************************************************************************)
(* What a configuration file means: which file it is, what the parsers of  *)
(* internal/config/config.go make of its targets, which targets Validate   *)
(* refuses, and what the constructors of the engines find for a target     *)
(* (schemas in kafka/avro/registry.go, methods in grpc/engine.go).         *)
(*                                                                         *)
(* A raw value is what the YAML library puts into an `any`: a record whose *)
(* field go is its dynamic type.  A raw target has such values under the   *)
(* names of its fields.                                                    *)
(***************************************************************************)
EXTENDS Integers, SequencesExt

CONSTANTS
    Nil,           \* a nil pointer
    NotAString,    \* stands for the keys of a map that are no strings
    DefaultPath,   \* /etc/taiko/config.yaml
    Durations,     \* what time.ParseDuration makes of a text, in milliseconds,
                   \* where that is no error
    SchemaIDs      \* the IDs that a schema registry gives

Second == 1000

\* "" parses to no duration, and registries count from 1.
ASSUME ConfigurationAssumption ==
    /\ Durations \in [DOMAIN Durations -> Nat] /\ "" \notin DOMAIN Durations
    /\ SchemaIDs \subseteq Nat \ {0}
    /\ DefaultPath # ""
    /\ NotAString \notin {"subject", "version", "file"}

-----------------------------------------------------------------------------
(* Which file *)

\* An argument is the flag, the flag with a value, or anything else.  The flag
\* alone takes the next argument, if there is one; the first one counts.
ParseConfigFileFlag(args) ==
    LET says == {i \in DOMAIN args : \/ args[i].form = "flag" /\ i < Len(args)
                                    \/ args[i].form = "assignment"}
    IN  IF says = {} THEN ""
        ELSE LET i == CHOOSE i \in says : \A j \in says : i <= j
             IN  IF args[i].form = "flag" THEN args[i + 1].text ELSE args[i].value

\* `there` are the files that exist.
FindConfigFile(flagPath, envPath, there) ==
    CASE flagPath # "" -> flagPath
      [] flagPath = "" /\ envPath # "" -> envPath
      [] flagPath = "" /\ envPath = "" ->
           IF DefaultPath \in there THEN DefaultPath ELSE ""

-----------------------------------------------------------------------------
(* Parsing: a value of another type than expected is as good as none *)

Is(raw, field, type) == field \in DOMAIN raw /\ raw[field].go = type

StringOf(raw, field) == IF Is(raw, field, "string") THEN raw[field].text ELSE ""
IntOf(raw, field)    == IF Is(raw, field, "int") THEN raw[field].n ELSE 0

\* A loop that appends the items of s at the positions `kept`.
Selected(s, kept) ==
    LET UpTo[i \in 0 .. Len(s)] ==
          IF i = 0 THEN <<>>
          ELSE IF i \in kept THEN Append(UpTo[i - 1], s[i]) ELSE UpTo[i - 1]
    IN  UpTo[Len(s)]

StringsOf(raw, field) ==
    IF Is(raw, field, "slice")
      THEN LET items == raw[field].items
               texts == Selected(items, {i \in DOMAIN items : items[i].go = "string"})
           IN  [i \in DOMAIN texts |-> texts[i].text]
      ELSE <<>>

\* Mutant: the type that yaml gives to nested maps is forgotten.
ExtractMapStringKeys(raw, field) ==
    IF Is(raw, field, "map[string]") THEN raw[field].entries ELSE Nil

StringKeys(entries) == [k \in DOMAIN entries \ {NotAString} |-> entries[k]]

\* A map with keys of any type, as yaml makes it, or with strings only.
ExtractMap(raw, field) ==
    CASE Is(raw, field, "map[any]")    -> StringKeys(raw[field].entries)
      [] Is(raw, field, "map[string]") -> raw[field].entries
      [] OTHER -> Nil

\* Headers and metadata: the entries that are strings.
StringMap(raw, field) ==
    LET m == ExtractMap(raw, field)
        texts == IF m = Nil THEN {} ELSE {k \in DOMAIN m : m[k].go = "string"}
    IN  [k \in texts |-> m[k].text]

ParseHTTPTarget(raw) ==
    [url |-> StringOf(raw, "url"), method |-> StringOf(raw, "method"),
     timeout |-> StringOf(raw, "timeout"), body |-> StringOf(raw, "body"),
     rps |-> IntOf(raw, "rps"), headers |-> StringMap(raw, "headers")]

ParseGRPCTarget(raw) ==
    [endpoint |-> StringOf(raw, "endpoint"), service |-> StringOf(raw, "service"),
     method |-> StringOf(raw, "method"), timeout |-> StringOf(raw, "timeout"),
     payload |-> StringOf(raw, "payload"), rps |-> IntOf(raw, "rps"),
     headers |-> StringMap(raw, "metadata"),
     protoFiles |-> StringsOf(raw, "proto_files")]

ParseSchemaRegistryConfig(raw) ==
    LET sr == ExtractMap(raw, "schema_registry")
    IN  IF sr = Nil THEN Nil
        ELSE [url |-> StringOf(sr, "url"), username |-> StringOf(sr, "username"),
              password |-> StringOf(sr, "password")]

SchemaConfig(sc) ==
    [subject |-> StringOf(sc, "subject"), version |-> IntOf(sc, "version"),
     file |-> StringOf(sc, "file")]

ParseSchemaConfig(raw, key) ==
    LET sc == ExtractMap(raw, key)
    IN  IF sc = Nil THEN Nil ELSE SchemaConfig(sc)

ParseKafkaTarget(raw) ==
    [topic |-> StringOf(raw, "topic"), key |-> StringOf(raw, "key"),
     value |-> StringOf(raw, "value"), rps |-> IntOf(raw, "rps"),
     brokers |-> StringsOf(raw, "brokers"), headers |-> StringMap(raw, "headers"),
     registry |-> ParseSchemaRegistryConfig(raw),
     keySchema |-> ParseSchemaConfig(raw, "key_schema"),
     valueSchema |-> ParseSchemaConfig(raw, "value_schema")]

Parsers == {"http", "grpc", "kafka"}

ParseTarget(engine, raw) ==
    CASE engine = "http"  -> ParseHTTPTarget(raw)
      [] engine = "grpc"  -> ParseGRPCTarget(raw)
      [] engine = "kafka" -> ParseKafkaTarget(raw)

-----------------------------------------------------------------------------
(* Validate *)

\* A schema has one source, which can be asked.
ValidSchemaConfig(sc, sr, there) ==
    sc # Nil =>
      /\ (sc.subject # "") # (sc.file # "")
      /\ sc.subject # "" => sr # Nil /\ sr.url # ""
      /\ sc.file # "" => sc.file \in there

ValidHTTP(t) == t.url # "" /\ t.rps > 0

ValidGRPC(t, there) ==
    /\ t.endpoint # "" /\ t.service # "" /\ t.method # "" /\ t.rps > 0
    /\ ToSet(t.protoFiles) \subseteq there

ValidKafka(t, there) ==
    /\ t.brokers # <<>> /\ t.topic # "" /\ t.rps > 0
    /\ ValidSchemaConfig(t.keySchema, t.registry, there)
    /\ ValidSchemaConfig(t.valueSchema, t.registry, there)

Valid(engine, t, there) ==
    CASE engine = "http"  -> ValidHTTP(t)
      [] engine = "grpc"  -> ValidGRPC(t, there)
      [] engine = "kafka" -> ValidKafka(t, there)

\* Files of a target that Validate looks for and a constructor opens.
SchemaFiles(sc) == IF sc = Nil \/ sc.file = "" THEN {} ELSE {sc.file}
FilesOf(engine, t) ==
    CASE engine = "http"  -> {}
      [] engine = "grpc"  -> ToSet(t.protoFiles)
      [] engine = "kafka" -> SchemaFiles(t.keySchema) \cup SchemaFiles(t.valueSchema)

-----------------------------------------------------------------------------
(* What a constructor makes of a target *)

DefaultTimeout == 30 * Second

\* A timeout that does not parse is ignored.
Timeout(t) ==
    IF t.timeout \in DOMAIN Durations THEN Durations[t.timeout] ELSE DefaultTimeout

\* A serializer: where its schema is from and whether it writes the header.
NewSerializer(from, version, schemaID) ==
    [from |-> from, version |-> version, header |-> schemaID > 0]

\* Not positive means the latest version, -1.
VersionOf(source) == IF source.version <= 0 THEN -1 ELSE source.version

\* What ResolveSchema may return besides an error.
ResolveSchema(registry, source) ==
    CASE source.subject # "" ->
           IF registry = Nil \/ registry.url = "" THEN {}
           ELSE {NewSerializer(source.subject, VersionOf(source), id) : id \in SchemaIDs}
      [] source.subject = "" /\ source.file # "" ->
           {NewSerializer(source.file, 0, 0)}
      [] OTHER -> {}

Serializers(registry, schema) ==
    IF schema = Nil THEN {Nil} ELSE ResolveSchema(registry, schema)

\* What protocompile.Compile makes of the roots: the files that they import,
\* directly or not, those in every set that has the roots and the imports of
\* its members.
Reachable(roots, disk) ==
    {p \in DOMAIN disk : \A C \in SUBSET DOMAIN disk :
       (/\ ToSet(roots) \subseteq C
        /\ \A q \in C : ToSet(disk[q].imports) \subseteq C) => p \in C}

\* It gives no result if a file is missing or a service is declared twice.
Compiles(roots, disk) ==
    /\ ToSet(roots) \subseteq DOMAIN disk
    /\ \A p, q \in Reachable(roots, disk) :
         p # q => DOMAIN disk[p].services \cap DOMAIN disk[q].services = {}

\* The calls of search that are still to be made, and the files searched.
SearchStates(disk) == [todo : Seq(DOMAIN disk), visited : SUBSET DOMAIN disk]

Found(service, method, fd) ==
    IF method \in fd.services[service] THEN "found" ELSE "no method"

\* Mutant: a file that was searched before ends the search.
SearchFileOnce(search, service, method, disk, s) ==
    IF s.todo = <<>> \/ Head(s.todo) \in s.visited THEN "no service"
    ELSE LET p == Head(s.todo)
         IN  IF service \in DOMAIN disk[p].services
               THEN Found(service, method, disk[p])
               ELSE search[[todo    |-> disk[p].imports \o Tail(s.todo),
                            visited |-> s.visited \cup {p}]]

\* One call of search; what remains is up to `search`.
SearchFile(search, service, method, disk, s) ==
    IF s.todo = <<>> THEN "no service"
    ELSE LET p == Head(s.todo)
         IN  IF p \in s.visited THEN search[[todo |-> Tail(s.todo), visited |-> s.visited]]
             ELSE IF service \in DOMAIN disk[p].services
               THEN Found(service, method, disk[p])
               ELSE search[[todo    |-> disk[p].imports \o Tail(s.todo),
                            visited |-> s.visited \cup {p}]]

\* The search for a method through proto files and their imports, in depth
\* first order.
FindMethod(service, method, roots, disk) ==
    LET Search[s \in SearchStates(disk)] == SearchFile(Search, service, method, disk, s)
    IN  Search[[todo |-> roots, visited |-> {}]]

-----------------------------------------------------------------------------
(* Properties *)

IsMap(raw, field) == Is(raw, field, "map[any]") \/ Is(raw, field, "map[string]")

SchemaKeys == {"key_schema", "value_schema"}

\* What yaml makes of a target: the items of a slice are a sequence, an int is a
\* number, and no map, schema or serializer that comes of it is nil.
IsRaw(raw) ==
    /\ \A x \in DOMAIN raw :
         /\ raw[x].go = "slice" => raw[x].items \in Seq(ToSet(raw[x].items))
         /\ IsMap(raw, x) => Nil \notin {raw[x].entries, StringKeys(raw[x].entries)}
    /\ \A key \in SchemaKeys : IsMap(raw, key) =>
         LET says == raw[key].entries
             sc   == SchemaConfig(says)
         IN  /\ sc.version \in Int /\ sc # Nil
             /\ \A id \in SchemaIDs : Nil # NewSerializer(sc.subject, VersionOf(sc), id)
             /\ Nil # NewSerializer(sc.file, 0, 0)

\* The search finds what is reachable, and says what is missing.
FindsTheMethod(service, method, roots, disk) ==
    LET with == {p \in Reachable(roots, disk) : service \in DOMAIN disk[p].services}
    IN  FindMethod(service, method, roots, disk) =
          CASE with = {} -> "no service"
            [] \E p \in with : method \in disk[p].services[service] -> "found"
            [] OTHER -> "no method"

\* The serializer s is what a target says under `key`, if that is a map at all.
SchemaAsDeclared(raw, key, s) ==
    IF ~IsMap(raw, key) THEN s = Nil
    ELSE LET says == raw[key].entries
         IN  /\ s # Nil
             /\ IF Is(says, "subject", "string") /\ says.subject.text # ""
                  THEN /\ s.from = says.subject.text /\ s.header
                       /\ Is(says, "version", "int") /\ says.version.n > 0 =>
                            s.version = says.version.n
                  ELSE s.from = says.file.text /\ ~s.header

\* All string entries of a map under `key` are in f.
EntriesAsDeclared(raw, key, f) ==
    IsMap(raw, key) =>
      \A k \in DOMAIN raw[key].entries \ {NotAString} :
        raw[key].entries[k].go = "string" =>
          k \in DOMAIN f /\ f[k] = raw[key].entries[k].text
=============================================================================
