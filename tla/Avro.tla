-------------------------------- MODULE Avro --------------------------------
(***************************************************************************)
(* What the serializer of the Kafka engine does to a JSON text before the  *)
(* Avro library encodes it (internal/engine/kafka/avro/serializer.go): all *)
(* numbers come out of encoding/json as float64, and coerceTypes gives     *)
(* them the Go type that the schema calls for.                             *)
(*                                                                         *)
(* A value is what Unmarshal puts into an `any`: a record whose field go   *)
(* is its dynamic type.                                                    *)
(***************************************************************************)
EXTENDS FixedWidth, Sequences

CONSTANTS
    Numbers,    \* the integers that occur in the data
    Strings,    \* the strings that occur in the data
    FieldNames, \* field names of records and keys of maps
    Invalid     \* a text that is no JSON, and the error of an encoding

Number(n)  == [go |-> "float64", n |-> Float(n)]
Text(s)    == [go |-> "string", text |-> s]
Nothing    == [go |-> "nil"]
Slice(s)   == [go |-> "slice", items |-> s]
Object(f)  == [go |-> "map", fields |-> f]

Primitive(t) == [type |-> t]
ArrayOf(s)   == [type |-> "array", items |-> s]
MapOf(s)     == [type |-> "map", values |-> s]
RecordOf(f)  == [type |-> "record", fields |-> f]
Union(types) == [type |-> "union", types |-> types]

PrimitiveTypes == {"null", "int", "long", "float", "double", "string"}

\* Schemas and data are trees of any depth; these have containers of unions of
\* primitives, and arrays of containers.
Primitives == {Primitive(t) : t \in PrimitiveTypes}
Leaves     == Primitives \cup {Union(<<p, q>>) : p, q \in Primitives}
Containers == {ArrayOf(s) : s \in Leaves} \cup {MapOf(s) : s \in Leaves}
              \cup {RecordOf(r) : r \in UNION {[{f} -> Leaves] : f \in FieldNames}}
Schemas    == Leaves \cup Containers \cup {ArrayOf(s) : s \in Containers}

Scalars == {Number(n) : n \in Numbers} \cup {Text(s) : s \in Strings} \cup {Nothing}
Boxes   == {Slice(<<>>)} \cup {Slice(s) : s \in [1 .. 2 -> Scalars]}
           \cup {Object(f) : f \in UNION {[N -> Scalars] : N \in SUBSET FieldNames}}
Data    == Scalars \cup Boxes \cup {Slice(<<b>>) : b \in Boxes}

-----------------------------------------------------------------------------
\* Mutant: longs are left to the library.
CoerceNumberNoLong(t, d) ==
    CASE t = "int"   -> [go |-> "int", n |-> FromFloat(d.n)]
      [] t = "float" -> [go |-> "float32", n |-> Float32(d.n)]
      [] OTHER       -> d

\* A float64 against a primitive schema.
CoerceNumber(t, d) ==
    CASE t = "int"   -> [go |-> "int", n |-> FromFloat(d.n)]
      [] t = "long"  -> [go |-> "int64", n |-> FromFloat(d.n)]
      [] t = "float" -> [go |-> "float32", n |-> Float32(d.n)]
      [] OTHER       -> d

\* The member of a union that decides: the first that is not null, or 0.
Branch(types) ==
    LET candidates == {i \in DOMAIN types : types[i].type # "null"}
    IN  IF candidates = {} THEN 0
        ELSE CHOOSE i \in candidates : \A j \in candidates : i <= j

\* One call of coerceTypes, whose calls of itself are those of `coerce`: what
\* does not fit the schema stays as it is.
CoerceTypes(coerce, s, d) ==
    CASE s.type \in PrimitiveTypes /\ d.go = "float64" -> CoerceNumber(s.type, d)
      [] s.type = "record" /\ d.go = "map" ->
           Object([f \in DOMAIN d.fields |->
             IF f \in DOMAIN s.fields THEN coerce[s.fields[f]][d.fields[f]]
                                      ELSE d.fields[f]])
      [] s.type = "map" /\ d.go = "map" ->
           Object([f \in DOMAIN d.fields |-> coerce[s.values][d.fields[f]]])
      [] s.type = "array" /\ d.go = "slice" ->
           Slice([i \in DOMAIN d.items |-> coerce[s.items][d.items[i]]])
      [] s.type = "union" /\ Branch(s.types) # 0 ->
           coerce[s.types[Branch(s.types)]][d]
      [] OTHER -> d

Coerce[s \in Schemas] == [d \in Data |-> CoerceTypes(Coerce, s, d)]

\* What avro.Marshal accepts of the Go types that get there: "exact Go types",
\* says the comment at the call of coerceTypes, and coerceTypes produces these.
\* A union takes what one of its members takes.
GoTypes == [null |-> "nil", int |-> "int", long |-> "int64",
            float |-> "float32", double |-> "float64", string |-> "string"]

AcceptsLeaf(s, v) ==
    IF s.type = "union"
      THEN \E i \in DOMAIN s.types : v.go = GoTypes[s.types[i].type]
      ELSE v.go = GoTypes[s.type]

\* One level of a container: what it holds, and whether that is there.
Inside(s, v) ==
    CASE s.type = "array" /\ v.go = "slice" ->
           {<<s.items, v.items[i]>> : i \in DOMAIN v.items}
      [] s.type = "map" /\ v.go = "map" ->
           {<<s.values, v.fields[f]>> : f \in DOMAIN v.fields}
      [] s.type = "record" /\ v.go = "map" ->
           {<<s.fields[f], v.fields[f]>> : f \in DOMAIN s.fields}

IsContainer(s) == s.type \in {"array", "map", "record"}

Fits(s, v) ==
    /\ v.go = (IF s.type = "array" THEN "slice" ELSE "map")
    /\ s.type = "record" => DOMAIN s.fields \subseteq DOMAIN v.fields

\* A predicate on leaves, at every leaf of a value: schemas are three deep.
Everywhere(Leaf(_, _), s, v) ==
    LET shallow(x, y) ==
          IF IsContainer(x) THEN Fits(x, y) /\ \A z \in Inside(x, y) : Leaf(z[1], z[2])
                            ELSE Leaf(x, y)
    IN  IF IsContainer(s) THEN Fits(s, v) /\ \A z \in Inside(s, v) : shallow(z[1], z[2])
                          ELSE Leaf(s, v)

Marshals(s, v) == Everywhere(AcceptsLeaf, s, v)

\* An error is no encoded value.
ASSUME InvalidAssumption ==
    \A d \in Data : \A s \in Schemas : \A h \in BOOLEAN :
      Invalid \notin {d, [header |-> h, value |-> Coerce[s][d]]}

\* Encode: the error, or the encoded value with the wire header's presence,
\* which is due to a schema ID from the registry.  `d` is the unmarshalled
\* text, or Invalid.
Encode(d, s, schemaID) ==
    LET coerced == CoerceTypes(Coerce, s, d)
    IN  IF d = Invalid THEN Invalid
        ELSE IF ~Marshals(s, coerced) THEN Invalid
        ELSE [header |-> schemaID > 0, value |-> coerced]

-----------------------------------------------------------------------------
(* Properties *)

\* What JSON text may stand for a leaf of a schema.
JSONTypes == [null |-> "nil", int |-> "float64", long |-> "float64",
              float |-> "float64", double |-> "float64", string |-> "string"]

ConformsLeaf(s, d) ==
    IF s.type = "union"
      THEN \E i \in DOMAIN s.types : d.go = JSONTypes[s.types[i].type]
      ELSE d.go = JSONTypes[s.type]

Conforms(s, d) == Everywhere(ConformsLeaf, s, d)

\* At each leaf there is one member, besides null, to choose from.
DecidedLeaf(s, d) ==
    s.type = "union" =>
      \A i, j \in DOMAIN s.types :
        "null" \in {s.types[i].type, s.types[j].type} \/ i = j
        \/ s.types[i] = s.types[j]

\* JSON that conforms to its schema is encoded, wherever its numbers are, if
\* no union leaves a choice; what does not conform is an error.
EncodesIfConforming(s, d) ==
    IF Conforms(s, d)
      THEN Everywhere(DecidedLeaf, s, d) => Encode(d, s, 0) # Invalid
      ELSE Encode(d, s, 0) = Invalid
=============================================================================
