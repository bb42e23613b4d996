------------------------------ MODULE AvroProofs ------------------------------
(***************************************************************************)
(* Proofs about Avro: for any numbers, strings and field names, and any    *)
(* width of integers and floats, coerceTypes is defined on every schema    *)
(* and value, and makes the encoder accept exactly what conforms.          *)
(***************************************************************************)
EXTENDS Avro, TLAPS

-----------------------------------------------------------------------------
(* The shapes of schemas and data *)

\* The schemas that a schema is made of.
Parts(s) ==
    CASE s.type = "array"  -> {s.items}
      [] s.type = "map"    -> {s.values}
      [] s.type = "record" -> {s.fields[f] : f \in DOMAIN s.fields}
      [] s.type = "union"  -> {s.types[i] : i \in DOMAIN s.types}
      [] OTHER             -> {}

\* Primitive schemas, and the unions of two of them.
LEMMA PrimitiveShape ==
    ASSUME NEW s \in Primitives
    PROVE  s.type \in PrimitiveTypes /\ Parts(s) = {}
BY DEF Primitives, Primitive, PrimitiveTypes, Parts

LEMMA LeafShape ==
    ASSUME NEW s \in Leaves, s \notin Primitives
    PROVE  /\ s.type = "union" /\ DOMAIN s.types = {1, 2}
           /\ s.types[1] \in Primitives /\ s.types[2] \in Primitives
<1>1. PICK p \in Primitives, q \in Primitives : s = Union(<<p, q>>)
  BY DEF Leaves
<1>2. DOMAIN <<p, q>> = {1, 2}
  OBVIOUS
<1>3. QED  BY <1>1, <1>2 DEF Union

\* Containers of leaves, and arrays of containers.
LEMMA ContainerShape ==
    ASSUME NEW s \in Containers
    PROVE  /\ s.type \in {"array", "map", "record"} /\ Parts(s) \subseteq Leaves
<1>1. CASE s \in {ArrayOf(t) : t \in Leaves}
  BY <1>1 DEF ArrayOf, Parts
<1>2. CASE s \in {MapOf(t) : t \in Leaves}
  BY <1>2 DEF MapOf, Parts
<1>3. CASE s \in {RecordOf(r) : r \in UNION {[{f} -> Leaves] : f \in FieldNames}}
  <2>1. PICK r \in UNION {[{f} -> Leaves] : f \in FieldNames} : s = RecordOf(r)
    BY <1>3
  <2>2. \A f \in DOMAIN r : r[f] \in Leaves
    <3>1. PICK f \in FieldNames : r \in [{f} -> Leaves]
      OBVIOUS
    <3>2. QED  BY <3>1
  <2>3. QED  BY <2>1, <2>2 DEF RecordOf, Parts
<1>4. QED  BY <1>1, <1>2, <1>3 DEF Containers

LEMMA SchemaShape ==
    ASSUME NEW s \in Schemas, s \notin Leaves, s \notin Containers
    PROVE  s.type = "array" /\ s.items \in Containers /\ Parts(s) \subseteq Containers
BY DEF Schemas, ArrayOf, Parts

\* No two kinds of schemas are alike.
LEMMA LeavesAreNone ==
    /\ \A s \in Leaves : ~IsContainer(s)
    /\ \A s \in Schemas : s \notin Leaves => IsContainer(s)
<1>1. ASSUME NEW s \in Leaves PROVE ~IsContainer(s)
  <2>1. CASE s \in Primitives
    BY <2>1, PrimitiveShape DEF IsContainer, PrimitiveTypes
  <2>2. CASE s \notin Primitives
    BY <2>2, LeafShape DEF IsContainer
  <2>3. QED  BY <2>1, <2>2
<1>2. QED  BY <1>1, ContainerShape, SchemaShape DEF IsContainer

\* Data have data in them.
LEMMA DataShape ==
    ASSUME NEW d \in Data
    PROVE  /\ d.go \in {"float64", "string", "nil", "slice", "map"}
           /\ d.go = "slice" => \A i \in DOMAIN d.items : d.items[i] \in Data
           /\ d.go = "map" => \A f \in DOMAIN d.fields : d.fields[f] \in Data
<1>1. Scalars \subseteq Data /\ Boxes \subseteq Data
  BY DEF Data
<1>2. CASE d \in Scalars
  BY <1>2 DEF Scalars, Number, Text, Nothing
<1>3. CASE d = Slice(<<>>)
  BY <1>3 DEF Slice
<1>4. CASE d \in {Slice(s) : s \in [1 .. 2 -> Scalars]}
  BY <1>1, <1>4 DEF Slice
<1>5. CASE d \in {Object(f) : f \in UNION {[N -> Scalars] : N \in SUBSET FieldNames}}
  <2>1. PICK f \in UNION {[N -> Scalars] : N \in SUBSET FieldNames} : d = Object(f)
    BY <1>5
  <2>2. \A x \in DOMAIN f : f[x] \in Scalars
    BY <2>1
  <2>3. d.go = "map" /\ d.fields = f
    BY <2>1 DEF Object
  <2>4. QED  BY <1>1, <2>2, <2>3
<1>6. CASE d \in {Slice(<<b>>) : b \in Boxes}
  <2>1. PICK b \in Boxes : d = Slice(<<b>>)
    BY <1>6
  <2>2. d.go = "slice" /\ d.items = <<b>>
    BY <2>1 DEF Slice
  <2>3. \A i \in DOMAIN <<b>> : <<b>>[i] = b
    OBVIOUS
  <2>4. QED  BY <1>1, <2>2, <2>3
<1>7. QED  BY <1>2, <1>3, <1>4, <1>5, <1>6, Zenon DEF Data, Boxes

-----------------------------------------------------------------------------
(* coerceTypes is defined *)

IsCoerce(c) == c = [s \in Schemas |-> [d \in Data |-> CoerceTypes(c, s, d)]]

\* What it makes of a value depends on the parts of the schema only.
LEMMA CoerceLocal ==
    ASSUME NEW s \in Schemas, NEW d \in Data, NEW c, NEW e,
           \A t \in Parts(s) : \A x \in Data : c[t][x] = e[t][x]
    PROVE  CoerceTypes(c, s, d) = CoerceTypes(e, s, d)
<1>1. CASE s \in Primitives
  BY <1>1, PrimitiveShape DEF CoerceTypes, PrimitiveTypes
<1>2. CASE s \in Leaves /\ s \notin Primitives
  <2>1. /\ s.type = "union" /\ DOMAIN s.types = {1, 2}
    BY <1>2, LeafShape
  <2>2. \A i \in DOMAIN s.types : c[s.types[i]][d] = e[s.types[i]][d]
    BY <2>1 DEF Parts
  <2>3. Branch(s.types) # 0 => Branch(s.types) \in DOMAIN s.types
    <3> DEFINE candidates == {i \in DOMAIN s.types : s.types[i].type # "null"}
    <3>1. ASSUME candidates # {} PROVE \E i \in candidates : \A j \in candidates : i <= j
      BY <2>1, <3>1
    <3>2. QED  BY <3>1 DEF Branch
  <2>4. QED  BY <2>1, <2>2, <2>3 DEF CoerceTypes, PrimitiveTypes
<1>3. CASE s.type = "record"
  <2>1. CASE d.go = "map"
    <3>1. \A f \in DOMAIN d.fields : f \in DOMAIN s.fields =>
            c[s.fields[f]][d.fields[f]] = e[s.fields[f]][d.fields[f]]
      BY <1>3, <2>1, DataShape DEF Parts
    <3>2. [f \in DOMAIN d.fields |-> IF f \in DOMAIN s.fields
                                       THEN c[s.fields[f]][d.fields[f]] ELSE d.fields[f]]
          = [f \in DOMAIN d.fields |-> IF f \in DOMAIN s.fields
                                       THEN e[s.fields[f]][d.fields[f]] ELSE d.fields[f]]
      BY <3>1
    <3>3. QED  BY <1>3, <2>1, <3>2 DEF CoerceTypes, PrimitiveTypes
  <2>2. CASE d.go # "map"
    BY <1>3, <2>2 DEF CoerceTypes, PrimitiveTypes
  <2>3. QED  BY <2>1, <2>2
<1>4. CASE s.type = "map"
  <2>1. CASE d.go = "map"
    <3>1. \A f \in DOMAIN d.fields : c[s.values][d.fields[f]] = e[s.values][d.fields[f]]
      BY <1>4, <2>1, DataShape DEF Parts
    <3>2. [f \in DOMAIN d.fields |-> c[s.values][d.fields[f]]]
          = [f \in DOMAIN d.fields |-> e[s.values][d.fields[f]]]
      BY <3>1
    <3>3. QED  BY <1>4, <2>1, <3>2 DEF CoerceTypes, PrimitiveTypes
  <2>2. CASE d.go # "map"
    BY <1>4, <2>2 DEF CoerceTypes, PrimitiveTypes
  <2>3. QED  BY <2>1, <2>2
<1>5. CASE s.type = "array"
  <2>1. CASE d.go = "slice"
    <3>1. \A i \in DOMAIN d.items : c[s.items][d.items[i]] = e[s.items][d.items[i]]
      BY <1>5, <2>1, DataShape DEF Parts
    <3>2. [i \in DOMAIN d.items |-> c[s.items][d.items[i]]]
          = [i \in DOMAIN d.items |-> e[s.items][d.items[i]]]
      BY <3>1
    <3>3. QED  BY <1>5, <2>1, <3>2 DEF CoerceTypes, PrimitiveTypes
  <2>2. CASE d.go # "slice"
    BY <1>5, <2>2 DEF CoerceTypes, PrimitiveTypes
  <2>3. QED  BY <2>1, <2>2
<1>6. QED
  BY <1>1, <1>2, <1>3, <1>4, <1>5, LeavesAreNone DEF IsContainer

\* Every schema and value has its result: what is coerced of a schema no longer
\* changes once it does not change for its parts, and schemas are finite.
LEMMA CoerceExists == \E c : IsCoerce(c)
<1> DEFINE Step(c) == [s \in Schemas |-> [d \in Data |-> CoerceTypes(c, s, d)]]
           c0 == [s \in Schemas |-> [d \in Data |-> d]]
           c1 == Step(c0)
           c2 == Step(c1)
           c3 == Step(c2)
           c4 == Step(c3)
           c5 == Step(c4)
<1>1. ASSUME NEW c, NEW e, NEW s \in Schemas,
             \A t \in Parts(s) : \A x \in Data : c[t][x] = e[t][x]
      PROVE  \A d \in Data : Step(c)[s][d] = Step(e)[s][d]
  BY <1>1, CoerceLocal
<1> HIDE DEF Step
<1>2. Primitives \subseteq Schemas /\ Leaves \subseteq Schemas /\ Containers \subseteq Schemas
      /\ Primitives \subseteq Leaves
  BY SMTT(30) DEF Schemas, Leaves
<1> HIDE DEF c0
<1>3. \A s \in Primitives : \A d \in Data :
        c1[s][d] = c2[s][d] /\ c2[s][d] = c3[s][d] /\ c3[s][d] = c4[s][d]
        /\ c4[s][d] = c5[s][d]
  <2> SUFFICES ASSUME NEW s \in Primitives, NEW c, NEW e
               PROVE  \A d \in Data : Step(c)[s][d] = Step(e)[s][d]
    OBVIOUS
  <2>1. QED  BY <1>1, <1>2, PrimitiveShape
<1> HIDE DEF c1
<1>4. \A s \in Leaves : \A d \in Data :
        c2[s][d] = c3[s][d] /\ c3[s][d] = c4[s][d] /\ c4[s][d] = c5[s][d]
  <2> SUFFICES ASSUME NEW s \in Leaves
               PROVE  \A d \in Data : /\ c2[s][d] = c3[s][d] /\ c3[s][d] = c4[s][d]
                                      /\ c4[s][d] = c5[s][d]
    OBVIOUS
  <2>1. Parts(s) \subseteq Primitives
    BY LeafShape, PrimitiveShape DEF Parts
  <2> HIDE DEF c5, c4, c3, c2
  <2>2. QED  BY <1>1, <1>2, <1>3, <2>1 DEF c5, c4, c3, c2
<1> HIDE DEF c2
<1>5. \A s \in Containers : \A d \in Data : c3[s][d] = c4[s][d] /\ c4[s][d] = c5[s][d]
  <2> HIDE DEF c5, c4, c3
  <2> QED  BY <1>1, <1>2, <1>4, ContainerShape DEF c5, c4, c3
<1> HIDE DEF c3
<1>6. \A s \in Schemas : \A d \in Data : c4[s][d] = c5[s][d]
  <2> SUFFICES ASSUME NEW s \in Schemas, s \notin Leaves, s \notin Containers
               PROVE  \A d \in Data : c4[s][d] = c5[s][d]
    BY <1>4, <1>5
  <2>1. \A t \in Parts(s) : \A x \in Data : c3[t][x] = c4[t][x]
    BY <1>5, SchemaShape
  <2> HIDE DEF c5, c4
  <2>2. \A d \in Data : Step(c3)[s][d] = Step(c4)[s][d]
    BY <1>1, <2>1
  <2>3. c4 = Step(c3) /\ c5 = Step(c4)
    BY DEF c4, c5
  <2>4. QED  BY <2>2, <2>3
<1>7. c4 = c5
  <2>1. \A s \in Schemas : c4[s] = [d \in Data |-> c4[s][d]]
    BY DEF Step
  <2>2. \A s \in Schemas : c5[s] = [d \in Data |-> c5[s][d]]
    BY DEF Step
  <2>3. c4 = [s \in Schemas |-> c4[s]] /\ c5 = [s \in Schemas |-> c5[s]]
    BY DEF Step
  <2> HIDE DEF c4, c5
  <2>4. \A s \in Schemas : c4[s] = c5[s]
    BY <1>6, <2>1, <2>2
  <2>5. QED  BY <2>3, <2>4
<1> HIDE DEF c4
<1>8. QED  BY <1>7 DEF IsCoerce, Step

\* So coerceTypes is what its recursion says.
LEMMA CoerceDefined ==
    \A s \in Schemas : \A d \in Data : Coerce[s][d] = CoerceTypes(Coerce, s, d)
<1>1. Coerce = CHOOSE c : IsCoerce(c)
  BY DEF Coerce, IsCoerce
<1>2. IsCoerce(Coerce)
  BY <1>1, CoerceExists
<1>3. QED  BY <1>2 DEF IsCoerce

-----------------------------------------------------------------------------
(* Leaves *)

\* The member of a union that decides is one that is not null, if there is any.
LEMMA BranchDecides ==
    ASSUME NEW s \in Leaves, s \notin Primitives
    PROVE  LET b == Branch(s.types)
           IN  IF b = 0 THEN \A i \in DOMAIN s.types : s.types[i].type = "null"
                        ELSE b \in DOMAIN s.types /\ s.types[b].type # "null"
<1> DEFINE candidates == {i \in DOMAIN s.types : s.types[i].type # "null"}
<1>1. DOMAIN s.types = {1, 2}
  BY LeafShape
<1>2. ASSUME candidates # {} PROVE \E i \in candidates : \A j \in candidates : i <= j
  BY <1>1, <1>2
<1>3. QED  BY <1>1, <1>2 DEF Branch

\* A value against a primitive schema: a number gets the type of the schema.
LEMMA PrimitiveCoerced ==
    ASSUME NEW s \in Primitives, NEW d \in Data
    PROVE  /\ d.go # "float64" => Coerce[s][d] = d
           /\ d.go = "float64" =>
                Coerce[s][d].go = IF s.type \in {"int", "long", "float"}
                                    THEN GoTypes[s.type] ELSE "float64"
<1>1. s \in Schemas /\ s.type \in PrimitiveTypes
  BY PrimitiveShape DEF Schemas, Leaves
<1>2. Coerce[s][d] = CoerceTypes(Coerce, s, d)
  BY <1>1, CoerceDefined, SMTT(30)
<1>3. CASE d.go # "float64"
  BY <1>1, <1>2, <1>3 DEF CoerceTypes, PrimitiveTypes
<1>4. CASE d.go = "float64"
  <2>1. Coerce[s][d] = CoerceNumber(s.type, d)
    BY <1>1, <1>2, <1>4 DEF CoerceTypes, PrimitiveTypes
  <2>2. QED  BY <1>1, <1>4, <2>1 DEF CoerceNumber, PrimitiveTypes, GoTypes
<1>5. QED  BY <1>1, <1>3, <1>4

\* The types of the data are among those of the schemas.
LEMMA PrimitiveAccepts ==
    ASSUME NEW s \in Primitives, NEW d \in Data
    PROVE  Coerce[s][d].go = GoTypes[s.type] <=> d.go = JSONTypes[s.type]
<1>1. s.type \in PrimitiveTypes
  BY PrimitiveShape
<1>2. CASE d.go # "float64"
  <2>1. Coerce[s][d] = d /\ d.go \in {"string", "nil", "slice", "map"}
    BY <1>1, <1>2, PrimitiveCoerced, DataShape
  <2>2. QED  BY <1>1, <2>1 DEF GoTypes, JSONTypes, PrimitiveTypes
<1>3. CASE d.go = "float64"
  <2>1. Coerce[s][d].go = IF s.type \in {"int", "long", "float"}
                            THEN GoTypes[s.type] ELSE "float64"
    BY <1>3, PrimitiveCoerced
  <2>2. QED  BY <1>1, <1>3, <2>1 DEF GoTypes, JSONTypes, PrimitiveTypes
<1>4. QED  BY <1>2, <1>3

\* At a leaf the library accepts what conforms, and nothing else.
LEMMA LeafCoerced ==
    ASSUME NEW s \in Leaves, NEW d \in Data
    PROVE  /\ AcceptsLeaf(s, Coerce[s][d]) => ConformsLeaf(s, d)
           /\ ConformsLeaf(s, d) /\ DecidedLeaf(s, d) => AcceptsLeaf(s, Coerce[s][d])
<1>1. CASE s \in Primitives
  <2>1. s.type # "union"
    BY <1>1, PrimitiveShape DEF PrimitiveTypes
  <2>2. QED  BY <1>1, <2>1, PrimitiveAccepts DEF AcceptsLeaf, ConformsLeaf
<1>2. CASE s \notin Primitives
  <2> DEFINE b == Branch(s.types)
             t == s.types
  <2>1. s.type = "union" /\ \A i \in DOMAIN t : t[i] \in Primitives
    BY <1>2, LeafShape
  <2>2. /\ AcceptsLeaf(s, Coerce[s][d]) <=>
             \E i \in DOMAIN t : Coerce[s][d].go = GoTypes[t[i].type]
        /\ ConformsLeaf(s, d) <=> \E i \in DOMAIN t : d.go = JSONTypes[t[i].type]
    BY <2>1 DEF AcceptsLeaf, ConformsLeaf
  <2>3. \A i \in DOMAIN t : t[i].type \in PrimitiveTypes
    BY <2>1, PrimitiveShape
  <2>4. Coerce[s][d] = IF b # 0 THEN Coerce[t[b]][d] ELSE d
    <3>1. s \in Schemas
      BY DEF Schemas
    <3>2. QED  BY <2>1, <3>1, CoerceDefined DEF CoerceTypes, PrimitiveTypes
  <2>5. IF b = 0 THEN \A i \in DOMAIN t : t[i].type = "null"
                 ELSE b \in DOMAIN t /\ t[b].type # "null"
    BY <1>2, BranchDecides
  <2>6. d.go \in {"float64", "string", "nil", "slice", "map"}
    BY DataShape
  <2>7. CASE b = 0
    <3>1. Coerce[s][d] = d
      BY <2>4, <2>7
    <3>2. \A i \in DOMAIN t : t[i].type = "null"
      BY <2>5, <2>7
    <3>3. GoTypes["null"] = "nil" /\ JSONTypes["null"] = "nil"
      BY DEF GoTypes, JSONTypes
    <3>4. QED  BY <2>2, <3>1, <3>2, <3>3
  <2>8. CASE b # 0 /\ d.go # "float64"
    <3>1. Coerce[s][d] = d
      <4>1. t[b] \in Primitives /\ Coerce[s][d] = Coerce[t[b]][d]
        BY <2>1, <2>4, <2>5, <2>8
      <4>2. QED  BY <2>8, <4>1, PrimitiveCoerced
    <3>2. ASSUME NEW i \in DOMAIN t
          PROVE  d.go = GoTypes[t[i].type] <=> d.go = JSONTypes[t[i].type]
      BY <2>3, <2>6, <2>8 DEF GoTypes, JSONTypes, PrimitiveTypes
    <3>3. QED  BY <2>2, <3>1, <3>2
  <2>9. CASE b # 0 /\ d.go = "float64"
    <3>1. /\ b \in DOMAIN t /\ t[b] \in Primitives /\ t[b].type \in PrimitiveTypes
          /\ t[b].type # "null" /\ Coerce[s][d] = Coerce[t[b]][d]
      BY <2>1, <2>3, <2>4, <2>5, <2>9
    <3>2. Coerce[s][d].go = IF t[b].type \in {"int", "long", "float"}
                              THEN GoTypes[t[b].type] ELSE "float64"
      BY <2>9, <3>1, PrimitiveCoerced
    <3>3. \A i \in DOMAIN t : JSONTypes[t[i].type] = "float64" <=>
            t[i].type \in {"int", "long", "float", "double"}
      BY <2>3 DEF JSONTypes, PrimitiveTypes
    <3>4. ASSUME NEW i \in DOMAIN t, Coerce[s][d].go = GoTypes[t[i].type]
          PROVE  ConformsLeaf(s, d)
      <4>1. CASE t[b].type \in {"int", "long", "float"}
        BY <2>2, <2>9, <3>1, <3>3, <4>1
      <4>2. CASE t[b].type \notin {"int", "long", "float"}
        <5>1. GoTypes[t[i].type] = "float64"
          BY <3>2, <3>4, <4>2
        <5>2. t[i].type = "double"
          BY <2>3, <5>1 DEF GoTypes, PrimitiveTypes
        <5>3. QED  BY <2>2, <2>9, <3>3, <5>2
      <4>3. QED  BY <4>1, <4>2
    <3>5. ASSUME NEW i \in DOMAIN t, d.go = JSONTypes[t[i].type], DecidedLeaf(s, d)
          PROVE  AcceptsLeaf(s, Coerce[s][d])
      <4>1. t[i].type \in {"int", "long", "float", "double"}
        BY <2>9, <3>3, <3>5
      <4>2. t[i] = t[b]
        BY <2>1, <3>1, <3>5, <4>1 DEF DecidedLeaf
      <4>3. GoTypes["double"] = "float64"
        BY DEF GoTypes
      <4>4. Coerce[s][d].go = GoTypes[t[b].type]
        BY <3>2, <4>1, <4>2, <4>3
      <4>5. QED  BY <2>2, <3>1, <4>4
    <3>6. QED  BY <2>2, <3>4, <3>5
  <2>10. QED  BY <2>7, <2>8, <2>9
<1>3. QED  BY <1>1, <1>2

-----------------------------------------------------------------------------
(* Containers *)

Pairs(I, a, b) == {<<a[i], b[i]>> : i \in I}

\* Two sets of pairs, of which the second has what the first has, coerced.
LEMMA Paired ==
    ASSUME NEW I, NEW a, NEW b, NEW c, NEW P,
           \A i \in I : a[i] \in P /\ b[i] \in Data /\ c[i] = Coerce[a[i]][b[i]]
    PROVE  /\ \A z \in Pairs(I, a, b) :
                /\ z[1] \in P /\ z[2] \in Data
                /\ <<z[1], Coerce[z[1]][z[2]]>> \in Pairs(I, a, c)
           /\ \A y \in Pairs(I, a, c) : \E z \in Pairs(I, a, b) :
                y[1] = z[1] /\ y[2] = Coerce[z[1]][z[2]]
<1> DEFINE X == Pairs(I, a, b)
           Y == Pairs(I, a, c)
<1> USE DEF Pairs
<1>1. ASSUME NEW z \in X
      PROVE  z[1] \in P /\ z[2] \in Data /\ <<z[1], Coerce[z[1]][z[2]]>> \in Y
  <2>1. PICK i \in I : z = <<a[i], b[i]>>
    OBVIOUS
  <2>2. z[1] = a[i] /\ z[2] = b[i] /\ Coerce[z[1]][z[2]] = c[i]
    BY <2>1
  <2>3. QED  BY <2>2
<1>2. ASSUME NEW y \in Y
      PROVE  \E z \in X : y[1] = z[1] /\ y[2] = Coerce[z[1]][z[2]]
  <2>1. PICK i \in I : y = <<a[i], c[i]>>
    OBVIOUS
  <2>2. <<a[i], b[i]>> \in X /\ y[1] = a[i] /\ y[2] = Coerce[a[i]][b[i]]
    BY <2>1
  <2>3. QED  BY <2>2
<1>3. QED  BY <1>1, <1>2

\* What is in a container is coerced, and nothing is added or lost.
LEMMA InsideCoerced ==
    ASSUME NEW s \in Schemas, IsContainer(s), NEW d \in Data
    PROVE  LET v == Coerce[s][d]
           IN  /\ Fits(s, v) <=> Fits(s, d)
               /\ Fits(s, d) =>
                    /\ \A z \in Inside(s, d) :
                         /\ z[1] \in Parts(s) /\ z[2] \in Data
                         /\ <<z[1], Coerce[z[1]][z[2]]>> \in Inside(s, v)
                    /\ \A y \in Inside(s, v) : \E z \in Inside(s, d) :
                         y[1] = z[1] /\ y[2] = Coerce[z[1]][z[2]]
<1> DEFINE v == Coerce[s][d]
<1>1. v = CoerceTypes(Coerce, s, d)
  BY CoerceDefined
<1>2. CASE s.type = "array"
  <2>1. CASE d.go = "slice"
    <3>1. v = Slice([i \in DOMAIN d.items |-> Coerce[s.items][d.items[i]]])
      BY <1>1, <1>2, <2>1 DEF CoerceTypes, PrimitiveTypes
    <3>2. /\ v.go = "slice" /\ DOMAIN v.items = DOMAIN d.items
          /\ \A i \in DOMAIN d.items : v.items[i] = Coerce[s.items][d.items[i]]
      BY <3>1 DEF Slice
    <3> HIDE DEF v
    <3>3. /\ Inside(s, d) = {<<s.items, d.items[i]>> : i \in DOMAIN d.items}
          /\ Inside(s, v) = {<<s.items, v.items[i]>> : i \in DOMAIN d.items}
      BY <1>2, <2>1, <3>2 DEF Inside
    <3>4. Fits(s, v) /\ Fits(s, d)
      BY <1>2, <2>1, <3>2 DEF Fits
    <3>5. s.items \in Parts(s) /\ \A i \in DOMAIN d.items : d.items[i] \in Data
      BY <1>2, <2>1, DataShape DEF Parts
    <3> DEFINE I == DOMAIN d.items
               a == [i \in I |-> s.items]
               b == d.items
               c == v.items
    <3>6. /\ \A i \in I : a[i] \in Parts(s) /\ b[i] \in Data
                          /\ c[i] = Coerce[a[i]][b[i]]
          /\ Inside(s, d) = Pairs(I, a, b) /\ Inside(s, v) = Pairs(I, a, c)
      BY <3>2, <3>3, <3>5 DEF Pairs
    <3> DEFINE P == Parts(s)
    <3>7. \A i \in I : a[i] \in P /\ b[i] \in Data /\ c[i] = Coerce[a[i]][b[i]]
      BY <3>6
    <3> HIDE DEF I, a, b, c, P
    <3>8. /\ \A z \in Pairs(I, a, b) :
               /\ z[1] \in P /\ z[2] \in Data
               /\ <<z[1], Coerce[z[1]][z[2]]>> \in Pairs(I, a, c)
          /\ \A y \in Pairs(I, a, c) : \E z \in Pairs(I, a, b) :
               y[1] = z[1] /\ y[2] = Coerce[z[1]][z[2]]
      BY <3>7, Paired
    <3>9. QED  BY <3>4, <3>6, <3>8 DEF v, P
  <2>2. CASE d.go # "slice"
    <3>1. v = d
      BY <1>1, <1>2, <2>2 DEF CoerceTypes, PrimitiveTypes
    <3>2. QED  BY <1>2, <2>2, <3>1 DEF Fits
  <2>3. QED  BY <2>1, <2>2
<1>3. CASE s.type = "map"
  <2>1. CASE d.go = "map"
    <3>1. v = Object([f \in DOMAIN d.fields |-> Coerce[s.values][d.fields[f]]])
      BY <1>1, <1>3, <2>1 DEF CoerceTypes, PrimitiveTypes
    <3>2. /\ v.go = "map" /\ DOMAIN v.fields = DOMAIN d.fields
          /\ \A f \in DOMAIN d.fields : v.fields[f] = Coerce[s.values][d.fields[f]]
      BY <3>1 DEF Object
    <3> HIDE DEF v
    <3>3. /\ Inside(s, d) = {<<s.values, d.fields[f]>> : f \in DOMAIN d.fields}
          /\ Inside(s, v) = {<<s.values, v.fields[f]>> : f \in DOMAIN d.fields}
      BY <1>3, <2>1, <3>2 DEF Inside
    <3>4. Fits(s, v) /\ Fits(s, d)
      BY <1>3, <2>1, <3>2 DEF Fits
    <3>5. s.values \in Parts(s) /\ \A f \in DOMAIN d.fields : d.fields[f] \in Data
      BY <1>3, <2>1, DataShape DEF Parts
    <3> DEFINE I == DOMAIN d.fields
               a == [f \in I |-> s.values]
               b == d.fields
               c == v.fields
    <3>6. /\ \A f \in I : a[f] \in Parts(s) /\ b[f] \in Data
                          /\ c[f] = Coerce[a[f]][b[f]]
          /\ Inside(s, d) = Pairs(I, a, b) /\ Inside(s, v) = Pairs(I, a, c)
      BY <3>2, <3>3, <3>5 DEF Pairs
    <3> DEFINE P == Parts(s)
    <3>7. \A i \in I : a[i] \in P /\ b[i] \in Data /\ c[i] = Coerce[a[i]][b[i]]
      BY <3>6
    <3> HIDE DEF I, a, b, c, P
    <3>8. /\ \A z \in Pairs(I, a, b) :
               /\ z[1] \in P /\ z[2] \in Data
               /\ <<z[1], Coerce[z[1]][z[2]]>> \in Pairs(I, a, c)
          /\ \A y \in Pairs(I, a, c) : \E z \in Pairs(I, a, b) :
               y[1] = z[1] /\ y[2] = Coerce[z[1]][z[2]]
      BY <3>7, Paired
    <3>9. QED  BY <3>4, <3>6, <3>8 DEF v, P
  <2>2. CASE d.go # "map"
    <3>1. v = d
      BY <1>1, <1>3, <2>2 DEF CoerceTypes, PrimitiveTypes
    <3>2. QED  BY <1>3, <2>2, <3>1 DEF Fits
  <2>3. QED  BY <2>1, <2>2
<1>4. CASE s.type = "record"
  <2>1. CASE d.go = "map"
    <3>1. v = Object([f \in DOMAIN d.fields |->
                        IF f \in DOMAIN s.fields THEN Coerce[s.fields[f]][d.fields[f]]
                                                 ELSE d.fields[f]])
      BY <1>1, <1>4, <2>1 DEF CoerceTypes, PrimitiveTypes
    <3>2. /\ v.go = "map" /\ DOMAIN v.fields = DOMAIN d.fields
          /\ \A f \in DOMAIN d.fields : f \in DOMAIN s.fields =>
               v.fields[f] = Coerce[s.fields[f]][d.fields[f]]
      BY <3>1 DEF Object
    <3> HIDE DEF v
    <3>3. /\ Inside(s, d) = {<<s.fields[f], d.fields[f]>> : f \in DOMAIN s.fields}
          /\ Inside(s, v) = {<<s.fields[f], v.fields[f]>> : f \in DOMAIN s.fields}
      BY <1>4, <2>1, <3>2 DEF Inside
    <3>4. /\ Fits(s, v) <=> DOMAIN s.fields \subseteq DOMAIN d.fields
          /\ Fits(s, d) <=> DOMAIN s.fields \subseteq DOMAIN d.fields
      BY <1>4, <2>1, <3>2 DEF Fits
    <3>5. /\ \A f \in DOMAIN s.fields : s.fields[f] \in Parts(s)
          /\ \A f \in DOMAIN d.fields : d.fields[f] \in Data
      BY <1>4, <2>1, DataShape DEF Parts
    <3> DEFINE I == DOMAIN s.fields
               a == s.fields
               b == d.fields
               c == v.fields
               P == Parts(s)
    <3>6. Inside(s, d) = Pairs(I, a, b) /\ Inside(s, v) = Pairs(I, a, c)
      BY <3>3 DEF Pairs
    <3>7. ASSUME Fits(s, d)
          PROVE  /\ \A z \in Pairs(I, a, b) :
                      /\ z[1] \in P /\ z[2] \in Data
                      /\ <<z[1], Coerce[z[1]][z[2]]>> \in Pairs(I, a, c)
                 /\ \A y \in Pairs(I, a, c) : \E z \in Pairs(I, a, b) :
                      y[1] = z[1] /\ y[2] = Coerce[z[1]][z[2]]
      <4>1. \A f \in I : a[f] \in P /\ b[f] \in Data /\ c[f] = Coerce[a[f]][b[f]]
        BY <3>2, <3>4, <3>5, <3>7
      <4> HIDE DEF I, a, b, c, P
      <4>2. QED  BY <4>1, Paired
    <3> HIDE DEF I, a, b, c
    <3>8. QED  BY <3>4, <3>6, <3>7 DEF v, P
  <2>2. CASE d.go # "map"
    <3>1. v = d
      BY <1>1, <1>4, <2>2 DEF CoerceTypes, PrimitiveTypes
    <3>2. QED  BY <1>4, <2>2, <3>1 DEF Fits
  <2>3. QED  BY <2>1, <2>2
<1>5. QED  BY <1>2, <1>3, <1>4 DEF IsContainer

\* The predicates on leaves, one level up.
AcceptsBelow(s, v) ==
    IF IsContainer(s) THEN Fits(s, v) /\ \A z \in Inside(s, v) : AcceptsLeaf(z[1], z[2])
                      ELSE AcceptsLeaf(s, v)
ConformsBelow(s, d) ==
    IF IsContainer(s) THEN Fits(s, d) /\ \A z \in Inside(s, d) : ConformsLeaf(z[1], z[2])
                      ELSE ConformsLeaf(s, d)
DecidedBelow(s, d) ==
    IF IsContainer(s) THEN Fits(s, d) /\ \A z \in Inside(s, d) : DecidedLeaf(z[1], z[2])
                      ELSE DecidedLeaf(s, d)

\* A container of leaves is accepted if all in it conforms, and only then.
LEMMA BelowCoerced ==
    ASSUME NEW s \in Leaves \cup Containers, NEW d \in Data
    PROVE  /\ AcceptsBelow(s, Coerce[s][d]) => ConformsBelow(s, d)
           /\ ConformsBelow(s, d) /\ DecidedBelow(s, d) => AcceptsBelow(s, Coerce[s][d])
<1>1. CASE s \in Leaves
  BY <1>1, LeavesAreNone, LeafCoerced DEF AcceptsBelow, ConformsBelow, DecidedBelow
<1>2. CASE s \notin Leaves
  <2>1. s \in Schemas /\ IsContainer(s) /\ Parts(s) \subseteq Leaves
    BY <1>2, LeavesAreNone, ContainerShape DEF Schemas
  <2> DEFINE v == Coerce[s][d]
  <2>2. /\ Fits(s, v) <=> Fits(s, d)
        /\ Fits(s, d) =>
             /\ \A z \in Inside(s, d) : /\ z[1] \in Leaves /\ z[2] \in Data
                                        /\ <<z[1], Coerce[z[1]][z[2]]>> \in Inside(s, v)
             /\ \A y \in Inside(s, v) : \E z \in Inside(s, d) :
                  y[1] = z[1] /\ y[2] = Coerce[z[1]][z[2]]
    BY <2>1, InsideCoerced
  <2> HIDE DEF v
  <2>3. ASSUME Fits(s, d), \A y \in Inside(s, v) : AcceptsLeaf(y[1], y[2]),
               NEW z \in Inside(s, d)
        PROVE  ConformsLeaf(z[1], z[2])
    <3> DEFINE y == <<z[1], Coerce[z[1]][z[2]]>>
    <3>1. y \in Inside(s, v) /\ z[1] \in Leaves /\ z[2] \in Data
      BY <2>2, <2>3
    <3>2. AcceptsLeaf(y[1], y[2])
      BY <2>3, <3>1
    <3>3. AcceptsLeaf(z[1], Coerce[z[1]][z[2]])
      BY <3>2
    <3>4. QED  BY <3>1, <3>3, LeafCoerced
  <2>4. ASSUME Fits(s, d), NEW y \in Inside(s, v),
               \A z \in Inside(s, d) : ConformsLeaf(z[1], z[2]) /\ DecidedLeaf(z[1], z[2])
        PROVE  AcceptsLeaf(y[1], y[2])
    <3>1. PICK z \in Inside(s, d) : y[1] = z[1] /\ y[2] = Coerce[z[1]][z[2]]
      BY <2>2, <2>4
    <3>2. z[1] \in Leaves /\ z[2] \in Data
      BY <2>2, <2>4
    <3>3. AcceptsLeaf(z[1], Coerce[z[1]][z[2]])
      BY <2>4, <3>2, LeafCoerced
    <3>4. QED  BY <3>1, <3>3
  <2>5. QED
    BY <2>1, <2>2, <2>3, <2>4 DEF AcceptsBelow, ConformsBelow, DecidedBelow, v
<1>3. QED  BY <1>1, <1>2

\* Any schema: what conforms is accepted, if no union leaves a choice, and
\* nothing else.
LEMMA SchemaCoerced ==
    ASSUME NEW s \in Schemas, NEW d \in Data
    PROVE  /\ Marshals(s, Coerce[s][d]) => Conforms(s, d)
           /\ Conforms(s, d) /\ Everywhere(DecidedLeaf, s, d) => Marshals(s, Coerce[s][d])
<1>1. CASE s \in Leaves
  BY <1>1, LeavesAreNone, LeafCoerced DEF Marshals, Conforms, Everywhere
<1>2. CASE s \notin Leaves
  <2> DEFINE v == Coerce[s][d]
  <2>1. IsContainer(s) /\ Parts(s) \subseteq Leaves \cup Containers
    BY <1>2, LeavesAreNone, ContainerShape, SchemaShape
  <2>2. /\ Fits(s, v) <=> Fits(s, d)
        /\ Fits(s, d) =>
             /\ \A z \in Inside(s, d) : /\ z[1] \in Leaves \cup Containers /\ z[2] \in Data
                                        /\ <<z[1], Coerce[z[1]][z[2]]>> \in Inside(s, v)
             /\ \A y \in Inside(s, v) : \E z \in Inside(s, d) :
                  y[1] = z[1] /\ y[2] = Coerce[z[1]][z[2]]
    BY <2>1, InsideCoerced
  <2>3. /\ Marshals(s, v) <=>
             Fits(s, v) /\ \A y \in Inside(s, v) : AcceptsBelow(y[1], y[2])
        /\ Conforms(s, d) <=>
             Fits(s, d) /\ \A z \in Inside(s, d) : ConformsBelow(z[1], z[2])
        /\ Everywhere(DecidedLeaf, s, d) <=>
             Fits(s, d) /\ \A z \in Inside(s, d) : DecidedBelow(z[1], z[2])
    BY <2>1 DEF Marshals, Conforms, Everywhere, AcceptsBelow, ConformsBelow, DecidedBelow
  <2> HIDE DEF v
  <2>4. ASSUME Fits(s, d), \A y \in Inside(s, v) : AcceptsBelow(y[1], y[2]),
               NEW z \in Inside(s, d)
        PROVE  ConformsBelow(z[1], z[2])
    <3> DEFINE y == <<z[1], Coerce[z[1]][z[2]]>>
    <3>1. y \in Inside(s, v) /\ z[1] \in Leaves \cup Containers /\ z[2] \in Data
      BY <2>2, <2>4
    <3>2. AcceptsBelow(y[1], y[2])
      BY <2>4, <3>1
    <3>3. AcceptsBelow(z[1], Coerce[z[1]][z[2]])
      BY <3>2
    <3>4. QED  BY <3>1, <3>3, BelowCoerced
  <2>5. ASSUME Fits(s, d), NEW y \in Inside(s, v),
               \A z \in Inside(s, d) : ConformsBelow(z[1], z[2]) /\ DecidedBelow(z[1], z[2])
        PROVE  AcceptsBelow(y[1], y[2])
    <3>1. PICK z \in Inside(s, d) : y[1] = z[1] /\ y[2] = Coerce[z[1]][z[2]]
      BY <2>2, <2>5
    <3>2. z[1] \in Leaves \cup Containers /\ z[2] \in Data
      BY <2>2, <2>5
    <3>3. AcceptsBelow(z[1], Coerce[z[1]][z[2]])
      BY <2>5, <3>2, BelowCoerced
    <3>4. QED  BY <3>1, <3>3
  <2>6. QED  BY <2>2, <2>3, <2>4, <2>5 DEF v
<1>3. QED  BY <1>1, <1>2

\* Conforming JSON is encoded, and no other.
LEMMA Encodes ==
    ASSUME NEW s \in Schemas, NEW d \in Data
    PROVE  EncodesIfConforming(s, d)
<1>1. d # Invalid /\ [header |-> 0 > 0, value |-> Coerce[s][d]] # Invalid
  <2>1. (0 > 0) \in BOOLEAN
    OBVIOUS
  <2>2. QED  BY <2>1, InvalidAssumption
<1>2. Encode(d, s, 0) = Invalid <=> ~Marshals(s, Coerce[s][d])
  BY <1>1, CoerceDefined DEF Encode
<1>3. QED  BY <1>2, SchemaCoerced DEF EncodesIfConforming
===============================================================================
