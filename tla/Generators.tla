----------------------------- MODULE Generators -----------------------------
(***************************************************************************)
(* The generators behind the variables of a configuration                  *)
(* (internal/generator/generator.go) and how a declared variable becomes   *)
(* one (fromVariable in internal/engine/substitutor.go).  A generator has  *)
(* one piece of state, the counter of its sequence, which is a variable of *)
(* module Requests; here is what Next makes of it.                         *)
(***************************************************************************)
EXTENDS FixedWidth, Sequences

CONSTANTS
    Unusable,  \* a field that is missing or has another type
    Panic,     \* what a Next that panics "returns"
    UUID,      \* stands for any fresh UUID
    Instants,  \* what the clock may show, in seconds
    RFC3339    \* stands for any formatted time

ASSUME PanicAssumption == Panic \notin Ints \cup Instants \cup {UUID, RFC3339}

Modes == {"seq", "rnd"}

\* A constructor that returns an error.
Refused == [kind |-> "refused"]

\* Mutant: the bounds are taken to be exclusive above.
NewIntRangeGeneratorExclusive(min, max, mode) ==
    IF min > max \/ mode \notin Modes
      THEN Refused
      ELSE [kind |-> "range", mode |-> mode, min |-> min, max |-> max,
            span |-> Wrap(max - min)]

NewIntRangeGenerator(min, max, mode) ==
    IF min > max \/ mode \notin Modes
      THEN Refused
      ELSE [kind |-> "range", mode |-> mode, min |-> min, max |-> max,
            span |-> Wrap(Wrap(max - min) + 1)]

\* Mutant: an empty list is accepted.
NewSetGeneratorUnchecked(values, mode) ==
    IF mode \notin Modes
      THEN Refused
      ELSE [kind |-> "set", mode |-> mode, values |-> values]

\* NewIntSetGenerator and NewStringSetGenerator.
NewSetGenerator(values, mode) ==
    IF values = <<>> \/ mode \notin Modes
      THEN Refused
      ELSE [kind |-> "set", mode |-> mode, values |-> values]

NewUUIDGenerator == [kind |-> "uuid", mode |-> "rnd"]

NewTimestampGenerator(format) ==
    IF format \in {"unix", "rfc3339"}
      THEN [kind |-> "time", mode |-> "rnd", format |-> format]
      ELSE Refused

Usable(v, fields) == \A f \in fields : v[f] # Unusable

\* What YAML makes of a variable whose fields are usable.
Typed(v) ==
    /\ v.type = "int_range" /\ Usable(v, {"min", "max"}) =>
         v.min \in Ints /\ v.max \in Ints
    /\ v.type \in {"int_set", "string_set"} /\ Usable(v, {"values"}) =>
         LET values == {v.values[i] : i \in DOMAIN v.values}
         IN  v.values \in Seq(values) /\ Panic \notin values

\* A variable as declared: every field its type needs must be there, with the
\* right type.  A number's fraction is dropped, and other fields are ignored.
FromVariable(v) ==
    CASE v.type = "int_range" /\ Usable(v, {"mode", "min", "max"}) ->
           NewIntRangeGenerator(v.min, v.max, v.mode)
      [] v.type \in {"int_set", "string_set"} /\ Usable(v, {"mode", "values"}) ->
           NewSetGenerator(v.values, v.mode)
      [] v.type = "uuid" -> NewUUIDGenerator
      [] v.type = "timestamp" /\ Usable(v, {"format"}) ->
           NewTimestampGenerator(v.format)
      [] OTHER -> Refused

Sequential(g) == g.kind \in {"range", "set"} /\ g.mode = "seq"

\* How many values a sequence has before it begins again; 0 makes % panic.
Length(g) == IF g.kind = "range" THEN AbsoluteValue(g.span) ELSE Len(g.values)

\* Where in its sequence a generator is that has been called `counter` times.
Position(g, counter) == Remainder(counter, Length(g))

\* Next in "seq" mode.
SeqNext(g, counter) ==
    IF Length(g) = 0 THEN Panic
    ELSE IF g.kind = "range" THEN Wrap(g.min + Position(g, counter))
                             ELSE g.values[Position(g, counter) + 1]

\* Next of the generators that have no mode: sixteen random bytes, of which six
\* bits are fixed, in hexadecimal; the time in the format asked for.
UUIDNext == {UUID}
TimestampNext(g) == IF g.format = "unix" THEN Instants ELSE {RFC3339}

\* Next of the others in "rnd" mode: the values it may return.  IntN panics
\* unless its argument is positive.
RndNext(g) ==
    CASE g.kind = "range" ->
           IF g.span <= 0 THEN {Panic}
                          ELSE {Wrap(g.min + k) : k \in 0 .. g.span - 1}
      [] g.kind = "set" ->
           IF g.values = <<>> THEN {Panic}
                              ELSE {g.values[i] : i \in DOMAIN g.values}
      [] g.kind = "uuid" -> UUIDNext
      [] g.kind = "time" -> TimestampNext(g)

\* The values that a generator may ever return.
Yields(g) ==
    CASE g.kind = "range" -> g.min .. g.max
      [] g.kind = "set"   -> {g.values[i] : i \in DOMAIN g.values}
      [] OTHER            -> RndNext(g)

NextValues(g, counter) ==
    IF Sequential(g) THEN {SeqNext(g, counter)} ELSE RndNext(g)

-----------------------------------------------------------------------------
(* Properties *)

\* span, of type int64, can hold the number of values from min to max.
Representable(min, max) == max - min + 1 <= MaxInt

\* What a range from min to max yields in a round, from any point of it and
\* in either mode: the integers from min to max, both included.  A range too
\* wide for its span yields nothing outside, but may leave values out or panic.
YieldsItsRange(min, max) ==
    LET seq == NewIntRangeGenerator(min, max, "seq")
        rnd == NewIntRangeGenerator(min, max, "rnd")
        round(k) == {SeqNext(seq, c) : c \in k .. k + max - min}
    IN  IF Representable(min, max)
          THEN /\ \A k \in 0 .. MaxInt : round(k) = min .. max
               /\ RndNext(rnd) = min .. max
          ELSE /\ round(0) \subseteq (min .. max) \cup {Panic}
               /\ RndNext(rnd) = {Panic}
=============================================================================
