------------------------------ MODULE Requests ------------------------------
(***************************************************************************)
(* How requests come about: a worker chooses a target, books a token of    *)
(* its rate limiter, draws a value of every variable from generators that  *)
(* all workers share, fills the templates of the target and hands the      *)
(* request to the client (worker in internal/engine/pool/pool.go, the      *)
(* doWork functions of the engines, internal/engine/substitutor.go).       *)
(*                                                                         *)
(* Module WorkerPool has the same workers with their results and their     *)
(* shutdown; what happens here between a token and a result is one step    *)
(* there.  Time is discrete here.                                          *)
(***************************************************************************)
EXTENDS Generators, Avro, FiniteSets

CONSTANTS
    Workers,         \* the worker goroutines
    RPS,             \* the rates of the targets, a sequence
    Second,          \* ticks in a second
    Duration,        \* ticks from the start to the deadline of testCtx
    Configurations,  \* the configurations considered
    Words,           \* the names that consist of word characters
    Symbols,         \* what texts are made of
    Spelling,        \* what %v prints for a value, a sequence of symbols
    Quote,           \* the symbol around strings in JSON
    Unfilled         \* the symbol for a placeholder that is left in a text

\* A template is a sequence of placeholders and of texts between them.
Slot(x)       == [kind |-> "slot", name |-> x]
Literal(text) == [kind |-> "text", text |-> text]

Targets == DOMAIN RPS

\* A limiter hands out a token every Period(i) ticks.
Period(i) == Second \div RPS[i]

ASSUME RequestsAssumption ==
    /\ IsFiniteSet(Workers)
    /\ Second \in Nat \ {0} /\ Duration \in Nat \ {0}
    /\ RPS \in Seq(Nat \ {0}) /\ RPS # <<>>
    /\ \A i \in Targets : Period(i) \in Nat \ {0} /\ RPS[i] * Period(i) = Second
    /\ \A c \in Configurations : \A k \in DOMAIN c.variables : Typed(c.variables[k])

\* The places of a request whose templates are applied; those of HTTP headers are
\* not.
Places == [http |-> {"url", "body"}, kafka |-> {"key", "value", "headers"},
           grpc |-> {"payload", "metadata"}]

\* A configuration has the engine, the declared variables, the template of each
\* place of a request, and for the places with a schema its type, which is
\* primitive here.
ASSUME TemplatesAssumption ==
    \A c \in Configurations :
      /\ c.engine \in DOMAIN Places /\ DOMAIN c.templates = Places[c.engine]
      /\ \A p \in DOMAIN c.schemas : c.schemas[p] \in PrimitiveTypes
      /\ \A p \in DOMAIN c.templates :
           LET t == c.templates[p]
               pieces == {t[i] : i \in DOMAIN t}
           IN  /\ t \in Seq(pieces)
               /\ \A piece \in pieces : piece.kind = "text" => piece.text \in Seq(Symbols)

\* Every value has a spelling.  No two values of one variable are spelled alike,
\* and no two integers; an integer is spelled without quotes.
ASSUME SpellingAssumption ==
    /\ Unfilled \in Symbols
    /\ \A v \in DOMAIN Spelling : Spelling[v] \in Seq(Symbols) \ {<<>>}
    /\ \A c \in Configurations : \A k \in DOMAIN c.variables :
         LET g == FromVariable(c.variables[k])
         IN  g # Refused =>
               /\ Yields(g) \subseteq DOMAIN Spelling
               /\ \A v, u \in Yields(g) : Spelling[v] = Spelling[u] => v = u
    /\ \A n \in DOMAIN Spelling \cap Int :
         /\ \A i \in DOMAIN Spelling[n] : Spelling[n][i] # Quote
         /\ \A m \in DOMAIN Spelling \cap Int : Spelling[n] = Spelling[m] => n = m

VARIABLES
    config,   \* the configuration
    phase,    \* what the process does
    gen,      \* the generators of the substitutor, by name
    counter,  \* `current` of each generator
    pc,       \* where each worker is
    target,   \* the target a worker has chosen
    slot,     \* when its token falls due
    todo,     \* the generators it has not called yet for its request
    values,   \* the values it has got from the others
    request,  \* its request as the client gets it
    next,     \* when the next free token of a limiter falls due
    now,      \* ticks since the start
    done,     \* testCtx is done
    begun,    \* how many requests were begun for each target
    drawn,    \* the values each sequence has returned, in order
    sent,     \* what told the requests apart that went out
    calls     \* how many went out

setupVars  == <<config, gen>>
clockVars  == <<now, done>>
workerVars == <<pc, target, slot, todo, values, request>>
vars == <<setupVars, phase, counter, workerVars, next, clockVars, begun,
          drawn, sent, calls>>

Empty == [x \in {} |-> {}]

Init ==
    /\ config = Empty /\ phase = "new" /\ gen = Empty /\ counter = Empty
    /\ pc = [w \in Workers |-> "top"]
    /\ target = [w \in Workers |-> 1] /\ slot = [w \in Workers |-> 0]
    /\ todo = [w \in Workers |-> {}] /\ values = [w \in Workers |-> Empty]
    /\ request = [w \in Workers |-> Empty]
    /\ next = [i \in Targets |-> 0] /\ now = 0 /\ done = FALSE
    /\ begun = [i \in Targets |-> 0] /\ drawn = Empty
    /\ sent = {} /\ calls = 0

-----------------------------------------------------------------------------
(* The substitutor is built *)

\* Which variable each name stands for: of two with one name the later one.
Latest(variables) ==
    {at \in [{variables[k].name : k \in DOMAIN variables} -> DOMAIN variables] :
       \A k \in DOMAIN variables : LET x == variables[k].name
                                  IN  at[x] >= k /\ variables[at[x]].name = x}

\* Any variable without a usable generator refuses them all.
NewSubstitutor(c) ==
    /\ phase = "new" /\ config' = c
    /\ IF \E k \in DOMAIN c.variables : FromVariable(c.variables[k]) = Refused
         THEN phase' = "refused" /\ UNCHANGED <<gen, counter, drawn>>
         ELSE /\ phase' = "running"
              /\ \E at \in Latest(c.variables) :
                   /\ gen' = [x \in DOMAIN at |-> FromVariable(c.variables[at[x]])]
                   /\ counter' = [x \in DOMAIN at |-> 0]
                   /\ drawn' = [x \in DOMAIN at |-> <<>>]
    /\ UNCHANGED <<workerVars, next, clockVars, begun, sent, calls>>

-----------------------------------------------------------------------------
(* A worker gets a token *)

Cumulative[i \in 0 .. Len(RPS)] ==
    IF i = 0 THEN 0 ELSE Cumulative[i - 1] + RPS[i]
TotalRPS == Cumulative[Len(RPS)]

\* Mutant: a number at the end of a share belongs to it.
SelectsInclusive(r, i) ==
    \/ r <= Cumulative[i] /\ \A j \in 1 .. i - 1 : r > Cumulative[j]
    \/ i = Len(RPS) /\ \A j \in Targets : r > Cumulative[j]

\* The random number r, below TotalRPS, makes selectTarget return i: the first
\* target whose cumulative rate is above it, or the last one.
Selects(r, i) ==
    \/ r < Cumulative[i] /\ \A j \in 1 .. i - 1 : r >= Cumulative[j]
    \/ i = Len(RPS) /\ \A j \in Targets : r >= Cumulative[j]

Goes(w, point) == pc' = [pc EXCEPT ![w] = point]

\* The first token that nobody has booked.
Due(i) == IF next[i] < now THEN now ELSE next[i]

\* Mutant: Wait is called twice.
BookTwice(w, i) ==
    /\ IF Due(i) > Duration
         THEN Goes(w, "left") /\ UNCHANGED <<target, slot, next>>
         ELSE /\ Goes(w, "wait")
              /\ target' = [target EXCEPT ![w] = i]
              /\ slot' = [slot EXCEPT ![w] = Due(i)]
              /\ next' = [next EXCEPT ![i] = Due(i) + 2 * Period(i)]
    /\ UNCHANGED <<todo, values, request>>

\* Mutant: the deadline of the context is not looked at.
BookUnchecked(w, i) ==
    /\ Goes(w, "wait")
    /\ target' = [target EXCEPT ![w] = i]
    /\ slot' = [slot EXCEPT ![w] = Due(i)]
    /\ next' = [next EXCEPT ![i] = Due(i) + Period(i)]
    /\ UNCHANGED <<todo, values, request>>

\* Limiter.Wait books the token or, if it falls due after the deadline, fails
\* at once; the worker then returns and is gone for the rest of the test.
Book(w, i) ==
    /\ IF Due(i) > Duration
         THEN Goes(w, "left") /\ UNCHANGED <<target, slot, next>>
         ELSE /\ Goes(w, "wait")
              /\ target' = [target EXCEPT ![w] = i]
              /\ slot' = [slot EXCEPT ![w] = Due(i)]
              /\ next' = [next EXCEPT ![i] = Due(i) + Period(i)]
    /\ UNCHANGED <<todo, values, request>>

\* The default branch of the worker's select.
Choose(w) ==
    /\ phase = "running" /\ pc[w] = "top" /\ ~done
    /\ \E i \in Targets : /\ \E r \in 0 .. TotalRPS - 1 : Selects(r, i)
                         /\ Book(w, i)
    /\ UNCHANGED <<setupVars, phase, counter, clockVars, begun, drawn, sent,
                   calls>>

\* A stop signal of the scaler, or testCtx is done.
Stop(w) ==
    /\ phase = "running" /\ pc[w] \in {"top", "wait"}
    /\ pc[w] = "wait" => done
    /\ Goes(w, "stopped") /\ slot' = [slot EXCEPT ![w] = 0]
    /\ UNCHANGED <<setupVars, phase, counter, target, todo, values, request,
                   next, clockVars, begun, drawn, sent, calls>>

\* Mutant: the worker does not wait.
AdmitEarly(w) ==
    /\ phase = "running" /\ pc[w] = "wait"
    /\ Goes(w, "draw") /\ slot' = [slot EXCEPT ![w] = 0]
    /\ todo' = [todo EXCEPT ![w] = DOMAIN gen]
    /\ begun' = [begun EXCEPT ![target[w]] = @ + 1]
    /\ UNCHANGED <<setupVars, phase, counter, target, values, request, next,
                   clockVars, drawn, sent, calls>>

\* Mutant: only the variables that the templates refer to are drawn.
AdmitSparing(w) ==
    /\ phase = "running" /\ pc[w] = "wait" /\ slot[w] <= now
    /\ Goes(w, "draw") /\ slot' = [slot EXCEPT ![w] = 0]
    /\ todo' = [todo EXCEPT ![w] =
         {x \in DOMAIN gen : \E p \in DOMAIN config.templates :
                              \E i \in DOMAIN config.templates[p] :
                                config.templates[p][i] = Slot(x)}]
    /\ begun' = [begun EXCEPT ![target[w]] = @ + 1]
    /\ UNCHANGED <<setupVars, phase, counter, target, values, request, next,
                   clockVars, drawn, sent, calls>>

\* Wait returns when the token falls due: the worker enters doWork and begins
\* to call the generators.
Admit(w) ==
    /\ phase = "running" /\ pc[w] = "wait" /\ slot[w] <= now
    /\ Goes(w, "draw") /\ slot' = [slot EXCEPT ![w] = 0]
    /\ todo' = [todo EXCEPT ![w] = DOMAIN gen]
    /\ begun' = [begun EXCEPT ![target[w]] = @ + 1]
    /\ UNCHANGED <<setupVars, phase, counter, target, values, request, next,
                   clockVars, drawn, sent, calls>>

-----------------------------------------------------------------------------
(* A worker makes a request *)

\* Mutant: the counter is loaded and stored, another worker in between.
AdvanceLost(w, x) ==
    IF ~Sequential(gen[x]) THEN counter' = counter
    ELSE \E lost \in BOOLEAN :
           /\ lost => \E u \in Workers \ {w} : x \in todo[u]
           /\ counter' = [counter EXCEPT ![x] = IF lost THEN @ ELSE @ + 1]

\* The atomic increment in Next.
Advance(w, x) ==
    counter' = IF Sequential(gen[x]) THEN [counter EXCEPT ![x] = @ + 1]
                                     ELSE counter

Record(x, v) ==
    drawn' = IF Sequential(gen[x]) THEN [drawn EXCEPT ![x] = Append(@, v)]
                                   ELSE drawn

With(f, x, v) == [y \in DOMAIN f \cup {x} |-> IF y = x THEN v ELSE f[y]]

\* NewValues calls the generators in any order, each of its calls between
\* those of other workers.  A panic ends the process.
Draw(w) ==
    /\ phase = "running" /\ pc[w] = "draw"
    /\ \E x \in todo[w] :
         /\ Advance(w, x)
         /\ todo' = [todo EXCEPT ![w] = @ \ {x}]
         /\ \E v \in NextValues(gen[x], counter[x]) :
              IF v = Panic
                THEN phase' = "panicked" /\ UNCHANGED <<values, drawn>>
                ELSE /\ values' = [values EXCEPT ![w] = With(@, x, v)]
                     /\ Record(x, v) /\ UNCHANGED phase
    /\ UNCHANGED <<setupVars, pc, target, slot, request, next, clockVars,
                   begun, sent, calls>>

\* Only names of word characters match, and names without a value stay.
Fill(piece, vals) ==
    IF piece.kind = "text" THEN piece.text
    ELSE IF piece.name \in Words \cap DOMAIN vals THEN Spelling[vals[piece.name]]
    ELSE <<Unfilled>>

\* What a template becomes is one text: its pieces, filled, one after another.
Apply(template, vals) ==
    LET text[i \in 0 .. Len(template)] ==
          IF i = 0 THEN <<>> ELSE text[i - 1] \o Fill(template[i], vals)
    IN  text[Len(template)]

Applied == Places[config.engine]

\* What Unmarshal makes of a text, which has no other JSON than strings without
\* escapes and integers here.
Quoted(text) ==
    /\ Len(text) > 1
    /\ {i \in DOMAIN text : text[i] = Quote} = {1, Len(text)}
JSON(text) ==
    LET numbers == {n \in DOMAIN Spelling \cap Int : Spelling[n] = text}
    IN  IF Quoted(text) THEN Text(SubSeq(text, 2, Len(text) - 1))
        ELSE IF numbers # {} THEN Number(CHOOSE n \in numbers : TRUE)
        ELSE Invalid

\* The bytes of a place.  An empty key is not encoded.
Bytes(p, text) ==
    IF p \in DOMAIN config.schemas /\ ~(p = "key" /\ text = <<>>)
      THEN Encode(JSON(text), Primitive(config.schemas[p]), 0)
      ELSE text

Filled(vals) ==
    [p \in Applied |-> Bytes(p, Apply(config.templates[p], vals))]

\* The place that tells requests apart.
Identity == [http |-> "url", kafka |-> "key", grpc |-> "payload"][config.engine]

\* A record that cannot be encoded, a URL or a payload that does not parse:
\* the request ends with an error before anything is sent.
Unsendable(f) == \E p \in Applied : f[p] = Invalid
MayNotParse   == config.engine \in {"http", "grpc"}

Hand(w, f) ==
    /\ request' = [request EXCEPT ![w] = f]
    /\ sent' = sent \cup {f[Identity]} /\ calls' = calls + 1

\* Mutant: each place is filled with values of its own.
PrepareRedrawn(w) ==
    /\ phase = "running" /\ pc[w] = "draw" /\ todo[w] = {} /\ Goes(w, "call")
    /\ \E later \in [DOMAIN gen -> BOOLEAN] :
         LET other == [x \in DOMAIN gen |->
                         IF later[x] /\ Sequential(gen[x])
                           THEN SeqNext(gen[x], counter[x]) ELSE values[w][x]]
             f     == [p \in Applied |-> IF p = Identity THEN Filled(values[w])[p]
                                                         ELSE Filled(other)[p]]
         IN  ~Unsendable(f) /\ Hand(w, f)
    /\ UNCHANGED <<setupVars, phase, counter, target, slot, todo, values, next,
                   clockVars, begun, drawn>>

\* The templates are applied and the request goes to the client, unless it
\* cannot be sent.
Prepare(w) ==
    /\ phase = "running" /\ pc[w] = "draw" /\ todo[w] = {} /\ Goes(w, "call")
    /\ LET f == Filled(values[w])
       IN  \/ ~Unsendable(f) /\ Hand(w, f)
           \/ (Unsendable(f) \/ MayNotParse)
              /\ UNCHANGED <<request, sent, calls>>
    /\ UNCHANGED <<setupVars, phase, counter, target, slot, todo, values, next,
                   clockVars, begun, drawn>>

\* Mutant: every request has a new substitutor.
ReturnAfresh(w) ==
    /\ phase = "running" /\ pc[w] = "call"
    /\ IF done THEN Goes(w, "stopped") ELSE Goes(w, "top")
    /\ values' = [values EXCEPT ![w] = Empty]
    /\ request' = [request EXCEPT ![w] = Empty]
    /\ counter' = [x \in DOMAIN counter |-> 0]
    /\ UNCHANGED <<setupVars, phase, target, slot, todo, next, clockVars,
                   begun, drawn, sent, calls>>

\* doWork returns, whatever the service did; the worker goes on unless the
\* context is done.
Return(w) ==
    /\ phase = "running" /\ pc[w] = "call"
    /\ IF done THEN Goes(w, "stopped") ELSE Goes(w, "top")
    /\ values' = [values EXCEPT ![w] = Empty]
    /\ request' = [request EXCEPT ![w] = Empty]
    /\ UNCHANGED <<setupVars, phase, counter, target, slot, todo, next,
                   clockVars, begun, drawn, sent, calls>>

-----------------------------------------------------------------------------
(* Time *)

\* testCtx ends at its deadline ...
Tick ==
    /\ phase = "running" /\ ~done
    /\ now' = now + 1 /\ done' = (now + 1 = Duration)
    /\ UNCHANGED <<setupVars, phase, counter, workerVars, next, begun, drawn,
                   sent, calls>>

\* ... or with an interrupt.
Cancel ==
    /\ phase = "running" /\ ~done
    /\ done' = TRUE
    /\ UNCHANGED <<setupVars, phase, counter, workerVars, next, now, begun,
                   drawn, sent, calls>>

Terminated ==
    /\ \/ phase \in {"refused", "panicked"}
       \/ done /\ \A w \in Workers : pc[w] \in {"left", "stopped"}
    /\ UNCHANGED vars

Work(w) ==
    Choose(w) \/ Stop(w) \/ Admit(w) \/ Draw(w) \/ Prepare(w) \/ Return(w)

Next ==
    \/ (\E c \in Configurations : NewSubstitutor(c)) \/ (\E w \in Workers : Work(w))
    \/ Tick \/ Cancel \/ Terminated

Spec == Init /\ [][Next]_vars
-----------------------------------------------------------------------------
(* Properties *)

\* Every variable has its type; no token is booked that falls due after the
\* deadline.
TypeOK ==
    /\ config \in Configurations \cup {Empty}
    /\ phase \in {"new", "refused", "running", "panicked"}
    /\ DOMAIN counter = DOMAIN gen /\ DOMAIN drawn = DOMAIN gen
    /\ \A x \in DOMAIN gen : counter[x] \in Nat
    /\ pc \in [Workers -> {"top", "wait", "draw", "call", "left", "stopped"}]
    /\ target \in [Workers -> Targets] /\ slot \in [Workers -> 0 .. Duration]
    /\ todo \in [Workers -> SUBSET DOMAIN gen]
    /\ next \in [Targets -> Nat] /\ now \in 0 .. Duration /\ done \in BOOLEAN
    /\ begun \in [Targets -> Nat] /\ calls \in Nat

\* NewIntRangeGenerator and Next agree on both bounds, for every range of ints:
\* nothing between them is left out and nothing else comes, unless the range
\* has more integers than an int64 can count.
RangesInclusive ==
    phase = "new" =>
      \A min \in Ints : \A max \in min .. MaxInt : YieldsItsRange(min, max)

\* coerceTypes makes of every number, however deep, what the library accepts
\* there: conforming JSON is encoded and no other, for each schema and value.
EncodesConforming ==
    phase = "new" => \A s \in Schemas : \A d \in Data : EncodesIfConforming(s, d)

\* Each target is the choice for as many of the random numbers as its rate
\* says, so it gets its share of the requests.
SharesExact ==
    phase = "new" => \A i \in Targets :
      Cardinality({r \in 0 .. TotalRPS - 1 : Selects(r, i)}) = RPS[i]

\* A range with more integers than its span can hold.
TooWide(g) == g.kind = "range" /\ ~Representable(g.min, g.max)

\* Generators that were built never panic, ranges too wide for their span
\* aside: what the constructors refuse is enough.
PanicOnlyIfTooWide ==
    phase = "panicked" => \E x \in DOMAIN gen : TooWide(gen[x])

\* Whatever the workers do at the same time: a sequence returns no value again
\* before it has returned all the others, so none is skipped.
Distinct(g) ==
    g.kind = "set" => \A i, j \in DOMAIN g.values : i # j => g.values[i] # g.values[j]
EachValueOncePerRound ==
    \A x \in DOMAIN gen : Sequential(gen[x]) /\ Distinct(gen[x]) =>
      \A j, k \in 1 .. Len(drawn[x]) :
        (j < k /\ k - j < Length(gen[x])) => drawn[x][j] # drawn[x][k]

\* Sequences stay in step: a request takes one value of each, used or not, so
\* two sequences have been advanced equally often but for the requests that
\* are in the middle of it.
Drawing(x) == Cardinality({w \in Workers : x \in todo[w]})
LockStep ==
    phase = "running" =>
      \A x, y \in DOMAIN gen :
        Sequential(gen[x]) /\ Sequential(gen[y]) =>
          counter[x] + Drawing(x) = counter[y] + Drawing(y)

\* The request that a worker hands over is filled from one assignment of values
\* to the variables, each one a value that its variable may have, in every place
\* where the documentation promises substitution, as long as names are words.
RequestsConsistent ==
    \A w \in Workers : request[w] # Empty =>
      LET filling == {p \in DOMAIN request[w] : p \notin DOMAIN config.schemas}
          names   == DOMAIN gen \cap Words
      IN  \E vals \in [names -> UNION {Yields(gen[x]) : x \in names}] :
            /\ \A x \in names : vals[x] \in Yields(gen[x])
            /\ \A p \in filling :
                 request[w][p] = Apply(config.templates[p], vals)

\* A text shows which value of x is in it: what comes before the placeholder is
\* the same in all of them, and what follows cannot be taken for a part of the
\* value.  `{{x}}{{y}}` does not show y, nor x if y may continue it.
Fixed(piece) == piece.kind = "text" \/ piece.name \notin DOMAIN gen \cap Words
Delimits(piece, x) ==
    /\ piece.kind = "text" /\ piece.text # <<>>
    /\ \A v \in Yields(gen[x]) : \A k \in DOMAIN Spelling[v] :
         Spelling[v][k] # piece.text[1]
Shows(template, x) ==
    \E i \in DOMAIN template :
      /\ template[i] = Slot(x) /\ \A j \in 1 .. i - 1 : Fixed(template[j])
      /\ i = Len(template) \/ Delimits(template[i + 1], x)

\* No two of the texts are encoded alike: strings are not, nor are integers that
\* stand alone and that the floats in between have.
Exact(n, type) ==
    n \in Ints /\ Float(n) = n /\ (type = "float" => Float32(n) = n)
Preserves(type, template, x) ==
    \/ type = "string"
    \/ template = <<Slot(x)>> /\ \A v \in Yields(gen[x]) : Exact(v, type)

\* While a sequence of distinct values is in its first round, no two requests
\* that went out are told apart by the same value of it: no interleaving has
\* merged two values, as long as the template shows the value and the encoding
\* preserves it.
FirstRound(x) ==
    /\ x \in Words /\ Sequential(gen[x]) /\ Distinct(gen[x])
    /\ counter[x] <= Length(gen[x])
Tells(x) ==
    /\ Shows(config.templates[Identity], x)
    /\ Identity \in DOMAIN config.schemas =>
         Preserves(config.schemas[Identity], config.templates[Identity], x)
IdentitiesDistinct ==
    phase = "running" /\ (\E x \in DOMAIN gen : FirstRound(x) /\ Tells(x)) =>
      Cardinality(sent) = calls

\* At no time have more requests been begun for a target than its limiter has
\* handed out tokens: one at the start and one per period.
RateKept == \A i \in Targets : begun[i] <= now \div Period(i) + 1

\* A worker gives up for good only close to the deadline: for some target the
\* time left is shorter than a period for itself and each that waits there.
Waiting(i) == {w \in Workers : pc[w] = "wait" /\ target[w] = i}
LeavesLate ==
    [][\A w \in Workers : pc[w] # "left" /\ pc'[w] = "left" =>
         \E i \in Targets :
           Duration - now < Period(i) * (Cardinality(Waiting(i)) + 1)]_vars
=============================================================================
