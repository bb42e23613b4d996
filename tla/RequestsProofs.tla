--------------------------- MODULE RequestsProofs ---------------------------
(***************************************************************************)
(* Proofs about Requests, for any workers, rates, duration, configurations *)
(* and integer width: sequences stay in step and repeat nothing within a   *)
(* round, ranges have their bounds, nothing that could be built panics but *)
(* a range too wide, the limiters keep the rates, and requests that show   *)
(* different values differ.                                                *)
(***************************************************************************)
EXTENDS Requests, AvroProofs, ArithmeticTheorems, SequenceTheorems

-----------------------------------------------------------------------------
(* Types *)

Points == {"top", "wait", "draw", "call", "left", "stopped"}

\* The part of the types that the arguments need.
Types ==
    /\ phase \in {"new", "refused", "running", "panicked"}
    /\ pc \in [Workers -> Points] /\ target \in [Workers -> Targets]
    /\ slot \in [Workers -> Nat] /\ next \in [Targets -> Nat] /\ now \in Nat
    /\ begun \in [Targets -> Nat]
    /\ counter \in [DOMAIN gen -> Nat] /\ DOMAIN drawn = DOMAIN gen
    /\ todo \in [Workers -> SUBSET DOMAIN gen]
    /\ phase = "new" => \A w \in Workers : pc[w] = "top"
    /\ \A w \in Workers : pc[w] # "draw" => todo[w] = {}

\* The constants have the types that their assumption gives them.
LEMMA Constants ==
    /\ IsFiniteSet(Workers) /\ Second \in Nat \ {0} /\ Duration \in Nat
    /\ Targets = 1 .. Len(RPS) /\ 1 \in Targets /\ Len(RPS) \in Nat
    /\ \A i \in Targets : Period(i) \in Nat \ {0}
<1>1. RPS \in Seq(Nat \ {0}) /\ RPS # <<>>
  BY RequestsAssumption
<1>2. Targets = 1 .. Len(RPS) /\ 1 \in Targets /\ Len(RPS) \in Nat
  BY <1>1 DEF Targets
<1>3. QED  BY <1>2, RequestsAssumption

\* The next token of a limiter falls due at a natural number.
LEMMA DueType ==
    ASSUME Types, NEW i \in Targets
    PROVE  Due(i) \in Nat /\ Due(i) >= now /\ Due(i) >= next[i]
           /\ Due(i) \in {now, next[i]}
BY DEF Types, Due

\* Types hold initially and are preserved.
LEMMA TypesInit == Init => Types
BY Constants DEF Init, Types, Points, Empty

LEMMA TypesNext == Types /\ [Next]_vars => Types'
<1> SUFFICES ASSUME Types, [Next]_vars PROVE Types'
  OBVIOUS
<1>0. \A i \in Targets : Due(i) \in Nat /\ Due(i) + Period(i) \in Nat
  BY DueType, Constants
<1> USE DEF Types, Points
<1>1. ASSUME NEW c \in Configurations, NewSubstitutor(c) PROVE Types'
  <2>1. CASE phase' = "refused"
    BY <1>1, <2>1 DEF NewSubstitutor, workerVars, clockVars
  <2>2. CASE phase' # "refused"
    <3>1. PICK at : /\ gen' = [x \in DOMAIN at |-> FromVariable(c.variables[at[x]])]
                    /\ counter' = [x \in DOMAIN at |-> 0]
                    /\ drawn' = [x \in DOMAIN at |-> <<>>]
      BY <1>1, <2>2 DEF NewSubstitutor
    <3>2. \A w \in Workers : todo[w] = {}
      BY <1>1 DEF NewSubstitutor
    <3>3. todo' \in [Workers -> SUBSET DOMAIN gen']
      BY <1>1, <3>2 DEF NewSubstitutor, workerVars
    <3>4. counter' \in [DOMAIN gen' -> Nat] /\ DOMAIN drawn' = DOMAIN gen'
      BY <3>1
    <3>5. QED  BY <1>1, <2>2, <3>3, <3>4 DEF NewSubstitutor, workerVars, clockVars
  <2>3. QED  BY <2>1, <2>2
<1>2. ASSUME NEW w \in Workers, Choose(w) PROVE Types'
  <2>1. PICK i \in Targets : Book(w, i)
    BY <1>2 DEF Choose
  <2>2. QED  BY <1>0, <1>2, <2>1 DEF Choose, Book, Goes, setupVars, clockVars
<1>3. ASSUME NEW w \in Workers, Stop(w) PROVE Types'
  BY <1>3 DEF Stop, Goes, setupVars, clockVars
<1>4. ASSUME NEW w \in Workers, Admit(w) PROVE Types'
  BY <1>4 DEF Admit, Goes, setupVars, clockVars
<1>5. ASSUME NEW w \in Workers, Draw(w) PROVE Types'
  <2>1. PICK x \in todo[w] : /\ Advance(w, x) /\ todo' = [todo EXCEPT ![w] = @ \ {x}]
                             /\ phase' \in {"panicked", phase}
                             /\ DOMAIN drawn' = DOMAIN drawn
    <3>1. PICK x \in todo[w] :
            /\ Advance(w, x) /\ todo' = [todo EXCEPT ![w] = @ \ {x}]
            /\ \/ phase' = "panicked" /\ drawn' = drawn
               \/ phase' = phase /\ \E v : Record(x, v)
      BY <1>5 DEF Draw
    <3>2. DOMAIN drawn' = DOMAIN drawn
      BY <3>1 DEF Record
    <3>3. QED  BY <3>1, <3>2
  <2>2. counter' \in [DOMAIN gen -> Nat]
    BY <2>1 DEF Advance
  <2>3. QED  BY <1>5, <2>1, <2>2 DEF Draw, setupVars, clockVars
<1>6. ASSUME NEW w \in Workers, Prepare(w) PROVE Types'
  BY <1>6 DEF Prepare, Hand, Goes, setupVars, clockVars
<1>7. ASSUME NEW w \in Workers, Return(w) PROVE Types'
  BY <1>7 DEF Return, Goes, setupVars, clockVars
<1>8. CASE Tick
  BY <1>8 DEF Tick, setupVars, workerVars
<1>9. CASE Cancel
  BY <1>9 DEF Cancel, setupVars, workerVars
<1>10. CASE UNCHANGED vars
  BY <1>10 DEF vars, setupVars, workerVars, clockVars
<1>11. QED
  BY <1>1, <1>2, <1>3, <1>4, <1>5, <1>6, <1>7, <1>8, <1>9, <1>10
  DEF Next, Work, Terminated

-----------------------------------------------------------------------------
(* Counting workers *)

\* Sets of workers are finite; one that gains or loses one worker changes its
\* size by one.
LEMMA Sizes ==
    ASSUME NEW S \in SUBSET Workers, NEW T \in SUBSET Workers, NEW w \in Workers
    PROVE  /\ Cardinality(S) \in Nat
           /\ w \in S /\ T = S \ {w} => Cardinality(T) = Cardinality(S) - 1
           /\ w \notin S /\ T = S \cup {w} => Cardinality(T) = Cardinality(S) + 1
           /\ S \subseteq T => Cardinality(S) <= Cardinality(T)
           /\ S = {} => Cardinality(S) = 0
<1>1. IsFiniteSet(S) /\ IsFiniteSet(T)
  BY Constants, FS_Subset
<1>2. QED
  BY <1>1, FS_CardinalityType, FS_RemoveElement, FS_AddElement, FS_Subset,
     FS_EmptySet

-----------------------------------------------------------------------------
(* Sequences stay in step *)

InStep ==
    \A x, y \in DOMAIN gen :
      Sequential(gen[x]) /\ Sequential(gen[y]) =>
        counter[x] + Drawing(x) = counter[y] + Drawing(y)

\* A worker that takes all generators on adds one to each count, one that has
\* called a generator takes one from it.
LEMMA DrawingStep ==
    ASSUME Types, NEW w \in Workers, NEW x \in DOMAIN gen, NEW S,
           todo' = [todo EXCEPT ![w] = S]
    PROVE  /\ Drawing(x) \in Nat
           /\ (x \in S <=> x \in todo[w]) => Drawing(x)' = Drawing(x)
           /\ x \in S /\ x \notin todo[w] => Drawing(x)' = Drawing(x) + 1
           /\ x \notin S /\ x \in todo[w] => Drawing(x)' = Drawing(x) - 1
<1> DEFINE A == {u \in Workers : x \in todo[u]}
           B == {u \in Workers : x \in todo'[u]}
<1>1. /\ A \in SUBSET Workers /\ B \in SUBSET Workers
      /\ Drawing(x) = Cardinality(A) /\ Drawing(x)' = Cardinality(B)
  BY DEF Drawing
<1>2. /\ w \in A <=> x \in todo[w]
      /\ w \in B <=> x \in S
      /\ B \ {w} = A \ {w}
  BY DEF Types
<1>3. /\ (w \in A <=> w \in B) => B = A
      /\ w \in B /\ w \notin A => B = A \cup {w}
      /\ w \notin B /\ w \in A => B = A \ {w}
  BY <1>2
<1> HIDE DEF A, B
<1>4. QED  BY <1>1, <1>2, <1>3, Sizes

\* The sequences are in step before the first request ...
LEMMA InStepInit == Init => InStep
BY DEF Init, InStep, Empty

\* ... and stay so.
LEMMA InStepNext == Types /\ InStep /\ [Next]_vars => InStep'
<1> SUFFICES ASSUME Types, InStep, [Next]_vars PROVE InStep'
  OBVIOUS
<1>1. ASSUME UNCHANGED <<gen, counter, todo>> PROVE InStep'
  <2>1. \A x : Drawing(x)' = Drawing(x)
    BY <1>1 DEF Drawing
  <2>2. QED  BY <1>1, <2>1 DEF InStep
<1>2. ASSUME NEW c \in Configurations, NewSubstitutor(c) PROVE InStep'
  <2>1. UNCHANGED todo /\ \A w \in Workers : todo[w] = {}
    BY <1>2 DEF NewSubstitutor, workerVars, Types
  <2>2. \A x : Drawing(x)' = 0
    <3>1. \A x : {w \in Workers : x \in todo'[w]} = {}
      BY <2>1
    <3>2. QED  BY <3>1, FS_EmptySet DEF Drawing
  <2>3. CASE UNCHANGED <<gen, counter>>
    BY <1>1, <2>1, <2>3
  <2>4. CASE \A x \in DOMAIN gen' : counter'[x] = 0
    BY <2>2, <2>4 DEF InStep
  <2>5. QED  BY <1>2, <2>3, <2>4 DEF NewSubstitutor
<1>3. ASSUME NEW w \in Workers, Admit(w) PROVE InStep'
  <2>1. /\ todo' = [todo EXCEPT ![w] = DOMAIN gen] /\ todo[w] = {}
        /\ gen' = gen /\ counter' = counter
    BY <1>3 DEF Admit, Types, setupVars
  <2>2. \A x \in DOMAIN gen : Drawing(x) \in Nat /\ Drawing(x)' = Drawing(x) + 1
    BY <2>1, DrawingStep
  <2>3. QED  BY <2>1, <2>2 DEF InStep, Types
<1>4. ASSUME NEW w \in Workers, Draw(w) PROVE InStep'
  <2>1. PICK x \in todo[w] : Advance(w, x) /\ todo' = [todo EXCEPT ![w] = @ \ {x}]
    BY <1>4 DEF Draw
  <2>2. gen' = gen /\ x \in DOMAIN gen
    BY <1>4 DEF Draw, Types, setupVars
  <2>3. \A y \in DOMAIN gen :
          /\ Drawing(y) \in Nat
          /\ Drawing(y)' = IF y = x THEN Drawing(y) - 1 ELSE Drawing(y)
    <3> SUFFICES ASSUME NEW y \in DOMAIN gen
                 PROVE  /\ Drawing(y) \in Nat
                        /\ Drawing(y)' = IF y = x THEN Drawing(y) - 1 ELSE Drawing(y)
      OBVIOUS
    <3>1. y \in todo[w] \ {x} <=> y \in todo[w] /\ y # x
      OBVIOUS
    <3>2. QED  BY <2>1, <3>1, DrawingStep
  <2>4. \A y \in DOMAIN gen : Sequential(gen[y]) =>
          counter[y] \in Nat /\ counter'[y] = IF y = x THEN counter[y] + 1 ELSE counter[y]
    BY <2>1 DEF Advance, Types
  <2>5. \A y \in DOMAIN gen : Sequential(gen[y]) =>
          counter'[y] + Drawing(y)' = counter[y] + Drawing(y)
    BY <2>3, <2>4
  <2>6. QED  BY <2>2, <2>5 DEF InStep
<1>5. QED
  BY <1>1, <1>2, <1>3, <1>4
  DEF Next, Work, Terminated, Choose, Book, Stop, Prepare, Return, Tick, Cancel,
      vars, setupVars, workerVars

\* Every request takes one value of every sequence, whatever the workers do at
\* the same time: sequences differ by the requests that are drawing, no more.
THEOREM SequencesInStep == Spec => []LockStep
<1>1. Init => Types /\ InStep
  BY TypesInit, InStepInit
<1>2. Types /\ InStep /\ [Next]_vars => Types' /\ InStep'
  BY TypesNext, InStepNext
<1>3. InStep => LockStep
  BY DEF InStep, LockStep
<1>4. QED  BY <1>1, <1>2, <1>3, PTL DEF Spec

-----------------------------------------------------------------------------
(* The limiters keep the rates *)

\* Who waits for a token of target i that falls due after t, and by t.
After(i, t) == {w \in Waiting(i) : slot[w] > t}
By(i, t)    == {w \in Waiting(i) : slot[w] <= t}

\* All tokens of target i that were handed out fit into the time up to the
\* next free one; those of them that fall due by now into the time till now;
\* and as long as nobody has given up its place, each period up to the next
\* free token has its waiting worker.
RateInv(i) ==
    /\ Period(i) * (begun[i] + Cardinality(Waiting(i))) <= next[i]
    /\ Period(i) * (begun[i] + Cardinality(By(i, now))) <= now + Period(i)
    /\ ~done => \A t \in Nat : t >= now =>
         next[i] <= t + Period(i) * (Cardinality(After(i, t)) + 1)

\* Who waits for a target has its turn by t or after it; the counts add up.
LEMMA Counts ==
    ASSUME NEW i \in Targets, NEW t \in Nat, Types
    PROVE  /\ Cardinality(Waiting(i)) \in Nat
           /\ Cardinality(By(i, t)) \in Nat /\ Cardinality(After(i, t)) \in Nat
           /\ Cardinality(By(i, t)) <= Cardinality(Waiting(i))
           /\ Cardinality(Waiting(i)) = Cardinality(By(i, t)) + Cardinality(After(i, t))
<1>1. /\ By(i, t) \subseteq Waiting(i) /\ Waiting(i) \subseteq Workers
      /\ After(i, t) \subseteq Waiting(i)
      /\ By(i, t) \cap After(i, t) = {} /\ By(i, t) \cup After(i, t) = Waiting(i)
  BY DEF By, After, Waiting, Types
<1>2. IsFiniteSet(Waiting(i)) /\ IsFiniteSet(By(i, t)) /\ IsFiniteSet(After(i, t))
  BY <1>1, Constants, FS_Subset
<1>3. Cardinality({}) = 0
  BY FS_EmptySet
<1>4. Cardinality(Waiting(i)) = Cardinality(By(i, t)) + Cardinality(After(i, t)) - 0
  BY <1>1, <1>2, <1>3, FS_Union
<1>5. QED  BY <1>1, <1>2, <1>4, FS_Subset, FS_CardinalityType

\* Worker w waits for target i.
At(w, i) == pc[w] = "wait" /\ target[w] = i

\* Only worker w moves.
OnlyMoves(w) ==
    \A u \in Workers \ {w} :
      pc'[u] = pc[u] /\ target'[u] = target[u] /\ slot'[u] = slot[u]

\* What its move means for the numbers of waiting workers.
LEMMA MoveWaiting ==
    ASSUME Types, Types', NEW w \in Workers, NEW i \in Targets, NEW t \in Nat,
           OnlyMoves(w)
    PROVE  /\ (~At(w, i) /\ ~At(w, i)') =>
                /\ Cardinality(Waiting(i)') = Cardinality(Waiting(i))
                /\ Cardinality({u \in Waiting(i)' : slot'[u] > t}) = Cardinality(After(i, t))
                /\ Cardinality({u \in Waiting(i)' : slot'[u] <= t}) = Cardinality(By(i, t))
           /\ (~At(w, i) /\ At(w, i)') =>
                /\ Cardinality(Waiting(i)') = Cardinality(Waiting(i)) + 1
                /\ Cardinality({u \in Waiting(i)' : slot'[u] > t})
                     = Cardinality(After(i, t)) + (IF slot'[w] > t THEN 1 ELSE 0)
                /\ Cardinality({u \in Waiting(i)' : slot'[u] <= t})
                     = Cardinality(By(i, t)) + (IF slot'[w] > t THEN 0 ELSE 1)
           /\ (At(w, i) /\ ~At(w, i)') =>
                /\ Cardinality(Waiting(i)') = Cardinality(Waiting(i)) - 1
                /\ Cardinality({u \in Waiting(i)' : slot'[u] > t})
                     = Cardinality(After(i, t)) - (IF slot[w] > t THEN 1 ELSE 0)
                /\ Cardinality({u \in Waiting(i)' : slot'[u] <= t})
                     = Cardinality(By(i, t)) - (IF slot[w] > t THEN 0 ELSE 1)
<1> DEFINE A == {u \in Waiting(i)' : slot'[u] > t}
           B == {u \in Waiting(i)' : slot'[u] <= t}
<1>1. /\ Waiting(i)' \ {w} = Waiting(i) \ {w}
      /\ A \ {w} = After(i, t) \ {w} /\ B \ {w} = By(i, t) \ {w}
  BY DEF OnlyMoves, Waiting, After, By
<1>2. /\ w \in Waiting(i)' <=> At(w, i)'
      /\ w \in Waiting(i) <=> At(w, i)
      /\ w \in A <=> At(w, i)' /\ slot'[w] > t
      /\ w \in B <=> At(w, i)' /\ ~(slot'[w] > t)
      /\ w \in After(i, t) <=> At(w, i) /\ slot[w] > t
      /\ w \in By(i, t) <=> At(w, i) /\ ~(slot[w] > t)
  BY DEF Waiting, After, By, At, Types
<1>3. /\ Waiting(i)' \in SUBSET Workers /\ Waiting(i) \in SUBSET Workers
      /\ A \in SUBSET Workers /\ B \in SUBSET Workers
      /\ After(i, t) \in SUBSET Workers /\ By(i, t) \in SUBSET Workers
  BY DEF Waiting, After, By
<1>4. ASSUME NEW S \in SUBSET Workers, NEW T \in SUBSET Workers, T \ {w} = S \ {w}
      PROVE  /\ (w \in S <=> w \in T) => Cardinality(T) = Cardinality(S)
             /\ w \notin S /\ w \in T => Cardinality(T) = Cardinality(S) + 1
             /\ w \in S /\ w \notin T => Cardinality(T) = Cardinality(S) - 1
  <2>1. /\ (w \in S <=> w \in T) => T = S
        /\ w \notin S /\ w \in T => T = S \cup {w}
        /\ w \in S /\ w \notin T => T = S \ {w}
    BY <1>4
  <2>2. QED  BY <2>1, Sizes
<1>5. /\ Cardinality(Waiting(i)) \in Nat /\ Cardinality(After(i, t)) \in Nat
      /\ Cardinality(By(i, t)) \in Nat
  BY Counts
<1> DEFINE W == Waiting(i)'
<1>6. W \ {w} = Waiting(i) \ {w} /\ W \in SUBSET Workers /\ (w \in W <=> At(w, i)')
  BY <1>1, <1>2, <1>3
<1> HIDE DEF A, B, W
<1>7. /\ (w \in Waiting(i) <=> w \in W) => Cardinality(W) = Cardinality(Waiting(i))
      /\ w \notin Waiting(i) /\ w \in W => Cardinality(W) = Cardinality(Waiting(i)) + 1
      /\ w \in Waiting(i) /\ w \notin W => Cardinality(W) = Cardinality(Waiting(i)) - 1
  BY <1>3, <1>4, <1>6
<1>8. /\ (w \in After(i, t) <=> w \in A) => Cardinality(A) = Cardinality(After(i, t))
      /\ w \notin After(i, t) /\ w \in A => Cardinality(A) = Cardinality(After(i, t)) + 1
      /\ w \in After(i, t) /\ w \notin A => Cardinality(A) = Cardinality(After(i, t)) - 1
  BY <1>1, <1>3, <1>4
<1>9. /\ (w \in By(i, t) <=> w \in B) => Cardinality(B) = Cardinality(By(i, t))
      /\ w \notin By(i, t) /\ w \in B => Cardinality(B) = Cardinality(By(i, t)) + 1
      /\ w \in By(i, t) /\ w \notin B => Cardinality(B) = Cardinality(By(i, t)) - 1
  BY <1>1, <1>3, <1>4
<1>10. /\ (~At(w, i) /\ ~At(w, i)') =>
            Cardinality(W) = Cardinality(Waiting(i)) /\ Cardinality(A) = Cardinality(After(i, t))
            /\ Cardinality(B) = Cardinality(By(i, t))
       /\ (~At(w, i) /\ At(w, i)') =>
            /\ Cardinality(W) = Cardinality(Waiting(i)) + 1
            /\ Cardinality(A) = Cardinality(After(i, t)) + (IF slot'[w] > t THEN 1 ELSE 0)
            /\ Cardinality(B) = Cardinality(By(i, t)) + (IF slot'[w] > t THEN 0 ELSE 1)
       /\ (At(w, i) /\ ~At(w, i)') =>
            /\ Cardinality(W) = Cardinality(Waiting(i)) - 1
            /\ Cardinality(A) = Cardinality(After(i, t)) - (IF slot[w] > t THEN 1 ELSE 0)
            /\ Cardinality(B) = Cardinality(By(i, t)) - (IF slot[w] > t THEN 0 ELSE 1)
  BY <1>2, <1>5, <1>6, <1>7, <1>8, <1>9
<1>11. QED  BY <1>10 DEF A, B, W

\* A move of one worker, while the time stands still: it keeps its place,
\* books a token, takes its token, or gives up after the end.
LEMMA RateMove ==
    ASSUME Types, Types', NEW i \in Targets, RateInv(i), NEW w \in Workers,
           OnlyMoves(w), now' = now, done' = done,
           \/ ~At(w, i) /\ ~At(w, i)' /\ next'[i] = next[i] /\ begun'[i] = begun[i]
           \/ /\ ~At(w, i) /\ At(w, i)' /\ slot'[w] = Due(i)
              /\ next'[i] = Due(i) + Period(i) /\ begun'[i] = begun[i]
           \/ /\ At(w, i) /\ ~At(w, i)' /\ slot[w] <= now
              /\ next'[i] = next[i] /\ begun'[i] = begun[i] + 1
           \/ /\ At(w, i) /\ ~At(w, i)' /\ done
              /\ next'[i] = next[i] /\ begun'[i] = begun[i]
    PROVE  RateInv(i)'
<1> DEFINE P  == Period(i)
           v  == Cardinality(Waiting(i))
           y  == Cardinality(By(i, now))
           v2 == Cardinality(Waiting(i)')
           y2 == Cardinality({u \in Waiting(i)' : slot'[u] <= now})
           a(t)  == Cardinality(After(i, t))
           a2(t) == Cardinality({u \in Waiting(i)' : slot'[u] > t})
           b2 == begun'[i]
           n2 == next'[i]
           s2 == slot'[w]
           c1 == At(w, i)
           c2 == At(w, i)'
<1>1. /\ P \in Nat \ {0} /\ begun[i] \in Nat /\ b2 \in Nat /\ next[i] \in Nat
      /\ n2 \in Nat /\ now \in Nat /\ s2 \in Nat /\ slot[w] \in Nat
  BY Constants DEF Types
<1>2. /\ Due(i) \in Nat /\ Due(i) >= now /\ Due(i) >= next[i]
      /\ Due(i) \in {now, next[i]}
  BY DueType
<1>3. v \in Nat /\ y \in Nat /\ y <= v /\ \A t \in Nat : a(t) \in Nat
  BY <1>1, Counts
<1>4. v2 \in Nat /\ y2 \in Nat /\ y2 <= v2 /\ \A t \in Nat : a2(t) \in Nat
  <2>1. Waiting(i)' \in SUBSET Workers
    BY DEF Waiting
  <2>2. {u \in Waiting(i)' : slot'[u] <= now} \subseteq Waiting(i)'
    OBVIOUS
  <2>3. \A t \in Nat : {u \in Waiting(i)' : slot'[u] > t} \in SUBSET Workers
    BY <2>1
  <2>4. QED  BY <2>1, <2>2, <2>3, Sizes
<1>5. /\ P * (begun[i] + v) <= next[i] /\ P * (begun[i] + y) <= now + P
      /\ ~done => \A t \in Nat : t >= now => next[i] <= t + P * (a(t) + 1)
  BY DEF RateInv
<1>6. /\ ~c1 /\ ~c2 => v2 = v /\ y2 = y
      /\ ~c1 /\ c2 => v2 = v + 1 /\ y2 = y + (IF s2 > now THEN 0 ELSE 1)
      /\ c1 /\ ~c2 => v2 = v - 1 /\ y2 = y - (IF slot[w] > now THEN 0 ELSE 1)
  BY <1>1, MoveWaiting
<1>7. \A t \in Nat :
        /\ ~c1 /\ ~c2 => a2(t) = a(t)
        /\ ~c1 /\ c2 => a2(t) = a(t) + (IF s2 > t THEN 1 ELSE 0)
        /\ c1 /\ ~c2 => a2(t) = a(t) - (IF slot[w] > t THEN 1 ELSE 0)
  BY MoveWaiting
<1>8. /\ RateInv(i)' <=>
            /\ P * (b2 + v2) <= n2 /\ P * (b2 + y2) <= now + P
            /\ ~done => \A t \in Nat : t >= now => n2 <= t + P * (a2(t) + 1)
  BY DEF RateInv, By, After
<1>9. \/ ~c1 /\ ~c2 /\ n2 = next[i] /\ b2 = begun[i]
      \/ ~c1 /\ c2 /\ s2 = Due(i) /\ n2 = Due(i) + P /\ b2 = begun[i]
      \/ c1 /\ ~c2 /\ slot[w] <= now /\ n2 = next[i] /\ b2 = begun[i] + 1
      \/ c1 /\ ~c2 /\ done /\ n2 = next[i] /\ b2 = begun[i]
  OBVIOUS
<1> HIDE DEF P, v, y, v2, y2, a, a2, b2, n2, s2, c1, c2
<1>10. /\ b2 + v2 <= begun[i] + v /\ n2 >= next[i] => P * (b2 + v2) <= n2
       /\ b2 + y2 <= begun[i] + y => P * (b2 + y2) <= now + P
       /\ b2 = begun[i] /\ v2 = v + 1 /\ n2 >= next[i] + P => P * (b2 + v2) <= n2
       /\ b2 = begun[i] /\ v2 = v + 1 /\ next[i] <= now => P * (b2 + y2) <= now + P
  <2> DEFINE b == begun[i]
  <2>0. b \in Nat /\ P * (b + v) <= next[i] /\ P * (b + y) <= now + P
    BY <1>1, <1>5
  <2> HIDE DEF b
  <2>1. b2 + v2 <= b + v => P * (b2 + v2) <= P * (b + v)
    BY <1>1, <1>3, <1>4, <2>0, Products
  <2>2. b2 + y2 <= b + y => P * (b2 + y2) <= P * (b + y)
    BY <1>1, <1>3, <1>4, <2>0, Products
  <2>3. b2 = b /\ v2 = v + 1 => P * (b2 + v2) = P * (b + v) + P
    <3>1. b2 = b /\ v2 = v + 1 => b2 + v2 = (b + v) + 1
      BY <1>1, <1>3, <2>0
    <3>2. P * ((b + v) + 1) = P * (b + v) + P
      BY <1>1, <1>3, <2>0, Products
    <3>3. QED  BY <3>1, <3>2
  <2>4. P * (b2 + y2) <= P * (b2 + v2)
    BY <1>1, <1>4, Products
  <2>5. /\ P * (b2 + v2) \in Int /\ P * (b + v) \in Int /\ P * (b2 + y2) \in Int
        /\ P * (b + y) \in Int
    BY <1>1, <1>3, <1>4, <2>0, Products
  <2>6. /\ b2 + v2 <= b + v /\ n2 >= next[i] => P * (b2 + v2) <= n2
        /\ b2 + y2 <= b + y => P * (b2 + y2) <= now + P
        /\ b2 = b /\ v2 = v + 1 /\ n2 >= next[i] + P => P * (b2 + v2) <= n2
        /\ b2 = b /\ v2 = v + 1 /\ next[i] <= now => P * (b2 + y2) <= now + P
    BY <1>1, <2>0, <2>1, <2>2, <2>3, <2>4, <2>5
  <2>7. QED  BY <2>6 DEF b
<1>11. P * (b2 + v2) <= n2 /\ P * (b2 + y2) <= now + P
  <2>1. CASE ~c1 /\ ~c2 /\ n2 = next[i] /\ b2 = begun[i]
    <3>1. v2 = v /\ y2 = y
      BY <1>6, <2>1
    <3>2. QED  BY <1>1, <1>3, <1>10, <2>1, <3>1
  <2>2. CASE ~c1 /\ c2 /\ s2 = Due(i) /\ n2 = Due(i) + P /\ b2 = begun[i]
    <3>1. v2 = v + 1 /\ y2 = y + (IF s2 > now THEN 0 ELSE 1)
      BY <1>6, <2>2
    <3>2. n2 >= next[i] + P
      BY <1>1, <1>2, <2>2
    <3>3. CASE s2 > now
      BY <1>1, <1>3, <1>10, <2>2, <3>1, <3>2, <3>3
    <3>4. CASE ~(s2 > now)
      <4>1. next[i] <= now
        BY <1>1, <1>2, <2>2, <3>4
      <4>2. QED  BY <1>10, <2>2, <3>1, <3>2, <4>1
    <3>5. QED  BY <3>3, <3>4
  <2>3. CASE c1 /\ ~c2 /\ slot[w] <= now /\ n2 = next[i] /\ b2 = begun[i] + 1
    <3>1. v2 = v - 1 /\ y2 = y - 1
      <4>1. ~(slot[w] > now)
        BY <1>1, <2>3
      <4>2. QED  BY <1>6, <2>3, <4>1
    <3>2. b2 + v2 <= begun[i] + v /\ b2 + y2 <= begun[i] + y /\ n2 >= next[i]
      BY <1>1, <1>3, <2>3, <3>1
    <3>3. QED  BY <1>10, <3>2
  <2>4. CASE c1 /\ ~c2 /\ done /\ n2 = next[i] /\ b2 = begun[i]
    <3>1. v2 <= v /\ y2 <= y
      BY <1>3, <1>6, <2>4
    <3>2. b2 + v2 <= begun[i] + v /\ b2 + y2 <= begun[i] + y /\ n2 >= next[i]
      BY <1>1, <1>3, <1>4, <2>4, <3>1
    <3>3. QED  BY <1>10, <3>2
  <2>5. QED  BY <1>9, <2>1, <2>2, <2>3, <2>4
<1>12. ASSUME ~done, NEW t \in Nat, t >= now
       PROVE  n2 <= t + P * (a2(t) + 1)
  <2>1. /\ a(t) \in Nat /\ a2(t) \in Nat /\ next[i] <= t + P * (a(t) + 1)
    BY <1>3, <1>4, <1>5, <1>12
  <2>2. CASE n2 = next[i]
    <3>1. a2(t) = a(t)
      BY <1>1, <1>2, <1>7, <1>9, <1>12, <2>1, <2>2
    <3>2. QED  BY <2>1, <2>2, <3>1
  <2>3. CASE ~c1 /\ c2 /\ s2 = Due(i) /\ n2 = Due(i) + P
    <3>1. a2(t) = a(t) + (IF s2 > t THEN 1 ELSE 0)
      BY <1>7, <2>3
    <3>2. /\ P * (a2(t) + 1) = P * a2(t) + P /\ P * (a(t) + 1) = P * a(t) + P
          /\ P * a2(t) \in Int /\ P * a(t) \in Int /\ P * a2(t) >= 0
      <4>1. P * 0 = 0 /\ P * 0 <= P * a2(t)
        BY <1>1, <2>1, Products
      <4>2. QED  BY <4>1, <1>1, <2>1, Products
    <3>3. CASE s2 > t
      <4>1. P * a2(t) = P * (a(t) + 1)
        BY <3>1, <3>3
      <4>2. Due(i) = next[i]
        BY <1>1, <1>2, <1>12, <2>3, <3>3
      <4>3. QED  BY <1>1, <2>1, <2>3, <3>2, <4>1, <4>2
    <3>4. CASE ~(s2 > t)
      BY <1>1, <1>2, <2>1, <2>3, <3>2, <3>4
    <3>5. QED  BY <3>3, <3>4
  <2>4. QED  BY <1>9, <1>12, <2>2, <2>3
<1>13. QED
  <2>1. /\ P * (b2 + v2) <= n2 /\ P * (b2 + y2) <= now + P
        /\ ~done => \A t \in Nat : t >= now => n2 <= t + P * (a2(t) + 1)
    BY <1>11, <1>12
  <2>2. QED  BY <1>8, <2>1

RatesInv == \A i \in Targets : RateInv(i)

\* Nothing is booked at first ...
LEMMA RateInit == Init => RatesInv
<1> SUFFICES ASSUME Init, NEW i \in Targets PROVE RateInv(i)
  BY DEF RatesInv
<1>1. /\ begun[i] = 0 /\ next[i] = 0 /\ now = 0 /\ Period(i) \in Nat \ {0}
      /\ Period(i) * 0 = 0
  BY Constants DEF Init
<1>2. Types
  BY TypesInit
<1>3. Waiting(i) = {} /\ By(i, now) = {}
  BY DEF Init, Waiting, By
<1>4. Cardinality(Waiting(i)) = 0 /\ Cardinality(By(i, now)) = 0
  BY <1>3, FS_EmptySet
<1>5. ASSUME NEW t \in Nat PROVE next[i] <= t + Period(i) * (Cardinality(After(i, t)) + 1)
  <2> DEFINE a == Cardinality(After(i, t))
  <2>1. a \in Nat
    BY <1>2, Counts
  <2> HIDE DEF a
  <2>2. Period(i) * 0 <= Period(i) * (a + 1)
    BY <1>1, <2>1, Products
  <2>3. Period(i) * (a + 1) \in Int
    BY <1>1, <2>1
  <2>4. QED  BY <1>1, <2>2, <2>3 DEF a
<1>6. QED  BY <1>1, <1>4, <1>5 DEF RateInv

\* Time goes on: whoever waits by then has a period of its own before now, or
\* the tokens up to then are among those up to the next free one.
LEMMA RateTick ==
    ASSUME Types, Types', NEW i \in Targets, RateInv(i), Tick
    PROVE  RateInv(i)'
<1> DEFINE P == Period(i)
           v == Cardinality(Waiting(i))
           y == Cardinality(By(i, now + 1))
           z == Cardinality(After(i, now + 1))
           b == begun[i]
<1>1. /\ P \in Nat \ {0} /\ b \in Nat /\ next[i] \in Nat /\ now \in Nat
  BY Constants DEF Types
<1>2. v \in Nat /\ y \in Nat /\ z \in Nat /\ v = y + z
  BY <1>1, Counts
<1>3. /\ ~done /\ now' = now + 1
      /\ UNCHANGED <<pc, target, slot, next, begun>>
  BY DEF Tick, workerVars
<1>4. /\ P * (b + v) <= next[i]
      /\ \A t \in Nat : t >= now => next[i] <= t + P * (Cardinality(After(i, t)) + 1)
  BY <1>3 DEF RateInv
<1>5. next[i] <= now + 1 + P * (z + 1)
  BY <1>1, <1>4
<1>6. Waiting(i)' = Waiting(i) /\ By(i, now)' = By(i, now + 1)
  BY <1>3 DEF Waiting, By
<1>7. \A t : After(i, t)' = After(i, t)
  BY <1>3 DEF Waiting, After
<1>8. /\ Cardinality(Waiting(i))' = v /\ Cardinality(By(i, now))' = y
      /\ \A t : Cardinality(After(i, t))' = Cardinality(After(i, t))
  BY <1>6, <1>7
<1> HIDE DEF P, v, y, z, b
<1>9. P * (b + y) <= now + 1 + P
  <2>1. b + v = (b + y) + z /\ P * ((b + y) + z) = P * (b + y) + P * z
    BY <1>1, <1>2, Products
  <2>2. P * (z + 1) = P * z + P
    BY <1>1, <1>2, Products
  <2>3. P * z \in Int /\ P * (b + y) \in Int
    BY <1>1, <1>2, Products
  <2>4. P * (b + y) + P * z <= now + 1 + P * z + P
    BY <1>1, <1>4, <1>5, <2>1, <2>2, <2>3
  <2>5. QED  BY <1>1, <2>3, <2>4
<1>10. ASSUME NEW t \in Nat, t >= now + 1
       PROVE  next[i] <= t + P * (Cardinality(After(i, t)) + 1)
  BY <1>1, <1>4, <1>10
<1>11. QED
  BY <1>3, <1>4, <1>8, <1>9, <1>10 DEF RateInv, P, v, y, b

\* ... and each step keeps the account of tokens.
LEMMA RateNext == Types /\ Types' /\ RatesInv /\ [Next]_vars => RatesInv'
<1> SUFFICES ASSUME Types, Types', RatesInv, [Next]_vars, NEW i \in Targets
             PROVE  RateInv(i)'
  BY DEF RatesInv
<1>0. RateInv(i)
  BY DEF RatesInv
<1>1. ASSUME UNCHANGED <<pc, target, slot, next, begun, now>>, done => done'
      PROVE  RateInv(i)'
  <2>1. /\ Waiting(i)' = Waiting(i) /\ By(i, now)' = By(i, now)
        /\ \A t : After(i, t)' = After(i, t)
    BY <1>1 DEF Waiting, By, After
  <2>2. QED  BY <1>0, <1>1, <2>1 DEF RateInv
<1>2. ASSUME NEW w \in Workers, Choose(w) PROVE RateInv(i)'
  <2>1. PICK j \in Targets : Book(w, j)
    BY <1>2 DEF Choose
  <2>2. /\ pc[w] = "top" /\ ~At(w, i) /\ OnlyMoves(w)
        /\ now' = now /\ done' = done /\ begun' = begun
    BY <1>2, <2>1 DEF Choose, Book, Goes, OnlyMoves, At, Types, clockVars
  <2>3. CASE pc'[w] = "left"
    <3>1. ~At(w, i)' /\ next'[i] = next[i]
      BY <1>2, <2>1, <2>3 DEF Choose, Book, Goes, At, Types
    <3>2. QED  BY <1>0, <2>2, <3>1, RateMove
  <2>4. CASE pc'[w] # "left"
    <3>1. /\ pc'[w] = "wait" /\ target'[w] = j /\ slot'[w] = Due(j)
          /\ next' = [next EXCEPT ![j] = Due(j) + Period(j)]
      BY <1>2, <2>1, <2>4 DEF Choose, Book, Goes, Types
    <3>2. CASE i = j
      <4>1. At(w, i)' /\ slot'[w] = Due(i) /\ next'[i] = Due(i) + Period(i)
        BY <3>1, <3>2 DEF At, Types
      <4>2. QED  BY <1>0, <2>2, <4>1, RateMove
    <3>3. CASE i # j
      <4>1. ~At(w, i)' /\ next'[i] = next[i]
        BY <3>1, <3>3 DEF At, Types
      <4>2. QED  BY <1>0, <2>2, <4>1, RateMove
    <3>4. QED  BY <3>2, <3>3
  <2>5. QED  BY <2>3, <2>4
<1>3. ASSUME NEW w \in Workers, Stop(w) PROVE RateInv(i)'
  <2>1. /\ OnlyMoves(w) /\ ~At(w, i)' /\ (At(w, i) => done)
        /\ now' = now /\ done' = done /\ begun' = begun /\ next' = next
    BY <1>3 DEF Stop, Goes, OnlyMoves, At, Types, clockVars
  <2>2. QED  BY <1>0, <2>1, RateMove
<1>4. ASSUME NEW w \in Workers, Admit(w) PROVE RateInv(i)'
  <2>1. /\ OnlyMoves(w) /\ ~At(w, i)' /\ slot[w] <= now /\ pc[w] = "wait"
        /\ now' = now /\ done' = done /\ next' = next
        /\ begun' = [begun EXCEPT ![target[w]] = @ + 1]
    BY <1>4 DEF Admit, Goes, OnlyMoves, At, Types, clockVars
  <2>2. CASE At(w, i)
    <3>1. begun'[i] = begun[i] + 1
      BY <2>1, <2>2 DEF At, Types
    <3>2. QED  BY <1>0, <2>1, <2>2, <3>1, RateMove
  <2>3. CASE ~At(w, i)
    <3>1. begun'[i] = begun[i]
      BY <2>1, <2>3 DEF At, Types
    <3>2. QED  BY <1>0, <2>1, <2>3, <3>1, RateMove
  <2>4. QED  BY <2>2, <2>3
<1>5. ASSUME NEW w \in Workers, Prepare(w) \/ Return(w) PROVE RateInv(i)'
  <2>1. /\ OnlyMoves(w) /\ ~At(w, i) /\ ~At(w, i)'
        /\ now' = now /\ done' = done /\ begun' = begun /\ next' = next
    BY <1>5 DEF Prepare, Return, Goes, OnlyMoves, At, Types, clockVars
  <2>2. QED  BY <1>0, <2>1, RateMove
<1>6. CASE Tick
  BY <1>0, <1>6, RateTick
<1>7. QED
  BY <1>1, <1>2, <1>3, <1>4, <1>5, <1>6
  DEF Next, Work, Terminated, NewSubstitutor, Draw, Cancel, vars, workerVars, clockVars

\* A count whose tokens are due by now is at most one more than the periods passed.
LEMMA Quotients ==
    ASSUME NEW p \in Nat \ {0}, NEW b \in Nat, NEW n \in Nat, p * b <= n + p
    PROVE  b <= n \div p + 1
<1>1. p \in Nat /\ p > 0
  OBVIOUS
<1>2. n < p * (n \div p + 1) /\ n \div p \in Int
  BY <1>1, Z3
<1> DEFINE q == n \div p
<1> HIDE DEF q
<1>3. q \in Int /\ n < p * (q + 1)
  BY <1>2 DEF q
<1>4. ASSUME b > q + 1 PROVE FALSE
  <2>1. p * (q + 2) <= p * b
    BY <1>3, <1>4, Products
  <2>2. p * (q + 2) = p * (q + 1) + p /\ p * (q + 1) \in Int
    BY <1>3, Products
  <2>3. QED  BY <1>3, <2>1, <2>2
<1>5. QED  BY <1>3, <1>4 DEF q

\* The account implies the rate.
LEMMA RateHolds == Types /\ RatesInv => RateKept
<1> SUFFICES ASSUME Types, RatesInv, NEW i \in Targets
             PROVE  begun[i] <= now \div Period(i) + 1
  BY DEF RateKept
<1> DEFINE y == Cardinality(By(i, now))
<1>1. /\ begun[i] \in Nat /\ now \in Nat /\ y \in Nat /\ Period(i) \in Nat \ {0}
  BY Constants, Counts DEF Types
<1>2. Period(i) * (begun[i] + y) <= now + Period(i)
  BY DEF RatesInv, RateInv
<1> HIDE DEF y
<1>3. Period(i) * begun[i] <= Period(i) * (begun[i] + y)
  BY <1>1, Products
<1>4. Period(i) * begun[i] <= now + Period(i)
  BY <1>1, <1>2, <1>3
<1>5. QED  BY <1>1, <1>4, Quotients

\* Whatever the rates, the number of workers, the order of their steps and the
\* bookings they give up, no target gets more than one request per period and
\* the one of the start.
THEOREM RatesKept == Spec => []RateKept
<1>1. Init => Types /\ RatesInv
  BY TypesInit, RateInit
<1>2. Types /\ RatesInv /\ [Next]_vars => Types' /\ RatesInv'
  BY TypesNext, RateNext
<1>3. Types /\ RatesInv => RateKept
  BY RateHolds
<1>4. QED  BY <1>1, <1>2, <1>3, PTL DEF Spec

-----------------------------------------------------------------------------
(* Who leaves *)

Clock == now <= Duration /\ (~done => now < Duration)

\* The context is done by the deadline.
LEMMA ClockNext == Types /\ Clock /\ [Next]_vars => Clock'
<1> SUFFICES ASSUME Types, Clock, [Next]_vars PROVE Clock'
  OBVIOUS
<1>1. CASE Tick
  <2>1. now < Duration /\ now' = now + 1 /\ (~done' => now + 1 # Duration)
    BY <1>1 DEF Tick, Clock
  <2>2. now \in Nat /\ Duration \in Nat
    BY Constants DEF Types
  <2>3. now + 1 <= Duration /\ (now + 1 # Duration => now + 1 < Duration)
    BY <2>1, <2>2
  <2>4. QED  BY <2>1, <2>3 DEF Clock
<1>2. CASE Cancel
  BY <1>2 DEF Cancel, Clock
<1>3. CASE UNCHANGED clockVars
  BY <1>3 DEF clockVars, Clock
<1>4. QED
  BY <1>1, <1>2, <1>3
  DEF Next, Work, Terminated, NewSubstitutor, Choose, Stop, Admit, Draw, Prepare,
      Return, vars

\* A worker that gives up has been refused a token.
LEMMA LeavesStep ==
    Types /\ RatesInv /\ Clock /\ [Next]_vars =>
      \A w \in Workers : pc[w] # "left" /\ pc'[w] = "left" =>
        \E i \in Targets :
          Duration - now < Period(i) * (Cardinality(Waiting(i)) + 1)
<1> SUFFICES ASSUME Types, RatesInv, Clock, [Next]_vars, NEW w \in Workers,
                    pc[w] # "left", pc'[w] = "left"
             PROVE  \E i \in Targets :
                      Duration - now < Period(i) * (Cardinality(Waiting(i)) + 1)
  OBVIOUS
<1>1. Choose(w)
  <2>1. PICK u \in Workers : pc' # pc /\ Work(u)
    BY DEF Next, Terminated, NewSubstitutor, Tick, Cancel, vars, workerVars
  <2>2. \A u2 \in Workers \ {u} : pc'[u2] = pc[u2]
    BY <2>1 DEF Work, Choose, Book, Stop, Admit, Draw, Prepare, Return, Goes, Types
  <2>3. QED
    BY <2>1, <2>2 DEF Work, Stop, Admit, Draw, Prepare, Return, Goes, Types
<1>2. PICK i \in Targets : Book(w, i)
  BY <1>1 DEF Choose
<1>3. ~done /\ Due(i) > Duration
  BY <1>1, <1>2 DEF Choose, Book, Goes, Types
<1> DEFINE v == Cardinality(Waiting(i))
           a == Cardinality(After(i, now))
<1>4. /\ Period(i) \in Nat \ {0} /\ next[i] \in Nat /\ now \in Nat /\ Duration \in Nat
  BY Constants DEF Types
<1>5. v \in Nat /\ a \in Nat /\ a <= v
  BY <1>4, Counts
<1>6. next[i] <= now + Period(i) * (a + 1)
  BY <1>3, <1>4 DEF RatesInv, RateInv
<1>7. next[i] > Duration
  BY <1>3, <1>4, DueType DEF Clock
<1> HIDE DEF v, a
<1>8. Period(i) * (a + 1) <= Period(i) * (v + 1)
  BY <1>4, <1>5, Products
<1>9. Duration - now < Period(i) * (v + 1)
  <2>1. Period(i) * (a + 1) \in Int /\ Period(i) * (v + 1) \in Int
    BY <1>4, <1>5
  <2>2. QED  BY <1>4, <1>6, <1>7, <1>8, <2>1
<1>10. QED  BY <1>9 DEF v

\* A worker that gives up before testCtx is done does so because the tokens up
\* to the deadline are booked by workers that still wait for theirs, but for
\* the last period: no booking is lost.
THEOREM WorkersLeaveLate == Spec => LeavesLate
<1>1. Init => Types /\ RatesInv /\ Clock
  <2>1. Init => Clock
    BY RequestsAssumption DEF Init, Clock
  <2>2. QED  BY <2>1, TypesInit, RateInit
<1>2. Types /\ RatesInv /\ Clock /\ [Next]_vars => Types' /\ RatesInv' /\ Clock'
  BY TypesNext, RateNext, ClockNext
<1>3. Types /\ RatesInv /\ Clock /\ [Next]_vars =>
        [\A w \in Workers : pc[w] # "left" /\ pc'[w] = "left" =>
           \E i \in Targets :
             Duration - now < Period(i) * (Cardinality(Waiting(i)) + 1)]_vars
  BY LeavesStep
<1>4. QED  BY <1>1, <1>2, <1>3, PTL DEF Spec, LeavesLate

-----------------------------------------------------------------------------
(* Every variable has its type *)

\* What Types and Clock leave open.
Ranges ==
    /\ config \in Configurations \cup {Empty} /\ done \in BOOLEAN /\ calls \in Nat
    /\ slot \in [Workers -> 0 .. Duration]

\* No step leaves the ranges: a token that is booked is due by the deadline.
LEMMA RangesNext == Types /\ Ranges /\ [Next]_vars => Ranges'
<1> SUFFICES ASSUME Types, Ranges, [Next]_vars PROVE Ranges'
  OBVIOUS
<1>1. 0 \in 0 .. Duration
  BY Constants
<1> USE DEF Ranges
<1>2. ASSUME NEW c \in Configurations, NewSubstitutor(c) PROVE Ranges'
  BY <1>2 DEF NewSubstitutor, workerVars, clockVars
<1>3. ASSUME NEW w \in Workers, Choose(w) PROVE Ranges'
  <2>1. PICK i \in Targets : Book(w, i)
    BY <1>3 DEF Choose
  <2>2. Due(i) <= Duration => Due(i) \in 0 .. Duration
    BY DueType, Constants
  <2>3. Due(i) \in Nat /\ Duration \in Nat
    BY DueType, Constants
  <2>4. slot' \in [Workers -> 0 .. Duration]
    BY <2>1, <2>2, <2>3 DEF Book
  <2>5. QED  BY <1>3, <2>4 DEF Choose, setupVars, clockVars
<1>4. ASSUME NEW w \in Workers, Stop(w) \/ Admit(w) PROVE Ranges'
  BY <1>1, <1>4 DEF Stop, Admit, setupVars, clockVars
<1>5. ASSUME NEW w \in Workers, Draw(w) \/ Return(w) PROVE Ranges'
  BY <1>5 DEF Draw, Return, setupVars, clockVars
<1>6. ASSUME NEW w \in Workers, Prepare(w) PROVE Ranges'
  <2>1. calls' \in Nat
    BY <1>6 DEF Prepare, Hand
  <2>2. QED  BY <1>6, <2>1 DEF Prepare, setupVars, clockVars
<1>7. CASE Tick \/ Cancel
  BY <1>7 DEF Tick, Cancel, setupVars, workerVars
<1>8. CASE UNCHANGED vars
  BY <1>8 DEF vars, setupVars, workerVars, clockVars
<1>9. QED
  BY <1>2, <1>3, <1>4, <1>5, <1>6, <1>7, <1>8 DEF Next, Work, Terminated

\* Types hold for every configuration; in particular nobody waits for a token
\* that falls due after the deadline.
THEOREM RequestTypes == Spec => []TypeOK
<1>1. Init => Types /\ Clock /\ Ranges
  <2>1. Init => Clock /\ Ranges
    <3>1. Duration \in Nat /\ 0 < Duration /\ 0 \in 0 .. Duration
      BY RequestsAssumption
    <3>2. Init => Clock
      BY <3>1 DEF Init, Clock
    <3>3. Init => slot \in [Workers -> 0 .. Duration]
      BY <3>1 DEF Init
    <3>4. Init => config \in Configurations \cup {Empty}
      BY Zenon DEF Init
    <3>5. Init => done \in BOOLEAN
      BY Zenon DEF Init
    <3>6. Init => calls \in Nat
      <4>1. Init => calls = 0
        BY Zenon DEF Init
      <4>2. QED  BY <4>1
    <3>7. QED  BY <3>2, <3>3, <3>4, <3>5, <3>6 DEF Ranges
  <2>2. QED  BY <2>1, TypesInit
<1>2. Types /\ Clock /\ Ranges /\ [Next]_vars => Types' /\ Clock' /\ Ranges'
  BY TypesNext, ClockNext, RangesNext
<1>3. Types /\ Clock /\ Ranges => TypeOK
  <2> SUFFICES ASSUME Types, Clock, Ranges PROVE TypeOK
    OBVIOUS
  <2>1. now \in 0 .. Duration
    BY Constants DEF Types, Clock
  <2>2. QED  BY <2>1 DEF Types, Ranges, TypeOK, Points
<1>4. QED  BY <1>1, <1>2, <1>3, PTL DEF Spec

-----------------------------------------------------------------------------
(* Sequences repeat nothing within a round *)

\* Numbers less than p apart have different remainders by p.
LEMMA Remainders ==
    ASSUME NEW p \in Nat, p > 0, NEW a \in Nat, NEW b \in Nat, a < b, b - a < p
    PROVE  a % p # b % p
<1>1. PICK q, c \in Int : a = p * q + c /\ a % p = c
  BY Division
<1>2. PICK r, d \in Int : b = p * r + d /\ b % p = d
  BY Division
<1>3. ASSUME c = d PROVE FALSE
  <2>1. p * q \in Int /\ p * r \in Int /\ p * r - p * q = b - a
    BY <1>1, <1>2, <1>3
  <2>2. CASE r <= q
    <3>1. p * r <= p * q
      BY <2>2, Products
    <3>2. QED  BY <2>1, <3>1
  <2>3. CASE r >= q + 1
    <3>1. p * (q + 1) <= p * r /\ p * (q + 1) = p * q + p
      BY <2>3, Products
    <3>2. QED  BY <2>1, <3>1
  <2>4. QED  BY <2>2, <2>3
<1>4. QED  BY <1>1, <1>2, <1>3

\* Wrapped sums are ints, and differ if the sums are less than the word apart.
LEMMA Wraps ==
    /\ \A n \in Int : Wrap(n) \in Ints
    /\ \A m, n \in Int :
         MinInt <= m /\ m < n /\ n - m <= MaxInt => Wrap(m) # Wrap(n)
<1> DEFINE M == 2 * (MaxInt + 1)
<1>1. M \in Nat \ {0} /\ MaxInt \in Nat /\ MinInt \in Int /\ MaxInt < M
      /\ MinInt + M - 1 = MaxInt
  BY WidthAssumption DEF MinInt
<1>2. \A n : Wrap(n) = MinInt + ((n - MinInt) % M)
  BY DEF Wrap
<1> HIDE DEF M
<1>3. ASSUME NEW n \in Int PROVE (n - MinInt) % M \in 0 .. M - 1
  <2> DEFINE k == n - MinInt
  <2>1. k \in Int
    BY <1>1
  <2> HIDE DEF k
  <2>2. k % M \in 0 .. M - 1
    BY <1>1, <2>1
  <2>3. QED  BY <2>2 DEF k
<1>4. ASSUME NEW n \in Int PROVE Wrap(n) \in Ints
  <2> DEFINE k == (n - MinInt) % M
  <2>1. k \in 0 .. M - 1 /\ Wrap(n) = MinInt + k
    BY <1>2, <1>3
  <2> HIDE DEF k
  <2>2. QED  BY <1>1, <2>1 DEF Ints
<1>5. ASSUME NEW m \in Int, NEW n \in Int, MinInt <= m, m < n, n - m <= MaxInt
      PROVE  Wrap(m) # Wrap(n)
  <2> DEFINE j == m - MinInt
             k == n - MinInt
  <2>1. j \in Nat /\ k \in Nat /\ j < k /\ k - j < M
    BY <1>1, <1>5
  <2>2. Wrap(m) = MinInt + (j % M) /\ Wrap(n) = MinInt + (k % M)
        /\ j % M \in Int /\ k % M \in Int
    BY <1>2, <1>3
  <2> HIDE DEF j, k
  <2> DEFINE c == j % M
             d == k % M
  <2>3. c # d
    BY <1>1, <2>1, Remainders
  <2>4. Wrap(m) = MinInt + c /\ Wrap(n) = MinInt + d /\ c \in Int /\ d \in Int
    BY <2>2
  <2> HIDE DEF c, d
  <2>5. QED  BY <1>1, <2>3, <2>4
<1>6. QED  BY <1>4, <1>5

\* What a sequence consists of that a constructor has built.
Built(g) ==
    Sequential(g) =>
      \/ g.kind = "range" /\ g.min \in Ints /\ g.span \in Ints
      \/ /\ g.kind = "set" /\ Len(g.values) \in Nat
         /\ DOMAIN g.values = 1 .. Len(g.values)

\* What the constructors accept is usable.
LEMMA BuiltFromVariable == \A v : Typed(v) => Built(FromVariable(v))
<1> SUFFICES ASSUME NEW v, Typed(v) PROVE Built(FromVariable(v))
  OBVIOUS
<1>1. Built(Refused)
  BY DEF Built, Refused, Sequential
<1>2. CASE v.type = "int_range" /\ Usable(v, {"mode", "min", "max"})
  <2>1. v.min \in Ints /\ v.max \in Ints
    BY <1>2 DEF Typed, Usable
  <2>2. FromVariable(v) = NewIntRangeGenerator(v.min, v.max, v.mode)
    BY <1>2 DEF FromVariable
  <2>3. Wrap(Wrap(v.max - v.min) + 1) \in Ints
    <3>1. MinInt \in Int /\ MaxInt \in Int
      BY WidthAssumption DEF MinInt
    <3>2. v.max - v.min \in Int
      BY <2>1, <3>1 DEF Ints
    <3>3. Wrap(v.max - v.min) \in Ints
      BY <3>2, Wraps
    <3>4. Wrap(v.max - v.min) + 1 \in Int
      BY <3>1, <3>3 DEF Ints
    <3>5. QED  BY <3>4, Wraps
  <2>4. QED  BY <1>1, <2>1, <2>2, <2>3 DEF NewIntRangeGenerator, Built
<1>3. CASE v.type \in {"int_set", "string_set"} /\ Usable(v, {"mode", "values"})
  <2>1. Len(v.values) \in Nat /\ DOMAIN v.values = 1 .. Len(v.values)
    <3>1. PICK S : v.values \in Seq(S)
      BY <1>3 DEF Typed, Usable
    <3>2. QED  BY <3>1
  <2>2. FromVariable(v) = NewSetGenerator(v.values, v.mode)
    BY <1>3 DEF FromVariable
  <2>3. QED  BY <1>1, <2>1, <2>2 DEF NewSetGenerator, Built
<1>4. CASE FromVariable(v) \in {NewUUIDGenerator, NewTimestampGenerator(v.format), Refused}
  BY <1>4 DEF Built, Sequential, NewUUIDGenerator, NewTimestampGenerator, Refused
<1>5. QED  BY <1>2, <1>3, <1>4 DEF FromVariable

\* Calls of a sequence less than a round apart return different values.
LEMMA Apart ==
    ASSUME NEW g, Built(g), Sequential(g), Distinct(g),
           NEW a \in Nat, NEW b \in Nat, a < b, b - a < Length(g)
    PROVE  SeqNext(g, a) # SeqNext(g, b)
<1> DEFINE L == Length(g)
<1>1. CASE g.kind = "range"
  <2>1. g.min \in Int /\ MinInt <= g.min /\ L \in Nat /\ L <= MaxInt + 1
    BY <1>1, WidthAssumption DEF Built, Ints, MinInt, Length, AbsoluteValue
  <2>2. \A c : SeqNext(g, c) = IF L = 0 THEN Panic ELSE Wrap(g.min + Remainder(c, L))
    BY <1>1 DEF SeqNext, Position
  <2> HIDE DEF L
  <2>3. L > 0 /\ b - a < L
    BY <2>1 DEF L
  <2>4. \A c : Remainder(c, L) = c % L
    BY <2>1 DEF Remainder, AbsoluteValue
  <2> DEFINE c == a % L
             d == b % L
  <2>5. c # d
    BY <2>1, <2>3, Remainders
  <2>6. c \in 0 .. L - 1 /\ d \in 0 .. L - 1
    BY <2>1, <2>3
  <2> DEFINE m == g.min + c
             n == g.min + d
  <2>7. SeqNext(g, a) = Wrap(m) /\ SeqNext(g, b) = Wrap(n)
    BY <2>2, <2>3, <2>4
  <2> HIDE DEF c, d
  <2>10. /\ m \in Int /\ n \in Int /\ MinInt <= m /\ MinInt <= n /\ m # n
         /\ m - n <= MaxInt /\ n - m <= MaxInt
    BY <2>1, <2>5, <2>6, WidthAssumption DEF MinInt
  <2> HIDE DEF m, n
  <2>8. m < n \/ n < m
    BY <2>10
  <2>9. QED  BY <2>7, <2>8, <2>10, Wraps
<1>2. CASE g.kind = "set"
  <2>1. L \in Nat /\ DOMAIN g.values = 1 .. L
    BY <1>2 DEF Built, Length
  <2>2. \A c : SeqNext(g, c) = IF L = 0 THEN Panic ELSE g.values[Remainder(c, L) + 1]
    BY <1>2 DEF SeqNext, Position
  <2> HIDE DEF L
  <2>3. L > 0 /\ b - a < L
    BY <2>1 DEF L
  <2>4. \A c : Remainder(c, L) = c % L
    BY <2>1 DEF Remainder, AbsoluteValue
  <2> DEFINE c == a % L
             d == b % L
  <2>5. c # d
    BY <2>1, <2>3, Remainders
  <2>6. c \in 0 .. L - 1 /\ d \in 0 .. L - 1
    BY <2>1, <2>3
  <2>7. SeqNext(g, a) = g.values[c + 1] /\ SeqNext(g, b) = g.values[d + 1]
    BY <2>2, <2>3, <2>4
  <2> HIDE DEF c, d
  <2>8. c + 1 \in 1 .. L /\ d + 1 \in 1 .. L /\ c + 1 # d + 1
    BY <2>1, <2>5, <2>6
  <2>9. QED  BY <1>2, <2>1, <2>7, <2>8 DEF Distinct
<1>3. QED  BY <1>1, <1>2 DEF Sequential

\* All that a generator may return as a sequence.
Sequence(g) == {SeqNext(g, c) : c \in Nat}

\* What a sequence has returned is what it returns when it is called by itself.
DrawnInv ==
    \A x \in DOMAIN gen :
      /\ Built(gen[x])
      /\ drawn[x] \in Seq(Sequence(gen[x]))
      /\ phase = "running" /\ Sequential(gen[x]) => Len(drawn[x]) = counter[x]
      /\ \A k \in 1 .. Len(drawn[x]) : drawn[x][k] = SeqNext(gen[x], k - 1)

\* Nothing is drawn at first ...
LEMMA DrawnInit == Init => DrawnInv
BY DEF Init, DrawnInv, Empty

\* ... and what is drawn next follows in the sequence.
LEMMA DrawnNext == Types /\ DrawnInv /\ [Next]_vars => DrawnInv'
<1> SUFFICES ASSUME Types, DrawnInv, [Next]_vars PROVE DrawnInv'
  OBVIOUS
<1>1. ASSUME UNCHANGED <<gen, drawn>>, phase' = "running" => UNCHANGED <<phase, counter>>
      PROVE  DrawnInv'
  BY <1>1 DEF DrawnInv
<1>2. ASSUME NEW c \in Configurations, NewSubstitutor(c) PROVE DrawnInv'
  <2>1. CASE UNCHANGED <<gen, drawn>> /\ phase' = "refused"
    BY <1>1, <2>1
  <2>2. ASSUME NEW at \in Latest(c.variables),
               gen' = [x \in DOMAIN at |-> FromVariable(c.variables[at[x]])],
               counter' = [x \in DOMAIN at |-> 0], drawn' = [x \in DOMAIN at |-> <<>>]
        PROVE  DrawnInv'
    <3> SUFFICES ASSUME NEW x \in DOMAIN gen'
                 PROVE  /\ Built(gen'[x])
                        /\ drawn'[x] \in Seq(Sequence(gen'[x]))
                        /\ Len(drawn'[x]) = counter'[x]
                        /\ \A k \in 1 .. Len(drawn'[x]) : drawn'[x][k] = SeqNext(gen'[x], k - 1)
      BY DEF DrawnInv
    <3>1. at[x] \in DOMAIN c.variables
      BY <2>2 DEF Latest
    <3>2. Built(gen'[x])
      BY <2>2, <3>1, BuiltFromVariable, RequestsAssumption
    <3>3. drawn'[x] = <<>> /\ counter'[x] = 0
      BY <2>2
    <3>4. QED  BY <3>2, <3>3
  <2>3. QED  BY <1>2, <2>1, <2>2 DEF NewSubstitutor
<1>3. ASSUME NEW w \in Workers, Draw(w) PROVE DrawnInv'
  <2>x. PICK x \in todo[w] :
          /\ Advance(w, x)
          /\ \E v \in NextValues(gen[x], counter[x]) :
               \/ phase' = "panicked" /\ drawn' = drawn
               \/ phase' = phase /\ Record(x, v)
    BY <1>3 DEF Draw
  <2>1. PICK v \in NextValues(gen[x], counter[x]) :
          /\ Advance(w, x)
          /\ \/ phase' = "panicked" /\ drawn' = drawn
             \/ phase' = phase /\ Record(x, v)
    BY <2>x
  <2>2. gen' = gen /\ x \in DOMAIN gen /\ phase = "running"
    BY <1>3 DEF Draw, Types, setupVars
  <2>3. CASE phase' = "panicked" /\ drawn' = drawn
    BY <1>1, <2>2, <2>3
  <2>4. CASE phase' = phase /\ Record(x, v) /\ Sequential(gen[x])
    <3>1. /\ v = SeqNext(gen[x], counter[x]) /\ counter[x] \in Nat
          /\ Len(drawn[x]) = counter[x]
          /\ drawn' = [drawn EXCEPT ![x] = Append(@, v)]
          /\ counter' = [counter EXCEPT ![x] = @ + 1]
      BY <2>1, <2>2, <2>4 DEF NextValues, Advance, Record, Types, DrawnInv
    <3> DEFINE S == Sequence(gen[x])
    <3>2. drawn[x] \in Seq(S) /\ v \in S
          /\ \A k \in 1 .. Len(drawn[x]) : drawn[x][k] = SeqNext(gen[x], k - 1)
      BY <2>2, <3>1 DEF DrawnInv, Sequence
    <3> HIDE DEF S
    <3>3. /\ Append(drawn[x], v) \in Seq(S)
          /\ Len(Append(drawn[x], v)) = counter[x] + 1
          /\ \A k \in 1 .. counter[x] + 1 :
               Append(drawn[x], v)[k] = SeqNext(gen[x], k - 1)
      BY <3>1, <3>2
    <3>4. /\ drawn'[x] = Append(drawn[x], v) /\ counter'[x] = counter[x] + 1
          /\ \A y \in DOMAIN gen \ {x} : drawn'[y] = drawn[y] /\ counter'[y] = counter[y]
      BY <2>2, <3>1 DEF Types
    <3>5. ASSUME NEW y \in DOMAIN gen
          PROVE  /\ Built(gen[y])
                 /\ drawn'[y] \in Seq(Sequence(gen[y]))
                 /\ Sequential(gen[y]) => Len(drawn'[y]) = counter'[y]
                 /\ \A k \in 1 .. Len(drawn'[y]) : drawn'[y][k] = SeqNext(gen[y], k - 1)
      <4>1. CASE y = x
        BY <2>2, <3>3, <3>4, <4>1 DEF DrawnInv, S
      <4>2. CASE y # x
        BY <2>2, <3>4, <4>2 DEF DrawnInv
      <4>3. QED  BY <4>1, <4>2
    <3>6. QED  BY <2>2, <3>5 DEF DrawnInv
  <2>5. CASE phase' = phase /\ Record(x, v) /\ ~Sequential(gen[x])
    BY <1>1, <2>1, <2>2, <2>5 DEF Advance, Record
  <2>6. QED  BY <2>1, <2>3, <2>4, <2>5
<1>4. QED
  BY <1>1, <1>2, <1>3
  DEF Next, Work, Terminated, Choose, Book, Stop, Admit, Prepare, Return, Tick,
      Cancel, vars, setupVars

\* However many workers draw from a sequence at the same time, and wherever the
\* counter stands: a value does not come back before its round is over.
THEOREM ValuesOncePerRound == Spec => []EachValueOncePerRound
<1>1. Init => Types /\ DrawnInv
  BY TypesInit, DrawnInit
<1>2. Types /\ DrawnInv /\ [Next]_vars => Types' /\ DrawnInv'
  BY TypesNext, DrawnNext
<1>3. DrawnInv => EachValueOncePerRound
  <2> SUFFICES ASSUME DrawnInv, NEW x \in DOMAIN gen, Sequential(gen[x]), Distinct(gen[x]),
                      NEW j \in 1 .. Len(drawn[x]), NEW k \in 1 .. Len(drawn[x]),
                      j < k, k - j < Length(gen[x])
               PROVE  drawn[x][j] # drawn[x][k]
    BY DEF EachValueOncePerRound
  <2>1. /\ Built(gen[x]) /\ Len(drawn[x]) \in Nat
        /\ drawn[x][j] = SeqNext(gen[x], j - 1)
        /\ drawn[x][k] = SeqNext(gen[x], k - 1)
    BY DEF DrawnInv
  <2> DEFINE a == j - 1
             b == k - 1
  <2>2. a \in Nat /\ b \in Nat /\ a < b /\ b - a < Length(gen[x])
    <3>1. b - a = k - j /\ a < b /\ a \in Nat /\ b \in Nat
      BY <2>1
    <3>2. QED  BY <3>1
  <2> HIDE DEF a, b
  <2>3. SeqNext(gen[x], a) # SeqNext(gen[x], b)
    BY <2>1, <2>2, Apart
  <2>4. QED  BY <2>1, <2>3 DEF a, b
<1>4. QED  BY <1>1, <1>2, <1>3, PTL DEF Spec

-----------------------------------------------------------------------------
(* Ranges of any ints, of any width *)

\* Remainders of the numbers that Wrap and Next come to.
LEMMA SmallRemainders ==
    ASSUME NEW p \in Nat, p > 0, NEW a \in Nat, a < p
    PROVE  a % p = a /\ (p + a) % p = a
<1>1. PICK q, c \in Int : a = p * q + c /\ a % p = c
  BY Division
<1>2. PICK r, d \in Int : p + a = p * r + d /\ (p + a) % p = d
  BY Division
<1>3. c \in 0 .. p - 1 /\ d \in 0 .. p - 1
  BY <1>1, <1>2
<1>4. /\ p * 0 = 0 /\ p * 1 = p /\ p * 2 = p + p
      /\ \A k \in Int : p * k \in Int
      /\ \A k \in Int : (k >= 1 => p * k >= p) /\ (k >= 2 => p * k >= p * 2)
      /\ \A k \in Int : (k <= 0 => p * k <= 0) /\ (k <= -1 => p * k <= -p)
  <2>1. p * 0 = 0 /\ p * 1 = p /\ p * 2 = p + p /\ p * (-1) = -p
    OBVIOUS
  <2>2. \A k \in Int : p * k \in Int
    OBVIOUS
  <2>3. ASSUME NEW k \in Int
        PROVE  /\ (k >= 1 => p * k >= p * 1) /\ (k >= 2 => p * k >= p * 2)
               /\ (k <= 0 => p * k <= p * 0) /\ (k <= -1 => p * k <= p * (-1))
    BY Products
  <2>4. QED  BY <2>1, <2>2, <2>3
<1>5. p * q = 0
  <2>1. CASE q >= 1
    BY <1>1, <1>3, <1>4, <2>1
  <2>2. CASE q <= -1
    BY <1>1, <1>3, <1>4, <2>2
  <2>3. CASE q = 0
    BY <1>4, <2>3
  <2>4. QED  BY <2>1, <2>2, <2>3
<1>6. p * r = p
  <2>1. CASE r >= 2
    BY <1>2, <1>3, <1>4, <2>1
  <2>2. CASE r <= 0
    BY <1>2, <1>3, <1>4, <2>2
  <2>3. CASE r = 1
    BY <1>4, <2>3
  <2>4. QED  BY <2>1, <2>2, <2>3
<1>7. QED  BY <1>1, <1>2, <1>3, <1>5, <1>6

\* Wrap changes no int, and takes the word from what is above.
LEMMA WrapValue ==
    /\ \A n \in Ints : Wrap(n) = n
    /\ \A n \in MaxInt + 1 .. 2 * (MaxInt + 1) : Wrap(n) = n - 2 * (MaxInt + 1)
<1> DEFINE M == 2 * (MaxInt + 1)
<1>1. M \in Nat /\ M > 0 /\ MaxInt \in Nat /\ MinInt \in Int
      /\ MinInt = -MaxInt - 1 /\ M = MaxInt + MaxInt + 2
  BY WidthAssumption DEF MinInt
<1>2. \A n : Wrap(n) = MinInt + ((n - MinInt) % M)
  BY DEF Wrap
<1> HIDE DEF M
<1>3. ASSUME NEW n \in Ints PROVE Wrap(n) = n
  <2> DEFINE a == n - MinInt
  <2>1. a \in Nat /\ a < M /\ n = MinInt + a
    BY <1>1 DEF Ints
  <2>2. Wrap(n) = MinInt + (a % M)
    BY <1>2
  <2> HIDE DEF a
  <2>3. a % M = a
    BY <1>1, <2>1, SmallRemainders
  <2>4. QED  BY <2>1, <2>2, <2>3
<1>4. ASSUME NEW n \in MaxInt + 1 .. M PROVE Wrap(n) = n - M
  <2> DEFINE a == n - MinInt - M
             b == n - MinInt
  <2>1. a \in Nat /\ a < M /\ n - M = MinInt + a /\ b = M + a
    BY <1>1
  <2>2. Wrap(n) = MinInt + (b % M)
    BY <1>2
  <2> HIDE DEF a, b
  <2>3. (M + a) % M = a
    BY <1>1, <2>1, SmallRemainders
  <2>4. QED  BY <2>1, <2>2, <2>3
<1>5. QED  BY <1>3, <1>4 DEF M

\* The span of a range, and that it is no length if the range is too wide.
LEMMA Span ==
    ASSUME NEW min \in Ints, NEW max \in min .. MaxInt, NEW mode \in Modes
    PROVE  LET g == NewIntRangeGenerator(min, max, mode)
               n == max - min + 1
           IN  /\ g.kind = "range" /\ g.mode = mode /\ g.min = min /\ g.max = max
               /\ Representable(min, max) => g.span = n
               /\ ~Representable(min, max) =>
                    g.span = n - 2 * (MaxInt + 1) /\ g.span <= 0 /\ -g.span <= n
<1> DEFINE d == max - min
           M == 2 * (MaxInt + 1)
           s == Wrap(Wrap(d) + 1)
<1>1. /\ min \in Int /\ max \in Int /\ min <= max /\ MaxInt \in Nat
      /\ MinInt = -MaxInt - 1 /\ M = MaxInt + MaxInt + 2
      /\ d \in Nat /\ d <= M - 1
  BY WidthAssumption DEF Ints, MinInt
<1>2. NewIntRangeGenerator(min, max, mode)
        = [kind |-> "range", mode |-> mode, min |-> min, max |-> max, span |-> s]
  BY <1>1 DEF NewIntRangeGenerator
<1>3. /\ \A n \in Ints : Wrap(n) = n
      /\ \A n \in MaxInt + 1 .. M : Wrap(n) = n - M
      /\ Ints = -MaxInt - 1 .. MaxInt
  BY <1>1, WrapValue DEF Ints
<1> HIDE DEF d, M
<1>4. CASE d + 1 <= MaxInt
  <2>1. Wrap(d) = d /\ Wrap(d + 1) = d + 1
    BY <1>1, <1>3, <1>4
  <2>2. QED  BY <1>1, <1>2, <1>4, <2>1 DEF Representable, d
<1>5. CASE d + 1 > MaxInt
  <2>1. s = d + 1 - M
    <3>1. CASE d = MaxInt
      <4>1. Wrap(d) = d /\ Wrap(d + 1) = d + 1 - M
        BY <1>1, <1>3, <3>1
      <4>2. QED  BY <4>1
    <3>2. CASE d > MaxInt
      <4>1. Wrap(d) = d - M
        BY <1>1, <1>3, <3>2
      <4>2. Wrap(d - M + 1) = d - M + 1
        BY <1>1, <1>3, <3>2
      <4>3. QED  BY <1>1, <4>1, <4>2
    <3>3. QED  BY <1>1, <1>5, <3>1, <3>2
  <2>2. s <= 0 /\ -s <= d + 1
    BY <1>1, <1>5, <2>1
  <2>3. QED  BY <1>1, <1>2, <1>5, <2>1, <2>2 DEF Representable, d, M
<1>6. QED  BY <1>1, <1>4, <1>5

\* What Next returns in a range.
LEMMA RangeNext ==
    ASSUME NEW g, g.kind = "range", g.min \in Ints, NEW c \in Nat,
           Length(g) \in Nat, Length(g) > 0, g.min + Length(g) - 1 <= MaxInt
    PROVE  /\ SeqNext(g, c) = g.min + Remainder(c, Length(g))
           /\ Remainder(c, Length(g)) \in 0 .. Length(g) - 1
<1> DEFINE L == Length(g)
           r == Remainder(c, L)
<1>1. g.min \in Int /\ MinInt <= g.min /\ MaxInt \in Nat /\ MinInt \in Int
  BY WidthAssumption DEF Ints, MinInt
<1>2. SeqNext(g, c) = IF L = 0 THEN Panic ELSE Wrap(g.min + r)
  BY DEF SeqNext, Position
<1> HIDE DEF L
<1>3. L \in Nat /\ L > 0 /\ g.min + L - 1 <= MaxInt
  BY DEF L
<1>4. r = c % L
  BY <1>3 DEF Remainder, AbsoluteValue
<1>5. r \in 0 .. L - 1
  BY <1>3, <1>4
<1> HIDE DEF r
<1>6. SeqNext(g, c) = Wrap(g.min + r)
  BY <1>2, <1>3
<1>7. Wrap(g.min + r) = g.min + r
  <2>1. g.min + r \in MinInt .. MaxInt
    BY <1>1, <1>3, <1>5
  <2>2. QED  BY <2>1, WrapValue DEF Ints
<1>8. SeqNext(g, c) = g.min + r /\ r \in 0 .. L - 1
  BY <1>5, <1>6, <1>7
<1>9. QED  BY <1>8 DEF L, r

\* From any call on, L calls meet every remainder by L.
LEMMA Rounds ==
    ASSUME NEW L \in Nat, L > 0, NEW k \in Nat, NEW r \in 0 .. L - 1
    PROVE  \E c \in k .. k + L - 1 : Remainder(c, L) = r
<1>1. PICK q, d \in Int : k = L * q + d /\ k % L = d
  BY Division
<1>2. d \in 0 .. L - 1
  BY <1>1
<1> DEFINE c == IF d <= r THEN k + (r - d) ELSE k + (r - d) + L
<1>3. c \in k .. k + L - 1 /\ c \in Nat
  BY <1>2
<1>4. PICK p, e \in Int : c = L * p + e /\ c % L = e
  BY <1>3, Division
<1>5. e \in 0 .. L - 1
  BY <1>3, <1>4
<1> DEFINE t == IF d <= r THEN q ELSE q + 1
<1>6. t \in Int /\ L * t = IF d <= r THEN L * q ELSE L * q + L
  BY Products
<1>7. c = L * t + r
  BY <1>1, <1>2, <1>6
<1> HIDE DEF c, t
<1>8. ASSUME e # r PROVE FALSE
  <2>1. L * t \in Int /\ L * p \in Int /\ L * t - L * p = e - r
    BY <1>3, <1>4, <1>5, <1>6, <1>7
  <2>2. CASE p + 1 <= t
    <3>1. L * (p + 1) <= L * t /\ L * (p + 1) = L * p + L
      BY <1>6, <2>2, Products
    <3>2. QED  BY <1>5, <2>1, <3>1
  <2>3. CASE t + 1 <= p
    <3>1. L * (t + 1) <= L * p /\ L * (t + 1) = L * t + L
      BY <1>6, <2>3, Products
    <3>2. QED  BY <1>5, <2>1, <3>1
  <2>4. CASE t = p
    BY <1>5, <1>8, <2>1, <2>4
  <2>5. QED  BY <1>6, <2>2, <2>3, <2>4
<1>9. Remainder(c, L) = e
  BY <1>3, <1>4 DEF Remainder, AbsoluteValue
<1>10. QED  BY <1>3, <1>8, <1>9

\* A range that an int64 can count yields itself; a wider one nothing else.
LEMMA RangeYields ==
    ASSUME NEW min \in Ints, NEW max \in min .. MaxInt
    PROVE  YieldsItsRange(min, max)
<1> DEFINE seq == NewIntRangeGenerator(min, max, "seq")
           rnd == NewIntRangeGenerator(min, max, "rnd")
           round(k) == {SeqNext(seq, c) : c \in k .. k + max - min}
           n == max - min + 1
           L == Length(seq)
<1>1. /\ min \in Int /\ max \in Int /\ min <= max /\ MaxInt \in Nat
      /\ n \in Nat /\ n > 0 /\ min + n - 1 = max /\ max <= MaxInt
  BY WidthAssumption DEF Ints, MinInt
<1>2. /\ seq.kind = "range" /\ seq.min = min
      /\ rnd.kind = "range" /\ rnd.min = min
      /\ Representable(min, max) => seq.span = n /\ rnd.span = n
      /\ ~Representable(min, max) =>
           /\ seq.span \in Int /\ seq.span <= 0 /\ -seq.span <= n
           /\ rnd.span <= 0
  <2>1. "seq" \in Modes /\ "rnd" \in Modes
    BY DEF Modes
  <2>2. n - 2 * (MaxInt + 1) \in Int
    BY <1>1
  <2> HIDE DEF seq, rnd, n
  <2>3. QED  BY <2>1, <2>2, Span DEF seq, rnd, n
<1>3. /\ Representable(min, max) => L = n
      /\ ~Representable(min, max) => L \in Nat /\ L <= n
  BY <1>1, <1>2 DEF Length, AbsoluteValue
<1>4. ASSUME NEW c \in Nat, L > 0
      PROVE  SeqNext(seq, c) = min + Remainder(c, L) /\ Remainder(c, L) \in 0 .. L - 1
  <2> HIDE DEF seq, n
  <2>1. Length(seq) \in Nat /\ min + Length(seq) - 1 <= MaxInt
    BY <1>1, <1>3
  <2>2. QED  BY <1>2, <1>4, <2>1, RangeNext
<1> HIDE DEF seq, rnd, n, L
<1>5. CASE Representable(min, max)
  <2>1. L = n
    BY <1>3, <1>5
  <2>2. \A c \in Nat : /\ SeqNext(seq, c) = min + Remainder(c, n)
                       /\ Remainder(c, n) \in 0 .. n - 1
    BY <1>1, <1>4, <2>1
  <2>3. ASSUME NEW k \in 0 .. MaxInt PROVE round(k) = min .. max
    <3>1. \A c \in k .. k + max - min : c \in Nat
      BY <1>1
    <3>2. ASSUME NEW c \in k .. k + max - min PROVE SeqNext(seq, c) \in min .. max
      <4> DEFINE r == Remainder(c, n)
      <4>1. SeqNext(seq, c) = min + r /\ r \in 0 .. n - 1
        BY <2>2, <3>1
      <4> HIDE DEF r
      <4>2. QED  BY <1>1, <4>1
    <3>3. ASSUME NEW v \in min .. max PROVE \E c \in k .. k + max - min : v = SeqNext(seq, c)
      <4> DEFINE r == v - min
      <4>1. r \in 0 .. n - 1 /\ v = min + r /\ k \in Nat
        BY <1>1
      <4> HIDE DEF r
      <4>2. PICK c \in k .. k + n - 1 : Remainder(c, n) = r
        BY <1>1, <4>1, Rounds
      <4>3. c \in k .. k + max - min /\ c \in Nat
        BY <1>1
      <4>4. SeqNext(seq, c) = min + Remainder(c, n)
        BY <2>2, <4>3
      <4>5. QED  BY <4>1, <4>2, <4>3, <4>4
    <3>4. QED  BY <3>2, <3>3
  <2>4. RndNext(rnd) = min .. max
    <3>1. RndNext(rnd) = {Wrap(min + k) : k \in 0 .. n - 1}
      BY <1>1, <1>2, <1>5 DEF RndNext
    <3>2. ASSUME NEW k \in 0 .. n - 1 PROVE Wrap(min + k) = min + k /\ min + k \in min .. max
      <4>1. min + k \in min .. max /\ min + k \in Ints
        BY <1>1, WidthAssumption DEF Ints, MinInt
      <4>2. QED  BY <4>1, WrapValue
    <3>3. \A v \in min .. max : v - min \in 0 .. n - 1 /\ v = min + (v - min)
      BY <1>1
    <3>4. \A v \in min .. max : \E k \in 0 .. n - 1 : v = Wrap(min + k)
      BY <3>2, <3>3
    <3>5. \A k \in 0 .. n - 1 : Wrap(min + k) \in min .. max
      BY <3>2
    <3>6. QED  BY <3>1, <3>4, <3>5
  <2>5. QED  BY <1>5, <2>3, <2>4 DEF YieldsItsRange, seq, rnd
<1>6. CASE ~Representable(min, max)
  <2>1. L \in Nat /\ L <= n
    BY <1>3, <1>6
  <2>2. RndNext(rnd) = {Panic}
    BY <1>2, <1>6 DEF RndNext
  <2>3. ASSUME NEW c \in 0 .. 0 + max - min PROVE SeqNext(seq, c) \in (min .. max) \cup {Panic}
    <3>1. c \in Nat
      BY <1>1
    <3>2. CASE L = 0
      BY <3>2 DEF SeqNext, L
    <3>3. CASE L > 0
      <4> DEFINE r == Remainder(c, L)
      <4>1. SeqNext(seq, c) = min + r /\ r \in 0 .. L - 1
        BY <1>4, <3>1, <3>3
      <4> HIDE DEF r
      <4>2. min + r \in min .. max
        BY <1>1, <2>1, <4>1
      <4>3. QED  BY <4>1, <4>2
    <3>4. QED  BY <2>1, <3>2, <3>3
  <2>4. round(0) \subseteq (min .. max) \cup {Panic}
    BY <2>3
  <2>5. QED  BY <1>6, <2>2, <2>4 DEF YieldsItsRange, seq, rnd
<1>7. QED  BY <1>5, <1>6

\* Whatever the width of the machine's ints and the bounds of the range: from
\* any call on, a round is the whole range and nothing else.
THEOREM RangesAreInclusive == Spec => []RangesInclusive
<1>1. RangesInclusive
  BY RangeYields DEF RangesInclusive
<1>2. QED  BY <1>1, PTL

-----------------------------------------------------------------------------
(* The targets get their shares *)

\* The cumulative rates are running totals of the rates.
LEMMA CumulativeRates ==
    LET C == Cumulative
        N == Len(RPS)
    IN  /\ C[0] = 0 /\ \A i \in 1 .. N : C[i] = C[i - 1] + RPS[i]
        /\ \A i \in 0 .. N : C[i] \in Nat
        /\ \A i, j \in 0 .. N : i <= j => C[i] <= C[j]
<1> DEFINE N == Len(RPS)
           C == CHOOSE g : RunningTotals(RPS, g, N)
<1>1. N \in Nat /\ \A i \in 1 .. N : RPS[i] \in Nat
  <2>1. RPS \in Seq(Nat \ {0})
    BY RequestsAssumption
  <2>2. QED  BY <2>1
<1>2. RunningTotals(RPS, C, N)
  <2> HIDE DEF N
  <2> QED  BY <1>1, TotalsExist
<1>3. Cumulative = C
  BY DEF Cumulative, RunningTotals
<1> HIDE DEF N, C
<1>4. QED  BY <1>1, <1>2, <1>3, TotalsMonotonic DEF N

\* Target i is the choice for the numbers from the total of the targets before
\* it up to its own.
LEMMA Share ==
    ASSUME NEW i \in Targets, NEW r \in 0 .. TotalRPS - 1
    PROVE  Selects(r, i) <=> r \in Cumulative[i - 1] .. Cumulative[i] - 1
<1> DEFINE C == Cumulative
           N == Len(RPS)
<1>1. /\ C[0] = 0 /\ \A j \in 0 .. N : C[j] \in Nat
      /\ \A j, k \in 0 .. N : j <= k => C[j] <= C[k]
  BY CumulativeRates
<1>2. N \in Nat /\ i \in 1 .. N /\ Targets = 1 .. N
  BY Constants
<1>3. r \in Nat /\ r < C[N] /\ N \in Targets
  <2>1. N \in 1 .. N /\ C[N] \in Nat
    BY <1>1, <1>2
  <2>2. QED  BY <1>2, <2>1 DEF TotalRPS
<1> HIDE DEF C, N
<1>4. ~ \A j \in Targets : r >= C[j]
  <2>1. C[N] \in Nat
    BY <1>1, <1>2
  <2>2. QED  BY <1>3, <2>1
<1>5. (\A j \in 1 .. i - 1 : r >= C[j]) <=> r >= C[i - 1]
  <2>1. i - 1 \in 0 .. N
    BY <1>2
  <2>2. CASE i = 1
    BY <1>1, <1>3, <2>2
  <2>3. CASE i # 1
    <3>1. i - 1 \in 1 .. i - 1
      BY <1>2, <2>3
    <3>2. ASSUME r >= C[i - 1], NEW j \in 1 .. i - 1 PROVE r >= C[j]
      <4>1. j \in 0 .. N /\ j <= i - 1
        BY <1>2
      <4>2. C[j] <= C[i - 1] /\ C[j] \in Nat /\ C[i - 1] \in Nat
        BY <1>1, <2>1, <4>1
      <4>3. QED  BY <1>3, <3>2, <4>2
    <3>3. QED  BY <3>1, <3>2
  <2>4. QED  BY <2>2, <2>3
<1>6. Selects(r, i) <=> r < C[i] /\ r >= C[i - 1]
  BY <1>4, <1>5 DEF Selects, C
<1>7. C[i] \in Nat /\ C[i - 1] \in Nat
  <2>1. i \in 0 .. N /\ i - 1 \in 0 .. N
    BY <1>2
  <2>2. QED  BY <1>1, <2>1
<1>8. QED  BY <1>3, <1>6, <1>7 DEF C

\* Whatever the rates: of the random numbers as many choose a target as its
\* rate says.
THEOREM SharesAreExact == Spec => []SharesExact
<1>1. ASSUME NEW i \in Targets
      PROVE  Cardinality({r \in 0 .. TotalRPS - 1 : Selects(r, i)}) = RPS[i]
  <2> DEFINE C == Cumulative
             N == Len(RPS)
             S == {r \in 0 .. TotalRPS - 1 : Selects(r, i)}
  <2>1. N \in Nat /\ i \in 1 .. N
    BY Constants
  <2>2. i \in 0 .. N /\ i - 1 \in 0 .. N /\ N \in 0 .. N /\ i <= N
    BY <2>1
  <2>3. /\ C[i] \in Nat /\ C[i - 1] \in Nat /\ C[N] \in Nat
        /\ C[i] = C[i - 1] + RPS[i] /\ C[i] <= C[N] /\ TotalRPS = C[N]
    BY <2>1, <2>2, CumulativeRates DEF TotalRPS
  <2>4. RPS[i] \in Nat \ {0}
    BY <2>1, RequestsAssumption
  <2> HIDE DEF C, N
  <2>5. C[i - 1] .. C[i] - 1 \subseteq 0 .. TotalRPS - 1
    BY <2>3
  <2>6. S = C[i - 1] .. C[i] - 1
    BY <2>5, Share DEF C
  <2>7. Cardinality(C[i - 1] .. C[i] - 1)
          = IF C[i - 1] > C[i] - 1 THEN 0 ELSE C[i] - 1 - C[i - 1] + 1
    <3>1. C[i - 1] \in Int /\ C[i] - 1 \in Int
      BY <2>3
    <3>2. QED  BY <3>1, FS_Interval
  <2>8. Cardinality(S) = RPS[i]
    <3> HIDE DEF S
    <3> QED  BY <2>3, <2>4, <2>6, <2>7
  <2>9. QED  BY <2>8
<1>2. SharesExact
  BY <1>1 DEF SharesExact
<1>3. QED  BY <1>2, PTL

-----------------------------------------------------------------------------
(* Requests are filled with one value for each variable *)

\* What a generator returns that was built is a value it may have, or no value:
\* the wraps of ranges too wide stay within the bounds too.
LEMMA NextYields ==
    ASSUME NEW v, Typed(v), FromVariable(v) # Refused, NEW c \in Nat
    PROVE  NextValues(FromVariable(v), c) \subseteq Yields(FromVariable(v)) \cup {Panic}
<1> DEFINE g == FromVariable(v)
<1>1. CASE v.type = "int_range" /\ Usable(v, {"mode", "min", "max"})
  <2>1. v.min \in Ints /\ v.max \in Ints /\ g = NewIntRangeGenerator(v.min, v.max, v.mode)
    BY <1>1 DEF Typed, Usable, FromVariable
  <2>2. v.max \in v.min .. MaxInt /\ v.mode \in Modes
    <3>1. v.max \in v.min .. MaxInt
      BY <2>1, WidthAssumption DEF NewIntRangeGenerator, Ints, MinInt
    <3>2. QED  BY <2>1, <3>1 DEF NewIntRangeGenerator
  <2>3. g.kind = "range" /\ g.mode = v.mode /\ g.min = v.min /\ g.max = v.max
    BY <2>1, <2>2, Span
  <2>4. Yields(g) = v.min .. v.max
    BY <2>3 DEF Yields
  <2>5. CASE Sequential(g)
    <3> DEFINE n == v.max - v.min + 1
               L == Length(g)
               r == Remainder(c, L)
    <3>1. /\ v.min \in Int /\ v.max \in Int /\ v.max <= MaxInt /\ MaxInt \in Int
          /\ n \in Nat
      BY <2>1, <2>2, WidthAssumption DEF Ints, MinInt
    <3>2. \/ g.span = n
          \/ g.span \in Int /\ g.span <= 0 /\ -g.span <= n
      <4>1. n - 2 * (MaxInt + 1) \in Int
        BY <3>1
      <4> HIDE DEF n
      <4>2. QED  BY <2>1, <2>2, <4>1, Span DEF n
    <3>3. L \in Nat /\ L <= n
      BY <2>3, <3>1, <3>2 DEF Length, AbsoluteValue
    <3>4. CASE L = 0
      BY <2>5, <3>4 DEF SeqNext, NextValues
    <3>5. CASE L > 0
      <4>1. g.min + Length(g) - 1 <= MaxInt
        BY <2>3, <3>1, <3>3
      <4>2. SeqNext(g, c) = v.min + r /\ r \in 0 .. L - 1
        BY <2>1, <2>3, <3>3, <3>5, <4>1, RangeNext
      <4> HIDE DEF r, L
      <4>3. v.min + r \in v.min .. v.max
        BY <3>1, <3>3, <4>2
      <4>4. QED  BY <2>4, <2>5, <4>2, <4>3 DEF NextValues
    <3>6. QED  BY <3>3, <3>4, <3>5
  <2>6. CASE ~Sequential(g)
    <3>1. v.mode = "rnd"
      BY <2>2, <2>3, <2>6 DEF Sequential, Modes
    <3>2. RndNext(g) = v.min .. v.max \/ RndNext(g) = {Panic}
      BY <2>1, <2>2, <3>1, RangeYields DEF YieldsItsRange
    <3>3. QED  BY <2>4, <2>6, <3>2 DEF NextValues
  <2>7. QED  BY <2>5, <2>6
<1>2. CASE v.type \in {"int_set", "string_set"} /\ Usable(v, {"mode", "values"})
  <2>1. PICK S : v.values \in Seq(S)
    BY <1>2 DEF Typed, Usable
  <2>2. g = NewSetGenerator(v.values, v.mode)
    BY <1>2 DEF FromVariable
  <2>3. g.kind = "set" /\ g.values = v.values /\ v.values # <<>>
    BY <2>2 DEF NewSetGenerator
  <2>4. DOMAIN g.values = 1 .. Length(g) /\ Length(g) \in Nat /\ Length(g) > 0
    BY <2>1, <2>3 DEF Length
  <2>5. Yields(g) = {g.values[i] : i \in DOMAIN g.values}
    BY <2>3 DEF Yields
  <2>6. CASE Sequential(g)
    <3> DEFINE L == Length(g)
               r == Remainder(c, L)
    <3>1. SeqNext(g, c) = IF L = 0 THEN Panic ELSE g.values[r + 1]
      BY <2>3 DEF SeqNext, Position
    <3>2. DOMAIN g.values = 1 .. L /\ L \in Nat /\ L > 0
      BY <2>4
    <3> HIDE DEF L
    <3>3. r = c % L
      BY <3>2 DEF Remainder, AbsoluteValue
    <3>4. r + 1 \in 1 .. L
      BY <3>2, <3>3
    <3>5. SeqNext(g, c) = g.values[r + 1] /\ r + 1 \in DOMAIN g.values
      BY <3>1, <3>2, <3>4
    <3>6. QED  BY <2>5, <2>6, <3>5 DEF NextValues
  <2>7. CASE ~Sequential(g)
    BY <2>3, <2>5, <2>7 DEF NextValues, RndNext
  <2>8. QED  BY <2>6, <2>7
<1>3. CASE g \in {NewUUIDGenerator, NewTimestampGenerator(v.format)}
  <2>1. g.kind \in {"uuid", "time"}
    BY <1>3 DEF NewUUIDGenerator, NewTimestampGenerator
  <2>2. QED  BY <2>1 DEF NextValues, Sequential, Yields
<1>4. QED  BY <1>1, <1>2, <1>3 DEF FromVariable

\* The generators return what they may; what a worker has got so far is of
\* that kind, complete when its request is filled, and not changed after that.
GensYield ==
    \A x \in DOMAIN gen : \A c \in Nat :
      NextValues(gen[x], c) \subseteq Yields(gen[x]) \cup {Panic}

Kept(w) ==
    /\ \A x \in DOMAIN values[w] : x \in DOMAIN gen /\ values[w][x] \in Yields(gen[x])
    /\ request[w] = Empty \/ (pc[w] = "call" /\ request[w] = Filled(values[w]))
    /\ pc[w] = "call" => DOMAIN gen \subseteq DOMAIN values[w]
    /\ pc[w] = "draw" /\ phase = "running" =>
         DOMAIN gen \subseteq DOMAIN values[w] \cup todo[w]
    /\ phase = "new" => values[w] = Empty /\ request[w] = Empty

ConsistentInv ==
    /\ GensYield /\ DOMAIN values = Workers /\ DOMAIN request = Workers
    /\ \A w \in Workers : Kept(w)

\* Nothing is kept at the start.
LEMMA ConsistentInit == Init => ConsistentInv
<1> SUFFICES ASSUME Init PROVE ConsistentInv
  OBVIOUS
<1>1. DOMAIN gen = {} /\ DOMAIN Empty = {}
  BY DEF Init, Empty
<1>2. \A w \in Workers : values[w] = Empty /\ request[w] = Empty /\ pc[w] = "top"
  BY DEF Init
<1>3. DOMAIN values = Workers /\ DOMAIN request = Workers
  BY DEF Init
<1>4. QED  BY <1>1, <1>2, <1>3 DEF ConsistentInv, GensYield, Kept

\* Nobody else's step changes what a worker has.
LEMMA KeptByOthers ==
    ASSUME NEW u, Kept(u), UNCHANGED <<config, gen>>, phase' \in {phase, "panicked"},
           values'[u] = values[u], request'[u] = request[u], todo'[u] = todo[u],
           pc'[u] = pc[u]
    PROVE  Kept(u)'
<1>1. Filled(values[u])' = Filled(values[u])
  BY DEF Filled, Bytes, Applied
<1>2. QED  BY <1>1 DEF Kept

\* What a worker has stays true to the generators and to its request.
LEMMA ConsistentNext == Types /\ ConsistentInv /\ [Next]_vars => ConsistentInv'
<1> SUFFICES ASSUME Types, ConsistentInv, [Next]_vars PROVE ConsistentInv'
  OBVIOUS
<1>0. /\ GensYield /\ DOMAIN values = Workers /\ DOMAIN request = Workers
      /\ \A w \in Workers : Kept(w)
  BY DEF ConsistentInv
<1>1. ASSUME NEW c \in Configurations, NewSubstitutor(c) PROVE ConsistentInv'
  <2>1. /\ phase = "new" /\ UNCHANGED <<pc, values, request, todo>>
        /\ phase' \in {"refused", "running"}
    BY <1>1 DEF NewSubstitutor, workerVars
  <2>2. \A w \in Workers : values[w] = Empty /\ request[w] = Empty /\ pc[w] = "top"
    BY <1>0, <2>1 DEF Kept, Types
  <2>3. \A w \in Workers : Kept(w)'
    BY <2>1, <2>2 DEF Kept, Empty
  <2>4. GensYield'
    <3>1. CASE gen' = gen
      BY <1>0, <3>1 DEF GensYield
    <3>2. CASE gen' # gen
      <4>1. PICK at \in Latest(c.variables) :
              gen' = [x \in DOMAIN at |-> FromVariable(c.variables[at[x]])]
        BY <1>1, <3>2 DEF NewSubstitutor
      <4>2. \A k \in DOMAIN c.variables : FromVariable(c.variables[k]) # Refused
        BY <1>1, <3>2 DEF NewSubstitutor
      <4>3. ASSUME NEW x \in DOMAIN gen', NEW d \in Nat
            PROVE  NextValues(gen'[x], d) \subseteq Yields(gen'[x]) \cup {Panic}
        <5>1. at[x] \in DOMAIN c.variables /\ gen'[x] = FromVariable(c.variables[at[x]])
          BY <4>1 DEF Latest
        <5>2. Typed(c.variables[at[x]]) /\ FromVariable(c.variables[at[x]]) # Refused
          BY <4>2, <5>1, RequestsAssumption
        <5>3. QED  BY <5>1, <5>2, NextYields
      <4>4. QED  BY <4>3 DEF GensYield
    <3>3. QED  BY <3>1, <3>2
  <2>5. QED  BY <1>0, <2>1, <2>3, <2>4 DEF ConsistentInv
<1>2. ASSUME UNCHANGED <<config, gen>>, DOMAIN values' = DOMAIN values,
             DOMAIN request' = DOMAIN request, \A u \in Workers : Kept(u)'
      PROVE  ConsistentInv'
  BY <1>0, <1>2 DEF ConsistentInv, GensYield
<1>3. ASSUME NEW w \in Workers, UNCHANGED <<config, gen>>,
             phase' \in {phase, "panicked"},
             \A u \in Workers \ {w} : values'[u] = values[u] /\ request'[u] = request[u]
                                      /\ todo'[u] = todo[u] /\ pc'[u] = pc[u]
      PROVE  \A u \in Workers \ {w} : Kept(u)'
  BY <1>0, <1>3, KeptByOthers
<1>4. ASSUME NEW w \in Workers, Choose(w) \/ Stop(w) PROVE ConsistentInv'
  <2>1. /\ UNCHANGED <<config, gen, phase, values, request, todo>>
        /\ pc' = [pc EXCEPT ![w] = pc'[w]] /\ pc'[w] \in {"left", "wait", "stopped"}
        /\ pc[w] \in {"top", "wait"}
    BY <1>4 DEF Choose, Book, Stop, Goes, setupVars, Types
  <2>2. \A u \in Workers \ {w} : Kept(u)'
    BY <1>3, <2>1 DEF Types
  <2>3. Kept(w)'
    BY <1>0, <2>1 DEF Kept
  <2>4. QED  BY <1>2, <2>1, <2>2, <2>3
<1>5. ASSUME NEW w \in Workers, Admit(w) PROVE ConsistentInv'
  <2>1. /\ UNCHANGED <<config, gen, phase, values, request>>
        /\ pc' = [pc EXCEPT ![w] = "draw"] /\ todo' = [todo EXCEPT ![w] = DOMAIN gen]
        /\ pc[w] = "wait" /\ phase = "running"
    BY <1>5 DEF Admit, Goes, setupVars
  <2>2. \A u \in Workers \ {w} : Kept(u)'
    BY <1>3, <2>1 DEF Types
  <2>3. pc'[w] = "draw" /\ todo'[w] = DOMAIN gen
    BY <2>1 DEF Types
  <2>4. Kept(w)'
    BY <1>0, <2>1, <2>3 DEF Kept
  <2>5. QED  BY <1>2, <2>1, <2>2, <2>4
<1>6. ASSUME NEW w \in Workers, Draw(w) PROVE ConsistentInv'
  <2>1. /\ UNCHANGED <<config, gen, request, pc>> /\ phase = "running" /\ pc[w] = "draw"
    BY <1>6 DEF Draw, setupVars
  <2>2. PICK x \in todo[w] : \E v \in NextValues(gen[x], counter[x]) :
          /\ todo' = [todo EXCEPT ![w] = @ \ {x}]
          /\ \/ v = Panic /\ phase' = "panicked" /\ UNCHANGED values
             \/ /\ v # Panic /\ values' = [values EXCEPT ![w] = With(@, x, v)]
                /\ UNCHANGED phase
    BY <1>6 DEF Draw
  <2>3. PICK v \in NextValues(gen[x], counter[x]) :
          /\ todo' = [todo EXCEPT ![w] = @ \ {x}]
          /\ \/ v = Panic /\ phase' = "panicked" /\ UNCHANGED values
             \/ /\ v # Panic /\ values' = [values EXCEPT ![w] = With(@, x, v)]
                /\ UNCHANGED phase
    BY <2>2
  <2>4. x \in DOMAIN gen /\ counter[x] \in Nat
    BY DEF Types
  <2>5. /\ \A u \in Workers \ {w} : values'[u] = values[u] /\ todo'[u] = todo[u]
        /\ DOMAIN values' = Workers
    BY <1>0, <2>3 DEF Types
  <2>6. \A u \in Workers \ {w} : Kept(u)'
    BY <1>3, <2>1, <2>3, <2>5
  <2>7. CASE v = Panic
    <3>1. UNCHANGED values /\ phase' = "panicked"
      BY <2>3, <2>7
    <3>2. Kept(w)'
      BY <1>0, <2>1, <3>1 DEF Kept
    <3>3. QED  BY <1>0, <1>2, <2>1, <2>5, <2>6, <3>2
  <2>8. CASE v # Panic
    <3>1. v \in Yields(gen[x])
      BY <1>0, <2>4, <2>8 DEF GensYield
    <3>2. values'[w] = With(values[w], x, v) /\ todo'[w] = todo[w] \ {x} /\ phase' = phase
      BY <1>0, <2>3, <2>8 DEF Types
    <3>3. /\ DOMAIN values'[w] = DOMAIN values[w] \cup {x}
          /\ \A y \in DOMAIN values'[w] :
               values'[w][y] = IF y = x THEN v ELSE values[w][y]
      BY <3>2 DEF With
    <3>4. \A y \in DOMAIN values'[w] : y \in DOMAIN gen /\ values'[w][y] \in Yields(gen[y])
      BY <1>0, <2>4, <3>1, <3>3 DEF Kept
    <3>5. DOMAIN gen \subseteq DOMAIN values'[w] \cup todo'[w]
      BY <1>0, <2>1, <3>2, <3>3 DEF Kept
    <3>6. request[w] = Empty
      BY <1>0, <2>1 DEF Kept
    <3>7. Kept(w)'
      BY <2>1, <3>2, <3>4, <3>5, <3>6 DEF Kept
    <3>8. QED  BY <1>0, <1>2, <2>1, <2>5, <2>6, <3>7
  <2>9. QED  BY <2>7, <2>8
<1>7. ASSUME NEW w \in Workers, Prepare(w) PROVE ConsistentInv'
  <2>1. /\ UNCHANGED <<config, gen, phase, values, todo>>
        /\ pc' = [pc EXCEPT ![w] = "call"] /\ todo[w] = {}
        /\ pc[w] = "draw" /\ phase = "running"
        /\ \/ request' = [request EXCEPT ![w] = Filled(values[w])]
           \/ UNCHANGED request
    BY <1>7 DEF Prepare, Hand, Goes, setupVars
  <2>2. /\ pc'[w] = "call" /\ DOMAIN request' = Workers
        /\ request'[w] \in {Filled(values[w]), request[w]}
        /\ \A u \in Workers \ {w} : request'[u] = request[u]
    BY <1>0, <2>1 DEF Types
  <2>3. \A u \in Workers \ {w} : Kept(u)'
    BY <1>3, <2>1, <2>2 DEF Types
  <2>4. Filled(values[w])' = Filled(values[w])
    BY <2>1 DEF Filled, Bytes, Applied
  <2>5. Kept(w)'
    BY <1>0, <2>1, <2>2, <2>4 DEF Kept
  <2>6. QED  BY <1>0, <1>2, <2>1, <2>2, <2>3, <2>5
<1>8. ASSUME NEW w \in Workers, Return(w) PROVE ConsistentInv'
  <2>1. /\ UNCHANGED <<config, gen, phase, todo>>
        /\ pc' = [pc EXCEPT ![w] = pc'[w]] /\ pc'[w] \in {"top", "stopped"}
        /\ values' = [values EXCEPT ![w] = Empty]
        /\ request' = [request EXCEPT ![w] = Empty]
    BY <1>8 DEF Return, Goes, setupVars, Types
  <2>2. /\ DOMAIN request' = Workers /\ request'[w] = Empty
        /\ DOMAIN values' = Workers /\ values'[w] = Empty
        /\ \A u \in Workers \ {w} : request'[u] = request[u] /\ values'[u] = values[u]
    BY <1>0, <2>1
  <2>3. \A u \in Workers \ {w} : Kept(u)'
    BY <1>3, <2>1, <2>2 DEF Types
  <2>4. DOMAIN values'[w] = {}
    BY <2>2 DEF Empty
  <2>5. Kept(w)'
    BY <2>1, <2>2, <2>4 DEF Kept
  <2>6. QED  BY <1>0, <1>2, <2>1, <2>2, <2>3, <2>5
<1>9. ASSUME UNCHANGED <<config, gen, phase, pc, values, request, todo>>
      PROVE  ConsistentInv'
  <2>1. \A u \in Workers : Kept(u)'
    BY <1>0, <1>9, KeptByOthers
  <2>2. QED  BY <1>2, <1>9, <2>1
<1>10. QED
  BY <1>1, <1>4, <1>5, <1>6, <1>7, <1>8, <1>9
  DEF Next, Work, Terminated, Tick, Cancel, vars, setupVars, workerVars

\* Names without a generator, and those that are no words, have no value in a
\* text, so it depends on the values of the others only.
LEMMA ApplyLocal ==
    ASSUME NEW template, NEW u, NEW v, Words \cap DOMAIN u = Words \cap DOMAIN v,
           \A x \in Words \cap DOMAIN u : u[x] = v[x]
    PROVE  Apply(template, u) = Apply(template, v)
<1>1. \A piece : Fill(piece, u) = Fill(piece, v)
  BY DEF Fill
<1> DEFINE T(t, vals) == t = [i \in 0 .. Len(template) |->
              IF i = 0 THEN <<>> ELSE t[i - 1] \o Fill(template[i], vals)]
<1>2. \A t : T(t, u) <=> T(t, v)
  BY <1>1
<1>3. Apply(template, u) = (CHOOSE t : T(t, u))[Len(template)]
      /\ Apply(template, v) = (CHOOSE t : T(t, v))[Len(template)]
  BY DEF Apply
<1> HIDE DEF T
<1>4. (CHOOSE t : T(t, u)) = (CHOOSE t : T(t, v))
  BY <1>2
<1>5. QED  BY <1>3, <1>4

\* Whatever the configuration and the interleaving: one assignment of values of
\* the generators fills all places of a request that have no schema.
THEOREM RequestsAreConsistent == Spec => []RequestsConsistent
<1>1. Init => Types /\ ConsistentInv
  BY TypesInit, ConsistentInit
<1>2. Types /\ ConsistentInv /\ [Next]_vars => Types' /\ ConsistentInv'
  BY TypesNext, ConsistentNext
<1>3. ConsistentInv => RequestsConsistent
  <2> DEFINE names == DOMAIN gen \cap Words
             filling(w) == {p \in DOMAIN request[w] : p \notin DOMAIN config.schemas}
  <2> SUFFICES ASSUME ConsistentInv, NEW w \in Workers, request[w] # Empty
               PROVE  \E vals \in [names -> UNION {Yields(gen[x]) : x \in names}] :
                        /\ \A x \in names : vals[x] \in Yields(gen[x])
                        /\ \A p \in filling(w) :
                             request[w][p] = Apply(config.templates[p], vals)
    BY DEF RequestsConsistent
  <2> DEFINE vals == [x \in names |-> values[w][x]]
  <2>1. Kept(w) /\ pc[w] = "call" /\ request[w] = Filled(values[w])
    BY DEF ConsistentInv, Kept
  <2>2. DOMAIN values[w] = DOMAIN gen /\ \A x \in DOMAIN gen : values[w][x] \in Yields(gen[x])
    BY <2>1 DEF Kept
  <2>3. vals \in [names -> UNION {Yields(gen[x]) : x \in names}]
    BY <2>2
  <2>4. Words \cap DOMAIN vals = Words \cap DOMAIN values[w]
        /\ \A x \in Words \cap DOMAIN vals : vals[x] = values[w][x]
    BY <2>2
  <2> HIDE DEF vals
  <2>5. ASSUME NEW p \in filling(w)
        PROVE  request[w][p] = Apply(config.templates[p], vals)
    <3>1. request[w][p] = Apply(config.templates[p], values[w])
      BY <2>1 DEF Filled, Bytes
    <3>2. QED  BY <2>4, <3>1, ApplyLocal
  <2>6. \A x \in names : vals[x] \in Yields(gen[x])
    BY <2>2 DEF vals
  <2>7. QED  BY <2>3, <2>5, <2>6
<1>4. QED  BY <1>1, <1>2, <1>3, PTL DEF Spec

-----------------------------------------------------------------------------
(* Texts that are put together *)

\* t[i] has the first i of the n texts f, one after another.
Joins(t, f, n) ==
    /\ t[0] = <<>> /\ \A i \in 0 .. n : t[i] \in Seq(Symbols)
    /\ \A i \in 1 .. n : f[i] \in Seq(Symbols) /\ t[i] = t[i - 1] \o f[i]

IsText(t, template, vals) ==
    t = [i \in 0 .. Len(template) |->
           IF i = 0 THEN <<>> ELSE t[i - 1] \o Fill(template[i], vals)]

\* The recursion in Apply has a solution.
LEMMA TextExists ==
    ASSUME NEW template, Len(template) \in Nat, NEW vals
    PROVE  \E t : IsText(t, template, vals)
<1> DEFINE Upto(t, n) == t = [i \in 0 .. n |-> IF i = 0 THEN <<>>
                                 ELSE t[i - 1] \o Fill(template[i], vals)]
           T == {n \in Nat : \E t : Upto(t, n)}
<1>1. 0 \in T
  <2>1. Upto([i \in 0 .. 0 |-> <<>>], 0)
    OBVIOUS
  <2>2. QED  BY <2>1
<1>2. ASSUME NEW n \in T PROVE n + 1 \in T
  <2>1. PICK t : Upto(t, n)
    OBVIOUS
  <2> DEFINE u == [i \in 0 .. n + 1 |-> IF i = 0 THEN <<>>
                                        ELSE t[i - 1] \o Fill(template[i], vals)]
  <2>2. ASSUME NEW i \in 0 .. n + 1, i # 0 PROVE u[i - 1] = t[i - 1]
    <3> DEFINE j == i - 1
    <3>1. j \in 0 .. n /\ j \in 0 .. n + 1
      BY <2>2
    <3> HIDE DEF j
    <3>2. t[j] = IF j = 0 THEN <<>> ELSE t[j - 1] \o Fill(template[j], vals)
      BY <2>1, <3>1
    <3>3. u[j] = IF j = 0 THEN <<>> ELSE t[j - 1] \o Fill(template[j], vals)
      BY <3>1
    <3>4. QED  BY <3>2, <3>3 DEF j
  <2>3. Upto(u, n + 1)
    BY <2>2
  <2> HIDE DEF Upto
  <2>4. QED  BY <2>3
<1>3. \A n \in Nat : n \in T
  <2> HIDE DEF T
  <2> QED  BY <1>1, <1>2, Induction DEF T
<1>4. QED  BY <1>3 DEF IsText

\* Apply puts the pieces of a template together.
LEMMA Applies ==
    ASSUME NEW template, Len(template) \in Nat, NEW vals,
           \A i \in 1 .. Len(template) : Fill(template[i], vals) \in Seq(Symbols)
    PROVE  \E t : /\ Joins(t, [i \in 1 .. Len(template) |-> Fill(template[i], vals)],
                           Len(template))
                  /\ Apply(template, vals) = t[Len(template)]
<1> DEFINE t == CHOOSE t : IsText(t, template, vals)
           n == Len(template)
           f == [i \in 1 .. n |-> Fill(template[i], vals)]
<1>1. IsText(t, template, vals)
  BY TextExists
<1>2. Apply(template, vals) = t[n]
  BY DEF Apply, IsText
<1> HIDE DEF t
<1>3. t[0] = <<>> /\ \A i \in 1 .. n : t[i] = t[i - 1] \o Fill(template[i], vals)
  <2>1. ASSUME NEW i \in 0 .. n
        PROVE  t[i] = IF i = 0 THEN <<>> ELSE t[i - 1] \o Fill(template[i], vals)
    BY <1>1 DEF IsText
  <2>2. 0 \in 0 .. n /\ \A i \in 1 .. n : i \in 0 .. n /\ i # 0
    OBVIOUS
  <2>3. QED  BY <2>1, <2>2
<1>4. \A i \in 1 .. n : f[i] \in Seq(Symbols) /\ t[i] = t[i - 1] \o f[i]
  BY <1>3
<1> DEFINE T == {i \in Nat : i <= n => t[i] \in Seq(Symbols)}
<1> HIDE DEF f
<1>5. 0 \in T
  BY <1>3, EmptySeq
<1>6. ASSUME NEW i \in T PROVE i + 1 \in T
  <2>1. CASE i + 1 <= n
    <3>1. t[i] \in Seq(Symbols)
      BY <2>1
    <3> DEFINE k == i + 1
    <3>2. k \in 1 .. n /\ k - 1 = i
      BY <2>1
    <3> HIDE DEF k
    <3>3. t[k] = t[i] \o f[k] /\ f[k] \in Seq(Symbols)
      BY <1>4, <3>2
    <3>4. t[k] \in Seq(Symbols)
      BY <3>1, <3>3, ConcatProperties
    <3>5. QED  BY <3>4 DEF k
  <2>2. CASE ~(i + 1 <= n)
    BY <2>2
  <2>3. QED  BY <2>1, <2>2
<1>7. \A i \in Nat : i \in T
  <2> HIDE DEF T
  <2> QED  BY <1>5, <1>6, Induction DEF T
<1>8. \A i \in 0 .. n : t[i] \in Seq(Symbols)
  BY <1>7
<1>9. Joins(t, f, n)
  BY <1>3, <1>4, <1>8 DEF Joins
<1>10. QED  BY <1>2, <1>9 DEF f

\* What has been put together stays at the front.
LEMMA Front ==
    ASSUME NEW n \in Nat, NEW t, NEW f, Joins(t, f, n), NEW i \in 0 .. n
    PROVE  /\ Len(t[i]) \in Nat /\ Len(t[n]) \in Nat /\ Len(t[i]) <= Len(t[n])
           /\ \A j \in 1 .. Len(t[i]) : t[n][j] = t[i][j]
<1> DEFINE T == {k \in Nat : i + k <= n =>
                   /\ Len(t[i]) <= Len(t[i + k])
                   /\ \A j \in 1 .. Len(t[i]) : t[i + k][j] = t[i][j]}
<1>1. \A k \in 0 .. n : t[k] \in Seq(Symbols) /\ Len(t[k]) \in Nat
  BY LenProperties DEF Joins
<1>2. 0 \in T
  BY <1>1
<1>3. ASSUME NEW k \in T PROVE k + 1 \in T
  <2>1. CASE i + k + 1 <= n
    <3> DEFINE m == i + k
               q == i + k + 1
    <3>1. m \in 0 .. n /\ q \in 1 .. n /\ q - 1 = m /\ i + (k + 1) = q
      BY <2>1
    <3>2. /\ Len(t[i]) <= Len(t[m])
          /\ \A j \in 1 .. Len(t[i]) : t[m][j] = t[i][j]
      BY <3>1
    <3> HIDE DEF m, q
    <3>3. t[q] = t[m] \o f[q] /\ f[q] \in Seq(Symbols) /\ t[m] \in Seq(Symbols)
      BY <3>1 DEF Joins
    <3>4. /\ Len(t[m]) <= Len(t[q]) /\ \A j \in 1 .. Len(t[m]) : t[q][j] = t[m][j]
      <4> DEFINE a == t[m]
                 b == f[q]
      <4>1. t[q] = a \o b /\ a \in Seq(Symbols) /\ b \in Seq(Symbols)
        BY <3>3
      <4> HIDE DEF a, b
      <4>2. Len(a) \in Nat /\ Len(b) \in Nat
        BY <4>1, LenProperties
      <4>3. /\ Len(a \o b) = Len(a) + Len(b)
            /\ \A j \in 1 .. Len(a) + Len(b) :
                 (a \o b)[j] = IF j <= Len(a) THEN a[j] ELSE b[j - Len(a)]
        BY <4>1, ConcatProperties
      <4>4. Len(a) <= Len(t[q]) /\ \A j \in 1 .. Len(a) : t[q][j] = a[j]
        BY <4>1, <4>2, <4>3
      <4>5. QED  BY <4>4 DEF a
    <3>5. /\ Len(t[i]) <= Len(t[q]) /\ \A j \in 1 .. Len(t[i]) : t[q][j] = t[i][j]
      <4>1. Len(t[i]) \in Nat /\ Len(t[m]) \in Nat /\ Len(t[q]) \in Nat
        <5>1. q \in 0 .. n
          BY <3>1
        <5>2. QED  BY <1>1, <3>1, <5>1
      <4>2. QED  BY <3>2, <3>4, <4>1
    <3>6. QED  BY <3>1, <3>5
  <2>2. CASE ~(i + k + 1 <= n)
    BY <2>2
  <2>3. QED  BY <2>1, <2>2
<1>4. \A k \in Nat : k \in T
  <2> HIDE DEF T
  <2> QED  BY <1>2, <1>3, Induction DEF T
<1> DEFINE k == n - i
<1>5. k \in Nat /\ i + k = n
  OBVIOUS
<1> HIDE DEF k
<1>6. k \in T
  BY <1>4, <1>5
<1>7. /\ Len(t[i]) <= Len(t[n]) /\ \A j \in 1 .. Len(t[i]) : t[n][j] = t[i][j]
  BY <1>5, <1>6
<1>8. QED  BY <1>1, <1>7

\* Texts with equal parts are equal.
LEMMA SameFront ==
    ASSUME NEW n \in Nat, NEW t, NEW f, Joins(t, f, n), NEW u, NEW g, Joins(u, g, n),
           NEW i \in 0 .. n, \A j \in 1 .. i : f[j] = g[j]
    PROVE  t[i] = u[i]
<1> DEFINE T == {k \in Nat : k <= i => t[k] = u[k]}
<1>1. 0 \in T
  BY DEF Joins
<1>2. ASSUME NEW k \in T PROVE k + 1 \in T
  <2>1. CASE k + 1 <= i
    <3> DEFINE m == k + 1
    <3>1. m \in 1 .. n /\ m \in 1 .. i /\ m - 1 = k /\ t[k] = u[k]
      BY <2>1
    <3> HIDE DEF m
    <3>2. t[m] = t[k] \o f[m] /\ u[m] = u[k] \o g[m] /\ f[m] = g[m]
      BY <3>1 DEF Joins
    <3>3. t[m] = u[m]
      BY <3>1, <3>2
    <3>4. QED  BY <3>3 DEF m
  <2>2. CASE ~(k + 1 <= i)
    BY <2>2
  <2>3. QED  BY <2>1, <2>2
<1>3. \A k \in Nat : k \in T
  <2> HIDE DEF T
  <2> QED  BY <1>1, <1>2, Induction DEF T
<1>4. QED  BY <1>3

\* Two equal texts with one part at the same place, which is the last in both or
\* ends in both at a symbol that it does not have: it is no longer in the second
\* than in the first.
LEMMA NoLonger ==
    ASSUME NEW n \in Nat, NEW t, NEW f, Joins(t, f, n), NEW u, NEW g, Joins(u, g, n),
           t[n] = u[n], NEW i \in 1 .. n, t[i - 1] = u[i - 1],
           \/ i = n
           \/ /\ i < n /\ f[i + 1] = g[i + 1] /\ f[i + 1] # <<>>
              /\ \A k \in DOMAIN g[i] : g[i][k] # f[i + 1][1]
    PROVE  Len(g[i]) <= Len(f[i])
<1> DEFINE A == t[i - 1]
           F == f[i]
           G == g[i]
<1>1. i - 1 \in 0 .. n /\ i \in 0 .. n /\ i \in 1 .. n
  OBVIOUS
<1>2. /\ t[i] = A \o F /\ u[i] = A \o G
      /\ A \in Seq(Symbols) /\ F \in Seq(Symbols) /\ G \in Seq(Symbols)
  BY <1>1 DEF Joins
<1> HIDE DEF A, F, G
<1>3. /\ Len(t[i]) = Len(A) + Len(F) /\ Len(u[i]) = Len(A) + Len(G)
      /\ Len(A) \in Nat /\ Len(F) \in Nat /\ Len(G) \in Nat
      /\ A \o F \in Seq(Symbols)
  BY <1>2, ConcatProperties, LenProperties
<1>4. CASE i = n
  <2>1. Len(A) + Len(F) = Len(A) + Len(G)
    BY <1>3, <1>4
  <2>2. Len(G) <= Len(F)
    BY <1>3, <2>1
  <2>3. QED  BY <2>2 DEF F, G
<1>5. CASE i < n
  <2> DEFINE C == f[i + 1]
             q == Len(A) + Len(F) + 1
             m == i + 1
  <2>1. m \in 1 .. n /\ m \in 0 .. n /\ m - 1 = i
    BY <1>5
  <2> HIDE DEF m
  <2>2. t[m] = t[i] \o f[m] /\ f[m] \in Seq(Symbols)
    BY <2>1 DEF Joins
  <2>3. t[m] = (A \o F) \o C /\ C \in Seq(Symbols) /\ C # <<>>
    BY <1>2, <1>5, <2>2 DEF m
  <2>4. \A k \in DOMAIN G : G[k] # C[1]
    BY <1>5 DEF G
  <2> HIDE DEF C
  <2> SUFFICES ASSUME Len(F) < Len(G) PROVE FALSE
    BY <1>3 DEF F, G
  <2>5. q \in 1 .. Len(t[m]) /\ t[m][q] = C[1]
    <3>1. Len(C) \in Nat /\ Len(C) > 0
      BY <2>3, LenProperties, EmptySeq, SeqEqual
    <3>2. Len(A \o F) = Len(A) + Len(F)
      BY <1>2, ConcatProperties
    <3>3. /\ Len(t[m]) = Len(A) + Len(F) + Len(C)
          /\ \A j \in 1 .. Len(A) + Len(F) + Len(C) :
               t[m][j] = IF j <= Len(A) + Len(F) THEN (A \o F)[j] ELSE C[j - (Len(A) + Len(F))]
      BY <1>3, <2>3, <3>2, ConcatProperties
    <3>4. q \in 1 .. Len(A) + Len(F) + Len(C) /\ ~(q <= Len(A) + Len(F))
          /\ q - (Len(A) + Len(F)) = 1
      BY <1>3, <3>1
    <3>5. QED  BY <3>3, <3>4
  <2>6. q \in 1 .. Len(u[i]) /\ u[i][q] = G[Len(F) + 1] /\ Len(F) + 1 \in DOMAIN G
    <3>1. \A j \in 1 .. Len(A) + Len(G) :
            u[i][j] = IF j <= Len(A) THEN A[j] ELSE G[j - Len(A)]
      BY <1>2, ConcatProperties
    <3>2. q \in 1 .. Len(A) + Len(G) /\ ~(q <= Len(A)) /\ q - Len(A) = Len(F) + 1
      BY <1>3
    <3>3. Len(F) + 1 \in DOMAIN G
      BY <1>2, <1>3, LenProperties
    <3>4. QED  BY <1>3, <3>1, <3>2, <3>3
  <2> HIDE DEF q
  <2>7. t[n][q] = t[m][q]
    BY <2>1, <2>5, Front
  <2>8. u[n][q] = u[i][q]
    BY <1>1, <2>6, Front
  <2>9. QED  BY <2>4, <2>5, <2>6, <2>7, <2>8
<1>6. QED  BY <1>4, <1>5

\* So that part is the same.
LEMMA SamePart ==
    ASSUME NEW n \in Nat, NEW t, NEW f, Joins(t, f, n), NEW u, NEW g, Joins(u, g, n),
           t[n] = u[n], NEW i \in 1 .. n, \A j \in 1 .. i - 1 : f[j] = g[j],
           \/ i = n
           \/ /\ i < n /\ f[i + 1] = g[i + 1] /\ f[i + 1] # <<>>
              /\ \A k \in DOMAIN f[i] : f[i][k] # f[i + 1][1]
              /\ \A k \in DOMAIN g[i] : g[i][k] # f[i + 1][1]
    PROVE  f[i] = g[i]
<1>1. i - 1 \in 0 .. n /\ i \in 0 .. n
  OBVIOUS
<1>2. t[i - 1] = u[i - 1]
  BY <1>1, SameFront
<1>3. Len(g[i]) <= Len(f[i])
  BY <1>2, NoLonger
<1>4. Len(f[i]) <= Len(g[i])
  BY <1>2, NoLonger
<1> DEFINE A == t[i - 1]
           F == f[i]
           G == g[i]
<1>5. /\ t[i] = A \o F /\ u[i] = A \o G
      /\ A \in Seq(Symbols) /\ F \in Seq(Symbols) /\ G \in Seq(Symbols)
  BY <1>1, <1>2 DEF Joins
<1>6. \A j \in 1 .. Len(t[i]) : t[n][j] = t[i][j]
  BY <1>1, Front
<1>7. \A j \in 1 .. Len(u[i]) : u[n][j] = u[i][j]
  BY <1>1, Front
<1>8. /\ Len(A) \in Nat /\ Len(F) \in Nat /\ Len(F) = Len(G)
      /\ Len(t[i]) = Len(A) + Len(F) /\ Len(u[i]) = Len(A) + Len(G)
      /\ \A j \in 1 .. Len(A) + Len(F) :
           t[i][j] = IF j <= Len(A) THEN A[j] ELSE F[j - Len(A)]
      /\ \A j \in 1 .. Len(A) + Len(G) :
           u[i][j] = IF j <= Len(A) THEN A[j] ELSE G[j - Len(A)]
  <2>1. Len(A) \in Nat /\ Len(F) \in Nat /\ Len(G) \in Nat
    BY <1>5, LenProperties
  <2>2. Len(F) = Len(G)
    BY <1>3, <1>4, <2>1
  <2>3. /\ Len(A \o F) = Len(A) + Len(F) /\ Len(A \o G) = Len(A) + Len(G)
        /\ \A j \in 1 .. Len(A) + Len(F) :
             (A \o F)[j] = IF j <= Len(A) THEN A[j] ELSE F[j - Len(A)]
        /\ \A j \in 1 .. Len(A) + Len(G) :
             (A \o G)[j] = IF j <= Len(A) THEN A[j] ELSE G[j - Len(A)]
    <3> HIDE DEF A, F, G
    <3> QED  BY <1>5, ConcatProperties
  <2> HIDE DEF A, F, G
  <2>4. QED  BY <1>5, <2>1, <2>2, <2>3
<1> HIDE DEF A, F, G
<1>9. ASSUME NEW k \in 1 .. Len(F) PROVE F[k] = G[k]
  <2> DEFINE j == Len(A) + k
  <2>0. j \in 1 .. Len(A) + Len(F) /\ ~(j <= Len(A)) /\ j - Len(A) = k
    BY <1>8
  <2>1. j \in 1 .. Len(t[i]) /\ t[i][j] = F[k]
    BY <1>8, <2>0
  <2>2. j \in 1 .. Len(u[i]) /\ u[i][j] = G[k]
    BY <1>8, <2>0
  <2> HIDE DEF j
  <2>3. QED  BY <1>6, <1>7, <2>1, <2>2
<1>10. F = G
  BY <1>5, <1>8, <1>9, SeqEqual
<1>11. QED  BY <1>10 DEF F, G

-----------------------------------------------------------------------------
(* Requests that are told apart *)

\* The configuration that runs is one of those considered, its generators are
\* those of its variables, and nothing has been sent before it runs.
SetUp ==
    /\ phase = "new" => sent = {} /\ calls = 0
    /\ IsFiniteSet(sent)
    /\ phase = "running" =>
         /\ config \in Configurations
         /\ \A x \in DOMAIN gen : \E k \in DOMAIN config.variables :
              /\ config.variables[k].name = x /\ gen[x] # Refused
              /\ gen[x] = FromVariable(config.variables[k])

\* Values of all variables.
Assignment(vals) ==
    DOMAIN vals = DOMAIN gen /\ \A y \in DOMAIN gen : vals[y] \in Yields(gen[y])

\* What tells a request apart comes from values of which v is the one of x.
Carries(s, x, v) ==
    /\ s # Invalid
    /\ \E vals : Assignment(vals) /\ vals[x] = v /\ s = Filled(vals)[Identity]

\* A worker that has drawn from x and not sent its request yet.
Holds(w, x) == pc[w] = "draw" /\ x \notin todo[w]

Returned(x) == {drawn[x][k] : k \in 1 .. Len(drawn[x])}

\* Every value that x has returned has one owner at most: a worker or a request.
OneOwner(x) ==
    /\ \A w \in Workers : Holds(w, x) => values[w][x] \in Returned(x)
    /\ \A u, w \in Workers : Holds(u, x) /\ Holds(w, x) /\ u # w =>
         values[u][x] # values[w][x]
    /\ \A s \in sent : \E v \in Returned(x) \cap Yields(gen[x]) :
         Carries(s, x, v) /\ \A w \in Workers : Holds(w, x) => values[w][x] # v

Owned ==
    phase = "running" => \A x \in DOMAIN gen :
      FirstRound(x) /\ Tells(x) => OneOwner(x) /\ Cardinality(sent) = calls

\* The places of a request include the one that tells requests apart; its
\* template is a sequence of pieces, which become texts.
LEMMA IdentityApplied ==
    ASSUME SetUp, phase = "running"
    PROVE  /\ Identity \in Applied /\ Len(config.templates[Identity]) \in Nat
           /\ DOMAIN config.templates[Identity] = 1 .. Len(config.templates[Identity])
           /\ \A vals : Assignment(vals) => \A i \in DOMAIN config.templates[Identity] :
                Fill(config.templates[Identity][i], vals) \in Seq(Symbols)
<1> DEFINE t == config.templates[Identity]
<1>1. config \in Configurations
  BY DEF SetUp
<1>2. config.engine \in {"http", "kafka", "grpc"} /\ DOMAIN config.templates = Applied
  BY <1>1, TemplatesAssumption DEF Places, Applied
<1>3. Identity \in Applied
  BY <1>2 DEF Identity, Applied, Places
<1>4. /\ t \in Seq({t[i] : i \in DOMAIN t})
      /\ \A i \in DOMAIN t : t[i].kind = "text" => t[i].text \in Seq(Symbols)
  BY <1>1, <1>2, <1>3, TemplatesAssumption
<1>5. ASSUME NEW vals, Assignment(vals), NEW i \in DOMAIN t
      PROVE  Fill(t[i], vals) \in Seq(Symbols)
  <2>1. <<Unfilled>> \in Seq(Symbols)
    BY SpellingAssumption
  <2>2. ASSUME NEW x \in DOMAIN gen PROVE Spelling[vals[x]] \in Seq(Symbols)
    <3>1. PICK k \in DOMAIN config.variables :
            gen[x] # Refused /\ gen[x] = FromVariable(config.variables[k])
      BY DEF SetUp
    <3>2. Yields(gen[x]) \subseteq DOMAIN Spelling
      BY <1>1, <3>1, SpellingAssumption
    <3>3. QED  BY <1>5, <3>2, SpellingAssumption DEF Assignment
  <2>3. QED  BY <1>4, <1>5, <2>1, <2>2 DEF Fill, Assignment
<1> HIDE DEF t
<1>6. Len(t) \in Nat /\ DOMAIN t = 1 .. Len(t)
  BY <1>4
<1>7. QED  BY <1>3, <1>5, <1>6 DEF t

\* Filling a request and encoding it lose no value that it is told apart by.
LEMMA FilledCarries ==
    ASSUME SetUp, phase = "running", NEW vals, Assignment(vals), NEW x,
           ~Unsendable(Filled(vals))
    PROVE  Carries(Filled(vals)[Identity], x, vals[x])
BY IdentityApplied DEF Carries, Unsendable

\* Texts from two values of a variable that they show differ.
LEMMA TextsDiffer ==
    ASSUME SetUp, phase = "running", NEW x \in DOMAIN gen \cap Words,
           NEW template, template = config.templates[Identity], Shows(template, x),
           NEW a, Assignment(a), NEW b, Assignment(b),
           Apply(template, a) = Apply(template, b)
    PROVE  a[x] = b[x]
<1> DEFINE n == Len(template)
           f == [j \in 1 .. n |-> Fill(template[j], a)]
           g == [j \in 1 .. n |-> Fill(template[j], b)]
<1>1. n \in Nat /\ DOMAIN template = 1 .. n
  BY IdentityApplied
<1>2. PICK t : Joins(t, f, n) /\ Apply(template, a) = t[n]
  BY <1>1, IdentityApplied, Applies
<1>3. PICK u : Joins(u, g, n) /\ Apply(template, b) = u[n]
  BY <1>1, IdentityApplied, Applies
<1>4. PICK i \in 1 .. n :
        /\ template[i] = Slot(x) /\ \A j \in 1 .. i - 1 : Fixed(template[j])
        /\ i = n \/ Delimits(template[i + 1], x)
  BY <1>1 DEF Shows
<1>5. f[i] = Spelling[a[x]] /\ g[i] = Spelling[b[x]]
  BY <1>4 DEF Fill, Slot, Assignment
<1>6. ASSUME NEW j \in 1 .. i - 1 PROVE f[j] = g[j]
  <2>1. j \in 1 .. n /\ Fixed(template[j])
    BY <1>1, <1>4
  <2>2. Fill(template[j], a) = Fill(template[j], b)
    BY <2>1 DEF Fill, Fixed, Assignment
  <2>3. QED  BY <2>1, <2>2
<1>7. ASSUME i # n
      PROVE  /\ i < n /\ f[i + 1] = g[i + 1] /\ f[i + 1] # <<>>
             /\ \A k \in DOMAIN f[i] : f[i][k] # f[i + 1][1]
             /\ \A k \in DOMAIN g[i] : g[i][k] # f[i + 1][1]
  <2>1. i < n /\ i + 1 \in 1 .. n
    BY <1>1, <1>7
  <2>2. Delimits(template[i + 1], x)
    BY <1>4, <1>7
  <2>3. /\ f[i + 1] = template[i + 1].text /\ g[i + 1] = template[i + 1].text
        /\ template[i + 1].text # <<>>
    BY <2>1, <2>2 DEF Fill, Delimits
  <2>4. a[x] \in Yields(gen[x]) /\ b[x] \in Yields(gen[x])
    BY DEF Assignment
  <2> HIDE DEF f, g
  <2>5. QED  BY <1>5, <2>1, <2>2, <2>3, <2>4 DEF Delimits
<1> HIDE DEF f, g, n
<1>8. t[n] = u[n]
  BY <1>2, <1>3
<1>9. f[i] = g[i]
  BY <1>1, <1>2, <1>3, <1>6, <1>7, <1>8, SamePart
<1>10. PICK k \in DOMAIN config.variables :
         gen[x] # Refused /\ gen[x] = FromVariable(config.variables[k])
  BY DEF SetUp
<1>11. Spelling[a[x]] = Spelling[b[x]]
  BY <1>5, <1>9
<1>12. a[x] \in Yields(gen[x]) /\ b[x] \in Yields(gen[x])
  BY DEF Assignment
<1>13. \A v, w \in Yields(gen[x]) : Spelling[v] = Spelling[w] => v = w
  BY <1>10, SpellingAssumption DEF SetUp
<1>14. QED  BY <1>11, <1>12, <1>13

\* No text that shows a value is empty.
LEMMA TextsFilled ==
    ASSUME SetUp, phase = "running", NEW x \in DOMAIN gen \cap Words,
           NEW template, template = config.templates[Identity], Shows(template, x),
           NEW a, Assignment(a)
    PROVE  /\ Apply(template, a) \in Seq(Symbols) \ {<<>>}
           /\ template = <<Slot(x)>> => Apply(template, a) = Spelling[a[x]]
<1> DEFINE n == Len(template)
           f == [j \in 1 .. n |-> Fill(template[j], a)]
<1>1. n \in Nat /\ DOMAIN template = 1 .. n
  BY IdentityApplied
<1>2. PICK t : Joins(t, f, n) /\ Apply(template, a) = t[n]
  BY <1>1, IdentityApplied, Applies
<1>3. PICK i \in 1 .. n : template[i] = Slot(x)
  BY <1>1 DEF Shows
<1>4. f[i] = Spelling[a[x]]
  BY <1>3 DEF Fill, Slot, Assignment
<1>5. PICK k \in DOMAIN config.variables :
        gen[x] # Refused /\ gen[x] = FromVariable(config.variables[k])
  BY DEF SetUp
<1>6. Spelling[a[x]] \in Seq(Symbols) \ {<<>>}
  BY <1>5, SpellingAssumption DEF SetUp, Assignment
<1> HIDE DEF f, n
<1>7. i \in 0 .. n /\ i - 1 \in 0 .. n /\ n \in 0 .. n
  BY <1>1
<1>8. /\ t[i] = t[i - 1] \o f[i] /\ t[i - 1] \in Seq(Symbols) /\ f[i] \in Seq(Symbols)
      /\ t[n] \in Seq(Symbols) /\ t[0] = <<>>
  BY <1>2, <1>7 DEF Joins
<1>9. Len(t[i]) \in Nat /\ Len(t[i]) >= 1
  <2> DEFINE A == t[i - 1]
             F == Spelling[a[x]]
  <2>1. t[i] = A \o F /\ A \in Seq(Symbols) /\ F \in Seq(Symbols) /\ F # <<>>
    BY <1>4, <1>6, <1>8
  <2> HIDE DEF A, F
  <2>2. Len(A \o F) = Len(A) + Len(F) /\ Len(A) \in Nat /\ Len(F) \in Nat
    BY <2>1, ConcatProperties, LenProperties
  <2>3. Len(F) # 0
    BY <2>1, <2>2, EmptySeq, SeqEqual
  <2>4. QED  BY <2>1, <2>2, <2>3
<1>10. Len(t[i]) <= Len(t[n]) /\ Len(t[n]) \in Nat
  BY <1>1, <1>2, <1>7, Front
<1>11. t[n] # <<>>
  <2>1. Len(t[n]) # 0
    BY <1>9, <1>10
  <2>2. QED  BY <2>1, EmptySeq
<1>12. ASSUME template = <<Slot(x)>> PROVE t[n] = Spelling[a[x]]
  <2>1. n = 1 /\ i = 1
    BY <1>3, <1>12 DEF n
  <2>2. t[1] = <<>> \o f[1] /\ f[1] \in Seq(Symbols)
    <3>1. i - 1 = 0
      BY <2>1
    <3>2. QED  BY <1>8, <2>1, <3>1
  <2>3. <<>> \o f[1] = f[1]
    BY <2>2, ConcatEmptySeq
  <2>4. QED  BY <1>4, <2>1, <2>2, <2>3
<1>13. QED  BY <1>2, <1>8, <1>11, <1>12

\* What a value becomes that a primitive schema encodes.
LEMMA PrimitiveEncoded ==
    ASSUME NEW type \in PrimitiveTypes, NEW d, Encode(d, Primitive(type), 0) # Invalid
    PROVE  LET v == IF d.go = "float64" THEN CoerceNumber(type, d) ELSE d
           IN  /\ d # Invalid /\ v.go = GoTypes[type]
               /\ Encode(d, Primitive(type), 0).value = v
<1> DEFINE P == Primitive(type)
           v == IF d.go = "float64" THEN CoerceNumber(type, d) ELSE d
           c == CoerceTypes(Coerce, P, d)
<1>1. P.type = type /\ ~IsContainer(P) /\ type # "union"
  BY DEF Primitive, IsContainer, PrimitiveTypes
<1>2. c = v
  BY <1>1 DEF CoerceTypes, PrimitiveTypes
<1>3. d # Invalid /\ Marshals(P, c) /\ Encode(d, P, 0) = [header |-> 0 > 0, value |-> c]
  BY DEF Encode
<1> HIDE DEF c, v, P
<1>4. c.go = GoTypes[type]
  BY <1>1, <1>3 DEF Marshals, Everywhere, AcceptsLeaf
<1>5. Encode(d, P, 0).value = c
  BY <1>3
<1>6. QED  BY <1>2, <1>3, <1>4, <1>5 DEF P, v

\* Texts that are not quoted are numbers to Unmarshal, or refused.
LEMMA JSONShape ==
    ASSUME NEW text
    PROVE  /\ Quoted(text) => JSON(text) = Text(SubSeq(text, 2, Len(text) - 1))
           /\ ~Quoted(text) /\ JSON(text) # Invalid =>
                \E n \in DOMAIN Spelling \cap Int : Spelling[n] = text /\ JSON(text) = Number(n)
<1> DEFINE numbers == {n \in DOMAIN Spelling \cap Int : Spelling[n] = text}
<1>1. numbers # {} => (CHOOSE n \in numbers : TRUE) \in numbers
  OBVIOUS
<1>2. QED  BY <1>1 DEF JSON

\* No two strings in quotes have the same text inside.
LEMMA Unquoted ==
    ASSUME NEW t \in Seq(Symbols), NEW u \in Seq(Symbols), Quoted(t), Quoted(u),
           SubSeq(t, 2, Len(t) - 1) = SubSeq(u, 2, Len(u) - 1)
    PROVE  t = u
<1>1. Len(t) \in Nat /\ Len(u) \in Nat /\ Len(t) > 1 /\ Len(u) > 1
  BY LenProperties DEF Quoted
<1>2. /\ t[1] = Quote /\ t[Len(t)] = Quote /\ u[1] = Quote /\ u[Len(u)] = Quote
  <2>1. 1 \in {i \in DOMAIN t : t[i] = Quote} /\ Len(t) \in {i \in DOMAIN t : t[i] = Quote}
    BY DEF Quoted
  <2>2. 1 \in {i \in DOMAIN u : u[i] = Quote} /\ Len(u) \in {i \in DOMAIN u : u[i] = Quote}
    BY DEF Quoted
  <2>3. QED  BY <2>1, <2>2
<1>3. /\ Len(SubSeq(t, 2, Len(t) - 1)) = Len(t) - 2
      /\ Len(SubSeq(u, 2, Len(u) - 1)) = Len(u) - 2
      /\ \A k \in 1 .. Len(t) - 2 : SubSeq(t, 2, Len(t) - 1)[k] = t[k + 1]
      /\ \A k \in 1 .. Len(u) - 2 : SubSeq(u, 2, Len(u) - 1)[k] = u[k + 1]
  <2>1. ASSUME NEW s \in Seq(Symbols), Len(s) \in Nat, Len(s) > 1
        PROVE  /\ Len(SubSeq(s, 2, Len(s) - 1)) = Len(s) - 2
               /\ \A k \in 1 .. Len(s) - 2 : SubSeq(s, 2, Len(s) - 1)[k] = s[k + 1]
    <3> DEFINE n == Len(s) - 1
    <3>1. n \in Int /\ n >= 1 /\ Len(s) - 2 = n - 1 /\ \A i \in 2 .. n : i \in 1 .. Len(s)
      BY <2>1
    <3>2. \A i \in 2 .. n : s[i] \in Symbols
      BY <3>1, ElementOfSeq
    <3> HIDE DEF n
    <3>3. /\ Len(SubSeq(s, 2, n)) = IF 2 <= n THEN n - 2 + 1 ELSE 0
          /\ \A i \in 1 .. n - 2 + 1 : SubSeq(s, 2, n)[i] = s[2 + i - 1]
      BY <3>1, <3>2, SubSeqProperties
    <3>4. Len(SubSeq(s, 2, n)) = n - 1 /\ n - 2 + 1 = n - 1
      BY <3>1, <3>3
    <3>5. ASSUME NEW k \in 1 .. n - 1 PROVE SubSeq(s, 2, n)[k] = s[k + 1]
      <4>1. 2 + k - 1 = k + 1
        BY <3>1
      <4>2. QED  BY <3>3, <3>4, <4>1
    <3>6. QED  BY <3>1, <3>4, <3>5 DEF n
  <2>2. QED  BY <1>1, <2>1
<1>4. Len(t) = Len(u)
  BY <1>1, <1>3
<1>5. ASSUME NEW j \in 1 .. Len(t) PROVE t[j] = u[j]
  <2>1. CASE j = 1 \/ j = Len(t)
    BY <1>2, <1>4, <2>1
  <2>2. CASE j # 1 /\ j # Len(t)
    <3> DEFINE k == j - 1
    <3>1. k \in 1 .. Len(t) - 2 /\ k \in 1 .. Len(u) - 2 /\ k + 1 = j
      BY <1>1, <1>4, <2>2
    <3> HIDE DEF k
    <3>2. t[k + 1] = u[k + 1]
      BY <1>3, <3>1
    <3>3. QED  BY <3>1, <3>2
  <2>3. QED  BY <2>1, <2>2
<1>6. QED  BY <1>4, <1>5

\* No two values of x give the same bytes, if the template shows it and the
\* encoding preserves it.
LEMMA CarriesOne ==
    ASSUME SetUp, phase = "running", NEW x \in DOMAIN gen, FirstRound(x), Tells(x),
           NEW s, NEW v, NEW w, Carries(s, x, v), Carries(s, x, w)
    PROVE  v = w
<1> DEFINE T == config.templates[Identity]
<1>1. PICK a : Assignment(a) /\ a[x] = v /\ s = Filled(a)[Identity]
  BY DEF Carries
<1>2. PICK b : Assignment(b) /\ b[x] = w /\ s = Filled(b)[Identity]
  BY DEF Carries
<1>3. x \in Words /\ Shows(T, x) /\ s # Invalid
  BY DEF FirstRound, Tells, Carries
<1> DEFINE ta == Apply(T, a)
           tb == Apply(T, b)
<1>4. s = Bytes(Identity, ta) /\ s = Bytes(Identity, tb)
  BY <1>1, <1>2, IdentityApplied DEF Filled
<1>5. /\ ta \in Seq(Symbols) \ {<<>>} /\ tb \in Seq(Symbols) \ {<<>>}
      /\ T = <<Slot(x)>> => ta = Spelling[v] /\ tb = Spelling[w]
  BY <1>1, <1>2, <1>3, TextsFilled
<1>6. ta = tb => v = w
  BY <1>1, <1>2, <1>3, TextsDiffer
<1> HIDE DEF ta, tb
<1>7. CASE Identity \notin DOMAIN config.schemas
  BY <1>4, <1>6, <1>7 DEF Bytes
<1>8. CASE Identity \in DOMAIN config.schemas
  <2> DEFINE type == config.schemas[Identity]
             ja == JSON(ta)
             jb == JSON(tb)
             coerced(d) == IF d.go = "float64" THEN CoerceNumber(type, d) ELSE d
  <2>1. type \in PrimitiveTypes
    BY <1>8, TemplatesAssumption DEF SetUp
  <2>2. s = Encode(ja, Primitive(type), 0) /\ s = Encode(jb, Primitive(type), 0)
    BY <1>4, <1>5, <1>8 DEF Bytes
  <2>3. /\ ja # Invalid /\ coerced(ja).go = GoTypes[type] /\ s.value = coerced(ja)
        /\ jb # Invalid /\ coerced(jb).go = GoTypes[type] /\ s.value = coerced(jb)
    <3> HIDE DEF ja, jb, type
    <3> QED  BY <1>3, <2>1, <2>2, PrimitiveEncoded
  <2>4. CASE type = "string"
    <3>1. ASSUME NEW t \in {ta, tb} PROVE Quoted(t)
      <4> SUFFICES ASSUME ~Quoted(t) PROVE FALSE
        OBVIOUS
      <4>1. JSON(t) # Invalid /\ coerced(JSON(t)).go = "string"
        BY <2>3, <2>4, <3>1 DEF GoTypes
      <4>2. PICK n \in DOMAIN Spelling \cap Int : JSON(t) = Number(n)
        BY <4>1, JSONShape
      <4>3. coerced(JSON(t)).go = "float64"
        BY <2>4, <4>2 DEF CoerceNumber, Number
      <4>4. QED  BY <4>1, <4>3
    <3>2. ja = Text(SubSeq(ta, 2, Len(ta) - 1)) /\ jb = Text(SubSeq(tb, 2, Len(tb) - 1))
      BY <3>1, JSONShape
    <3>3. coerced(ja) = ja /\ coerced(jb) = jb
      BY <3>2 DEF Text
    <3>4. ja = jb
      BY <2>3, <3>3
    <3>5. SubSeq(ta, 2, Len(ta) - 1) = SubSeq(tb, 2, Len(tb) - 1)
      <4> DEFINE p == SubSeq(ta, 2, Len(ta) - 1)
                 q == SubSeq(tb, 2, Len(tb) - 1)
      <4> HIDE DEF p, q
      <4>1. Text(p) = Text(q)
        BY <3>2, <3>4 DEF p, q
      <4>2. Text(p).text = p /\ Text(q).text = q
        BY DEF Text
      <4>3. p = q
        BY <4>1, <4>2
      <4>4. QED  BY <4>3 DEF p, q
    <3>6. ta = tb
      BY <1>5, <3>1, <3>5, Unquoted
    <3>7. QED  BY <1>6, <3>6
  <2>5. CASE type # "string"
    <3>1. T = <<Slot(x)>> /\ \A y \in Yields(gen[x]) : Exact(y, type)
      BY <1>8, <2>5 DEF Tells, Preserves
    <3>2. ASSUME NEW y \in Yields(gen[x]), NEW t, t = Spelling[y], JSON(t) # Invalid
          PROVE  coerced(JSON(t)).n = y
      <4>1. y \in Ints /\ Float(y) = y /\ (type = "float" => Float32(y) = y)
        BY <3>1, <3>2 DEF Exact
      <4>2. PICK k \in DOMAIN config.variables :
              gen[x] # Refused /\ gen[x] = FromVariable(config.variables[k])
        BY DEF SetUp
      <4>3. y \in DOMAIN Spelling /\ y \in Int
        BY <3>2, <4>1, <4>2, SpellingAssumption, WidthAssumption DEF SetUp, Ints, MinInt
      <4>4. ~Quoted(t)
        <5>1. \A i \in DOMAIN t : t[i] # Quote
          BY <3>2, <4>3, SpellingAssumption
        <5>2. QED  BY <5>1 DEF Quoted
      <4>5. PICK n \in DOMAIN Spelling \cap Int : Spelling[n] = t /\ JSON(t) = Number(n)
        BY <3>2, <4>4, JSONShape
      <4>6. n = y
        BY <3>2, <4>3, <4>5, SpellingAssumption
      <4>7. JSON(t).go = "float64" /\ JSON(t).n = y
        BY <4>1, <4>5, <4>6 DEF Number
      <4>8. FromFloat(y) = y
        BY <4>1 DEF FromFloat
      <4> HIDE DEF type
      <4>9. CoerceNumber(type, JSON(t)).n = y
        BY <4>1, <4>7, <4>8 DEF CoerceNumber
      <4>10. QED  BY <4>7, <4>9
    <3>3. v \in Yields(gen[x]) /\ w \in Yields(gen[x])
      BY <1>1, <1>2 DEF Assignment
    <3>4. coerced(ja).n = v /\ coerced(jb).n = w
      BY <1>5, <2>3, <3>1, <3>2, <3>3
    <3>5. QED  BY <2>3, <3>4
  <2>6. QED  BY <2>4, <2>5
<1>9. QED  BY <1>7, <1>8

\* The set-up does not change while load is generated.
LEMMA SetUpNext == Types /\ SetUp /\ [Next]_vars => SetUp'
<1> SUFFICES ASSUME Types, SetUp, [Next]_vars PROVE SetUp'
  OBVIOUS
<1>1. ASSUME NEW c \in Configurations, NewSubstitutor(c) PROVE SetUp'
  <2>1. config' = c /\ UNCHANGED <<sent, calls>> /\ phase' \in {"refused", "running"}
    BY <1>1 DEF NewSubstitutor
  <2>2. CASE phase' = "refused"
    BY <2>1, <2>2 DEF SetUp
  <2>3. CASE phase' = "running"
    <3>1. PICK at \in Latest(c.variables) :
            gen' = [x \in DOMAIN at |-> FromVariable(c.variables[at[x]])]
      BY <1>1, <2>3 DEF NewSubstitutor
    <3>2. \A k \in DOMAIN c.variables : FromVariable(c.variables[k]) # Refused
      BY <1>1, <2>3 DEF NewSubstitutor
    <3>3. ASSUME NEW x \in DOMAIN gen'
          PROVE  \E k \in DOMAIN c.variables :
                   /\ c.variables[k].name = x /\ gen'[x] # Refused
                   /\ gen'[x] = FromVariable(c.variables[k])
      <4>1. at[x] \in DOMAIN c.variables /\ gen'[x] = FromVariable(c.variables[at[x]])
        BY <3>1 DEF Latest
      <4>2. c.variables[at[x]].name = x
        <5>1. PICK k \in DOMAIN c.variables : c.variables[k].name = x
          BY <3>1 DEF Latest
        <5>2. QED  BY <5>1 DEF Latest
      <4>3. QED  BY <3>2, <4>1, <4>2
    <3>4. QED  BY <2>1, <3>3 DEF SetUp
  <2>4. QED  BY <2>1, <2>2, <2>3
<1>2. ASSUME UNCHANGED <<config, gen>>, phase' = "running" => phase = "running",
             phase' # "new" \/ UNCHANGED <<phase, sent, calls>>, IsFiniteSet(sent')
      PROVE  SetUp'
  BY <1>2 DEF SetUp
<1>3. ASSUME NEW w \in Workers, Prepare(w) PROVE SetUp'
  <2>1. \/ UNCHANGED sent
        \/ sent' = sent \cup {Filled(values[w])[Identity]}
    BY <1>3 DEF Prepare, Hand
  <2>2. IsFiniteSet(sent')
    BY <2>1, FS_AddElement DEF SetUp
  <2>3. QED  BY <1>2, <1>3, <2>2 DEF Prepare, setupVars
<1>4. ASSUME NEW w \in Workers, Draw(w) PROVE SetUp'
  <2>1. UNCHANGED <<config, gen, sent>> /\ phase = "running"
    BY <1>4 DEF Draw, setupVars
  <2>2. phase' \in {"panicked", "running"}
    BY <1>4, <2>1 DEF Draw
  <2>3. QED  BY <1>2, <2>1, <2>2 DEF SetUp
<1>5. ASSUME UNCHANGED <<config, gen, phase, sent, calls>> PROVE SetUp'
  BY <1>2, <1>5 DEF SetUp
<1>6. QED
  BY <1>1, <1>3, <1>4, <1>5
  DEF Next, Work, Terminated, Choose, Stop, Admit, Return, Tick, Cancel, vars, setupVars


\* What tells requests apart depends on the set-up only.
LEMMA TellsLocal ==
    ASSUME UNCHANGED <<config, gen>>, NEW x
    PROVE  Tells(x)' = Tells(x)
<1>1. \A piece : Fixed(piece)' = Fixed(piece) /\ Delimits(piece, x)' = Delimits(piece, x)
  BY DEF Fixed, Delimits
<1>2. \A template : Shows(template, x)' = Shows(template, x)
  BY <1>1 DEF Shows
<1>3. \A type, template : Preserves(type, template, x)' = Preserves(type, template, x)
  BY DEF Preserves
<1>4. QED  BY <1>2, <1>3 DEF Tells, Identity

\* No value changes hands in a step that at most lets one go.
LEMMA OwnersRemain ==
    ASSUME NEW x, OneOwner(x), UNCHANGED <<config, gen, sent>>, drawn'[x] = drawn[x],
           \A w \in Workers : Holds(w, x)' => Holds(w, x) /\ values'[w][x] = values[w][x]
    PROVE  OneOwner(x)'
<1>1. Returned(x)' = Returned(x)
  BY DEF Returned
<1>2. \A s, v : Carries(s, x, v)' = Carries(s, x, v)
  BY DEF Carries, Identity, Assignment, Filled, Bytes, Applied
<1>3. QED  BY <1>1, <1>2 DEF OneOwner

\* A value that is drawn in the first round is new, so it has no owner yet.
LEMMA OwnersDraw ==
    ASSUME Types, Types', DrawnInv, ConsistentInv, NEW w \in Workers, Draw(w),
           phase' = "running", NEW x \in DOMAIN gen, FirstRound(x)', OneOwner(x)
    PROVE  OneOwner(x)'
<1>1. /\ UNCHANGED <<config, gen, pc, sent>> /\ phase = "running" /\ pc[w] = "draw"
  BY DEF Draw, setupVars
<1>x. PICK y \in todo[w] : \E v \in NextValues(gen[y], counter[y]) :
        /\ Advance(w, y) /\ todo' = [todo EXCEPT ![w] = @ \ {y}]
        /\ v # Panic /\ values' = [values EXCEPT ![w] = With(@, y, v)] /\ Record(y, v)
  BY <1>1 DEF Draw
<1>2. PICK v \in NextValues(gen[y], counter[y]) :
        /\ Advance(w, y) /\ todo' = [todo EXCEPT ![w] = @ \ {y}]
        /\ v # Panic /\ values' = [values EXCEPT ![w] = With(@, y, v)] /\ Record(y, v)
  BY <1>x
<1>3. /\ y \in DOMAIN gen /\ todo'[w] = todo[w] \ {y}
      /\ \A u \in Workers \ {w} : todo'[u] = todo[u] /\ values'[u] = values[u]
      /\ values'[w] = With(values[w], y, v)
  BY <1>2 DEF Types, ConsistentInv
<1>4. CASE y # x
  <2>1. drawn'[x] = drawn[x]
    BY <1>2, <1>3, <1>4 DEF Record, Types
  <2>2. Holds(w, x)' => Holds(w, x)
    BY <1>1, <1>3, <1>4 DEF Holds
  <2>3. Holds(w, x) => values'[w][x] = values[w][x]
    <3>1. ASSUME Holds(w, x) PROVE x \in DOMAIN values[w]
      BY <1>1, <3>1 DEF Holds, ConsistentInv, Kept
    <3>2. QED  BY <1>3, <1>4, <3>1 DEF With
  <2>4. \A u \in Workers \ {w} : Holds(u, x)' = Holds(u, x) /\ values'[u][x] = values[u][x]
    BY <1>1, <1>3 DEF Holds
  <2>5. QED  BY <1>1, <2>1, <2>2, <2>3, <2>4, OwnersRemain
<1>5. CASE y = x
  <2> DEFINE n == counter[x]
  <2>1. /\ Sequential(gen[x]) /\ Distinct(gen[x]) /\ Built(gen[x])
        /\ counter'[x] <= Length(gen[x])
    BY <1>1 DEF FirstRound, DrawnInv
  <2>2. /\ n \in Nat /\ Len(drawn[x]) = n /\ v = SeqNext(gen[x], n)
        /\ counter'[x] = n + 1 /\ drawn'[x] = Append(drawn[x], v)
        /\ \A k \in 1 .. n : drawn[x][k] = SeqNext(gen[x], k - 1)
    BY <1>1, <1>2, <1>5, <2>1 DEF Types, DrawnInv, NextValues, Advance, Record
  <2>3. drawn[x] \in Seq(Sequence(gen[x])) /\ v \in Sequence(gen[x])
    BY <1>1, <2>2 DEF DrawnInv, Sequence
  <2>4. /\ Len(drawn'[x]) = n + 1 /\ drawn'[x][n + 1] = v
        /\ \A k \in 1 .. n : drawn'[x][k] = drawn[x][k]
    <3> DEFINE S == Sequence(gen[x])
               q == drawn[x]
    <3>1. q \in Seq(S) /\ v \in S /\ Len(q) = n /\ n \in Nat
      BY <2>2, <2>3
    <3> HIDE DEF S, q, n
    <3>2. /\ Len(Append(q, v)) = n + 1 /\ Append(q, v)[n + 1] = v
          /\ \A k \in 1 .. n : Append(q, v)[k] = q[k]
      BY <3>1
    <3>3. QED  BY <2>2, <3>2 DEF q
  <2> HIDE DEF n
  <2>5. v \notin Returned(x)
    <3> SUFFICES ASSUME NEW k \in 1 .. n, drawn[x][k] = v PROVE FALSE
      BY <2>2 DEF Returned
    <3> DEFINE a == k - 1
               L == Length(gen[x])
    <3>0. L \in Int
      BY <2>1, WidthAssumption DEF Built, Length, AbsoluteValue, Ints, MinInt
    <3> HIDE DEF L
    <3>1. n + 1 <= L
      BY <2>1, <2>2 DEF L
    <3>2. a \in Nat /\ a < n /\ n - a < L
      BY <2>2, <3>0, <3>1
    <3>3. v = SeqNext(gen[x], a)
      BY <2>2
    <3> HIDE DEF a
    <3>4. SeqNext(gen[x], a) # SeqNext(gen[x], n)
      BY <2>1, <2>2, <3>2, Apart DEF L
    <3>5. QED  BY <2>2, <3>3, <3>4
  <2>6. Returned(x)' = Returned(x) \cup {v}
    <3>1. Returned(x)' = {drawn'[x][k] : k \in 1 .. n + 1}
      BY <2>4 DEF Returned
    <3>2. Returned(x) = {drawn[x][k] : k \in 1 .. n}
      BY <2>2 DEF Returned
    <3>3. 1 .. n + 1 = (1 .. n) \cup {n + 1}
      BY <2>2
    <3>4. QED  BY <2>4, <3>1, <3>2, <3>3
  <2>7. ~Holds(w, x) /\ values'[w][x] = v
    BY <1>3, <1>5 DEF Holds, With
  <2>8. \A u \in Workers \ {w} : Holds(u, x)' = Holds(u, x) /\ values'[u][x] = values[u][x]
    BY <1>1, <1>3 DEF Holds
  <2>9. \A s, d : Carries(s, x, d)' = Carries(s, x, d)
    BY <1>1 DEF Carries, Identity, Assignment, Filled, Bytes, Applied
  <2>10. \A u \in Workers : Holds(u, x)' => values'[u][x] \in Returned(x)'
    BY <2>6, <2>7, <2>8 DEF OneOwner
  <2>11. \A t, u \in Workers : Holds(t, x)' /\ Holds(u, x)' /\ t # u =>
           values'[t][x] # values'[u][x]
    <3> SUFFICES ASSUME NEW t \in Workers, NEW u \in Workers, Holds(t, x)', Holds(u, x)', t # u
                 PROVE  values'[t][x] # values'[u][x]
      OBVIOUS
    <3>1. CASE t # w /\ u # w
      BY <2>8, <3>1 DEF OneOwner
    <3>2. \A z \in Workers \ {w} : Holds(z, x)' => values'[z][x] # v
      BY <2>5, <2>8 DEF OneOwner
    <3>3. QED  BY <2>7, <3>1, <3>2
  <2>12. ASSUME NEW s \in sent'
         PROVE  \E d \in (Returned(x) \cap Yields(gen[x]))' :
                  Carries(s, x, d)' /\ \A u \in Workers : Holds(u, x)' => values'[u][x] # d
    <3>1. PICK d \in Returned(x) \cap Yields(gen[x]) :
            Carries(s, x, d) /\ \A u \in Workers : Holds(u, x) => values[u][x] # d
      BY <1>1, <2>12 DEF OneOwner
    <3>2. d \in Returned(x)' /\ d \in Yields(gen'[x]) /\ d # v
      BY <1>1, <2>5, <2>6, <3>1
    <3>3. \A u \in Workers : Holds(u, x)' => values'[u][x] # d
      BY <2>7, <2>8, <3>1, <3>2
    <3>4. QED  BY <2>9, <3>1, <3>2, <3>3
  <2>13. QED  BY <2>10, <2>11, <2>12 DEF OneOwner
<1>6. QED  BY <1>4, <1>5

\* A request that goes out takes over the value of its worker, so it differs
\* from all those sent before.
LEMMA OwnersHand ==
    ASSUME Types, SetUp, ConsistentInv, NEW w \in Workers, Prepare(w),
           ~Unsendable(Filled(values[w])), Hand(w, Filled(values[w])),
           NEW x \in DOMAIN gen, FirstRound(x), Tells(x),
           OneOwner(x), Cardinality(sent) = calls
    PROVE  OneOwner(x)' /\ Cardinality(sent') = calls'
<1> DEFINE v == values[w][x]
           s == Filled(values[w])[Identity]
<1>1. /\ UNCHANGED <<config, gen, todo, values, drawn>> /\ phase = "running"
      /\ pc[w] = "draw" /\ todo[w] = {} /\ pc' = [pc EXCEPT ![w] = "call"]
      /\ sent' = sent \cup {s} /\ calls' = calls + 1
  BY DEF Prepare, Hand, Goes, setupVars
<1>2. Assignment(values[w]) /\ v \in Yields(gen[x])
  BY <1>1 DEF ConsistentInv, Kept, Assignment
<1>3. Carries(s, x, v)
  BY <1>1, <1>2, FilledCarries
<1>4. Holds(w, x) /\ ~Holds(w, x)'
  BY <1>1 DEF Holds, Types
<1>5. \A u \in Workers \ {w} : Holds(u, x)' = Holds(u, x) /\ values'[u][x] = values[u][x]
  BY <1>1 DEF Holds, Types
<1> HIDE DEF v, s
<1>6. s \notin sent
  <2> SUFFICES ASSUME s \in sent PROVE FALSE
    OBVIOUS
  <2>1. PICK d \in Returned(x) \cap Yields(gen[x]) :
          Carries(s, x, d) /\ \A u \in Workers : Holds(u, x) => values[u][x] # d
    BY DEF OneOwner
  <2>2. d = v
    BY <1>1, <1>2, <1>3, <2>1, CarriesOne
  <2>3. QED  BY <1>4, <2>1, <2>2 DEF v
<1>7. Cardinality(sent') = calls'
  BY <1>1, <1>6, FS_AddElement DEF SetUp
<1>8. Returned(x)' = Returned(x) /\ \A r, d : Carries(r, x, d)' = Carries(r, x, d)
  BY <1>1 DEF Returned, Carries, Identity, Assignment, Filled, Bytes, Applied
<1>9. ASSUME NEW r \in sent'
      PROVE  \E d \in (Returned(x) \cap Yields(gen[x]))' :
               Carries(r, x, d)' /\ \A u \in Workers : Holds(u, x)' => values'[u][x] # d
  <2>1. CASE r = s
    <3>1. v \in Returned(x) /\ \A u \in Workers \ {w} : Holds(u, x) => values[u][x] # v
      BY <1>4 DEF OneOwner, v
    <3>2. QED  BY <1>1, <1>2, <1>3, <1>4, <1>5, <1>8, <2>1, <3>1
  <2>2. CASE r \in sent
    <3>1. PICK d \in Returned(x) \cap Yields(gen[x]) :
            Carries(r, x, d) /\ \A u \in Workers : Holds(u, x) => values[u][x] # d
      BY <2>2 DEF OneOwner
    <3>2. QED  BY <1>1, <1>4, <1>5, <1>8, <3>1
  <2>3. QED  BY <1>1, <1>9, <2>1, <2>2
<1>10. QED  BY <1>1, <1>4, <1>5, <1>7, <1>8, <1>9 DEF OneOwner

\* Every step keeps the owners apart.
LEMMA OwnedNext ==
    Types /\ Types' /\ SetUp /\ DrawnInv /\ ConsistentInv /\ Owned /\ [Next]_vars => Owned'
<1> SUFFICES ASSUME Types, Types', SetUp, DrawnInv, ConsistentInv, Owned, [Next]_vars,
                    phase' = "running"
             PROVE  \A x \in DOMAIN gen' : FirstRound(x)' /\ Tells(x)' =>
                      OneOwner(x)' /\ Cardinality(sent') = calls'
  BY DEF Owned
<1>1. ASSUME NEW c \in Configurations, NewSubstitutor(c), NEW x \in DOMAIN gen'
      PROVE  OneOwner(x)' /\ Cardinality(sent') = calls'
  <2>1. phase = "new" /\ UNCHANGED <<pc, sent, calls>> /\ sent = {} /\ calls = 0
    BY <1>1 DEF NewSubstitutor, workerVars, SetUp
  <2>2. \A w \in Workers : ~Holds(w, x)'
    BY <2>1 DEF Types, Holds
  <2>3. QED  BY <2>1, <2>2, FS_EmptySet DEF OneOwner
<1>2. CASE phase = "running" /\ UNCHANGED <<config, gen>>
  <2> SUFFICES ASSUME NEW x \in DOMAIN gen, FirstRound(x)', Tells(x)'
               PROVE  OneOwner(x)' /\ Cardinality(sent') = calls'
    BY <1>2 DEF Identity
  <2>1. counter[x] <= counter'[x] /\ counter[x] \in Nat /\ counter'[x] \in Nat
    <3>1. counter[x] \in Nat /\ counter'[x] \in Nat
      BY <1>2 DEF Types
    <3>2. CASE counter' = counter
      BY <3>1, <3>2
    <3>3. ASSUME NEW w \in Workers, NEW y \in DOMAIN gen, Advance(w, y)
          PROVE  counter[x] <= counter'[x]
      <4>1. counter'[x] \in {counter[x], counter[x] + 1}
        BY <3>3 DEF Advance, Types
      <4>2. QED  BY <3>1, <4>1
    <3>4. ASSUME NEW w \in Workers, Draw(w) PROVE counter[x] <= counter'[x]
      <4>1. PICK y \in todo[w] : Advance(w, y)
        BY <3>4 DEF Draw
      <4>2. QED  BY <3>3, <4>1 DEF Types
    <3>5. counter' = counter \/ \E w \in Workers : Draw(w)
      BY <1>2 DEF Next, Work, Terminated, NewSubstitutor, Choose, Stop, Admit, Prepare,
                  Return, Tick, Cancel, vars
    <3>6. QED  BY <3>1, <3>2, <3>4, <3>5
  <2>2. FirstRound(x) /\ Tells(x)
    <3>1. Sequential(gen[x]) /\ Built(gen[x]) /\ counter'[x] <= Length(gen[x])
      BY <1>2 DEF FirstRound, DrawnInv
    <3>2. Length(gen[x]) \in Int
      BY <3>1, WidthAssumption DEF Built, Length, AbsoluteValue, Ints, MinInt
    <3>3. counter[x] <= Length(gen[x])
      BY <2>1, <3>1, <3>2
    <3>4. Tells(x)
      BY <1>2, TellsLocal
    <3>5. QED  BY <1>2, <3>3, <3>4 DEF FirstRound
  <2>3. OneOwner(x) /\ Cardinality(sent) = calls
    BY <1>2, <2>2 DEF Owned
  <2>4. ASSUME NEW w \in Workers, Prepare(w) PROVE OneOwner(x)' /\ Cardinality(sent') = calls'
    <3>1. CASE ~Unsendable(Filled(values[w])) /\ Hand(w, Filled(values[w]))
      BY <2>2, <2>3, <2>4, <3>1, OwnersHand
    <3>2. CASE UNCHANGED <<sent, calls>>
      <4>1. /\ UNCHANGED <<todo, values, drawn>> /\ pc' = [pc EXCEPT ![w] = "call"]
        BY <2>4 DEF Prepare, Goes
      <4>2. \A u \in Workers : Holds(u, x)' => Holds(u, x)
        BY <4>1 DEF Holds, Types
      <4>3. QED  BY <1>2, <2>3, <3>2, <4>1, <4>2, OwnersRemain
    <3>3. QED  BY <2>4, <3>1, <3>2 DEF Prepare
  <2>5. ASSUME NEW w \in Workers, Draw(w) PROVE OneOwner(x)' /\ Cardinality(sent') = calls'
    <3>1. UNCHANGED <<sent, calls>>
      BY <2>5 DEF Draw
    <3>2. QED  BY <2>3, <2>5, <3>1, OwnersDraw
  <2>6. ASSUME NEW w \in Workers, Choose(w) \/ Stop(w) \/ Admit(w) \/ Return(w)
        PROVE  OneOwner(x)' /\ Cardinality(sent') = calls'
    <3>1. UNCHANGED <<sent, calls, drawn>>
      BY <2>6 DEF Choose, Stop, Admit, Return
    <3>2. ~Holds(w, x)'
      BY <2>6 DEF Choose, Book, Stop, Admit, Return, Goes, Holds, Types
    <3>3. \A u \in Workers \ {w} : Holds(u, x)' = Holds(u, x) /\ values'[u] = values[u]
      BY <2>6 DEF Choose, Book, Stop, Admit, Return, Goes, Holds, Types, ConsistentInv
    <3>4. QED  BY <1>2, <2>3, <3>1, <3>2, <3>3, OwnersRemain
  <2>7. ASSUME UNCHANGED <<sent, calls, drawn, pc, todo, values>>
        PROVE  OneOwner(x)' /\ Cardinality(sent') = calls'
    <3>1. \A u \in Workers : Holds(u, x)' => Holds(u, x)
      BY <2>7 DEF Holds
    <3>2. QED  BY <1>2, <2>3, <2>7, <3>1, OwnersRemain
  <2>8. QED
    BY <1>2, <2>4, <2>5, <2>6, <2>7
    DEF Next, Work, Terminated, NewSubstitutor, Tick, Cancel, vars, workerVars
<1>3. QED
  BY <1>1, <1>2
  DEF Next, Work, Terminated, Choose, Stop, Admit, Draw, Prepare, Return, Tick, Cancel,
      vars, setupVars

\* However workers interleave, whatever a template holds besides and however it
\* is encoded: no two requests are told apart by the same value of a sequence
\* in its first round.
THEOREM IdentitiesStayDistinct == Spec => []IdentitiesDistinct
<1>1. Init => Types /\ SetUp /\ DrawnInv /\ ConsistentInv /\ Owned
  <2>1. Init => SetUp /\ Owned
    BY FS_EmptySet DEF Init, SetUp, Owned
  <2>2. QED  BY <2>1, TypesInit, DrawnInit, ConsistentInit
<1>2. Types /\ SetUp /\ DrawnInv /\ ConsistentInv /\ Owned /\ [Next]_vars =>
        Types' /\ SetUp' /\ DrawnInv' /\ ConsistentInv' /\ Owned'
  BY TypesNext, SetUpNext, DrawnNext, ConsistentNext, OwnedNext
<1>3. Owned => IdentitiesDistinct
  BY DEF Owned, IdentitiesDistinct
<1>4. QED  BY <1>1, <1>2, <1>3, PTL DEF Spec


-----------------------------------------------------------------------------
(* JSON is encoded *)

\* For all schemas and data of the depth that module Avro has: conforming JSON
\* is encoded, and no other.
THEOREM JSONIsEncoded == Spec => []EncodesConforming
<1>1. EncodesConforming
  BY Encodes DEF EncodesConforming
<1>2. QED  BY <1>1, PTL

-----------------------------------------------------------------------------
(* What was built does not panic *)

\* A generator that was built panics only if its range is too wide.
LEMMA NoPanic ==
    ASSUME NEW v, Typed(v), FromVariable(v) # Refused, ~TooWide(FromVariable(v)),
           NEW c \in Nat
    PROVE  Panic \notin NextValues(FromVariable(v), c)
<1> DEFINE g == FromVariable(v)
<1>1. CASE v.type = "int_range" /\ Usable(v, {"mode", "min", "max"})
  <2>1. v.min \in Ints /\ v.max \in Ints /\ g = NewIntRangeGenerator(v.min, v.max, v.mode)
    BY <1>1 DEF Typed, Usable, FromVariable
  <2>2. v.max \in v.min .. MaxInt /\ v.mode \in Modes
    <3>1. v.max \in v.min .. MaxInt
      BY <2>1, WidthAssumption DEF NewIntRangeGenerator, Ints, MinInt
    <3>2. QED  BY <2>1, <3>1 DEF NewIntRangeGenerator
  <2>3. g.kind = "range" /\ g.mode = v.mode /\ g.min = v.min /\ g.max = v.max
    BY <2>1, <2>2, Span
  <2>4. Representable(v.min, v.max)
    BY <2>3 DEF TooWide
  <2>5. g.span = v.max - v.min + 1
    BY <2>1, <2>2, <2>4, Span
  <2>6. CASE Sequential(g)
    <3>1. /\ Length(g) \in Nat /\ Length(g) = v.max - v.min + 1 /\ Length(g) > 0
          /\ v.min \in Int /\ v.max \in Int /\ v.max <= MaxInt /\ MaxInt \in Int
      BY <2>1, <2>2, <2>3, <2>5, WidthAssumption DEF Length, AbsoluteValue, Ints, MinInt
    <3> DEFINE r == Remainder(c, Length(g))
               L == Length(g)
    <3>2. g.min + Length(g) - 1 <= MaxInt
      BY <2>3, <3>1
    <3>3. SeqNext(g, c) = v.min + r /\ r \in 0 .. L - 1
      BY <2>1, <2>3, <3>1, <3>2, RangeNext
    <3> HIDE DEF r, L
    <3>4. L = v.max - v.min + 1
      BY <3>1 DEF L
    <3>5. v.min + r \in Ints
      BY <2>1, <3>1, <3>3, <3>4 DEF Ints, MinInt
    <3>6. QED  BY <2>6, <3>3, <3>5, PanicAssumption DEF NextValues
  <2>7. CASE ~Sequential(g)
    <3>1. v.mode = "rnd"
      BY <2>2, <2>3, <2>7 DEF Sequential, Modes
    <3>2. RndNext(g) = v.min .. v.max
      BY <2>1, <2>2, <2>4, <3>1, RangeYields DEF YieldsItsRange
    <3>3. v.min .. v.max \subseteq Ints
      BY <2>1, WidthAssumption DEF Ints, MinInt
    <3>4. QED  BY <2>7, <3>2, <3>3, PanicAssumption DEF NextValues
  <2>8. QED  BY <2>6, <2>7
<1>2. CASE v.type \in {"int_set", "string_set"} /\ Usable(v, {"mode", "values"})
  <2>1. PICK S : v.values \in Seq(S) /\ Panic \notin {v.values[i] : i \in DOMAIN v.values}
    BY <1>2 DEF Typed, Usable
  <2>2. g = NewSetGenerator(v.values, v.mode)
    BY <1>2 DEF FromVariable
  <2>3. /\ g.kind = "set" /\ g.mode = v.mode /\ g.values = v.values /\ v.values # <<>>
        /\ v.mode \in Modes
    BY <2>2 DEF NewSetGenerator
  <2>4. DOMAIN g.values = 1 .. Length(g) /\ Length(g) \in Nat /\ Length(g) > 0
    BY <2>1, <2>3 DEF Length
  <2>5. CASE Sequential(g)
    <3> DEFINE L == Length(g)
               r == Remainder(c, L)
    <3>1. SeqNext(g, c) = IF L = 0 THEN Panic ELSE g.values[r + 1]
      BY <2>3 DEF SeqNext, Position
    <3>2. DOMAIN g.values = 1 .. L /\ L \in Nat /\ L > 0
      BY <2>4
    <3> HIDE DEF L
    <3>3. r = c % L
      BY <3>2 DEF Remainder, AbsoluteValue
    <3>4. r + 1 \in 1 .. L
      BY <3>2, <3>3
    <3>5. SeqNext(g, c) = g.values[r + 1] /\ r + 1 \in DOMAIN g.values
      BY <3>1, <3>2, <3>4
    <3>6. QED  BY <2>1, <2>3, <2>5, <3>5 DEF NextValues
  <2>6. CASE ~Sequential(g)
    <3>1. RndNext(g) = {g.values[i] : i \in DOMAIN g.values}
      BY <2>3 DEF RndNext
    <3>2. QED  BY <2>1, <2>3, <2>6, <3>1 DEF NextValues
  <2>7. QED  BY <2>5, <2>6
<1>3. CASE g = NewUUIDGenerator
  BY <1>3, PanicAssumption DEF NewUUIDGenerator, NextValues, Sequential, RndNext,
                                 UUIDNext
<1>4. CASE g = NewTimestampGenerator(v.format)
  BY <1>4, PanicAssumption DEF NewTimestampGenerator, NextValues, Sequential,
                                 RndNext, TimestampNext
<1>5. QED  BY <1>1, <1>2, <1>3, <1>4 DEF FromVariable

PanicInv ==
    /\ \A x \in DOMAIN gen : ~TooWide(gen[x]) => \A c \in Nat : Panic \notin NextValues(gen[x], c)
    /\ PanicOnlyIfTooWide

\* Only a call of a generator panics, and only such a generator.
LEMMA PanicNext == Types /\ PanicInv /\ [Next]_vars => PanicInv'
<1> SUFFICES ASSUME Types, PanicInv, [Next]_vars PROVE PanicInv'
  OBVIOUS
<1>1. ASSUME gen' = gen, phase' = "panicked" => phase = "panicked"
      PROVE  PanicInv'
  BY <1>1 DEF PanicInv, PanicOnlyIfTooWide
<1>2. ASSUME NEW c \in Configurations, NewSubstitutor(c) PROVE PanicInv'
  <2>1. CASE gen' = gen
    BY <1>1, <1>2, <2>1 DEF NewSubstitutor
  <2>2. CASE gen' # gen
    <3>1. PICK at \in Latest(c.variables) :
            gen' = [x \in DOMAIN at |-> FromVariable(c.variables[at[x]])]
      BY <1>2, <2>2 DEF NewSubstitutor
    <3>2. phase' = "running"
          /\ \A k \in DOMAIN c.variables : FromVariable(c.variables[k]) # Refused
      BY <1>2, <2>2 DEF NewSubstitutor
    <3>3. ASSUME NEW x \in DOMAIN gen', ~TooWide(gen'[x]), NEW d \in Nat
          PROVE  Panic \notin NextValues(gen'[x], d)
      <4>1. at[x] \in DOMAIN c.variables /\ gen'[x] = FromVariable(c.variables[at[x]])
        BY <3>1 DEF Latest
      <4>2. Typed(c.variables[at[x]]) /\ FromVariable(c.variables[at[x]]) # Refused
        BY <3>2, <4>1, RequestsAssumption
      <4>3. QED  BY <3>3, <4>1, <4>2, NoPanic
    <3>4. QED  BY <3>2, <3>3 DEF PanicInv, PanicOnlyIfTooWide
  <2>3. QED  BY <2>1, <2>2
<1>3. ASSUME NEW w \in Workers, Draw(w) PROVE PanicInv'
  <2>1. gen' = gen
    BY <1>3 DEF Draw, setupVars
  <2>2. PICK x \in todo[w] : \E v \in NextValues(gen[x], counter[x]) :
          v = Panic \/ phase' = phase
    BY <1>3 DEF Draw
  <2>3. x \in DOMAIN gen
    BY <1>3 DEF Types
  <2>4. CASE TooWide(gen[x])
    BY <2>1, <2>3, <2>4 DEF PanicInv, PanicOnlyIfTooWide
  <2>5. CASE ~TooWide(gen[x])
    <3>1. counter[x] \in Nat
      BY <2>3 DEF Types
    <3>2. phase' = phase
      BY <2>2, <2>3, <2>5, <3>1 DEF PanicInv
    <3>3. QED  BY <1>1, <2>1, <3>2
  <2>6. QED  BY <2>4, <2>5
<1>4. QED
  BY <1>1, <1>2, <1>3
  DEF Next, Work, Terminated, Choose, Book, Stop, Admit, Prepare, Return, Tick,
      Cancel, vars, setupVars

\* A worker dies of a generator only if a range was declared that is too wide
\* for an int64 to count: the constructors refuse all else that could panic.
THEOREM GeneratorsDoNotPanic == Spec => []PanicOnlyIfTooWide
<1>1. Init => Types /\ PanicInv
  BY TypesInit DEF Init, PanicInv, PanicOnlyIfTooWide, Empty
<1>2. Types /\ PanicInv /\ [Next]_vars => Types' /\ PanicInv'
  BY TypesNext, PanicNext
<1>3. PanicInv => PanicOnlyIfTooWide
  BY DEF PanicInv
<1>4. QED  BY <1>1, <1>2, <1>3, PTL DEF Spec
=============================================================================
