----------------------------- MODULE FixedWidth -----------------------------
(***************************************************************************)
(* The arithmetic of Go's int and int64, which wrap, and of float64 and    *)
(* float32, which round, as far as generators and the Avro serializer meet *)
(* their limits.                                                           *)
(***************************************************************************)
EXTENDS Integers

CONSTANTS
    MaxInt,      \* 2^63 - 1: the largest int and int64
    MaxExact,    \* 2^53: a float64 has every integer up to here
    MaxExact32,  \* 2^24: a float32 has every integer up to here
    Overflow     \* what int64(f) is for a float64 f above MaxInt: the language
                 \* leaves it to the implementation

MinInt == -MaxInt - 1

ASSUME WidthAssumption ==
    /\ MaxInt \in Nat \ {0} /\ MaxExact \in Nat \ {0}
    /\ MaxExact32 \in Nat \ {0}
    /\ Overflow \in {MinInt, MaxInt}

Ints == MinInt .. MaxInt

\* The result of +, - or a conversion between integers whose true value is n.
Wrap(n) == MinInt + ((n - MinInt) % (2 * (MaxInt + 1)))

AbsoluteValue(n) == IF n < 0 THEN -n ELSE n

\* a % b for a >= 0 and b # 0: the sign of b does not matter.
Remainder(a, b) == a % AbsoluteValue(b)

\* The distance of the floats around n: a power of two.
Spacing(n, exact) ==
    CHOOSE u \in {2 ^ e : e \in 0 .. MaxInt} :
      /\ AbsoluteValue(n) <= exact * u
      /\ (u = 1) \/ (AbsoluteValue(n) > exact * (u \div 2))

\* The float nearest to n, the even one of two.
Nearest(n, exact) ==
    LET u    == Spacing(n, exact)
        q    == n \div u
        rest == n - q * u
    IN  IF 2 * rest < u \/ (2 * rest = u /\ q % 2 = 0) THEN q * u
                                                       ELSE (q + 1) * u

Float(n)   == Nearest(n, MaxExact)
Float32(n) == Nearest(n, MaxExact32)

\* int64(f) of a float that is an integer.
FromFloat(f) == IF f \in Ints THEN f ELSE Overflow
=============================================================================
