------------------------------- MODULE Float --------------------------------
(***************************************************************************)
(* Conversions to float and divisions of floats, as far as the programs    *)
(* use them: the result is the float nearest to the exact one.             *)
(***************************************************************************)
EXTENDS Integers

CONSTANT
    Mantissa        \* 2^24: integers up to it are exact in a float

\* The distance between the floats around x: 1 up to Mantissa, twice as far each
\* time x doubles.
Unit(x) ==
    LET unit[n \in 0 .. x] == IF n <= Mantissa THEN 1 ELSE 2 * unit[(n + 1) \div 2]
    IN unit[x]

\* The float nearest to the quotient of a pair, ties to the even mantissa.  It is an
\* integer here: a quotient below Mantissa keeps its fraction only if the first of
\* the pair counts parts of one.
Nearest[q \in Nat \X (Nat \ {0})] ==
    LET a == q[1]
        b == q[2]
        unit == Unit((a + b - 1) \div b)
        low == a \div (b * unit)
        rest == 2 * (a % (b * unit))
    IN IF rest < b * unit \/ (rest = b * unit /\ low % 2 = 0)
       THEN low * unit ELSE (low + 1) * unit

\* An integer converted to float.
ToFloat(x) == Nearest[<<x, 1>>]
=============================================================================
