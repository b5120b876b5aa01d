------------------------------ MODULE Balance ------------------------------
(***************************************************************************)
(* Amounts in base units: toPicoWay and convertToTxUnit of                 *)
(* modules/src/balance/Balance.utils.ts.                                   *)
(*                                                                         *)
(* An amount is given as its sign, its integer part and the digits of its  *)
(* fraction, which is how the code takes the string apart.  Numbers that   *)
(* JavaScript prints with an exponent are not modelled.                    *)
(***************************************************************************)
EXTENDS Integers, Sequences

Throws == [throws |-> TRUE]

\* The powers of ten of the metric prefixes.
Prefixes ==
    [pico |-> -12, nano |-> -9, micro |-> -6, milli |-> -3, centi |-> -2, WAY |-> 0,
     kilo |-> 3, mega |-> 6, mill |-> 6, giga |-> 9, bill |-> 9, tera |-> 12, tril |-> 12,
     peta |-> 15, exa |-> 18, zetta |-> 21, yotta |-> 24]

Ten[n \in Nat] == IF n = 0 THEN 1 ELSE 10 * Ten[n - 1]

convertToTxUnit(balance, power) == balance * Ten[12 + power]

\* new BN(fraction): leading zeros count for nothing.
Digits(fraction) ==
    LET number[n \in 0 .. Len(fraction)] ==
            IF n = 0 THEN 0 ELSE (number[n - 1] * 10) + fraction[n]
    IN  number[Len(fraction)]

Negate(negative, amount) == IF negative THEN -amount ELSE amount

\* Mutant: the decimals are not counted.
Fraction_one(fraction, power) ==
    IF fraction = <<>> THEN 0 ELSE convertToTxUnit(Digits(fraction), power - 1)

Fraction(fraction, power) ==
    IF fraction = <<>> THEN 0 ELSE convertToTxUnit(Digits(fraction), power - Len(fraction))

toPicoWay(input, unit) ==
    LET power == Prefixes[unit] IN
    IF Len(input.fraction) > power + 12 THEN Throws
    ELSE [amount |-> Negate(input.negative,
              convertToTxUnit(input.integer, power) + Fraction(input.fraction, power))]
=============================================================================
