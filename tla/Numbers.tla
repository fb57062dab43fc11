------------------------------- MODULE Numbers -------------------------------
(***************************************************************************)
(* Positional notation: the powers of a base, the number that digits stand *)
(* for, the most significant first, and the digits of a number in a fixed  *)
(* width, as encoding/binary writes a big-endian integer.                  *)
(***************************************************************************)
EXTENDS Naturals, Sequences

Power(base) ==
    LET power[k \in Nat] == IF k = 0 THEN 1 ELSE base * power[k - 1]
    IN  power

\* number = number * base + digit, for one digit after the other.
Number(digits, base) ==
    LET number[i \in 0..Len(digits)] == IF i = 0 THEN 0 ELSE number[i - 1] * base + digits[i]
    IN  number[Len(digits)]

FixedDigits(n, base, width) == [i \in 1..width |-> (n \div Power(base)[width - i]) % base]
=============================================================================
