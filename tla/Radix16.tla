------------------------------ MODULE Radix16 ------------------------------
(***************************************************************************)
(* Scalars as signed radix-16 digits (src/src/scalar/mod.rs), and the      *)
(* folding of two of them into a digit of the base point                   *)
(* (src/src/wide/avx512ifma/multiscalar.rs).                               *)
(***************************************************************************)
EXTENDS Integers

CONSTANT DIGITS   \* the digits of a scalar, 64 in the code

ASSUME Radix16Assumption == DIGITS \in Nat /\ DIGITS >= 4 /\ DIGITS % 2 = 0

\* 16^i, the weight of digit i
Weight[i \in 0..DIGITS] == IF i = 0 THEN 1 ELSE 16 * Weight[i - 1]

\* The scalars below the bound on reduced ones: the top byte is below 0x20.
Scalars == 0..(2 * Weight[DIGITS - 1] - 1)

\* 0x88..88: eight for every digit
Bias == LET sum[i \in 0..DIGITS] == IF i = 0 THEN 0 ELSE sum[i - 1] + 8 * Weight[i - 1]
        IN  sum[DIGITS]

\* The digits without the bias: 0 to 15 (faulty)
ToUnsignedRadix16(n) == [i \in 0..(DIGITS - 1) |-> (n \div Weight[i]) % 16]

\* to_radix16: the carries of the biased sum balance the digits, and a carry out
\* of the top byte is lost.
ToRadix16(n) == [i \in 0..(DIGITS - 1) |-> (((n + Bias) \div Weight[i]) % 16) - 8]

\* base_pair_digit
BasePairDigit(digits, pair) == digits[2 * pair] + 16 * digits[2 * pair + 1]
=============================================================================
