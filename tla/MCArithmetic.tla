---------------------------- MODULE MCArithmetic ----------------------------
(* Two-bit Integers, four-bit BigIntegers and a mantissa in between.       *)
EXTENDS Arithmetic

MCLiterals == {-2, -1, 0, 1}

(* Bit by bit in two's complement, from the highest value bit down.        *)
MCBitAnd(a, b) ==
  LET and[p \in Nat] ==
        IF p = 0 THEN 0
        ELSE and[p \div 2] + (IF (a \div p) % 2 = 1 /\ (b \div p) % 2 = 1 THEN p ELSE 0)
      low == and[BigLimit \div 2]
  IN IF a < 0 /\ b < 0 THEN low - BigLimit ELSE low
=============================================================================
