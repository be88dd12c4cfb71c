-------------------------- MODULE MCKernelParameter --------------------------
(* Instances of KernelParameter for TLC: registers of four bytes, a        *)
(* parameter of one byte and one of two.                                   *)
EXTENDS KernelParameter

MCBytes(low, high) == [b \in 1 .. 4 |-> IF b = 1 THEN low ELSE IF b = 2 THEN high ELSE 0]
MCSize == <<1, 2>>
MCExpected == <<MCBytes(0, 0), MCBytes(1, 0)>>
MCContent == {MCBytes(0, 0), MCBytes(1, 0), MCBytes(1, 1)}
=============================================================================
