----------------------------- MODULE ModbusCrc ------------------------------
(***************************************************************************)
(* The CRC a sensor appends to a Modbus message, as the protocol defines   *)
(* it: the remainder of the message, a polynomial over GF(2), divided by   *)
(* x^16 + x^15 + x^2 + 1; bytes are sent low bit first, and the first 16   *)
(* bits are inverted.  A polynomial is the set of its exponents.           *)
(***************************************************************************)
EXTENDS Integers, Sequences, FiniteSets

Generator == {16, 15, 2, 0}

Reduced(p) == IF 16 \in p THEN (p \ Generator) \union (Generator \ p) ELSE p

(* x^n modulo Generator, for the bits of up to 6 bytes. *)
Residue[n \in 0..63] == IF n = 0 THEN {0} ELSE Reduced({e + 1 : e \in Residue[n - 1]})

Bit(byte, i) == (byte \div 2^i) % 2

(* Sent in order, bit k of the message is that of x^(length - 1 - k), and  *)
(* 16 zeros follow it.                                                     *)
ReferenceCrc(bytes) ==
    LET length == 8 * Len(bytes)
        Sent(k) == IF k < 16 THEN 1 - Bit(bytes[k \div 8 + 1], k % 8)
                             ELSE Bit(bytes[k \div 8 + 1], k % 8)
        exponents == {length - 1 - k + 16 : k \in {j \in 0..length - 1 : Sent(j) = 1}}
        Coefficient(e) == Cardinality({n \in exponents : e \in Residue[n]}) % 2
        value[e \in 0..15] == Coefficient(e) * 2^(15 - e) + IF e = 0 THEN 0 ELSE value[e - 1]
    IN  value[15]
=============================================================================
