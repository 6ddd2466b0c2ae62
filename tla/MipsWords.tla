----------------------------- MODULE MipsWords -----------------------------
(***************************************************************************)
(* Words of the simulated machine, of W bits in four bytes, and what C's   *)
(* operators do to them.  A word is a number in 0..2^W-1; ToInt is its    *)
(* value as a C int.                                                       *)
(***************************************************************************)
EXTENDS Integers, Bitwise

CONSTANT W

ASSUME WidthAssumption == W \in {8, 16, 32}

Byte == W \div 4
Half == W \div 2

Word(n) == n % 2^W
Negative(w) == w >= 2^(W - 1)
ToInt(w) == IF Negative(w) THEN w - 2^W ELSE w
Complement(w) == 2^W - 1 - w
ShiftLeft(w, n) == Word(w * 2^n)
ShiftRightInt(w, n) == Word(ToInt(w) \div 2^n)
ShiftRightUnsigned(w, n) == w \div 2^n
Bool(b) == IF b THEN 1 ELSE 0
SignExtend(v, bits) == IF v >= 2^(bits - 1) THEN Word(v - 2^bits) ELSE v

(* Division of ints truncates; the remainder has the dividend's sign.      *)
Abs(n) == IF n < 0 THEN -n ELSE n
Quotient(a, b) == LET q == Abs(a) \div Abs(b) IN IF (a < 0) = (b < 0) THEN q ELSE -q
Remainder(a, b) == a - b * Quotient(a, b)

(* The bits of an address that a jump keeps: four of 32.                   *)
Region(address) == (address \div 2^(W - W \div 8)) * 2^(W - W \div 8)

(* Size bytes of a memory, the lowest first.                               *)
LoadBytes(mem, address, size) ==
    LET B(k) == IF k < size THEN mem[address + k] * 2^(Byte * k) ELSE 0
    IN  B(0) + B(1) + B(2) + B(3)
StoreBytes(mem, address, size, w) ==
    [a \in DOMAIN mem |-> IF a \in address..(address + size - 1)
                          THEN (w \div 2^(Byte * (a - address))) % 2^Byte ELSE mem[a]]
=============================================================================
