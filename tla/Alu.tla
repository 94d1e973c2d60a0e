----------------------------------- MODULE Alu -----------------------------------
(***************************************************************************)
(* The arithmetic of Symon's CPU (Cpu.java) as programs use it: on numbers *)
(* of several bytes, one byte after the other, with the carry in between.  *)
(* A right shift begins with the highest byte, all else with the lowest.   *)
(***************************************************************************)
EXTENDS Integers, Sequences

CONSTANTS
  Operands,            (* bytes that are combined                          *)
  NumBytes             (* bytes of a number                                *)

ASSUME AluAssumption == Operands \subseteq 0..255 /\ NumBytes \in 1..3

VARIABLES
  operation,           (* the operation; does not change                   *)
  decimal,             (* the D flag                                       *)
  acc, operand,        (* the numbers, lowest byte first                   *)
  result,              (* the bytes of the result, in the order computed   *)
  carry, isZero, negative, overflow,
  carryIn              (* history: the carry to begin with                 *)

aluVars == <<operation, decimal, acc, operand, result, carry, isZero, negative, overflow, carryIn>>

operations == {"add", "subtract", "compare", "left", "right"}

AluInit ==
  /\ operation \in operations /\ decimal \in BOOLEAN
  /\ acc \in [1..NumBytes -> Operands] /\ operand \in [1..NumBytes -> Operands]
  /\ result = <<>>
  /\ carry \in {0, 1} /\ carryIn = carry
  /\ isZero = FALSE /\ negative = FALSE /\ overflow = FALSE

(* The bit of that weight.                                                *)
bit(weight, value) == (value \div weight) % 2
flag(b) == IF b THEN 1 ELSE 0

-----------------------------------------------------------------------------
(* What the helpers of Cpu return: the byte and the flags.                 *)
arithmetic(r, c, v) == [value |-> r, carry |-> c, overflow |-> v,
                        isZero |-> r = 0, negative |-> bit(128, r) = 1]

adc(a, b) ==
  LET sum    == a + b + carry
      carry6 == (a % 128) + (b % 128) + carry
  IN  arithmetic(sum % 256, bit(256, sum), bit(256, sum) # bit(128, carry6))

sbc(a, b) == adc(a, 255 - b)

(* Mutant: the carry of the low digit is lost.                             *)
adcDecimalDigits(a, b) ==
  LET l0 == (a % 16) + (b % 16) + carry
      l  == IF l0 > 9 THEN l0 + 6 ELSE l0
      h0 == (a \div 16) + (b \div 16)
      h  == IF h0 > 9 THEN h0 + 6 ELSE h0
      r  == ((l % 16) + 16 * h) % 256
  IN  [value |-> r, carry |-> flag(h > 15), isZero |-> r = 0, negative |-> FALSE, overflow |-> FALSE]

adcDecimal(a, b) ==
  LET l0 == (a % 16) + (b % 16) + carry
      l  == IF l0 > 9 THEN l0 + 6 ELSE l0
      h0 == (a \div 16) + (b \div 16) + flag(l > 15)
      h  == IF h0 > 9 THEN h0 + 6 ELSE h0
      r  == ((l % 16) + 16 * h) % 256
  IN  [value |-> r, carry |-> flag(h > 15), isZero |-> r = 0, negative |-> FALSE, overflow |-> FALSE]

(* The isZero flag is that of the result before it is cut to a byte.         *)
sbcDecimal(a, b) ==
  LET l0 == (a % 16) - (b % 16) - (1 - carry)
      l  == IF bit(16, l0) = 1 THEN l0 - 6 ELSE l0
      h0 == (a \div 16) - (b \div 16) - bit(16, l)
      h  == IF bit(16, h0) = 1 THEN h0 - 6 ELSE h0
      r  == (l % 16) + 16 * h
  IN  [value |-> r % 256, carry |-> flag(h % 256 < 15), isZero |-> r = 0, negative |-> FALSE, overflow |-> FALSE]

(* cmp leaves the accumulator and the overflow flag alone.                 *)
cmp(a, b) ==
  LET r == (a - b) % 256
  IN  [value |-> r, carry |-> flag(a >= b), overflow |-> overflow,
       isZero |-> r = 0, negative |-> bit(128, r) = 1]

(* asl and rol, lsr and ror, as the first byte or a later one.             *)
shift(r, c) == [value |-> r, carry |-> c, overflow |-> overflow,
                isZero |-> r = 0, negative |-> bit(128, r) = 1]
asl(a) == shift((2 * a) % 256, bit(128, a))
rol(a) == shift((2 * a + carry) % 256, bit(128, a))
lsr(a) == shift(a \div 2, a % 2)

ror(a) == shift(a \div 2 + 128 * carry, a % 2)

-----------------------------------------------------------------------------
(* The next byte: a comparison compares the first and subtracts the rest,  *)
(* a shift rotates all but the first.                                      *)
AluByte ==
  LET n     == Len(result) + 1
      a     == acc[IF operation = "right" THEN NumBytes + 1 - n ELSE n]
      b     == operand[n]
      first == n = 1
      r == CASE operation = "add" /\ decimal                   -> adcDecimal(a, b)
             [] operation = "add" /\ ~decimal                  -> adc(a, b)
             [] operation = "subtract" /\ decimal              -> sbcDecimal(a, b)
             [] operation = "subtract" /\ ~decimal             -> sbc(a, b)
             [] operation = "compare" /\ first                 -> cmp(a, b)
             [] operation = "compare" /\ ~first /\ ~decimal     -> sbc(a, b)
             [] operation = "compare" /\ ~first /\ decimal      -> sbcDecimal(a, b)
             [] operation = "left"                             -> IF first THEN asl(a) ELSE rol(a)
             [] operation = "right"                            -> IF first THEN lsr(a) ELSE ror(a)
  IN  /\ n <= NumBytes
      /\ result' = Append(result, r.value)
      /\ carry' = r.carry /\ isZero' = r.isZero /\ negative' = r.negative /\ overflow' = r.overflow
      /\ UNCHANGED <<operation, decimal, acc, operand, carryIn>>

AluSpec == AluInit /\ [][AluByte]_aluVars

-----------------------------------------------------------------------------
(* Numbers made of at most three bytes, of binary and of decimal digits.   *)
digit(b, base) == IF base = 100 THEN 10 * (b \div 16) + (b % 16) ELSE b
digitAt(bytes, k, base) == IF k <= NumBytes THEN digit(bytes[k], base) ELSE 0

number(bytes, base) ==
  digitAt(bytes, 1, base) + base * digitAt(bytes, 2, base) + base * base * digitAt(bytes, 3, base)

power(base) == CASE NumBytes = 1 -> base
                 [] NumBytes = 2 -> base * base
                 [] NumBytes = 3 -> base * base * base

isBcd(b) == b % 16 < 10 /\ b \div 16 < 10
bcd == decimal /\ \A i \in 1..NumBytes : isBcd(acc[i]) /\ isBcd(operand[i])
radix == IF bcd THEN 100 ELSE 256
span == power(radix)
signed(n) == IF n >= span \div 2 THEN n - span ELSE n

complete == Len(result) = NumBytes
ordinary == ~decimal \/ bcd
accNumber == number(acc, radix)
operandNumber == number(operand, radix)
resultNumber == number(result, radix)

(* Sums and differences of numbers of several bytes are right, binary and  *)
(* decimal, the carry says whether they went over, and decimal digits stay *)
(* decimal.                                                                *)
SumsRight ==
  complete /\ ordinary =>
    /\ operation = "add" => resultNumber + span * carry = accNumber + operandNumber + carryIn
    /\ operation = "subtract" => resultNumber - span * (1 - carry) = accNumber - operandNumber - (1 - carryIn)
    /\ bcd /\ operation \in {"add", "subtract"} => \A i \in 1..NumBytes : isBcd(result[i])

(* Behind a binary sum or difference of several bytes the overflow flag    *)
(* says whether the signed result fits.                                    *)
OverflowRight ==
  complete /\ ~decimal =>
    /\ operation = "add" => overflow = (signed(accNumber) + signed(operandNumber) + carryIn # signed(resultNumber))
    /\ operation = "subtract" => overflow = (signed(accNumber) - signed(operandNumber) - (1 - carryIn) # signed(resultNumber))

(* A comparison of the low bytes and a subtraction of the others compares  *)
(* the numbers: unsigned by the carry, signed by N and V together.         *)
ComparesNumbers ==
  complete /\ operation = "compare" /\ ordinary =>
    /\ carry = flag(accNumber >= operandNumber)
    /\ ~decimal /\ NumBytes > 1 => (negative # overflow) = (signed(accNumber) < signed(operandNumber))

(* A shift of the first byte and rotations of the others shift the number. *)
ShiftsNumber ==
  complete =>
    /\ operation = "left" => number(result, 256) + power(256) * carry = 2 * number(acc, 256)
    /\ operation = "right" =>
         2 * number([i \in 1..NumBytes |-> result[NumBytes + 1 - i]], 256) + carry
           = number(acc, 256)

(* Together: programs may calculate with numbers of any size.              *)
ArithmeticRight == SumsRight /\ OverflowRight /\ ComparesNumbers /\ ShiftsNumber
=============================================================================
