------------------------------- MODULE Alu_proofs -------------------------------
(***************************************************************************)
(* The arithmetic of a program for the 6502 on numbers of up to three      *)
(* bytes, byte by byte with the carry in between: for all operands, binary *)
(* or decimal, what the instructions leave is the sum, the difference, the *)
(* comparison or the shifted number, and the flags say so.  The argument:  *)
(* after n bytes the accumulated bytes and the carry are together the      *)
(* result for the low n bytes (AluIInv).                                   *)
(***************************************************************************)
EXTENDS Alu, SequenceTheorems, TLAPS

-----------------------------------------------------------------------------
(* Bytes, nibbles and digits.                                              *)

Byte == 0 .. 255
Bit  == {0, 1}

(* What division and remainder by the weights of a bit make of small       *)
(* numbers.                                                                *)
LEMMA CutByte ==
  ASSUME NEW n \in 0 .. 511
  PROVE  /\ n % 256 = IF n >= 256 THEN n - 256 ELSE n
         /\ bit(256, n) = IF n >= 256 THEN 1 ELSE 0
<1>1. n % 256 = IF n >= 256 THEN n - 256 ELSE n
  BY SMT
<1>2. n \div 256 = IF n >= 256 THEN 1 ELSE 0
  BY SMT
<1> QED
  BY <1>1, <1>2, SMT DEF bit

LEMMA HighBit ==
  ASSUME NEW a \in Byte
  PROVE  /\ a % 128 = IF a >= 128 THEN a - 128 ELSE a
         /\ bit(128, a) = IF a >= 128 THEN 1 ELSE 0
<1>1. a % 128 = IF a >= 128 THEN a - 128 ELSE a
  BY SMT DEF Byte
<1>2. a \div 128 = IF a >= 128 THEN 1 ELSE 0
  BY SMT DEF Byte
<1> QED
  BY <1>1, <1>2, SMT DEF bit

(* Whether a byte is that of a negative number, and the number it is.      *)
minus(b) == IF b >= 128 THEN 1 ELSE 0

(* A byte and a carry from a sum of two bytes and a carry; the overflow    *)
(* flag is set when the carries into and out of the highest bit differ.    *)
LEMMA AdcFacts ==
  ASSUME NEW a \in Byte, NEW b \in Byte, carry \in Bit
  PROVE  /\ adc(a, b).value \in Byte /\ adc(a, b).carry \in Bit
         /\ adc(a, b).overflow \in BOOLEAN /\ adc(a, b).negative \in BOOLEAN
         /\ adc(a, b).value + 256 * adc(a, b).carry = a + b + carry
         /\ adc(a, b).negative <=> adc(a, b).value >= 128
         /\ adc(a, b).overflow <=>
              minus(a) + minus(b) # minus(adc(a, b).value) + adc(a, b).carry
<1> DEFINE sum == a + b + carry
           low == (a % 128) + (b % 128) + carry
           v == sum % 256
           c == bit(256, sum)
<1>1. sum \in 0 .. 511 /\ low \in Byte
  BY HighBit DEF Byte, Bit
<1>2. v = (IF sum >= 256 THEN sum - 256 ELSE sum) /\ c = (IF sum >= 256 THEN 1 ELSE 0)
  BY <1>1, CutByte
<1>3. v \in Byte /\ c \in Bit /\ v + 256 * c = sum
  BY <1>1, <1>2 DEF Byte, Bit
<1>4. /\ adc(a, b).value = v /\ adc(a, b).carry = c
      /\ adc(a, b).negative = (bit(128, v) = 1)
      /\ adc(a, b).overflow = (c # bit(128, low))
  BY DEF adc, arithmetic
<1>5. bit(128, v) = minus(v) /\ bit(128, low) = minus(low)
  BY <1>1, <1>3, HighBit DEF minus
<1>6. low = a + b + carry - 128 * minus(a) - 128 * minus(b)
  BY HighBit DEF minus, Byte, Bit
<1>7. c # minus(low) <=> minus(a) + minus(b) # minus(v) + c
  BY <1>1, <1>2, <1>6 DEF minus, Byte, Bit
<1>8. minus(v) = 1 <=> v >= 128
  BY DEF minus
<1> HIDE DEF v, c, low, sum
<1>9. adc(a, b).overflow \in BOOLEAN /\ adc(a, b).negative \in BOOLEAN
  BY <1>4
<1>10. /\ adc(a, b).value \in Byte /\ adc(a, b).carry \in Bit
       /\ adc(a, b).value + 256 * adc(a, b).carry = sum
  BY <1>3, <1>4
<1>11. adc(a, b).negative <=> adc(a, b).value >= 128
  BY <1>4, <1>5, <1>8
<1>12. adc(a, b).overflow <=>
         minus(a) + minus(b) # minus(adc(a, b).value) + adc(a, b).carry
  BY <1>4, <1>5, <1>7
<1> QED
  BY <1>9, <1>10, <1>11, <1>12 DEF sum

-----------------------------------------------------------------------------
(* Decimal digits: a byte of two of them, and what is made of its halves.  *)
Decimals == 0 .. 9

LEMMA Nibbles ==
  ASSUME NEW x \in 0 .. 15, NEW y \in 0 .. 15
  PROVE  /\ x + 16 * y \in Byte
         /\ (x + 16 * y) % 16 = x
         /\ (x + 16 * y) \div 16 = y
<1>1. x + 16 * y \in Byte
  BY DEF Byte
<1>2. (x + 16 * y) \div 16 = y
  BY SMT
<1>3. (x + 16 * y) % 16 = x
  BY SMT
<1> QED
  BY <1>1, <1>2, <1>3

lo(b) == b % 16
hi(b) == b \div 16

LEMMA BcdByte ==
  ASSUME NEW a \in Byte, isBcd(a)
  PROVE  /\ lo(a) \in Decimals /\ hi(a) \in Decimals
         /\ digit(a, 100) = 10 * hi(a) + lo(a)
<1>1. lo(a) \in 0 .. 15
  BY SMT DEF Byte, lo
<1>2. hi(a) \in 0 .. 15
  BY SMT DEF Byte, hi
<1>3. digit(a, 100) = 10 * hi(a) + lo(a)
  BY Zenon DEF digit, lo, hi
<1>4. lo(a) < 10 /\ hi(a) < 10
  BY DEF isBcd, lo, hi
<1> QED
  BY <1>1, <1>2, <1>3, <1>4 DEF Decimals

LEMMA MadeOfDigits ==
  ASSUME NEW x \in Decimals, NEW y \in Decimals
  PROVE  /\ x + 16 * y \in Byte
         /\ isBcd(x + 16 * y)
         /\ digit(x + 16 * y, 100) = 10 * y + x
  BY Nibbles DEF Decimals, isBcd, digit

LEMMA DecimalAdjust ==
  ASSUME NEW d \in 0 .. 19, NEW e, e = (IF d > 9 THEN d + 6 ELSE d)
  PROVE  /\ e % 16 = IF d > 9 THEN d - 10 ELSE d
         /\ e > 15 <=> d > 9
         /\ e \in 0 .. 25
<1>1. CASE d > 9
  <2>1. e = d + 6
    BY <1>1
  <2>2. (d + 6) % 16 = d - 10
    BY <1>1, SMT
  <2> QED
    BY <1>1, <2>1, <2>2
<1>2. CASE ~(d > 9)
  <2>1. d % 16 = d
    BY <1>2, SMT
  <2> QED
    BY <1>2, <2>1
<1> QED
  BY <1>1, <1>2

LEMMA AdcDecimalFacts ==
  ASSUME NEW a \in Byte, NEW b \in Byte, carry \in Bit, isBcd(a), isBcd(b)
  PROVE  /\ adcDecimal(a, b).value \in Byte /\ adcDecimal(a, b).carry \in Bit
         /\ isBcd(adcDecimal(a, b).value)
         /\ digit(adcDecimal(a, b).value, 100) + 100 * adcDecimal(a, b).carry
              = digit(a, 100) + digit(b, 100) + carry
<1> DEFINE l0 == lo(a) + lo(b) + carry
           l  == IF l0 > 9 THEN l0 + 6 ELSE l0
           f  == flag(l > 15)
           h0 == hi(a) + hi(b) + f
           h  == IF h0 > 9 THEN h0 + 6 ELSE h0
           g  == flag(h > 15)
           x  == IF l0 > 9 THEN l0 - 10 ELSE l0
           y  == IF h0 > 9 THEN h0 - 10 ELSE h0
           n  == x + 16 * h
           da == digit(a, 100)
           db == digit(b, 100)
<1>1. adcDecimal(a, b).value = ((l % 16) + 16 * h) % 256 /\ adcDecimal(a, b).carry = g
  BY DEF adcDecimal, lo, hi
<1>2. /\ lo(a) \in Decimals /\ hi(a) \in Decimals /\ lo(b) \in Decimals /\ hi(b) \in Decimals
      /\ da = 10 * hi(a) + lo(a) /\ db = 10 * hi(b) + lo(b)
  BY BcdByte
<1> HIDE DEF da, db
<1>3. l0 \in 0 .. 19 /\ l0 = lo(a) + lo(b) + carry
  BY <1>2 DEF Decimals, Bit
<1> HIDE DEF l0
<1>4. l % 16 = x /\ (l > 15 <=> l0 > 9)
  BY <1>3, DecimalAdjust
<1>5. f = IF l0 > 9 THEN 1 ELSE 0
  BY <1>4 DEF flag
<1> HIDE DEF l, f
<1>6. h0 \in 0 .. 19 /\ h0 = hi(a) + hi(b) + f
  BY <1>2, <1>5 DEF Decimals
<1> HIDE DEF h0
<1>7. h > 15 <=> h0 > 9
  BY <1>6, DecimalAdjust
<1>8. g = IF h0 > 9 THEN 1 ELSE 0
  BY <1>7 DEF flag
<1> HIDE DEF g
<1>9. /\ x \in Decimals /\ y \in Decimals
      /\ n \in 0 .. 511 /\ n = x + 16 * y + 256 * g
  BY <1>3, <1>6, <1>8 DEF Decimals
<1>10. 10 * y + x + 100 * g = da + db + carry
  <2>1. x = l0 - 10 * f /\ y = h0 - 10 * g /\ f \in Bit /\ g \in Bit
    BY <1>3, <1>5, <1>6, <1>8 DEF Bit
  <2> DEFINE al == lo(a)  ah == hi(a)  bl == lo(b)  bh == hi(b)
  <2>2. /\ al \in Int /\ ah \in Int /\ bl \in Int /\ bh \in Int
        /\ da = 10 * ah + al /\ db = 10 * bh + bl
        /\ l0 = al + bl + carry /\ h0 = ah + bh + f
    BY <1>2, <1>3, <1>6 DEF Decimals
  <2>3. f \in Int /\ g \in Int /\ carry \in Int
    BY <2>1 DEF Bit
  <2> HIDE DEF al, ah, bl, bh, x, y
  <2> QED
    BY <2>1, <2>2, <2>3
<1>11. (l % 16) + 16 * h = n
  BY <1>4
<1> HIDE DEF x, y, n, h
<1>12. n % 256 = IF n >= 256 THEN n - 256 ELSE n
  BY <1>9, CutByte
<1>13. g \in Bit
  BY <1>8 DEF Bit
<1>14. x + 16 * y \in Byte /\ isBcd(x + 16 * y) /\ digit(x + 16 * y, 100) = 10 * y + x
  BY <1>9, MadeOfDigits
<1>15. n % 256 = x + 16 * y
  BY <1>9, <1>12, <1>13, <1>14 DEF Bit, Byte, Decimals
<1>16. adcDecimal(a, b).value = x + 16 * y
  BY <1>1, <1>11, <1>15
<1> QED
  BY <1>1, <1>10, <1>13, <1>14, <1>16 DEF da, db

(* A digit below zero borrows from the next one.                           *)
LEMMA DecimalBorrow ==
  ASSUME NEW d \in -10 .. 9
  PROVE  LET e == IF bit(16, d) = 1 THEN d - 6 ELSE d
         IN  /\ bit(16, d) = IF d < 0 THEN 1 ELSE 0
             /\ e = IF d < 0 THEN d - 6 ELSE d
             /\ e % 16 = IF d < 0 THEN d + 10 ELSE d
             /\ bit(16, e) = IF d < 0 THEN 1 ELSE 0
             /\ e % 256 < 15 <=> d >= 0
<1> DEFINE e == IF bit(16, d) = 1 THEN d - 6 ELSE d
<1>1. CASE d < 0
  <2>1. d \div 16 = -1
    BY <1>1, SMT
  <2>2. bit(16, d) = 1
    BY <2>1, SMT DEF bit
  <2>3. e = d - 6
    BY <2>2
  <2>4. (d - 6) \div 16 = -1
    BY <1>1, SMT
  <2>5. (d - 6) % 16 = d + 10
    BY <1>1, SMT
  <2>6. (d - 6) % 256 = d + 250
    BY <1>1, SMT
  <2>7. bit(16, d - 6) = 1
    BY <2>4, SMT DEF bit
  <2> QED
    BY <1>1, <2>2, <2>3, <2>5, <2>6, <2>7
<1>2. CASE ~(d < 0)
  <2>1. d \div 16 = 0
    BY <1>2, SMT
  <2>2. bit(16, d) = 0
    BY <2>1, SMT DEF bit
  <2>3. e = d
    BY <2>2
  <2>4. d % 16 = d
    BY <1>2, SMT
  <2>5. d % 256 = d
    BY <1>2, SMT
  <2> QED
    BY <1>2, <2>2, <2>3, <2>4, <2>5
<1> QED
  BY <1>1, <1>2

LEMMA WrapByte ==
  ASSUME NEW n \in -256 .. 255
  PROVE  n % 256 = IF n < 0 THEN n + 256 ELSE n
  BY SMT

LEMMA SbcDecimalFacts ==
  ASSUME NEW a \in Byte, NEW b \in Byte, carry \in Bit, isBcd(a), isBcd(b)
  PROVE  /\ sbcDecimal(a, b).value \in Byte /\ sbcDecimal(a, b).carry \in Bit
         /\ isBcd(sbcDecimal(a, b).value)
         /\ digit(sbcDecimal(a, b).value, 100) - 100 * (1 - sbcDecimal(a, b).carry)
              = digit(a, 100) - digit(b, 100) - (1 - carry)
<1> DEFINE l0 == lo(a) - lo(b) - (1 - carry)
           l  == IF bit(16, l0) = 1 THEN l0 - 6 ELSE l0
           f  == bit(16, l)
           h0 == hi(a) - hi(b) - f
           h  == IF bit(16, h0) = 1 THEN h0 - 6 ELSE h0
           g  == flag(h % 256 < 15)
           x  == IF l0 < 0 THEN l0 + 10 ELSE l0
           y  == IF h0 < 0 THEN h0 + 10 ELSE h0
           n  == x + 16 * h
           da == digit(a, 100)
           db == digit(b, 100)
<1>1. sbcDecimal(a, b).value = ((l % 16) + 16 * h) % 256 /\ sbcDecimal(a, b).carry = g
  BY DEF sbcDecimal, lo, hi
<1>2. /\ lo(a) \in Decimals /\ hi(a) \in Decimals /\ lo(b) \in Decimals /\ hi(b) \in Decimals
      /\ da = 10 * hi(a) + lo(a) /\ db = 10 * hi(b) + lo(b)
  BY BcdByte
<1> HIDE DEF da, db
<1>3. l0 \in -10 .. 9 /\ l0 = lo(a) - lo(b) - (1 - carry)
  BY <1>2 DEF Decimals, Bit
<1> HIDE DEF l0
<1>4. l % 16 = x /\ f = IF l0 < 0 THEN 1 ELSE 0
  BY <1>3, DecimalBorrow
<1> HIDE DEF l, f
<1>5. h0 \in -10 .. 9 /\ h0 = hi(a) - hi(b) - f
  BY <1>2, <1>4 DEF Decimals
<1> HIDE DEF h0
<1>6. h = (IF h0 < 0 THEN h0 - 6 ELSE h0) /\ (h % 256 < 15 <=> h0 >= 0)
  BY <1>5, DecimalBorrow
<1>7. g = IF h0 >= 0 THEN 1 ELSE 0
  BY <1>6 DEF flag
<1> HIDE DEF g, h
<1>8. /\ x \in Decimals /\ y \in Decimals
      /\ n \in -256 .. 255 /\ n = x + 16 * y - 256 * (1 - g)
  BY <1>3, <1>5, <1>6, <1>7 DEF Decimals
<1>9. 10 * y + x - 100 * (1 - g) = da - db - (1 - carry)
  <2>1. x = l0 + 10 * f /\ y = h0 + 10 * (1 - g) /\ f \in Bit /\ g \in Bit
    BY <1>3, <1>4, <1>5, <1>7 DEF Bit
  <2> DEFINE al == lo(a)  ah == hi(a)  bl == lo(b)  bh == hi(b)
  <2>2. /\ al \in Int /\ ah \in Int /\ bl \in Int /\ bh \in Int
        /\ da = 10 * ah + al /\ db = 10 * bh + bl
        /\ l0 = al - bl - (1 - carry) /\ h0 = ah - bh - f
    BY <1>2, <1>3, <1>5 DEF Decimals
  <2>3. f \in Int /\ g \in Int /\ carry \in Int
    BY <2>1 DEF Bit
  <2> HIDE DEF al, ah, bl, bh, x, y
  <2> QED
    BY <2>1, <2>2, <2>3
<1>10. (l % 16) + 16 * h = n
  BY <1>4
<1> HIDE DEF x, y, n
<1>11. n % 256 = IF n < 0 THEN n + 256 ELSE n
  BY <1>8, WrapByte
<1>12. g \in Bit
  BY <1>7 DEF Bit
<1>13. x + 16 * y \in Byte /\ isBcd(x + 16 * y) /\ digit(x + 16 * y, 100) = 10 * y + x
  BY <1>8, MadeOfDigits
<1>14. n % 256 = x + 16 * y
  BY <1>8, <1>11, <1>12, <1>13 DEF Bit, Byte, Decimals
<1> DEFINE z == x + 16 * y
           v == sbcDecimal(a, b).value
           k == sbcDecimal(a, b).carry
<1>15. v = z /\ k = g
  BY <1>1, <1>10, <1>14
<1>16. z \in Byte /\ isBcd(z) /\ digit(z, 100) = 10 * y + x
  BY <1>13
<1> HIDE DEF z, v, k
<1>17. digit(v, 100) - 100 * (1 - k) = da - db - (1 - carry)
  <2>1. digit(v, 100) = 10 * y + x
    BY <1>15, <1>16
  <2> HIDE DEF da, db
  <2> QED
    BY <1>8, <1>9, <1>12, <1>15, <2>1 DEF Decimals, Bit
<1> QED
  BY <1>12, <1>15, <1>16, <1>17 DEF da, db, v, k

-----------------------------------------------------------------------------
LEMMA SbcFacts ==
  ASSUME NEW a \in Byte, NEW b \in Byte, carry \in Bit
  PROVE  /\ sbc(a, b).value \in Byte /\ sbc(a, b).carry \in Bit
         /\ sbc(a, b).overflow \in BOOLEAN /\ sbc(a, b).negative \in BOOLEAN
         /\ sbc(a, b).value - 256 * (1 - sbc(a, b).carry) = a - b - (1 - carry)
         /\ sbc(a, b).negative <=> sbc(a, b).value >= 128
         /\ sbc(a, b).overflow <=>
              minus(a) - minus(b) # minus(sbc(a, b).value) - (1 - sbc(a, b).carry)
<1> DEFINE c == 255 - b
           v == sbc(a, b).value
           k == sbc(a, b).carry
           o == sbc(a, b).overflow
           m == sbc(a, b).negative
<1>1. c \in Byte /\ minus(c) = 1 - minus(b)
  BY DEF Byte, minus
<1>2. c = 255 - b
  OBVIOUS
<1>3. sbc(a, b) = adc(a, c)
  BY DEF sbc
<1> HIDE DEF c
<1>4. /\ v \in Byte /\ k \in Bit /\ o \in BOOLEAN /\ m \in BOOLEAN
      /\ v + 256 * k = a + c + carry
      /\ m <=> v >= 128
      /\ o <=> minus(a) + minus(c) # minus(v) + k
  BY <1>1, <1>3, AdcFacts
<1> HIDE DEF v, k, o, m
<1>5. v - 256 * (1 - k) = a - b - (1 - carry)
  BY <1>2, <1>4 DEF Byte, Bit
<1>6. minus(a) + minus(c) # minus(v) + k <=> minus(a) - minus(b) # minus(v) - (1 - k)
  BY <1>1, <1>4 DEF minus, Bit
<1> QED
  BY <1>4, <1>5, <1>6 DEF v, k, o, m

LEMMA CmpFacts ==
  ASSUME NEW a \in Byte, NEW b \in Byte
  PROVE  /\ cmp(a, b).value \in Byte /\ cmp(a, b).carry \in Bit
         /\ cmp(a, b).value - 256 * (1 - cmp(a, b).carry) = a - b
         /\ cmp(a, b).carry = flag(a >= b)
<1>1. a - b \in -256 .. 255
  BY DEF Byte
<1>2. (a - b) % 256 = IF a - b < 0 THEN a - b + 256 ELSE a - b
  BY <1>1, WrapByte
<1>3. cmp(a, b).value = (a - b) % 256 /\ cmp(a, b).carry = flag(a >= b)
  BY DEF cmp
<1> QED
  BY <1>2, <1>3 DEF flag, Bit, Byte

LEMMA ShiftFacts ==
  ASSUME NEW a \in Byte, carry \in Bit
  PROVE  /\ asl(a).value \in Byte /\ asl(a).carry \in Bit
         /\ asl(a).value + 256 * asl(a).carry = 2 * a
         /\ rol(a).value \in Byte /\ rol(a).carry \in Bit
         /\ rol(a).value + 256 * rol(a).carry = 2 * a + carry
         /\ lsr(a).value \in Byte /\ lsr(a).carry \in Bit
         /\ 2 * lsr(a).value + lsr(a).carry = a
         /\ ror(a).value \in Byte /\ ror(a).carry \in Bit
         /\ 2 * ror(a).value + ror(a).carry = a + 256 * carry
<1> DEFINE d == 2 * a
           e == 2 * a + carry
           q == a \div 2
           t == a % 2
           w == 128 * carry
<1>1. /\ asl(a).value = d % 256 /\ asl(a).carry = bit(128, a)
      /\ rol(a).value = e % 256 /\ rol(a).carry = bit(128, a)
      /\ lsr(a).value = q /\ lsr(a).carry = t
      /\ ror(a).value = q + w /\ ror(a).carry = t
  BY DEF asl, rol, lsr, ror, shift
<1>2. d \in 0 .. 511 /\ e \in 0 .. 511 /\ d = 2 * a /\ e = 2 * a + carry /\ w = 128 * carry
  BY DEF Byte, Bit
<1>3. q \in 0 .. 127 /\ t \in Bit /\ 2 * q + t = a
  <2>1. a \div 2 \in 0 .. 127 /\ a % 2 \in Bit /\ 2 * (a \div 2) + (a % 2) = a
    BY SMT DEF Byte, Bit
  <2> QED
    BY <2>1
<1>4. bit(128, a) = IF a >= 128 THEN 1 ELSE 0
  BY HighBit
<1> HIDE DEF d, e, q, t, w
<1>5. /\ d % 256 = IF d >= 256 THEN d - 256 ELSE d
      /\ e % 256 = IF e >= 256 THEN e - 256 ELSE e
  BY <1>2, CutByte
<1>6. /\ d % 256 \in Byte /\ bit(128, a) \in Bit
      /\ (d % 256) + 256 * bit(128, a) = 2 * a
      /\ e % 256 \in Byte
      /\ (e % 256) + 256 * bit(128, a) = 2 * a + carry
  BY <1>2, <1>4, <1>5 DEF Byte, Bit
<1>7. /\ q + w \in Byte /\ 2 * (q + w) + t = a + 256 * carry /\ q \in Byte
  BY <1>2, <1>3 DEF Byte, Bit
<1> QED
  BY <1>1, <1>3, <1>6, <1>7

-----------------------------------------------------------------------------
(* The number that the first n bytes make, and the weight of the next one. *)
digitIf(b, p, base) == IF p THEN digit(b, base) ELSE 0
lower(bytes, n, base) ==
  digitIf(bytes[1], 1 <= n, base) + base * digitIf(bytes[2], 2 <= n, base)
    + base * base * digitIf(bytes[3], 3 <= n, base)
weight(n, base) == IF n = 0 THEN 1 ELSE IF n = 1 THEN base
                   ELSE IF n = 2 THEN base * base ELSE base * base * base

Bases == {100, 256}

LEMMA DigitRange ==
  /\ \A b \in Byte : digit(b, 256) = b
  /\ \A b \in Byte : isBcd(b) => digit(b, 100) \in 0 .. 99
<1>1. \A b \in Byte : digit(b, 256) = b
  BY DEF digit
<1>2. ASSUME NEW b \in Byte, isBcd(b)
      PROVE  digit(b, 100) \in 0 .. 99
  <2>1. lo(b) \in Decimals /\ hi(b) \in Decimals /\ digit(b, 100) = 10 * hi(b) + lo(b)
    BY <1>2, BcdByte
  <2> QED
    BY <2>1 DEF Decimals
<1> QED
  BY <1>1, <1>2

(* Bytes with a digit of the base, whichever it is.                        *)
fits(b, base) == b \in Byte /\ (base = 100 => isBcd(b))

LEMMA FitsRange ==
  ASSUME NEW base \in Bases, NEW b, fits(b, base)
  PROVE  digit(b, base) \in 0 .. base - 1
<1>1. b \in Byte /\ b \in 0 .. 255
  BY DEF fits, Byte
<1>2. CASE base = 256
  BY <1>1, <1>2, DigitRange
<1>3. CASE base = 100
  <2>1. isBcd(b)
    BY <1>3 DEF fits
  <2>2. digit(b, 100) \in 0 .. 99
    BY <1>1, <2>1, DigitRange
  <2> QED
    BY <1>3, <2>2
<1> QED
  BY <1>2, <1>3 DEF Bases

LEMMA LowerZero ==
  ASSUME NEW bytes, NEW base \in Bases
  PROVE  lower(bytes, 0, base) = 0
  BY DEF lower, digitIf, Bases

LEMMA LowerStep ==
  ASSUME NEW bytes, NEW n \in 0 .. 2, NEW base \in Bases,
         \A k \in 1 .. n + 1 : fits(bytes[k], base)
  PROVE  /\ lower(bytes, n, base) \in 0 .. weight(n, base) - 1
         /\ lower(bytes, n + 1, base) = lower(bytes, n, base) + weight(n, base) * digit(bytes[n + 1], base)
         /\ weight(n + 1, base) = base * weight(n, base)
         /\ weight(n, base) \in Nat
         /\ digit(bytes[n + 1], base) \in 0 .. base - 1
<1> DEFINE d(k) == digit(bytes[k], base)
<1>1. \A k \in 1 .. n + 1 : d(k) \in 0 .. base - 1
  BY FitsRange
<1>2. lower(bytes, n, base) = (IF 1 <= n THEN d(1) ELSE 0) + base * (IF 2 <= n THEN d(2) ELSE 0)
                                + base * base * (IF 3 <= n THEN d(3) ELSE 0)
  BY Zenon DEF lower, digitIf
<1>3. lower(bytes, n + 1, base) = (IF 1 <= n + 1 THEN d(1) ELSE 0) + base * (IF 2 <= n + 1 THEN d(2) ELSE 0)
                                + base * base * (IF 3 <= n + 1 THEN d(3) ELSE 0)
  BY Zenon DEF lower, digitIf
<1> HIDE DEF d
<1>4. CASE n = 0
  BY <1>1, <1>2, <1>3, <1>4 DEF weight, Bases, d
<1>5. CASE n = 1
  BY <1>1, <1>2, <1>3, <1>5 DEF weight, Bases, d
<1>6. CASE n = 2
  BY <1>1, <1>2, <1>3, <1>6 DEF weight, Bases, d
<1> QED
  BY <1>4, <1>5, <1>6

(* A number of one byte more, the new one in front.                        *)
LEMMA LowerAppend ==
  ASSUME NEW q \in Seq(Byte), NEW n, n = Len(q), n \in 0 .. 2, NEW v \in Byte, NEW base \in Bases
  PROVE  /\ Append(q, v) \in Seq(Byte) /\ Len(Append(q, v)) = n + 1
         /\ Append(q, v)[n + 1] = v
         /\ \A k \in 1 .. n : Append(q, v)[k] = q[k]
         /\ lower(Append(q, v), n, base) = lower(q, n, base)
<1>1. /\ Append(q, v) \in Seq(Byte) /\ Len(Append(q, v)) = n + 1
      /\ Append(q, v)[n + 1] = v
      /\ \A k \in 1 .. n : Append(q, v)[k] = q[k]
  BY AppendProperties
<1> DEFINE p == Append(q, v)
<1>2. \A k \in 1 .. n : p[k] = q[k]
  BY <1>1
<1> HIDE DEF p
<1>3. /\ digitIf(p[1], 1 <= n, base) = digitIf(q[1], 1 <= n, base)
      /\ digitIf(p[2], 2 <= n, base) = digitIf(q[2], 2 <= n, base)
      /\ digitIf(p[3], 3 <= n, base) = digitIf(q[3], 3 <= n, base)
  BY <1>2 DEF digitIf
<1>4. lower(p, n, base) = lower(q, n, base)
  BY <1>3, Zenon DEF lower
<1> QED
  BY <1>1, <1>4 DEF p

(* Numbers are what all their bytes make.                                  *)
LEMMA NumberIsLower ==
  ASSUME NEW bytes, NEW base
  PROVE  number(bytes, base) = lower(bytes, NumBytes, base) /\ power(base) = weight(NumBytes, base)
<1>1. NumBytes \in 1 .. 3
  BY AluAssumption
<1>2. \A k \in 1 .. 3 : digitAt(bytes, k, base) = digitIf(bytes[k], k <= NumBytes, base)
  BY Zenon DEF digitAt, digitIf
<1>3. number(bytes, base) = lower(bytes, NumBytes, base)
  BY <1>2 DEF number, lower
<1>4. power(base) = weight(NumBytes, base)
  BY <1>1 DEF power, weight
<1> QED
  BY <1>3, <1>4

-----------------------------------------------------------------------------
(* One byte more, in numbers: w is the weight of the new one, R, A and B   *)
(* are the numbers so far.                                                 *)
Weights == {1, 100, 256, 10000, 65536}

LEMMA WeightIsConstant ==
  ASSUME NEW n \in 0 .. 2, NEW base \in Bases
  PROVE  weight(n, base) \in Weights
  BY DEF weight, Bases, Weights

LEMMA AddOne ==
  ASSUME NEW w \in Weights, NEW base \in Bases, NEW R \in Int, NEW A \in Int, NEW B \in Int,
         NEW c \in Bit, NEW k \in Bit, NEW cin \in Bit,
         NEW r \in Int, NEW a \in Int, NEW b \in Int,
         R + w * c = A + B + cin, r + base * k = a + b + c
  PROVE  (R + w * r) + (base * w) * k = (A + w * a) + (B + w * b) + cin
  BY DEF Weights, Bases, Bit

LEMMA SubtractOne ==
  ASSUME NEW w \in Weights, NEW base \in Bases, NEW R \in Int, NEW A \in Int, NEW B \in Int,
         NEW c \in Bit, NEW k \in Bit, NEW cin \in Bit,
         NEW r \in Int, NEW a \in Int, NEW b \in Int,
         R - w * (1 - c) = A - B - (1 - cin), r - base * (1 - k) = a - b - (1 - c)
  PROVE  (R + w * r) - (base * w) * (1 - k) = (A + w * a) - (B + w * b) - (1 - cin)
  BY DEF Weights, Bases, Bit

LEMMA CompareOne ==
  ASSUME NEW w \in Weights, NEW base \in Bases,
         NEW A \in Int, NEW B \in Int, A \in 0 .. w - 1, B \in 0 .. w - 1,
         NEW c \in Bit, NEW k \in Bit,
         NEW r \in Int, NEW a \in Int, NEW b \in Int, r \in 0 .. base - 1,
         (c = 1 <=> A >= B), r - base * (1 - k) = a - b - (1 - c)
  PROVE  (k = 1 <=> A + w * a >= B + w * b)
  BY DEF Weights, Bases, Bit

(* The same for signed numbers: their sign is that of the highest byte.    *)
LEMMA CompareSigned ==
  ASSUME NEW w \in Weights,
         NEW A \in 0 .. w - 1, NEW B \in 0 .. w - 1,
         NEW c \in Bit, NEW k \in Bit,
         NEW r \in Byte, NEW a \in Byte, NEW b \in Byte,
         NEW N \in BOOLEAN, NEW V \in BOOLEAN,
         (c = 1 <=> A >= B), r - 256 * (1 - k) = a - b - (1 - c),
         N <=> r >= 128,
         V <=> minus(a) - minus(b) # minus(r) - (1 - k)
  PROVE  (N # V) <=> A + w * a - (256 * w) * minus(a) < B + w * b - (256 * w) * minus(b)
<1> DEFINE u == a - 256 * minus(a) - (b - 256 * minus(b)) - (1 - c)
<1>1. u = r - 256 * (1 - k) - 256 * minus(a) + 256 * minus(b)
  BY DEF minus, Byte, Bit
<1>2. (N # V) <=> u < 0
  BY <1>1 DEF minus, Byte, Bit
<1>3. u \in Int /\ u = a - 256 * minus(a) - (b - 256 * minus(b)) - (1 - c)
  BY DEF minus, Byte, Bit
<1> HIDE DEF u
<1>4. A + w * a - (256 * w) * minus(a) < B + w * b - (256 * w) * minus(b) <=> u < 0
  BY <1>3 DEF Weights, minus, Byte, Bit, flag
<1> QED
  BY <1>2, <1>4

-----------------------------------------------------------------------------
(* The same for sequences of bytes: x and y are the operands, q the result *)
(* so far, v its next byte.                                                *)
LEMMA AppendFits ==
  ASSUME NEW q \in Seq(Byte), NEW n, n = Len(q), n \in 0 .. 2, NEW base \in Bases,
         NEW v, fits(v, base), \A k \in 1 .. n : fits(q[k], base)
  PROVE  /\ \A k \in 1 .. n + 1 : fits(Append(q, v)[k], base)
         /\ lower(Append(q, v), n + 1, base) = lower(q, n, base) + weight(n, base) * digit(v, base)
         /\ digit(v, base) \in 0 .. base - 1
         /\ lower(q, n, base) \in Int
<1>1. v \in Byte
  BY DEF fits
<1> DEFINE p == Append(q, v)
<1>2. /\ p[n + 1] = v /\ \A k \in 1 .. n : p[k] = q[k]
      /\ lower(p, n, base) = lower(q, n, base)
  BY <1>1, LowerAppend
<1> HIDE DEF p
<1>3. \A k \in 1 .. n + 1 : fits(p[k], base)
  BY <1>2
<1>4. /\ lower(p, n + 1, base) = lower(p, n, base) + weight(n, base) * digit(p[n + 1], base)
      /\ lower(p, n, base) \in 0 .. weight(n, base) - 1 /\ weight(n, base) \in Nat
      /\ digit(p[n + 1], base) \in 0 .. base - 1
  BY <1>3, LowerStep
<1>5. lower(p, n, base) \in Int
  BY <1>4
<1> QED
  BY <1>2, <1>3, <1>4, <1>5 DEF p

LEMMA AddBytes ==
  ASSUME NEW q \in Seq(Byte), NEW n, n = Len(q), n \in 0 .. 2, NEW base \in Bases,
         NEW x, NEW y, \A k \in 1 .. n + 1 : fits(x[k], base) /\ fits(y[k], base),
         NEW v, fits(v, base), \A k \in 1 .. n : fits(q[k], base),
         NEW c \in Bit, NEW k \in Bit, NEW cin \in Bit,
         lower(q, n, base) + weight(n, base) * c = lower(x, n, base) + lower(y, n, base) + cin,
         digit(v, base) + base * k = digit(x[n + 1], base) + digit(y[n + 1], base) + c
  PROVE  lower(Append(q, v), n + 1, base) + weight(n + 1, base) * k
           = lower(x, n + 1, base) + lower(y, n + 1, base) + cin
<1> DEFINE w == weight(n, base)
           A == lower(x, n, base)
           B == lower(y, n, base)
           R == lower(q, n, base)
           a == digit(x[n + 1], base)
           b == digit(y[n + 1], base)
           r == digit(v, base)
<1>1. /\ A \in 0 .. w - 1 /\ lower(x, n + 1, base) = A + w * a /\ a \in 0 .. base - 1
      /\ weight(n + 1, base) = base * w
  BY LowerStep
<1>2. B \in 0 .. w - 1 /\ lower(y, n + 1, base) = B + w * b /\ b \in 0 .. base - 1
  BY LowerStep
<1>3. lower(Append(q, v), n + 1, base) = R + w * r /\ r \in 0 .. base - 1 /\ R \in Int
  BY AppendFits
<1>4. w \in Weights
  BY WeightIsConstant
<1>5. R + w * c = A + B + cin /\ r + base * k = a + b + c
  OBVIOUS
<1> HIDE DEF w, A, B, R, a, b, r
<1>6. A \in Int /\ B \in Int /\ a \in Int /\ b \in Int /\ r \in Int
  BY <1>1, <1>2, <1>3
<1>7. (R + w * r) + (base * w) * k = (A + w * a) + (B + w * b) + cin
  BY <1>3, <1>4, <1>5, <1>6, AddOne
<1> QED
  BY <1>1, <1>2, <1>3, <1>7

LEMMA SubtractBytes ==
  ASSUME NEW q \in Seq(Byte), NEW n, n = Len(q), n \in 0 .. 2, NEW base \in Bases,
         NEW x, NEW y, \A k \in 1 .. n + 1 : fits(x[k], base) /\ fits(y[k], base),
         NEW v, fits(v, base), \A k \in 1 .. n : fits(q[k], base),
         NEW c \in Bit, NEW k \in Bit, NEW cin \in Bit,
         lower(q, n, base) - weight(n, base) * (1 - c) = lower(x, n, base) - lower(y, n, base) - (1 - cin),
         digit(v, base) - base * (1 - k) = digit(x[n + 1], base) - digit(y[n + 1], base) - (1 - c)
  PROVE  lower(Append(q, v), n + 1, base) - weight(n + 1, base) * (1 - k)
           = lower(x, n + 1, base) - lower(y, n + 1, base) - (1 - cin)
<1> DEFINE w == weight(n, base)
           A == lower(x, n, base)
           B == lower(y, n, base)
           R == lower(q, n, base)
           a == digit(x[n + 1], base)
           b == digit(y[n + 1], base)
           r == digit(v, base)
<1>1. /\ A \in 0 .. w - 1 /\ lower(x, n + 1, base) = A + w * a /\ a \in 0 .. base - 1
      /\ weight(n + 1, base) = base * w
  BY LowerStep
<1>2. B \in 0 .. w - 1 /\ lower(y, n + 1, base) = B + w * b /\ b \in 0 .. base - 1
  BY LowerStep
<1>3. lower(Append(q, v), n + 1, base) = R + w * r /\ r \in 0 .. base - 1 /\ R \in Int
  BY AppendFits
<1>4. w \in Weights
  BY WeightIsConstant
<1>5. R - w * (1 - c) = A - B - (1 - cin) /\ r - base * (1 - k) = a - b - (1 - c)
  OBVIOUS
<1> HIDE DEF w, A, B, R, a, b, r
<1>6. A \in Int /\ B \in Int /\ a \in Int /\ b \in Int /\ r \in Int
  BY <1>1, <1>2, <1>3
<1>7. (R + w * r) - (base * w) * (1 - k) = (A + w * a) - (B + w * b) - (1 - cin)
  BY <1>3, <1>4, <1>5, <1>6, SubtractOne
<1> QED
  BY <1>1, <1>2, <1>3, <1>7

LEMMA CompareBytes ==
  ASSUME NEW n \in 0 .. 2, NEW base \in Bases,
         NEW x, NEW y, \A k \in 1 .. n + 1 : fits(x[k], base) /\ fits(y[k], base),
         NEW v, fits(v, base), NEW c \in Bit, NEW k \in Bit,
         (c = 1 <=> lower(x, n, base) >= lower(y, n, base)),
         digit(v, base) - base * (1 - k) = digit(x[n + 1], base) - digit(y[n + 1], base) - (1 - c)
  PROVE  (k = 1 <=> lower(x, n + 1, base) >= lower(y, n + 1, base))
<1> DEFINE w == weight(n, base)
           A == lower(x, n, base)
           B == lower(y, n, base)
           a == digit(x[n + 1], base)
           b == digit(y[n + 1], base)
           r == digit(v, base)
<1>1. /\ A \in 0 .. w - 1 /\ lower(x, n + 1, base) = A + w * a /\ a \in 0 .. base - 1
  BY LowerStep
<1>2. B \in 0 .. w - 1 /\ lower(y, n + 1, base) = B + w * b /\ b \in 0 .. base - 1
  BY LowerStep
<1>3. r \in 0 .. base - 1
  BY FitsRange
<1>4. w \in Weights
  BY WeightIsConstant
<1>5. (c = 1 <=> A >= B) /\ r - base * (1 - k) = a - b - (1 - c)
  OBVIOUS
<1> HIDE DEF w, A, B, a, b, r
<1>6. a \in Int /\ b \in Int
  BY <1>1, <1>2 DEF Bases
<1>7. (k = 1 <=> A + w * a >= B + w * b)
  <2>1. A \in 0 .. w - 1 /\ B \in 0 .. w - 1 /\ r \in 0 .. base - 1
    BY <1>1, <1>2, <1>3
  <2>2. (c = 1 <=> A >= B)
    BY <1>5
  <2>3. r - base * (1 - k) = a - b - (1 - c)
    BY <1>5
  <2>4. A \in Int /\ B \in Int /\ r \in Int
    BY <2>1
  <2> QED
    BY <1>4, <1>6, <2>1, <2>2, <2>3, <2>4, CompareOne
<1> DEFINE A1 == lower(x, n + 1, base)
           B1 == lower(y, n + 1, base)
<1>8. A1 = A + w * a /\ B1 = B + w * b
  BY <1>1, <1>2
<1> HIDE DEF A1, B1
<1>9. (k = 1 <=> A1 >= B1)
  BY <1>7, <1>8, Zenon
<1> QED
  BY <1>9 DEF A1, B1

(* The number whose highest byte is the n-th, in two's complement.         *)
twos(bytes, n) == lower(bytes, n, 256) - weight(n, 256) * minus(bytes[n])

LEMMA CompareSignedBytes ==
  ASSUME NEW n \in 0 .. 2, NEW x, NEW y,
         \A k \in 1 .. n + 1 : x[k] \in Byte /\ y[k] \in Byte,
         NEW v \in Byte, NEW c \in Bit, NEW k \in Bit,
         NEW N \in BOOLEAN, NEW V \in BOOLEAN,
         (c = 1 <=> lower(x, n, 256) >= lower(y, n, 256)),
         v - 256 * (1 - k) = x[n + 1] - y[n + 1] - (1 - c),
         N <=> v >= 128,
         V <=> minus(x[n + 1]) - minus(y[n + 1]) # minus(v) - (1 - k)
  PROVE  (N # V) <=> twos(x, n + 1) < twos(y, n + 1)
<1> DEFINE w == weight(n, 256)
           A == lower(x, n, 256)
           B == lower(y, n, 256)
           a == x[n + 1]
           b == y[n + 1]
<1>1. 256 \in Bases /\ \A i \in 1 .. n + 1 : fits(x[i], 256) /\ fits(y[i], 256)
  BY DEF Bases, fits
<1>2. a \in Byte /\ b \in Byte /\ digit(a, 256) = a /\ digit(b, 256) = b
  BY DigitRange
<1>3. /\ A \in 0 .. w - 1 /\ lower(x, n + 1, 256) = A + w * a
      /\ weight(n + 1, 256) = 256 * w
  BY <1>1, <1>2, LowerStep
<1>4. B \in 0 .. w - 1 /\ lower(y, n + 1, 256) = B + w * b
  BY <1>1, <1>2, LowerStep
<1>5. w \in Weights
  BY <1>1, WeightIsConstant
<1>6. /\ (c = 1 <=> A >= B) /\ v - 256 * (1 - k) = a - b - (1 - c)
      /\ V <=> minus(a) - minus(b) # minus(v) - (1 - k)
  OBVIOUS
<1>7. /\ twos(x, n + 1) = lower(x, n + 1, 256) - weight(n + 1, 256) * minus(a)
      /\ twos(y, n + 1) = lower(y, n + 1, 256) - weight(n + 1, 256) * minus(b)
  BY DEF twos
<1> HIDE DEF w, A, B, a, b
<1>8. (N # V) <=> A + w * a - (256 * w) * minus(a) < B + w * b - (256 * w) * minus(b)
  BY <1>2, <1>3, <1>4, <1>5, <1>6, CompareSigned
<1>9. /\ twos(x, n + 1) = A + w * a - (256 * w) * minus(a)
      /\ twos(y, n + 1) = B + w * b - (256 * w) * minus(b)
  <2> DEFINE A1 == lower(x, n + 1, 256)
             B1 == lower(y, n + 1, 256)
             w1 == weight(n + 1, 256)
  <2>2. A1 = A + w * a /\ B1 = B + w * b /\ w1 = 256 * w
    BY <1>3, <1>4
  <2>3. twos(x, n + 1) = A1 - w1 * minus(a) /\ twos(y, n + 1) = B1 - w1 * minus(b)
    BY <1>7
  <2> DEFINE ma == minus(a)
             mb == minus(b)
  <2>4. ma \in Int /\ mb \in Int
    BY DEF minus
  <2>5. A \in Int /\ B \in Int /\ a \in Int /\ b \in Int
    BY <1>2, <1>3, <1>4 DEF Byte
  <2> HIDE DEF A1, B1, w1, ma, mb
  <2>6. A1 - w1 * ma = A + w * a - (256 * w) * ma
    BY <1>5, <2>2, <2>4, <2>5 DEF Weights
  <2>7. B1 - w1 * mb = B + w * b - (256 * w) * mb
    BY <1>5, <2>2, <2>4, <2>5 DEF Weights
  <2> QED
    BY <2>3, <2>6, <2>7 DEF ma, mb
<1> DEFINE p == A + w * a - (256 * w) * minus(a)
           q == B + w * b - (256 * w) * minus(b)
<1>10. ((N # V) <=> p < q) /\ twos(x, n + 1) = p /\ twos(y, n + 1) = q
  BY <1>8, <1>9
<1> HIDE DEF p, q
<1> QED
  BY <1>10

-----------------------------------------------------------------------------
(* What holds of the bytes bytesDone so far (n of them), for every operation.   *)
bytesDone == Len(result)

Numerals ==
  /\ operation \in operations /\ decimal \in BOOLEAN /\ carryIn \in Bit
  /\ acc \in [1 .. NumBytes -> Byte] /\ operand \in [1 .. NumBytes -> Byte]

(* Garbage in a decimal operation is of no interest.                       *)
regular == ordinary \/ operation \in {"left", "right"}

Typed ==
  /\ result \in Seq(Byte) /\ bytesDone <= NumBytes /\ carry \in Bit
  /\ bytesDone = 0 => carry = carryIn

Added ==
  operation = "add" /\ ordinary =>
    /\ \A k \in 1 .. bytesDone : fits(result[k], radix)
    /\ lower(result, bytesDone, radix) + weight(bytesDone, radix) * carry
         = lower(acc, bytesDone, radix) + lower(operand, bytesDone, radix) + carryIn
    /\ ~decimal /\ bytesDone > 0 =>
         /\ overflow \in BOOLEAN
         /\ overflow <=> minus(acc[bytesDone]) + minus(operand[bytesDone]) # minus(result[bytesDone]) + carry

Subtracted ==
  operation = "subtract" /\ ordinary =>
    /\ \A k \in 1 .. bytesDone : fits(result[k], radix)
    /\ lower(result, bytesDone, radix) - weight(bytesDone, radix) * (1 - carry)
         = lower(acc, bytesDone, radix) - lower(operand, bytesDone, radix) - (1 - carryIn)
    /\ ~decimal /\ bytesDone > 0 =>
         /\ overflow \in BOOLEAN
         /\ overflow <=> minus(acc[bytesDone]) - minus(operand[bytesDone]) # minus(result[bytesDone]) - (1 - carry)

Compared ==
  operation = "compare" /\ ordinary /\ bytesDone > 0 =>
    /\ carry = 1 <=> lower(acc, bytesDone, radix) >= lower(operand, bytesDone, radix)
    /\ ~decimal /\ bytesDone > 1 => ((negative # overflow) <=> twos(acc, bytesDone) < twos(operand, bytesDone))

ShiftedLeft ==
  operation = "left" /\ bytesDone > 0 =>
    lower(result, bytesDone, 256) + weight(bytesDone, 256) * carry = 2 * lower(acc, bytesDone, 256)

(* The number that n bytes make, the highest first.                        *)
upper(bytes, n) == IF n = 0 THEN 0 ELSE IF n = 1 THEN bytes[1]
                   ELSE IF n = 2 THEN 256 * bytes[1] + bytes[2]
                   ELSE 65536 * bytes[1] + 256 * bytes[2] + bytes[3]
fromTop == [k \in 1 .. NumBytes |-> acc[NumBytes + 1 - k]]

ShiftedRight ==
  operation = "right" /\ bytesDone > 0 => 2 * upper(result, bytesDone) + carry = upper(fromTop, bytesDone)

AluIInv ==
  /\ Numerals
  /\ regular => Typed /\ Added /\ Subtracted /\ Compared /\ ShiftedLeft /\ ShiftedRight

LEMMA RadixFacts ==
  /\ radix \in Bases
  /\ ~decimal => radix = 256
  /\ radix = 100 <=> bcd
  /\ ordinary => (decimal <=> radix = 100)
  /\ bcd \in BOOLEAN
  BY DEF radix, bcd, Bases, ordinary

LEMMA NumeralsFit ==
  ASSUME Numerals
  PROVE  \A k \in 1 .. NumBytes : /\ acc[k] \in Byte /\ operand[k] \in Byte
                                 /\ fits(acc[k], radix) /\ fits(operand[k], radix)
                                 /\ fits(acc[k], 256) /\ fits(operand[k], 256)
<1>1. \A k \in 1 .. NumBytes : acc[k] \in Byte /\ operand[k] \in Byte
  BY DEF Numerals
<1>2. radix = 100 => \A k \in 1 .. NumBytes : isBcd(acc[k]) /\ isBcd(operand[k])
  BY RadixFacts DEF bcd
<1> QED
  BY <1>1, <1>2 DEF fits

LEMMA AluInitIInv == AluInit => AluIInv
<1> SUFFICES ASSUME AluInit PROVE AluIInv
  OBVIOUS
<1>1. NumBytes \in 1 .. 3
  BY AluAssumption
<1>2. Numerals
  <2>1. Operands \subseteq Byte
    BY AluAssumption DEF Byte
  <2>2. acc \in [1 .. NumBytes -> Operands] /\ operand \in [1 .. NumBytes -> Operands]
    BY DEF AluInit
  <2>3. acc \in [1 .. NumBytes -> Byte] /\ operand \in [1 .. NumBytes -> Byte]
    BY <2>1, <2>2
  <2> QED
    BY <2>3 DEF AluInit, Numerals, Bit
<1>3. result = <<>> /\ bytesDone = 0 /\ result \in Seq(Byte)
  BY EmptySeq DEF AluInit, bytesDone
<1>4. Typed
  BY <1>1, <1>3 DEF AluInit, Typed, Bit
<1>5. lower(result, 0, radix) = 0 /\ lower(acc, 0, radix) = 0 /\ lower(operand, 0, radix) = 0
  BY LowerZero, RadixFacts
<1>6. weight(0, radix) = 1 /\ carry = carryIn /\ carry \in Bit
  BY DEF weight, AluInit, Bit
<1>7. Added /\ Subtracted
  BY <1>3, <1>5, <1>6 DEF Added, Subtracted, Bit
<1> QED
  BY <1>2, <1>3, <1>4, <1>7 DEF AluIInv, Compared, ShiftedLeft, ShiftedRight

(* What does not change.                                                   *)
LEMMA SameOperands ==
  ASSUME UNCHANGED <<operation, decimal, acc, operand, carryIn>>
  PROVE  /\ radix' = radix /\ bcd' = bcd /\ ordinary' = ordinary /\ regular' = regular
         /\ fromTop' = fromTop /\ (Numerals => Numerals')
<1>1. bcd' = bcd
  BY DEF bcd
<1>2. radix' = radix /\ ordinary' = ordinary
  BY <1>1 DEF radix, ordinary
<1>3. regular' = regular
  BY <1>2 DEF regular
<1>4. fromTop' = fromTop
  BY DEF fromTop
<1> QED
  BY <1>1, <1>2, <1>3, <1>4 DEF Numerals

(* What every step does: one byte more.                                    *)
LEMMA ByteDone ==
  ASSUME AluIInv, regular, AluByte, NEW v, NEW k \in Bit, v \in Byte,
         result' = Append(result, v), carry' = k
  PROVE  /\ bytesDone \in 0 .. 2 /\ bytesDone + 1 <= NumBytes /\ bytesDone' = bytesDone + 1
         /\ Typed'
         /\ result'[bytesDone + 1] = v
         /\ UNCHANGED <<operation, decimal, acc, operand, carryIn>>
<1>1. NumBytes \in 1 .. 3
  BY AluAssumption
<1>2. result \in Seq(Byte) /\ bytesDone <= NumBytes
  BY DEF AluIInv, Typed
<1>3. bytesDone \in Nat
  BY <1>2, LenProperties DEF bytesDone
<1>4. bytesDone + 1 <= NumBytes /\ UNCHANGED <<operation, decimal, acc, operand, carryIn>>
  BY DEF AluByte, bytesDone
<1>5. bytesDone \in 0 .. 2
  BY <1>1, <1>3, <1>4
<1>6. /\ Append(result, v) \in Seq(Byte) /\ Len(Append(result, v)) = bytesDone + 1
      /\ Append(result, v)[bytesDone + 1] = v
  BY <1>2, AppendProperties DEF bytesDone
<1>7. result' \in Seq(Byte) /\ bytesDone' = bytesDone + 1
  BY <1>6 DEF bytesDone
<1>8. Typed'
  <2>1. bytesDone' <= NumBytes /\ bytesDone' # 0
    BY <1>4, <1>5, <1>7
  <2> QED
    BY <1>7, <2>1 DEF Typed
<1> QED
  BY <1>4, <1>5, <1>6, <1>7, <1>8

LEMMA AddStep ==
  ASSUME AluIInv, regular, AluByte, operation = "add"
  PROVE  Typed' /\ Added'
<1> DEFINE n == bytesDone
           a == acc[n + 1]
           b == operand[n + 1]
           r == IF decimal THEN adcDecimal(a, b) ELSE adc(a, b)
           base == radix
<1>1. ordinary /\ Numerals /\ Typed /\ Added
  BY DEF AluIInv, regular
<1>2. /\ result' = Append(result, r.value) /\ carry' = r.carry /\ overflow' = r.overflow
      /\ n + 1 <= NumBytes /\ UNCHANGED <<operation, decimal, acc, operand, carryIn>>
  BY <1>1 DEF AluByte, bytesDone, Numerals
<1>3. n \in Nat /\ result \in Seq(Byte) /\ NumBytes \in 1 .. 3 /\ carry \in Bit
  BY <1>1, LenProperties, AluAssumption DEF Typed, bytesDone
<1>4. \A k \in 1 .. n + 1 : fits(acc[k], base) /\ fits(operand[k], base)
  BY <1>1, <1>2, <1>3, NumeralsFit
<1>5. a \in Byte /\ b \in Byte /\ (decimal => isBcd(a) /\ isBcd(b))
  BY <1>1, <1>2, <1>3, NumeralsFit, RadixFacts DEF fits
<1>6. /\ fits(r.value, base) /\ r.carry \in Bit
      /\ digit(r.value, base) + base * r.carry = digit(a, base) + digit(b, base) + carry
      /\ ~decimal => r.overflow \in BOOLEAN /\ (r.overflow <=> minus(a) + minus(b) # minus(r.value) + r.carry)
  <2>1. CASE decimal
    <3>1. base = 100 /\ r = adcDecimal(a, b)
      BY <1>1, <2>1, RadixFacts
    <3> QED
      BY <1>3, <1>5, <2>1, <3>1, AdcDecimalFacts DEF fits
  <2>2. CASE ~decimal
    <3>1. base = 256 /\ r = adc(a, b)
      BY <1>1, <2>2, RadixFacts
    <3>2. /\ r.value \in Byte /\ r.carry \in Bit
          /\ r.value + 256 * r.carry = a + b + carry
          /\ r.overflow \in BOOLEAN
          /\ r.overflow <=> minus(a) + minus(b) # minus(r.value) + r.carry
      BY <1>3, <1>5, <3>1, AdcFacts
    <3>3. digit(r.value, 256) = r.value /\ digit(a, 256) = a /\ digit(b, 256) = b
      BY <1>5, <3>2, DigitRange
    <3> HIDE DEF r, base
    <3> QED
      BY <3>1, <3>2, <3>3 DEF fits
  <2> QED
    BY <2>1, <2>2
<1> HIDE DEF r
<1>7. r.value \in Byte
  BY <1>6 DEF fits
<1>8. n \in 0 .. 2 /\ bytesDone' = n + 1 /\ Typed' /\ result'[n + 1] = r.value
  BY <1>2, <1>6, <1>7, ByteDone
<1>9. /\ \A k \in 1 .. n : fits(result[k], base)
      /\ lower(result, n, base) + weight(n, base) * carry
           = lower(acc, n, base) + lower(operand, n, base) + carryIn
  BY <1>1 DEF Added
<1>10. base \in Bases /\ radix' = base /\ (ordinary /\ decimal \in BOOLEAN)' /\ carryIn \in Bit
  BY <1>1, <1>2, RadixFacts, SameOperands DEF Numerals
<1> HIDE DEF base
<1>11. \A k \in 1 .. n + 1 : fits(Append(result, r.value)[k], base)
  <2> DEFINE v == r.value
  <2>1. fits(v, base) /\ n = Len(result)
    BY <1>6 DEF bytesDone
  <2> HIDE DEF v, n
  <2>2. n \in 0 .. 2 /\ result \in Seq(Byte) /\ \A k \in 1 .. n : fits(result[k], base)
    BY <1>3, <1>8, <1>9
  <2> QED
    BY <2>1, <2>2, <1>10, AppendFits DEF v
<1>12. lower(Append(result, r.value), n + 1, base) + weight(n + 1, base) * r.carry
         = lower(acc, n + 1, base) + lower(operand, n + 1, base) + carryIn
  <2> DEFINE v == r.value  k == r.carry
  <2>1. fits(v, base) /\ k \in Bit /\ n = Len(result)
        /\ digit(v, base) + base * k = digit(acc[n + 1], base) + digit(operand[n + 1], base) + carry
    BY <1>6 DEF bytesDone
  <2> HIDE DEF v, k, n
  <2>2. n \in 0 .. 2 /\ result \in Seq(Byte)
    BY <1>3, <1>8
  <2> QED
    BY <1>3, <1>4, <1>9, <1>10, <2>1, <2>2, AddBytes DEF v, k
<1>13. \A k \in 1 .. n + 1 : fits(result'[k], base)
  BY <1>2, <1>11
<1>14. lower(result', n + 1, base) + weight(n + 1, base) * carry'
         = lower(acc', n + 1, base) + lower(operand', n + 1, base) + carryIn'
  BY <1>2, <1>12
<1>15. ~decimal' => overflow' \in BOOLEAN /\ (overflow' <=> minus(acc'[n + 1]) + minus(operand'[n + 1])
                                   # minus(result'[n + 1]) + carry')
  BY <1>2, <1>6, <1>8
<1> QED
  BY <1>8, <1>10, <1>13, <1>14, <1>15 DEF Added

LEMMA SubtractStep ==
  ASSUME AluIInv, regular, AluByte, operation = "subtract"
  PROVE  Typed' /\ Subtracted'
<1> DEFINE n == bytesDone
           a == acc[n + 1]
           b == operand[n + 1]
           r == IF decimal THEN sbcDecimal(a, b) ELSE sbc(a, b)
           base == radix
<1>1. ordinary /\ Numerals /\ Typed /\ Subtracted
  BY DEF AluIInv, regular
<1>2. /\ result' = Append(result, r.value) /\ carry' = r.carry /\ overflow' = r.overflow
      /\ n + 1 <= NumBytes /\ UNCHANGED <<operation, decimal, acc, operand, carryIn>>
  BY <1>1 DEF AluByte, bytesDone, Numerals
<1>3. n \in Nat /\ result \in Seq(Byte) /\ NumBytes \in 1 .. 3 /\ carry \in Bit
  BY <1>1, LenProperties, AluAssumption DEF Typed, bytesDone
<1>4. \A k \in 1 .. n + 1 : fits(acc[k], base) /\ fits(operand[k], base)
  BY <1>1, <1>2, <1>3, NumeralsFit
<1>5. a \in Byte /\ b \in Byte /\ (decimal => isBcd(a) /\ isBcd(b))
  BY <1>1, <1>2, <1>3, NumeralsFit, RadixFacts DEF fits
<1>6. /\ fits(r.value, base) /\ r.carry \in Bit
      /\ digit(r.value, base) - base * (1 - r.carry) = digit(a, base) - digit(b, base) - (1 - carry)
      /\ ~decimal => r.overflow \in BOOLEAN /\ (r.overflow <=> minus(a) - minus(b) # minus(r.value) - (1 - r.carry))
  <2>1. CASE decimal
    <3>1. base = 100 /\ r = sbcDecimal(a, b)
      BY <1>1, <2>1, RadixFacts
    <3> QED
      BY <1>3, <1>5, <2>1, <3>1, SbcDecimalFacts DEF fits
  <2>2. CASE ~decimal
    <3>1. base = 256 /\ r = sbc(a, b)
      BY <1>1, <2>2, RadixFacts
    <3>2. /\ r.value \in Byte /\ r.carry \in Bit
          /\ r.value - 256 * (1 - r.carry) = a - b - (1 - carry)
          /\ r.overflow \in BOOLEAN
          /\ r.overflow <=> minus(a) - minus(b) # minus(r.value) - (1 - r.carry)
      BY <1>3, <1>5, <3>1, SbcFacts
    <3>3. digit(r.value, 256) = r.value /\ digit(a, 256) = a /\ digit(b, 256) = b
      BY <1>5, <3>2, DigitRange
    <3> HIDE DEF r, base
    <3> QED
      BY <3>1, <3>2, <3>3 DEF fits
  <2> QED
    BY <2>1, <2>2
<1> HIDE DEF r
<1>7. r.value \in Byte
  BY <1>6 DEF fits
<1>8. n \in 0 .. 2 /\ bytesDone' = n + 1 /\ Typed' /\ result'[n + 1] = r.value
  BY <1>2, <1>6, <1>7, ByteDone
<1>9. /\ \A k \in 1 .. n : fits(result[k], base)
      /\ lower(result, n, base) - weight(n, base) * (1 - carry)
           = lower(acc, n, base) - lower(operand, n, base) - (1 - carryIn)
  BY <1>1 DEF Subtracted
<1>10. base \in Bases /\ radix' = base /\ (ordinary /\ decimal \in BOOLEAN)' /\ carryIn \in Bit
  BY <1>1, <1>2, RadixFacts, SameOperands DEF Numerals
<1> HIDE DEF base
<1>11. \A k \in 1 .. n + 1 : fits(Append(result, r.value)[k], base)
  <2> DEFINE v == r.value
  <2>1. fits(v, base) /\ n = Len(result)
    BY <1>6 DEF bytesDone
  <2> HIDE DEF v, n
  <2>2. n \in 0 .. 2 /\ result \in Seq(Byte) /\ \A k \in 1 .. n : fits(result[k], base)
    BY <1>3, <1>8, <1>9
  <2> QED
    BY <2>1, <2>2, <1>10, AppendFits DEF v
<1>12. lower(Append(result, r.value), n + 1, base) - weight(n + 1, base) * (1 - r.carry)
         = lower(acc, n + 1, base) - lower(operand, n + 1, base) - (1 - carryIn)
  <2> DEFINE v == r.value  k == r.carry
  <2>1. fits(v, base) /\ k \in Bit /\ n = Len(result)
        /\ digit(v, base) - base * (1 - k) = digit(acc[n + 1], base) - digit(operand[n + 1], base) - (1 - carry)
    BY <1>6 DEF bytesDone
  <2> HIDE DEF v, k, n
  <2>2. n \in 0 .. 2 /\ result \in Seq(Byte)
    BY <1>3, <1>8
  <2> QED
    BY <1>3, <1>4, <1>9, <1>10, <2>1, <2>2, SubtractBytes DEF v, k
<1>13. \A k \in 1 .. n + 1 : fits(result'[k], base)
  BY <1>2, <1>11
<1>14. lower(result', n + 1, base) - weight(n + 1, base) * (1 - carry')
         = lower(acc', n + 1, base) - lower(operand', n + 1, base) - (1 - carryIn')
  BY <1>2, <1>12
<1>15. ~decimal' => overflow' \in BOOLEAN /\ (overflow' <=> minus(acc'[n + 1]) - minus(operand'[n + 1])
                                   # minus(result'[n + 1]) - (1 - carry'))
  BY <1>2, <1>6, <1>8
<1> QED
  BY <1>8, <1>10, <1>13, <1>14, <1>15 DEF Subtracted

(* Decimal bytes are ordered as their digits are.                          *)
LEMMA DigitOrder ==
  ASSUME NEW a, NEW b, NEW base \in Bases, fits(a, base), fits(b, base)
  PROVE  a >= b <=> digit(a, base) >= digit(b, base)
<1>1. a \in Byte /\ b \in Byte
  BY DEF fits
<1>2. CASE base = 256
  BY <1>1, <1>2, DigitRange
<1>3. CASE base = 100
  <2>1. /\ lo(a) \in Decimals /\ hi(a) \in Decimals /\ digit(a, 100) = 10 * hi(a) + lo(a)
        /\ lo(b) \in Decimals /\ hi(b) \in Decimals /\ digit(b, 100) = 10 * hi(b) + lo(b)
    BY <1>1, <1>3, BcdByte DEF fits
  <2>2. a = 16 * hi(a) + lo(a)
    BY <1>1, SMT DEF Byte, hi, lo
  <2>3. b = 16 * hi(b) + lo(b)
    BY <1>1, SMT DEF Byte, hi, lo
  <2> QED
    BY <1>3, <2>1, <2>2, <2>3 DEF Decimals
<1> QED
  BY <1>2, <1>3 DEF Bases

LEMMA CompareFirst ==
  ASSUME AluIInv, regular, AluByte, operation = "compare", bytesDone = 0
  PROVE  Typed' /\ Compared'
<1> DEFINE a == acc[1]
           b == operand[1]
           r == cmp(a, b)
           base == radix
<1>1. ordinary /\ Numerals /\ Typed
  BY DEF AluIInv, regular
<1>2. /\ result' = Append(result, r.value) /\ carry' = r.carry
      /\ UNCHANGED <<operation, decimal, acc, operand, carryIn>>
  BY <1>1 DEF AluByte, bytesDone, Numerals
<1>3. NumBytes \in 1 .. 3
  BY AluAssumption
<1>4. \A k \in 1 .. 1 : fits(acc[k], base) /\ fits(operand[k], base)
  BY <1>1, <1>3, NumeralsFit
<1>5. a \in Byte /\ b \in Byte /\ fits(a, base) /\ fits(b, base)
  BY <1>4 DEF fits
<1>6. r.value \in Byte /\ r.carry \in Bit /\ r.carry = flag(a >= b)
  BY <1>5, CmpFacts
<1> HIDE DEF r
<1>7. bytesDone' = 1 /\ Typed'
  BY <1>2, <1>6, ByteDone
<1>8. base \in Bases /\ radix' = base
  BY <1>2, RadixFacts, SameOperands
<1> HIDE DEF base
<1>9. lower(acc, 1, base) = digit(a, base) /\ lower(operand, 1, base) = digit(b, base)
  <2>1. 0 \in 0 .. 2 /\ weight(0, base) = 1
    BY DEF weight
  <2>2. lower(acc, 0, base) = 0 /\ lower(operand, 0, base) = 0
    BY <1>8, LowerZero
  <2>3. lower(acc, 1, base) = 0 + 1 * digit(a, base) /\ digit(a, base) \in 0 .. base - 1
    BY <1>4, <1>8, <2>1, <2>2, LowerStep
  <2>4. lower(operand, 1, base) = 0 + 1 * digit(b, base) /\ digit(b, base) \in 0 .. base - 1
    BY <1>4, <1>8, <2>1, <2>2, LowerStep
  <2> QED
    BY <1>8, <2>3, <2>4 DEF Bases
<1>10. a >= b <=> digit(a, base) >= digit(b, base)
  BY <1>5, <1>8, DigitOrder
<1>11. carry' = 1 <=> a >= b
  BY <1>2, <1>6 DEF flag
<1>12. carry' = 1 <=> lower(acc', 1, base) >= lower(operand', 1, base)
  BY <1>2, <1>9, <1>10, <1>11
<1>13. ~(bytesDone' > 1)
  BY <1>7
<1> QED
  BY <1>7, <1>8, <1>12, <1>13 DEF Compared

LEMMA CompareLater ==
  ASSUME AluIInv, regular, AluByte, operation = "compare", bytesDone > 0
  PROVE  Typed' /\ Compared'
<1> DEFINE n == bytesDone
           a == acc[n + 1]
           b == operand[n + 1]
           r == IF decimal THEN sbcDecimal(a, b) ELSE sbc(a, b)
           base == radix
<1>1. ordinary /\ Numerals /\ Typed /\ Compared
  BY DEF AluIInv, regular
<1>2. n \in Nat /\ result \in Seq(Byte) /\ NumBytes \in 1 .. 3 /\ carry \in Bit
  BY <1>1, LenProperties, AluAssumption DEF Typed, bytesDone
<1>3. ~(Len(result) + 1 = 1)
  BY <1>2 DEF bytesDone
<1>4. /\ result' = Append(result, r.value) /\ carry' = r.carry /\ overflow' = r.overflow
      /\ negative' = r.negative
      /\ n + 1 <= NumBytes /\ UNCHANGED <<operation, decimal, acc, operand, carryIn>>
  BY <1>1, <1>3 DEF AluByte, bytesDone, Numerals
<1>5. \A k \in 1 .. n + 1 : fits(acc[k], base) /\ fits(operand[k], base)
  BY <1>1, <1>2, <1>4, NumeralsFit
<1>6. a \in Byte /\ b \in Byte /\ (decimal => isBcd(a) /\ isBcd(b))
  BY <1>1, <1>2, <1>4, NumeralsFit, RadixFacts DEF fits
<1>7. /\ fits(r.value, base) /\ r.carry \in Bit
      /\ digit(r.value, base) - base * (1 - r.carry) = digit(a, base) - digit(b, base) - (1 - carry)
  <2>1. CASE decimal
    <3>1. base = 100 /\ r = sbcDecimal(a, b)
      BY <1>1, <2>1, RadixFacts
    <3> QED
      BY <1>2, <1>6, <2>1, <3>1, SbcDecimalFacts DEF fits
  <2>2. CASE ~decimal
    <3>1. base = 256 /\ r = sbc(a, b)
      BY <1>1, <2>2, RadixFacts
    <3>2. /\ r.value \in Byte /\ r.carry \in Bit
          /\ r.value - 256 * (1 - r.carry) = a - b - (1 - carry)
      BY <1>2, <1>6, <3>1, SbcFacts
    <3>3. digit(r.value, 256) = r.value /\ digit(a, 256) = a /\ digit(b, 256) = b
      BY <1>6, <3>2, DigitRange
    <3> HIDE DEF r, base
    <3> QED
      BY <3>1, <3>2, <3>3 DEF fits
  <2> QED
    BY <2>1, <2>2
<1>8. ~decimal => /\ base = 256 /\ r.overflow \in BOOLEAN /\ r.negative \in BOOLEAN
                  /\ r.value - 256 * (1 - r.carry) = a - b - (1 - carry)
                  /\ r.negative <=> r.value >= 128
                  /\ r.overflow <=> minus(a) - minus(b) # minus(r.value) - (1 - r.carry)
  <2> SUFFICES ASSUME ~decimal
               PROVE  /\ base = 256 /\ r.overflow \in BOOLEAN /\ r.negative \in BOOLEAN
                      /\ r.value - 256 * (1 - r.carry) = a - b - (1 - carry)
                      /\ r.negative <=> r.value >= 128
                      /\ r.overflow <=> minus(a) - minus(b) # minus(r.value) - (1 - r.carry)
    OBVIOUS
  <2>1. base = 256 /\ r = sbc(a, b)
    BY <1>1, RadixFacts
  <2> HIDE DEF base
  <2> QED
    BY <1>2, <1>6, <2>1, SbcFacts
<1> DEFINE v == r.value  k == r.carry  N == r.negative  V == r.overflow
<1> HIDE DEF r
<1>9. v \in Byte
  BY <1>7 DEF fits
<1>10. n \in 0 .. 2 /\ bytesDone' = n + 1 /\ Typed'
  BY <1>4, <1>7, <1>9, ByteDone
<1>11. carry = 1 <=> lower(acc, n, base) >= lower(operand, n, base)
  BY <1>1 DEF Compared
<1>12. base \in Bases /\ radix' = base /\ ordinary' = ordinary
  BY <1>4, RadixFacts, SameOperands
<1>13. /\ fits(v, base) /\ k \in Bit
       /\ digit(v, base) - base * (1 - k) = digit(acc[n + 1], base) - digit(operand[n + 1], base) - (1 - carry)
  BY <1>7
<1>14. carry' = k /\ overflow' = V /\ negative' = N
  BY <1>4
<1>15. ~decimal => /\ base = 256 /\ N \in BOOLEAN /\ V \in BOOLEAN
                   /\ v - 256 * (1 - k) = acc[n + 1] - operand[n + 1] - (1 - carry)
                   /\ N <=> v >= 128
                   /\ V <=> minus(acc[n + 1]) - minus(operand[n + 1]) # minus(v) - (1 - k)
  BY <1>8
<1> HIDE DEF v, k, N, V, n, base
<1>16. k = 1 <=> lower(acc, n + 1, base) >= lower(operand, n + 1, base)
  BY <1>2, <1>5, <1>10, <1>11, <1>12, <1>13, CompareBytes
<1>17. ASSUME ~decimal
       PROVE  (N # V) <=> twos(acc, n + 1) < twos(operand, n + 1)
  <2>1. \A i \in 1 .. n + 1 : acc[i] \in Byte /\ operand[i] \in Byte
    BY <1>5 DEF fits
  <2>2. carry = 1 <=> lower(acc, n, 256) >= lower(operand, n, 256)
    BY <1>11, <1>15, <1>17
  <2> QED
    BY <1>2, <1>9, <1>10, <1>13, <1>15, <1>17, <2>1, <2>2, CompareSignedBytes
<1>18. carry' = 1 <=> lower(acc', n + 1, base) >= lower(operand', n + 1, base)
  BY <1>4, <1>14, <1>16, Zenon
<1>19. ~decimal' => ((negative' # overflow') <=> twos(acc', n + 1) < twos(operand', n + 1))
  BY <1>4, <1>14, <1>17, Zenon
<1> QED
  BY <1>10, <1>12, <1>18, <1>19 DEF Compared, twos

LEMMA LeftStep ==
  ASSUME AluIInv, regular, AluByte, operation = "left"
  PROVE  Typed' /\ ShiftedLeft'
<1> DEFINE n == bytesDone
           a == acc[n + 1]
           r == IF n = 0 THEN asl(a) ELSE rol(a)
           c == IF n = 0 THEN 0 ELSE carry
<1>1. Numerals /\ Typed /\ ShiftedLeft
  BY DEF AluIInv
<1>2. n \in Nat /\ result \in Seq(Byte) /\ NumBytes \in 1 .. 3 /\ carry \in Bit
  BY <1>1, LenProperties, AluAssumption DEF Typed, bytesDone
<1>3. n + 1 = 1 <=> n = 0
  BY <1>2
<1>4. /\ result' = Append(result, r.value) /\ carry' = r.carry
      /\ n + 1 <= NumBytes /\ UNCHANGED <<operation, decimal, acc, operand, carryIn>>
  BY <1>1, <1>3 DEF AluByte, bytesDone, Numerals
<1>5. \A k \in 1 .. n + 1 : acc[k] \in Byte
  BY <1>1, <1>2, <1>4, NumeralsFit
<1>6. a \in Byte
  BY <1>2, <1>5
<1>7. r.value \in Byte /\ r.carry \in Bit /\ r.value + 256 * r.carry = 2 * a + c /\ c \in Bit
  <2>1. CASE n = 0
    <3>1. asl(a).value \in Byte /\ asl(a).carry \in Bit /\ asl(a).value + 256 * asl(a).carry = 2 * a
      BY <1>2, <1>6, ShiftFacts
    <3>2. r = asl(a) /\ c = 0
      BY <2>1
    <3> HIDE DEF r, a, c
    <3>3. r.value + 256 * r.carry = 2 * a + c
      BY <1>6, <3>1, <3>2 DEF Byte, Bit
    <3> QED
      BY <3>1, <3>2, <3>3 DEF Bit
  <2>2. CASE n # 0
    <3>1. rol(a).value \in Byte /\ rol(a).carry \in Bit /\ rol(a).value + 256 * rol(a).carry = 2 * a + carry
      BY <1>2, <1>6, ShiftFacts
    <3>2. r = rol(a) /\ c = carry
      BY <2>2
    <3> HIDE DEF r, a, c
    <3> QED
      BY <1>2, <3>1, <3>2
  <2> QED
    BY <2>1, <2>2
<1> HIDE DEF r
<1>8. n \in 0 .. 2 /\ bytesDone' = n + 1 /\ Typed'
  BY <1>4, <1>7, ByteDone
<1>9. lower(result, n, 256) + weight(n, 256) * c = 2 * lower(acc, n, 256)
  <2>1. CASE n = 0
    <3>1. lower(result, 0, 256) = 0 /\ lower(acc, 0, 256) = 0 /\ weight(0, 256) = 1
      BY LowerZero DEF Bases, weight
    <3> QED
      BY <2>1, <3>1
  <2>2. CASE n # 0
    BY <1>1, <1>2, <2>2 DEF ShiftedLeft
  <2> QED
    BY <2>1, <2>2
<1> DEFINE v == r.value  k == r.carry
<1>10. v \in Byte /\ k \in Bit /\ v + 256 * k = 2 * acc[n + 1] + c /\ c \in Bit
  BY <1>7
<1>11. n = Len(result)
  BY DEF bytesDone
<1>12. 256 \in Bases /\ fits(v, 256) /\ \A i \in 1 .. n + 1 : fits(acc[i], 256)
  BY <1>5, <1>10 DEF Bases, fits
<1>13. result \in Seq(Byte) /\ \A i \in 1 .. n : fits(result[i], 256)
  BY <1>2, <1>11, ElementOfSeq DEF fits
<1>14. carry' = k /\ result' = Append(result, v)
  BY <1>4
<1> HIDE DEF v, k, n, c, a
<1>15. lower(Append(result, v), n + 1, 256) + weight(n + 1, 256) * k = 2 * lower(acc, n + 1, 256)
  <2> DEFINE w == weight(n, 256)
             A == lower(acc, n, 256)
             R == lower(result, n, 256)
             a1 == acc[n + 1]
  <2>1. A \in 0 .. w - 1 /\ lower(acc, n + 1, 256) = A + w * digit(a1, 256) /\ weight(n + 1, 256) = 256 * w
    BY <1>8, <1>12, LowerStep
  <2>2. lower(Append(result, v), n + 1, 256) = R + w * digit(v, 256) /\ R \in Int
    <3>1. /\ result \in Seq(Byte) /\ n = Len(result) /\ n \in 0 .. 2 /\ 256 \in Bases
          /\ fits(v, 256) /\ \A i \in 1 .. n : fits(result[i], 256)
      BY <1>8, <1>11, <1>12, <1>13
    <3> QED
      BY <3>1, AppendFits
  <2>3. digit(a1, 256) = a1 /\ digit(v, 256) = v /\ a1 \in Byte
    BY <1>5, <1>8, <1>10, DigitRange
  <2>4. w \in Weights
    BY <1>8, <1>12, WeightIsConstant
  <2>5. R + w * c = 2 * A /\ v + 256 * k = 2 * a1 + c
    BY <1>9, <1>10
  <2> HIDE DEF w, A, R, a1
  <2>6. (R + w * v) + (256 * w) * k = 2 * (A + w * a1)
    BY <1>10, <2>1, <2>2, <2>3, <2>4, <2>5 DEF Weights, Byte, Bit
  <2> QED
    BY <2>1, <2>2, <2>3, <2>6
<1>16. lower(result', n + 1, 256) + weight(n + 1, 256) * carry' = 2 * lower(acc', n + 1, 256)
  BY <1>4, <1>14, <1>15
<1> QED
  BY <1>8, <1>16 DEF ShiftedLeft

LEMMA UpperStep ==
  ASSUME NEW bytes, NEW n \in 0 .. 2, \A i \in 1 .. n + 1 : bytes[i] \in Byte
  PROVE  upper(bytes, n) \in Nat /\ upper(bytes, n + 1) = 256 * upper(bytes, n) + bytes[n + 1]
<1>1. CASE n = 0
  BY <1>1 DEF upper, Byte
<1>2. CASE n = 1
  BY <1>2 DEF upper, Byte
<1>3. CASE n = 2
  <2>1. bytes[1] \in Int /\ bytes[2] \in Int /\ bytes[3] \in Int /\ bytes[1] >= 0 /\ bytes[2] >= 0
    BY <1>3 DEF Byte
  <2>2. /\ upper(bytes, 2) = 256 * bytes[1] + bytes[2]
        /\ upper(bytes, 3) = 65536 * bytes[1] + 256 * bytes[2] + bytes[3]
    BY DEF upper
  <2> DEFINE x == bytes[1]  y == bytes[2]  z == bytes[3]
  <2>3. 256 * x + y \in Nat /\ 65536 * x + 256 * y + z = 256 * (256 * x + y) + z
    <3> HIDE DEF x, y, z
    <3>1. x \in Int /\ y \in Int /\ z \in Int /\ x >= 0 /\ y >= 0
      BY <2>1 DEF x, y, z
    <3> QED
      BY <3>1
  <2> QED
    BY <1>3, <2>2, <2>3
<1> QED
  BY <1>1, <1>2, <1>3

LEMMA UpperSame ==
  ASSUME NEW x, NEW y, NEW n \in 0 .. 2, \A i \in 1 .. n : x[i] = y[i]
  PROVE  upper(x, n) = upper(y, n)
  BY DEF upper

LEMMA RightStep ==
  ASSUME AluIInv, regular, AluByte, operation = "right"
  PROVE  Typed' /\ ShiftedRight'
<1> DEFINE n == bytesDone
           a == acc[NumBytes - n]
           r == IF n = 0 THEN lsr(a) ELSE ror(a)
           c == IF n = 0 THEN 0 ELSE carry
<1>1. Numerals /\ Typed /\ ShiftedRight
  BY DEF AluIInv
<1>2. n \in Nat /\ result \in Seq(Byte) /\ NumBytes \in 1 .. 3 /\ carry \in Bit
  BY <1>1, LenProperties, AluAssumption DEF Typed, bytesDone
<1>3. (n + 1 = 1 <=> n = 0) /\ NumBytes + 1 - (n + 1) = NumBytes - n
  BY <1>2
<1>4. /\ result' = Append(result, r.value) /\ carry' = r.carry
      /\ n + 1 <= NumBytes /\ UNCHANGED <<operation, decimal, acc, operand, carryIn>>
  BY <1>1, <1>3 DEF AluByte, bytesDone, Numerals
<1>5. \A k \in 1 .. NumBytes : fromTop[k] = acc[NumBytes + 1 - k] /\ fromTop[k] \in Byte
  <2>1. ASSUME NEW k \in 1 .. NumBytes
        PROVE  fromTop[k] = acc[NumBytes + 1 - k] /\ fromTop[k] \in Byte
    <3>1. NumBytes + 1 - k \in 1 .. NumBytes
      BY <1>2
    <3> QED
      BY <1>1, <3>1, NumeralsFit DEF fromTop
  <2> QED
    BY <2>1
<1>6. fromTop[n + 1] = a /\ a \in Byte
  <2>1. n + 1 \in 1 .. NumBytes
    BY <1>2, <1>4
  <2>2. fromTop[n + 1] = acc[NumBytes + 1 - (n + 1)] /\ fromTop[n + 1] \in Byte
    BY <1>5, <2>1
  <2> QED
    BY <1>3, <2>2
<1>7. r.value \in Byte /\ r.carry \in Bit /\ 2 * r.value + r.carry = a + 256 * c /\ c \in Bit
  <2>1. CASE n = 0
    <3>1. lsr(a).value \in Byte /\ lsr(a).carry \in Bit /\ 2 * lsr(a).value + lsr(a).carry = a
      BY <1>2, <1>6, ShiftFacts
    <3>2. r = lsr(a) /\ c = 0
      BY <2>1
    <3> HIDE DEF r, a, c
    <3>3. 2 * r.value + r.carry = a + 256 * c
      BY <1>6, <3>1, <3>2 DEF Byte, Bit
    <3> QED
      BY <3>1, <3>2, <3>3 DEF Bit
  <2>2. CASE n # 0
    <3>1. ror(a).value \in Byte /\ ror(a).carry \in Bit /\ 2 * ror(a).value + ror(a).carry = a + 256 * carry
      BY <1>2, <1>6, ShiftFacts
    <3>2. r = ror(a) /\ c = carry
      BY <2>2
    <3> HIDE DEF r, a, c
    <3> QED
      BY <1>2, <3>1, <3>2
  <2> QED
    BY <2>1, <2>2
<1> HIDE DEF r
<1>8. n \in 0 .. 2 /\ bytesDone' = n + 1 /\ Typed'
  BY <1>4, <1>7, ByteDone
<1>9. 2 * upper(result, n) + c = upper(fromTop, n)
  <2>1. CASE n = 0
    <3>1. upper(result, 0) = 0 /\ upper(fromTop, 0) = 0
      BY DEF upper
    <3> QED
      BY <2>1, <3>1
  <2>2. CASE n # 0
    BY <1>1, <1>2, <2>2 DEF ShiftedRight
  <2> QED
    BY <2>1, <2>2
<1> DEFINE v == r.value  k == r.carry  p == Append(result, v)
<1>10. v \in Byte /\ k \in Bit /\ 2 * v + k = a + 256 * c /\ c \in Bit /\ carry' = k /\ result' = p
  BY <1>4, <1>7
<1>11. n = Len(result)
  BY DEF bytesDone
<1>12. /\ p[n + 1] = v /\ \A i \in 1 .. n : p[i] = result[i]
       /\ p \in Seq(Byte) /\ Len(p) = n + 1
  BY <1>2, <1>10, <1>11, AppendProperties
<1> HIDE DEF v, k, n, c, a, p
<1>13. \A i \in 1 .. n + 1 : p[i] \in Byte
  BY <1>8, <1>12, ElementOfSeq
<1>14. \A i \in 1 .. n + 1 : fromTop[i] \in Byte
  BY <1>4, <1>5, <1>8, <1>2
<1>15. 2 * upper(p, n + 1) + k = upper(fromTop, n + 1)
  <2> DEFINE P == upper(p, n)
             F == upper(fromTop, n)
  <2>1. P = upper(result, n)
    BY <1>8, <1>12, UpperSame
  <2>2. P \in Nat /\ upper(p, n + 1) = 256 * P + v
    BY <1>8, <1>12, <1>13, UpperStep
  <2>3. F \in Nat /\ upper(fromTop, n + 1) = 256 * F + a
    BY <1>6, <1>8, <1>14, UpperStep
  <2>4. 2 * P + c = F
    BY <1>9, <2>1
  <2> HIDE DEF P, F
  <2>5. 2 * (256 * P + v) + k = 256 * F + a
    BY <1>6, <1>10, <2>2, <2>3, <2>4 DEF Byte, Bit
  <2> QED
    BY <2>2, <2>3, <2>5
<1>16. 2 * upper(result', n + 1) + carry' = upper(fromTop', n + 1)
  BY <1>4, <1>10, <1>15, SameOperands
<1> QED
  BY <1>8, <1>16 DEF ShiftedRight

-----------------------------------------------------------------------------
LEMMA AluNext ==
  ASSUME AluIInv, [AluByte]_aluVars
  PROVE  AluIInv'
<1>1. CASE UNCHANGED aluVars
  <2>1. UNCHANGED <<operation, decimal, acc, operand, carryIn>> /\ bytesDone' = bytesDone
    BY <1>1 DEF aluVars, bytesDone
  <2>2. radix' = radix /\ ordinary' = ordinary /\ regular' = regular /\ fromTop' = fromTop /\ Numerals'
    BY <2>1, SameOperands DEF AluIInv
  <2>3. regular => Typed' /\ Added' /\ Subtracted' /\ Compared' /\ ShiftedLeft' /\ ShiftedRight'
    <3> SUFFICES ASSUME regular
                 PROVE  Typed' /\ Added' /\ Subtracted' /\ Compared' /\ ShiftedLeft' /\ ShiftedRight'
      OBVIOUS
    <3>1. Typed /\ Added /\ Subtracted /\ Compared /\ ShiftedLeft /\ ShiftedRight
      BY DEF AluIInv
    <3>2. Typed'
      BY <1>1, <2>1, <3>1 DEF Typed, aluVars
    <3>3. Added'
      BY <1>1, <2>1, <2>2, <3>1 DEF Added, aluVars
    <3>4. Subtracted'
      BY <1>1, <2>1, <2>2, <3>1 DEF Subtracted, aluVars
    <3>5. Compared'
      BY <1>1, <2>1, <2>2, <3>1 DEF Compared, aluVars
    <3>6. ShiftedLeft' /\ ShiftedRight'
      BY <1>1, <2>1, <2>2, <3>1 DEF ShiftedLeft, ShiftedRight, aluVars
    <3> QED
      BY <3>2, <3>3, <3>4, <3>5, <3>6
  <2> QED
    BY <2>2, <2>3 DEF AluIInv
<1>2. CASE AluByte
  <2>1. UNCHANGED <<operation, decimal, acc, operand, carryIn>>
    BY <1>2 DEF AluByte
  <2>2. regular' = regular /\ Numerals'
    BY <2>1, SameOperands DEF AluIInv
  <2>3. regular => Typed' /\ Added' /\ Subtracted' /\ Compared' /\ ShiftedLeft' /\ ShiftedRight'
    <3> SUFFICES ASSUME regular
                 PROVE  Typed' /\ Added' /\ Subtracted' /\ Compared' /\ ShiftedLeft' /\ ShiftedRight'
      OBVIOUS
    <3>1. operation' = operation /\ operation \in operations /\ bytesDone \in Nat
      BY <2>1, LenProperties DEF AluIInv, Numerals, Typed, bytesDone
    <3>2. CASE operation = "add"
      BY <1>2, <3>1, <3>2, AddStep DEF Subtracted, Compared, ShiftedLeft, ShiftedRight
    <3>3. CASE operation = "subtract"
      BY <1>2, <3>1, <3>3, SubtractStep DEF Added, Compared, ShiftedLeft, ShiftedRight
    <3>4. CASE operation = "compare"
      <4>1. Typed' /\ Compared'
        BY <1>2, <3>1, <3>4, CompareFirst, CompareLater
      <4> QED
        BY <3>1, <3>4, <4>1 DEF Added, Subtracted, ShiftedLeft, ShiftedRight
    <3>5. CASE operation = "left"
      BY <1>2, <3>1, <3>5, LeftStep DEF Added, Subtracted, Compared, ShiftedRight
    <3>6. CASE operation = "right"
      BY <1>2, <3>1, <3>6, RightStep DEF Added, Subtracted, Compared, ShiftedLeft
    <3> QED
      BY <3>1, <3>2, <3>3, <3>4, <3>5, <3>6 DEF operations
  <2> QED
    BY <2>2, <2>3 DEF AluIInv
<1> QED
  BY <1>1, <1>2

-----------------------------------------------------------------------------
(* What the invariant says when the last byte is done.                     *)
LEMMA SignedIsTwos ==
  ASSUME NEW bytes, ~decimal, \A i \in 1 .. NumBytes : bytes[i] \in Byte
  PROVE  /\ signed(number(bytes, radix)) = twos(bytes, NumBytes)
         /\ number(bytes, radix) \in Nat
         /\ twos(bytes, NumBytes) = number(bytes, radix) - span * minus(bytes[NumBytes])
<1>1. radix = 256 /\ 256 \in Bases /\ NumBytes \in 1 .. 3
  BY RadixFacts, AluAssumption DEF Bases
<1> DEFINE n == NumBytes - 1
           w == weight(n, 256)
           A == lower(bytes, n, 256)
           a == bytes[NumBytes]
           x == number(bytes, radix)
<1>2. n \in 0 .. 2 /\ n + 1 = NumBytes
  BY <1>1
<1>3. \A i \in 1 .. n + 1 : fits(bytes[i], 256)
  BY <1>1, <1>2 DEF fits
<1>4. a \in Byte /\ digit(a, 256) = a
  BY <1>1, DigitRange
<1>5. A \in 0 .. w - 1 /\ lower(bytes, n + 1, 256) = A + w * digit(bytes[n + 1], 256) /\ weight(n + 1, 256) = 256 * w
  BY <1>1, <1>2, <1>3, LowerStep
<1>6. w \in Weights
  BY <1>1, <1>2, WeightIsConstant
<1>7. x = lower(bytes, NumBytes, 256) /\ span = weight(NumBytes, 256)
  BY <1>1, NumberIsLower DEF span
<1>8. x = A + w * a /\ span = 256 * w
  BY <1>2, <1>4, <1>5, <1>7
<1>9. twos(bytes, NumBytes) = x - span * minus(a)
  BY <1>7 DEF twos
<1>10. signed(x) = IF x >= span \div 2 THEN x - span ELSE x
  BY DEF signed
<1> HIDE DEF n, w, A, a, x
<1>11. span \div 2 = 128 * w
  <2>1. (256 * w) \div 2 = 128 * w
    BY <1>6, SMT DEF Weights
  <2> QED
    BY <1>8, <2>1
<1>12. x >= 128 * w <=> a >= 128
  BY <1>4, <1>5, <1>6, <1>8 DEF Weights, Byte
<1>13. x - span * minus(a) = IF a >= 128 THEN x - span ELSE x
  BY <1>4, <1>5, <1>6, <1>8 DEF Weights, Byte, minus
<1>14. x \in Nat
  BY <1>4, <1>5, <1>6, <1>8 DEF Weights, Byte
<1> QED
  BY <1>9, <1>10, <1>11, <1>12, <1>13, <1>14 DEF x, a

LEMMA SumsAreRight ==
  ASSUME AluIInv
  PROVE  SumsRight
<1> SUFFICES ASSUME complete, ordinary PROVE
      /\ operation = "add" => resultNumber + span * carry = accNumber + operandNumber + carryIn
      /\ operation = "subtract" => resultNumber - span * (1 - carry) = accNumber - operandNumber - (1 - carryIn)
      /\ bcd /\ operation \in {"add", "subtract"} => \A i \in 1..NumBytes : isBcd(result[i])
  BY DEF SumsRight
<1>1. bytesDone = NumBytes /\ Added /\ Subtracted
  BY DEF AluIInv, regular, complete, bytesDone
<1>2. /\ resultNumber = lower(result, NumBytes, radix) /\ accNumber = lower(acc, NumBytes, radix)
      /\ operandNumber = lower(operand, NumBytes, radix) /\ span = weight(NumBytes, radix)
  BY NumberIsLower DEF resultNumber, accNumber, operandNumber, span
<1>3. operation = "add" => resultNumber + span * carry = accNumber + operandNumber + carryIn
  BY <1>1, <1>2 DEF Added
<1>4. operation = "subtract" => resultNumber - span * (1 - carry) = accNumber - operandNumber - (1 - carryIn)
  BY <1>1, <1>2 DEF Subtracted
<1>5. bcd /\ operation \in {"add", "subtract"} => \A i \in 1..NumBytes : isBcd(result[i])
  BY <1>1, RadixFacts DEF Added, Subtracted, fits
<1> QED
  BY <1>3, <1>4, <1>5

LEMMA OverflowIsRight ==
  ASSUME AluIInv
  PROVE  OverflowRight
<1> SUFFICES ASSUME complete, ~decimal PROVE
      /\ operation = "add" => overflow = (signed(accNumber) + signed(operandNumber) + carryIn # signed(resultNumber))
      /\ operation = "subtract" => overflow = (signed(accNumber) - signed(operandNumber) - (1 - carryIn) # signed(resultNumber))
  BY DEF OverflowRight
<1>1. ordinary /\ regular /\ Numerals /\ Typed /\ SumsRight /\ bytesDone = NumBytes
  BY SumsAreRight DEF AluIInv, regular, ordinary, complete, bytesDone
<1>2. NumBytes \in 1 .. 3 /\ bytesDone > 0
  BY <1>1, AluAssumption
<1>3. \A i \in 1 .. NumBytes : acc[i] \in Byte /\ operand[i] \in Byte /\ result[i] \in Byte
  <2>1. result \in Seq(Byte) /\ Len(result) = NumBytes
    BY <1>1 DEF Typed, bytesDone
  <2> QED
    BY <1>1, <2>1, NumeralsFit, ElementOfSeq
<1> DEFINE R == resultNumber  A == accNumber  B == operandNumber
           r == minus(result[NumBytes])  a == minus(acc[NumBytes])  b == minus(operand[NumBytes])
<1>4. R \in Nat /\ signed(R) = R - span * r
  BY <1>3, SignedIsTwos DEF resultNumber
<1>5. A \in Nat /\ signed(A) = A - span * a
  BY <1>3, SignedIsTwos DEF accNumber
<1>6. B \in Nat /\ signed(B) = B - span * b
  BY <1>3, SignedIsTwos DEF operandNumber
<1>7. span \in {256, 65536, 16777216}
  <2>1. radix = 256
    BY RadixFacts
  <2> QED
    BY <1>2, <2>1 DEF span, power
<1>8. r \in Bit /\ a \in Bit /\ b \in Bit /\ carry \in Bit /\ carryIn \in Bit
  BY <1>1 DEF minus, Bit, Typed, Numerals
<1>9. ASSUME operation = "add"
      PROVE  overflow = (signed(A) + signed(B) + carryIn # signed(R))
  <2>1. overflow <=> a + b # r + carry
    BY <1>1, <1>2, <1>9 DEF AluIInv, Added
  <2>2. R + span * carry = A + B + carryIn
    BY <1>1, <1>9 DEF SumsRight
  <2>3. overflow \in BOOLEAN
    BY <1>1, <1>2, <1>9 DEF AluIInv, Added
  <2> HIDE DEF R, A, B, r, a, b
  <2>4. a + b # r + carry <=> (A - span * a) + (B - span * b) + carryIn # R - span * r
    BY <1>4, <1>5, <1>6, <1>7, <1>8, <2>2 DEF Bit
  <2> QED
    BY <1>4, <1>5, <1>6, <2>1, <2>3, <2>4
<1>10. ASSUME operation = "subtract"
       PROVE  overflow = (signed(A) - signed(B) - (1 - carryIn) # signed(R))
  <2>1. overflow <=> a - b # r - (1 - carry)
    BY <1>1, <1>2, <1>10 DEF AluIInv, Subtracted
  <2>2. R - span * (1 - carry) = A - B - (1 - carryIn)
    BY <1>1, <1>10 DEF SumsRight
  <2>3. overflow \in BOOLEAN
    BY <1>1, <1>2, <1>10 DEF AluIInv, Subtracted
  <2> HIDE DEF R, A, B, r, a, b
  <2>4. a - b # r - (1 - carry) <=> (A - span * a) - (B - span * b) - (1 - carryIn) # R - span * r
    BY <1>4, <1>5, <1>6, <1>7, <1>8, <2>2 DEF Bit
  <2> QED
    BY <1>4, <1>5, <1>6, <2>1, <2>3, <2>4
<1> QED
  BY <1>9, <1>10

LEMMA ComparisonsAreRight ==
  ASSUME AluIInv
  PROVE  ComparesNumbers
<1> SUFFICES ASSUME complete, operation = "compare", ordinary PROVE
      /\ carry = flag(accNumber >= operandNumber)
      /\ ~decimal /\ NumBytes > 1 => (negative # overflow) = (signed(accNumber) < signed(operandNumber))
  BY DEF ComparesNumbers
<1>1. /\ bytesDone = NumBytes /\ Numerals /\ Typed /\ Compared
  BY DEF AluIInv, regular, complete, bytesDone
<1>2. NumBytes \in 1 .. 3 /\ bytesDone > 0 /\ carry \in Bit
  BY <1>1, AluAssumption DEF Typed
<1>3. accNumber = lower(acc, NumBytes, radix) /\ operandNumber = lower(operand, NumBytes, radix)
  BY NumberIsLower DEF accNumber, operandNumber
<1>4. carry = 1 <=> accNumber >= operandNumber
  BY <1>1, <1>2, <1>3 DEF Compared
<1>5. carry = flag(accNumber >= operandNumber)
  <2> HIDE DEF accNumber, operandNumber
  <2> QED
    BY <1>2, <1>4 DEF flag, Bit
<1>6. ASSUME ~decimal, NumBytes > 1
      PROVE  (negative # overflow) = (signed(accNumber) < signed(operandNumber))
  <2>1. (negative # overflow) <=> twos(acc, NumBytes) < twos(operand, NumBytes)
    BY <1>1, <1>2, <1>6 DEF Compared
  <2>2. \A i \in 1 .. NumBytes : acc[i] \in Byte /\ operand[i] \in Byte
    BY <1>1, NumeralsFit
  <2>3. signed(accNumber) = twos(acc, NumBytes)
    BY <1>6, <2>2, SignedIsTwos DEF accNumber
  <2>4. signed(operandNumber) = twos(operand, NumBytes)
    BY <1>6, <2>2, SignedIsTwos DEF operandNumber
  <2> QED
    BY <2>1, <2>3, <2>4
<1> QED
  BY <1>5, <1>6

LEMMA UpperIsNumber ==
  ASSUME NEW x, NEW y, \A i \in 1 .. NumBytes : x[i] \in Byte,
         \A i \in 1 .. NumBytes : y[i] = x[NumBytes + 1 - i]
  PROVE  number(x, 256) = upper(y, NumBytes)
<1>1. NumBytes \in 1 .. 3
  BY AluAssumption
<1> DEFINE d(k) == IF k <= NumBytes THEN x[k] ELSE 0
<1>2. d(1) \in Int /\ d(2) \in Int /\ d(3) \in Int
  <2>1. \A i \in 1 .. NumBytes : x[i] \in Int
    BY DEF Byte
  <2>2. NumBytes \in Nat
    BY <1>1
  <2>3. d(1) \in Int
    BY <2>1, <2>2
  <2>4. d(2) \in Int
    BY <2>1, <2>2
  <2>5. d(3) \in Int
    BY <2>1, <2>2
  <2> QED
    BY <2>3, <2>4, <2>5
<1>3. digitAt(x, 1, 256) = d(1) /\ digitAt(x, 2, 256) = d(2) /\ digitAt(x, 3, 256) = d(3)
  BY DEF digitAt, digit
<1>4. number(x, 256) = d(1) + 256 * d(2) + (256 * 256) * d(3)
  BY <1>3 DEF number
<1> DEFINE p == d(1)  q == d(2)  r == d(3)
<1>5. (256 * 256) * r = 65536 * r
  <2> HIDE DEF d, r
  <2>1. r \in Int
    BY <1>2 DEF r
  <2> QED
    BY <2>1
<1>6. upper(y, NumBytes) = p + 256 * q + 65536 * r
  <2>1. CASE NumBytes = 1
    <3>1. upper(y, NumBytes) = y[1] /\ y[1] = x[1]
      BY <2>1 DEF upper
    <3>2. p = x[1] /\ q = 0 /\ r = 0
      BY <2>1
    <3> HIDE DEF p, q, r, d
    <3> QED
      BY <1>2, <3>1, <3>2 DEF p, q, r
  <2>2. CASE NumBytes = 2
    <3>1. upper(y, NumBytes) = 256 * y[1] + y[2] /\ y[1] = x[2] /\ y[2] = x[1]
      BY <2>2 DEF upper
    <3>2. p = x[1] /\ q = x[2] /\ r = 0
      BY <2>2
    <3>3. p \in Int /\ q \in Int
      BY <1>2
    <3> HIDE DEF p, q, r, d
    <3> QED
      BY <3>1, <3>2, <3>3
  <2>3. CASE NumBytes = 3
    <3>1. upper(y, NumBytes) = 65536 * y[1] + 256 * y[2] + y[3] /\ y[1] = x[3] /\ y[2] = x[2] /\ y[3] = x[1]
      BY <2>3 DEF upper
    <3>2. p = x[1] /\ q = x[2] /\ r = x[3]
      BY <2>3
    <3>3. p \in Int /\ q \in Int /\ r \in Int
      BY <1>2
    <3> HIDE DEF p, q, r, d
    <3> QED
      BY <3>1, <3>2, <3>3
  <2> QED
    BY <1>1, <2>1, <2>2, <2>3
<1> QED
  BY <1>4, <1>5, <1>6

LEMMA ShiftsAreRight ==
  ASSUME AluIInv
  PROVE  ShiftsNumber
<1> DEFINE turned == [i \in 1..NumBytes |-> result[NumBytes + 1 - i]]
<1> SUFFICES ASSUME complete PROVE
    /\ operation = "left" => number(result, 256) + power(256) * carry = 2 * number(acc, 256)
    /\ operation = "right" => 2 * number(turned, 256) + carry = number(acc, 256)
  BY DEF ShiftsNumber
<1>1. bytesDone = NumBytes /\ NumBytes \in 1 .. 3
  BY AluAssumption DEF complete, bytesDone
<1>2. ASSUME operation = "left"
      PROVE  number(result, 256) + power(256) * carry = 2 * number(acc, 256)
  <2>1. ShiftedLeft /\ bytesDone > 0
    BY <1>1, <1>2 DEF AluIInv, regular
  <2> QED
    BY <1>1, <1>2, <2>1, NumberIsLower DEF ShiftedLeft
<1>3. ASSUME operation = "right"
      PROVE  2 * number(turned, 256) + carry = number(acc, 256)
  <2>1. ShiftedRight /\ bytesDone > 0 /\ Numerals /\ Typed
    BY <1>1, <1>3 DEF AluIInv, regular
  <2>2. /\ \A i \in 1 .. NumBytes : acc[i] \in Byte /\ result[i] \in Byte
    <3>1. result \in Seq(Byte) /\ Len(result) = NumBytes
      BY <1>1, <2>1 DEF Typed, bytesDone
    <3> QED
      BY <2>1, <3>1, NumeralsFit, ElementOfSeq
  <2>3. number(turned, 256) = upper(result, NumBytes)
    <3>1. \A i \in 1 .. NumBytes : turned[i] = result[NumBytes + 1 - i] /\ turned[i] \in Byte
      BY <1>1, <2>2
    <3>2. \A i \in 1 .. NumBytes : result[i] = turned[NumBytes + 1 - i]
      <4>1. ASSUME NEW i \in 1 .. NumBytes PROVE result[i] = turned[NumBytes + 1 - i]
        <5>1. NumBytes + 1 - i \in 1 .. NumBytes /\ NumBytes + 1 - (NumBytes + 1 - i) = i
          BY <1>1
        <5> QED
          BY <3>1, <5>1
      <4> QED
        BY <4>1
    <3> HIDE DEF turned
    <3> QED
      BY <3>1, <3>2, UpperIsNumber
  <2>4. number(acc, 256) = upper(fromTop, NumBytes)
    BY <1>1, <2>2, UpperIsNumber DEF fromTop
  <2> QED
    BY <1>1, <1>3, <2>1, <2>3, <2>4 DEF ShiftedRight
<1> QED
  BY <1>2, <1>3

(* Numbers of several bytes are calculated with correctly.                 *)
THEOREM ArithmeticIsRight == AluSpec => []ArithmeticRight
<1>1. AluInit => AluIInv
  BY AluInitIInv
<1>2. AluIInv /\ [AluByte]_aluVars => AluIInv'
  BY AluNext
<1>3. AluIInv => ArithmeticRight
  BY SumsAreRight, OverflowIsRight, ComparisonsAreRight, ShiftsAreRight DEF ArithmeticRight
<1> QED
  BY <1>1, <1>2, <1>3, PTL DEF AluSpec
=============================================================================
