------------------------------- MODULE Mandelbrot -------------------------------
(***************************************************************************)
(* The iteration of the cc65 sample mandelbrot.c: fixed-point numbers in   *)
(* signed shorts, products in longs, and a loop that stops before a number *)
(* grows out of its short.  One is tofp (1), a power of two; >> is the     *)
(* division that rounds down.                                              *)
(***************************************************************************)
EXTENDS Integers

CONSTANTS One,               (* 1 << fpshift (1024)                        *)
          ShortLimit,        (* shorts are below it (32768 = 32 * One)     *)
          maxiterations,     (* (32)                                       *)
          Screen             (* the resolution of the screen               *)

ASSUME MandelAssumption ==
  /\ One \in Nat \ {0} /\ ShortLimit = 32 * One
  /\ maxiterations \in Nat
  /\ Screen \in [x : 1 .. 4 * One, y : 1 .. 4 * One]

VARIABLES r, i,              (* the point of the orbit                     *)
          xx, yy,            (* the point of the plane                     *)
          x, y, count

mandelVars == <<r, i, xx, yy, x, y, count>>

tofp(n) == n * One
mulfp(a, b) == (a * b) \div One
fpabs(a) == IF a < 0 THEN -a ELSE a

(* The step from pixel to pixel, for the plane from -2 to 2.               *)
xs == (tofp(2) - tofp(-2)) \div Screen.x
ys == (tofp(2) - tofp(-2)) \div Screen.y

MandelInit == /\ x = 0 /\ y = 0 /\ count = 0
              /\ yy = tofp(-2) + ys /\ xx = tofp(-2) + xs
              /\ r = 0 /\ i = 0

inBounds == fpabs(r) < tofp(2) /\ fpabs(i) < tofp(2)

Iterate == /\ count < maxiterations /\ inBounds
           /\ r' = (mulfp(r, r) - mulfp(i, i)) + xx
           /\ i' = (2 * r * i) \div One + yy
           /\ count' = count + 1
           /\ UNCHANGED <<xx, yy, x, y>>

done == count = maxiterations \/ ~inBounds

(* The pixel is set, and the next one of the line is computed.             *)
NextPixel == /\ done /\ x + 1 < Screen.x
             /\ x' = x + 1 /\ xx' = xx + xs
             /\ r' = 0 /\ i' = 0 /\ count' = 0
             /\ UNCHANGED <<yy, y>>

NextLine == /\ done /\ x + 1 = Screen.x /\ y + 1 < Screen.y
            /\ y' = y + 1 /\ yy' = yy + ys
            /\ x' = 0 /\ xx' = tofp(-2) + xs
            /\ r' = 0 /\ i' = 0 /\ count' = 0

MandelNext == Iterate \/ NextPixel \/ NextLine

MandelSpec == MandelInit /\ [][MandelNext]_mandelVars

-----------------------------------------------------------------------------
Shorts == -ShortLimit .. ShortLimit - 1

(* No value stored in a short leaves it: the bound is tested on the point  *)
(* before it is squared, and the point of the plane stays within -2 .. 2,  *)
(* whatever the resolution (mandelbrot).                                   *)
FitsShort == /\ r \in Shorts /\ i \in Shorts
             /\ xx \in tofp(-2) .. tofp(2) /\ yy \in tofp(-2) .. tofp(2)
=============================================================================
