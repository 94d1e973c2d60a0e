--------------------------------- MODULE Samples ---------------------------------
(***************************************************************************)
(* The cc65 samples that calculate, or tell what they know: sieve.c,       *)
(* mandelbrot.c, gunzip65.c and mousetest.c.                               *)
(***************************************************************************)
EXTENDS Sieve, Mandelbrot, Gunzip, MouseTest

(* The results of these samples: the list of primes (sieve), the           *)
(* fixed-point orbit (mandelbrot), the unpacked file (gunzip65), and the   *)
(* state that mousetest tells.                                             *)
SamplesRight == SieveExact /\ FitsShort /\ GoodFileInflated /\ PointerTextTrue
=============================================================================
