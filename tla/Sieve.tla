--------------------------------- MODULE Sieve ----------------------------------
(***************************************************************************)
(* The sieve of the cc65 samples (sieve.c): the multiples of every number  *)
(* below SQRT_COUNT that is not marked are marked; what is left is listed, *)
(* a page at a time, and a key may end the list.                           *)
(***************************************************************************)
EXTENDS Integers

CONSTANTS COUNT,         (* numbers below this one are sieved (16384)      *)
          SQRT_COUNT,    (* (128)                                          *)
          PageLines      (* lines between two prompts (23)                 *)

ASSUME SieveAssumption ==
  /\ COUNT \in Nat /\ SQRT_COUNT \in Nat \ {0, 1}
  /\ COUNT <= SQRT_COUNT * SQRT_COUNT
  /\ 2 * SQRT_COUNT <= COUNT
  /\ PageLines \in Nat \ {0}

Numbers == 0 .. COUNT - 1

VARIABLES
  sievePc,       (* "outer", "inner", "list" or "end"                      *)
  marked,        (* [Numbers -> BOOLEAN]: Sieve[]                          *)
  I, J,          (* I and J; J counts the lines of a page while listing    *)
  primes         (* history: the numbers listed                            *)

sieveVars == <<sievePc, marked, I, J, primes>>

SieveInit == /\ sievePc = "outer" /\ marked = [n \in Numbers |-> FALSE]
             /\ I = 2 /\ J = 0 /\ primes = {}

(* while (I < SQRT_COUNT): the next number that is not marked.             *)
SkipMarked == /\ sievePc = "outer" /\ I < SQRT_COUNT /\ marked[I]
              /\ I' = I + 1
              /\ UNCHANGED <<sievePc, marked, J, primes>>

StartMultiples == /\ sievePc = "outer" /\ I < SQRT_COUNT /\ ~marked[I]
                  /\ J' = I * 2
                  /\ sievePc' = "inner"
                  /\ UNCHANGED <<marked, I, primes>>

(* while (J < COUNT)                                                       *)
MarkMultiple == /\ sievePc = "inner" /\ J < COUNT
                /\ marked' = [marked EXCEPT ![J] = TRUE]
                /\ J' = J + I
                /\ UNCHANGED <<sievePc, I, primes>>

EndMultiples == /\ sievePc = "inner" /\ J >= COUNT
                /\ sievePc' = "outer"
                /\ I' = I + 1
                /\ UNCHANGED <<marked, J, primes>>

(* The first prompt: the list, or the end.                                 *)
EndSieve == /\ sievePc = "outer" /\ I >= SQRT_COUNT
            /\ \/ sievePc' = "list" /\ I' = 2 /\ J' = 0
               \/ sievePc' = "end" /\ UNCHANGED <<I, J>>
            /\ UNCHANGED <<marked, primes>>

(* One turn of the loop that lists; Q at a prompt, or a key hit in         *)
(* between, ends it.                                                       *)
ListNumber ==
  /\ sievePc = "list" /\ I < COUNT
  /\ IF marked[I] THEN UNCHANGED <<primes, J>>
     ELSE /\ primes' = primes \cup {I}
          /\ J' = (J + 1) % PageLines
  /\ \/ I' = I + 1 /\ UNCHANGED sievePc
     \/ UNCHANGED I /\ sievePc' = "end"
  /\ UNCHANGED marked

EndList == /\ sievePc = "list" /\ I >= COUNT
           /\ sievePc' = "end"
           /\ UNCHANGED <<marked, I, J, primes>>

SieveNext == \/ SkipMarked \/ StartMultiples \/ MarkMultiple \/ EndMultiples
             \/ EndSieve \/ ListNumber \/ EndList

SieveSpec == SieveInit /\ [][SieveNext]_sieveVars

-----------------------------------------------------------------------------
Composite(n) == \E a, b \in 2 .. n - 1 : n = a * b

(* Once the sieve is through, the numbers that are not marked are the      *)
(* primes, so nothing else is listed.                                      *)
SieveExact ==
  sievePc \in {"list", "end"} =>
    /\ \A n \in Numbers : n >= 2 => (marked[n] <=> Composite(n))
    /\ \A n \in primes : n >= 2 /\ ~Composite(n)
=============================================================================
