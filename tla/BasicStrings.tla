------------------------------ MODULE BasicStrings ------------------------------
(***************************************************************************)
(* The strings of Microsoft BASIC as built for the Potpourri6502           *)
(* (msbasic/string.s, memory.s, misc1.s; CONFIG_11A without CONFIG_2).     *)
(* A string is told by a descriptor, its length and its address.  The      *)
(* descriptors of variables lie behind the program, those of the values in *)
(* an expression, the temporaries, in three cells of page zero.  New       *)
(* strings are put below the others; when they meet the arrays, those in   *)
(* use are moved together at the top of the memory.                        *)
(*                                                                         *)
(* The memory begins with the text of the program, where a literal stays.  *)
(* The table of variables takes no room here; an array takes some when it  *)
(* is first used, perhaps in the middle of an expression.                  *)
(***************************************************************************)
EXTENDS Integers, Sequences, FiniteSetsExt, SequencesExt

CONSTANTS
  ProgramText,     (* the characters of the program                        *)
  Literals,        (* the descriptors of the literals in it                *)
  MEMSIZ,          (* the memory ends before this address                  *)
  Scalars, Elements, (* the names of the variables,                        *)
  Temporaries,     (*   of the cells for temporaries (3)                   *)
  ArrayBytes,      (* bytes the array with the Elements takes              *)
  MaxLength,       (* length of the longest string (255)                   *)
  Codes,           (* the characters CHR$ is asked for                     *)
  MaxOperands,     (* bound: values pending in an expression,              *)
  MaxOperations    (*   operations carried out                             *)

ASSUME BasicAssumption ==
  /\ ProgramText \in Seq(Range(ProgramText))
  /\ Len(ProgramText) <= MEMSIZ /\ MEMSIZ \in Nat
  /\ \A d \in Literals : d \in [len : Nat, at : Nat] /\ d.at + d.len <= Len(ProgramText)
  /\ Temporaries \in Seq(STRING) /\ Range(Temporaries) \cap (Scalars \cup Elements) = {}
  /\ \A k, l \in DOMAIN Temporaries : Temporaries[k] = Temporaries[l] => k = l
  /\ Scalars \cap Elements = {} /\ IsFiniteSet(Scalars) /\ IsFiniteSet(Elements)
  /\ ArrayBytes \in Nat \ {0} /\ MaxLength \in Nat /\ MaxOperands \in Nat \ {0}
  /\ MaxOperations \in Nat

VARIABLES
  heap,          (* memory, STREND, FRETOP, TEMPPT (temporaries in use),   *)
                 (* and the descriptors                                    *)
  operands,      (* the values pending: names of descriptors               *)
  meant,         (* history: what each of them should be,                  *)
  assigned,      (*   and what each variable was assigned                  *)
  forsaken,      (* history: a collection has left a temporary behind in   *)
                 (* this expression,                                       *)
  spoiled,       (*   and the value of such an expression was assigned     *)
  executed       (* operations carried out                                 *)

stringVars == <<heap, operands, meant, assigned, forsaken, spoiled, executed>>

arrayText == 0          (* a byte of an array, or never written            *)
Variables == Scalars \cup Elements
Empty == [len |-> 0, at |-> 0]

BasicInit ==
  /\ heap = [memory |-> [a \in 0 .. MEMSIZ - 1 |->
                           IF a < Len(ProgramText) THEN ProgramText[a + 1] ELSE arrayText],
             STREND |-> Len(ProgramText), FRETOP |-> MEMSIZ, TEMPPT |-> 0,
             descriptor |-> [n \in Variables \cup Range(Temporaries) |-> Empty]]
  /\ operands = <<>> /\ meant = <<>>
  /\ assigned = [v \in Variables |-> <<>>]
  /\ forsaken = FALSE /\ spoiled = FALSE
  /\ executed = 0

stringOf(h, n) == [i \in 1 .. h.descriptor[n].len |-> h.memory[h.descriptor[n].at + i - 1]]

inUse(h) == {Temporaries[k] : k \in 1 .. h.TEMPPT}
dimensioned(h) == h.STREND > Len(ProgramText)

-----------------------------------------------------------------------------
(* The garbage collector.                                                  *)

(* BLTU2, to the top of the free memory, and the new address.              *)
moveUp(h, n) ==
  LET d == h.descriptor[n]
      to == h.FRETOP - d.len
  IN  [h EXCEPT !.FRETOP = to,
                !.descriptor[n].at = to,
                !.memory = [a \in DOMAIN @ |-> IF to <= a /\ a < h.FRETOP
                                               THEN @[d.at + a - to] ELSE @[a]]]

(* The strings that are in the memory below FRETOP.                        *)
notMoved(h) ==
  {n \in Variables \cup inUse(h) :
     LET d == h.descriptor[n] IN d.len > 0 /\ h.STREND <= d.at /\ d.at < h.FRETOP}

highestString(h) ==
  CHOOSE n \in notMoved(h) : \A o \in notMoved(h) : h.descriptor[o].at <= h.descriptor[n].at

(* A descriptor in page zero is taken for none, by the high byte of its    *)
(* address alone (FNCNAM+1), and ends the collection.                      *)
moveHighest(h) ==
  IF notMoved(h) = {} \/ highestString(h) \in inUse(h) THEN h
  ELSE moveUp(h, highestString(h))

(* The heap after the first k scans; no variable is moved twice.           *)
scans(h) ==
  LET after[k \in 0 .. Cardinality(Variables)] ==
        IF k = 0 THEN h ELSE moveHighest(after[k - 1])
  IN  after

moveStrings(h) == scans(h)[Cardinality(Variables)]

GARBAG(h) == moveStrings([h EXCEPT !.FRETOP = MEMSIZ])

leavesTemporary(h) == notMoved(GARBAG(h)) # {}

(* GETSPA: the heap with n bytes more; it is called if hasSpace.           *)
fits(h, n) == h.STREND <= h.FRETOP - n
afterGETSPA(h, n) == IF fits(h, n) THEN h ELSE GARBAG(h)
hasSpace(h, n) == fits(afterGETSPA(h, n), n)
GETSPA(h, n) == [afterGETSPA(h, n) EXCEPT !.FRETOP = @ - n]

-----------------------------------------------------------------------------
(* MOVSTR1 moves the last byte first, also onto the string itself.         *)
moved(memory, from, to, n) ==
  LET source == memory
      byte[i \in 0 .. n - 1] ==
        IF from > to /\ i + from - to < n THEN byte[i + from - to] ELSE source[from + i]
  IN  [a \in DOMAIN memory |-> IF to <= a /\ a < to + n THEN byte[a - to] ELSE memory[a]]

MOVSTR1(h, from, to, n) == [h EXCEPT !.memory = moved(@, from, to, n)]

(* FRETMS and FRETMP: the last temporary is released, with its string if   *)
(* that is the lowest one.                                                 *)
isLastTemporary(h, n) == h.TEMPPT > 0 /\ n = Temporaries[h.TEMPPT]

FRETMS(h, n) == IF isLastTemporary(h, n) THEN [h EXCEPT !.TEMPPT = @ - 1] ELSE h

FRETMP(h, n) ==
  LET d == h.descriptor[n]
      g == FRETMS(h, n)
  IN  IF isLastTemporary(h, n) /\ d.at = h.FRETOP
      THEN [g EXCEPT !.FRETOP = @ + d.len] ELSE g

(* PUTNEW, unless the formula is too complex.                              *)
tooComplex(h) == h.TEMPPT = Len(Temporaries)
newTemporary(h) == Temporaries[h.TEMPPT + 1]
PUTNEW(h, d) == [h EXCEPT !.descriptor[newTemporary(h)] = d, !.TEMPPT = @ + 1]

-----------------------------------------------------------------------------
nextStatement ==
  /\ operands' = <<>> /\ meant' = <<>> /\ forsaken' = FALSE

(* An error ends the expression, and releases its temporaries (STKINI).    *)
ERROR(h) ==
  /\ heap' = [h EXCEPT !.TEMPPT = 0]
  /\ nextStatement
  /\ UNCHANGED <<assigned, spoiled>>

(* The last k values are replaced by a new one.                            *)
replaceLast(k, n, value) ==
  /\ operands' = Append(SubSeq(operands, 1, Len(operands) - k), n)
  /\ meant' = Append(SubSeq(meant, 1, Len(meant) - k), value)
  /\ UNCHANGED <<assigned, spoiled>>

pushTemporary(k, h, d, value, left) ==
  IF tooComplex(h) THEN ERROR(h)
  ELSE /\ heap' = PUTNEW(h, d)
       /\ replaceLast(k, newTemporary(h), value)
       /\ forsaken' = left

roomForOperand == Len(operands) < MaxOperands

(* STRTXT: a literal, which stays in the program.                          *)
Literal(d) ==
  /\ roomForOperand
  /\ pushTemporary(0, heap, d, SubSeq(ProgramText, d.at + 1, d.at + d.len), forsaken)

(* A variable is told by its own descriptor.                               *)
Variable(v) ==
  /\ roomForOperand
  /\ v \in Scalars \/ dimensioned(heap)
  /\ replaceLast(0, v, assigned[v])
  /\ UNCHANGED <<heap, forsaken>>

(* An element of an array that does not exist: MAKE_NEW_ARRAY, for which   *)
(* REASON may collect.                                                     *)
NewArray(v) ==
  LET top == heap.STREND + ArrayBytes
      h   == IF top < heap.FRETOP THEN heap ELSE GARBAG(heap)
  IN  /\ roomForOperand /\ v \in Elements /\ ~dimensioned(heap)
      /\ IF top >= h.FRETOP THEN ERROR(h)
         ELSE /\ heap' = [h EXCEPT !.STREND = top,
                                   !.memory = [a \in DOMAIN @ |->
                                      IF heap.STREND <= a /\ a < top THEN arrayText ELSE @[a]]]
              /\ replaceLast(0, v, <<>>)
              /\ forsaken' = (forsaken \/ (h # heap /\ leavesTemporary(heap)))

(* A string operation gets the space for its result of n bytes first.      *)
collecting(n) == ~fits(heap, n) /\ leavesTemporary(heap)
Operation(k, n, h, value) ==
  IF ~hasSpace(heap, n) THEN ERROR(GARBAG(heap))
  ELSE pushTemporary(k, h, [len |-> n, at |-> GETSPA(heap, n).FRETOP], value,
                     forsaken \/ collecting(n))

(* CHR$                                                                    *)
CHRSTR(c) ==
  /\ roomForOperand
  /\ LET h == GETSPA(heap, 1)
     IN  Operation(0, 1, [h EXCEPT !.memory[h.FRETOP] = c], <<c>>)

(* LEFT$, RIGHT$ and MID$: n characters behind the first few.              *)
SUBSTRING(first, n) ==
  LET name == Last(operands)
      h == GETSPA(heap, n)
      freed == FRETMP(h, name)
      result == MOVSTR1(freed, h.descriptor[name].at + first, h.FRETOP, n)
  IN  /\ operands # <<>>
      /\ first + n <= heap.descriptor[name].len
      /\ Operation(1, n, result, SubSeq(Last(meant), first + 1, first + n))

(* The concatenation; the second string is released first.                 *)
CAT ==
  LET m == Len(operands)
      one == operands[m - 1]
      two == operands[m]
      n == heap.descriptor[one].len + heap.descriptor[two].len
      h == GETSPA(heap, n)
      d1 == h.descriptor[one]
      d2 == h.descriptor[two]
      first == FRETMP(MOVSTR1(h, d1.at, h.FRETOP, d1.len), two)
      second == FRETMP(MOVSTR1(first, d2.at, h.FRETOP + d1.len, d2.len), one)
  IN  /\ m > 1
      /\ IF n > MaxLength THEN ERROR(heap)
         ELSE Operation(2, n, second, meant[m - 1] \o meant[m])

-----------------------------------------------------------------------------
(* Mutant: a variable is given the string of another one.                  *)
PUTSTRSharing(v) ==
  LET name == operands[1]
  IN  /\ Len(operands) = 1
      /\ heap' = [FRETMS(heap, name) EXCEPT !.descriptor[v] = heap.descriptor[name]]
      /\ nextStatement
      /\ assigned' = [assigned EXCEPT ![v] = meant[1]]
      /\ spoiled' = (spoiled \/ forsaken)

(* LET: the string of a literal or a temporary is taken over, that of a    *)
(* variable is copied.                                                     *)
PUTSTR(v) ==
  LET name == operands[1]
      d == heap.descriptor[name]
      taken == d.at < heap.FRETOP \/ name \in inUse(heap)
      h == GETSPA(heap, d.len)
      copy == MOVSTR1(h, h.descriptor[name].at, h.FRETOP, d.len)
  IN  /\ Len(operands) = 1
      /\ v \in Scalars \/ dimensioned(heap)
      /\ IF ~taken /\ ~hasSpace(heap, d.len) THEN ERROR(GARBAG(heap))
         ELSE /\ heap' = IF taken
                         THEN [FRETMS(heap, name) EXCEPT !.descriptor[v] = d]
                         ELSE [copy EXCEPT !.descriptor[v] = [len |-> d.len, at |-> h.FRETOP]]
              /\ assigned' = [assigned EXCEPT ![v] = meant[1]]
              /\ nextStatement
              /\ spoiled' = (spoiled \/ forsaken)

(* PRINT, LEN, a comparison: the value is used and released (FREFAC).      *)
FREFAC ==
  /\ Len(operands) = 1
  /\ heap' = FRETMP(heap, operands[1])
  /\ nextStatement
  /\ UNCHANGED <<assigned, spoiled>>

(* CLEAR and RUN.  They do not bring back a text that has been overwritten.*)
CLEARC ==
  /\ operands = <<>>
  /\ heap' = [heap EXCEPT !.FRETOP = MEMSIZ, !.STREND = Len(ProgramText), !.TEMPPT = 0,
                          !.descriptor = [n \in DOMAIN @ |-> Empty]]
  /\ assigned' = [v \in Variables |-> <<>>]
  /\ UNCHANGED <<operands, meant, forsaken, spoiled>>

BasicOperation ==
  \/ \E d \in Literals : Literal(d)
  \/ \E v \in Variables : Variable(v) \/ NewArray(v) \/ PUTSTR(v)
  \/ \E c \in Codes : CHRSTR(c)
  \/ \E first, n \in 0 .. MaxLength : SUBSTRING(first, n)
  \/ CAT \/ FREFAC \/ CLEARC

BasicNext == /\ executed < MaxOperations
             /\ executed' = executed + 1
             /\ BasicOperation

BasicSpec == BasicInit /\ [][BasicNext]_stringVars

-----------------------------------------------------------------------------
(* A variable keeps the string it was assigned, however often the strings  *)
(* are moved and whatever happens in expressions, and expressions have the *)
(* values they should - unless a collection has left a temporary behind in *)
(* the expression, and until its value is assigned (GARBAG, PUTSTR).       *)
StringsKept ==
  ~spoiled =>
    /\ \A v \in Variables : stringOf(heap, v) = assigned[v]
    /\ forsaken \/ \A i \in DOMAIN operands : stringOf(heap, operands[i]) = meant[i]

(* "Shove all referenced strings as high as possible in memory": also the  *)
(* values that wait in an expression survive a collection (GARBAG).        *)
TemporariesKept ==
  ~spoiled => \A i \in DOMAIN operands : stringOf(heap, operands[i]) = meant[i]
=============================================================================
