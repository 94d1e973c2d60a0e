---------------------------------- MODULE WozMon ----------------------------------
(***************************************************************************)
(* The Woz monitor as ported to ca65 (wozmon.s): a line is collected in IN *)
(* and then parsed item by item.                                           *)
(*                                                                         *)
(* Characters are the numbers that KBD delivers, with bit 7 set; the port  *)
(* compares some of them with constants that have it clear.  The parser    *)
(* begins at Y = 255, one cell before IN + 0 after the wrap, in a cell no  *)
(* key writes ($02FF).  The bytes of a line are stored wherever ST points: *)
(* in the line itself, and in the variables of the monitor, too.           *)
(***************************************************************************)
EXTENDS Integers, Sequences

CONSTANTS
  Typeable,            (* characters that are typed                        *)
  Cells, Words,        (* what a cell of IN, a pointer may hold at first   *)
  LineLength,          (* 128: a longer line is cancelled                  *)
  PageSize,            (* 256: the cells Y reaches from IN                 *)
  MaxKeys, MaxStores   (* bounds: characters typed, bytes stored           *)

ASSUME WozAssumption ==
  /\ Typeable \subseteq 128..255 /\ Cells \subseteq 0..255
  /\ Words \subseteq Nat /\ MaxKeys \in Nat /\ MaxStores \in Nat

ASSUME WozSizeAssumption ==
  PageSize \in 3..256 /\ LineLength \in 2..(PageSize - 1) /\ LineLength <= 128

(* Where the monitor keeps its line and variables.                         *)
IN0   == 512
XAML  == 36
STL   == 38
MODEL == 43

CR  == 141
BS  == 223
ESC == 155

VARIABLES
  wozAt,               (* NEXTCHAR, NEXTITEM, NEXTHEX, NOTHEX or RUN       *)
  inputLine, Y, YSAV, MODE, (* the page of IN; the zero page            *)
  LH,                  (* L and H, the number that is parsed               *)
  XAM, ST,             (* the addresses to examine and to store at         *)
  edited, lineEnd,     (* history: the line as the keys made it, and where *)
                       (*   the return is that ended the last one          *)
  keyed, stores        (* how many were typed, and stored                  *)

wozVars == <<wozAt, inputLine, Y, YSAV, MODE, LH, XAM, ST, edited, lineEnd, keyed, stores>>

(* RESET sets none of the variables; the others are set before they are    *)
(* used.                                                                   *)
WozInit ==
  /\ inputLine \in [0..(PageSize - 1) -> Cells]
  /\ XAM \in Words /\ ST \in Words
  /\ wozAt = "NEXTCHAR" /\ Y = 0 /\ YSAV = 0 /\ MODE = 0 /\ LH = 0
  /\ edited = <<>> /\ lineEnd = 0 /\ keyed = 0 /\ stores = 0

(* GETLINE: a new line, on CR or after ESCAPE.                             *)
GETLINE == wozAt' = "NEXTCHAR" /\ Y' = 0

(* Mutant: the first character stays when it is taken back.                *)
BACKSPACEone == wozAt' = "NEXTCHAR" /\ Y' = IF Y <= 1 THEN Y ELSE Y - 1

BACKSPACE == IF Y = 0 THEN GETLINE ELSE wozAt' = "NEXTCHAR" /\ Y' = Y - 1

(* CR: the line is parsed, from Y = -1 + 255, counted up once.             *)
parseLine == wozAt' = "NEXTITEM" /\ Y' = PageSize - 1

(* What a key does to a line, whatever the monitor does: backspace takes   *)
(* the last character back, escape, return and a character too many begin  *)
(* a new line.                                                             *)
edit(l, c) ==
  CASE c \in {CR, ESC}                                -> <<>>
    [] c = BS                                         -> SubSeq(l, 1, Len(l) - 1)
    [] c \notin {CR, ESC, BS} /\ Len(l) + 1 = LineLength -> <<>>
    [] OTHER                                          -> Append(l, c)

NEXTCHAR(c) ==
  /\ wozAt = "NEXTCHAR" /\ keyed < MaxKeys
  /\ inputLine' = [inputLine EXCEPT ![Y] = c]
  /\ edited' = edit(edited, c) /\ keyed' = keyed + 1
  /\ CASE c = CR -> parseLine
       [] c = BS -> BACKSPACE
       [] c = ESC \/ (c \notin {CR, BS} /\ Y + 1 = LineLength) -> GETLINE
       [] OTHER -> wozAt' = "NEXTCHAR" /\ Y' = Y + 1
  /\ MODE' = IF c = CR THEN 0 ELSE MODE
  /\ lineEnd' = IF c = CR THEN Y ELSE lineEnd
  /\ UNCHANGED <<YSAV, LH, XAM, ST, stores>>

-----------------------------------------------------------------------------
up(y) == (y + 1) % PageSize

(* BLSKIP, SETMODE and SETSTOR end at the next item.                       *)
setMode(m) == MODE' = m /\ Y' = up(Y) /\ UNCHANGED <<wozAt, YSAV, LH>>

NEXTITEM ==
  /\ wozAt = "NEXTITEM"
  /\ LET c == inputLine[Y]
     IN  CASE c = CR -> GETLINE /\ UNCHANGED <<YSAV, MODE, LH>>
           [] c < 46  -> setMode(MODE)
           [] c = 46  -> setMode(46)
           [] c = 58  -> setMode(58 * 2)
           [] c = 82  -> wozAt' = "RUN" /\ UNCHANGED <<Y, YSAV, MODE, LH>>
           [] OTHER   -> wozAt' = "NEXTHEX" /\ LH' = 0 /\ YSAV' = Y /\ UNCHANGED <<Y, MODE>>
  /\ UNCHANGED <<inputLine, XAM, ST, edited, lineEnd, keyed, stores>>

isHex(c)  == c \in (176..185) \cup (193..198)
hexOf(c)  == IF c < 193 THEN c - 176 ELSE c - 183

(* "BNE NEXTHEX ; Always taken" is not taken when Y wraps around.          *)
NEXTHEX ==
  /\ wozAt = "NEXTHEX"
  /\ IF isHex(inputLine[Y])
     THEN /\ LH' = (16 * LH + hexOf(inputLine[Y])) % 65536
          /\ Y' = up(Y)
          /\ wozAt' = IF Y' = 0 THEN "NOTHEX" ELSE "NEXTHEX"
     ELSE wozAt' = "NOTHEX" /\ UNCHANGED <<LH, Y>>
  /\ UNCHANGED <<inputLine, YSAV, MODE, XAM, ST, edited, lineEnd, keyed, stores>>

(* The word at address p once b is stored at q.                            *)
poked(word, p, q, b) ==
  CASE q = p     -> 256 * (word \div 256) + b
    [] q = p + 1 -> 256 * b + (word % 256)
    [] OTHER     -> word

(* STA (STL,X), INC STL, INC STH: anywhere in memory.  L, H and YSAV are   *)
(* set anew before they are used.                                          *)
store(b) ==
  /\ stores < MaxStores
  /\ inputLine' = [y \in DOMAIN inputLine |-> IF IN0 + y = ST THEN b ELSE inputLine[y]]
  /\ XAM' = poked(XAM, XAML, ST, b)
  /\ ST' = (poked(ST, STL, ST, b) + 1) % 65536
  /\ MODE' = IF ST = MODEL THEN b ELSE MODE
  /\ stores' = stores + 1

(* XAM mode opens the address, BLOCK XAM mode prints up to it.             *)
examine ==
  /\ IF MODE < 128 THEN XAM' = LH /\ ST' = LH
                   ELSE XAM' = (IF XAM < LH THEN LH ELSE XAM) /\ UNCHANGED ST
  /\ MODE' = 0
  /\ UNCHANGED <<inputLine, stores>>

(* No digit: all is ignored.  Otherwise bit 6 of MODE, then bit 7, tell    *)
(* what is done with the number.                                           *)
NOTHEX ==
  /\ wozAt = "NOTHEX"
  /\ IF Y = YSAV
     THEN GETLINE /\ UNCHANGED <<inputLine, MODE, XAM, ST, stores>>
     ELSE /\ wozAt' = "NEXTITEM" /\ UNCHANGED Y
          /\ IF (MODE \div 64) % 2 = 1 THEN store(LH % 256) ELSE examine
  /\ UNCHANGED <<YSAV, LH, edited, lineEnd, keyed>>

WozParser == NEXTITEM \/ NEXTHEX \/ NOTHEX
WozNext == (\E c \in Typeable : NEXTCHAR(c)) \/ WozParser

WozSpec == WozInit /\ [][WozNext]_wozVars

-----------------------------------------------------------------------------
(* While a line is typed, IN holds it as it was edited.                    *)
LineAsEdited ==
  wozAt = "NEXTCHAR" =>
    Y = Len(edited) /\ \A n \in 1..Y : inputLine[n - 1] = edited[n]

(* A line that is parsed comes to its end, whatever is in the cell it      *)
(* begins with, and wherever it stores its bytes: the parser gets back to  *)
(* the next line or runs a program, unless the line has overwritten the    *)
(* return that ends it.                                                    *)
LineEnds ==
  wozAt = "NEXTITEM" ~> \/ wozAt \in {"NEXTCHAR", "RUN"}
                        \/ inputLine[lineEnd] # CR
=============================================================================
