-------------------------------- MODULE Overlays --------------------------------
(***************************************************************************)
(* The overlay programs of the cc65 samples.  Three overlays share one     *)
(* overlay area; before a function of an overlay is called, the overlay    *)
(* must be brought there.                                                  *)
(*   "multi"  (multidemo.c) first copies as many overlays as fit into      *)
(*            extended memory, and later takes these from there            *)
(*   "file"   (overlaydemo.c) always reads the file                        *)
(*   "geos"   (geos/overlay-demo.c) reads records, and stops at an error   *)
(* A file may be missing at one time and not at another, as disks are      *)
(* changed; a read may fail half-way.  Only GEOS reports that.             *)
(***************************************************************************)
EXTENDS Integers

CONSTANTS
  NumOverlays,     (* (3)                                                  *)
  Size,            (* [1 .. NumOverlays -> Nat]: _OVERLAYn_SIZE__          *)
  AreaSize,        (* bytes of the overlay area (__OVERLAYSIZE__); the     *)
                   (* linker makes no overlay that is larger               *)
  EM_PAGE_SIZE,    (* (256)                                                *)
  PageCounts       (* what em_pagecount may answer                         *)

ASSUME OverlayAssumption ==
  /\ NumOverlays \in Nat \ {0} /\ Size \in [1 .. NumOverlays -> Nat \ {0}]
  /\ AreaSize \in Nat /\ \A n \in 1 .. NumOverlays : Size[n] <= AreaSize
  /\ EM_PAGE_SIZE \in Nat \ {0} /\ PageCounts \subseteq Nat

Nums == 1 .. NumOverlays
Junk == <<0, 0>>

(* A byte of an overlay is told by the overlay and its offset.             *)
Bytes(n) == [i \in 0 .. Size[n] - 1 |-> <<n, i>>]

VARIABLES
  variant,         (* which of the programs runs                           *)
  ovPc,            (* "driver", "copy", "open", "call", "end"              *)
  num,             (* the overlay that is copied or called next            *)
  page,            (* overlay[].page, -1 for an overlay left on disk       *)
  nextPage,        (* page in copyoverlays                                 *)
  emPages,         (* pages of the extended memory                         *)
  em,              (* its bytes                                            *)
  area,            (* the overlay area                                     *)
  called,          (* history: the overlays called so far                  *)
  short            (* history: overlays a read of which was cut short      *)

overlayVars == <<variant, ovPc, num, page, nextPage, emPages, em, area, called, short>>

OvInit ==
  /\ variant \in {"multi", "file", "geos"}
  /\ ovPc = CASE variant = "multi" -> "driver"
              [] variant = "file"  -> "call"
              [] variant = "geos"  -> "open"
  /\ num = 1 /\ page = [n \in Nums |-> -1] /\ nextPage = 0
  /\ emPages = 0 /\ em = <<>>
  /\ area = [i \in 0 .. AreaSize - 1 |-> Junk]
  /\ called = {} /\ short = {}

(* The first bytes of memory m replaced by the first k of what is loaded.  *)
overlaid(m, at, bytes, k) ==
  [i \in DOMAIN m |-> IF at <= i /\ i < at + k THEN bytes[i - at] ELSE m[i]]

(* Mutant: the last page that is not full is forgotten.                    *)
pagesOfDown(n) == Size[n] \div EM_PAGE_SIZE

pagesOf(n) == (Size[n] + EM_PAGE_SIZE - 1) \div EM_PAGE_SIZE

-----------------------------------------------------------------------------
(* loademdriver: one of the drivers on the disk works, or none.            *)
loademdriver ==
  /\ ovPc = "driver"
  /\ \/ \E p \in PageCounts :
          /\ emPages' = p /\ em' = [i \in 0 .. p * EM_PAGE_SIZE - 1 |-> Junk]
          /\ ovPc' = "copy"
     \/ ovPc' = "call" /\ UNCHANGED <<emPages, em>>
  /\ UNCHANGED <<variant, num, page, nextPage, area, called, short>>

(* open, read and close: nobody looks at what read returns.                *)
readFile(n) ==
  \E k \in 0 .. Size[n] :
    /\ area' = overlaid(area, 0, Bytes(n), k)
    /\ short' = IF k < Size[n] THEN short \cup {n} ELSE short

copyFrom(n) ==
  LET from == [i \in 0 .. Size[n] - 1 |-> em[page[n] * EM_PAGE_SIZE + i]]
  IN  /\ area' = overlaid(area, 0, from, Size[n])
      /\ UNCHANGED short

loadoverlay(n) == IF page[n] < 0 THEN readFile(n) ELSE copyFrom(n)

(* One turn of the loop of copyoverlays: the overlay does not fit, or its  *)
(* file cannot be opened, or it is stored.                                 *)
nextToCopy == /\ num' = IF num < NumOverlays THEN num + 1 ELSE 1
              /\ ovPc' = IF num < NumOverlays THEN "copy" ELSE "call"

leaveOverlay ==
  /\ ovPc = "copy"
  /\ nextToCopy
  /\ UNCHANGED <<variant, page, nextPage, emPages, em, area, called, short>>

storeOverlay ==
  /\ ovPc = "copy"
  /\ pagesOf(num) <= emPages - nextPage
  /\ loadoverlay(num)
  /\ em' = overlaid(em, nextPage * EM_PAGE_SIZE, area', Size[num])
  /\ page' = [page EXCEPT ![num] = nextPage]
  /\ nextPage' = nextPage + pagesOf(num)
  /\ nextToCopy
  /\ UNCHANGED <<variant, emPages, called>>

-----------------------------------------------------------------------------
nextToCall == /\ num' = num + 1
              /\ ovPc' = IF num < NumOverlays THEN "call" ELSE "end"

(* main of the first two programs: an overlay that cannot be opened is     *)
(* skipped; one stored in extended memory always can.                      *)
callOverlay ==
  /\ ovPc = "call" /\ variant # "geos"
  /\ loadoverlay(num)
  /\ called' = called \cup {num}
  /\ nextToCall
  /\ UNCHANGED <<variant, page, nextPage, emPages, em>>

skipOverlay ==
  /\ ovPc = "call" /\ variant # "geos"
  /\ page[num] < 0
  /\ nextToCall
  /\ UNCHANGED <<variant, page, nextPage, emPages, em, area, called, short>>

(* main of the GEOS program.                                               *)
openRecordFile ==
  /\ ovPc = "open"
  /\ ovPc' \in {"call", "end"}
  /\ UNCHANGED <<variant, num, page, nextPage, emPages, em, area, called, short>>

callRecord ==
  /\ ovPc = "call" /\ variant = "geos"
  /\ area' = overlaid(area, 0, Bytes(num), Size[num])
  /\ called' = called \cup {num}
  /\ nextToCall
  /\ UNCHANGED <<variant, page, nextPage, emPages, em, short>>

recordError ==
  /\ ovPc = "call" /\ variant = "geos"
  /\ \E k \in 0 .. Size[num] : area' = overlaid(area, 0, Bytes(num), k)
  /\ ovPc' = "end"
  /\ UNCHANGED <<variant, num, page, nextPage, emPages, em, called, short>>

OvNext == \/ loademdriver \/ leaveOverlay \/ storeOverlay
          \/ callOverlay \/ skipOverlay
          \/ openRecordFile \/ callRecord \/ recordError

OvSpec == OvInit /\ [][OvNext]_overlayVars

-----------------------------------------------------------------------------
stored(n) == page[n] >= 0
pagesHeld(n) == page[n] .. page[n] + pagesOf(n) - 1

(* Stored overlays share no page, and lie within the extended memory       *)
(* (copyoverlays): storing or loading one never damages another, whatever  *)
(* is skipped in between.                                                  *)
StoredApart ==
  \A n \in Nums : stored(n) =>
    /\ pagesHeld(n) \subseteq 0 .. nextPage - 1 /\ nextPage <= emPages
    /\ \A o \in Nums \ {n} : stored(o) => pagesHeld(n) \cap pagesHeld(o) = {}

(* When a function of an overlay is called, that overlay is in the area,   *)
(* from whichever place it was loaded - unless a read of its file was cut  *)
(* short, which only GEOS notices ("it's up to user to make sure that the  *)
(* - right - overlay is actually loaded before making the call").          *)
CalledRight ==
  \A n \in called' : n \in called \/ n \in short' \/
    \A i \in 0 .. Size[n] - 1 : area'[i] = <<n, i>>

RightOverlayCalled == [][CalledRight]_overlayVars

(* An overlay that was stored is called even if the disk is gone by then.  *)
StoredIsCalled ==
  ovPc = "end" => \A n \in Nums : stored(n) => n \in called

(* Together: extended memory is a store of overlays that loses and mixes   *)
(* up nothing.                                                             *)
OverlaysKept == [](StoredApart /\ StoredIsCalled) /\ RightOverlayCalled
=============================================================================
