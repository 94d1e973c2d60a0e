---------------------------------- MODULE Bus ----------------------------------
(***************************************************************************)
(* The address bus of Symon (Bus.java) and the replacement of its ROM      *)
(* (setRom of the machines).  Devices are registered under a priority; the *)
(* lookup table deviceAddressArray is rebuilt after every change: a new,   *)
(* empty table first, and then one device after the other in the order of  *)
(* getDevices().  The thread that runs the CPU looks addresses up in the   *)
(* table while it is rebuilt; nothing is locked.                           *)
(*                                                                         *)
(* A device is one member of Devices, with the fixed memory range it was   *)
(* built with (MemoryRange, Device).                                       *)
(***************************************************************************)
EXTENDS Integers, FiniteSets

CONSTANTS
  Devices,
  NoDevice,      (* the null reference                                     *)
  startOf,       (* first and last address of every device's range         *)
  endOf,
  Priorities,    (* the priorities devices are registered under            *)
  Roms,          (* the memories setRom is called with                     *)
  startAddress,  (* the range of the bus (0 .. 65535)                      *)
  endAddress

(* The constructor of MemoryRange refuses other ranges.                    *)
ASSUME BusAssumption ==
  /\ NoDevice \notin Devices
  /\ startOf \in [Devices -> Nat] /\ endOf \in [Devices -> Nat]
  /\ \A d \in Devices : startOf[d] < endOf[d]
  /\ Priorities \subseteq Int
  /\ 0 \in Priorities
  /\ Roms \subseteq Devices
  /\ startAddress \in Nat /\ endAddress \in Nat

Addresses == startAddress .. endAddress

VARIABLES
  deviceMap,           (* the devices registered under every priority      *)
  deviceAddressArray,
  todo,                (* devices buildDeviceAddressArray still has to     *)
                       (* enter into the table                             *)
  rom,                 (* the machine's rom field                          *)
  adding,              (* the memory setRom is about to register           *)
  access,              (* what the CPU's read or write has looked up       *)
  replaced             (* history: the memory and the table before the     *)
                       (* last call, if that was setRom                    *)

busVars == <<deviceMap, deviceAddressArray, todo, rom, adding, access, replaced>>

NoAccess == [device |-> NoDevice, address |-> startAddress]

includes(d, n) == startOf[d] <= n /\ n <= endOf[d]

emptyArray == [n \in Addresses |-> NoDevice]

NothingReplaced == [old |-> NoDevice, table |-> emptyArray]

BusInit ==
  /\ deviceMap = [p \in Priorities |-> {}]
  /\ deviceAddressArray = emptyArray
  /\ todo = {}
  /\ rom = NoDevice
  /\ adding = NoDevice
  /\ access = NoAccess
  /\ replaced = NothingReplaced

-----------------------------------------------------------------------------
(* Registered devices.  Devices with the same start address are equal to a *)
(* TreeSet: the first one entered stays.                                   *)

registered(m) == UNION {m[p] : p \in Priorities}

(* The TreeSet getDevices() fills, from the lowest priority up, and which  *)
(* is iterated from the lowest start address up.                           *)
getDevices(m) ==
  {d \in registered(m) :
     \E p \in Priorities :
       /\ d \in m[p]
       /\ \A q \in Priorities : \A e \in m[q] : startOf[e] = startOf[d] => p <= q}

Idle == todo = {} /\ adding = NoDevice

(* buildDeviceAddressArray begins: the new table is visible, and empty.    *)
rebuild(m) == /\ deviceMap' = m
              /\ todo' = getDevices(m)
              /\ deviceAddressArray' = emptyArray

accepts(d) == startOf[d] \in Addresses /\ endOf[d] \in Addresses

with(m, d, p) ==
  [m EXCEPT ![p] = IF \E e \in @ : startOf[e] = startOf[d] THEN @ ELSE @ \cup {d}]

without(m, d) ==
  [p \in Priorities |-> {e \in m[p] : startOf[e] # startOf[d]}]

(* A device that is not accepted raises MemoryRangeException.              *)
addDevice(d, p) ==
  /\ Idle
  /\ accepts(d)
  /\ rebuild(with(deviceMap, d, p))
  /\ replaced' = NothingReplaced
  /\ UNCHANGED <<rom, adding, access>>

removeDevice(d) ==
  /\ Idle
  /\ rebuild(without(deviceMap, d))
  /\ replaced' = NothingReplaced
  /\ UNCHANGED <<rom, adding, access>>

(* Mutant: the old memory is not removed.                                  *)
setRomKeeping(d) ==
  /\ Idle
  /\ UNCHANGED <<deviceMap, todo, deviceAddressArray>>
  /\ rom' = d
  /\ adding' = d
  /\ replaced' = [old |-> rom, table |-> deviceAddressArray]
  /\ UNCHANGED access

(* setRom removes the old memory, and adds the new one after that rebuild. *)
setRom(d) ==
  /\ Idle
  /\ IF rom # NoDevice
     THEN rebuild(without(deviceMap, rom))
     ELSE UNCHANGED <<deviceMap, todo, deviceAddressArray>>
  /\ rom' = d
  /\ adding' = d
  /\ replaced' = [old |-> rom, table |-> deviceAddressArray]
  /\ UNCHANGED access

addRom ==
  /\ todo = {} /\ adding # NoDevice
  /\ IF accepts(adding)
     THEN rebuild(with(deviceMap, adding, 0))
     ELSE UNCHANGED <<deviceMap, todo, deviceAddressArray>>
  /\ adding' = NoDevice
  /\ UNCHANGED <<rom, access, replaced>>

(* Mutants: a range is entered one address too far; the devices are not in *)
(* the order of their start addresses.                                     *)
enterTooFar(d) ==
  deviceAddressArray' = [n \in Addresses |->
    IF startOf[d] <= n /\ n <= endOf[d] + 1 THEN d ELSE deviceAddressArray[n]]

enter(d) ==
  deviceAddressArray' =
    [n \in Addresses |-> IF includes(d, n) THEN d ELSE deviceAddressArray[n]]

enterNextUnordered ==
  \E d \in todo :
    /\ enter(d)
    /\ todo' = todo \ {d}
    /\ UNCHANGED <<deviceMap, rom, adding, access, replaced>>

enterNext ==
  \E d \in todo :
    /\ \A e \in todo : startOf[d] <= startOf[e]
    /\ enter(d)
    /\ todo' = todo \ {d}
    /\ UNCHANGED <<deviceMap, rom, adding, access, replaced>>

-----------------------------------------------------------------------------
(* Bus.read and Bus.write: the lookup, and the call of the device found.   *)
(* A MemoryAccessException, if there is none, changes nothing.             *)

lookup(n) ==
  /\ access = NoAccess
  /\ deviceAddressArray[n] # NoDevice
  /\ access' = [device |-> deviceAddressArray[n], address |-> n]
  /\ UNCHANGED <<deviceMap, deviceAddressArray, todo, rom, adding, replaced>>

callDevice ==
  /\ access # NoAccess
  /\ access' = NoAccess
  /\ UNCHANGED <<deviceMap, deviceAddressArray, todo, rom, adding, replaced>>

(* The machines register their ROM only with setRom and, in the constructor*)
(* when rom is still null, with the addDevice at its end.                  *)
BusNext == \/ \E d \in Devices \ Roms, p \in Priorities : addDevice(d, p)
           \/ \E d \in Devices \ Roms : removeDevice(d)
           \/ \E d \in Roms : setRom(d)
           \/ addRom \/ enterNext
           \/ \E n \in Addresses : lookup(n)
           \/ callDevice

BusSpec == BusInit /\ [][BusNext]_busVars

-----------------------------------------------------------------------------
BusTypeOK ==
  /\ deviceMap \in [Priorities -> SUBSET Devices]
  /\ deviceAddressArray \in [Addresses -> Devices \cup {NoDevice}]
  /\ todo \subseteq Devices
  /\ rom \in Roms \cup {NoDevice} /\ adding \in Roms \cup {NoDevice}
  /\ access \in [device : Devices, address : Addresses] \cup {NoAccess}
  /\ replaced \in [old : Roms \cup {NoDevice},
                   table : [Addresses -> Devices \cup {NoDevice}]]

(* Whatever the rebuild is doing, the device a read or write has looked up *)
(* is one that includes the address, so that the offset it is called with  *)
(* lies in its range.                                                      *)
OffsetInRange == access = NoAccess \/ includes(access.device, access.address)

(* Of the devices that share an address the one with the highest start     *)
(* address is seen there, whatever the order in which they were added and  *)
(* whatever their priorities, which only choose among devices with one     *)
(* start address.  (That is what the TreeSet does, not what the comments   *)
(* about priorities say: see PriorityWins.)                                *)
HighestStartWins ==
  todo = {} =>
    \A n \in Addresses :
      LET d == deviceAddressArray[n]
          candidates == {e \in getDevices(deviceMap) : includes(e, n)}
      IN  IF candidates = {} THEN d = NoDevice
          ELSE /\ d \in candidates
               /\ \A e \in candidates : startOf[e] <= startOf[d]

(* Replacing the ROM by another of the same range puts the new one wherever*)
(* the old one was seen, and leaves the rest of the map as it was.         *)
RomReplaced ==
  Idle /\ replaced.old # NoDevice =>
    \A n \in Addresses :
      deviceAddressArray[n] = IF replaced.table[n] = replaced.old
                              THEN rom ELSE replaced.table[n]

-----------------------------------------------------------------------------
(* What comments of the source say and the code does not keep.             *)

(* "getDevices() provides an OrderedSet with devices ordered by            *)
(* priorities" (Bus.java 83, and 219), to be entered over one another: no  *)
(* device hides one of a higher priority.                                  *)
PriorityWins ==
  Idle =>
    \A n \in Addresses, q \in Priorities :
      \A e \in deviceMap[q] :
        includes(e, n) => \E p \in Priorities :
                            p >= q /\ deviceAddressArray[n] \in deviceMap[p]
=============================================================================
