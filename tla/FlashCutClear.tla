---------------------------- MODULE FlashCutClear ----------------------------
(***************************************************************************)
(* FlashStorage when a clearBlocking may be cut short by a power failure,  *)
(* from a full ring of four sectors: sector 3 is the tail, sectors 0 and 1 *)
(* follow it, 1 is the head and 2 is empty.  Erasing a until sector 3 is   *)
(* reached, writing data to a, erasing b and erasing a four more times     *)
(* leads there, but by more steps than TLC can search breadth first.       *)
(***************************************************************************)
EXTENDS MCFlashDurability

\* an erased id is stored as an entry of size zero
Tombstone(i, offset) == Entry(i, 0, offset)

FullRing ==
  [s \in Sectors |->
     [o \in Offsets |->
        CASE s = 0 /\ o = 0 -> Close(SectorSize - 1)
          [] s = 0 /\ o > 0 -> Tombstone(a, SectorSize)
          [] s = 1 /\ o = 1 -> Tombstone(a, SectorSize)
          [] s = 3 /\ o = 0 -> Close(2)
          [] s = 3 /\ o = 1 -> Entry(a, 1, SectorSize - 1)
          [] s = 3 /\ o = 2 -> Tombstone(b, SectorSize - 1)
          [] s = 3 /\ o = SectorSize - 1 -> Data(x, 1)
          [] OTHER -> Empty]]

RingInit ==
  /\ InitWith(FullRing)
  /\ stored = StoredIn(FullRing)
RingSpec == RingInit /\ [][DurabilityNext]_<<vars, stored>>

\* Data is kept although a clear was cut short before it was written: the
\* steps of the code still are steps of the abstract store.
WritesSurviveCutClear == [][KVS!Next]_(KVS!kvVars)
=============================================================================
