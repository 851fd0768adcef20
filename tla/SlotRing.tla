------------------------------ MODULE SlotRing ------------------------------
(***************************************************************************)
(* The arithmetic of the rolling-code region (somfy-store/src/slots.rs):   *)
(* SLOTS record slots on a NOR flash that erases PER slots at a time, each *)
(* record stamped with a sequence number that wraps at SEQS (2^32 in the   *)
(* firmware).  This module has no state: it says where the next record     *)
(* goes and which record is the newest.                                    *)
(***************************************************************************)
EXTENDS Integers, FiniteSetsExt

CONSTANTS SLOTS,   \* slots in the region
          PER,     \* slots per erase unit (sector)
          SEQS     \* modulus of the sequence counter

(***************************************************************************)
(* What SectorRing::new accepts: slots tile the sector, sectors tile the   *)
(* region, and there are at least two of them.  The last conjunct is the   *)
(* module's "far fewer than 2^31 live slots".                              *)
(***************************************************************************)
ASSUME RingAssumption ==
    /\ SLOTS \in Nat \ {0} /\ PER \in Nat \ {0} /\ SEQS \in Nat \ {0}
    /\ SLOTS % PER = 0
    /\ SLOTS >= 2 * PER
    /\ 2 * (SLOTS + 1) < SEQS

Slots == 0..(SLOTS - 1)
Seqs == 0..(SEQS - 1)
NoSlot == -1
NoSeq == -1

HALF == SEQS \div 2

\* u32::wrapping_sub
Ahead(p, q) == (p - q) % SEQS

(***************************************************************************)
(* SlotLayout::next_write: one slot past the newest record with the next   *)
(* sequence number; slot 0 and sequence 0 in a region that holds none.     *)
(***************************************************************************)
NextWrite(slot, seq) ==
    IF slot = NoSlot
    THEN [slot |-> 0, seq |-> 0]
    ELSE [slot |-> (slot + 1) % SLOTS, seq |-> (seq + 1) % SEQS]

\* SectorRing::erase_before: only the first slot of a sector needs an erase.
EraseBefore(slot) == slot % PER = 0

Sector(slot) == slot \div PER
InSector(s, slot) == Sector(s) = Sector(slot)

\* Mutant: no walk at all.
WriteSlotNoWalk(start, free) == start

\* Mutant: back to the sector's start instead of forward.
WriteSlotGoesBack(start, free) ==
    IF start \in free THEN start ELSE start - (start % PER)

(***************************************************************************)
(* SectorRing::write_slot: walk at most one sector forward from start, to  *)
(* the first slot that is erased already or begins a sector.               *)
(***************************************************************************)
WriteSlot(start, free) ==
    LET Lands(k) == \/ EraseBefore((start + k) % SLOTS)
                    \/ (start + k) % SLOTS \in free
        steps == {k \in 0..(PER - 1) : Lands(k)}
    IN  IF steps = {} THEN NoSlot ELSE (start + Min(steps)) % SLOTS

\* Mutant: sequence numbers compared as plain integers.
NewerPlain(best, slot, seqs) ==
    IF seqs[slot] # NoSeq /\ (best # NoSlot => seqs[slot] > seqs[best])
    THEN slot
    ELSE best

(***************************************************************************)
(* newest_slot: one pass in index order that keeps the record found so far *)
(* unless the next one is ahead of it by less than half the counter.       *)
(***************************************************************************)
Newer(best, slot, seqs) ==
    IF /\ seqs[slot] # NoSeq
       /\ best # NoSlot => Ahead(seqs[slot], seqs[best]) \in 1..(HALF - 1)
    THEN slot
    ELSE best

NewestSlot(seqs) ==
    LET best[i \in 0..SLOTS] ==
            IF i = 0 THEN NoSlot ELSE Newer(best[i - 1], i - 1, seqs)
    IN  best[SLOTS]
=============================================================================
