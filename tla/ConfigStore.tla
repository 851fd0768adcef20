----------------------------- MODULE ConfigStore -----------------------------
(***************************************************************************)
(* The configuration region (firmware/src/config.rs): a ring of records,   *)
(* each the Wi-Fi credential and the broker settings together.  Unlike the *)
(* rolling-code store it degrades: a region nothing can be read from holds *)
(* no configuration.                                                       *)
(*                                                                         *)
(* A write is one synchronous call of the state task, so it is one step;   *)
(* what a flash error or a power cut in the middle of it leaves behind is  *)
(* a choice among the rings it may leave.                                  *)
(***************************************************************************)
EXTENDS SlotRing

CONSTANTS Nets,       \* Wi-Fi credentials
          Pairs,      \* broker settings, told apart by their namespaces
          Nothing,    \* a half that is not configured
          MAX_SUPERSEDED

VARIABLE ring   \* what every slot reads back as

Records == [seq : Seqs, wifi : Nets \cup {Nothing}, mqtt : Pairs \cup {Nothing}]
Erased == [is |-> "erased"]
Garbage == [is |-> "garbage"]
Decoded(record) == [is |-> "decoded", record |-> record]

SlotStates == {Erased, Garbage} \cup {Decoded(r) : r \in Records}

\* ConfigStore::scan
Decodes(s) == ring[s].is = "decoded"
Sequences == [s \in Slots |-> IF Decodes(s) THEN ring[s].record.seq ELSE NoSeq]
FreeSlots == {s \in Slots : ring[s] = Erased}
Current == NewestSlot(Sequences)

\* ConfigStore::load, what the caller sees: no record is no configuration.
Loaded == IF Current = NoSlot THEN [wifi |-> Nothing, mqtt |-> Nothing]
          ELSE [wifi |-> ring[Current].record.wifi, mqtt |-> ring[Current].record.mqtt]

(***************************************************************************)
(* The distinct namespaces met in slot order, as many as there is room     *)
(* for; load takes the one in use away afterwards.                         *)
(***************************************************************************)
FirstUse(s) == /\ Decodes(s) /\ ring[s].record.mqtt # Nothing
               /\ \A r \in 0..(s - 1) : Decodes(r) => ring[r].record.mqtt # ring[s].record.mqtt
Collected == {s \in Slots : FirstUse(s) /\ Cardinality({r \in 0..(s - 1) : FirstUse(r)}) < MAX_SUPERSEDED}
Superseded == {ring[s].record.mqtt : s \in Collected} \ {Loaded.mqtt}

-----------------------------------------------------------------------------
(* ConfigStore::amend, store and append                                    *)

\* Mutant: the other half is not carried across.
WifiHalfOnly(wifi) == [wifi |-> wifi, mqtt |-> Nothing]

WifiHalf(wifi) == [wifi |-> wifi, mqtt |-> Loaded.mqtt]
MqttHalf(mqtt) == [wifi |-> Loaded.wifi, mqtt |-> mqtt]

NextAim == IF Current = NoSlot THEN NextWrite(NoSlot, NoSeq)
           ELSE NextWrite(Current, ring[Current].record.seq)
AimSlot == WriteSlot(NextAim.slot, FreeSlots)

NewRecord(halves) == [seq |-> NextAim.seq, wifi |-> halves.wifi, mqtt |-> halves.mqtt]

Emptied == IF EraseBefore(AimSlot)
           THEN [s \in Slots |-> IF InSector(s, AimSlot) THEN Erased ELSE ring[s]]
           ELSE ring

Landed(record) == [Emptied EXCEPT ![AimSlot] = IF @ = Erased THEN Decoded(record) ELSE Garbage]

\* Every byte landed and was read back.
Written(halves) ==
    /\ AimSlot # NoSlot
    /\ Landed(NewRecord(halves))[AimSlot] = Decoded(NewRecord(halves))
    /\ ring' = Landed(NewRecord(halves))

(***************************************************************************)
(* The call returned an error, or power failed inside it: nothing done,    *)
(* the sector part-erased, or the slot programmed in part or in full.      *)
(***************************************************************************)
PartErased == {[s \in Slots |-> IF s \in blank THEN Erased
                                ELSE IF s \in garbled THEN Garbage ELSE ring[s]] :
                  blank, garbled \in SUBSET {s \in Slots : InSector(s, AimSlot)}}

WriteBroken(halves) ==
    \/ ring' = ring
    \/ AimSlot # NoSlot /\ EraseBefore(AimSlot) /\ ring' \in PartErased
    \/ /\ AimSlot # NoSlot
       /\ ring' \in {[Emptied EXCEPT ![AimSlot] = Garbage], Landed(NewRecord(halves))}
=============================================================================
