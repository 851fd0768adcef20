----------------------------- MODULE FlashStore -----------------------------
(***************************************************************************)
(* The rolling-code store on flash (firmware/src/store.rs, FlashStore): a  *)
(* ring of records, each a whole table of codes, appended one per commit.  *)
(*                                                                         *)
(* A commit is one synchronous call, but power may fail and the flash may  *)
(* report an error between any two of its steps, so each step is an action *)
(* here: find the newest record and aim (Aim), erase a sector (Erase),     *)
(* program the slot (Program), read it back (Verify).                      *)
(***************************************************************************)
EXTENDS SlotRing

CONSTANTS Addrs,     \* remote addresses that may be stored
          Codes,     \* values of a rolling code
          MAX_CODES  \* entries a record has room for

VARIABLES flash,  \* what every slot reads back as
          op,     \* the commit under way
          reply   \* what the last commit returned

vars == <<flash, op, reply>>

NoCode == -1
Tables == [Addrs -> Codes \cup {NoCode}]
Records == [seq : Seqs, table : Tables]

(***************************************************************************)
(* What Record::decode says of a slot: all ones, a record whose checksum   *)
(* covers every byte, or anything else.                                    *)
(***************************************************************************)
Blank == [is |-> "blank"]
Damage == [is |-> "damaged"]
Valid(record) == [is |-> "valid", record |-> record]

Idle == [phase |-> "idle"]

\* Types, of the flash and of the commit under way.
TypeOK ==
    /\ flash \in [Slots -> {Blank, Damage} \cup {Valid(r) : r \in Records}]
    /\ \/ op = Idle
       \/ op \in [phase : {"erase", "program", "verify"},
                  addr : Addrs, code : Codes, slot : Slots, record : Records]
    /\ reply \in {"none", "ok", "error"}

-----------------------------------------------------------------------------
(* FlashStore::scan and Scan::newest_or_refuse                             *)

Readable(s) == flash[s].is = "valid"
SlotSeqs == [s \in Slots |-> IF Readable(s) THEN flash[s].record.seq ELSE NoSeq]
Free == {s \in Slots : flash[s] = Blank}
Damaged == {s \in Slots : flash[s] = Damage}

Newest == NewestSlot(SlotSeqs)

\* Mutant: a region nothing can be read from is an empty one.
UnreadableIgnored == FALSE

\* A region with damage and no readable record is not an empty region.
Unreadable == Newest = NoSlot /\ Damaged # {}

EmptyTable == [a \in Addrs |-> NoCode]
Table == IF Newest = NoSlot THEN EmptyTable ELSE flash[Newest].record.table

\* load: Err when Unreadable, else what the newest record says of the address
Load(a) == Table[a]

\* CodeTable::set refuses a new address once the table is full.
Full(a) ==
    /\ Table[a] = NoCode
    /\ Cardinality({b \in Addrs : Table[b] # NoCode}) >= MAX_CODES

-----------------------------------------------------------------------------
(* FlashStore::commit                                                      *)

Init ==
    /\ flash = [s \in Slots |-> Blank]
    /\ op = Idle
    /\ reply = "none"

NewestSeq == IF Newest = NoSlot THEN NoSeq ELSE flash[Newest].record.seq
AimAt == NextWrite(Newest, NewestSeq)
Target == WriteSlot(AimAt.slot, Free)

Aim(a, c) ==
    /\ op = Idle
    /\ ~Unreadable /\ ~Full(a)
    /\ Target # NoSlot
    /\ op' = [phase  |-> IF EraseBefore(Target) THEN "erase" ELSE "program",
              addr   |-> a,
              code   |-> c,
              slot   |-> Target,
              record |-> [seq   |-> AimAt.seq,
                          table |-> [Table EXCEPT ![a] = c]]]
    /\ reply' = "none"
    /\ UNCHANGED flash

\* The error returns that come before anything is written.
Refuse(a) ==
    /\ op = Idle
    /\ Unreadable \/ Full(a) \/ Target = NoSlot
    /\ reply' = "error"
    /\ UNCHANGED <<flash, op>>

\* A read fails, or the newest record reads differently the second time.
ReadFails ==
    /\ op = Idle
    /\ reply' = "error"
    /\ UNCHANGED <<flash, op>>

Erase ==
    /\ op.phase = "erase"
    /\ flash' = [s \in Slots |-> IF InSector(s, op.slot) THEN Blank ELSE flash[s]]
    /\ op' = [op EXCEPT !.phase = "program"]
    /\ UNCHANGED reply

(***************************************************************************)
(* Programming only clears bits: a record written over anything but an     *)
(* erased slot reads back as damage.                                       *)
(***************************************************************************)
Programmed(slot, record) ==
    IF flash[slot] = Blank THEN Valid(record) ELSE Damage

\* The bytes land, or the write silently leaves some of them out.
Program ==
    /\ op.phase = "program"
    /\ \E content \in {Programmed(op.slot, op.record), Damage} :
          flash' = [flash EXCEPT ![op.slot] = content]
    /\ op' = [op EXCEPT !.phase = "verify"]
    /\ UNCHANGED reply

\* append reads the slot back; what is not the record is NotDurable.
Verify ==
    /\ op.phase = "verify"
    /\ reply' = IF flash[op.slot] = Valid(op.record) THEN "ok" ELSE "error"
    /\ op' = Idle
    /\ UNCHANGED flash

-----------------------------------------------------------------------------
(* A step that stops part-way                                              *)

\* An interrupted erase leaves each slot of the sector as it was, erased, or
\* failing its checksum.
HalfErased ==
    LET sector == {s \in Slots : InSector(s, op.slot)}
    IN  {[s \in Slots |-> IF s \in erased THEN Blank
                          ELSE IF s \in garbled THEN Damage ELSE flash[s]] :
            erased, garbled \in SUBSET sector}

\* An interrupted write leaves the slot untouched, part-written, or complete.
HalfProgrammed ==
    {[flash EXCEPT ![op.slot] = content] :
        content \in {flash[op.slot], Damage, Programmed(op.slot, op.record)}}

Interrupted ==
    CASE op.phase = "erase" -> HalfErased
      [] op.phase = "program" -> HalfProgrammed
      [] OTHER -> {flash}

\* The flash driver returns an error and append hands it on.
StepFails ==
    /\ op # Idle
    /\ flash' \in Interrupted
    /\ op' = Idle
    /\ reply' = "error"

\* Power is lost and the store is mounted again: nothing is kept in memory.
PowerCut ==
    /\ flash' \in Interrupted
    /\ op' = Idle
    /\ reply' = "none"

Next ==
    \/ \E a \in Addrs, c \in Codes : Aim(a, c)
    \/ \E a \in Addrs : Refuse(a)
    \/ ReadFails
    \/ Erase \/ Program \/ Verify
    \/ StepFails \/ PowerCut

Spec == Init /\ [][Next]_vars

-----------------------------------------------------------------------------
(* Properties                                                              *)

(***************************************************************************)
(* store.rs "What a torn write leaves behind": programming only clears     *)
(* bits, so a commit that aimed at wreckage could never succeed again and  *)
(* one power cut would stop the ring for good.  The slot about to be       *)
(* written is always erased, whatever was cut short before.                *)
(***************************************************************************)
NeverOntoWreckage == op.phase = "program" => flash[op.slot] = Blank

(***************************************************************************)
(* SectorRing: the sector being erased never holds the record being        *)
(* replaced, the only copy of every rolling code.                          *)
(***************************************************************************)
NewestOutlivesErase ==
    op.phase = "erase" /\ Newest # NoSlot => ~InSector(Newest, op.slot)

(***************************************************************************)
(* The precondition of newest_slot, which nothing in the code checks: the  *)
(* live sequence numbers are distinct and lie in one window of less than   *)
(* half the counter, so that the newest record is ahead of all the others. *)
(* Interrupted erases leave records of an earlier lap behind.              *)
(***************************************************************************)
OneWindow ==
    \A s \in Slots : Readable(s) /\ s # Newest =>
        Ahead(flash[Newest].record.seq, flash[s].record.seq) \in 1..(HALF - 1)

\* What a commit needs of the ring at every step of it.
RingSafe == TypeOK /\ NeverOntoWreckage /\ NewestOutlivesErase /\ OneWindow

(***************************************************************************)
(* A region that ever held a record that reads back can be committed to    *)
(* for ever: no sequence of cuts and errors makes load refuse it.          *)
(***************************************************************************)
NeverUnreadableAgain == [][Newest # NoSlot => Newest' # NoSlot]_vars

(***************************************************************************)
(* FlashStore implements the promise of CodeStore: the table of the newest *)
(* record changes only by a commit landing whole, "ok" is answered only    *)
(* after it has, and no cut or error touches any other code.               *)
(***************************************************************************)
Promise == INSTANCE CodeStore WITH
    durable <- Table,
    call    <- IF op = Idle THEN [addr |-> "none"]
               ELSE [addr |-> op.addr, code |-> op.code]

\* The ring implements the table of codes that CodeStore promises.
KeepsPromise == Promise!StoreSpec
=============================================================================
