----------------------------- MODULE StoreProofs -----------------------------
(***************************************************************************)
(* The rolling-code store on flash and its seeding, for every ring, every  *)
(* number of addresses, codes and lost records: the ring is sound at every *)
(* step of a commit, a region once written can always be read, the store   *)
(* keeps the promise of CodeStore, and while no completed record is lost   *)
(* no code goes back.                                                      *)
(*                                                                         *)
(* A commit aims at the slot after the newest record or at the sector      *)
(* after its own, so no erase touches it, and what a cut leaves of a       *)
(* commit is either that record or no record at all.  A lost record breaks *)
(* the order of the ring, so the invariant of the seeding is in two parts: *)
(* what the commits keep even then (a record that reads back is never in   *)
(* the sector being erased), and what they keep until one is lost (the     *)
(* invariant of the store, and every commit of a higher code).             *)
(***************************************************************************)
EXTENDS SeedStore, RingProofs

-----------------------------------------------------------------------------
(* The newest record of a region                                           *)

Contents == {Blank, Damage} \cup {Valid(r) : r \in Records}
Regions == [Slots -> Contents]
SeqsIn(f) == [s \in Slots |-> IF f[s].is = "valid" THEN f[s].record.seq ELSE NoSeq]
NewestIn(f) == NewestSlot(SeqsIn(f))

\* Every other record is behind the newest, by no more than its slot is, and none
\* is left of an earlier lap in the sector of the newest.
BehindNewest(f) ==
    NewestIn(f) # NoSlot =>
        \A s \in Slots \ {NewestIn(f)} : f[s].is = "valid" =>
            /\ InSector(s, NewestIn(f)) => s < NewestIn(f)
            /\ Ahead(f[NewestIn(f)].record.seq, f[s].record.seq) \in 1..((NewestIn(f) - s) % SLOTS)

\* What a slot can hold.
LEMMA ContentsAre ==
    ASSUME NEW f \in Regions, NEW s \in Slots
    PROVE  \/ f[s] = Blank /\ f[s].is = "blank"
           \/ f[s] = Damage /\ f[s].is = "damaged"
           \/ f[s].is = "valid" /\ f[s].record \in Records /\ f[s] = Valid(f[s].record)
<1>1. f[s] \in Contents
  BY DEF Regions
<1> QED BY <1>1 DEF Contents, Blank, Damage, Valid

\* The sequence numbers of a region.
LEMMA RegionSeqs ==
    ASSUME NEW f \in Regions
    PROVE  /\ SeqsIn(f) \in SeqsOf
           /\ \A s \in Slots : SeqsIn(f)[s] = NoSeq <=> f[s].is # "valid"
           /\ \A s \in Slots : f[s].is = "valid" => SeqsIn(f)[s] = f[s].record.seq
<1>1. ASSUME NEW s \in Slots
      PROVE  SeqsIn(f)[s] \in Seqs \cup {NoSeq} /\ (SeqsIn(f)[s] = NoSeq <=> f[s].is # "valid")
  BY ContentsAre DEF SeqsIn, Records, Seqs, NoSeq
<1>2. SeqsIn(f) \in SeqsOf
  BY <1>1 DEF SeqsIn, SeqsOf
<1>3. \A s \in Slots : f[s].is = "valid" => SeqsIn(f)[s] = f[s].record.seq
  BY DEF SeqsIn
<1> QED BY <1>1, <1>2, <1>3

\* The newest slot of a region holds a record that reads back.
LEMMA NewestHolds ==
    ASSUME NEW f \in Regions
    PROVE  /\ NewestIn(f) \in Slots \cup {NoSlot}
           /\ NewestIn(f) # NoSlot => NewestIn(f) \in Slots /\ f[NewestIn(f)].is = "valid"
           /\ NewestIn(f) = NoSlot => \A s \in Slots : f[s].is # "valid"
BY RegionSeqs, NewestReadable DEF NewestIn

\* The records of a region are in the order of the ring.
LEMMA RegionInOrder ==
    ASSUME NEW f \in Regions
    PROVE  BehindNewest(f) <=> InOrder(SeqsIn(f))
BY RegionSeqs, NewestHolds DEF BehindNewest, InOrder, NewestIn

\* What takes away records, and not the newest, leaves it the newest.
LEMMA NewestStays ==
    ASSUME NEW f \in Regions, NEW g \in Regions, BehindNewest(f),
           \A s \in Slots : g[s].is = "valid" => g[s] = f[s],
           NewestIn(f) # NoSlot => g[NewestIn(f)] = f[NewestIn(f)]
    PROVE  NewestIn(g) = NewestIn(f) /\ BehindNewest(g)
<1>1. /\ SeqsIn(f) \in SeqsOf /\ SeqsIn(g) \in SeqsOf /\ InOrder(SeqsIn(f))
      /\ \A s \in Slots : SeqsIn(g)[s] # NoSeq => SeqsIn(g)[s] = SeqsIn(f)[s]
  BY RegionSeqs, RegionInOrder
<1>2. NewestIn(f) # NoSlot => SeqsIn(g)[NewestIn(f)] = SeqsIn(f)[NewestIn(f)]
  BY RegionSeqs, NewestHolds
<1> QED BY <1>1, <1>2, OrderStays, RegionInOrder DEF NewestIn

\* A record that follows the newest, on ground that has none of an earlier lap, is
\* the newest.
LEMMA NewestFollows ==
    ASSUME NEW f \in Regions, NEW t \in Slots, NEW r \in Records, BehindNewest(f),
           NewestIn(f) # NoSlot => /\ r.seq = (f[NewestIn(f)].record.seq + 1) % SEQS
                                   /\ Follows(NewestIn(f), t),
           EraseBefore(t) => \A s \in Slots : InSector(s, t) => f[s] = Blank
    PROVE  LET g == [f EXCEPT ![t] = Valid(r)]
           IN  g \in Regions /\ NewestIn(g) = t /\ BehindNewest(g)
<1> DEFINE g == [f EXCEPT ![t] = Valid(r)]
           n == NewestSlot(SeqsIn(f))
<1>1. g \in Regions /\ g[t].is = "valid" /\ g[t].record = r /\ \A s \in Slots \ {t} : g[s] = f[s]
  BY DEF Regions, Contents, Valid
<1> HIDE DEF g
<1>2. SeqsIn(g) = [SeqsIn(f) EXCEPT ![t] = r.seq]
  <2>1. \A s \in Slots : SeqsIn(g)[s] = IF s = t THEN r.seq ELSE SeqsIn(f)[s]
    BY <1>1 DEF SeqsIn
  <2>2. SeqsIn(g) = [s \in Slots |-> SeqsIn(g)[s]] /\ SeqsIn(f) = [s \in Slots |-> SeqsIn(f)[s]]
    BY DEF SeqsIn
  <2> QED BY <2>1, <2>2
<1>3. SeqsIn(f) \in SeqsOf /\ InOrder(SeqsIn(f)) /\ r.seq \in Seqs
  BY RegionSeqs, RegionInOrder DEF Records
<1>4. n # NoSlot => r.seq = (SeqsIn(f)[n] + 1) % SEQS /\ Follows(n, t)
  BY RegionSeqs, NewestHolds DEF NewestIn
<1>5. EraseBefore(t) => \A s \in Slots : InSector(s, t) => SeqsIn(f)[s] = NoSeq
  BY RegionSeqs DEF Blank
<1>6. NewestSlot(SeqsIn(g)) = t /\ InOrder(SeqsIn(g))
  <2> DEFINE q == SeqsIn(f)
  <2>1. q \in SeqsOf /\ InOrder(q) /\ r.seq \in Seqs /\ SeqsIn(g) = [q EXCEPT ![t] = r.seq]
    BY <1>2, <1>3
  <2>2. NewestSlot(q) # NoSlot => r.seq = (q[NewestSlot(q)] + 1) % SEQS /\ Follows(NewestSlot(q), t)
    BY <1>4
  <2>3. EraseBefore(t) => \A s \in Slots : InSector(s, t) => q[s] = NoSeq
    BY <1>5
  <2> HIDE DEF q, n
  <2>4. SeqsIn(g) \in SeqsOf /\ SeqsIn(g)[t] = r.seq /\ r.seq # NoSeq
        /\ \A s \in Slots \ {t} : SeqsIn(g)[s] = q[s]
    BY <2>1, RingType DEF SeqsOf, Seqs, NoSeq
  <2> QED BY <2>1, <2>2, <2>3, <2>4, OrderFollows
<1> QED BY <1>1, <1>6, RegionInOrder DEF g, NewestIn

-----------------------------------------------------------------------------
(* The inductive invariant                                                 *)

\* A commit under way holds the next record, and aims where it can be written.
Aimed ==
    op.phase \in {"erase", "program"} =>
        /\ op.record.table = [Table EXCEPT ![op.addr] = op.code]
        /\ Newest # NoSlot => /\ op.record.seq = (flash[Newest].record.seq + 1) % SEQS
                              /\ Follows(Newest, op.slot)
        /\ op.phase = "erase" => EraseBefore(op.slot)
        /\ op.phase = "program" =>
              /\ flash[op.slot] = Blank
              /\ EraseBefore(op.slot) => \A s \in Slots : InSector(s, op.slot) => flash[s] = Blank

\* One that has been programmed is the newest if it reads back.
LandsNewest ==
    op.phase = "verify" =>
        /\ op.record.table[op.addr] = op.code
        /\ flash[op.slot] = Valid(op.record) => Newest = op.slot

StoreInv == TypeOK /\ BehindNewest(flash) /\ Aimed /\ LandsNewest

\* Newest is the newest slot of the flash.
LEMMA NewestIsIn == Newest = NewestIn(flash)
BY DEF Newest, SlotSeqs, Readable, NewestIn, SeqsIn

\* What the type invariant says of the flash, the newest record and a commit under way.
LEMMA StoreTypes ==
    ASSUME TypeOK
    PROVE  /\ flash \in Regions
           /\ Newest \in Slots \cup {NoSlot}
           /\ Newest # NoSlot => Newest \in Slots /\ flash[Newest].is = "valid"
           /\ Newest # NoSlot => flash[Newest].record \in Records
           /\ Table \in Tables
           /\ op # Idle => /\ op.phase \in {"erase", "program", "verify"}
                           /\ op.addr \in Addrs /\ op.code \in Codes
                           /\ op.slot \in Slots /\ op.record \in Records
<1>1. flash \in Regions
  BY DEF TypeOK, Regions, Contents
<1>2. /\ Newest \in Slots \cup {NoSlot}
      /\ Newest # NoSlot => Newest \in Slots /\ flash[Newest].is = "valid"
  BY <1>1, NewestHolds, NewestIsIn
<1>3. Newest # NoSlot => flash[Newest].record \in Records
  BY <1>1, <1>2, ContentsAre
<1>4. Table \in Tables
  BY <1>3 DEF Table, Tables, EmptyTable, Records
<1> QED BY <1>1, <1>2, <1>3, <1>4 DEF TypeOK

\* The invariant holds of an erased region.
LEMMA InitInv == Init => StoreInv
<1> SUFFICES ASSUME Init PROVE StoreInv
  OBVIOUS
<1>1. flash \in Regions /\ (\A s \in Slots : flash[s].is # "valid")
  BY DEF Init, Regions, Contents, Blank
<1>2. NewestIn(flash) = NoSlot
  BY <1>1, NewestHolds
<1>3. TypeOK
  BY <1>1 DEF Init, TypeOK, Regions, Contents
<1>4. op.phase = "idle"
  BY DEF Init, Idle
<1> QED BY <1>2, <1>3, <1>4 DEF StoreInv, BehindNewest, Aimed, LandsNewest

\* A step that leaves the flash alone leaves the table, and the newest record.
LEMMA SameFlash ==
    ASSUME UNCHANGED flash
    PROVE  Newest' = Newest /\ Table' = Table /\ (BehindNewest(flash) => BehindNewest(flash)')
<1>1. SlotSeqs' = SlotSeqs
  BY DEF SlotSeqs, Readable
<1> QED BY <1>1 DEF Newest, Table, EmptyTable

\* A commit aims at a slot that follows the newest, and that is erased or is to be.
LEMMA AimLands ==
    ASSUME TypeOK, NEW a \in Addrs, NEW c \in Codes, Aim(a, c)
    PROVE  /\ TypeOK' /\ Target \in Slots
           /\ ~EraseBefore(Target) => flash[Target] = Blank
           /\ Newest # NoSlot => /\ AimAt.seq = (flash[Newest].record.seq + 1) % SEQS
                                 /\ Follows(Newest, Target)
<1>1. TypeOK /\ UNCHANGED flash /\ Target # NoSlot
  BY DEF Aim
<1>2. Free \in SUBSET Slots
  BY DEF Free
<1>3. /\ Target \in Slots /\ (EraseBefore(Target) \/ Target \in Free)
      /\ AimAt.seq \in Seqs
      /\ Newest # NoSlot => /\ AimAt.seq = (flash[Newest].record.seq + 1) % SEQS
                            /\ Follows(Newest, Target)
  <2>1. SlotSeqs = SeqsIn(flash) /\ flash \in Regions
    BY <1>1, StoreTypes DEF SlotSeqs, Readable, SeqsIn
  <2>2. SeqsIn(flash) \in SeqsOf /\ NewestSlot(SeqsIn(flash)) = Newest
        /\ (Newest # NoSlot => SeqsIn(flash)[Newest] = flash[Newest].record.seq)
    BY <1>1, <2>1, RegionSeqs, StoreTypes DEF Newest
  <2> DEFINE q == SeqsIn(flash)
  <2>3. AimAt = IF NewestSlot(q) = NoSlot THEN NextWrite(NoSlot, NoSeq)
                ELSE NextWrite(NewestSlot(q), q[NewestSlot(q)])
    BY <2>2 DEF AimAt, NewestSeq, NextWrite
  <2>4. Target = WriteSlot(AimAt.slot, Free)
    BY DEF Target
  <2>5. q \in SeqsOf /\ Target # NoSlot
    BY <1>1, <2>2
  <2> HIDE DEF q
  <2>6. /\ Target \in Slots /\ (EraseBefore(Target) \/ Target \in Free) /\ AimAt.seq \in Seqs
        /\ NewestSlot(q) # NoSlot => /\ AimAt.seq = (q[NewestSlot(q)] + 1) % SEQS
                                     /\ Follows(NewestSlot(q), Target)
    BY <1>2, <2>3, <2>4, <2>5, WriteAims
  <2> QED BY <2>2, <2>6 DEF q
<1>4. [Table EXCEPT ![a] = c] \in Tables
  BY <1>1, StoreTypes DEF Tables
<1> DEFINE record == [seq |-> AimAt.seq, table |-> [Table EXCEPT ![a] = c]]
<1>5. record \in Records
  BY <1>3, <1>4 DEF Records
<1>6. /\ op' = [phase |-> IF EraseBefore(Target) THEN "erase" ELSE "program",
                addr |-> a, code |-> c, slot |-> Target, record |-> record]
      /\ reply' = "none"
  BY DEF Aim
<1> HIDE DEF record
<1>7. TypeOK'
  BY <1>1, <1>3, <1>5, <1>6 DEF TypeOK
<1>8. ~EraseBefore(Target) => flash[Target] = Blank
  BY <1>3 DEF Free
<1> QED BY <1>3, <1>7, <1>8

\* The commit Aim starts.
LEMMA AimedAt ==
    ASSUME NEW a \in Addrs, NEW c \in Codes, Aim(a, c)
    PROVE  /\ op'.phase = (IF EraseBefore(Target) THEN "erase" ELSE "program") /\ op' # Idle
           /\ op'.slot = Target /\ op'.addr = a /\ op'.code = c
           /\ op'.record.table = [Table EXCEPT ![a] = c] /\ op'.record.seq = AimAt.seq
           /\ UNCHANGED flash
BY DEF Aim, Idle

\* The start of a commit aims where the record can be written.
LEMMA AimStep ==
    ASSUME StoreInv, NEW a \in Addrs, NEW c \in Codes, Aim(a, c)
    PROVE  StoreInv'
<1>1. TypeOK /\ BehindNewest(flash)
  BY DEF StoreInv
<1>2. /\ TypeOK' /\ (~EraseBefore(Target) => flash[Target] = Blank)
      /\ Newest # NoSlot => /\ AimAt.seq = (flash[Newest].record.seq + 1) % SEQS
                            /\ Follows(Newest, Target)
  BY <1>1, AimLands
<1>3. /\ op'.phase = (IF EraseBefore(Target) THEN "erase" ELSE "program")
      /\ op'.slot = Target /\ op'.addr = a /\ op'.code = c
      /\ op'.record.table = [Table EXCEPT ![a] = c] /\ op'.record.seq = AimAt.seq
      /\ UNCHANGED flash
  BY AimedAt
<1>4. Newest' = Newest /\ Table' = Table /\ BehindNewest(flash)'
  BY <1>1, <1>3, SameFlash
<1>5. Aimed'
  BY <1>2, <1>3, <1>4 DEF Aimed
<1>6. LandsNewest'
  BY <1>3 DEF LandsNewest
<1> QED BY <1>2, <1>4, <1>5, <1>6 DEF StoreInv

\* Nothing that erases or spoils slots of the sector being erased touches the newest.
LEMMA ErasingSpares ==
    ASSUME StoreInv, op.phase = "erase", NEW g \in Regions,
           \A s \in Slots : g[s].is = "valid" => g[s] = flash[s],
           \A s \in Slots : ~InSector(s, op.slot) => g[s] = flash[s]
    PROVE  /\ NewestIn(g) = Newest /\ BehindNewest(g)
           /\ Newest # NoSlot => g[Newest] = flash[Newest]
<1>1. TypeOK /\ BehindNewest(flash) /\ flash \in Regions /\ Newest = NewestIn(flash)
  BY StoreTypes, NewestIsIn DEF StoreInv
<1>2. Newest # NoSlot => Newest \in Slots /\ ~InSector(Newest, op.slot)
  <2> SUFFICES ASSUME Newest # NoSlot PROVE Newest \in Slots /\ ~InSector(Newest, op.slot)
    OBVIOUS
  <2>1. Newest \in Slots
    BY <1>1, StoreTypes
  <2>2. op.slot = NextStart(Newest)
    BY DEF StoreInv, Aimed, Follows
  <2> QED BY <2>1, <2>2, NextSector
<1>3. Newest # NoSlot => g[Newest] = flash[Newest]
  BY <1>2
<1> QED BY <1>1, <1>3, NewestStays

\* The record programmed where a commit has aimed is the newest.
LEMMA ProgrammedIsNewest ==
    ASSUME StoreInv, op.phase = "program"
    PROVE  LET g == [flash EXCEPT ![op.slot] = Valid(op.record)]
           IN  g \in Regions /\ NewestIn(g) = op.slot /\ BehindNewest(g)
<1>1. TypeOK /\ BehindNewest(flash) /\ flash \in Regions /\ Newest = NewestIn(flash)
  BY StoreTypes, NewestIsIn DEF StoreInv
<1>2. op.slot \in Slots /\ op.record \in Records
  BY <1>1, StoreTypes DEF Idle
<1>3. /\ Newest # NoSlot => /\ op.record.seq = (flash[Newest].record.seq + 1) % SEQS
                            /\ Follows(Newest, op.slot)
      /\ EraseBefore(op.slot) => \A s \in Slots : InSector(s, op.slot) => flash[s] = Blank
  BY DEF StoreInv, Aimed
<1> QED BY <1>1, <1>2, <1>3, NewestFollows

\* One that is spoilt on the way leaves the newest what it was.
LEMMA SpoiltIsNot ==
    ASSUME StoreInv, op.phase = "program", NEW content \in {Blank, Damage}
    PROVE  LET g == [flash EXCEPT ![op.slot] = content]
           IN  /\ g \in Regions /\ NewestIn(g) = Newest /\ BehindNewest(g)
               /\ Newest # NoSlot => g[Newest] = flash[Newest]
<1> DEFINE g == [flash EXCEPT ![op.slot] = content]
<1>1. TypeOK /\ BehindNewest(flash) /\ flash \in Regions /\ Newest = NewestIn(flash)
  BY StoreTypes, NewestIsIn DEF StoreInv
<1>2. op.slot \in Slots /\ flash[op.slot] = Blank
  BY <1>1, StoreTypes DEF Idle, StoreInv, Aimed
<1>3. g \in Regions /\ \A s \in Slots : g[s].is = "valid" => g[s] = flash[s]
  BY <1>1, <1>2 DEF Regions, Contents, Blank, Damage
<1>4. Newest # NoSlot => Newest \in Slots /\ Newest # op.slot
  BY <1>1, <1>2, StoreTypes DEF Blank
<1>5. Newest # NoSlot => g[Newest] = flash[Newest]
  BY <1>1, <1>4 DEF Regions
<1> HIDE DEF g
<1>6. NewestIn(g) = Newest /\ BehindNewest(g)
  BY <1>1, <1>3, <1>5, NewestStays
<1> QED BY <1>3, <1>5, <1>6 DEF g

\* The table is that of the newest record: one that stays leaves it.
LEMMA TableFollows ==
    ASSUME NewestIn(flash') = Newest, Newest # NoSlot => flash'[Newest] = flash[Newest]
    PROVE  Newest' = Newest /\ Table' = Table
<1>1. Newest' = NewestIn(flash')
  BY DEF Newest, SlotSeqs, Readable, NewestIn, SeqsIn
<1> QED BY <1>1 DEF Table, EmptyTable

\* The end of a commit keeps the types.
LEMMA TypeKept ==
    ASSUME TypeOK, flash' \in Regions, op' = Idle, reply' \in {"none", "ok", "error"}
    PROVE  TypeOK'
BY DEF TypeOK, Regions, Contents

\* The erase leaves the newest record and the table.
LEMMA EraseStep == ASSUME StoreInv, Erase PROVE StoreInv' /\ Newest' = Newest /\ Table' = Table
<1>1. /\ op.phase = "erase" /\ TypeOK /\ op # Idle /\ op.slot \in Slots /\ flash \in Regions
      /\ flash' = [s \in Slots |-> IF InSector(s, op.slot) THEN Blank ELSE flash[s]]
      /\ op' = [op EXCEPT !.phase = "program"] /\ reply' = reply
  BY StoreTypes DEF Erase, StoreInv, Idle
<1>2. flash' \in Regions
  BY <1>1 DEF Regions, Contents
<1>3. /\ \A s \in Slots : flash'[s].is = "valid" => flash'[s] = flash[s]
      /\ \A s \in Slots : ~InSector(s, op.slot) => flash'[s] = flash[s]
  BY <1>1 DEF Blank
<1>4. /\ NewestIn(flash') = Newest /\ BehindNewest(flash')
      /\ Newest # NoSlot => flash'[Newest] = flash[Newest]
  BY <1>1, <1>2, <1>3, ErasingSpares
<1>5. Newest' = Newest /\ Table' = Table
  BY <1>4, TableFollows
<1>6. op \in [phase : {"erase", "program", "verify"},
              addr : Addrs, code : Codes, slot : Slots, record : Records]
  BY <1>1 DEF TypeOK
<1>7. /\ op'.phase = "program" /\ op'.slot = op.slot /\ op'.record = op.record
      /\ op'.addr = op.addr /\ op'.code = op.code
      /\ op' \in [phase : {"erase", "program", "verify"},
                  addr : Addrs, code : Codes, slot : Slots, record : Records]
  BY <1>1, <1>6
<1>8. TypeOK'
  BY <1>1, <1>2, <1>7 DEF TypeOK, Regions, Contents
<1>9. /\ op.record.table = [Table EXCEPT ![op.addr] = op.code]
      /\ Newest # NoSlot => /\ op.record.seq = (flash[Newest].record.seq + 1) % SEQS
                            /\ Follows(Newest, op.slot)
  BY <1>1 DEF StoreInv, Aimed
<1>10. \A s \in Slots : InSector(s, op.slot) => flash'[s] = Blank
  BY <1>1
<1>11. InSector(op.slot, op.slot)
  BY DEF InSector
<1>12. Aimed'
  BY <1>1, <1>4, <1>5, <1>7, <1>9, <1>10, <1>11 DEF Aimed
<1>13. LandsNewest'
  BY <1>7 DEF LandsNewest
<1> QED BY <1>4, <1>5, <1>8, <1>12, <1>13 DEF StoreInv

\* The programming makes the new record the newest, or changes nothing of the table.
LEMMA ProgramStep ==
    ASSUME StoreInv, Program
    PROVE  StoreInv' /\ Newest' \in {Newest, op.slot} /\ Table' \in {Table, op.record.table}
<1>1. /\ op.phase = "program" /\ TypeOK /\ op # Idle /\ op.slot \in Slots /\ op.record \in Records
      /\ flash \in Regions /\ flash[op.slot] = Blank
      /\ op' = [op EXCEPT !.phase = "verify"] /\ reply' = reply
  BY StoreTypes DEF Program, StoreInv, Idle, Aimed
<1>2. PICK content \in {Valid(op.record), Damage} : flash' = [flash EXCEPT ![op.slot] = content]
  BY <1>1 DEF Program, Programmed
<1>3. op \in [phase : {"erase", "program", "verify"},
              addr : Addrs, code : Codes, slot : Slots, record : Records]
  BY <1>1 DEF TypeOK
<1>4. /\ op'.phase = "verify" /\ op'.slot = op.slot /\ op'.record = op.record
      /\ op'.addr = op.addr /\ op'.code = op.code
      /\ op' \in [phase : {"erase", "program", "verify"},
                  addr : Addrs, code : Codes, slot : Slots, record : Records]
  BY <1>1, <1>3
<1>5. /\ flash' \in Regions /\ BehindNewest(flash')
      /\ flash'[op.slot] = Valid(op.record) => Newest' = op.slot
      /\ Newest' \in {Newest, op.slot}
      /\ Table' \in {Table, op.record.table}
  <2>1. CASE content = Valid(op.record)
    <3>1. flash' \in Regions /\ NewestIn(flash') = op.slot /\ BehindNewest(flash')
      BY <1>1, <1>2, <2>1, ProgrammedIsNewest
    <3>2. Newest' = op.slot
      BY <3>1 DEF Newest, SlotSeqs, Readable, NewestIn, SeqsIn
    <3>3. flash'[op.slot] = Valid(op.record)
      BY <1>1, <1>2, <2>1 DEF Regions
    <3>4. Table' = op.record.table
      BY <1>1, <3>2, <3>3, RingType DEF Table, Valid, NoSlot, Slots
    <3> QED BY <3>1, <3>2, <3>4
  <2>2. CASE content = Damage
    <3>1. /\ flash' \in Regions /\ NewestIn(flash') = Newest /\ BehindNewest(flash')
          /\ Newest # NoSlot => flash'[Newest] = flash[Newest]
      BY <1>1, <1>2, <2>2, SpoiltIsNot
    <3>2. flash'[op.slot] # Valid(op.record)
      BY <1>1, <1>2, <2>2 DEF Regions, Damage, Valid
    <3> QED BY <3>1, <3>2, TableFollows
  <2> QED BY <2>1, <2>2
<1>6. TypeOK'
  BY <1>1, <1>4, <1>5 DEF TypeOK, Regions, Contents
<1>7. op.record.table[op.addr] = op.code
  <2>1. op.record.table = [Table EXCEPT ![op.addr] = op.code] /\ Table \in Tables /\ op.addr \in Addrs
    BY <1>1, StoreTypes DEF StoreInv, Aimed
  <2> QED BY <2>1 DEF Tables
<1>8. LandsNewest'
  BY <1>4, <1>5, <1>7 DEF LandsNewest
<1>9. Aimed'
  BY <1>4 DEF Aimed
<1> QED BY <1>5, <1>6, <1>8, <1>9 DEF StoreInv

\* The read-back changes no slot.
LEMMA VerifyStep ==
    ASSUME StoreInv, Verify
    PROVE  StoreInv' /\ Table' = Table
<1>1. TypeOK /\ UNCHANGED flash /\ op' = Idle /\ reply' \in {"ok", "error"}
  BY DEF StoreInv, Verify
<1>2. TypeOK'
  BY <1>1 DEF TypeOK
<1> QED BY <1>1, <1>2, SameFlash DEF StoreInv, Aimed, LandsNewest, Idle

\* However a step is cut short, the table is the old one or the new one.
LEMMA CutShort ==
    ASSUME StoreInv, flash' \in Interrupted
    PROVE  /\ flash' \in Regions /\ BehindNewest(flash')
           /\ Newest' \in {Newest, op.slot}
           /\ Table' = Table \/ (op.phase = "program" /\ Table' = op.record.table)
<1>1. TypeOK /\ BehindNewest(flash) /\ flash \in Regions
  BY StoreTypes DEF StoreInv
<1>2. CASE op.phase = "erase"
  <2>1. PICK erased \in SUBSET {s \in Slots : InSector(s, op.slot)},
             garbled \in SUBSET {s \in Slots : InSector(s, op.slot)} :
            flash' = [s \in Slots |-> IF s \in erased THEN Blank
                                      ELSE IF s \in garbled THEN Damage ELSE flash[s]]
    BY <1>2 DEF Interrupted, HalfErased
  <2>2. flash' \in Regions
    BY <1>1, <2>1 DEF Regions, Contents
  <2>3. /\ \A s \in Slots : flash'[s].is = "valid" => flash'[s] = flash[s]
        /\ \A s \in Slots : ~InSector(s, op.slot) => flash'[s] = flash[s]
    BY <2>1 DEF Blank, Damage
  <2> QED BY <1>2, <2>2, <2>3, ErasingSpares, TableFollows
<1>3. CASE op.phase = "program"
  <2>1. /\ op.slot \in Slots /\ op.record \in Records /\ flash[op.slot] = Blank
        /\ flash = [flash EXCEPT ![op.slot] = Blank]
    BY <1>1, <1>3, StoreTypes DEF StoreInv, Idle, Aimed, Regions
  <2>2. PICK content \in {Blank, Damage, Valid(op.record)} :
            flash' = [flash EXCEPT ![op.slot] = content]
    BY <1>3, <2>1 DEF Interrupted, HalfProgrammed, Programmed
  <2>3. CASE content = Valid(op.record)
    <3>1. flash' \in Regions /\ NewestIn(flash') = op.slot /\ BehindNewest(flash')
      BY <1>3, <2>2, <2>3, ProgrammedIsNewest
    <3>2. Newest' = op.slot
      BY <3>1 DEF Newest, SlotSeqs, Readable, NewestIn, SeqsIn
    <3>3. flash'[op.slot] = Valid(op.record)
      BY <1>1, <2>1, <2>2, <2>3 DEF Regions
    <3>4. Table' = op.record.table
      BY <2>1, <3>2, <3>3, RingType DEF Table, Valid, NoSlot, Slots
    <3> QED BY <1>3, <3>1, <3>2, <3>4
  <2>4. CASE content \in {Blank, Damage}
    <3>1. /\ flash' \in Regions /\ NewestIn(flash') = Newest /\ BehindNewest(flash')
          /\ Newest # NoSlot => flash'[Newest] = flash[Newest]
      BY <1>3, <2>2, <2>4, SpoiltIsNot
    <3> QED BY <3>1, TableFollows
  <2> QED BY <2>2, <2>3, <2>4
<1>4. CASE op.phase \notin {"erase", "program"}
  <2>1. flash' = flash
    BY <1>4 DEF Interrupted
  <2> QED BY <1>1, <2>1, SameFlash
<1> QED BY <1>2, <1>3, <1>4

\* A step that fails or is cut off keeps the invariant.
LEMMA CutStep ==
    ASSUME StoreInv, StepFails \/ PowerCut
    PROVE  StoreInv'
<1>1. TypeOK /\ flash' \in Interrupted /\ op' = Idle /\ reply' \in {"none", "error"}
  BY DEF StoreInv, StepFails, PowerCut
<1>2. flash' \in Regions /\ BehindNewest(flash')
  BY <1>1, CutShort
<1>3. TypeOK'
  BY <1>1, <1>2, TypeKept
<1> QED BY <1>1, <1>2, <1>3 DEF StoreInv, Aimed, LandsNewest, Idle

\* So does a step that touches neither the flash nor the commit.
LEMMA QuietStep ==
    ASSUME StoreInv, UNCHANGED <<flash, op>>, reply' \in {"none", "ok", "error"}
    PROVE  StoreInv' /\ Table' = Table
<1>1. Newest' = Newest /\ Table' = Table /\ BehindNewest(flash)'
  BY SameFlash DEF StoreInv
<1>2. TypeOK'
  BY DEF StoreInv, TypeOK
<1> QED BY <1>1, <1>2 DEF StoreInv, Aimed, LandsNewest

\* The inductive invariant holds at every step of every commit, whatever failed
\* or was cut off before.
THEOREM StoreInvariant == Spec => []StoreInv
<1>1. Init => StoreInv
  BY InitInv
<1>2. StoreInv /\ [Next]_vars => StoreInv'
  <2> SUFFICES ASSUME StoreInv, [Next]_vars PROVE StoreInv'
    OBVIOUS
  <2>1. ASSUME NEW a \in Addrs, NEW c \in Codes, Aim(a, c) PROVE StoreInv'
    BY <2>1, AimStep
  <2>2. ASSUME NEW a \in Addrs, Refuse(a) PROVE StoreInv'
    BY <2>2, QuietStep DEF Refuse
  <2>3. CASE ReadFails
    BY <2>3, QuietStep DEF ReadFails
  <2>4. CASE Erase
    BY <2>4, EraseStep
  <2>5. CASE Program
    BY <2>5, ProgramStep
  <2>6. CASE Verify
    BY <2>6, VerifyStep
  <2>7. CASE StepFails \/ PowerCut
    BY <2>7, CutStep
  <2>8. CASE UNCHANGED vars
    <3>1. reply \in {"none", "ok", "error"}
      BY DEF StoreInv, TypeOK
    <3> QED BY <2>8, <3>1, QuietStep DEF vars
  <2> QED BY <2>1, <2>2, <2>3, <2>4, <2>5, <2>6, <2>7, <2>8 DEF Next
<1> QED BY <1>1, <1>2, PTL DEF Spec

\* The ring is sound at every step of a commit, whatever was cut short before.
THEOREM RingSafety == Spec => []RingSafe
<1>1. StoreInv => RingSafe
  <2> SUFFICES ASSUME StoreInv PROVE RingSafe
    OBVIOUS
  <2>1. TypeOK /\ flash \in Regions /\ Newest = NewestIn(flash) /\ BehindNewest(flash)
    BY StoreTypes, NewestIsIn DEF StoreInv
  <2>2. NeverOntoWreckage
    BY DEF StoreInv, Aimed, NeverOntoWreckage
  <2>3. NewestOutlivesErase
    <3> SUFFICES ASSUME op.phase = "erase", Newest # NoSlot PROVE ~InSector(Newest, op.slot)
      BY DEF NewestOutlivesErase
    <3>1. Newest \in Slots
      BY <2>1, StoreTypes
    <3>2. op.slot = NextStart(Newest)
      BY DEF StoreInv, Aimed, Follows
    <3> QED BY <3>1, <3>2, NextSector
  <2>4. OneWindow
    <3> SUFFICES ASSUME NEW s \in Slots, flash[s].is = "valid", s # Newest
                 PROVE  Ahead(flash[Newest].record.seq, flash[s].record.seq) \in 1..(HALF - 1)
      BY DEF OneWindow, Readable
    <3>1. Newest # NoSlot
      BY <2>1, NewestHolds
    <3>2. Newest \in Slots
      BY <2>1, <3>1, StoreTypes
    <3>3. Ahead(flash[Newest].record.seq, flash[s].record.seq) \in 1..((Newest - s) % SLOTS)
      BY <2>1, <3>1 DEF BehindNewest
    <3>4. (Newest - s) % SLOTS \in 0..(SLOTS - 1)
      BY <3>2, SlotBehind, RingType DEF Slots
    <3> QED BY <3>3, <3>4, RingType
  <2> QED BY <2>1, <2>2, <2>3, <2>4 DEF RingSafe
<1> QED BY <1>1, StoreInvariant, PTL

\* A region that holds a record that reads back always will.
THEOREM NeverUnreadable == Spec => NeverUnreadableAgain
<1>1. StoreInv /\ [Next]_vars => [Newest # NoSlot => Newest' # NoSlot]_vars
  <2> SUFFICES ASSUME StoreInv, [Next]_vars, Newest # NoSlot PROVE Newest' # NoSlot
    OBVIOUS
  <2>1. op # Idle => op.slot # NoSlot
    BY StoreTypes, RingType DEF StoreInv, Slots, NoSlot
  <2>2. CASE UNCHANGED flash
    BY <2>2, SameFlash
  <2>3. CASE Erase
    BY <2>3, EraseStep
  <2>4. CASE Program
    <3>1. op # Idle
      BY <2>4 DEF Program, Idle
    <3>2. Newest' \in {Newest, op.slot}
      BY <2>4, ProgramStep
    <3> QED BY <2>1, <3>1, <3>2
  <2>5. CASE StepFails \/ PowerCut
    <3>1. CASE op = Idle
      <4>1. UNCHANGED flash
        BY <2>5, <3>1 DEF StepFails, PowerCut, Interrupted, Idle
      <4> QED BY <4>1, <2>2
    <3>2. CASE op # Idle
      BY <2>1, <2>5, <3>2, CutShort DEF StepFails, PowerCut
    <3> QED BY <3>1, <3>2
  <2> QED BY <2>2, <2>3, <2>4, <2>5 DEF Next, vars, Aim, Refuse, ReadFails, Verify
<1> QED BY <1>1, StoreInvariant, PTL DEF Spec, NeverUnreadableAgain

-----------------------------------------------------------------------------
(* The refinement of CodeStore                                             *)

\* The store implements the code table of CodeStore: to its callers a commit happens at
\* once or not at all, although it is an erase, a programming and a read-back that
\* can each be cut short.
THEOREM StorePromise == Spec => KeepsPromise
<1>1. Init => Promise!StoreInit
  <2> SUFFICES ASSUME Init PROVE Promise!StoreInit
    OBVIOUS
  <2>1. flash \in Regions /\ (\A s \in Slots : flash[s].is # "valid")
    BY DEF Init, Regions, Contents, Blank
  <2>2. Newest = NoSlot
    BY <2>1, NewestHolds, NewestIsIn
  <2>3. Table = EmptyTable
    BY <2>2 DEF Table
  <2> QED BY <2>3 DEF Init, Promise!StoreInit, Promise!NoCall, Promise!NoCode, EmptyTable, NoCode
<1>2. StoreInv /\ [Next]_vars => [Promise!StoreNext]_(Promise!storeVars)
  <2> SUFFICES ASSUME StoreInv, [Next]_vars PROVE [Promise!StoreNext]_(Promise!storeVars)
    OBVIOUS
  <2> USE DEF Promise!StoreNext, Promise!storeVars, Promise!NoCall
  <2>0. TypeOK
    BY DEF StoreInv
  <2>1. ASSUME NEW a \in Addrs, NEW c \in Codes, Aim(a, c) PROVE Promise!Begin(a, c)
    <3>1. Table' = Table
      BY <2>1, SameFlash DEF Aim
    <3>2. op' # Idle /\ op'.addr = a /\ op'.code = c
      BY <2>1 DEF Aim, Idle
    <3> QED BY <2>1, <3>1, <3>2 DEF Aim, Promise!Begin
  <2>2. ASSUME NEW a \in Addrs, Refuse(a) PROVE Promise!Refuse
    BY <2>2, SameFlash DEF Refuse, Promise!Refuse
  <2>3. CASE ReadFails
    BY <2>3, SameFlash DEF ReadFails, Promise!Refuse
  <2>4. CASE Erase
    <3>1. Table' = Table
      BY <2>4, EraseStep
    <3>2. op # Idle /\ op' # Idle /\ op'.addr = op.addr /\ op'.code = op.code /\ reply' = reply
      BY <2>0, <2>4 DEF TypeOK, Erase, Idle
    <3> QED BY <3>1, <3>2
  <2>5. CASE Program
    <3>1. op # Idle /\ op' # Idle /\ op'.addr = op.addr /\ op'.code = op.code /\ reply' = reply
      BY <2>0, <2>5 DEF TypeOK, Program, Idle
    <3>2. op.record.table = [Table EXCEPT ![op.addr] = op.code]
      BY <2>5 DEF StoreInv, Aimed, Program
    <3>3. CASE Table' = Table
      BY <3>1, <3>3
    <3>4. CASE Table' = op.record.table
      <4>1. Promise!Land
        BY <3>1, <3>2, <3>4 DEF Promise!Land, Promise!Landed
      <4> QED BY <4>1
    <3> QED BY <2>5, <3>3, <3>4, ProgramStep
  <2>6. CASE Verify
    <3>1. op # Idle /\ op' = Idle /\ Table' = Table /\ op.phase = "verify"
      BY <2>6, VerifyStep DEF Verify, Idle
    <3>2. CASE flash[op.slot] = Valid(op.record)
      <4>1. Newest = op.slot /\ op.record.table[op.addr] = op.code /\ op.slot # NoSlot
        BY <2>0, <3>1, <3>2, StoreTypes, RingType DEF StoreInv, LandsNewest, Slots, NoSlot
      <4>2. Table[op.addr] = op.code
        BY <3>2, <4>1 DEF Table, Valid
      <4>3. Promise!Succeed
        BY <2>6, <3>1, <3>2, <4>2 DEF Verify, Promise!Succeed
      <4> QED BY <4>3
    <3>3. CASE flash[op.slot] # Valid(op.record)
      <4>1. Promise!Fail
        BY <2>6, <3>1, <3>3 DEF Verify, Promise!Fail
      <4> QED BY <4>1
    <3> QED BY <3>2, <3>3
  <2>7. StepFails \/ PowerCut => Table' = Table \/ (op # Idle /\ Table' = [Table EXCEPT ![op.addr] = op.code])
    <3> SUFFICES ASSUME flash' \in Interrupted, Table' # Table
                 PROVE  op # Idle /\ Table' = [Table EXCEPT ![op.addr] = op.code]
      BY DEF StepFails, PowerCut
    <3>1. op.phase = "program" /\ Table' = op.record.table
      BY CutShort
    <3> QED BY <3>1 DEF StoreInv, Aimed, Idle
  <2>8. CASE StepFails
    <3>1. Promise!Fail
      BY <2>7, <2>8 DEF StepFails, Promise!Fail, Promise!Landed
    <3> QED BY <3>1
  <2>9. CASE PowerCut
    <3>1. Promise!PowerCut
      BY <2>7, <2>9 DEF PowerCut, Promise!PowerCut, Promise!Landed
    <3> QED BY <3>1
  <2>10. CASE UNCHANGED vars
    BY <2>10, SameFlash DEF vars
  <2> QED BY <2>1, <2>2, <2>3, <2>4, <2>5, <2>6, <2>8, <2>9, <2>10 DEF Next
<1> QED BY <1>1, <1>2, StoreInvariant, PTL DEF Spec, KeepsPromise, Promise!StoreSpec

-----------------------------------------------------------------------------
(* The seeding                                                             *)

\* A commit under way writes an erased slot, and erases no record that is the last.
Spared ==
    /\ op.phase = "program" => flash[op.slot] = Blank
    /\ op.phase = "erase" =>
          \/ \E s \in Slots : Readable(s) /\ ~InSector(s, op.slot)
          \/ high = EmptyTable /\ \A s \in Slots : ~Readable(s)

\* As long as nothing has been lost, every commit is of a higher code.
Rising ==
    /\ StoreInv
    /\ Table = high
    /\ op.phase \in {"erase", "program"} => op.code > high[op.addr]

SeedInv ==
    /\ SeedTypeOK /\ NeverTakenForEmpty
    /\ boot = Off => op = Idle
    /\ Spared
    /\ rot = 0 => Rising

-----------------------------------------------------------------------------
(* What the steps of a commit do, whatever has been lost                   *)

\* Higher is a table, and it is no lower than what it is of.
LEMMA HigherType ==
    ASSUME SeedTypeOK, Table' \in Tables
    PROVE  /\ Higher \in Tables
           /\ Table' = high => Higher = high
<1>1. high \in Tables
  BY DEF SeedTypeOK
<1> QED BY <1>1 DEF Higher, Tables

\* The table is empty when no record reads back, and only then.
LEMMA EmptyRegion ==
    ASSUME TypeOK, \A s \in Slots : ~Readable(s)
    PROVE  Newest = NoSlot /\ Table = EmptyTable
<1>1. Newest = NoSlot
  BY StoreTypes DEF Readable
<1> QED BY <1>1 DEF Table

\* A record that reads back is found.
LEMMA RecordFound ==
    ASSUME TypeOK, NEW s \in Slots, Readable(s)
    PROVE  Newest # NoSlot
<1>1. flash \in Regions
  BY StoreTypes
<1> QED BY <1>1, NewestHolds, NewestIsIn DEF Readable

\* The start of a commit, after whatever was lost.
LEMMA AimSpares ==
    ASSUME SeedInv, NEW a \in Addrs, NEW c \in Codes, Aim(a, c), high' = high
    PROVE  TypeOK' /\ Spared' /\ Newest' = Newest /\ Damaged' = Damaged /\ Table' = Table
<1>1. /\ TypeOK /\ TypeOK' /\ Target \in Slots
      /\ ~EraseBefore(Target) => flash[Target] = Blank
      /\ Newest # NoSlot => Follows(Newest, Target)
  BY AimLands DEF SeedInv, SeedTypeOK
<1>2. /\ op'.phase = (IF EraseBefore(Target) THEN "erase" ELSE "program")
      /\ op'.slot = Target /\ UNCHANGED flash
  BY AimedAt
<1>3. Newest' = Newest /\ Table' = Table
  BY <1>2, SameFlash
<1>4. Damaged' = Damaged
  BY <1>2 DEF Damaged
<1>5. CASE Newest # NoSlot
  <2>1. Newest \in Slots /\ Readable(Newest)
    BY <1>1, <1>5, StoreTypes DEF Readable
  <2>2. EraseBefore(Target) => ~InSector(Newest, Target)
    BY <1>1, <1>5, <2>1, NextSector DEF Follows
  <2> QED BY <1>1, <1>2, <1>3, <1>4, <2>1, <2>2 DEF Spared, Readable, InSector
<1>6. CASE Newest = NoSlot
  <2>1. \A s \in Slots : ~Readable(s)
    BY <1>1, <1>6, RecordFound
  <2>2. high = EmptyTable
    BY <1>6 DEF Aim, Unreadable, SeedInv, NeverTakenForEmpty
  <2>3. high' = EmptyTable' /\ EmptyTable' = EmptyTable
    BY <2>2 DEF EmptyTable
  <2> QED BY <1>1, <1>2, <1>3, <1>4, <2>1, <2>3 DEF Spared, Readable
<1> QED BY <1>5, <1>6

\* What a power cut or an error can leave of a step is a region.
LEMMA InterruptedType ==
    ASSUME TypeOK, Spared, flash' \in Interrupted
    PROVE  /\ flash' \in Regions
           /\ op.phase = "erase" => /\ \A s \in Slots : Readable(s)' => Readable(s)
                                    /\ \A s \in Slots : ~InSector(s, op.slot) => flash'[s] = flash[s]
           /\ op.phase = "program" =>
                 \E content \in {Blank, Damage, Valid(op.record)} :
                     flash' = [flash EXCEPT ![op.slot] = content]
           /\ op.phase \notin {"erase", "program"} => flash' = flash
<1>1. flash \in Regions
  BY StoreTypes
<1>2. CASE op.phase = "erase"
  <2>1. PICK erased \in SUBSET {s \in Slots : InSector(s, op.slot)},
             garbled \in SUBSET {s \in Slots : InSector(s, op.slot)} :
            flash' = [s \in Slots |-> IF s \in erased THEN Blank
                                      ELSE IF s \in garbled THEN Damage ELSE flash[s]]
    BY <1>2 DEF Interrupted, HalfErased
  <2>2. flash' \in Regions
    BY <1>1, <2>1 DEF Regions, Contents
  <2> QED BY <1>2, <2>1, <2>2 DEF Readable, Blank, Damage
<1>3. CASE op.phase = "program"
  <2>1. op.slot \in Slots /\ op.record \in Records /\ flash[op.slot] = Blank
    BY <1>3, StoreTypes DEF Idle, Spared
  <2>2. PICK content \in {Blank, Damage, Valid(op.record)} :
            flash' = [flash EXCEPT ![op.slot] = content]
    BY <1>3, <2>1 DEF Interrupted, HalfProgrammed, Programmed
  <2>3. flash' \in Regions
    BY <1>1, <2>1, <2>2 DEF Regions, Contents
  <2> QED BY <1>3, <2>2, <2>3
<1>4. CASE op.phase \notin {"erase", "program"}
  BY <1>1, <1>4 DEF Interrupted
<1> QED BY <1>2, <1>3, <1>4

\* A whole step is one of the ends a step cut short can have.
LEMMA WholeStep ==
    ASSUME TypeOK, Spared, Erase \/ Program \/ Verify \/ StepFails \/ PowerCut
    PROVE  flash' \in Interrupted
<1>1. CASE Erase
  <2>1. op.phase = "erase" /\ flash' = [s \in Slots |-> IF InSector(s, op.slot) THEN Blank ELSE flash[s]]
    BY <1>1 DEF Erase
  <2> DEFINE sector == {s \in Slots : InSector(s, op.slot)}
  <2>2. flash' = [s \in Slots |-> IF s \in sector THEN Blank
                                   ELSE IF s \in {} THEN Damage ELSE flash[s]]
    BY <2>1
  <2>3. sector \in SUBSET sector /\ {} \in SUBSET sector
    OBVIOUS
  <2>4. HalfErased = {[s \in Slots |-> IF s \in erased THEN Blank
                                      ELSE IF s \in garbled THEN Damage ELSE flash[s]] :
                         erased, garbled \in SUBSET sector}
    BY DEF HalfErased
  <2> HIDE DEF sector
  <2>5. flash' \in HalfErased
    BY <2>2, <2>3, <2>4
  <2>6. Interrupted = HalfErased
    BY <2>1 DEF Interrupted
  <2> QED BY <2>5, <2>6
<1>2. CASE Program
  <2>1. op.phase = "program"
    BY <1>2 DEF Program
  <2>2. PICK content \in {Programmed(op.slot, op.record), Damage} :
            flash' = [flash EXCEPT ![op.slot] = content]
    BY <1>2 DEF Program
  <2>3. flash' \in HalfProgrammed
    BY <2>2 DEF HalfProgrammed
  <2>4. Interrupted = HalfProgrammed
    BY <2>1 DEF Interrupted
  <2> QED BY <2>3, <2>4
<1>3. CASE Verify
  BY <1>3 DEF Verify, Interrupted
<1>4. CASE StepFails \/ PowerCut
  BY <1>4 DEF StepFails, PowerCut
<1> QED BY <1>1, <1>2, <1>3, <1>4

\* A step of a commit, whole or not, leaves the region one that held a code, if it was.
LEMMA NeverEmptied ==
    ASSUME SeedInv, flash' \in Interrupted, high' = Higher
    PROVE  /\ flash' \in Regions /\ high' \in Tables /\ NeverTakenForEmpty'
           /\ op.phase = "erase" => \/ \E s \in Slots : Readable(s)' /\ ~InSector(s, op.slot)
                                    \/ high' = EmptyTable /\ \A s \in Slots : ~Readable(s)'
<1>1. TypeOK /\ Spared /\ SeedTypeOK /\ NeverTakenForEmpty /\ flash \in Regions /\ high \in Tables
  BY StoreTypes DEF SeedInv, SeedTypeOK
<1>2. flash' \in Regions
  BY <1>1, InterruptedType
<1>3. Newest' = NewestIn(flash') /\ (Newest' # NoSlot => flash'[Newest'].record.table \in Tables)
  <2>1. Newest' = NewestIn(flash')
    BY DEF Newest, SlotSeqs, Readable, NewestIn, SeqsIn
  <2> QED BY <1>2, <2>1, NewestHolds, ContentsAre DEF Records, Blank, Damage
<1>4. Table' = (IF Newest' = NoSlot THEN EmptyTable ELSE flash'[Newest'].record.table)
  BY DEF Table, EmptyTable
<1>5. high' \in Tables /\ (Newest' = NoSlot /\ high = EmptyTable => high' = EmptyTable)
  <2>1. EmptyTable \in Tables
    BY DEF EmptyTable, Tables
  <2> QED BY <1>1, <1>3, <1>4, <2>1, HigherType
<1>6. \A s \in Slots : Readable(s)' => Newest' # NoSlot
  BY <1>2, <1>3, NewestHolds DEF Readable
<1>7. EmptyTable' = EmptyTable
  BY DEF EmptyTable
<1>8. high # EmptyTable => Newest' # NoSlot \/ Damaged' # {}
  <2> SUFFICES ASSUME high # EmptyTable PROVE Newest' # NoSlot \/ Damaged' # {}
    OBVIOUS
  <2>1. CASE op.phase = "erase"
    <3>1. PICK s \in Slots : Readable(s) /\ ~InSector(s, op.slot)
      BY <1>1, <2>1 DEF Spared
    <3>2. Readable(s)'
      BY <1>1, <2>1, <3>1, InterruptedType DEF Readable
    <3> QED BY <1>6, <3>2
  <2>2. CASE op.phase = "program"
    <3>1. PICK content \in {Blank, Damage, Valid(op.record)} :
              flash' = [flash EXCEPT ![op.slot] = content]
      BY <1>1, <2>2, InterruptedType
    <3>2. op.slot \in Slots /\ flash[op.slot] = Blank /\ flash'[op.slot] = content
      BY <1>1, <2>2, <3>1, StoreTypes DEF Idle, Spared, Regions
    <3>3. CASE content = Valid(op.record)
      BY <1>6, <3>2, <3>3 DEF Readable, Valid
    <3>4. CASE content = Damage
      BY <3>2, <3>4 DEF Damaged
    <3>5. CASE content = Blank
      <4>1. flash' = flash
        BY <1>1, <3>1, <3>2, <3>5 DEF Regions
      <4>2. Newest' = Newest /\ Damaged' = Damaged
        BY <4>1, SameFlash DEF Damaged
      <4> QED BY <1>1, <4>2 DEF NeverTakenForEmpty
    <3> QED BY <3>3, <3>4, <3>5
  <2>3. CASE op.phase \notin {"erase", "program"}
    <3>1. flash' = flash
      BY <1>1, <2>3, InterruptedType
    <3>2. Newest' = Newest /\ Damaged' = Damaged
      BY <3>1, SameFlash DEF Damaged
    <3> QED BY <1>1, <3>2 DEF NeverTakenForEmpty
  <2> QED BY <2>1, <2>2, <2>3
<1>9. NeverTakenForEmpty'
  BY <1>5, <1>7, <1>8 DEF NeverTakenForEmpty
<1>10. ASSUME op.phase = "erase"
       PROVE  \/ \E s \in Slots : Readable(s)' /\ ~InSector(s, op.slot)
              \/ high' = EmptyTable /\ \A s \in Slots : ~Readable(s)'
  <2>1. CASE \E s \in Slots : Readable(s) /\ ~InSector(s, op.slot)
    BY <1>1, <1>10, <2>1, InterruptedType DEF Readable
  <2>2. CASE high = EmptyTable /\ \A s \in Slots : ~Readable(s)
    <3>1. \A s \in Slots : ~Readable(s)'
      BY <1>1, <1>10, <2>2, InterruptedType
    <3>2. Newest' = NoSlot
      BY <1>2, <1>3, <3>1, NewestHolds DEF Readable
    <3> QED BY <1>5, <2>2, <3>1, <3>2
  <2> QED BY <1>1, <1>10, <2>1, <2>2 DEF Spared
<1> QED BY <1>2, <1>5, <1>9, <1>10

\* A step of a commit, whole or not, leaves what is to be spared of what is to come.
LEMMA CommitSpares ==
    ASSUME SeedInv, Erase \/ Program \/ Verify \/ StepFails \/ PowerCut, high' = Higher
    PROVE  TypeOK' /\ Spared' /\ high' \in Tables /\ NeverTakenForEmpty'
<1>1. TypeOK /\ Spared
  BY DEF SeedInv, SeedTypeOK
<1>2. flash' \in Interrupted
  BY <1>1, WholeStep
<1>3. flash' \in Regions /\ high' \in Tables /\ NeverTakenForEmpty'
  BY <1>2, NeverEmptied
<1>4. CASE Erase \/ Program
  <2>1. /\ op.phase \in {"erase", "program"} /\ op # Idle /\ reply' = reply
        /\ op' = [op EXCEPT !.phase = IF op.phase = "erase" THEN "program" ELSE "verify"]
        /\ op.phase = "erase" => Erase
    BY <1>4 DEF Erase, Program, Idle
  <2>2. op \in [phase : {"erase", "program", "verify"},
                addr : Addrs, code : Codes, slot : Slots, record : Records]
    BY <1>1, <2>1 DEF TypeOK
  <2>3. /\ op'.phase = (IF op.phase = "erase" THEN "program" ELSE "verify") /\ op'.slot = op.slot
        /\ op' \in [phase : {"erase", "program", "verify"},
                    addr : Addrs, code : Codes, slot : Slots, record : Records]
    BY <2>1, <2>2
  <2>4. TypeOK'
    BY <1>1, <1>3, <2>1, <2>3 DEF TypeOK, Regions, Contents
  <2>5. op.phase = "erase" => flash'[op.slot] = Blank
    BY <2>1, <2>2 DEF Erase, InSector
  <2>6. Spared'
    BY <2>3, <2>5 DEF Spared
  <2> QED BY <1>3, <2>4, <2>6
<1>5. CASE Verify \/ StepFails \/ PowerCut
  <2>1. op' = Idle /\ reply' \in {"none", "ok", "error"}
    BY <1>5 DEF Verify, StepFails, PowerCut
  <2>2. TypeOK'
    BY <1>1, <1>3, <2>1, TypeKept
  <2> QED BY <1>3, <2>1, <2>2 DEF Spared, Idle
<1> QED BY <1>4, <1>5

\* As long as nothing has been lost, it raises one code or none.
LEMMA CommitRises ==
    ASSUME SeedInv, rot = 0, Erase \/ Program \/ Verify \/ StepFails \/ PowerCut, high' = Higher
    PROVE  Rising'
<1>1. StoreInv /\ Table = high /\ high \in Tables /\ TypeOK
  BY DEF SeedInv, SeedTypeOK, Rising
<1>2. StoreInv'
  BY <1>1, EraseStep, ProgramStep, VerifyStep, CutStep
<1>3. \/ Table' = Table
      \/ /\ op.phase = "program" /\ ~Erase
         /\ Table' = [Table EXCEPT ![op.addr] = op.code]
  <2>1. CASE Erase
    BY <1>1, <2>1, EraseStep
  <2>2. CASE Program
    BY <1>1, <2>2, ProgramStep DEF StoreInv, Aimed, Program, Erase
  <2>3. CASE Verify
    BY <1>1, <2>3, VerifyStep
  <2>4. CASE StepFails \/ PowerCut
    <3>1. flash' \in Interrupted
      BY <2>4 DEF StepFails, PowerCut
    <3>2. Table' = Table \/ (op.phase = "program" /\ Table' = op.record.table)
      BY <1>1, <3>1, CutShort
    <3> QED BY <1>1, <3>2 DEF StoreInv, Aimed, Erase
  <2> QED BY <2>1, <2>2, <2>3, <2>4
<1>4. Table' = high'
  <2>1. CASE Table' = Table
    <3>1. Table' \in Tables
      BY <1>1, <2>1
    <3> QED BY <1>1, <2>1, <3>1, HigherType DEF SeedInv
  <2>2. CASE op.phase = "program" /\ Table' = [Table EXCEPT ![op.addr] = op.code]
    <3>1. op.addr \in Addrs /\ op.code \in Codes /\ op.code > high[op.addr]
      BY <1>1, <2>2, StoreTypes DEF Idle, SeedInv, Rising
    <3>2. Codes \subseteq Nat
      BY SeedAssumption
    <3>3. ASSUME NEW a \in Addrs
          PROVE  Table'[a] = IF Table'[a] > high[a] THEN Table'[a] ELSE high[a]
      <4>1. CASE a = op.addr
        BY <1>1, <2>2, <3>1, <4>1 DEF Tables
      <4>2. CASE a # op.addr
        BY <1>1, <2>2, <3>1, <4>2 DEF Tables
      <4> QED BY <4>1, <4>2
    <3>4. Table' = [a \in Addrs |-> Table'[a]]
      BY <1>1, <2>2 DEF Tables
    <3> QED BY <3>3, <3>4 DEF Higher
  <2> QED BY <1>3, <2>1, <2>2
<1>5. op'.phase \in {"erase", "program"} => op'.code > high'[op'.addr]
  <2> SUFFICES ASSUME op'.phase \in {"erase", "program"} PROVE op'.code > high'[op'.addr]
    OBVIOUS
  <2>1. Erase
    <3>1. CASE Program
      <4>1. op'.phase = "verify"
        BY <1>1, <3>1 DEF Program, TypeOK, Idle
      <4> QED BY <4>1
    <3> QED BY <3>1 DEF Verify, StepFails, PowerCut, Idle
  <2>2. Table' = Table /\ op.phase = "erase" /\ op # Idle /\ op' = [op EXCEPT !.phase = "program"]
    BY <1>3, <2>1 DEF Erase, Idle
  <2>3. op'.code = op.code /\ op'.addr = op.addr /\ op.code > high[op.addr]
    BY <1>1, <2>2 DEF TypeOK, SeedInv, Rising
  <2> QED BY <1>1, <1>4, <2>2, <2>3
<1> QED BY <1>2, <1>4, <1>5 DEF Rising

-----------------------------------------------------------------------------
(* The steps of who writes                                                 *)

\* A commit asked for, of a higher code than the store has, refused or started.
LEMMA AskedFor ==
    ASSUME SeedInv, boot # Off, NEW a \in Addrs, NEW c \in Codes, c > Load(a),
           Aim(a, c) \/ Refuse(a) \/ ReadFails, UNCHANGED <<rot, high>>
    PROVE  /\ TypeOK' /\ NeverTakenForEmpty' /\ Spared' /\ (rot' = 0 => Rising')
           /\ UNCHANGED flash
<1>1. SeedTypeOK /\ TypeOK /\ Spared /\ NeverTakenForEmpty
  BY DEF SeedInv, SeedTypeOK
<1>2. CASE Aim(a, c)
  <2>1. TypeOK' /\ Spared' /\ Newest' = Newest /\ Damaged' = Damaged /\ Table' = Table
    BY <1>2, AimSpares
  <2>2. EmptyTable' = EmptyTable
    BY DEF EmptyTable
  <2>3. NeverTakenForEmpty'
    BY <1>1, <2>1, <2>2 DEF NeverTakenForEmpty
  <2>4. ASSUME rot' = 0 PROVE Rising'
    <3>1. StoreInv /\ Table = high
      BY <2>4 DEF SeedInv, Rising
    <3>2. StoreInv'
      BY <1>2, <3>1, AimStep
    <3>3. op'.addr = a /\ op'.code = c
      BY <1>2, AimedAt
    <3> QED BY <2>1, <3>1, <3>2, <3>3 DEF Rising, Load
  <2> QED BY <1>2, <2>1, <2>3, <2>4, AimedAt
<1>3. CASE Refuse(a) \/ ReadFails
  <2>1. UNCHANGED <<flash, op>> /\ reply' = "error"
    BY <1>3 DEF Refuse, ReadFails
  <2>2. TypeOK' /\ Newest' = Newest /\ Damaged' = Damaged /\ Table' = Table /\ EmptyTable' = EmptyTable
    BY <1>1, <2>1, SameFlash DEF TypeOK, Damaged, EmptyTable
  <2>3. NeverTakenForEmpty' /\ Spared'
    BY <1>1, <2>1, <2>2 DEF NeverTakenForEmpty, Spared, Readable, EmptyTable
  <2>4. rot' = 0 => Rising'
    BY <2>1, <2>2, QuietStep DEF SeedInv, Rising
  <2> QED BY <2>1, <2>2, <2>3, <2>4
<1> QED BY <1>2, <1>3

\* A step that touches neither the store nor what it ever held.
LEMMA StoreQuiet ==
    ASSUME SeedInv, UNCHANGED <<vars, rot, high>>
    PROVE  TypeOK' /\ NeverTakenForEmpty' /\ Spared' /\ (rot' = 0 => Rising')
<1>1. SeedTypeOK /\ TypeOK /\ Spared /\ NeverTakenForEmpty /\ UNCHANGED <<flash, op, reply>>
  BY DEF SeedInv, SeedTypeOK, vars
<1>2. TypeOK' /\ Newest' = Newest /\ Damaged' = Damaged /\ Table' = Table /\ EmptyTable' = EmptyTable
  BY <1>1, SameFlash DEF TypeOK, Damaged, EmptyTable
<1>3. reply \in {"none", "ok", "error"}
  BY <1>1 DEF TypeOK
<1>4. NeverTakenForEmpty' /\ Spared'
  BY <1>1, <1>2 DEF NeverTakenForEmpty, Spared, Readable, EmptyTable
<1>5. rot' = 0 => Rising'
  BY <1>1, <1>2, <1>3, QuietStep DEF SeedInv, Rising
<1> QED BY <1>2, <1>4, <1>5

\* What a lost record leaves.
LEMMA RotStep ==
    ASSUME SeedInv, NEW s \in Slots, Rot(s)
    PROVE  TypeOK' /\ NeverTakenForEmpty' /\ Spared' /\ ~(rot' = 0)
<1>1. /\ SeedTypeOK /\ TypeOK /\ flash \in Regions /\ op = Idle
      /\ flash' = [flash EXCEPT ![s] = Damage] /\ rot' = rot + 1 /\ rot \in Nat
      /\ UNCHANGED <<op, reply>>
  BY StoreTypes, SeedAssumption DEF SeedInv, SeedTypeOK, Rot
<1>2. flash' \in Regions /\ flash'[s] = Damage
  BY <1>1 DEF Regions, Contents
<1>3. TypeOK' /\ Spared'
  BY <1>1, <1>2 DEF TypeOK, Spared, Idle, Regions, Contents
<1>4. Damaged' # {}
  BY <1>2 DEF Damaged
<1> QED BY <1>1, <1>3, <1>4 DEF NeverTakenForEmpty

\* The invariant holds of an erased region.
LEMMA SeedInitInv == SeedInit => SeedInv
<1> SUFFICES ASSUME SeedInit PROVE SeedInv
  OBVIOUS
<1>1. StoreInv /\ op = Idle /\ high = EmptyTable /\ boot = Off /\ TypeOK
  BY InitInv DEF SeedInit, Init, StoreInv
<1>2. Table = EmptyTable
  <2>1. \A s \in Slots : ~Readable(s)
    BY DEF SeedInit, Init, Readable, Blank
  <2> QED BY <1>1, <2>1, EmptyRegion
<1>3. high \in Tables
  BY <1>1 DEF EmptyTable, Tables
<1>4. SeedTypeOK
  <2>1. rot \in 0..MaxRot
    BY SeedAssumption DEF SeedInit
  <2>2. boot \in {Up, Off} \cup {Seeding(todo) : todo \in SUBSET Addrs}
    BY <1>1
  <2>3. shades \in SUBSET Addrs /\ damaged \in BOOLEAN
    BY DEF SeedInit
  <2> QED BY <1>1, <1>3, <2>1, <2>2, <2>3 DEF SeedTypeOK
<1> QED BY <1>1, <1>2, <1>4 DEF SeedInv, Spared, Rising, NeverTakenForEmpty, Idle

\* Every step keeps it.
LEMMA SeedStep == SeedInv /\ [SeedNextState]_seedVars => SeedInv'
<1> SUFFICES ASSUME SeedInv, [SeedNextState]_seedVars PROVE SeedInv'
  OBVIOUS
<1> DEFINE Kept4 == TypeOK' /\ NeverTakenForEmpty' /\ Spared' /\ (rot' = 0 => Rising')
<1>0. /\ shades \in SUBSET Addrs /\ damaged \in BOOLEAN /\ rot \in 0..MaxRot /\ high \in Tables
      /\ boot \in {Up, Off} \cup {Seeding(todo) : todo \in SUBSET Addrs}
      /\ boot = Off => op = Idle
  BY DEF SeedInv, SeedTypeOK
<1>1. CASE Survey
  <2>1. Kept4
    BY <1>1, StoreQuiet DEF Survey
  <2>2. boot' \in {Seeding(todo) : todo \in SUBSET Addrs} /\ damaged' \in BOOLEAN
        /\ boot' # Off /\ UNCHANGED <<shades, rot, high>>
    BY <1>0, <1>1 DEF Survey, Seeding, Off
  <2> QED BY <1>0, <2>1, <2>2 DEF SeedInv, SeedTypeOK
<1>2. CASE Booted
  <2>1. Kept4
    BY <1>2, StoreQuiet DEF Booted
  <2>2. boot' = Up /\ boot' # Off /\ UNCHANGED <<shades, damaged, rot, high>>
    BY <1>2 DEF Booted, Up, Off
  <2> QED BY <1>0, <2>1, <2>2 DEF SeedInv, SeedTypeOK
<1>3. ASSUME NEW a \in Addrs, SeedNext(a) PROVE SeedInv'
  <2>1. /\ boot # Off /\ boot' \in {Seeding(todo) : todo \in SUBSET Addrs} /\ boot' # Off
        /\ UNCHANGED <<shades, damaged, rot, high>>
    <3>1. PICK todo \in SUBSET Addrs : boot = Seeding(todo)
      BY <1>0, <1>3 DEF SeedNext, Up, Off
    <3>2. boot' = Seeding(todo \ {a})
      BY <1>3, <3>1 DEF SeedNext, Seeding
    <3> QED BY <1>3, <3>1, <3>2 DEF SeedNext, Seeding, Off
  <2>2. Kept4
    <3>1. CASE UNCHANGED vars
      BY <2>1, <3>1, StoreQuiet
    <3>2. CASE Missing(a) /\ Plant(a)
      <4>1. FirstCode \in Codes /\ FirstCode > Load(a)
        BY <3>2, SeedAssumption DEF Missing, NoCode
      <4> QED BY <2>1, <3>2, <4>1, AskedFor DEF Plant
    <3> QED BY <1>3, <3>1, <3>2 DEF SeedNext
  <2> QED BY <1>0, <2>1, <2>2 DEF SeedInv, SeedTypeOK
<1>4. ASSUME NEW a \in Addrs, Press(a) PROVE SeedInv'
  <2>1. boot # Off /\ UNCHANGED <<control, high, boot, rot, shades, damaged>>
    BY <1>4 DEF Press, control, Up, Off
  <2>2. Load(a) + 1 \in Codes /\ Load(a) + 1 > Load(a)
    <3>1. Load(a) \in Codes
      BY <1>0, <1>4, StoreTypes DEF Press, Kept, Load, Tables, NoCode, SeedInv, SeedTypeOK
    <3> QED BY <1>4, <3>1, SeedAssumption DEF Press
  <2>3. Kept4
    BY <1>4, <2>1, <2>2, AskedFor DEF Press
  <2> QED BY <1>0, <2>1, <2>3 DEF SeedInv, SeedTypeOK
<1>5. ASSUME NEW a \in Addrs, AddShade(a) PROVE SeedInv'
  <2>1. /\ boot # Off /\ shades' \in SUBSET Addrs /\ UNCHANGED <<boot, damaged, rot, high>>
    BY <1>0, <1>5 DEF AddShade, Up, Off
  <2>2. Kept4
    <3>1. CASE UNCHANGED vars
      BY <2>1, <3>1, StoreQuiet
    <3>2. CASE Missing(a) /\ Plant(a)
      <4>1. FirstCode \in Codes /\ FirstCode > Load(a)
        BY <3>2, SeedAssumption DEF Missing, NoCode
      <4> QED BY <2>1, <3>2, <4>1, AskedFor DEF Plant
    <3> QED BY <1>5, <3>1, <3>2 DEF AddShade
  <2> QED BY <1>0, <2>1, <2>2 DEF SeedInv, SeedTypeOK
<1>6. ASSUME NEW a \in Addrs, RemoveShade(a) PROVE SeedInv'
  <2>1. Kept4
    BY <1>6, StoreQuiet DEF RemoveShade
  <2>2. boot # Off /\ shades' \in SUBSET Addrs /\ UNCHANGED <<boot, damaged, rot, high>>
    BY <1>0, <1>6 DEF RemoveShade, Up, Off
  <2> QED BY <1>0, <2>1, <2>2 DEF SeedInv, SeedTypeOK
<1>7. CASE CommitStep
  <2>1. (Erase \/ Program \/ Verify \/ StepFails) /\ high' = Higher /\ op # Idle
        /\ UNCHANGED <<shades, boot, damaged, rot>>
    BY <1>7 DEF CommitStep, control, Erase, Program, Verify, StepFails, Idle
  <2>2. TypeOK' /\ Spared' /\ high' \in Tables /\ NeverTakenForEmpty'
    BY <2>1, CommitSpares
  <2>3. rot' = 0 => Rising'
    BY <2>1, CommitRises
  <2> QED BY <1>0, <2>1, <2>2, <2>3 DEF SeedInv, SeedTypeOK
<1>8. CASE Cut
  <2>1. PowerCut /\ high' = Higher /\ boot' = Off /\ op' = Idle /\ UNCHANGED <<shades, damaged, rot>>
    BY <1>8 DEF Cut, PowerCut
  <2>2. TypeOK' /\ Spared' /\ high' \in Tables /\ NeverTakenForEmpty'
    BY <2>1, CommitSpares
  <2>3. rot' = 0 => Rising'
    BY <2>1, CommitRises
  <2> QED BY <1>0, <2>1, <2>2, <2>3 DEF SeedInv, SeedTypeOK
<1>9. ASSUME NEW s \in Slots, Rot(s) PROVE SeedInv'
  <2>1. TypeOK' /\ NeverTakenForEmpty' /\ Spared' /\ ~(rot' = 0)
    BY <1>9, RotStep
  <2>2. /\ rot' \in 0..MaxRot /\ op' = op /\ UNCHANGED <<shades, boot, damaged, high>>
    BY <1>0, <1>9, SeedAssumption DEF Rot
  <2> QED BY <1>0, <2>1, <2>2 DEF SeedInv, SeedTypeOK
<1>10. CASE UNCHANGED seedVars
  <2>1. Kept4
    BY <1>10, StoreQuiet DEF seedVars
  <2>2. UNCHANGED <<op, shades, boot, damaged, rot, high>>
    BY <1>10 DEF seedVars, vars
  <2> QED BY <1>0, <2>1, <2>2 DEF SeedInv, SeedTypeOK
<1> QED BY <1>1, <1>2, <1>3, <1>4, <1>5, <1>6, <1>7, <1>8, <1>9, <1>10 DEF SeedNextState

\* The invariant holds throughout, across boots, edits, presses, cuts and losses.
THEOREM SeedInvariant == SeedSpec => []SeedInv
BY SeedInitInv, SeedStep, PTL DEF SeedSpec

\* A region that ever held a code is never taken for an empty one, so no seed is
\* planted over what was lost.
THEOREM SeedSafety == SeedSpec => []SeedSafe
<1>1. SeedInv => SeedSafe
  BY DEF SeedInv, SeedSafe
<1> QED BY <1>1, SeedInvariant, PTL

\* While no completed record is lost, the store answers with the highest code it
\* ever held.
THEOREM CodesOnlyRise == SeedSpec => []NoCodeGoesBack
<1>1. SeedInv => NoCodeGoesBack
  BY DEF SeedInv, Rising, NoCodeGoesBack
<1> QED BY <1>1, SeedInvariant, PTL
=============================================================================
