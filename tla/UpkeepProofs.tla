---------------------------- MODULE UpkeepProofs ----------------------------
(***************************************************************************)
(* The upkeep of the board: new credentials put on trial, and a backup     *)
(* taken and restored.                                                     *)
(*                                                                         *)
(* A trial never loses the credentials that work: for every number of      *)
(* networks, slots of the ring and deadlines, what is loaded is replaced   *)
(* only by what somebody confirmed from over the network it names, and a   *)
(* step changes one half of a record at the most.  The argument keeps the  *)
(* ring in order (RingInOrder), the candidate on the air while it is on    *)
(* trial (OnTrial), and a confirmation on the network it came over         *)
(* (CameThrough).                                                          *)
(*                                                                         *)
(* What a restore promises, for every number of addresses, size of a       *)
(* chunk, size of a file and number of faults: what is staged is whole,    *)
(* the two records of a table are of one table once the board runs, and no *)
(* shade of an unedited export comes back below the code it had.  The      *)
(* argument follows a code through the file.  The walk of the export sends *)
(* every shade in its place, and the places stay as they are while nobody  *)
(* edits the table (Walking); so the file holds codes no lower than they   *)
(* were (FileKeeps); so the board that restores it knew a code of its own, *)
(* has one as high, or still holds the seed that will be one (Resuming).   *)
(***************************************************************************)
EXTENDS WifiTrial, Backup, RingProofs, FiniteSetTheorems, TLAPS

-----------------------------------------------------------------------------
(* The ring of configuration records                                       *)

RingStates == [Slots -> SlotStates]
Halves == [wifi : Nets \cup {Nothing}, mqtt : Pairs \cup {Nothing}]
SeqsOn(rg) == [s \in Slots |-> IF rg[s].is = "decoded" THEN rg[s].record.seq ELSE NoSeq]
LoadedOf(rg) ==
    IF NewestSlot(SeqsOn(rg)) = NoSlot THEN [wifi |-> Nothing, mqtt |-> Nothing]
    ELSE LET record == rg[NewestSlot(SeqsOn(rg))].record
         IN  [wifi |-> record.wifi, mqtt |-> record.mqtt]

\* The ring can be read, and its records are in order.
RingInOrder == ring \in RingStates /\ InOrder(Sequences)

\* What a slot can hold.
LEMMA SlotHolds ==
    ASSUME NEW rg \in RingStates, NEW s \in Slots
    PROVE  \/ rg[s] = Erased /\ rg[s].is = "erased"
           \/ rg[s] = Garbage /\ rg[s].is = "garbage"
           \/ rg[s].is = "decoded" /\ rg[s].record \in Records /\ rg[s] = Decoded(rg[s].record)
<1>1. rg[s] \in SlotStates
  BY DEF RingStates
<1> QED BY <1>1 DEF SlotStates, Erased, Garbage, Decoded

\* The sequence numbers of a ring, and what is loaded from it.
LEMMA RingReads ==
    ASSUME NEW rg \in RingStates
    PROVE  /\ SeqsOn(rg) \in SeqsOf /\ LoadedOf(rg) \in Halves
           /\ \A s \in Slots : SeqsOn(rg)[s] = NoSeq <=> rg[s].is # "decoded"
           /\ \A s \in Slots : rg[s].is = "decoded" => SeqsOn(rg)[s] = rg[s].record.seq
           /\ NewestSlot(SeqsOn(rg)) # NoSlot =>
                /\ NewestSlot(SeqsOn(rg)) \in Slots
                /\ rg[NewestSlot(SeqsOn(rg))].is = "decoded"
<1>1. ASSUME NEW s \in Slots
      PROVE  /\ SeqsOn(rg)[s] \in Seqs \cup {NoSeq}
             /\ SeqsOn(rg)[s] = NoSeq <=> rg[s].is # "decoded"
  BY SlotHolds DEF SeqsOn, Records, Seqs, NoSeq
<1>2. SeqsOn(rg) \in SeqsOf
  BY <1>1 DEF SeqsOn, SeqsOf
<1>3. \A s \in Slots : rg[s].is = "decoded" => SeqsOn(rg)[s] = rg[s].record.seq
  BY DEF SeqsOn
<1> DEFINE n == NewestSlot(SeqsOn(rg))
<1>4. n # NoSlot => n \in Slots /\ rg[n].is = "decoded"
  BY <1>1, <1>2, NewestReadable
<1>5. LoadedOf(rg) \in Halves
  <2>1. CASE n = NoSlot
    BY <2>1 DEF LoadedOf, Halves
  <2>2. CASE n # NoSlot
    <3>1. rg[n].record \in Records
      BY <1>4, <2>2, SlotHolds
    <3> HIDE DEF n
    <3>2. [wifi |-> rg[n].record.wifi, mqtt |-> rg[n].record.mqtt] \in Halves
      BY <3>1 DEF Records, Halves
    <3> QED BY <2>2, <3>2 DEF LoadedOf, n
  <2> QED BY <2>1, <2>2
<1> QED BY <1>1, <1>2, <1>3, <1>4, <1>5

\* The names of ConfigStore are of the ring as it is.
LEMMA RingNames ==
    /\ Sequences = SeqsOn(ring) /\ Current = NewestSlot(SeqsOn(ring)) /\ Loaded = LoadedOf(ring)
BY DEF Sequences, Decodes, SeqsOn, Current, Loaded, LoadedOf

\* And as it will be.
LEMMA NextRingNames ==
    /\ Loaded' = LoadedOf(ring') /\ (InOrder(Sequences)' <=> InOrder(SeqsOn(ring')))
<1>1. Sequences' = SeqsOn(ring') /\ Current' = NewestSlot(SeqsOn(ring'))
  BY DEF Sequences, Decodes, SeqsOn, Current
<1> QED BY <1>1 DEF Loaded, LoadedOf, InOrder

\* A step that leaves the ring alone leaves what is loaded.
LEMMA SameRing ==
    ASSUME UNCHANGED ring
    PROVE  Loaded' = Loaded /\ (RingInOrder => RingInOrder')
BY RingNames, NextRingNames DEF RingInOrder

\* What takes away records of a ring, and not the newest, leaves what is loaded.
LEMMA NewestKept ==
    ASSUME NEW old \in RingStates, NEW new \in RingStates, InOrder(SeqsOn(old)),
           \A s \in Slots : new[s].is = "decoded" => new[s] = old[s],
           NewestSlot(SeqsOn(old)) # NoSlot =>
               new[NewestSlot(SeqsOn(old))] = old[NewestSlot(SeqsOn(old))]
    PROVE  /\ NewestSlot(SeqsOn(new)) = NewestSlot(SeqsOn(old)) /\ InOrder(SeqsOn(new))
           /\ LoadedOf(new) = LoadedOf(old)
<1> DEFINE n == NewestSlot(SeqsOn(old))
<1>1. SeqsOn(old) \in SeqsOf /\ SeqsOn(new) \in SeqsOf
  BY RingReads
<1>2. \A s \in Slots : SeqsOn(new)[s] # NoSeq => SeqsOn(new)[s] = SeqsOn(old)[s]
  BY RingReads
<1>3. n # NoSlot => SeqsOn(new)[n] = SeqsOn(old)[n]
  BY RingReads
<1>4. NewestSlot(SeqsOn(new)) = n /\ InOrder(SeqsOn(new))
  BY <1>1, <1>2, <1>3, OrderStays
<1> QED BY <1>4 DEF LoadedOf

\* Where a write aims is not the newest record, and an erase before it spares that.
LEMMA AimSpares ==
    ASSUME RingInOrder, AimSlot # NoSlot
    PROVE  /\ AimSlot \in Slots /\ NextAim.seq \in Seqs
           /\ ~EraseBefore(AimSlot) => ring[AimSlot] = Erased
           /\ Current # NoSlot => /\ NextAim.seq = (ring[Current].record.seq + 1) % SEQS
                                  /\ Follows(Current, AimSlot)
                                  /\ EraseBefore(AimSlot) => ~InSector(Current, AimSlot)
<1> DEFINE q == SeqsOn(ring)
<1>1. /\ q \in SeqsOf /\ NewestSlot(q) = Current /\ FreeSlots \in SUBSET Slots
      /\ Current # NoSlot => Current \in Slots /\ q[Current] = ring[Current].record.seq
  BY RingNames, RingReads DEF RingInOrder, FreeSlots
<1>2. NextAim = IF NewestSlot(q) = NoSlot THEN NextWrite(NoSlot, NoSeq)
                ELSE NextWrite(NewestSlot(q), q[NewestSlot(q)])
  BY <1>1 DEF NextAim
<1>3. AimSlot = WriteSlot(NextAim.slot, FreeSlots)
  BY DEF AimSlot
<1>4. q \in SeqsOf /\ FreeSlots \in SUBSET Slots /\ AimSlot # NoSlot
  BY <1>1
<1> HIDE DEF q
<1>5. /\ AimSlot \in Slots /\ NextAim.seq \in Seqs
      /\ EraseBefore(AimSlot) \/ AimSlot \in FreeSlots
      /\ NewestSlot(q) # NoSlot => /\ NextAim.seq = (q[NewestSlot(q)] + 1) % SEQS
                                   /\ Follows(NewestSlot(q), AimSlot)
  BY <1>2, <1>3, <1>4, WriteAims
<1>6. Current # NoSlot /\ EraseBefore(AimSlot) => ~InSector(Current, AimSlot)
  BY <1>1, <1>5, NextSector DEF Follows
<1> QED BY <1>1, <1>5, <1>6 DEF FreeSlots

\* A sector erased for a write, or half erased, still loads what it did.
LEMMA ErasedKeeps ==
    ASSUME RingInOrder, AimSlot # NoSlot, NEW new \in RingStates,
           \A s \in Slots : new[s] # ring[s] => /\ new[s].is # "decoded"
                                                /\ InSector(s, AimSlot) /\ EraseBefore(AimSlot)
    PROVE  /\ NewestSlot(SeqsOn(new)) = Current /\ InOrder(SeqsOn(new)) /\ LoadedOf(new) = Loaded
           /\ Current # NoSlot => new[Current] = ring[Current]
<1>1. /\ ring \in RingStates /\ InOrder(SeqsOn(ring))
      /\ Current = NewestSlot(SeqsOn(ring)) /\ Loaded = LoadedOf(ring)
  BY RingNames DEF RingInOrder
<1>2. Current # NoSlot => new[Current] = ring[Current]
  BY <1>1, RingReads, AimSpares
<1> QED BY <1>1, <1>2, NewestKept

\* The ring with its sector erased for the write, or as it was where nothing is in the way.
LEMMA EmptiedKeeps ==
    ASSUME RingInOrder, AimSlot # NoSlot
    PROVE  /\ Emptied \in RingStates /\ Emptied[AimSlot] = Erased
           /\ EraseBefore(AimSlot) => \A s \in Slots : InSector(s, AimSlot) => Emptied[s] = Erased
           /\ NewestSlot(SeqsOn(Emptied)) = Current /\ InOrder(SeqsOn(Emptied))
           /\ LoadedOf(Emptied) = Loaded
           /\ Current # NoSlot => Emptied[Current] = ring[Current]
<1>1. ring \in RingStates /\ AimSlot \in Slots
  BY AimSpares DEF RingInOrder
<1>2. Emptied \in RingStates
  BY <1>1 DEF Emptied, RingStates, SlotStates
<1>3. \A s \in Slots : Emptied[s] # ring[s] => /\ Emptied[s].is # "decoded"
                                               /\ InSector(s, AimSlot) /\ EraseBefore(AimSlot)
  BY DEF Emptied, Erased
<1>4. Emptied[AimSlot] = Erased
  BY <1>1, AimSpares DEF Emptied, InSector
<1>5. EraseBefore(AimSlot) => \A s \in Slots : InSector(s, AimSlot) => Emptied[s] = Erased
  BY DEF Emptied
<1> QED BY <1>2, <1>3, <1>4, <1>5, ErasedKeeps

\* A record that lands is what is loaded next.
LEMMA LandedLoads ==
    ASSUME RingInOrder, AimSlot # NoSlot, NEW h \in Halves
    PROVE  /\ Landed(NewRecord(h)) \in RingStates /\ InOrder(SeqsOn(Landed(NewRecord(h))))
           /\ LoadedOf(Landed(NewRecord(h))) = h
<1> DEFINE r == NewRecord(h)
           g == [Emptied EXCEPT ![AimSlot] = Decoded(r)]
<1>1. /\ Emptied \in RingStates /\ Emptied[AimSlot] = Erased
      /\ EraseBefore(AimSlot) => \A s \in Slots : InSector(s, AimSlot) => Emptied[s] = Erased
      /\ NewestSlot(SeqsOn(Emptied)) = Current /\ InOrder(SeqsOn(Emptied))
      /\ Current # NoSlot => Emptied[Current] = ring[Current]
  BY EmptiedKeeps
<1>2. /\ AimSlot \in Slots /\ NextAim.seq \in Seqs
      /\ Current # NoSlot => /\ NextAim.seq = (ring[Current].record.seq + 1) % SEQS
                             /\ Follows(Current, AimSlot)
  BY AimSpares
<1>3. r \in Records /\ r.seq = NextAim.seq /\ [wifi |-> r.wifi, mqtt |-> r.mqtt] = h
  BY <1>2 DEF Halves, Records, NewRecord
<1>4. Landed(r) = g
  BY <1>1, <1>2 DEF Landed, RingStates
<1> HIDE DEF r
<1>5. /\ g \in RingStates /\ g[AimSlot] = Decoded(r)
      /\ \A s \in Slots \ {AimSlot} : g[s] = Emptied[s]
  BY <1>1, <1>2, <1>3 DEF RingStates, SlotStates
<1> HIDE DEF g
<1>6. g[AimSlot].is = "decoded" /\ g[AimSlot].record = r
  BY <1>5 DEF Decoded
<1>7. /\ SeqsOn(Emptied) \in SeqsOf /\ SeqsOn(g) \in SeqsOf
      /\ SeqsOn(g)[AimSlot] = r.seq /\ SeqsOn(g)[AimSlot] # NoSeq
  BY <1>1, <1>2, <1>5, <1>6, RingReads
<1>8. \A s \in Slots \ {AimSlot} : SeqsOn(g)[s] = SeqsOn(Emptied)[s]
  BY <1>5 DEF SeqsOn
<1>9. NewestSlot(SeqsOn(Emptied)) # NoSlot =>
          /\ SeqsOn(g)[AimSlot] = (SeqsOn(Emptied)[NewestSlot(SeqsOn(Emptied))] + 1) % SEQS
          /\ Follows(NewestSlot(SeqsOn(Emptied)), AimSlot)
  BY <1>1, <1>2, <1>3, <1>7, RingReads
<1>10. EraseBefore(AimSlot) => \A s \in Slots : InSector(s, AimSlot) => SeqsOn(Emptied)[s] = NoSeq
  BY <1>1, RingReads DEF Erased
<1>11. NewestSlot(SeqsOn(g)) = AimSlot /\ InOrder(SeqsOn(g))
  BY <1>1, <1>2, <1>7, <1>8, <1>9, <1>10, OrderFollows
<1>12. LoadedOf(g) = h
  <2>1. AimSlot # NoSlot
    OBVIOUS
  <2> QED BY <2>1, <1>3, <1>6, <1>11 DEF LoadedOf
<1> QED BY <1>4, <1>5, <1>11, <1>12 DEF r

\* Whatever a write does, done or broken off, what is loaded next is what was or what was written.
LEMMA WriteLoads ==
    ASSUME RingInOrder, NEW h \in Halves, Written(h) \/ WriteBroken(h)
    PROVE  /\ RingInOrder' /\ Loaded' \in {Loaded, h}
           /\ Written(h) => Loaded' = h
<1>1. CASE ring' = ring
  <2>1. Written(h) => Loaded' = h
    BY LandedLoads, NextRingNames DEF Written
  <2> QED BY <1>1, <2>1, SameRing
<1>2. CASE AimSlot # NoSlot /\ ring' = Landed(NewRecord(h))
  BY <1>2, LandedLoads, NextRingNames DEF RingInOrder
<1>3. CASE AimSlot # NoSlot /\ ring' = [Emptied EXCEPT ![AimSlot] = Garbage]
  <2> DEFINE g == [Emptied EXCEPT ![AimSlot] = Garbage]
  <2>1. /\ Emptied \in RingStates /\ Emptied[AimSlot] = Erased /\ AimSlot \in Slots
        /\ NewestSlot(SeqsOn(Emptied)) = Current /\ InOrder(SeqsOn(Emptied))
        /\ LoadedOf(Emptied) = Loaded
    BY <1>3, EmptiedKeeps, AimSpares
  <2>2. g \in RingStates
    BY <2>1 DEF RingStates, SlotStates
  <2>3. /\ \A s \in Slots : g[s].is = "decoded" => g[s] = Emptied[s]
        /\ Current # NoSlot => Current # AimSlot
    <3>1. Current # NoSlot => Emptied[Current].is = "decoded"
      BY <2>1, RingReads
    <3> QED BY <2>1, <3>1 DEF RingStates, Garbage, Erased
  <2>4. Current # NoSlot => Current \in Slots
    BY <2>1, RingReads
  <2>5. Current # NoSlot => g[Current] = Emptied[Current]
    BY <2>1, <2>3, <2>4 DEF RingStates
  <2> HIDE DEF g
  <2>6. InOrder(SeqsOn(g)) /\ LoadedOf(g) = Loaded
    BY <2>1, <2>2, <2>3, <2>5, NewestKept
  <2>7. ring' = g
    BY <1>3 DEF g
  <2>8. Written(h) => Loaded' = h
    BY <1>3, LandedLoads, NextRingNames DEF Written
  <2> QED BY <2>2, <2>6, <2>7, <2>8, NextRingNames DEF RingInOrder
<1>4. CASE AimSlot # NoSlot /\ EraseBefore(AimSlot) /\ ring' \in PartErased
  <2>1. PICK blank \in SUBSET {s \in Slots : InSector(s, AimSlot)},
             garbled \in SUBSET {s \in Slots : InSector(s, AimSlot)} :
          ring' = [s \in Slots |-> IF s \in blank THEN Erased
                                   ELSE IF s \in garbled THEN Garbage ELSE ring[s]]
    BY <1>4 DEF PartErased
  <2>2. ring' \in RingStates
    BY <2>1 DEF RingInOrder, RingStates, SlotStates
  <2>3. \A s \in Slots : ring'[s] # ring[s] => /\ ring'[s].is # "decoded"
                                               /\ InSector(s, AimSlot) /\ EraseBefore(AimSlot)
    BY <1>4, <2>1 DEF Erased, Garbage
  <2>4. InOrder(SeqsOn(ring')) /\ LoadedOf(ring') = Loaded
    BY <1>4, <2>2, <2>3, ErasedKeeps
  <2>5. Written(h) => Loaded' = h
    BY <1>4, LandedLoads, NextRingNames DEF Written
  <2> QED BY <2>2, <2>4, <2>5, NextRingNames DEF RingInOrder
<1> QED BY <1>1, <1>2, <1>3, <1>4 DEF Written, WriteBroken

-----------------------------------------------------------------------------
(* The trial                                                               *)

\* SettingsTypeOK, in parts.
Trials == [is : {"trial"}, candidate : Nets, phase : {"associating", "awaiting"},
           decision : {"none", "confirmed", "cancelled"}, age : 0..Longest]
Saves == [is : {"save"}, candidate : Nets, at : {"asked", "done", "refused"}, waited : BOOLEAN]
SlotTypes == requested \in Nets \cup {Nothing} /\ live \in {NoTrial} \cup Trials
WorkTypes ==
    /\ saving \in {NoSave} \cup Saves
    /\ onAir \in Nets \cup {Nothing} /\ clicked \in Nets \cup {Nothing} /\ reached \in SUBSET Nets
AirTypes == linkUp \in BOOLEAN /\ raised \in BOOLEAN /\ joined \in BOOLEAN /\ leased \in BOOLEAN
            /\ restart \in BOOLEAN /\ doubled \in BOOLEAN

\* The candidate that is being applied is on the air; outside of that, the one on trial is.
OnTrial ==
    /\ link \in {"top", "settle", "applying", "joining", "held", "waiting"}
    /\ taken \in Nets \cup {Nothing}
    /\ link \in {"settle", "applying"} => taken # Nothing
    /\ link = "applying" => ~joined /\ onAir = taken
    /\ leased => joined
    /\ live.is = "trial" /\ link # "applying" => live.candidate = onAir

\* A confirmation under way came over the network the station is on, and over the candidate's
\* if the watcher has seen the station there.
CameThrough ==
    clicked # Nothing =>
        /\ leased => clicked = onAir
        /\ linkUp /\ live.is = "trial" => clicked = live.candidate

\* Whatever is being written was confirmed from.
Proved == (saving.is = "save" => saving.candidate \in reached) /\ OnlyProved

\* While no second candidate was let in, there is one thing at a time: a request, a trial on its
\* way to the radio, or a trial on it and perhaps its write.
OneAtATime ==
    ~doubled =>
        /\ requested # Nothing => live = NoTrial /\ link \notin {"settle", "applying"}
        /\ link \in {"settle", "applying"} => live = NoTrial
        /\ saving.is = "save" =>
            /\ live.is = "trial" /\ live.candidate = saving.candidate
            /\ saving.at = "done" => Loaded.wifi = saving.candidate
        /\ onAir # Loaded.wifi => link = "applying" \/ live.is = "trial"

TrialInv == RingInOrder /\ SlotTypes /\ WorkTypes /\ AirTypes /\ OnTrial /\ CameThrough /\ Proved
            /\ OneAtATime

\* The clock of a trial stops past the longer of its deadlines.
LEMMA LongestIs == Longest \in Nat
<1> DEFINE S == {ASSOCIATE_DEADLINE, CONFIRM_DEADLINE}
<1>1. \E m \in S : \A n \in S : m >= n
  BY TrialAssumption
<1>2. Max(S) \in S
  BY <1>1 DEF Max
<1> QED BY <1>2, TrialAssumption DEF Longest

\* The actions in the groups the proofs go by, the routes that take an argument with theirs.
RequestSome == \E candidate \in Nets : RequestTrial(candidate)
SaveSome == \E mqtt \in Pairs \cup {Nothing} : SaveMqtt(mqtt)
Radio == TakeRequested \/ NotApplied \/ Configure \/ Applied
         \/ (Connect \/ LinkEnds \/ Retry \/ Lease \/ Drop)
Restarting == (Revert \/ Restarter) \/ PowerCut
Serving == RequestSome \/ Click \/ Confirm \/ End \/ GiveUp \/ Cancel \/ SaveSome \/ SaveWifi

\* What becomes of a trial that is looked at: it enters the operator's window, and no other.
LEMMA EnteredIs ==
    ASSUME NEW trial \in Trials, NEW up \in BOOLEAN
    PROVE  /\ Entered(trial, up) \in Trials /\ Entered(trial, up).candidate = trial.candidate
           /\ Entered(trial, up).is = "trial"
<1>1. 0 \in 0..Longest
  BY LongestIs
<1>2. [trial EXCEPT !.phase = "awaiting", !.age = 0] \in Trials
  BY <1>1 DEF Trials
<1>3. CASE Entered(trial, up) = trial
  BY <1>3 DEF Trials
<1>4. CASE Entered(trial, up) = [trial EXCEPT !.phase = "awaiting", !.age = 0]
  BY <1>2, <1>4 DEF Trials
<1> QED BY <1>3, <1>4, Zenon DEF Entered

\* Only a trial whose station was seen on its network is stored.
LEMMA CommitsUp ==
    ASSUME NEW trial, NEW up \in BOOLEAN, Outcome(trial, up) = "commit"
    PROVE  up
<1> SUFFICES ASSUME ~up PROVE Outcome(trial, up) # "commit"
  OBVIOUS
<1>1. Outcome(trial, up) \in {"revert", "wait"}
  BY Zenon DEF Outcome
<1> QED BY <1>1

\* A trial or none, a save or none.
LEMMA Kinds ==
    ASSUME SlotTypes, WorkTypes
    PROVE  /\ live = NoTrial <=> live.is # "trial"
           /\ live # NoTrial => live \in Trials
           /\ saving = NoSave <=> saving.is # "save"
           /\ saving # NoSave => saving \in Saves
BY DEF SlotTypes, WorkTypes, Trials, Saves, NoTrial, NoSave

\* The state task's write of a confirmed credential moves that half only, or none.
LEMMA SavesHalf ==
    ASSUME TrialInv, SaveWifi
    PROVE  /\ RingInOrder' /\ Loaded'.mqtt = Loaded.mqtt
           /\ saving \in Saves /\ Loaded'.wifi \in {Loaded.wifi, saving.candidate}
           /\ \/ saving' = NoSave
              \/ saving' = [saving EXCEPT !.at = "refused"]
              \/ saving' = [saving EXCEPT !.at = "done"] /\ Loaded'.wifi = saving.candidate
<1> DEFINE h == WifiHalf(saving.candidate)
<1>1. saving \in Saves
  BY Kinds DEF TrialInv, SaveWifi
<1>2. h \in Halves /\ h.mqtt = Loaded.mqtt /\ h.wifi = saving.candidate
  <2>1. Loaded \in Halves
    BY RingNames, RingReads DEF TrialInv, RingInOrder
  <2> QED BY <1>1, <2>1 DEF WifiHalf, Halves, Saves
<1>3. (Written(h) /\ saving' \in {NoSave, [saving EXCEPT !.at = "done"]})
      \/ (WriteBroken(h) /\ saving' \in {NoSave, [saving EXCEPT !.at = "refused"]})
  BY DEF SaveWifi
<1> HIDE DEF h
<1>4. /\ RingInOrder' /\ Loaded' \in {Loaded, h}
      /\ Written(h) => Loaded' = h
  BY <1>2, <1>3, WriteLoads DEF TrialInv
<1>5. /\ RingInOrder' /\ Loaded'.mqtt = Loaded.mqtt
      /\ Loaded'.wifi \in {Loaded.wifi, saving.candidate}
  BY <1>2, <1>4
<1>6. saving' = [saving EXCEPT !.at = "done"] =>
        saving' \notin {NoSave, [saving EXCEPT !.at = "refused"]}
  BY <1>1 DEF Saves, NoSave
<1>7. saving' = [saving EXCEPT !.at = "done"] => Loaded'.wifi = saving.candidate
  BY <1>2, <1>3, <1>4, <1>6
<1>8. \/ saving' = NoSave \/ saving' = [saving EXCEPT !.at = "refused"]
      \/ saving' = [saving EXCEPT !.at = "done"]
  BY <1>3
<1> QED BY <1>1, <1>5, <1>7, <1>8, Zenon

\* So does what a power cut leaves of it.
LEMMA CutsHalf ==
    ASSUME TrialInv, PowerCut
    PROVE  /\ RingInOrder' /\ Loaded'.mqtt = Loaded.mqtt
           /\ \/ Loaded'.wifi = Loaded.wifi
              \/ saving.is = "save" /\ Loaded'.wifi = saving.candidate
<1> DEFINE h == WifiHalf(saving.candidate)
<1>1. CASE saving.is = "save" /\ saving.at = "asked"
  <2>1. saving \in Saves
    BY <1>1, Kinds DEF TrialInv
  <2>2. h \in Halves /\ h.mqtt = Loaded.mqtt /\ h.wifi = saving.candidate
    <3>1. Loaded \in Halves
      BY RingNames, RingReads DEF TrialInv, RingInOrder
    <3> QED BY <2>1, <3>1 DEF WifiHalf, Halves, Saves
  <2>3. WriteBroken(h)
    BY <1>1 DEF PowerCut
  <2> HIDE DEF h
  <2>4. RingInOrder' /\ Loaded' \in {Loaded, h}
    BY <2>2, <2>3, WriteLoads DEF TrialInv
  <2> QED BY <1>1, <2>2, <2>4
<1>2. CASE ~(saving.is = "save" /\ saving.at = "asked")
  BY <1>2, SameRing DEF PowerCut, TrialInv
<1> QED BY <1>1, <1>2

\* And a write of the broker settings moves the other.
LEMMA SavesMqtt ==
    ASSUME TrialInv, SaveSome
    PROVE  RingInOrder' /\ Loaded'.wifi = Loaded.wifi
<1>1. PICK mqtt \in Pairs \cup {Nothing} : Written(MqttHalf(mqtt)) \/ WriteBroken(MqttHalf(mqtt))
  BY DEF SaveSome, SaveMqtt
<1> DEFINE h == MqttHalf(mqtt)
<1>2. h \in Halves /\ h.wifi = Loaded.wifi
  <2>1. Loaded \in Halves
    BY RingNames, RingReads DEF TrialInv, RingInOrder
  <2> QED BY <2>1 DEF MqttHalf, Halves
<1> HIDE DEF h
<1>3. RingInOrder' /\ Loaded' \in {Loaded, h}
  BY <1>1, <1>2, WriteLoads DEF TrialInv, h
<1> QED BY <1>2, <1>3

\* A confirmation stores the candidate only if the watcher has seen the station on its network.
LEMMA ConfirmDoes ==
    ASSUME TrialInv, Confirm
    PROVE  /\ clicked \in Nets /\ clicked' = Nothing /\ reached' = reached \cup {clicked}
           /\ UNCHANGED <<ring, requested, linkUp, link, taken, onAir, joined, leased, doubled>>
           /\ live = NoTrial => UNCHANGED <<live, saving>>
           /\ live # NoTrial => /\ live' \in Trials /\ live'.candidate = live.candidate
                                /\ \/ saving' = NoSave
                                   \/ saving' = Save(live.candidate, "asked", TRUE) /\ linkUp
<1>1. /\ clicked \in Nets /\ clicked' = Nothing /\ reached' = reached \cup {clicked}
      /\ UNCHANGED <<ring, requested, linkUp, link, taken, onAir, joined, leased, doubled>>
  BY DEF TrialInv, WorkTypes, Confirm, linkVars
<1>2. live = NoTrial => UNCHANGED <<live, saving>>
  BY Zenon DEF Confirm
<1>3. ASSUME live # NoTrial
      PROVE  /\ live' \in Trials /\ live'.candidate = live.candidate
             /\ \/ saving' = NoSave
                \/ saving' = Save(live.candidate, "asked", TRUE) /\ linkUp
  <2>1. Confirmed \in Trials /\ Confirmed.candidate = live.candidate
    BY <1>3, Kinds DEF TrialInv, Confirmed, Trials
  <2>2. linkUp \in BOOLEAN
    BY Zenon DEF TrialInv, AirTypes
  <2>3. /\ live' = Entered(Confirmed, linkUp)
        /\ saving' = IF Outcome(live', linkUp) = "commit" THEN Save(live.candidate, "asked", TRUE)
                     ELSE NoSave
    BY <1>3, Zenon DEF Confirm
  <2>4. live' \in Trials /\ live'.candidate = live.candidate
    BY <2>1, <2>2, <2>3, EnteredIs, Zenon
  <2> QED BY <2>2, <2>3, <2>4, CommitsUp, Zenon
<1> QED BY <1>1, <1>2, <1>3, Zenon

\* A restart takes whatever is loaded.
LEMMA LoadsAre ==
    ASSUME RingInOrder'
    PROVE  Loaded'.wifi \in Nets \cup {Nothing}
BY NextRingNames, RingReads DEF RingInOrder, Halves

\* The ring stays in order, and a step moves one half of what is loaded at the most.
LEMMA RingStep ==
    ASSUME TrialInv, TrialNext
    PROVE  RingInOrder' /\ (Loaded'.wifi = Loaded.wifi \/ Loaded'.mqtt = Loaded.mqtt)
<1> USE DEF TrialInv
<1>1. CASE Radio
  <2>1. CASE TakeRequested
    BY <2>1, SameRing DEF TakeRequested
  <2>2. CASE NotApplied
    BY <2>2, SameRing DEF NotApplied
  <2>3. CASE Configure
    BY <2>3, SameRing DEF Configure
  <2>4. CASE Applied
    BY <2>4, SameRing DEF Applied
  <2>5. CASE Connect \/ LinkEnds \/ Retry \/ Lease \/ Drop
    BY <2>5, SameRing DEF Connect, LinkEnds, Retry, Lease, Drop
  <2> QED BY <1>1, <2>1, <2>2, <2>3, <2>4, <2>5 DEF Radio
<1>2. CASE Watch
  BY <1>2, SameRing DEF Watch
<1>3. CASE Tick
  BY <1>3, SameRing DEF Tick
<1>4. CASE Restarting
  <2>1. CASE Revert \/ Restarter
    BY <2>1, SameRing DEF Revert, Restarter, Restarted
  <2>2. CASE PowerCut
    BY <2>2, CutsHalf
  <2> QED BY <1>4, <2>1, <2>2 DEF Restarting
<1>5. CASE Serving
  <2>1. CASE RequestSome
    BY <2>1, SameRing DEF RequestSome, RequestTrial
  <2>2. CASE Click
    BY <2>2, SameRing DEF Click
  <2>3. CASE Confirm
    BY <2>3, SameRing DEF Confirm
  <2>4. CASE End
    BY <2>4, SameRing DEF End
  <2>5. CASE GiveUp
    BY <2>5, SameRing DEF GiveUp
  <2>6. CASE Cancel
    BY <2>6, SameRing DEF Cancel
  <2>7. CASE SaveSome
    BY <2>7, SavesMqtt
  <2>8. CASE SaveWifi
    BY <2>8, SavesHalf
  <2> QED BY <1>5, <2>1, <2>2, <2>3, <2>4, <2>5, <2>6, <2>7, <2>8 DEF Serving
<1> QED BY <1>1, <1>2, <1>3, <1>4, <1>5 DEF TrialNext, WifiLink, Routes, Radio, Restarting,
       Serving, RequestSome, SaveSome

\* The request and the trial keep their types.
LEMMA SlotStep ==
    ASSUME TrialInv, TrialNext
    PROVE  SlotTypes'
<1> USE DEF TrialInv, SlotTypes, Trials, AirTypes
<1>1. CASE Radio
  <2>1. CASE TakeRequested
    BY <2>1, EnteredIs, Kinds, LongestIs DEF TakeRequested
  <2>2. CASE NotApplied
    BY <2>2, EnteredIs, Kinds, LongestIs DEF NotApplied
  <2>3. CASE Configure
    BY <2>3, EnteredIs, Kinds, LongestIs DEF Configure, slotVars
  <2>4. CASE Applied
    <3>1. taken \in Nets /\ 0 \in 0..Longest
      BY <2>4, LongestIs DEF Applied, OnTrial
    <3>2. Trial(taken, "associating", "none", 0) \in Trials
      BY <3>1 DEF Trial
    <3> QED BY <2>4, <3>2 DEF Applied
  <2>5. CASE Connect \/ LinkEnds \/ Retry \/ Lease \/ Drop
    BY <2>5, EnteredIs, Kinds, LongestIs DEF Connect, LinkEnds, Retry, Lease, Drop, slotVars
  <2> QED BY <1>1, <2>1, <2>2, <2>3, <2>4, <2>5 DEF Radio
<1>2. CASE Watch
  BY <1>2, EnteredIs, Kinds, LongestIs DEF Watch
<1>3. CASE Tick
  <2>1. /\ live.is = "trial" /\ live.age < Longest /\ live' = [live EXCEPT !.age = @ + 1]
        /\ UNCHANGED requested
    BY <1>3 DEF Tick
  <2>2. live.age + 1 \in 0..Longest /\ live \in Trials
    BY <2>1, Kinds, LongestIs
  <2> QED BY <2>1, <2>2
<1>4. CASE Restarting
  <2>1. CASE Revert \/ Restarter
    BY <2>1, EnteredIs, Kinds, LongestIs DEF Revert, Restarter, Restarted
  <2>2. CASE PowerCut
    BY <2>2, EnteredIs, Kinds, LongestIs DEF PowerCut, Restarted
  <2> QED BY <1>4, <2>1, <2>2 DEF Restarting
<1>5. CASE Serving
  <2>1. CASE RequestSome
    BY <2>1, EnteredIs, Kinds, LongestIs DEF RequestSome, RequestTrial
  <2>2. CASE Click
    BY <2>2, EnteredIs, Kinds, LongestIs DEF Click, slotVars
  <2>3. CASE Confirm
    BY <2>3, ConfirmDoes, Zenon
  <2>4. CASE End
    BY <2>4, EnteredIs, Kinds, LongestIs DEF End
  <2>5. CASE GiveUp
    BY <2>5, EnteredIs, Kinds, LongestIs DEF GiveUp, slotVars
  <2>6. CASE Cancel
    BY <2>6, EnteredIs, Kinds, LongestIs DEF Cancel
  <2>7. CASE SaveSome
    BY <2>7, EnteredIs, Kinds, LongestIs DEF SaveSome, SaveMqtt, slotVars
  <2>8. CASE SaveWifi
    BY <2>8, EnteredIs, Kinds, LongestIs DEF SaveWifi, slotVars
  <2> QED BY <1>5, <2>1, <2>2, <2>3, <2>4, <2>5, <2>6, <2>7, <2>8 DEF Serving
<1> QED BY <1>1, <1>2, <1>3, <1>4, <1>5 DEF TrialNext, WifiLink, Routes, Radio, Restarting,
       Serving, RequestSome, SaveSome

\* So do the write, the confirmation, what is on the air and what was reached.
LEMMA WorkStep ==
    ASSUME TrialInv, TrialNext
    PROVE  WorkTypes'
<1> USE DEF TrialInv, WorkTypes, Saves, Trials, OnTrial
<1>1. CASE Radio
  <2>1. CASE TakeRequested
    BY <2>1, Kinds, EnteredIs DEF TakeRequested
  <2>2. CASE NotApplied
    BY <2>2, Kinds, EnteredIs DEF NotApplied
  <2>3. CASE Configure
    BY <2>3, Kinds, EnteredIs DEF Configure
  <2>4. CASE Applied
    BY <2>4, Kinds, EnteredIs DEF Applied
  <2>5. CASE Connect \/ LinkEnds \/ Retry \/ Lease \/ Drop
    BY <2>5, Kinds, EnteredIs DEF Connect, LinkEnds, Retry, Lease, Drop
  <2> QED BY <1>1, <2>1, <2>2, <2>3, <2>4, <2>5 DEF Radio
<1>2. CASE Watch
  BY <1>2, Kinds, EnteredIs DEF Watch, linkVars
<1>3. CASE Tick
  BY <1>3, Kinds, EnteredIs DEF Tick, linkVars
<1>4. CASE Restarting
  <2>1. CASE Revert \/ Restarter
    <3>1. Restarted /\ UNCHANGED ring
      BY <2>1, Zenon DEF Revert, Restarter
    <3> QED BY <3>1, SameRing, LoadsAre DEF Restarted
  <2>2. CASE PowerCut
    <3>1. Restarted
      BY <2>2 DEF PowerCut
    <3> QED BY <2>2, <3>1, CutsHalf, LoadsAre DEF Restarted
  <2> QED BY <1>4, <2>1, <2>2 DEF Restarting
<1>5. CASE Serving
  <2>1. CASE RequestSome
    BY <2>1, Kinds, EnteredIs DEF RequestSome, RequestTrial, linkVars
  <2>2. CASE Click
    BY <2>2, Kinds, EnteredIs DEF Click, linkVars
  <2>3. CASE Confirm
    <3>1. live # NoTrial => Save(live.candidate, "asked", TRUE) \in Saves
      BY Kinds DEF Save
    <3>2. saving' \in {NoSave} \cup Saves
      BY <2>3, <3>1, ConfirmDoes, Zenon
    <3> QED BY <2>3, <3>2, ConfirmDoes
  <2>4. CASE End
    BY <2>4, Kinds, EnteredIs DEF End, linkVars
  <2>5. CASE GiveUp
    BY <2>5, Kinds, EnteredIs DEF GiveUp, linkVars
  <2>6. CASE Cancel
    BY <2>6, Kinds, EnteredIs DEF Cancel, linkVars
  <2>7. CASE SaveSome
    BY <2>7, Kinds, EnteredIs DEF SaveSome, SaveMqtt, linkVars
  <2>8. CASE SaveWifi
    <3>1. saving' \in {NoSave} \cup Saves
      BY <2>8, SavesHalf
    <3> QED BY <2>8, <3>1 DEF SaveWifi, linkVars
  <2> QED BY <1>5, <2>1, <2>2, <2>3, <2>4, <2>5, <2>6, <2>7, <2>8 DEF Serving
<1> QED BY <1>1, <1>2, <1>3, <1>4, <1>5 DEF TrialNext, WifiLink, Routes, Radio, Restarting,
       Serving, RequestSome, SaveSome

\* So do the flags of the link.
LEMMA AirStep ==
    ASSUME TrialInv, TrialNext
    PROVE  AirTypes'
<1> USE DEF TrialInv, AirTypes
<1>1. CASE Radio
  <2>1. CASE TakeRequested
    BY <2>1, Zenon DEF TakeRequested
  <2>2. CASE NotApplied
    BY <2>2, Zenon DEF NotApplied
  <2>3. CASE Configure
    BY <2>3, Zenon DEF Configure, slotVars
  <2>4. CASE Applied
    BY <2>4, Zenon DEF Applied
  <2>5. CASE Connect \/ LinkEnds \/ Retry \/ Lease \/ Drop
    BY <2>5, Zenon DEF Connect, LinkEnds, Retry, Lease, Drop, slotVars
  <2> QED BY <1>1, <2>1, <2>2, <2>3, <2>4, <2>5 DEF Radio
<1>2. CASE Watch
  BY <1>2, Zenon DEF Watch, linkVars
<1>3. CASE Tick
  BY <1>3, Zenon DEF Tick, linkVars
<1>4. CASE Restarting
  <2>1. CASE Revert \/ Restarter
    BY <2>1, Zenon DEF Revert, Restarter, Restarted
  <2>2. CASE PowerCut
    BY <2>2, Zenon DEF PowerCut, Restarted
  <2> QED BY <1>4, <2>1, <2>2 DEF Restarting
<1>5. CASE Serving
  <2>1. CASE RequestSome
    BY <2>1, Zenon DEF RequestSome, RequestTrial, linkVars
  <2>2. CASE Click
    BY <2>2, Zenon DEF Click, slotVars, linkVars
  <2>3. CASE Confirm
    BY <2>3, Zenon DEF Confirm, linkVars
  <2>4. CASE End
    BY <2>4, Zenon DEF End, linkVars
  <2>5. CASE GiveUp
    BY <2>5, Zenon DEF GiveUp, slotVars, linkVars
  <2>6. CASE Cancel
    BY <2>6, Zenon DEF Cancel, linkVars
  <2>7. CASE SaveSome
    BY <2>7, Zenon DEF SaveSome, SaveMqtt, slotVars, linkVars
  <2>8. CASE SaveWifi
    BY <2>8, Zenon DEF SaveWifi, slotVars, linkVars
  <2> QED BY <1>5, <2>1, <2>2, <2>3, <2>4, <2>5, <2>6, <2>7, <2>8 DEF Serving
<1> QED BY <1>1, <1>2, <1>3, <1>4, <1>5 DEF TrialNext, WifiLink, Routes, Radio, Restarting,
       Serving, RequestSome, SaveSome

\* What is on trial is what is on the air, or about to be.
LEMMA OnTrialStep ==
    ASSUME TrialInv, TrialNext
    PROVE  OnTrial'
<1> USE DEF TrialInv, OnTrial, SlotTypes, AirTypes
<1>1. CASE Radio
  <2>1. CASE TakeRequested
    BY <2>1, Kinds, EnteredIs DEF TakeRequested
  <2>2. CASE NotApplied
    BY <2>2, Kinds, EnteredIs DEF NotApplied, NoTrial
  <2>3. CASE Configure
    BY <2>3, Kinds, EnteredIs DEF Configure
  <2>4. CASE Applied
    BY <2>4, Kinds, EnteredIs DEF Applied, Trial
  <2>5. CASE Connect \/ LinkEnds \/ Retry \/ Lease \/ Drop
    <3>1. UNCHANGED <<taken, onAir, live>>
      BY <2>5 DEF Connect, LinkEnds, Retry, Lease, Drop, slotVars
    <3>2. \/ link' = link /\ (joined' => joined)
          \/ link \in {"joining", "held", "waiting"} /\ link' \in {"held", "waiting", "top"}
      BY <2>5 DEF Connect, LinkEnds, Retry, Lease, Drop
    <3>3. leased' => joined'
      <4>1. leased => joined
        OBVIOUS
      <4> QED BY <2>5, <4>1, Zenon DEF Connect, LinkEnds, Retry, Lease, Drop
    <3> QED BY <3>1, <3>2, <3>3
  <2> QED BY <1>1, <2>1, <2>2, <2>3, <2>4, <2>5 DEF Radio
<1>2. CASE Watch
  BY <1>2, Kinds, EnteredIs DEF Watch, linkVars
<1>3. CASE Tick
  BY <1>3, Kinds, EnteredIs DEF Tick, linkVars
<1>4. CASE Restarting
  <2>1. CASE Revert \/ Restarter
    <3>1. Restarted
      BY <2>1, Zenon DEF Revert, Restarter
    <3> QED BY <3>1 DEF Restarted, NoTrial
  <2>2. CASE PowerCut
    BY <2>2, Kinds, EnteredIs DEF PowerCut, Restarted, NoTrial
  <2> QED BY <1>4, <2>1, <2>2 DEF Restarting
<1>5. CASE Serving
  <2>1. CASE RequestSome
    BY <2>1, Kinds, EnteredIs DEF RequestSome, RequestTrial, linkVars
  <2>2. CASE Click
    BY <2>2, Kinds, EnteredIs DEF Click, slotVars, linkVars
  <2>3. CASE Confirm
    <3>1. live'.is = "trial" => live.is = "trial" /\ live'.candidate = live.candidate
      BY <2>3, ConfirmDoes, Kinds
    <3>2. UNCHANGED <<link, taken, onAir, joined, leased>>
      BY <2>3, ConfirmDoes, Zenon
    <3> QED BY <3>1, <3>2
  <2>4. CASE End
    <3>1. UNCHANGED linkVars /\ (live' = live \/ live' = NoTrial)
      BY <2>4, Zenon DEF End
    <3> QED BY <3>1 DEF linkVars, NoTrial
  <2>5. CASE GiveUp
    BY <2>5, Kinds, EnteredIs DEF GiveUp, slotVars, linkVars
  <2>6. CASE Cancel
    BY <2>6, Kinds, EnteredIs DEF Cancel, linkVars
  <2>7. CASE SaveSome
    BY <2>7, Kinds, EnteredIs DEF SaveSome, SaveMqtt, slotVars, linkVars
  <2>8. CASE SaveWifi
    BY <2>8, Kinds, EnteredIs DEF SaveWifi, slotVars, linkVars
  <2> QED BY <1>5, <2>1, <2>2, <2>3, <2>4, <2>5, <2>6, <2>7, <2>8 DEF Serving
<1> QED BY <1>1, <1>2, <1>3, <1>4, <1>5 DEF TrialNext, WifiLink, Routes, Radio, Restarting,
       Serving, RequestSome, SaveSome

\* A confirmation is of the network it came over.
LEMMA CameThroughStep ==
    ASSUME TrialInv, TrialNext
    PROVE  CameThrough'
<1> USE DEF TrialInv, CameThrough, OnTrial
<1>1. CASE Radio
  <2>1. CASE TakeRequested
    BY <2>1, Kinds, EnteredIs DEF TakeRequested
  <2>2. CASE NotApplied
    BY <2>2, Kinds, EnteredIs DEF NotApplied, NoTrial
  <2>3. CASE Configure
    BY <2>3, Kinds, EnteredIs DEF Configure, slotVars
  <2>4. CASE Applied
    BY <2>4, Kinds, EnteredIs DEF Applied
  <2>5. CASE Connect \/ LinkEnds \/ Retry \/ Lease \/ Drop
    BY <2>5, Kinds, EnteredIs DEF Connect, LinkEnds, Retry, Lease, Drop, slotVars
  <2> QED BY <1>1, <2>1, <2>2, <2>3, <2>4, <2>5 DEF Radio
<1>2. CASE Watch
  BY <1>2, Kinds, EnteredIs DEF Watch, linkVars
<1>3. CASE Tick
  BY <1>3, Kinds, EnteredIs DEF Tick, linkVars
<1>4. CASE Restarting
  <2>1. CASE Revert \/ Restarter
    BY <2>1, Kinds, EnteredIs DEF Revert, Restarter, Restarted
  <2>2. CASE PowerCut
    BY <2>2, Kinds, EnteredIs DEF PowerCut, Restarted
  <2> QED BY <1>4, <2>1, <2>2 DEF Restarting
<1>5. CASE Serving
  <2>1. CASE RequestSome
    BY <2>1, Kinds, EnteredIs DEF RequestSome, RequestTrial, linkVars
  <2>2. CASE Click
    BY <2>2, Kinds, EnteredIs DEF Click, Asked, slotVars, linkVars
  <2>3. CASE Confirm
    BY <2>3, Kinds, EnteredIs DEF Confirm
  <2>4. CASE End
    <3>1. UNCHANGED linkVars /\ UNCHANGED <<linkUp, clicked>> /\ (live' = live \/ live' = NoTrial)
      BY <2>4, Zenon DEF End
    <3> QED BY <3>1 DEF linkVars, NoTrial
  <2>5. CASE GiveUp
    BY <2>5, Kinds, EnteredIs DEF GiveUp, slotVars, linkVars
  <2>6. CASE Cancel
    BY <2>6, Kinds, EnteredIs DEF Cancel, linkVars
  <2>7. CASE SaveSome
    BY <2>7, Kinds, EnteredIs DEF SaveSome, SaveMqtt, slotVars, linkVars
  <2>8. CASE SaveWifi
    BY <2>8, Kinds, EnteredIs DEF SaveWifi, slotVars, linkVars
  <2> QED BY <1>5, <2>1, <2>2, <2>3, <2>4, <2>5, <2>6, <2>7, <2>8 DEF Serving
<1> QED BY <1>1, <1>2, <1>3, <1>4, <1>5 DEF TrialNext, WifiLink, Routes, Radio, Restarting,
       Serving, RequestSome, SaveSome

\* Nothing is written that nobody confirmed from.
LEMMA ProvedStep ==
    ASSUME TrialInv, TrialNext
    PROVE  Proved'
<1> USE DEF TrialInv, Proved, OnlyProved, CameThrough
<1>1. CASE Radio
  <2>1. CASE TakeRequested
    BY <2>1, SameRing, Kinds DEF TakeRequested
  <2>2. CASE NotApplied
    BY <2>2, SameRing, Kinds DEF NotApplied
  <2>3. CASE Configure
    BY <2>3, SameRing, Kinds DEF Configure
  <2>4. CASE Applied
    BY <2>4, SameRing, Kinds DEF Applied
  <2>5. CASE Connect \/ LinkEnds \/ Retry \/ Lease \/ Drop
    BY <2>5, SameRing, Kinds DEF Connect, LinkEnds, Retry, Lease, Drop
  <2> QED BY <1>1, <2>1, <2>2, <2>3, <2>4, <2>5 DEF Radio
<1>2. CASE Watch
  BY <1>2, SameRing, Kinds DEF Watch
<1>3. CASE Tick
  BY <1>3, SameRing, Kinds DEF Tick
<1>4. CASE Restarting
  <2>1. CASE Revert \/ Restarter
    BY <2>1, SameRing, Kinds DEF Revert, Restarter, Restarted, NoSave
  <2>2. CASE PowerCut
    <3>1. saving' = NoSave /\ UNCHANGED reached
      BY <2>2, Zenon DEF PowerCut, Restarted
    <3> QED BY <2>2, <3>1, CutsHalf DEF NoSave
  <2> QED BY <1>4, <2>1, <2>2 DEF Restarting
<1>5. CASE Serving
  <2>1. CASE RequestSome
    BY <2>1, SameRing, Kinds DEF RequestSome, RequestTrial
  <2>2. CASE Click
    BY <2>2, SameRing, Kinds DEF Click
  <2>3. CASE Confirm
    <3>1. Loaded' = Loaded /\ reached' = reached \cup {clicked}
      BY <2>3, ConfirmDoes, SameRing
    <3>2. CASE live = NoTrial
      BY <2>3, <3>1, <3>2, ConfirmDoes
    <3>3. CASE live # NoTrial
      <4>1. \/ saving' = NoSave
            \/ saving' = Save(live.candidate, "asked", TRUE) /\ linkUp
        BY <2>3, <3>3, ConfirmDoes, Zenon
      <4>2. clicked # Nothing
        BY <2>3 DEF Confirm
      <4>3. linkUp => live.candidate = clicked
        BY <3>3, <4>2, Kinds
      <4> QED BY <3>1, <4>1, <4>3 DEF Save, NoSave
    <3> QED BY <3>2, <3>3
  <2>4. CASE End
    BY <2>4, SameRing, Kinds DEF End, NoSave
  <2>5. CASE GiveUp
    BY <2>5, SameRing, Kinds DEF GiveUp, NoSave
  <2>6. CASE Cancel
    BY <2>6, SameRing, Kinds DEF Cancel
  <2>7. CASE SaveSome
    <3>1. UNCHANGED <<saving, reached>>
      BY <2>7 DEF SaveSome, SaveMqtt
    <3> QED BY <2>7, <3>1, SavesMqtt
  <2>8. CASE SaveWifi
    <3>1. UNCHANGED reached
      BY <2>8, Zenon DEF SaveWifi
    <3>2. saving.is = "save" /\ (saving'.is = "save" => saving'.candidate = saving.candidate)
      BY <2>8, SavesHalf DEF Saves, NoSave
    <3> QED BY <2>8, <3>1, <3>2, SavesHalf
  <2> QED BY <1>5, <2>1, <2>2, <2>3, <2>4, <2>5, <2>6, <2>7, <2>8 DEF Serving
<1> QED BY <1>1, <1>2, <1>3, <1>4, <1>5 DEF TrialNext, WifiLink, Routes, Radio, Restarting,
       Serving, RequestSome, SaveSome

\* A request, a trial and its write follow one another.
LEMMA OneAtATimeStep ==
    ASSUME TrialInv, TrialNext
    PROVE  OneAtATime'
<1> USE DEF TrialInv, OneAtATime, OnTrial
<1>1. CASE Radio
  <2>1. CASE TakeRequested
    BY <2>1, SameRing, Kinds, EnteredIs DEF TakeRequested
  <2>2. CASE NotApplied
    BY <2>2, SameRing, Kinds, EnteredIs DEF NotApplied
  <2>3. CASE Configure
    BY <2>3, SameRing, Kinds, EnteredIs DEF Configure, slotVars
  <2>4. CASE Applied
    BY <2>4, SameRing, Kinds, EnteredIs DEF Applied, Trial
  <2>5. CASE Connect \/ LinkEnds \/ Retry \/ Lease \/ Drop
    BY <2>5, SameRing, Kinds, EnteredIs DEF Connect, LinkEnds, Retry, Lease, Drop, slotVars
  <2> QED BY <1>1, <2>1, <2>2, <2>3, <2>4, <2>5 DEF Radio
<1>2. CASE Watch
  <2>1. /\ UNCHANGED <<ring, requested, link, onAir, doubled, saving>>
        /\ live = NoTrial => live' = NoTrial
        /\ live # NoTrial => live' = Entered(live, leased)
    BY <1>2, Zenon DEF Watch, linkVars
  <2>2. leased \in BOOLEAN
    BY Zenon DEF AirTypes
  <2>3. live # NoTrial => live'.is = "trial" /\ live'.candidate = live.candidate
    BY <2>1, <2>2, Kinds, EnteredIs
  <2> QED BY <2>1, <2>3, SameRing, Kinds
<1>3. CASE Tick
  BY <1>3, SameRing, Kinds, EnteredIs DEF Tick, linkVars
<1>4. CASE Restarting
  <2>1. CASE Revert \/ Restarter
    BY <2>1, SameRing, Kinds, EnteredIs DEF Revert, Restarter, Restarted, NoSave
  <2>2. CASE PowerCut
    BY <2>2, SameRing, Kinds, EnteredIs DEF PowerCut, Restarted, NoSave
  <2> QED BY <1>4, <2>1, <2>2 DEF Restarting
<1>5. CASE Serving
  <2>1. CASE RequestSome
    BY <2>1, SameRing, Kinds, EnteredIs DEF RequestSome, RequestTrial, Busy, linkVars
  <2>2. CASE Click
    BY <2>2, SameRing, Kinds, EnteredIs DEF Click, slotVars, linkVars
  <2>3. CASE Confirm
    <3>1. Loaded' = Loaded /\ UNCHANGED <<requested, link, onAir, doubled>>
      BY <2>3, ConfirmDoes, SameRing
    <3>2. CASE live = NoTrial
      BY <2>3, <3>1, <3>2, ConfirmDoes
    <3>3. CASE live # NoTrial
      <4>1. /\ live'.is = "trial" /\ live'.candidate = live.candidate /\ live.is = "trial"
            /\ saving' = NoSave \/ saving' = Save(live.candidate, "asked", TRUE)
        BY <2>3, <3>3, ConfirmDoes, Kinds DEF Trials
      <4> QED BY <3>1, <3>3, <4>1 DEF Save, NoSave
    <3> QED BY <3>2, <3>3
  <2>4. CASE End
    <3>1. /\ UNCHANGED <<ring, link, onAir, doubled>> /\ saving' = NoSave /\ saving.is = "save"
          /\ IF saving.at = "done" THEN requested' = Nothing /\ live' = NoTrial
             ELSE UNCHANGED <<requested, live>>
      BY <2>4, Zenon DEF End, linkVars
    <3>2. ~doubled => live.is = "trial" /\ link \notin {"settle", "applying"}
      BY <3>1, Kinds
    <3>3. CASE saving.at = "done"
      <4>1. ~doubled => Loaded.wifi = live.candidate /\ live.candidate = onAir
        BY <3>1, <3>2, <3>3
      <4> QED BY <3>1, <3>2, <3>3, <4>1, SameRing DEF NoTrial, NoSave
    <3>4. CASE saving.at # "done"
      BY <3>1, <3>4, SameRing DEF NoSave
    <3> QED BY <3>3, <3>4
  <2>5. CASE GiveUp
    BY <2>5, SameRing, Kinds, EnteredIs DEF GiveUp, slotVars, linkVars, NoSave
  <2>6. CASE Cancel
    BY <2>6, SameRing, Kinds, EnteredIs DEF Cancel, linkVars
  <2>7. CASE SaveSome
    <3>1. UNCHANGED <<requested, live, link, onAir, doubled, saving>>
      BY <2>7 DEF SaveSome, SaveMqtt, slotVars, linkVars
    <3> QED BY <2>7, <3>1, SavesMqtt
  <2>8. CASE SaveWifi
    <3>1. UNCHANGED <<requested, live, link, onAir, doubled>> /\ saving.is = "save"
      BY <2>8, Zenon DEF SaveWifi, slotVars, linkVars
    <3>2. saving'.is = "save" => /\ saving'.candidate = saving.candidate
                                 /\ saving'.at = "done" => Loaded'.wifi = saving.candidate
      BY <2>8, SavesHalf DEF Saves, NoSave
    <3> QED BY <3>1, <3>2
  <2> QED BY <1>5, <2>1, <2>2, <2>3, <2>4, <2>5, <2>6, <2>7, <2>8 DEF Serving
<1> QED BY <1>1, <1>2, <1>3, <1>4, <1>5 DEF TrialNext, WifiLink, Routes, Radio, Restarting,
       Serving, RequestSome, SaveSome

\* A board that was provisioned with a credential, and is on it.
LEMMA TrialStarts ==
    ASSUME TrialInit
    PROVE  TrialInv
<1>1. PICK mqtt \in Pairs \cup {Nothing} :
        ring = [s \in Slots |-> IF s = 0 THEN Provisioned(mqtt) ELSE Erased]
  BY DEF TrialInit
<1> DEFINE r == [seq |-> 0, wifi |-> Home, mqtt |-> mqtt]
<1>2. r \in Records /\ 0 \in Slots /\ 0 \in Seqs
  BY TrialAssumption, RingType DEF Records, Slots, Seqs
<1>3. /\ ring \in RingStates /\ ring[0] = Decoded(r)
      /\ \A s \in Slots \ {0} : ring[s] = Erased
  BY <1>1, <1>2 DEF RingStates, SlotStates, Provisioned
<1> HIDE DEF r
<1>4. /\ SeqsOn(ring) \in SeqsOf /\ SeqsOn(ring)[0] # NoSeq
      /\ \A s \in Slots \ {0} : SeqsOn(ring)[s] = NoSeq
  BY <1>2, <1>3, RingReads DEF Decoded, Erased
<1>5. NewestSlot(SeqsOn(ring)) = 0 /\ InOrder(SeqsOn(ring))
  <2>1. NewestSlot(SeqsOn(ring)) = 0
    BY <1>2, <1>4, NewestIs
  <2> QED BY <2>1, <1>4 DEF InOrder
<1>6. Loaded.wifi = Home /\ RingInOrder
  BY <1>3, <1>5, RingNames DEF LoadedOf, RingInOrder, Decoded, NoSlot, r
<1>7. SlotTypes /\ WorkTypes
  BY TrialAssumption DEF TrialInit, SlotTypes, WorkTypes
<1>8. AirTypes
  BY Zenon DEF TrialInit, AirTypes
<1>9. OnTrial /\ CameThrough
  BY DEF TrialInit, OnTrial, CameThrough, NoTrial
<1>10. Proved /\ OneAtATime
  BY <1>6 DEF TrialInit, Proved, OnlyProved, OneAtATime, NoTrial, NoSave
<1> QED BY <1>6, <1>7, <1>8, <1>9, <1>10 DEF TrialInv

\* A step of another part changes none of it.
LEMMA TrialStutters ==
    ASSUME TrialInv, UNCHANGED trialVars
    PROVE  TrialInv'
<1> USE DEF TrialInv, trialVars, slotVars, linkVars
<1>1. RingInOrder' /\ Loaded' = Loaded
  BY SameRing
<1>2. SlotTypes' /\ WorkTypes' /\ AirTypes'
  BY DEF SlotTypes, WorkTypes, AirTypes
<1>3. OnTrial' /\ CameThrough' /\ Proved' /\ OneAtATime'
  BY <1>1 DEF OnTrial, CameThrough, Proved, OnlyProved, OneAtATime
<1> QED BY <1>1, <1>2, <1>3

\* The invariant holds of the specification.
THEOREM TrialInvariant == TrialSpec => []TrialInv
<1>1. TrialInit => TrialInv
  BY TrialStarts
<1>2. TrialInv /\ [TrialNext]_trialVars => TrialInv'
  <2>1. ASSUME TrialInv, TrialNext PROVE TrialInv'
    BY <2>1, RingStep, SlotStep, WorkStep, AirStep, OnTrialStep, CameThroughStep, ProvedStep,
       OneAtATimeStep, Zenon DEF TrialInv
  <2> QED BY <2>1, TrialStutters
<1> QED BY <1>1, <1>2, PTL DEF TrialSpec

\* Nothing unconfirmed is stored, and what is on trial can always be undone.
THEOREM TrialSafety == TrialSpec => []TrialSafe
<1>1. TrialInv => TrialSafe
  <2> SUFFICES ASSUME TrialInv PROVE TrialSafe
    OBVIOUS
  <2>1. {linkUp, raised, joined, leased, restart, doubled} \subseteq BOOLEAN /\ (leased => joined)
    BY Zenon DEF TrialInv, AirTypes, OnTrial
  <2>2. SettingsTypeOK
    <3>1. ring \in [Slots -> SlotStates]
      BY DEF TrialInv, RingInOrder, RingStates
    <3>2. /\ requested \in Nets \cup {Nothing} /\ taken \in Nets \cup {Nothing}
          /\ live = NoTrial \/ live \in Trials
          /\ saving = NoSave \/ saving \in Saves
          /\ link \in {"top", "settle", "applying", "joining", "held", "waiting"}
          /\ {onAir, clicked} \subseteq Nets \cup {Nothing} /\ reached \subseteq Nets
      BY DEF TrialInv, SlotTypes, WorkTypes, OnTrial
    <3> QED BY <2>1, <3>1, <3>2, Zenon DEF SettingsTypeOK, Trials, Saves
  <2>3. OnlyProved
    BY DEF TrialInv, Proved
  <2>4. NeverStranded
    BY DEF TrialInv, OneAtATime, OnTrial, NeverStranded
  <2> QED BY <2>2, <2>3, <2>4 DEF TrialSafe
<1> QED BY <1>1, TrialInvariant, PTL

\* No write, a failing one or a cut, moves both halves of what is loaded.
THEOREM HalvesMoveApart == TrialSpec => OneHalfMoves
<1>1. TrialInv /\ [TrialNext]_trialVars
          => [Loaded'.wifi = Loaded.wifi \/ Loaded'.mqtt = Loaded.mqtt]_trialVars
  BY RingStep
<1> QED BY <1>1, TrialInvariant, PTL DEF TrialSpec, OneHalfMoves

-----------------------------------------------------------------------------
(* The backup                                                              *)

\* BackupTypeOK, in parts, with what the records hold.
SavedRecords == [of : {"board", "file"}, table : SUBSET Addresses, seed : Codes,
            announced : SUBSET Addresses]
Files == [table : SUBSET Addresses, seed : Codes, count : 0..N, got : 0..N, codes : Codes,
          first : Codes, fresh : BOOLEAN]
TableTypes ==
    /\ table \in SUBSET Addresses /\ code \in Codes /\ had \in SUBSET Addresses
    /\ saved \in SavedRecords /\ estateOf \in {"board", "file"}
FaultTypes == faulted \in Nat
ExportTypes == export \in [at : 1..NoExport, file : Files] /\ file \in Files
StageTypes ==
    /\ stage \in {"none", "staged", "applied", "refused"}
    /\ staged \in 0..PAGES /\ writing \in 0..PAGES + 1
    /\ at \in {"off", "up", "shades", "estate", "applied", "refused"}
    /\ client \in {"idle", "begin", "read", "page", "finish", "abort"}
FlagTypes == posted \in BOOLEAN /\ asked \in BOOLEAN /\ edited \in BOOLEAN /\ clash \in BOOLEAN

\* An upload writes page after page, and a file that is staged is whole.
Staging ==
    /\ at # "up" => client = "idle"
    /\ client = "finish" => writing = PAGES
    /\ writing <= PAGES => staged = writing
    /\ stage = "staged" => staged = PAGES /\ writing = PAGES + 1

\* The records are of two tables only while the file that is written is still staged, and can be
\* read again.
Together ==
    /\ saved.of # estateOf /\ ~clash =>
         at \in {"off", "shades", "estate"} /\ stage = "staged" /\ Reads
    /\ at \in {"shades", "estate"} => stage = "staged" /\ Reads
    /\ at \in {"estate", "applied"} => saved.of = "file"
    /\ at = "applied" => estateOf = "file"

\* Before there is a file nothing is restored, and every shade has a code.
NotYet ==
    /\ export.at # NoExport => at = "up" /\ file = EmptyFile
    /\ file = EmptyFile =>
        /\ saved.of = "board" /\ stage # "staged" /\ client = "idle" /\ at \in {"off", "up"}
        /\ \A a \in table \cup saved.table : code[a] # 0

\* The places whose codes have been sent.
Sent == (export.at - 1) * PER_CHUNK
Rank(S, a) == Cardinality({b \in S : b <= a})

Walking ==
    export.at # NoExport =>
        /\ export.file.got <= Sent /\ export.file.got <= export.file.count
        /\ ~edited =>
            /\ export.file.table = table /\ saved.table = table
            /\ export.file.count = Cardinality(table)
            /\ \A a \in table :
                /\ 1 <= export.file.first[a] /\ export.file.first[a] <= code[a]
                /\ Rank(table, a) <= Sent => export.file.first[a] <= export.file.codes[a]

FileKeeps == ~edited => \A a \in file.table : 1 <= file.first[a] /\ file.first[a] <= file.codes[a]

\* A shade of the file has the code the board knew, one as high, or none and such a seed.
Resuming ==
    /\ at \in {"shades", "estate"} => had = {a \in Addresses : code[a] # 0}
    /\ saved.of = "file" =>
        /\ \A a \in had : code[a] # 0
        /\ ~edited =>
            \A a \in file.table :
                \/ a \in had
                \/ code[a] >= file.first[a]
                \/ at # "up" /\ a \in saved.table /\ code[a] = 0 /\ saved.seed[a] >= file.first[a]

BackupInv ==
    /\ TableTypes /\ FaultTypes /\ ExportTypes /\ StageTypes /\ FlagTypes
    /\ Staging /\ Together /\ NotYet /\ Walking /\ FileKeeps /\ Resuming

\* The last chunk reaches the last place.
LEMMA ChunksReach ==
    /\ Chunks \in Nat /\ Chunks >= 1 /\ NoExport \in Nat
    /\ (Chunks - 1) * PER_CHUNK >= N
<1> DEFINE q == (N + PER_CHUNK - 1) \div PER_CHUNK
           r == (N + PER_CHUNK - 1) % PER_CHUNK
<1>1. q \in Nat /\ r \in 0..PER_CHUNK - 1 /\ N + PER_CHUNK - 1 = PER_CHUNK * q + r
  BY BackupAssumption
<1>2. Chunks = 1 + q
  BY DEF Chunks
<1> HIDE DEF q, r
<1>3. PER_CHUNK * q >= N
  BY <1>1, BackupAssumption
<1>4. (Chunks - 1) * PER_CHUNK = PER_CHUNK * q
  BY <1>1, <1>2, BackupAssumption
<1> QED BY <1>1, <1>2, <1>3, <1>4, BackupAssumption DEF NoExport

\* Steps of PER_CHUNK.
LEMMA NextChunk ==
    ASSUME NEW n \in Nat, n >= 1
    PROVE  /\ (n - 1) * PER_CHUNK \in Nat /\ n * PER_CHUNK \in Nat
           /\ n * PER_CHUNK = (n - 1) * PER_CHUNK + PER_CHUNK
BY BackupAssumption

\* Ranks in a set of addresses are numbers from one to its size, and tell its members apart.
LEMMA Ranks ==
    ASSUME NEW S \in SUBSET Addresses
    PROVE  /\ IsFiniteSet(S) /\ Cardinality(S) \in 0..N
           /\ \A a \in S : Rank(S, a) \in 1..Cardinality(S)
           /\ \A a, b \in S : Rank(S, a) = Rank(S, b) => a = b
<1> DEFINE Upto(a) == {b \in S : b <= a}
<1>1. IsFiniteSet(Addresses) /\ Cardinality(Addresses) = N
  BY FS_Interval, BackupAssumption DEF Addresses
<1>2. IsFiniteSet(S) /\ Cardinality(S) <= N /\ Cardinality(S) \in Nat
  BY <1>1, FS_Subset, FS_CardinalityType
<1>3. \A a \in S : IsFiniteSet(Upto(a)) /\ Cardinality(Upto(a)) \in Nat
                   /\ Cardinality(Upto(a)) <= Cardinality(S)
  <2> SUFFICES ASSUME NEW a \in S
               PROVE  IsFiniteSet(Upto(a)) /\ Cardinality(Upto(a)) \in Nat
                      /\ Cardinality(Upto(a)) <= Cardinality(S)
    OBVIOUS
  <2>1. Upto(a) \in SUBSET S
    OBVIOUS
  <2> HIDE DEF Upto
  <2> QED BY <2>1, <1>2, FS_Subset, FS_CardinalityType
<1>4. \A a \in S : a \in Nat /\ a \in Upto(a)
  BY DEF Addresses
<1>5. \A a \in S : Cardinality(Upto(a)) # 0
  BY <1>3, <1>4, FS_EmptySet
<1>6. ASSUME NEW a \in S, NEW b \in S, a < b
      PROVE  Cardinality(Upto(a)) # Cardinality(Upto(b))
  <2>1. Upto(a) \in SUBSET Upto(b) /\ b \notin Upto(a) /\ b \in Upto(b)
    BY <1>6, <1>4
  <2> HIDE DEF Upto
  <2> QED BY <2>1, <1>3, FS_Subset
<1>7. \A a, b \in S : a = b \/ a < b \/ b < a
  BY DEF Addresses
<1>8. \A a \in S : Rank(S, a) = Cardinality(Upto(a))
  BY DEF Rank
<1> HIDE DEF Upto
<1>9. \A a \in S : Rank(S, a) \in 1..Cardinality(S)
  BY <1>2, <1>3, <1>5, <1>8
<1> QED BY <1>2, <1>6, <1>7, <1>8, <1>9, BackupAssumption

\* The members of S in places lo + 1 to hi, as far as place c.
Between(S, lo, hi, c) == {a \in S : Rank(S, a) \in lo + 1..hi /\ Rank(S, a) <= c}

\* They are no more than the places, and none before the first.
LEMMA RanksBetween ==
    ASSUME NEW S \in SUBSET Addresses, NEW lo \in Nat, NEW hi \in Nat, NEW c \in Nat
    PROVE  /\ Cardinality(Between(S, lo, hi, c)) \in Nat
           /\ c <= lo => Cardinality(Between(S, lo, hi, c)) = 0
           /\ lo < c /\ lo < hi => /\ lo + Cardinality(Between(S, lo, hi, c)) <= c
                                   /\ lo + Cardinality(Between(S, lo, hi, c)) <= hi
<1> DEFINE T == Between(S, lo, hi, c)
           top == IF c < hi THEN c ELSE hi
           f == [a \in T |-> Rank(S, a)]
<1>1. T \in SUBSET S /\ \A a \in S : Rank(S, a) \in Nat
  BY Ranks DEF Between
<1>2. IsFiniteSet(T) /\ Cardinality(T) \in Nat
  BY <1>1, Ranks, FS_Subset, FS_CardinalityType
<1>3. f \in Injection(T, lo + 1..top)
  <2>1. f \in [T -> lo + 1..top]
    BY <1>1 DEF Between
  <2>2. \A a, b \in T : Rank(S, a) = Rank(S, b) => a = b
    BY <1>1, Ranks
  <2>3. IsInjective(f)
    BY <2>2 DEF IsInjective
  <2> QED BY <2>1, <2>3 DEF Injection
<1>4. IsFiniteSet(lo + 1..top) /\ Cardinality(lo + 1..top) = IF lo + 1 > top THEN 0 ELSE top - lo
  BY FS_Interval
<1>5. Cardinality(T) <= Cardinality(lo + 1..top)
  BY <1>3, <1>4, FS_Injection
<1> QED BY <1>2, <1>4, <1>5

\* A client that has nothing yet.
LEMMA NoFile ==
    /\ EmptyFile \in Files
    /\ [at |-> NoExport, file |-> EmptyFile] \in [at : 1..NoExport, file : Files]
<1>1. EmptyFile \in Files
  BY BackupAssumption DEF EmptyFile, Files, Nobody, Codes, Addresses
<1> QED BY <1>1, ChunksReach DEF NoExport

\* The places of the table.
LEMMA TableRanks ==
    ASSUME TableTypes
    PROVE  /\ Cardinality(table) \in Nat /\ Cardinality(table) <= N /\ N \in Nat
           /\ \A a \in table : /\ Rank(table, a) \in Nat /\ Rank(table, a) >= 1
                               /\ Rank(table, a) <= Cardinality(table)
BY Ranks, BackupAssumption DEF TableTypes

\* What a press or an edit does to the codes.
LEMMA CodesRise ==
    ASSUME TableTypes, PressShade \/ EditTable
    PROVE  /\ code' \in Codes /\ table' \in SUBSET Addresses
           /\ \A a \in Addresses : code[a] \in Nat /\ code'[a] \in Nat /\ code[a] <= code'[a]
           /\ \A a \in table' : a \in table \/ code'[a] # 0
<1>1. /\ code \in [Addresses -> 0..MaxCode] /\ table \in SUBSET Addresses
      /\ MaxCode \in Nat /\ MaxCode >= 2
  BY BackupAssumption DEF TableTypes, Codes
<1>2. CASE PressShade
  <2>1. PICK a \in table : code[a] < MaxCode /\ code' = [code EXCEPT ![a] = @ + 1]
    BY <1>2 DEF PressShade
  <2>2. code[a] + 1 \in 0..MaxCode
    BY <1>1, <2>1
  <2>3. table' = table
    BY <1>2 DEF PressShade
  <2> QED BY <1>1, <2>1, <2>2, <2>3 DEF Codes
<1>3. CASE EditTable
  <2>1. CASE \E a \in Addresses \ table :
               table' = table \cup {a} /\ code' = [code EXCEPT ![a] = IF @ = 0 THEN 1 ELSE @]
    BY <1>1, <2>1 DEF Codes
  <2>2. CASE \E a \in table : table' = table \ {a} /\ UNCHANGED code
    BY <1>1, <2>2 DEF Codes
  <2> QED BY <1>3, <2>1, <2>2 DEF EditTable
<1> QED BY <1>2, <1>3

\* The table, the codes and the records keep their types.
LEMMA TableStep ==
    ASSUME BackupInv, BackupNext
    PROVE  TableTypes'
<1> USE DEF BackupInv, TableTypes, ExportTypes, SavedRecords, Files, Codes, Nobody
<1>1. CASE Living
  <2>1. CASE PressShade
    BY <2>1, CodesRise DEF PressShade, seenBy
  <2>2. CASE EditTable
    BY <2>2, CodesRise DEF EditTable, seenBy
  <2>3. CASE PersistRows
    BY <2>3, BackupAssumption DEF PersistRows, seenBy
  <2>4. CASE Replace
    BY <2>4, BackupAssumption DEF Replace, seenBy
  <2> QED BY <1>1, <2>1, <2>2, <2>3, <2>4 DEF Living
<1>2. CASE Exporting
  <2>1. CASE ExportBegin
    BY <2>1, BackupAssumption DEF ExportBegin, seenBy
  <2>2. CASE ExportChunk
    BY <2>2, BackupAssumption DEF ExportChunk, seenBy
  <2>3. CASE ExportEnd
    BY <2>3, BackupAssumption DEF ExportEnd, seenBy
  <2> QED BY <1>2, <2>1, <2>2, <2>3 DEF Exporting
<1>3. CASE Uploads
  <2>1. CASE AskRestore
    BY <2>1, BackupAssumption DEF AskRestore, seenBy, served
  <2>2. CASE StageBegin
    BY <2>2, BackupAssumption DEF StageBegin, seenBy, served
  <2>3. CASE SendPage
    BY <2>3, BackupAssumption DEF SendPage, seenBy, served
  <2>4. CASE StagePage
    BY <2>4, BackupAssumption DEF StagePage, seenBy, served
  <2>5. CASE StageStops
    BY <2>5, BackupAssumption DEF StageStops, seenBy, served
  <2>6. CASE StageUnserved
    BY <2>6, BackupAssumption DEF StageUnserved, seenBy, served
  <2>7. CASE StageFinish
    BY <2>7, BackupAssumption DEF StageFinish, seenBy, served
  <2>8. CASE StageAbort
    BY <2>8, BackupAssumption DEF StageAbort, seenBy, served
  <2> QED BY <1>3, <2>1, <2>2, <2>3, <2>4, <2>5, <2>6, <2>7, <2>8 DEF Uploads
<1>4. CASE CutOff
  BY <1>4, BackupAssumption DEF CutOff, Forgotten
<1>5. CASE RestartForRestore
  BY <1>5, BackupAssumption DEF RestartForRestore, Forgotten
<1>6. CASE StartBoard
  BY <1>6, BackupAssumption DEF StartBoard, seenBy
<1>7. CASE Applying
  <2>1. CASE ApplyBegin
    BY <2>1, BackupAssumption DEF ApplyBegin
  <2>2. CASE WriteShades
    BY <2>2, BackupAssumption DEF WriteShades, seenBy, Graft, Carried
  <2>3. CASE WriteEstate
    BY <2>3, BackupAssumption DEF WriteEstate
  <2>4. CASE ApplyFails
    BY <2>4, BackupAssumption DEF ApplyFails
  <2>5. CASE RecordOutcome
    BY <2>5, BackupAssumption DEF RecordOutcome, Forgotten
  <2> QED BY <1>7, <2>1, <2>2, <2>3, <2>4, <2>5 DEF Applying
<1> QED BY <1>1, <1>2, <1>3, <1>4, <1>5, <1>6, <1>7 DEF BackupNext

\* So does the count of faults.
LEMMA FaultStep ==
    ASSUME BackupInv, BackupNext
    PROVE  FaultTypes'
<1> USE DEF BackupInv, FaultTypes
<1>1. CASE Living
  <2>1. CASE PressShade
    BY <2>1 DEF PressShade
  <2>2. CASE EditTable
    BY <2>2 DEF EditTable
  <2>3. CASE PersistRows
    BY <2>3 DEF PersistRows
  <2>4. CASE Replace
    BY <2>4 DEF Replace, Failure
  <2> QED BY <1>1, <2>1, <2>2, <2>3, <2>4 DEF Living
<1>2. CASE Exporting
  <2>1. CASE ExportBegin
    BY <2>1 DEF ExportBegin
  <2>2. CASE ExportChunk
    BY <2>2 DEF ExportChunk
  <2>3. CASE ExportEnd
    BY <2>3 DEF ExportEnd
  <2> QED BY <1>2, <2>1, <2>2, <2>3 DEF Exporting
<1>3. CASE Uploads
  <2>1. CASE AskRestore
    BY <2>1 DEF AskRestore
  <2>2. CASE StageBegin
    BY <2>2 DEF StageBegin
  <2>3. CASE SendPage
    BY <2>3 DEF SendPage
  <2>4. CASE StagePage
    BY <2>4 DEF StagePage, Failure
  <2>5. CASE StageStops
    BY <2>5 DEF StageStops
  <2>6. CASE StageUnserved
    BY <2>6 DEF StageUnserved, Failure
  <2>7. CASE StageFinish
    <3>1. UNCHANGED faulted \/ Failure
      BY <2>7, Zenon DEF StageFinish
    <3> QED BY <3>1 DEF Failure
  <2>8. CASE StageAbort
    BY <2>8 DEF StageAbort
  <2> QED BY <1>3, <2>1, <2>2, <2>3, <2>4, <2>5, <2>6, <2>7, <2>8 DEF Uploads
<1>4. CASE CutOff
  BY <1>4 DEF CutOff, Failure
<1>5. CASE RestartForRestore
  BY <1>5 DEF RestartForRestore
<1>6. CASE StartBoard
  BY <1>6 DEF StartBoard
<1>7. CASE Applying
  <2>1. CASE ApplyBegin
    BY <2>1 DEF ApplyBegin
  <2>2. CASE WriteShades
    BY <2>2 DEF WriteShades
  <2>3. CASE WriteEstate
    BY <2>3 DEF WriteEstate
  <2>4. CASE ApplyFails
    BY <2>4 DEF ApplyFails, Failure
  <2>5. CASE RecordOutcome
    BY <2>5 DEF RecordOutcome, Failure
  <2> QED BY <1>7, <2>1, <2>2, <2>3, <2>4, <2>5 DEF Applying
<1> QED BY <1>1, <1>2, <1>3, <1>4, <1>5, <1>6, <1>7 DEF BackupNext

\* So do the staged file, the state of the board and the client.
LEMMA StageStep ==
    ASSUME BackupInv, BackupNext
    PROVE  StageTypes'
<1> USE DEF BackupInv, StageTypes
<1>1. CASE Living
  <2>1. CASE PressShade
    BY <2>1, BackupAssumption DEF PressShade, restoring, uploading
  <2>2. CASE EditTable
    BY <2>2, BackupAssumption DEF EditTable, restoring, uploading
  <2>3. CASE PersistRows
    BY <2>3, BackupAssumption DEF PersistRows, restoring, uploading
  <2>4. CASE Replace
    BY <2>4, BackupAssumption DEF Replace
  <2> QED BY <1>1, <2>1, <2>2, <2>3, <2>4 DEF Living
<1>2. CASE Exporting
  <2>1. CASE ExportBegin
    BY <2>1, BackupAssumption DEF ExportBegin, restoring, uploading
  <2>2. CASE ExportChunk
    BY <2>2, BackupAssumption DEF ExportChunk, restoring, uploading
  <2>3. CASE ExportEnd
    BY <2>3, BackupAssumption DEF ExportEnd, restoring, uploading
  <2> QED BY <1>2, <2>1, <2>2, <2>3 DEF Exporting
<1>3. CASE Uploads
  <2>1. CASE AskRestore
    BY <2>1, BackupAssumption DEF AskRestore, restoring, served
  <2>2. CASE StageBegin
    BY <2>2, BackupAssumption DEF StageBegin, served, Stage
  <2>3. CASE SendPage
    BY <2>3, BackupAssumption DEF SendPage, restoring, served
  <2>4. CASE StagePage
    BY <2>4, BackupAssumption DEF StagePage, served
  <2>5. CASE StageStops
    BY <2>5, BackupAssumption DEF StageStops, restoring, served
  <2>6. CASE StageUnserved
    BY <2>6, BackupAssumption DEF StageUnserved, restoring, served
  <2>7. CASE StageFinish
    <3>1. /\ client' = "idle" /\ writing' = PAGES + 1 /\ UNCHANGED <<at, staged>>
          /\ stage' \in {"staged", stage}
      BY <2>7, Zenon DEF StageFinish, served
    <3> QED BY <3>1, BackupAssumption
  <2>8. CASE StageAbort
    BY <2>8, BackupAssumption DEF StageAbort, served
  <2> QED BY <1>3, <2>1, <2>2, <2>3, <2>4, <2>5, <2>6, <2>7, <2>8 DEF Uploads
<1>4. CASE CutOff
  BY <1>4, BackupAssumption DEF CutOff, Forgotten
<1>5. CASE RestartForRestore
  BY <1>5, BackupAssumption DEF RestartForRestore, Forgotten
<1>6. CASE StartBoard
  BY <1>6, BackupAssumption DEF StartBoard, restoring, uploading
<1>7. CASE Applying
  <2>1. CASE ApplyBegin
    BY <2>1, BackupAssumption DEF ApplyBegin, restoring, uploading
  <2>2. CASE WriteShades
    BY <2>2, BackupAssumption DEF WriteShades, restoring, uploading, AfterShades
  <2>3. CASE WriteEstate
    BY <2>3, BackupAssumption DEF WriteEstate, restoring, uploading
  <2>4. CASE ApplyFails
    BY <2>4, BackupAssumption DEF ApplyFails, restoring, uploading
  <2>5. CASE RecordOutcome
    BY <2>5, BackupAssumption DEF RecordOutcome, Forgotten, Settle
  <2> QED BY <1>7, <2>1, <2>2, <2>3, <2>4, <2>5 DEF Applying
<1> QED BY <1>1, <1>2, <1>3, <1>4, <1>5, <1>6, <1>7 DEF BackupNext

\* So do the flags.
LEMMA FlagStep ==
    ASSUME BackupInv, BackupNext
    PROVE  FlagTypes'
<1> USE DEF BackupInv, FlagTypes
<1>1. CASE Living
  <2>1. CASE PressShade
    BY <2>1, Zenon DEF PressShade, exporting, uploading, seenBy
  <2>2. CASE EditTable
    BY <2>2, Zenon DEF EditTable, uploading, seenBy
  <2>3. CASE PersistRows
    BY <2>3, Zenon DEF PersistRows, exporting, uploading, seenBy
  <2>4. CASE Replace
    BY <2>4, Zenon DEF Replace, exporting, seenBy
  <2> QED BY <1>1, <2>1, <2>2, <2>3, <2>4 DEF Living
<1>2. CASE Exporting
  <2>1. CASE ExportBegin
    BY <2>1, Zenon DEF ExportBegin, uploading, seenBy
  <2>2. CASE ExportChunk
    BY <2>2, Zenon DEF ExportChunk, uploading, seenBy
  <2>3. CASE ExportEnd
    BY <2>3, Zenon DEF ExportEnd, uploading, seenBy
  <2> QED BY <1>2, <2>1, <2>2, <2>3 DEF Exporting
<1>3. CASE Uploads
  <2>1. CASE AskRestore
    BY <2>1, Zenon DEF AskRestore, exporting, seenBy, served
  <2>2. CASE StageBegin
    BY <2>2, Zenon DEF StageBegin, exporting, seenBy, served
  <2>3. CASE SendPage
    BY <2>3, Zenon DEF SendPage, exporting, seenBy, served
  <2>4. CASE StagePage
    BY <2>4, Zenon DEF StagePage, exporting, seenBy, served
  <2>5. CASE StageStops
    BY <2>5, Zenon DEF StageStops, exporting, seenBy, served
  <2>6. CASE StageUnserved
    BY <2>6, Zenon DEF StageUnserved, exporting, seenBy, served
  <2>7. CASE StageFinish
    BY <2>7, Zenon DEF StageFinish, exporting, seenBy, served
  <2>8. CASE StageAbort
    BY <2>8, Zenon DEF StageAbort, exporting, seenBy, served
  <2> QED BY <1>3, <2>1, <2>2, <2>3, <2>4, <2>5, <2>6, <2>7, <2>8 DEF Uploads
<1>4. CASE CutOff
  BY <1>4, Zenon DEF CutOff, Forgotten
<1>5. CASE RestartForRestore
  BY <1>5, Zenon DEF RestartForRestore, Forgotten
<1>6. CASE StartBoard
  BY <1>6, Zenon DEF StartBoard, exporting, uploading, seenBy
<1>7. CASE Applying
  <2>1. CASE ApplyBegin
    BY <2>1, Zenon DEF ApplyBegin, exporting, uploading
  <2>2. CASE WriteShades
    BY <2>2, Zenon DEF WriteShades, exporting, uploading, seenBy
  <2>3. CASE WriteEstate
    BY <2>3, Zenon DEF WriteEstate, exporting, uploading
  <2>4. CASE ApplyFails
    BY <2>4, Zenon DEF ApplyFails, exporting, uploading
  <2>5. CASE RecordOutcome
    BY <2>5, Zenon DEF RecordOutcome, Forgotten
  <2> QED BY <1>7, <2>1, <2>2, <2>3, <2>4, <2>5 DEF Applying
<1> QED BY <1>1, <1>2, <1>3, <1>4, <1>5, <1>6, <1>7 DEF BackupNext

\* Pages are written one after the other, and only a whole file is staged.
LEMMA StagingStep ==
    ASSUME BackupInv, BackupNext
    PROVE  Staging'
<1> USE DEF BackupInv, Staging
<1>1. CASE Living
  <2>1. CASE PressShade
    BY <2>1, BackupAssumption DEF PressShade, restoring, uploading
  <2>2. CASE EditTable
    BY <2>2, BackupAssumption DEF EditTable, restoring, uploading
  <2>3. CASE PersistRows
    BY <2>3, BackupAssumption DEF PersistRows, restoring, uploading
  <2>4. CASE Replace
    BY <2>4, BackupAssumption DEF Replace
  <2> QED BY <1>1, <2>1, <2>2, <2>3, <2>4 DEF Living
<1>2. CASE Exporting
  <2>1. CASE ExportBegin
    BY <2>1, BackupAssumption DEF ExportBegin, restoring, uploading
  <2>2. CASE ExportChunk
    BY <2>2, BackupAssumption DEF ExportChunk, restoring, uploading
  <2>3. CASE ExportEnd
    BY <2>3, BackupAssumption DEF ExportEnd, restoring, uploading
  <2> QED BY <1>2, <2>1, <2>2, <2>3 DEF Exporting
<1>3. CASE Uploads
  <2>1. CASE AskRestore
    BY <2>1, BackupAssumption DEF AskRestore, restoring, served
  <2>2. CASE StageBegin
    BY <2>2, BackupAssumption DEF StageBegin, served, Stage
  <2>3. CASE SendPage
    BY <2>3, BackupAssumption DEF SendPage, restoring, served
  <2>4. CASE StagePage
    BY <2>4, BackupAssumption DEF StagePage, served
  <2>5. CASE StageStops
    BY <2>5, BackupAssumption DEF StageStops, restoring, served
  <2>6. CASE StageUnserved
    BY <2>6, BackupAssumption DEF StageUnserved, restoring, served
  <2>7. CASE StageFinish
    BY <2>7, BackupAssumption DEF StageFinish
  <2>8. CASE StageAbort
    BY <2>8, BackupAssumption DEF StageAbort
  <2> QED BY <1>3, <2>1, <2>2, <2>3, <2>4, <2>5, <2>6, <2>7, <2>8 DEF Uploads
<1>4. CASE CutOff
  BY <1>4, BackupAssumption DEF CutOff, Forgotten
<1>5. CASE RestartForRestore
  BY <1>5, BackupAssumption DEF RestartForRestore, Forgotten
<1>6. CASE StartBoard
  BY <1>6, BackupAssumption DEF StartBoard, restoring, uploading
<1>7. CASE Applying
  <2>1. CASE ApplyBegin
    BY <2>1, BackupAssumption DEF ApplyBegin, restoring, uploading
  <2>2. CASE WriteShades
    BY <2>2, BackupAssumption DEF WriteShades, restoring, uploading
  <2>3. CASE WriteEstate
    BY <2>3, BackupAssumption DEF WriteEstate, restoring, uploading
  <2>4. CASE ApplyFails
    BY <2>4, BackupAssumption DEF ApplyFails, restoring, uploading
  <2>5. CASE RecordOutcome
    BY <2>5, BackupAssumption DEF RecordOutcome, Forgotten, Settle
  <2> QED BY <1>7, <2>1, <2>2, <2>3, <2>4, <2>5 DEF Applying
<1> QED BY <1>1, <1>2, <1>3, <1>4, <1>5, <1>6, <1>7 DEF BackupNext

\* The two records of a table part only while the file of the restore can be read again.
LEMMA TogetherStep ==
    ASSUME BackupInv, BackupNext
    PROVE  Together'
<1> USE DEF BackupInv, Together, Staging
<1>1. CASE Living
  <2>1. CASE PressShade
    BY <2>1 DEF PressShade, seenBy, Edit
  <2>2. CASE EditTable
    BY <2>2 DEF EditTable, seenBy, Edit
  <2>3. CASE PersistRows
    BY <2>3 DEF PersistRows, seenBy
  <2>4. CASE Replace
    BY <2>4 DEF Replace
  <2> QED BY <1>1, <2>1, <2>2, <2>3, <2>4 DEF Living
<1>2. CASE Exporting
  <2>1. CASE ExportBegin
    BY <2>1 DEF ExportBegin, seenBy
  <2>2. CASE ExportChunk
    BY <2>2 DEF ExportChunk, seenBy
  <2>3. CASE ExportEnd
    BY <2>3 DEF ExportEnd, seenBy
  <2> QED BY <1>2, <2>1, <2>2, <2>3 DEF Exporting
<1>3. CASE Uploads
  <2>1. CASE AskRestore
    BY <2>1 DEF AskRestore, seenBy, served
  <2>2. CASE StageBegin
    BY <2>2 DEF StageBegin, seenBy, served
  <2>3. CASE SendPage
    BY <2>3 DEF SendPage, seenBy, served
  <2>4. CASE StagePage
    BY <2>4 DEF StagePage, seenBy, served
  <2>5. CASE StageStops
    BY <2>5 DEF StageStops, seenBy, served
  <2>6. CASE StageUnserved
    BY <2>6 DEF StageUnserved, seenBy, served
  <2>7. CASE StageFinish
    BY <2>7 DEF StageFinish, seenBy, served
  <2>8. CASE StageAbort
    BY <2>8 DEF StageAbort, seenBy, served
  <2> QED BY <1>3, <2>1, <2>2, <2>3, <2>4, <2>5, <2>6, <2>7, <2>8 DEF Uploads
<1>4. CASE CutOff
  BY <1>4 DEF CutOff, Forgotten, Reads
<1>5. CASE RestartForRestore
  BY <1>5 DEF RestartForRestore, Forgotten
<1>6. CASE StartBoard
  BY <1>6 DEF StartBoard, seenBy
<1>7. CASE Applying
  <2>1. CASE ApplyBegin
    BY <2>1 DEF ApplyBegin, exporting, restoring, Reads
  <2>2. CASE WriteShades
    BY <2>2 DEF WriteShades, exporting, restoring, AfterShades, Reads
  <2>3. CASE WriteEstate
    BY <2>3 DEF WriteEstate
  <2>4. CASE ApplyFails
    BY <2>4 DEF ApplyFails
  <2>5. CASE RecordOutcome
    BY <2>5 DEF RecordOutcome, Forgotten
  <2> QED BY <1>7, <2>1, <2>2, <2>3, <2>4, <2>5 DEF Applying
<1> QED BY <1>1, <1>2, <1>3, <1>4, <1>5, <1>6, <1>7 DEF BackupNext

\* Nothing of a file is restored before there is one.
LEMMA NotYetStep ==
    ASSUME BackupInv, BackupNext
    PROVE  NotYet'
<1> USE DEF BackupInv, NotYet, NoExport, TableTypes, SavedRecords, Codes
<1>1. CASE Living
  <2>1. CASE PressShade
    BY <2>1, ChunksReach DEF PressShade, exporting, restoring, uploading
  <2>2. CASE EditTable
    BY <2>2, ChunksReach DEF EditTable, restoring, uploading
  <2>3. CASE PersistRows
    BY <2>3, ChunksReach DEF PersistRows, exporting, restoring, uploading
  <2>4. CASE Replace
    BY <2>4, ChunksReach DEF Replace, exporting
  <2> QED BY <1>1, <2>1, <2>2, <2>3, <2>4 DEF Living
<1>2. CASE Exporting
  <2>1. CASE ExportBegin
    BY <2>1, ChunksReach DEF ExportBegin, restoring, uploading
  <2>2. CASE ExportChunk
    BY <2>2, ChunksReach DEF ExportChunk, restoring, uploading
  <2>3. CASE ExportEnd
    BY <2>3, ChunksReach DEF ExportEnd, restoring, uploading
  <2> QED BY <1>2, <2>1, <2>2, <2>3 DEF Exporting
<1>3. CASE Uploads
  <2>1. CASE AskRestore
    BY <2>1, ChunksReach DEF AskRestore, exporting, served
  <2>2. CASE StageBegin
    BY <2>2, ChunksReach DEF StageBegin, exporting, served
  <2>3. CASE SendPage
    BY <2>3, ChunksReach DEF SendPage, exporting, served
  <2>4. CASE StagePage
    BY <2>4, ChunksReach DEF StagePage, exporting, served
  <2>5. CASE StageStops
    BY <2>5, ChunksReach DEF StageStops, exporting, served
  <2>6. CASE StageUnserved
    BY <2>6, ChunksReach DEF StageUnserved, exporting, served
  <2>7. CASE StageFinish
    BY <2>7, ChunksReach DEF StageFinish, exporting, served
  <2>8. CASE StageAbort
    BY <2>8, ChunksReach DEF StageAbort, exporting, served
  <2> QED BY <1>3, <2>1, <2>2, <2>3, <2>4, <2>5, <2>6, <2>7, <2>8 DEF Uploads
<1>4. CASE CutOff
  BY <1>4, ChunksReach DEF CutOff, Forgotten
<1>5. CASE RestartForRestore
  BY <1>5, ChunksReach DEF RestartForRestore, Forgotten
<1>6. CASE StartBoard
  BY <1>6, ChunksReach DEF StartBoard, exporting, restoring, uploading
<1>7. CASE Applying
  <2>1. CASE ApplyBegin
    BY <2>1, ChunksReach DEF ApplyBegin, exporting
  <2>2. CASE WriteShades
    BY <2>2, ChunksReach DEF WriteShades, exporting
  <2>3. CASE WriteEstate
    BY <2>3, ChunksReach DEF WriteEstate, exporting
  <2>4. CASE ApplyFails
    BY <2>4, ChunksReach DEF ApplyFails, exporting
  <2>5. CASE RecordOutcome
    BY <2>5, ChunksReach DEF RecordOutcome, Forgotten
  <2> QED BY <1>7, <2>1, <2>2, <2>3, <2>4, <2>5 DEF Applying
<1> QED BY <1>1, <1>2, <1>3, <1>4, <1>5, <1>6, <1>7 DEF BackupNext

\* The export walks the table in its order and sends each code no lower than it was.
LEMMA WalkingStep ==
    ASSUME BackupInv, BackupNext
    PROVE  Walking'
<1> USE DEF BackupInv, Walking, NotYet, TableTypes, ExportTypes, Files, Codes
<1>1. CASE Living
  <2>1. CASE PressShade
    <3>1. Sent' = Sent /\ UNCHANGED <<table, saved, export, edited>>
      BY <2>1 DEF PressShade, exporting, Sent
    <3> QED BY <2>1, <3>1, CodesRise
  <2>2. CASE EditTable
    <3>1. Sent' = Sent /\ UNCHANGED export /\ edited' = (edited \/ export.at # NoExport)
      BY <2>2 DEF EditTable, Sent
    <3> QED BY <3>1
  <2>3. CASE PersistRows
    <3>1. Sent' = Sent /\ UNCHANGED <<table, code, export, edited>> /\ saved.table # table
      BY <2>3 DEF PersistRows, exporting, Sent
    <3> QED BY <3>1
  <2>4. CASE Replace
    BY <2>4 DEF Replace, exporting
  <2> QED BY <1>1, <2>1, <2>2, <2>3, <2>4 DEF Living
<1>2. CASE Exporting
  <2>1. CASE ExportBegin
    <3>1. /\ export'.at = 1 /\ export'.file.got = 0 /\ export'.file.count = Cardinality(Listed)
          /\ export'.file.table = saved.table /\ export'.file.first = code
          /\ edited' = (saved.table # table) /\ UNCHANGED <<table, saved, code>>
      BY <2>1, ChunksReach DEF ExportBegin, EmptyFile, exporting
    <3>2. Sent' = 0
      BY <3>1, BackupAssumption DEF Sent
    <3>3. Listed = table
      BY <2>1 DEF ExportBegin, Listed
    <3>5. \A a \in table : code[a] \in Nat /\ code[a] # 0 /\ a \in Addresses
      BY <2>1, BackupAssumption DEF ExportBegin
    <3>6. \A a \in table : ~(Rank(table, a) <= 0)
      BY TableRanks
    <3>7. export'.file.got <= Sent' /\ export'.file.got <= export'.file.count
      BY <3>1, <3>2, <3>3, TableRanks
    <3>8. ~edited' => saved.table = table
      BY <3>1, Zenon
    <3>9. ASSUME ~edited', NEW a \in table
          PROVE  /\ 1 <= export'.file.first[a] /\ export'.file.first[a] <= code[a]
                 /\ ~(Rank(table, a) <= Sent')
      BY <3>1, <3>2, <3>5, <3>6
    <3> QED BY <3>1, <3>3, <3>7, <3>8, <3>9
  <2>2. CASE ExportChunk
    <3> DEFINE Entries == {a \in Listed : InChunk(a, export.at) /\ Place(a) <= export.file.count}
    <3>1. /\ export.at \in Nat /\ export.at >= 1 /\ export'.at = export.at + 1
          /\ export.at # NoExport
          /\ export'.file.got = export.file.got + Cardinality(Entries)
          /\ export'.file.codes = [a \in Addresses |-> IF a \in Entries THEN code[a]
                                                       ELSE export.file.codes[a]]
          /\ UNCHANGED <<table, saved, code, edited>>
          /\ export'.file.table = export.file.table /\ export'.file.count = export.file.count
          /\ export'.file.first = export.file.first
      <4>1. export.at \in Nat /\ export.at >= 1 /\ export.at # NoExport
        BY <2>2, ChunksReach DEF ExportChunk, NoExport
      <4>2. export' = [at |-> export.at + 1,
                       file |-> [export.file EXCEPT
                         !.codes = [a \in Addresses |-> IF a \in Entries THEN code[a] ELSE @[a]],
                         !.got = @ + Cardinality(Entries)]]
        BY <2>2, Zenon DEF ExportChunk
      <4>3. UNCHANGED <<table, saved, code, edited>>
        BY <2>2 DEF ExportChunk
      <4> HIDE DEF Entries
      <4> QED BY <4>1, <4>2, <4>3
    <3>2. /\ Sent \in Nat /\ Sent' = Sent + PER_CHUNK /\ Sent + PER_CHUNK \in Nat
          /\ Sent + PER_CHUNK = export.at * PER_CHUNK /\ Sent < Sent + PER_CHUNK
      BY <3>1, NextChunk, BackupAssumption DEF Sent
    <3>3. Listed \in SUBSET Addresses /\ \A a : Place(a) = Rank(Listed, a)
      BY DEF Listed, Place, Rank
    <3>4. Entries = {a \in Listed : Rank(Listed, a) \in Sent + 1..Sent + PER_CHUNK
                                    /\ Rank(Listed, a) <= export.file.count}
      BY <3>2, <3>3 DEF InChunk, Sent
    <3> HIDE DEF Entries
    <3>5. export.file.count \in Nat /\ export.file.got \in Nat
      BY BackupAssumption
    <3>6. /\ Cardinality(Entries) \in Nat
          /\ export.file.count <= Sent => Cardinality(Entries) = 0
          /\ Sent < export.file.count => Sent + Cardinality(Entries) <= export.file.count
                                         /\ Sent + Cardinality(Entries) <= Sent + PER_CHUNK
      <4> DEFINE hi == Sent + PER_CHUNK
                 c == export.file.count
      <4>1. hi \in Nat /\ Sent \in Nat /\ c \in Nat /\ Listed \in SUBSET Addresses
        BY <3>2, <3>3, <3>5
      <4>2. Entries = Between(Listed, Sent, hi, c)
        BY <3>4 DEF Between
      <4> QED BY <3>2, <4>1, <4>2, RanksBetween
    <3>7. export'.file.got <= Sent' /\ export'.file.got <= export'.file.count
      BY <3>1, <3>2, <3>5, <3>6, BackupAssumption
    <3>8. ASSUME ~edited, NEW a \in table, Rank(table, a) <= Sent'
          PROVE  export.file.first[a] <= export'.file.codes[a]
      <4>1. Listed = table
        BY <3>1 DEF Listed
      <4>3. a \in Entries \/ (Rank(table, a) <= Sent /\ a \notin Entries)
        BY <3>1, <3>2, <3>4, <3>8, <4>1, TableRanks
      <4>4. export.file.first[a] <= code[a] /\ a \in Addresses
        BY <3>1, <3>8
      <4>5. CASE a \in Entries
        BY <3>1, <4>4, <4>5
      <4>6. CASE Rank(table, a) <= Sent /\ a \notin Entries
        BY <3>1, <3>8, <4>4, <4>6
      <4> QED BY <4>3, <4>5, <4>6
    <3> QED BY <3>1, <3>7, <3>8
  <2>3. CASE ExportEnd
    BY <2>3 DEF ExportEnd
  <2> QED BY <1>2, <2>1, <2>2, <2>3 DEF Exporting
<1>3. CASE Uploads
  <2>1. CASE AskRestore
    BY <2>1 DEF AskRestore, exporting, served
  <2>2. CASE StageBegin
    BY <2>2 DEF StageBegin, exporting, served
  <2>3. CASE SendPage
    BY <2>3 DEF SendPage, exporting, served
  <2>4. CASE StagePage
    BY <2>4 DEF StagePage, exporting, served
  <2>5. CASE StageStops
    BY <2>5 DEF StageStops, exporting, served
  <2>6. CASE StageUnserved
    BY <2>6 DEF StageUnserved, exporting, served
  <2>7. CASE StageFinish
    BY <2>7 DEF StageFinish, exporting, served
  <2>8. CASE StageAbort
    BY <2>8 DEF StageAbort, exporting, served
  <2> QED BY <1>3, <2>1, <2>2, <2>3, <2>4, <2>5, <2>6, <2>7, <2>8 DEF Uploads
<1>4. CASE CutOff
  BY <1>4 DEF CutOff, Forgotten
<1>5. CASE RestartForRestore
  BY <1>5 DEF RestartForRestore, Forgotten
<1>6. CASE StartBoard
  BY <1>6 DEF StartBoard, exporting
<1>7. CASE Applying
  <2>1. CASE ApplyBegin
    BY <2>1 DEF ApplyBegin, exporting
  <2>2. CASE WriteShades
    BY <2>2 DEF WriteShades, exporting
  <2>3. CASE WriteEstate
    BY <2>3 DEF WriteEstate, exporting
  <2>4. CASE ApplyFails
    BY <2>4 DEF ApplyFails, exporting
  <2>5. CASE RecordOutcome
    BY <2>5 DEF RecordOutcome, Forgotten
  <2> QED BY <1>7, <2>1, <2>2, <2>3, <2>4, <2>5 DEF Applying
<1> QED BY <1>1, <1>2, <1>3, <1>4, <1>5, <1>6, <1>7 DEF BackupNext

\* The export and the file keep their types.
LEMMA ExportStep ==
    ASSUME BackupInv, BackupNext
    PROVE  ExportTypes'
<1> USE DEF BackupInv, ExportTypes
<1>1. CASE Living
  <2>1. CASE PressShade
    BY <2>1, NoFile DEF PressShade, exporting
  <2>2. CASE EditTable
    BY <2>2, NoFile DEF EditTable
  <2>3. CASE PersistRows
    BY <2>3, NoFile DEF PersistRows, exporting
  <2>4. CASE Replace
    BY <2>4, NoFile DEF Replace, exporting
  <2> QED BY <1>1, <2>1, <2>2, <2>3, <2>4 DEF Living
<1>2. CASE Exporting
  <2>1. CASE ExportBegin
    <3>1. Listed \in SUBSET Addresses /\ Cardinality(Listed) \in 0..N
      BY Ranks DEF TableTypes, Listed
    <3>2. [EmptyFile EXCEPT !.table = saved.table, !.seed = saved.seed,
                            !.count = Cardinality(Listed),
                            !.first = code, !.fresh = saved.table = table] \in Files
      BY <3>1, NoFile DEF TableTypes, SavedRecords, Files
    <3>3. UNCHANGED file /\ 1 \in 1..NoExport
      BY <2>1, ChunksReach DEF ExportBegin, NoExport
    <3> QED BY <2>1, <3>2, <3>3 DEF ExportBegin
  <2>2. CASE ExportChunk
    <3> DEFINE Entries == {a \in Listed : InChunk(a, export.at) /\ Place(a) <= export.file.count}
               sent == [export.file EXCEPT
                          !.codes = [a \in Addresses |-> IF a \in Entries THEN code[a] ELSE @[a]],
                          !.got = @ + Cardinality(Entries)]
    <3>1. export' = [at |-> export.at + 1, file |-> sent] /\ UNCHANGED file
      BY <2>2, Zenon DEF ExportChunk
    <3>2. Entries \in SUBSET Addresses /\ Cardinality(Entries) \in Nat
      BY Ranks DEF TableTypes, Listed
    <3>3. export.at + 1 \in 1..NoExport /\ export.at + 1 # NoExport
      BY <2>2, ChunksReach, SMTT(60) DEF ExportChunk, NoExport
    <3> HIDE DEF Entries
    <3>4. export.file.got + Cardinality(Entries) <= export.file.count
      BY <3>1, <3>3, WalkingStep, Zenon DEF Walking, Files
    <3>5. [a \in Addresses |-> IF a \in Entries THEN code[a] ELSE export.file.codes[a]] \in Codes
      BY DEF TableTypes, Codes, Files
    <3>6. export.file.got + Cardinality(Entries) \in 0..N
      BY <3>2, <3>4, BackupAssumption DEF Files
    <3>7. sent \in Files
      BY <3>5, <3>6 DEF Files
    <3> QED BY <3>1, <3>3, <3>7
  <2>3. CASE ExportEnd
    BY <2>3, NoFile DEF ExportEnd
  <2> QED BY <1>2, <2>1, <2>2, <2>3 DEF Exporting
<1>3. CASE Uploads
  <2>1. CASE AskRestore
    BY <2>1, NoFile DEF AskRestore, exporting, served
  <2>2. CASE StageBegin
    BY <2>2, NoFile DEF StageBegin, exporting, served
  <2>3. CASE SendPage
    BY <2>3, NoFile DEF SendPage, exporting, served
  <2>4. CASE StagePage
    BY <2>4, NoFile DEF StagePage, exporting, served
  <2>5. CASE StageStops
    BY <2>5, NoFile DEF StageStops, exporting, served
  <2>6. CASE StageUnserved
    BY <2>6, NoFile DEF StageUnserved, exporting, served
  <2>7. CASE StageFinish
    BY <2>7, NoFile DEF StageFinish, exporting, served
  <2>8. CASE StageAbort
    BY <2>8, NoFile DEF StageAbort, exporting, served
  <2> QED BY <1>3, <2>1, <2>2, <2>3, <2>4, <2>5, <2>6, <2>7, <2>8 DEF Uploads
<1>4. CASE CutOff
  BY <1>4, NoFile DEF CutOff, Forgotten
<1>5. CASE RestartForRestore
  BY <1>5, NoFile DEF RestartForRestore, Forgotten
<1>6. CASE StartBoard
  BY <1>6, NoFile DEF StartBoard, exporting
<1>7. CASE Applying
  <2>1. CASE ApplyBegin
    BY <2>1, NoFile DEF ApplyBegin, exporting
  <2>2. CASE WriteShades
    BY <2>2, NoFile DEF WriteShades, exporting
  <2>3. CASE WriteEstate
    BY <2>3, NoFile DEF WriteEstate, exporting
  <2>4. CASE ApplyFails
    BY <2>4, NoFile DEF ApplyFails, exporting
  <2>5. CASE RecordOutcome
    BY <2>5, NoFile DEF RecordOutcome, Forgotten
  <2> QED BY <1>7, <2>1, <2>2, <2>3, <2>4, <2>5 DEF Applying
<1> QED BY <1>1, <1>2, <1>3, <1>4, <1>5, <1>6, <1>7 DEF BackupNext

\* The file of an unedited export holds codes no lower than the board had.
LEMMA FileKeepsStep ==
    ASSUME BackupInv, BackupNext
    PROVE  FileKeeps'
<1> USE DEF BackupInv, FileKeeps, EmptyFile
<1>1. CASE Living
  <2>1. CASE PressShade
    BY <2>1 DEF PressShade, exporting
  <2>2. CASE EditTable
    BY <2>2 DEF EditTable
  <2>3. CASE PersistRows
    BY <2>3 DEF PersistRows, exporting
  <2>4. CASE Replace
    BY <2>4 DEF Replace, exporting
  <2> QED BY <1>1, <2>1, <2>2, <2>3, <2>4 DEF Living
<1>2. CASE Exporting
  <2>1. CASE ExportBegin
    BY <2>1 DEF ExportBegin
  <2>2. CASE ExportChunk
    BY <2>2 DEF ExportChunk
  <2>3. CASE ExportEnd
    <3>1. export.at = Chunks /\ file' = export.file /\ edited' = edited
      BY <2>3 DEF ExportEnd
    <3>2. Sent >= N /\ export.at # NoExport
      BY <3>1, ChunksReach DEF Sent, NoExport
    <3>4. Sent \in Nat
      BY <3>1, NextChunk, ChunksReach DEF Sent
    <3>5. ~edited => \A a \in table : Rank(table, a) <= Sent
      BY <3>2, <3>4, TableRanks
    <3> QED BY <3>1, <3>2, <3>5 DEF Walking
  <2> QED BY <1>2, <2>1, <2>2, <2>3 DEF Exporting
<1>3. CASE Uploads
  <2>1. CASE AskRestore
    BY <2>1 DEF AskRestore, exporting, served
  <2>2. CASE StageBegin
    BY <2>2 DEF StageBegin, exporting, served
  <2>3. CASE SendPage
    BY <2>3 DEF SendPage, exporting, served
  <2>4. CASE StagePage
    BY <2>4 DEF StagePage, exporting, served
  <2>5. CASE StageStops
    BY <2>5 DEF StageStops, exporting, served
  <2>6. CASE StageUnserved
    BY <2>6 DEF StageUnserved, exporting, served
  <2>7. CASE StageFinish
    BY <2>7 DEF StageFinish, exporting, served
  <2>8. CASE StageAbort
    BY <2>8 DEF StageAbort, exporting, served
  <2> QED BY <1>3, <2>1, <2>2, <2>3, <2>4, <2>5, <2>6, <2>7, <2>8 DEF Uploads
<1>4. CASE CutOff
  BY <1>4 DEF CutOff, Forgotten
<1>5. CASE RestartForRestore
  BY <1>5 DEF RestartForRestore, Forgotten
<1>6. CASE StartBoard
  BY <1>6 DEF StartBoard, exporting
<1>7. CASE Applying
  <2>1. CASE ApplyBegin
    BY <2>1 DEF ApplyBegin, exporting
  <2>2. CASE WriteShades
    BY <2>2 DEF WriteShades, exporting
  <2>3. CASE WriteEstate
    BY <2>3 DEF WriteEstate, exporting
  <2>4. CASE ApplyFails
    BY <2>4 DEF ApplyFails, exporting
  <2>5. CASE RecordOutcome
    BY <2>5 DEF RecordOutcome, Forgotten
  <2> QED BY <1>7, <2>1, <2>2, <2>3, <2>4, <2>5 DEF Applying
<1> QED BY <1>1, <1>2, <1>3, <1>4, <1>5, <1>6, <1>7 DEF BackupNext

\* A board that restores the file has those codes, or seeds that will be them.
LEMMA ResumingStep ==
    ASSUME BackupInv, BackupNext
    PROVE  Resuming'
<1> USE DEF BackupInv, Resuming, NotYet, FileKeeps, TableTypes, ExportTypes, Files, Codes
<1>1. CASE Living
  <2>1. CASE PressShade
    BY <2>1 DEF PressShade, exporting, seenBy, Edit
  <2>2. CASE EditTable
    <3>1. at = "up" /\ UNCHANGED <<saved, file, had, at>>
      BY <2>2 DEF EditTable, Edit, seenBy
    <3>2. edited => edited'
      BY <2>2, Zenon DEF EditTable
    <3>3. \A a \in had : a \in Addresses
      OBVIOUS
    <3>4. \A a \in file.table : a \in Addresses /\ file.first[a] \in Nat
      BY BackupAssumption
    <3> QED BY <2>2, <3>1, <3>2, <3>3, <3>4, CodesRise
  <2>3. CASE PersistRows
    BY <2>3 DEF PersistRows, exporting, seenBy
  <2>4. CASE Replace
    BY <2>4 DEF Replace
  <2> QED BY <1>1, <2>1, <2>2, <2>3, <2>4 DEF Living
<1>2. CASE Exporting
  <2>1. CASE ExportBegin
    BY <2>1 DEF ExportBegin
  <2>2. CASE ExportChunk
    BY <2>2 DEF ExportChunk, seenBy
  <2>3. CASE ExportEnd
    <3>1. file = EmptyFile /\ saved.of = "board" /\ at = "up" /\ UNCHANGED <<saved, at>>
      BY <2>3, ChunksReach DEF ExportEnd, NoExport
    <3> QED BY <3>1
  <2> QED BY <1>2, <2>1, <2>2, <2>3 DEF Exporting
<1>3. CASE Uploads
  <2>1. CASE AskRestore
    BY <2>1 DEF AskRestore, exporting, seenBy, served
  <2>2. CASE StageBegin
    BY <2>2 DEF StageBegin, exporting, seenBy, served
  <2>3. CASE SendPage
    BY <2>3 DEF SendPage, exporting, seenBy, served
  <2>4. CASE StagePage
    BY <2>4 DEF StagePage, exporting, seenBy, served
  <2>5. CASE StageStops
    BY <2>5 DEF StageStops, exporting, seenBy, served
  <2>6. CASE StageUnserved
    BY <2>6 DEF StageUnserved, exporting, seenBy, served
  <2>7. CASE StageFinish
    BY <2>7 DEF StageFinish, exporting, seenBy, served
  <2>8. CASE StageAbort
    BY <2>8 DEF StageAbort, exporting, seenBy, served
  <2> QED BY <1>3, <2>1, <2>2, <2>3, <2>4, <2>5, <2>6, <2>7, <2>8 DEF Uploads
<1>4. CASE CutOff
  BY <1>4 DEF CutOff, Forgotten
<1>5. CASE RestartForRestore
  BY <1>5 DEF RestartForRestore, Forgotten
<1>6. CASE StartBoard
  BY <1>6 DEF StartBoard, exporting, seenBy
<1>7. CASE Applying
  <2>1. CASE ApplyBegin
    BY <2>1 DEF ApplyBegin, exporting
  <2>2. CASE WriteShades
    BY <2>2 DEF WriteShades, exporting, seenBy, AfterShades, Graft
  <2>3. CASE WriteEstate
    BY <2>3 DEF WriteEstate, exporting
  <2>4. CASE ApplyFails
    BY <2>4 DEF ApplyFails, exporting
  <2>5. CASE RecordOutcome
    BY <2>5 DEF RecordOutcome, Forgotten
  <2> QED BY <1>7, <2>1, <2>2, <2>3, <2>4, <2>5 DEF Applying
<1> QED BY <1>1, <1>2, <1>3, <1>4, <1>5, <1>6, <1>7 DEF BackupNext

\* A board that has driven its motors, and a client with no file.
LEMMA InvStarts ==
    ASSUME BackupInit
    PROVE  BackupInv
<1> USE DEF BackupInit
<1>1. TableTypes /\ FaultTypes
  BY BackupAssumption DEF TableTypes, FaultTypes, SavedRecords, Codes, Addresses
<1>3. ExportTypes /\ StageTypes
  BY NoFile, BackupAssumption DEF ExportTypes, StageTypes
<1>4. FlagTypes
  BY Zenon DEF FlagTypes
<1>5. Staging /\ Together
  BY BackupAssumption DEF Staging, Together
<1>6. NotYet
  BY BackupAssumption DEF NotYet, Addresses
<1>7. Walking /\ FileKeeps /\ Resuming
  BY DEF Walking, FileKeeps, Resuming, EmptyFile
<1> QED BY <1>1, <1>3, <1>4, <1>5, <1>6, <1>7 DEF BackupInv

\* A step of another part changes none of it.
LEMMA InvStutters ==
    ASSUME BackupInv, UNCHANGED backupVars
    PROVE  BackupInv'
<1> USE DEF BackupInv, backupVars, exporting, restoring, uploading, seenBy
<1>1. TableTypes' /\ FaultTypes' /\ ExportTypes' /\ StageTypes' /\ FlagTypes'
  BY DEF TableTypes, FaultTypes, ExportTypes, StageTypes, FlagTypes
<1>2. Staging' /\ Together' /\ NotYet' /\ FileKeeps' /\ Resuming'
  BY DEF Staging, Together, NotYet, FileKeeps, Resuming, Reads
<1>3. Walking'
  BY DEF Walking, Sent, Rank
<1> QED BY <1>1, <1>2, <1>3

\* The invariant holds of the specification.
THEOREM BackupInvariant == BackupSpec => []BackupInv
<1>1. BackupInit => BackupInv
  BY InvStarts
<1>2. BackupInv /\ [BackupNext]_backupVars => BackupInv'
  <2>1. ASSUME BackupInv, BackupNext PROVE BackupInv'
    BY <2>1, TableStep, FaultStep, StageStep, FlagStep, StagingStep, TogetherStep, NotYetStep,
       WalkingStep, ExportStep, FileKeepsStep, ResumingStep, Zenon DEF BackupInv
  <2> QED BY <2>1, InvStutters
<1> QED BY <1>1, <1>2, PTL DEF BackupSpec

\* A restore is whole, its two records are of one table, and no code goes back.
THEOREM RestoreSafety == BackupSpec => []RestoreSafe
<1>1. BackupInv => RestoreSafe
  <2> SUFFICES ASSUME BackupInv PROVE RestoreSafe
    OBVIOUS
  <2>1. {posted, asked, edited, clash} \subseteq BOOLEAN
    BY Zenon DEF BackupInv, FlagTypes
  <2>2. BackupTypeOK
    <3>1. /\ table \subseteq Addresses /\ code \in Codes /\ had \subseteq Addresses
          /\ saved.table \subseteq Addresses /\ saved.seed \in Codes
          /\ saved.announced \subseteq Addresses
          /\ saved.of \in {"board", "file"} /\ estateOf \in {"board", "file"}
      BY DEF BackupInv, TableTypes, SavedRecords
    <3>2. export.at \in 0..NoExport /\ file.codes \in Codes /\ file.got \in 0..N
      BY ChunksReach DEF BackupInv, ExportTypes, Files
    <3> QED BY <2>1, <3>1, <3>2 DEF BackupInv, StageTypes, BackupTypeOK
  <2>3. StagedWhole /\ WrittenTogether
    BY DEF BackupInv, Staging, Together, StagedWhole, WrittenTogether
  <2>4. ResumesFromFile
    BY DEF BackupInv, Resuming, ResumesFromFile
  <2> QED BY <2>2, <2>3, <2>4 DEF RestoreSafe
<1> QED BY <1>1, BackupInvariant, PTL

\* No entity of a replaced table is forgotten: whoever the record says is announced stays in it.
THEOREM EntitiesRemembered == BackupSpec => NobodyForgotten
<1>1. BackupInv /\ [BackupNext]_backupVars
          => [saved.announced \subseteq saved'.announced \/ faulted' > faulted]_backupVars
  <2> SUFFICES ASSUME BackupInv, BackupNext
               PROVE  saved.announced \subseteq saved'.announced \/ faulted' > faulted
    OBVIOUS
  <2> USE DEF BackupInv, TableTypes, FaultTypes, SavedRecords
  <2>1. CASE PersistRows
    BY <2>1 DEF PersistRows
  <2>2. CASE Replace
    BY <2>2 DEF Replace, Failure
  <2>3. CASE WriteShades
    BY <2>3 DEF WriteShades, Carried
  <2>4. ASSUME ~PersistRows, ~Replace, ~WriteShades
        PROVE  UNCHANGED saved
    BY <2>4, Zenon DEF BackupNext, Living, Exporting, Uploads, Applying, PressShade, EditTable,
       ExportBegin,
       ExportChunk, ExportEnd, AskRestore, StageBegin, SendPage, StagePage, StageStops, StageUnserved,
       StageFinish, StageAbort, CutOff, RestartForRestore, StartBoard, ApplyBegin, WriteEstate, ApplyFails,
       RecordOutcome, served
  <2> QED BY <2>1, <2>2, <2>3, <2>4
<1> QED BY <1>1, BackupInvariant, PTL DEF BackupSpec, NobodyForgotten
=============================================================================
