---------------------------- MODULE ResetProofs -----------------------------
(***************************************************************************)
(* What outlives a reset: the image that runs, and the log.                *)
(*                                                                         *)
(* What an update never does to a board, for every size of an image, every *)
(* self-test and any number of uploads and faults: it never writes the     *)
(* slot that runs, never lets an image settle that nobody proved, and does *)
(* not reset the board for ever.                                           *)
(*                                                                         *)
(* The argument is about the records of the slots.  A proved slot holds a  *)
(* whole image and a settled record, and there always is one (Proven); a   *)
(* selected slot that is not proved has a record that sends boot to a      *)
(* self-test or back (Doubted).  The resets are paid for in advance: each  *)
(* one uses up the one attempt of a power-on, an unconfirmed record or a   *)
(* self-test under way (Owing).                                            *)
(*                                                                         *)
(* What the log and the record of the last panic hold, for every size of   *)
(* the ring, every line that fits it and every place a reset can fall.     *)
(* While a line is written the ring holds a part of it, and its checksum   *)
(* is of a header before: fewer lines were dropped then, or as many and    *)
(* fewer characters held, and neither number goes back until the line is   *)
(* whole (Stale).  A ring that checks out therefore holds whole lines and  *)
(* nothing else (Resting).  A record half stored is either torn by a reset *)
(* or finished, and what each store leaves is kept by those after (Stage). *)
(***************************************************************************)
EXTENDS Update, DiagLog, FiniteSetTheorems, SequenceTheorems, WellFoundedInduction, TLAPS

Bounds == IMAGE_PAGES \in Nat \ {0} /\ WINDOW \in Nat /\ MaxMishaps \in Nat

Settled == {"blank", "undefined", "valid"}
Unconfirmed == {"new", "pending"}

\* Nothing in memory outlives a reset, and a verdict ends the self-test.
Memory ==
    /\ turns \in Nat /\ faults \in Nat
    /\ board \in {"off", "condemn", "switch"} => ~verifying
    /\ board = "off" => session = NoSession

\* The pages written and those to come are those of the image; from the first
\* on, the slot that is written has lost what it held.
PagesFit ==
    /\ handler = "begin" => sending.left = IMAGE_PAGES
    /\ session # NoSession =>
        /\ handler \in {"read", "posted", "finish"} =>
               session + sending.left + (IF lent THEN 1 ELSE 0) = IMAGE_PAGES
        /\ handler = "finish" => session = IMAGE_PAGES
        /\ session # 0 => Other(run) \notin proved

RunningWhole == content[run] \in Whole

\* No failure, and no upload during a self-test.
Clean == ~excused /\ ~overlapped

\* Some slot is proved, and boots without question.
Proven ==
    /\ proved # {}
    /\ \A s \in proved : content[s] \in Whole /\ entry[s] \in Settled

\* A selected slot that is not proved has still to be tested, unless the state
\* task is between two writes.
Doubted ==
    /\ Blank => run = 0 /\ 0 \in proved /\ session = NoSession /\ board \in {"off", "up"}
    /\ ~Blank /\ Selected \notin proved /\ board \notin {"mark", "unmark", "switch"} =>
           entry[Selected] \in Unconfirmed

\* The image that runs is proved, under its self-test or about to go.
Answered ==
    /\ board \in {"up", "mark", "unmark"} /\ ~verifying => run \in proved
    /\ board = "up" /\ verifying => Selected = run /\ run \notin proved
    /\ board = "condemn" => Selected = run /\ run \notin proved
    /\ board = "switch" => run \notin proved
    /\ session # NoSession \/ board \in {"mark", "unmark"} => ~verifying
    /\ board = "up" /\ ~Blank /\ Selected \in proved => Selected = run
    /\ board \in {"mark", "unmark"} =>
           ~Blank /\ Selected = Other(run) /\ Other(run) \notin proved

\* The resets there may still be: one for the attempt, one for the self-test or
\* the roll-back under way, one for each slot that may still get one.
Counted(s) ==
    entry[s] \in Unconfirmed /\ ~(s = Selected /\ (verifying \/ board = "condemn"))
One(P) == IF P THEN 1 ELSE 0
Left == One(attempts = 0) + One(verifying \/ board \in {"condemn", "switch"})
        + One(Counted(0)) + One(Counted(1))

Owing ==
    /\ session # NoSession \/ board \in {"mark", "unmark"} => turns = 0
    /\ turns + Left <= 3 + faults

\* UpdateTypeOK, in parts.
SlotTypes ==
    /\ content \in [Sides -> Whole \cup {"partial"}] /\ entry \in [Sides -> ImageStates]
    /\ newest \in Sides /\ run \in Sides /\ proved \subseteq Sides /\ attempts \in 0..3
    /\ board \in {"off", "up", "condemn", "switch", "mark", "unmark"}
TestTypes == soak \in 0..WINDOW /\ legs \in [{"radio", "stores", "network"} -> LegStates]
UploadTypes ==
    /\ handler \in {"idle", "begin", "read", "posted", "finish", "abort"}
    /\ sending \in [image : Whole \cup Refused, left : 0..IMAGE_PAGES]
    /\ session \in 0..NoSession
FlagTypes ==
    /\ promotes \in BOOLEAN /\ verifying \in BOOLEAN /\ lent \in BOOLEAN
    /\ restarting \in BOOLEAN /\ excused \in BOOLEAN /\ overlapped \in BOOLEAN

UpdateInv ==
    /\ SlotTypes /\ TestTypes /\ UploadTypes /\ FlagTypes
    /\ Memory /\ PagesFit /\ RunningWhole /\ Owing
    /\ Clean => Proven /\ Doubted /\ Answered

\* There are two slots.
LEMMA Slots ==
    /\ \A s \in Sides : Other(s) \in Sides /\ Other(s) # s /\ Other(Other(s)) = s
    /\ 0 \in Sides /\ 1 \in Sides /\ Other(0) = 1 /\ Other(1) = 0
    /\ \A s \in Sides : s = 0 \/ s = 1
BY DEF Sides, Other

\* The records' slots and states.
LEMMA Records ==
    ASSUME SlotTypes
    PROVE  /\ Selected \in Sides /\ Chosen \in Sides /\ Booted \in Sides /\ Other(run) \in Sides
           /\ Booted = Chosen \/ Booted = Other(Chosen)
           /\ \A s \in Sides : entry[s] \in ImageStates /\ content[s] \in Whole \cup {"partial"}
BY Slots DEF SlotTypes, Selected, Chosen, Booted

\* What the bootloader makes of the records.
LEMMA Promotes ==
    ASSUME SlotTypes
    PROVE  /\ Promoted \in [Sides -> ImageStates]
           /\ \A s \in Sides :
                 \/ Promoted[s] = entry[s]
                 \/ s = Chosen /\ GaveUp /\ entry[s] = "pending" /\ Promoted[s] = "aborted"
                 \/ s = Chosen /\ s = Booted /\ entry[s] = "new" /\ Promoted[s] = "pending"
<1>1. CASE GaveUp
  BY <1>1, Records DEF SlotTypes, Promoted, GaveUp, ImageStates
<1>2. CASE ~GaveUp
  BY <1>2, Records DEF SlotTypes, Promoted, ImageStates
<1> QED BY <1>1, <1>2

\* A boot runs a whole image, and has otadata select it.
LEMMA BootSelects ==
    ASSUME SlotTypes, RunningWhole, Boot
    PROVE  /\ run' = Booted /\ content[run'] \in Whole /\ run' \in Sides
           /\ entry' \in [Sides -> ImageStates] /\ newest' \in Sides
           /\ Blank => Blank' /\ (0 = run => run' = 0) /\ entry' = entry
           /\ ~Blank => ~Blank' /\ Selected' = run'
           /\ \A s \in Sides :
                 \/ entry'[s] = Promoted[s]
                 \/ s = run' /\ Promoted[s] = "blank" /\ entry'[s] = "undefined"
<1>1. run' = Booted /\ run' \in Sides
  BY Records DEF Boot
<1>2. content[run'] \in Whole
  BY <1>1, Records, Slots DEF Booted, RunningWhole, SlotTypes
<1>3. CASE Blank
  <2>1. Chosen = 0 /\ ~GaveUp /\ entry[Chosen] = "blank"
    BY <1>3, Slots DEF Chosen, GaveUp, Blank
  <2>2. Promoted = entry
    BY <2>1 DEF Promoted
  <2>3. entry' = entry /\ newest' = newest
    BY <1>3, <2>2 DEF Boot
  <2>4. 0 = run => run' = 0
    BY <1>1, <2>1 DEF Booted, RunningWhole
  <2>5. Blank'
    BY <1>3, <2>3 DEF Blank
  <2>6. /\ entry' \in [Sides -> ImageStates] /\ newest' \in Sides
        /\ \A s \in Sides : entry'[s] = Promoted[s]
    BY <2>2, <2>3 DEF SlotTypes
  <2> QED BY <1>1, <1>2, <1>3, <2>3, <2>4, <2>5, <2>6
<1>4. CASE ~Blank
  <2>1. Chosen = Selected /\ entry[Selected] # "blank"
    BY <1>4, Slots DEF Chosen, Selected, Blank, Sides, SlotTypes
  <2>2. /\ Promoted[Selected] # "blank"
        /\ \A s \in Sides : Promoted[s] = "blank" <=> entry[s] = "blank"
    BY <2>1, Promotes, Records
  <2>3. CASE Selected = Booted
    <3>1. entry' = Promoted /\ newest' = newest
      BY <1>4, <2>3 DEF Boot
    <3>2. Selected' = Selected /\ ~Blank'
      BY <3>1, <2>1, <2>2, Slots, Records DEF Selected, Blank, SlotTypes
    <3>3. /\ entry' \in [Sides -> ImageStates] /\ newest' \in Sides
          /\ \A s \in Sides : entry'[s] = Promoted[s]
      BY <3>1, Promotes DEF SlotTypes
    <3>4. Selected' = run'
      BY <1>1, <2>3, <3>2
    <3> QED BY <1>1, <1>2, <1>4, <3>2, <3>3, <3>4
  <2>4. CASE Selected # Booted
    <3>1. /\ newest' = Booted
          /\ entry' = [Promoted EXCEPT ![Booted] = IF @ = "blank" THEN "undefined" ELSE @]
      BY <1>4, <2>4 DEF Boot
    <3>2. /\ entry' \in [Sides -> ImageStates] /\ entry'[Booted] # "blank"
          /\ \A s \in Sides :
                \/ entry'[s] = Promoted[s]
                \/ s = Booted /\ Promoted[s] = "blank" /\ entry'[s] = "undefined"
      <4>1. Promoted \in [Sides -> ImageStates] /\ Booted \in Sides
        BY Promotes, Records
      <4> QED BY <3>1, <4>1 DEF ImageStates
    <3>3. Selected' = Booted /\ ~Blank'
      BY <3>1, <3>2, Records DEF Selected, Blank
    <3> QED BY <1>1, <1>2, <1>4, <3>1, <3>2, <3>3, Records
  <2> QED BY <2>3, <2>4
<1> QED BY <1>3, <1>4

\* And what follows of it.
LEMMA BootJudges ==
    ASSUME SlotTypes, Boot, NEW state, state = (IF Blank THEN "blank" ELSE entry'[run'])
    PROVE  /\ attempts' = IF state \in Unsettled /\ attempts < 3 THEN attempts + 1 ELSE attempts
           /\ attempts' \in 0..3 /\ verifying' \in BOOLEAN
           /\ \/ verifying' /\ board' = "up" /\ state \in Unconfirmed /\ attempts = 0
              \/ ~verifying' /\ board' = "condemn" /\ state \in Unsettled
                    /\ (attempts = 0 => state \notin Unconfirmed)
                    /\ (attempts # 0 => state \in Unconfirmed)
              \/ ~verifying' /\ board' = "up" /\ (attempts # 0 \/ state \notin Unsettled)
                    /\ state \notin Unconfirmed
<1>1. state \in ImageStates
  BY Promotes, Records DEF Boot, SlotTypes, ImageStates, Select
<1>2. /\ board' = IF Verdict(state, attempts) = "roll back" THEN "condemn" ELSE "up"
      /\ verifying' <=> Verdict(state, attempts) = "verify"
      /\ verifying' \in BOOLEAN
  <2>1. Survey(state)
    BY DEF Boot
  <2> QED BY <2>1, Zenon DEF Survey
<1>3. /\ attempts' = IF state \in Unsettled /\ attempts < 3 THEN attempts + 1 ELSE attempts
      /\ attempts' \in 0..3
  <2>1. attempts' = IF state \in Unsettled /\ attempts < 3 THEN attempts + 1 ELSE attempts
    BY Zenon DEF Boot, Survey
  <2> QED BY <2>1 DEF SlotTypes
<1>4. CASE state \in Settled
  <2>1. /\ Verdict(state, attempts) = "settled" /\ "settled" # "verify" /\ "settled" # "roll back"
        /\ state \notin Unsettled /\ state \notin Unconfirmed
    BY <1>4 DEF Verdict, Settled, Unsettled, Unconfirmed
  <2> QED BY <1>2, <1>3, <2>1, Zenon
<1>5. CASE state \in {"invalid", "aborted"}
  <2>1. state \in Unsettled /\ state \notin Unconfirmed
    BY <1>5 DEF Unsettled, Unconfirmed
  <2>2. CASE attempts = 0
    <3>1. Verdict(state, attempts) = "roll back" /\ "roll back" # "verify"
      BY <1>5, <2>2 DEF Verdict
    <3> QED BY <1>2, <1>3, <2>1, <2>2, <3>1, Zenon
  <2>3. CASE attempts # 0
    <3>1. Verdict(state, attempts) = "settled" /\ "settled" # "verify" /\ "settled" # "roll back"
      BY <1>5, <2>3 DEF Verdict
    <3> QED BY <1>2, <1>3, <2>1, <2>3, <3>1, Zenon
  <2> QED BY <2>2, <2>3
<1>6. CASE state \in Unconfirmed
  <2>1. state \in Unsettled
    BY <1>6 DEF Unsettled, Unconfirmed
  <2>2. CASE attempts = 0
    <3>1. Verdict(state, attempts) = "verify" /\ "verify" # "roll back"
      BY <1>6, <2>2 DEF Verdict, Unconfirmed
    <3> QED BY <1>2, <1>3, <1>6, <2>1, <2>2, <3>1, Zenon
  <2>3. CASE attempts # 0
    <3>1. Verdict(state, attempts) = "roll back" /\ "roll back" # "verify"
      BY <1>6, <2>3 DEF Verdict, Unconfirmed
    <3> QED BY <1>2, <1>3, <1>6, <2>1, <2>3, <3>1, Zenon
  <2> QED BY <2>2, <2>3
<1> QED BY <1>1, <1>4, <1>5, <1>6 DEF ImageStates, Settled, Unconfirmed

\* A boot runs a proved image, or an unconfirmed one that otadata selects.
LEMMA BootKnows ==
    ASSUME SlotTypes, RunningWhole, Proven, Doubted, Boot
    PROVE  \/ run' \in proved /\ (Blank \/ entry'[run'] \in Settled)
           \/ run' \notin proved /\ ~Blank /\ entry'[run'] \in Unconfirmed
<1>1. CASE Blank
  <2>1. run = 0 /\ 0 \in proved
    BY <1>1 DEF Doubted
  <2> QED BY <1>1, <2>1, BootSelects
<1>2. CASE ~Blank
  <2>1. Chosen = Selected /\ board = "off" /\ run' = Booted /\ Booted \in Sides
    BY <1>2, Records DEF Chosen, Boot
  <2>2. \A s \in proved : s \in Sides /\ content[s] \in Whole /\ Promoted[s] = entry[s]
    BY Promotes DEF Proven, SlotTypes, Settled
  <2>3. CASE Booted \in proved
    <3>1. entry'[Booted] = Promoted[Booted] \/ entry'[Booted] = "undefined"
      BY <2>1, BootSelects
    <3>2. Promoted[Booted] \in Settled
      BY <2>2, <2>3 DEF Proven
    <3> QED BY <2>1, <2>3, <3>1, <3>2 DEF Settled
  <2>4. CASE Booted \notin proved
    <3>1. Chosen \notin proved
      BY <2>2, <2>4 DEF Proven, Settled, Booted, GaveUp
    <3>2. entry[Chosen] \in Unconfirmed
      BY <1>2, <2>1, <3>1 DEF Doubted
    <3>3. PICK p \in proved : TRUE
      BY DEF Proven
    <3>4. p = Other(Chosen) /\ content[Other(Chosen)] \in Whole
      BY <2>2, <3>1, <3>3, Records, Slots DEF Other
    <3>5. Booted = Chosen /\ ~GaveUp
      BY <2>4, <3>3, <3>4, Records DEF Booted
    <3>6. Promoted[Chosen] \in Unconfirmed
      BY <3>2, <3>5, Promotes, Records DEF Unconfirmed
    <3>7. entry'[Booted] = Promoted[Booted] \/ Promoted[Booted] = "blank"
      BY <2>1, BootSelects
    <3> QED BY <1>2, <2>1, <2>4, <3>5, <3>6, <3>7 DEF Unconfirmed
  <2> QED BY <2>3, <2>4
<1> QED BY <1>1, <1>2

\* No boot gives a slot an unconfirmed record.
LEMMA BootUnconfirms ==
    ASSUME SlotTypes, RunningWhole, Boot \/ BootUnread, NEW s \in Sides, entry'[s] \in Unconfirmed
    PROVE  entry[s] \in Unconfirmed
<1>1. entry'[s] = Promoted[s] \/ entry'[s] = "undefined"
  BY BootSelects DEF BootUnread
<1> QED BY <1>1, Promotes DEF Unconfirmed

\* The records, the slots and what the state task is at keep to their values.
LEMMA SlotStep ==
    ASSUME Bounds, UpdateInv, UpdateNext
    PROVE  SlotTypes'
<1> USE Slots
<1> USE DEF UpdateInv, ImageStates, SlotTypes, otadata, seen, untouched, SoftwareReset, Turn,
         Leg, SetState, Select, WritePage, Target
<1>1. CASE Resets
  <2>1. CASE PowerOff
    BY <2>1 DEF PowerOff
  <2>2. CASE Unrelated \/ Restart \/ Panics \/ StartFails
    BY <2>2 DEF Unrelated, Restart, Panics, StartFails
  <2> QED BY <1>1, <2>1, <2>2 DEF Resets
<1>2. CASE Boot
  <2>1. board' \in {"up", "condemn"} /\ attempts' \in 0..3
    BY <1>2, BootJudges, Zenon
  <2> QED BY <1>2, <2>1, BootSelects DEF Boot, SlotTypes
<1>3. CASE BootUnread
  BY <1>3, Promotes, Records DEF BootUnread, SlotTypes
<1>4. CASE Condemn
  BY <1>4 DEF Condemn
<1>5. CASE SwitchBack
  BY <1>5 DEF SwitchBack
<1>6. CASE SwitchFails
  BY <1>6 DEF SwitchFails
<1>7. CASE SelfTesting
  BY <1>7 DEF SelfTesting, RadioLeg, NetworkLeg, NetworkFails, Soak, Pass, Fails, Poll
<1>8. CASE Handler
  BY <1>8 DEF Handler, TakeSender, ReadPage, BodyEnds, Unserved
<1>9. CASE Serving
  <2>1. CASE BeginRefused \/ Abort \/ FinishRefused
    BY <2>1 DEF BeginRefused, Abort, FinishRefused
  <2>2. CASE Begin
    BY <2>2 DEF Begin
  <2>3. CASE Page \/ PageRefused
    BY <2>3 DEF Page, PageRefused
  <2>4. CASE Finish
    BY <2>4 DEF Finish
  <2>5. CASE Mark
    BY <2>5 DEF Mark
  <2>6. CASE MarkFails
    BY <2>6 DEF MarkFails
  <2>7. CASE Unmark
    BY <2>7 DEF Unmark
  <2> QED BY <1>9, <2>1, <2>2, <2>3, <2>4, <2>5, <2>6, <2>7 DEF Serving
<1> QED BY <1>1, <1>2, <1>3, <1>4, <1>5, <1>6, <1>7, <1>8, <1>9 DEF UpdateNext, Booting

\* So do the legs of the self-test and its clock.
LEMMA TestStep ==
    ASSUME Bounds, UpdateInv, UpdateNext
    PROVE  TestTypes'
<1> USE Slots
<1> USE DEF UpdateInv, Bounds, LegStates, NoLegs, TestTypes, testVars, untouched,
         SoftwareReset, Ram, Turn, Leg
<1>1. CASE Resets
  <2>1. CASE PowerOff
    BY <2>1 DEF PowerOff
  <2>2. CASE Unrelated \/ Restart \/ Panics \/ StartFails
    BY <2>2 DEF Unrelated, Restart, Panics, StartFails
  <2> QED BY <1>1, <2>1, <2>2 DEF Resets
<1>2. CASE Boot
  BY <1>2 DEF Boot
<1>3. CASE BootUnread
  BY <1>3 DEF BootUnread
<1>4. CASE Condemn
  BY <1>4 DEF Condemn
<1>5. CASE SwitchBack
  BY <1>5 DEF SwitchBack
<1>6. CASE SwitchFails
  BY <1>6 DEF SwitchFails
<1>7. CASE SelfTesting
  BY <1>7 DEF SelfTesting, RadioLeg, NetworkLeg, NetworkFails, Soak, Pass, Fails, Poll
<1>8. CASE Handler
  BY <1>8 DEF Handler, TakeSender, ReadPage, BodyEnds, Unserved
<1>9. CASE Serving
  <2>1. CASE BeginRefused \/ Abort \/ FinishRefused
    BY <2>1 DEF BeginRefused, Abort, FinishRefused
  <2>2. CASE Begin
    BY <2>2 DEF Begin
  <2>3. CASE Page \/ PageRefused
    BY <2>3 DEF Page, PageRefused
  <2>4. CASE Finish
    BY <2>4 DEF Finish
  <2>5. CASE Mark
    BY <2>5 DEF Mark
  <2>6. CASE MarkFails
    BY <2>6 DEF MarkFails
  <2>7. CASE Unmark
    BY <2>7 DEF Unmark
  <2> QED BY <1>9, <2>1, <2>2, <2>3, <2>4, <2>5, <2>6, <2>7 DEF Serving
<1> QED BY <1>1, <1>2, <1>3, <1>4, <1>5, <1>6, <1>7, <1>8, <1>9 DEF UpdateNext, Booting

\* And the upload: no more pages are posted than the image has.
LEMMA UploadStep ==
    ASSUME Bounds, UpdateInv, UpdateNext
    PROVE  UploadTypes'
<1> USE Slots
<1> USE DEF UpdateInv, Bounds, Whole, NoSession, UploadTypes, uploadVars, SoftwareReset, Ram,
         Turn, Leg
<1>1. CASE Resets
  <2>1. CASE PowerOff
    BY <2>1 DEF PowerOff
  <2>2. CASE Unrelated \/ Restart \/ Panics \/ StartFails
    BY <2>2 DEF Unrelated, Restart, Panics, StartFails
  <2> QED BY <1>1, <2>1, <2>2 DEF Resets
<1>2. CASE Boot
  BY <1>2 DEF Boot
<1>3. CASE BootUnread
  BY <1>3 DEF BootUnread
<1>4. CASE Condemn
  BY <1>4 DEF Condemn
<1>5. CASE SwitchBack
  BY <1>5 DEF SwitchBack
<1>6. CASE SwitchFails
  BY <1>6 DEF SwitchFails
<1>7. CASE SelfTesting
  BY <1>7 DEF SelfTesting, RadioLeg, NetworkLeg, NetworkFails, Soak, Pass, Fails, Poll
<1>8. CASE Handler
  BY <1>8 DEF Handler, TakeSender, ReadPage, BodyEnds, Unserved
<1>9. CASE Serving
  <2>1. CASE BeginRefused \/ Abort \/ FinishRefused
    BY <2>1 DEF BeginRefused, Abort, FinishRefused
  <2>2. CASE Begin
    BY <2>2 DEF Begin
  <2>3. CASE Page \/ PageRefused
    BY <2>3 DEF Page, PageRefused
  <2>4. CASE Finish
    BY <2>4 DEF Finish
  <2>5. CASE Mark
    BY <2>5 DEF Mark
  <2>6. CASE MarkFails
    BY <2>6 DEF MarkFails
  <2>7. CASE Unmark
    BY <2>7 DEF Unmark
  <2> QED BY <1>9, <2>1, <2>2, <2>3, <2>4, <2>5, <2>6, <2>7 DEF Serving
<1> QED BY <1>1, <1>2, <1>3, <1>4, <1>5, <1>6, <1>7, <1>8, <1>9 DEF UpdateNext, Booting

\* The flags are flags: an update without them would have states no test expects.
LEMMA FlagStep ==
    ASSUME Bounds, UpdateInv, UpdateNext
    PROVE  FlagTypes'
<1> USE Slots
<1> USE DEF UpdateInv, FlagTypes, otadata, testVars, uploadVars, seen, untouched,
         SoftwareReset, Ram, Turn, Leg
<1>1. CASE Resets
  <2>1. CASE PowerOff
    BY <2>1 DEF PowerOff
  <2>2. CASE Unrelated \/ Restart \/ Panics \/ StartFails
    BY <2>2 DEF Unrelated, Restart, Panics, StartFails
  <2> QED BY <1>1, <2>1, <2>2 DEF Resets
<1>2. CASE Boot
  BY <1>2, BootJudges DEF Boot, FlagTypes
<1>3. CASE BootUnread
  BY <1>3 DEF BootUnread
<1>4. CASE Condemn
  BY <1>4 DEF Condemn
<1>5. CASE SwitchBack
  BY <1>5 DEF SwitchBack
<1>6. CASE SwitchFails
  BY <1>6 DEF SwitchFails
<1>7. CASE SelfTesting
  BY <1>7 DEF SelfTesting, RadioLeg, NetworkLeg, NetworkFails, Soak, Pass, Fails, Poll
<1>8. CASE Handler
  BY <1>8 DEF Handler, TakeSender, ReadPage, BodyEnds, Unserved
<1>9. CASE Serving
  <2>1. CASE BeginRefused \/ Abort \/ FinishRefused
    BY <2>1 DEF BeginRefused, Abort, FinishRefused
  <2>2. CASE Begin
    BY <2>2 DEF Begin
  <2>3. CASE Page \/ PageRefused
    BY <2>3 DEF Page, PageRefused
  <2>4. CASE Finish
    BY <2>4 DEF Finish
  <2>5. CASE Mark
    BY <2>5 DEF Mark
  <2>6. CASE MarkFails
    BY <2>6 DEF MarkFails
  <2>7. CASE Unmark
    BY <2>7 DEF Unmark
  <2> QED BY <1>9, <2>1, <2>2, <2>3, <2>4, <2>5, <2>6, <2>7 DEF Serving
<1> QED BY <1>1, <1>2, <1>3, <1>4, <1>5, <1>6, <1>7, <1>8, <1>9 DEF UpdateNext, Booting

\* What a task holds in memory ends with a reset, and a self-test with its verdict.
LEMMA MemStep ==
    ASSUME Bounds, UpdateInv, UpdateNext
    PROVE  Memory'
<1> USE Slots
<1> USE DEF UpdateInv, Bounds, Memory, testVars, untouched, Fault, SoftwareReset, Ram, Turn,
         TickSelfTest, Leg
<1>1. CASE Resets
  <2>1. CASE PowerOff
    BY <2>1 DEF PowerOff
  <2>2. CASE Unrelated \/ Restart \/ Panics \/ StartFails
    BY <2>2 DEF Unrelated, Restart, Panics, StartFails
  <2> QED BY <1>1, <2>1, <2>2 DEF Resets
<1>2. CASE Boot
  <2>1. board' \in {"off", "condemn", "switch"} => ~verifying'
    BY <1>2, BootJudges
  <2>2. board' # "off"
    BY <1>2, BootJudges
  <2> QED BY <1>2, <2>1, <2>2 DEF Boot, Memory
<1>3. CASE BootUnread
  BY <1>3 DEF BootUnread
<1>4. CASE Condemn
  BY <1>4 DEF Condemn
<1>5. CASE SwitchBack
  BY <1>5 DEF SwitchBack
<1>6. CASE SwitchFails
  BY <1>6 DEF SwitchFails
<1>7. CASE SelfTesting
  BY <1>7 DEF SelfTesting, RadioLeg, NetworkLeg, NetworkFails, Soak, Pass, Fails, Poll
<1>8. CASE Handler
  BY <1>8 DEF Handler, TakeSender, ReadPage, BodyEnds, Unserved
<1>9. CASE Serving
  <2>1. CASE BeginRefused \/ Abort \/ FinishRefused
    BY <2>1 DEF BeginRefused, Abort, FinishRefused
  <2>2. CASE Begin
    BY <2>2 DEF Begin
  <2>3. CASE Page \/ PageRefused
    BY <2>3 DEF Page, PageRefused
  <2>4. CASE Finish
    BY <2>4 DEF Finish
  <2>5. CASE Mark
    BY <2>5 DEF Mark
  <2>6. CASE MarkFails
    BY <2>6 DEF MarkFails
  <2>7. CASE Unmark
    BY <2>7 DEF Unmark
  <2> QED BY <1>9, <2>1, <2>2, <2>3, <2>4, <2>5, <2>6, <2>7 DEF Serving
<1> QED BY <1>1, <1>2, <1>3, <1>4, <1>5, <1>6, <1>7, <1>8, <1>9 DEF UpdateNext, Booting

\* Finishing means that every page was written, and the first page written is the
\* end of the image that was there.
LEMMA PagesStep ==
    ASSUME Bounds, UpdateInv, UpdateNext
    PROVE  PagesFit'
<1> USE Slots
<1> USE DEF UpdateInv, PagesFit, uploadVars, seen, untouched, SoftwareReset, Ram, Turn, Leg,
         WritePage, Target
<1>1. CASE Resets
  <2>1. CASE PowerOff
    BY <2>1 DEF PowerOff
  <2>2. CASE Unrelated \/ Restart \/ Panics \/ StartFails
    BY <2>2 DEF Unrelated, Restart, Panics, StartFails
  <2> QED BY <1>1, <2>1, <2>2 DEF Resets
<1>2. CASE Boot
  BY <1>2 DEF Boot, Memory
<1>3. CASE BootUnread
  BY <1>3 DEF BootUnread, Memory
<1>4. CASE Condemn
  BY <1>4 DEF Condemn
<1>5. CASE SwitchBack
  BY <1>5 DEF SwitchBack
<1>6. CASE SwitchFails
  BY <1>6 DEF SwitchFails
<1>7. CASE SelfTesting
  BY <1>7 DEF SelfTesting, RadioLeg, NetworkLeg, NetworkFails, Soak, Pass, Fails, Poll, SlotTypes
<1>8. CASE Handler
  BY <1>8 DEF Handler, TakeSender, ReadPage, BodyEnds, Unserved, UploadTypes
<1>9. CASE Serving
  <2>1. CASE BeginRefused \/ Abort \/ FinishRefused
    BY <2>1 DEF BeginRefused, Abort, FinishRefused
  <2>2. CASE Begin
    BY <2>2 DEF Begin, UploadTypes
  <2>3. CASE Page \/ PageRefused
    BY <2>3 DEF Page, PageRefused, UploadTypes
  <2>4. CASE Finish
    BY <2>4 DEF Finish
  <2>5. CASE Mark
    BY <2>5 DEF Mark
  <2>6. CASE MarkFails
    BY <2>6 DEF MarkFails
  <2>7. CASE Unmark
    BY <2>7 DEF Unmark
  <2> QED BY <1>9, <2>1, <2>2, <2>3, <2>4, <2>5, <2>6, <2>7 DEF Serving
<1> QED BY <1>1, <1>2, <1>3, <1>4, <1>5, <1>6, <1>7, <1>8, <1>9 DEF UpdateNext, Booting

\* No step writes the slot that runs, and no boot runs a slot that is not whole.
LEMMA RunStep ==
    ASSUME Bounds, UpdateInv, UpdateNext
    PROVE  RunningWhole'
<1> USE Slots
<1> USE DEF UpdateInv, RunningWhole, untouched, SoftwareReset, Turn, Leg, WritePage, Target
<1>1. CASE Resets
  <2>1. CASE PowerOff
    BY <2>1 DEF PowerOff
  <2>2. CASE Unrelated \/ Restart \/ Panics \/ StartFails
    BY <2>2 DEF Unrelated, Restart, Panics, StartFails
  <2> QED BY <1>1, <2>1, <2>2 DEF Resets
<1>2. CASE Boot
  BY <1>2, BootSelects DEF Boot, RunningWhole
<1>3. CASE BootUnread
  BY <1>3, Records DEF BootUnread, SlotTypes, RunningWhole, Booted
<1>4. CASE Condemn
  BY <1>4 DEF Condemn
<1>5. CASE SwitchBack
  BY <1>5 DEF SwitchBack
<1>6. CASE SwitchFails
  BY <1>6 DEF SwitchFails
<1>7. CASE SelfTesting
  BY <1>7 DEF SelfTesting, RadioLeg, NetworkLeg, NetworkFails, Soak, Pass, Fails, Poll
<1>8. CASE Handler
  BY <1>8 DEF Handler, TakeSender, ReadPage, BodyEnds, Unserved
<1>9. CASE Serving
  <2>1. CASE BeginRefused \/ Abort \/ FinishRefused
    BY <2>1 DEF BeginRefused, Abort, FinishRefused
  <2>2. CASE Begin
    BY <2>2 DEF Begin
  <2>3. CASE Page \/ PageRefused
    BY <2>3 DEF Page, PageRefused, SlotTypes
  <2>4. CASE Finish
    BY <2>4 DEF Finish
  <2>5. CASE Mark
    BY <2>5 DEF Mark
  <2>6. CASE MarkFails
    BY <2>6 DEF MarkFails
  <2>7. CASE Unmark
    BY <2>7 DEF Unmark
  <2> QED BY <1>9, <2>1, <2>2, <2>3, <2>4, <2>5, <2>6, <2>7 DEF Serving
<1> QED BY <1>1, <1>2, <1>3, <1>4, <1>5, <1>6, <1>7, <1>8, <1>9 DEF UpdateNext, Booting

\* Each reset of the update's own is paid for by what boot and a verdict use up.
LEMMA OwingStep ==
    ASSUME Bounds, UpdateInv, UpdateNext
    PROVE  Owing'
<1> USE Slots
<1> USE DEF UpdateInv, Bounds, Owing, otadata, testVars, uploadVars, untouched, Fault,
         SoftwareReset, Ram, Turn, TickSelfTest, Leg, SetState, Select, Target
<1>1. CASE Resets
  <2>1. CASE PowerOff
    BY <2>1 DEF PowerOff, Memory, Left, One
  <2>2. CASE Unrelated \/ Restart \/ Panics \/ StartFails
    BY <2>2 DEF Unrelated, Restart, Panics, StartFails, Memory, Left, One, Counted
  <2> QED BY <1>1, <2>1, <2>2 DEF Resets
<1>2. CASE Boot
  <2> DEFINE state == IF Blank THEN "blank" ELSE entry'[run']
  <2>1. /\ board = "off" /\ session = NoSession /\ session' = NoSession
        /\ turns' = turns /\ faults' = faults
        /\ board' \in {"up", "condemn"} /\ ~verifying
    BY <1>2, BootJudges DEF Boot, Memory
  <2>2. \A s \in Sides : Counted(s)' => Counted(s)
    BY <1>2, <2>1, BootUnconfirms DEF Counted
  <2>3. attempts' = 0 => attempts = 0
    BY <1>2, BootJudges DEF SlotTypes
  <2>4. verifying' \/ board' = "condemn" =>
            state \in Unsettled /\ (attempts = 0 \/ state \in Unconfirmed)
    BY <1>2, BootJudges, Zenon DEF Unsettled, Unconfirmed
  <2>5. verifying' \/ board' = "condemn" => attempts' # 0
    <3>1. state \in Unsettled => attempts' # 0
      BY <1>2, BootJudges DEF SlotTypes
    <3> QED BY <2>4, <3>1, Zenon
  <2>6. verifying' \/ board' = "condemn" => attempts = 0 \/ (Counted(run') /\ ~Counted(run)')
    <3>1. state \in Unconfirmed =>
              ~Blank /\ Selected' = run' /\ run' \in Sides /\ entry[run'] \in Unconfirmed
      BY <1>2, BootSelects, BootUnconfirms DEF Unconfirmed
    <3>2. verifying' \/ board' = "condemn" => attempts = 0 \/ state \in Unconfirmed
      BY <2>4
    <3>3. entry[run'] \in Unconfirmed => Counted(run')
      BY <2>1, Zenon DEF Counted
    <3>4. (verifying' \/ board' = "condemn") /\ Selected' = run' => ~Counted(run)'
      BY Zenon DEF Counted
    <3> QED BY <3>1, <3>2, <3>3, <3>4, Zenon
  <2>7. Counted(0)' \in BOOLEAN /\ Counted(1)' \in BOOLEAN
    BY Zenon DEF Counted
  <2>8. Left \in Nat /\ Left' \in Nat /\ Left' <= Left
    <3> DEFINE c(s) == One(Counted(s))
    <3>1. /\ Left = One(attempts = 0) + 0 + c(0) + c(1)
          /\ One(attempts = 0) \in 0..1 /\ c(0) \in 0..1 /\ c(1) \in 0..1
          /\ c(0)' \in 0..1 /\ c(1)' \in 0..1 /\ c(0)' <= c(0) /\ c(1)' <= c(1)
      BY <2>1, <2>2, Slots DEF Left, One
    <3>2. CASE verifying' \/ board' = "condemn"
      <4>1. Left' = 0 + 1 + c(0)' + c(1)'
        BY <2>5, <3>2 DEF Left, One
      <4>2. attempts = 0 \/ (c(0) = 1 /\ c(0)' = 0) \/ (c(1) = 1 /\ c(1)' = 0)
        <5>1. run' = 0 \/ run' = 1
          BY <1>2, BootSelects, Slots
        <5> QED BY <2>6, <3>2, <5>1 DEF One
      <4> QED BY <3>1, <4>1, <4>2 DEF One
    <3>3. CASE ~(verifying' \/ board' = "condemn")
      <4>1. Left' = One(attempts' = 0) + 0 + c(0)' + c(1)'
        BY <2>1, <3>3 DEF Left, One
      <4>2. One(attempts' = 0) <= One(attempts = 0)
        BY <2>3 DEF One
      <4> QED BY <3>1, <4>1, <4>2 DEF One
    <3> QED BY <3>2, <3>3
  <2>9. turns + Left' <= 3 + faults
    <3>1. turns \in Nat /\ faults \in Nat /\ turns + Left <= 3 + faults
      BY Zenon DEF Owing, Memory
    <3>2. \A t, l, m, f \in Nat : t + l <= 3 + f /\ m <= l => t + m <= 3 + f
      OBVIOUS
    <3> QED BY <2>8, <3>1, <3>2, Zenon
  <2> QED BY <2>1, <2>9, Zenon DEF Owing
<1>3. CASE BootUnread
  <2>1. \A s \in Sides : Counted(s)' => Counted(s)
    BY <1>3, BootUnconfirms DEF BootUnread, Counted, Memory
  <2>2. /\ attempts' = attempts /\ ~verifying /\ ~verifying' /\ board = "off" /\ board' = "up"
        /\ turns' = turns /\ faults' = faults + 1 /\ session' = NoSession
    BY <1>3 DEF BootUnread, Memory
  <2> QED BY <2>1, <2>2 DEF Owing, Left, One, Memory
<1>4. CASE Condemn
  BY <1>4 DEF Condemn, SlotTypes, Left, Counted, Unconfirmed, Selected
<1>5. CASE SwitchBack
  BY <1>5 DEF SwitchBack, Memory, Left, One, Counted, Unconfirmed
<1>6. CASE SwitchFails
  BY <1>6 DEF SwitchFails, Memory, Left, One, Counted
<1>7. CASE SelfTesting
  BY <1>7 DEF SelfTesting, RadioLeg, NetworkLeg, NetworkFails, Soak, Pass, Fails, Poll,
       SlotTypes, Memory, Left, One, Counted, Unconfirmed, Selected
<1>8. CASE Handler
  BY <1>8 DEF Handler, TakeSender, ReadPage, BodyEnds, Unserved, Left, Counted, Unconfirmed,
       Selected
<1>9. CASE Serving
  <2>1. CASE BeginRefused \/ Abort \/ FinishRefused
    BY <2>1 DEF BeginRefused, Abort, FinishRefused, Memory, Left, One, Counted, Unconfirmed,
         Selected
  <2>2. CASE Begin
    BY <2>2 DEF Begin, SlotTypes, Memory, Left, One, Counted, Unconfirmed, Selected
  <2>3. CASE Page \/ PageRefused
    BY <2>3 DEF Page, PageRefused, Memory, Left, One, Counted, Unconfirmed, Selected
  <2>4. CASE Finish
    BY <2>4 DEF Finish, SlotTypes, Memory, Left, One, Counted, Unconfirmed, Selected
  <2>5. CASE Mark
    BY <2>5 DEF Mark, Memory, Left, One, Counted, Unconfirmed, Selected
  <2>6. CASE MarkFails
    BY <2>6 DEF MarkFails, Memory, Left, One
  <2>7. CASE Unmark
    BY <2>7 DEF Unmark, SlotTypes, Memory, Left, One, Counted, Unconfirmed, Selected
  <2> QED BY <1>9, <2>1, <2>2, <2>3, <2>4, <2>5, <2>6, <2>7 DEF Serving
<1> QED BY <1>1, <1>2, <1>3, <1>4, <1>5, <1>6, <1>7, <1>8, <1>9 DEF UpdateNext, Booting

\* As long as nothing fails, a proved image keeps its slot and its record until an
\* upload erases it, and another is proved then.
LEMMA ProvenStep ==
    ASSUME Bounds, UpdateInv, UpdateNext
    PROVE  (Clean => Proven)'
<1> USE Slots
<1> USE DEF UpdateInv, Clean, Proven, otadata, seen, untouched, SoftwareReset, Turn, TickSelfTest, Leg,
         SetState, Select, WritePage, Target
<1>1. CASE Resets
  <2>1. CASE PowerOff
    BY <2>1 DEF PowerOff
  <2>2. CASE Unrelated \/ Restart \/ Panics \/ StartFails
    BY <2>2 DEF Unrelated, Restart, Panics, StartFails
  <2> QED BY <1>1, <2>1, <2>2 DEF Resets
<1>2. CASE Boot
  <2> SUFFICES ASSUME Clean' PROVE Proven'
    OBVIOUS
  <2>1. Clean /\ proved' = proved /\ content' = content
    BY <1>2 DEF Boot, Clean
  <2>2. \A s \in proved : s \in Sides /\ Promoted[s] = entry[s]
    BY <2>1, Promotes DEF Proven, SlotTypes, Settled
  <2> QED BY <1>2, <2>1, <2>2, BootSelects DEF Proven, Settled
<1>3. CASE BootUnread
  BY <1>3 DEF BootUnread
<1>4. CASE Condemn
  BY <1>4 DEF Condemn, Answered
<1>5. CASE SwitchBack
  BY <1>5 DEF SwitchBack, Settled
<1>6. CASE SwitchFails
  BY <1>6 DEF SwitchFails
<1>7. CASE SelfTesting
  BY <1>7 DEF SelfTesting, RadioLeg, NetworkLeg, NetworkFails, Soak, Pass, Fails, Poll,
       SlotTypes, RunningWhole, Answered, Settled
<1>8. CASE Handler
  BY <1>8 DEF Handler, TakeSender, ReadPage, BodyEnds, Unserved
<1>9. CASE Serving
  <2>1. CASE BeginRefused \/ Abort \/ FinishRefused
    BY <2>1 DEF BeginRefused, Abort, FinishRefused
  <2>2. CASE Begin
    BY <2>2 DEF Begin, SlotTypes, Settled, Blank
  <2>3. CASE Page \/ PageRefused
    BY <2>3 DEF Page, PageRefused, SlotTypes, Answered
  <2>4. CASE Finish
    BY <2>4 DEF Finish, Settled
  <2>5. CASE Mark
    BY <2>5 DEF Mark, Answered
  <2>6. CASE MarkFails
    BY <2>6 DEF MarkFails, SlotTypes, Answered
  <2>7. CASE Unmark
    BY <2>7 DEF Unmark, SlotTypes, Settled
  <2> QED BY <1>9, <2>1, <2>2, <2>3, <2>4, <2>5, <2>6, <2>7 DEF Serving
<1> QED BY <1>1, <1>2, <1>3, <1>4, <1>5, <1>6, <1>7, <1>8, <1>9 DEF UpdateNext, Booting

\* As long as nothing fails, the record that selects an unproved image says so.
LEMMA DoubtedStep ==
    ASSUME Bounds, UpdateInv, UpdateNext
    PROVE  (Clean => Doubted)'
<1> USE Slots
<1> USE DEF UpdateInv, Bounds, Unsettled, Clean, Doubted, otadata, uploadVars, seen, untouched,
         SoftwareReset, Ram, Turn, TickSelfTest, Leg, SetState, Select, WritePage, Target
<1>1. CASE Resets
  <2>1. CASE PowerOff
    <3> SUFFICES ASSUME Clean' PROVE Doubted'
      OBVIOUS
    <3>1. Clean /\ board \in {"off", "up"} /\ entry' = entry /\ newest' = newest /\ run' = run
          /\ proved' = proved
      BY <2>1 DEF PowerOff, Clean
    <3>2. (Blank' <=> Blank) /\ Selected' = Selected /\ board' = "off" /\ session' = NoSession
      BY <2>1, <3>1 DEF PowerOff, Blank, Selected
    <3> QED BY <3>1, <3>2 DEF Doubted
  <2>2. CASE Unrelated \/ Restart \/ Panics \/ StartFails
    BY <2>2 DEF Unrelated, Restart, Panics, StartFails, Unconfirmed, Selected, Blank
  <2> QED BY <1>1, <2>1, <2>2 DEF Resets
<1>2. CASE Boot
  <2> SUFFICES ASSUME Clean' PROVE Doubted'
    OBVIOUS
  <2>1. Clean /\ board = "off" /\ session' = NoSession /\ proved' = proved
    BY <1>2 DEF Boot, Clean, Memory
  <2>2. Blank' => run' = 0 /\ 0 \in proved' /\ board' = "up"
    BY <1>2, <2>1, BootSelects, BootJudges DEF Doubted
  <2>3. ~Blank' /\ Selected' \notin proved' => entry'[Selected'] \in Unconfirmed
    BY <1>2, <2>1, BootSelects, BootKnows, Slots DEF Blank
  <2> QED BY <2>1, <2>2, <2>3 DEF Doubted
<1>3. CASE BootUnread
  BY <1>3 DEF BootUnread
<1>4. CASE Condemn
  BY <1>4 DEF Condemn, Blank
<1>5. CASE SwitchBack
  BY <1>5 DEF SwitchBack, SlotTypes, Proven, Answered, Unconfirmed, Selected, Blank
<1>6. CASE SwitchFails
  BY <1>6 DEF SwitchFails
<1>7. CASE SelfTesting
  BY <1>7 DEF SelfTesting, RadioLeg, NetworkLeg, NetworkFails, Soak, Pass, Fails, Poll,
       SlotTypes, Answered, Unconfirmed, Selected, Blank
<1>8. CASE Handler
  BY <1>8 DEF Handler, TakeSender, ReadPage, BodyEnds, Unserved, Unconfirmed, Selected, Blank
<1>9. CASE Serving
  <2>1. CASE BeginRefused \/ Abort \/ FinishRefused
    BY <2>1 DEF BeginRefused, Abort, FinishRefused, Unconfirmed, Selected, Blank
  <2>2. CASE Begin
    BY <2>2 DEF Begin, SlotTypes, FlagTypes, Unconfirmed, Selected, Blank
  <2>3. CASE Page \/ PageRefused
    BY <2>3 DEF Page, PageRefused, SlotTypes, Answered, Unconfirmed, Selected, Blank
  <2>4. CASE Finish
    BY <2>4 DEF Finish, Blank
  <2>5. CASE Mark
    BY <2>5 DEF Mark, SlotTypes, Unconfirmed, Selected, Blank
  <2>6. CASE MarkFails
    BY <2>6 DEF MarkFails, SlotTypes, Blank
  <2>7. CASE Unmark
    BY <2>7 DEF Unmark, SlotTypes, Answered, Unconfirmed, Selected, Blank
  <2> QED BY <1>9, <2>1, <2>2, <2>3, <2>4, <2>5, <2>6, <2>7 DEF Serving
<1> QED BY <1>1, <1>2, <1>3, <1>4, <1>5, <1>6, <1>7, <1>8, <1>9 DEF UpdateNext, Booting

\* As long as nothing fails, an unproved image only runs under its self-test.
LEMMA AnsweredStep ==
    ASSUME Bounds, UpdateInv, UpdateNext
    PROVE  (Clean => Answered)'
<1> USE Slots
<1> USE DEF UpdateInv, Bounds, Clean, Answered, otadata, testVars, uploadVars, seen, untouched,
         SoftwareReset, Ram, Turn, TickSelfTest, Leg, SetState, Select, WritePage, Target
<1>1. CASE Resets
  <2>1. CASE PowerOff
    BY <2>1 DEF PowerOff
  <2>2. CASE Unrelated \/ Restart \/ Panics \/ StartFails
    BY <2>2 DEF Unrelated, Restart, Panics, StartFails
  <2> QED BY <1>1, <2>1, <2>2 DEF Resets
<1>2. CASE Boot
  <2> SUFFICES ASSUME Clean' PROVE Answered'
    OBVIOUS
  <2> DEFINE state == IF Blank THEN "blank" ELSE entry'[run']
  <2>1. Clean /\ board = "off" /\ session' = NoSession /\ proved' = proved
    BY <1>2 DEF Boot, Clean, Memory
  <2>2. \/ run' \in proved /\ state \in Settled
        \/ run' \notin proved /\ state \in Unconfirmed /\ ~Blank
    BY <1>2, <2>1, BootKnows DEF Settled
  <2>3. (~Blank' => Selected' = run') /\ (~Blank => ~Blank')
    BY <1>2, BootSelects, Slots DEF Blank
  <2>4. Settled \cap Unsettled = {} /\ Settled \cap Unconfirmed = {}
    BY DEF Settled, Unsettled, Unconfirmed
  <2>5. /\ board' \in {"up", "condemn"}
        /\ board' = "up" /\ ~verifying' => run' \in proved
        /\ verifying' \/ board' = "condemn" => run' \notin proved /\ ~Blank
    BY <1>2, <2>2, <2>4, BootJudges
  <2> QED BY <2>1, <2>3, <2>5 DEF Answered
<1>3. CASE BootUnread
  BY <1>3 DEF BootUnread
<1>4. CASE Condemn
  BY <1>4 DEF Condemn
<1>5. CASE SwitchBack
  BY <1>5 DEF SwitchBack
<1>6. CASE SwitchFails
  BY <1>6 DEF SwitchFails
<1>7. CASE SelfTesting
  BY <1>7 DEF SelfTesting, RadioLeg, NetworkLeg, NetworkFails, Soak, Pass, Fails, Poll,
       SlotTypes, Unconfirmed, Selected, Blank
<1>8. CASE Handler
  BY <1>8 DEF Handler, TakeSender, ReadPage, BodyEnds, Unserved, Unconfirmed, Selected, Blank
<1>9. CASE Serving
  <2>1. CASE BeginRefused \/ Abort \/ FinishRefused
    BY <2>1 DEF BeginRefused, Abort, FinishRefused, Unconfirmed, Selected, Blank
  <2>2. CASE Begin
    BY <2>2 DEF Begin, SlotTypes, FlagTypes, Unconfirmed, Selected
  <2>3. CASE Page \/ PageRefused
    BY <2>3 DEF Page, PageRefused, SlotTypes, Unconfirmed, Selected, Blank
  <2>4. CASE Finish
    BY <2>4 DEF Finish, SlotTypes, PagesFit, Unconfirmed, Selected, Blank
  <2>5. CASE Mark
    BY <2>5 DEF Mark, Unconfirmed, Selected
  <2>6. CASE MarkFails
    BY <2>6 DEF MarkFails, SlotTypes, Unconfirmed, Selected, Blank
  <2>7. CASE Unmark
    BY <2>7 DEF Unmark, Unconfirmed, Selected
  <2> QED BY <1>9, <2>1, <2>2, <2>3, <2>4, <2>5, <2>6, <2>7 DEF Serving
<1> QED BY <1>1, <1>2, <1>3, <1>4, <1>5, <1>6, <1>7, <1>8, <1>9 DEF UpdateNext, Booting

\* A board as it leaves the bench: its image was flashed over serial.
LEMMA InvStarts ==
    ASSUME Bounds, UpdateInit
    PROVE  UpdateInv
<1> USE Slots
<1>1. SlotTypes /\ TestTypes /\ UploadTypes
  BY DEF Bounds, UpdateInit, SlotTypes, TestTypes, UploadTypes, Whole, ImageStates,
         NoLegs, LegStates, NoSession
<1>2. FlagTypes
  BY Zenon DEF UpdateInit, FlagTypes
<1>3. Memory /\ PagesFit /\ RunningWhole
  BY DEF Bounds, UpdateInit, Memory, PagesFit, RunningWhole, Whole, NoSession
<1>4. Owing
  <2>1. Left \in 0..3
    BY DEF UpdateInit, Left, One, Counted, Unconfirmed
  <2> QED BY <2>1 DEF Bounds, UpdateInit, Owing, NoSession
<1>5. Proven /\ Doubted /\ Answered
  BY DEF UpdateInit, Proven, Doubted, Answered, Blank, Whole, Settled, NoSession
<1> QED BY <1>1, <1>2, <1>3, <1>4, <1>5 DEF UpdateInv

\* A step of another part changes none of it.
LEMMA InvStutters ==
    ASSUME UpdateInv, UNCHANGED updateVars
    PROVE  UpdateInv'
<1> USE DEF updateVars, otadata, testVars, uploadVars, seen
<1>1. /\ Blank' = Blank /\ Selected' = Selected /\ Left' = Left
      /\ SlotTypes' = SlotTypes /\ TestTypes' = TestTypes
        /\ UploadTypes' = UploadTypes /\ FlagTypes' = FlagTypes
  BY DEF Blank, Selected, Left, Counted, SlotTypes, TestTypes, UploadTypes, FlagTypes
<1> QED BY <1>1 DEF UpdateInv, Memory, PagesFit, RunningWhole, Owing, Clean, Proven,
           Doubted, Answered

\* An update never costs the image that runs, trusts one unproved, or resets for ever.
THEOREM UpdateSafety == ASSUME Bounds PROVE UpdateSpec => []UpdateSafe
<1>1. UpdateInit => UpdateInv
  BY InvStarts
<1>2. UpdateInv /\ [UpdateNext]_updateVars => UpdateInv'
  <2>1. ASSUME UpdateInv, UpdateNext PROVE UpdateInv'
    BY <2>1, SlotStep, TestStep, UploadStep, FlagStep, MemStep, PagesStep, RunStep, OwingStep,
       ProvenStep, DoubtedStep, AnsweredStep, Zenon DEF UpdateInv
  <2> QED BY <2>1, InvStutters
<1>3. UpdateInv => UpdateSafe
  <2> SUFFICES ASSUME UpdateInv PROVE UpdateSafe
    OBVIOUS
  <2>1. TurnsEnd
    <3>1. Left \in Nat
      BY DEF Left, One
    <3> QED BY <3>1 DEF UpdateInv, Owing, Memory, Bounds, TurnsEnd
  <2>2. RunningSlotKept /\ UntestedNeverSettles
    BY DEF UpdateInv, RunningWhole, RunningSlotKept, UntestedNeverSettles, Clean, Answered
  <2>3. UpdateTypeOK
    BY DEF UpdateInv, UpdateTypeOK, SlotTypes, TestTypes, UploadTypes, FlagTypes
  <2> QED BY <2>1, <2>2, <2>3 DEF UpdateSafe
<1> QED BY <1>1, <1>2, <1>3, PTL DEF UpdateSpec

-----------------------------------------------------------------------------
(* What the ring may hold                                                  *)

\* What a place of the ring or of the record may hold.
Cells == Characters \cup {Empty}
Sums == {Empty} \cup (BOOLEAN \X Nat \X Nat \X Nat \X Nat)
Rings == [magic : BOOLEAN, head : 0..RING_BYTES - 1, len : 0..RING_BYTES, lines : Nat,
          dropped : Nat, crc : Sums,
          bytes : [0..RING_BYTES - 1 -> Cells]]

\* The header was written before what the ring holds now.
Stale(r) ==
    \E m \in BOOLEAN, h \in Nat, l \in Nat, n \in Nat, d \in Nat :
        /\ r.crc = <<m, h, l, n, d>>
        /\ d < r.dropped \/ (d = r.dropped /\ l < r.len)

WholeLines(all) == all = <<>> \/ all[Len(all)] = Newline

\* What stands at a place of all lines and a part of one more.
Said(all, line, p) == IF p <= Len(all) THEN all[p] ELSE line[p - Len(all)]

\* The newlines of whole lines among the last len of total characters.
Ends(all, len, total) == {p \in Nat : total - len < p /\ p <= Len(all) /\ all[p] = Newline}

\* A text is the last len of total characters said, from the start of a line, and there are no
\* more lines in it than are counted.
Told(text, len, lines, all, line, total) ==
    /\ len <= total
    /\ \A i \in 1..len : text[i] = Said(all, line, (total - len) + i)
    /\ len < total => Said(all, line, total - len) = Newline
    /\ lines <= Cardinality(Ends(all, len, total))

\* So does what the ring holds: all lines, and so much of one more.
Holding(r, all, line, part) == Told(TextOf(r), r.len, r.lines, all, line, Len(all) + part)

-----------------------------------------------------------------------------
(* The ring                                                                *)

\* The ring has room for a character and its newline.
LEMMA Sizes == RING_BYTES \in Nat /\ 1 < RING_BYTES
BY DiagAssumption

\* So many places further on round the ring.
Further(h, i) == IF h + i < RING_BYTES THEN h + i ELSE h + i - RING_BYTES

\* A place of the ring, without the remainder.
LEMMA Round ==
    ASSUME NEW h \in 0..RING_BYTES - 1, NEW i \in 0..RING_BYTES
    PROVE  (h + i) % RING_BYTES = Further(h, i) /\ Further(h, i) \in 0..RING_BYTES - 1
<1>1. ASSUME NEW m \in Nat \ {0}, NEW b \in Nat, b < m + m
      PROVE  b % m = IF b < m THEN b ELSE b - m
  BY <1>1
<1>2. RING_BYTES \in Nat \ {0}
  BY Sizes
<1>3. ASSUME NEW a \in Nat, a < RING_BYTES + RING_BYTES
      PROVE  a % RING_BYTES = IF a < RING_BYTES THEN a ELSE a - RING_BYTES
  BY <1>1, <1>2, <1>3
<1>4. h + i \in Nat /\ h + i < RING_BYTES + RING_BYTES
  BY Sizes
<1> QED BY <1>3, <1>4, Sizes DEF Further

\* Where a place of the ring lies.
LEMMA AtIs ==
    ASSUME NEW r \in Rings, NEW i \in 0..RING_BYTES - 1
    PROVE  At(r, i) = r.bytes[Further(r.head, i)] /\ At(r, i) \in Cells
<1>1. r.head \in 0..RING_BYTES - 1 /\ r.bytes \in [0..RING_BYTES - 1 -> Cells]
  BY DEF Rings
<1>2. i \in 0..RING_BYTES
  BY Sizes
<1>3. (r.head + i) % RING_BYTES = Further(r.head, i) /\ Further(r.head, i) \in 0..RING_BYTES - 1
  BY <1>1, <1>2, Round
<1> QED BY <1>1, <1>3 DEF At

\* Min names the least of a set of numbers.
LEMMA LeastPlace ==
    ASSUME NEW S \in SUBSET Nat, S # {}
    PROVE  Min(S) \in S /\ \A n \in S : Min(S) <= n
<1>1. PICK m \in S : \A n \in S : ~(<<n, m>> \in OpToRel(<, Nat))
  BY WFMin, NatLessThanWellFounded
<1>2. \A n \in S : ~(n < m)
  BY <1>1 DEF OpToRel
<1>3. \E k \in S : \A n \in S : k <= n
  BY <1>2
<1> QED BY <1>3, Zenon DEF Min

\* The newlines that are counted are finitely many.
LEMMA EndsFinite ==
    ASSUME NEW all \in Seq(Characters), NEW len \in Nat, NEW total \in Nat
    PROVE  IsFiniteSet(Ends(all, len, total)) /\ Cardinality(Ends(all, len, total)) \in Nat
<1>1. IsFiniteSet(0..Len(all))
  BY FS_Interval
<1>2. Ends(all, len, total) \subseteq 0..Len(all)
  BY DEF Ends
<1> QED BY <1>1, <1>2, FS_Subset, FS_CardinalityType

\* One character more of the line.
LEMMA Longer ==
    ASSUME NEW all \in Seq(Characters), NEW line, NEW len \in Nat, NEW lines \in Nat, NEW part \in Nat,
           NEW text, Told(text, len, lines, all, line, Len(all) + part),
           NEW more, \A i \in 1..len : more[i] = text[i], more[len + 1] = line[part + 1]
    PROVE  Told(more, len + 1, lines, all, line, Len(all) + (part + 1))
<1>1. PICK total \in Nat : total = Len(all) + part
  OBVIOUS
<1>2. Len(all) + (part + 1) = total + 1 /\ Len(all) \in Nat
  BY <1>1
<1>3. Said(all, line, total + 1) = line[part + 1]
  <2>1. ~(total + 1 <= Len(all)) /\ (total + 1) - Len(all) = part + 1
    BY <1>1
  <2> QED BY <2>1 DEF Said
<1>4. ASSUME NEW i \in 1..(len + 1)
      PROVE  more[i] = Said(all, line, ((total + 1) - (len + 1)) + i)
  <2>1. CASE i = len + 1
    <3>1. ((total + 1) - (len + 1)) + i = total + 1
      BY <2>1
    <3> QED BY <1>3, <2>1, <3>1
  <2>2. CASE i # len + 1
    <3>1. i \in 1..len /\ ((total + 1) - (len + 1)) + i = (total - len) + i
      BY <2>2
    <3> QED BY <1>1, <3>1 DEF Told
  <2> QED BY <2>1, <2>2
<1>5. (total + 1) - (len + 1) = total - len /\ (len <= total <=> len + 1 <= total + 1)
      /\ (len < total <=> len + 1 < total + 1)
  OBVIOUS
<1>6. Ends(all, len + 1, total + 1) = Ends(all, len, total)
  BY <1>5 DEF Ends
<1> QED BY <1>1, <1>2, <1>4, <1>5, <1>6 DEF Told

\* The oldest line less, of one that starts with a whole line.
LEMMA Shorter ==
    ASSUME NEW all \in Seq(Characters), NEW line, NEW len \in Nat, NEW lines \in Nat, NEW part \in Nat,
           NEW text, Told(text, len, lines, all, line, Len(all) + part),
           NEW n \in 1..len, n <= len - part, text[n] = Newline,
           \A i \in 1..(n - 1) : text[i] # Newline,
           NEW rest, \A i \in 1..(len - n) : rest[i] = text[n + i],
           NEW fewer \in Nat, fewer = IF lines = 0 THEN 0 ELSE lines - 1
    PROVE  Told(rest, len - n, fewer, all, line, Len(all) + part)
<1>1. PICK total \in Nat : total = Len(all) + part
  OBVIOUS
<1>2. len <= total
  BY <1>1 DEF Told
<1>3. PICK p \in Nat : p = (total - len) + n
  BY <1>2
<1>4. p \in 1..Len(all) /\ total - (len - n) = p /\ len - n \in Nat
  BY <1>1, <1>2, <1>3
<1>5. Said(all, line, p) = Newline /\ all[p] = Newline
  <2>1. Said(all, line, p) = Newline
    BY <1>1, <1>3 DEF Told
  <2> QED BY <1>4, <2>1 DEF Said
<1>6. ASSUME NEW i \in 1..(len - n)
      PROVE  rest[i] = Said(all, line, (total - (len - n)) + i)
  <2>1. n + i \in 1..len /\ (total - len) + (n + i) = (total - (len - n)) + i
    BY SMTT(60)
  <2> QED BY <1>1, <2>1 DEF Told
<1>7. Ends(all, len - n, total) = Ends(all, len, total) \ {p}
  <2>1. ASSUME NEW q \in Ends(all, len, total), q # p PROVE p < q
    <3>1. q \in Nat /\ total - len < q /\ q <= Len(all) /\ all[q] = Newline
      BY DEF Ends
    <3>2. PICK i \in Nat : i = q - (total - len) /\ (total - len) + i = q
      BY <1>2, <3>1
    <3>3. i \in 1..len
      BY <1>1, <1>2, <3>1, <3>2
    <3>4. text[i] = Newline
      <4>1. Said(all, line, q) = Newline
        BY <3>1 DEF Said
      <4> QED BY <1>1, <3>2, <3>3, <4>1 DEF Told
    <3>5. ~(i \in 1..(n - 1))
      BY <3>4
    <3> QED BY <1>2, <1>3, <2>1, <3>1, <3>2, <3>3, <3>5
  <2>2. ASSUME NEW q \in Nat PROVE total - (len - n) < q <=> p < q
    BY <1>4
  <2>3. total - len < p
    BY <1>2, <1>3
  <2> QED BY <1>2, <1>4, <2>1, <2>2, <2>3, SMTT(60) DEF Ends
<1>8. p \in Ends(all, len, total)
  BY <1>2, <1>3, <1>4, <1>5 DEF Ends
<1>9. fewer <= Cardinality(Ends(all, len - n, total))
  <2>1. lines <= Cardinality(Ends(all, len, total))
    BY <1>1 DEF Told
  <2>2. Cardinality(Ends(all, len - n, total)) = Cardinality(Ends(all, len, total)) - 1
    BY <1>7, <1>8, EndsFinite, FS_RemoveElement
  <2>3. Cardinality(Ends(all, len - n, total)) \in Nat /\ Cardinality(Ends(all, len, total)) \in Nat
    BY <1>4, EndsFinite
  <2> QED BY <2>1, <2>2, <2>3
<1>10. len - n <= total
  BY <1>2
<1> QED BY <1>1, <1>4, <1>5, <1>6, <1>9, <1>10 DEF Told

\* The text of a ring.
LEMMA TextIs ==
    ASSUME NEW r, NEW i \in 1..r.len
    PROVE  TextOf(r)[i] = At(r, i - 1)
BY DEF TextOf

\* Different steps from one place lead to different places, and two steps add up.
LEMMA Steps ==
    ASSUME NEW h \in 0..RING_BYTES - 1, NEW j \in 0..RING_BYTES - 1, NEW k \in 0..RING_BYTES - 1
    PROVE  /\ Further(h, j) \in 0..RING_BYTES - 1
           /\ j # k => Further(h, j) # Further(h, k)
           /\ j + k < RING_BYTES => Further(Further(h, j), k) = Further(h, j + k)
BY Sizes DEF Further

\* The fields of a ring.
LEMMA Fields ==
    ASSUME NEW r \in Rings
    PROVE  /\ r.head \in 0..RING_BYTES - 1 /\ r.len \in Nat /\ r.len <= RING_BYTES
           /\ r.lines \in Nat /\ r.dropped \in Nat /\ r.bytes \in [0..RING_BYTES - 1 -> Cells]
BY Sizes DEF Rings

\* One character more where there is room.
Added(r, c) == [r EXCEPT !.bytes[(r.head + r.len) % RING_BYTES] = c, !.len = @ + 1]

\* A character goes behind those the ring holds, when it has room.
LEMMA RoomPushed ==
    ASSUME NEW r \in Rings, r.len < RING_BYTES, NEW c \in Characters
    PROVE  LET new == Added(r, c)
           IN /\ new \in Rings /\ new.len = r.len + 1 /\ new.dropped = r.dropped
              /\ new.lines = r.lines /\ new.magic = r.magic /\ new.crc = r.crc
              /\ \A i \in 1..r.len : TextOf(new)[i] = TextOf(r)[i]
              /\ TextOf(new)[r.len + 1] = c
<1> DEFINE new == Added(r, c)
           at == Further(r.head, r.len)
           bytes == [r.bytes EXCEPT ![at] = c]
<1>1. /\ r.head \in 0..RING_BYTES - 1 /\ r.len \in 0..RING_BYTES - 1
      /\ r.len \in Nat /\ r.len + 1 \in 0..RING_BYTES /\ r.len \in 0..RING_BYTES
      /\ r.bytes \in [0..RING_BYTES - 1 -> Cells]
  BY Fields, Sizes
<1>2. (r.head + r.len) % RING_BYTES = at /\ at \in 0..RING_BYTES - 1
  BY <1>1, Round
<1>3. bytes \in [0..RING_BYTES - 1 -> Cells] /\ bytes[at] = c
      /\ \A j \in 0..RING_BYTES - 1 : j # at => bytes[j] = r.bytes[j]
  BY <1>1, <1>2 DEF Cells
<1>4. new = [[r EXCEPT !.bytes = bytes] EXCEPT !.len = r.len + 1]
  BY <1>2 DEF Rings, Added
<1> HIDE DEF bytes, new, at
<1>5. /\ new \in Rings /\ new.len = r.len + 1 /\ new.dropped = r.dropped /\ new.head = r.head
      /\ new.lines = r.lines /\ new.magic = r.magic /\ new.crc = r.crc /\ new.bytes = bytes
  <2>1. DOMAIN r = {"magic", "head", "len", "lines", "dropped", "crc", "bytes"}
    BY DEF Rings
  <2>2. /\ new.len = r.len + 1 /\ new.bytes = bytes /\ new.head = r.head
        /\ new.lines = r.lines /\ new.dropped = r.dropped /\ new.magic = r.magic /\ new.crc = r.crc
    BY <1>4, <2>1
  <2>3. [r EXCEPT !.bytes = bytes] \in Rings
    BY <1>3 DEF Rings
  <2>4. new \in Rings
    BY <1>1, <1>4, <2>3 DEF Rings
  <2> QED BY <2>2, <2>4
<1>6. ASSUME NEW i \in 1..r.len PROVE TextOf(new)[i] = TextOf(r)[i]
  <2>1. i - 1 \in 0..RING_BYTES - 1 /\ i - 1 # r.len /\ i \in 1..(r.len + 1)
    BY <1>1, Sizes
  <2>2. At(new, i - 1) = bytes[Further(r.head, i - 1)] /\ At(r, i - 1) = r.bytes[Further(r.head, i - 1)]
    BY <1>5, <2>1, AtIs
  <2>3. Further(r.head, i - 1) \in 0..RING_BYTES - 1 /\ Further(r.head, i - 1) # at
    <3>1. ASSUME NEW h \in 0..RING_BYTES - 1, NEW j \in 0..RING_BYTES - 1,
                 NEW k \in 0..RING_BYTES - 1, j # k
          PROVE  Further(h, j) \in 0..RING_BYTES - 1 /\ Further(h, j) # Further(h, k)
      BY <3>1, Steps
    <3> QED BY <1>1, <2>1, <3>1 DEF at
  <2>4. TextOf(new)[i] = At(new, i - 1) /\ TextOf(r)[i] = At(r, i - 1)
    BY <1>5, <2>1, TextIs
  <2> QED BY <1>3, <2>2, <2>3, <2>4
<1>7. TextOf(new)[r.len + 1] = c
  <2>1. r.len + 1 \in 1..new.len /\ (r.len + 1) - 1 = r.len
    BY <1>1, <1>5
  <2>2. TextOf(new)[r.len + 1] = At(new, r.len)
    BY <2>1, TextIs
  <2> QED BY <1>1, <1>3, <1>5, <2>2, AtIs DEF at
<1> QED BY <1>5, <1>6, <1>7 DEF new

\* The first n characters less.
LEMMA HeadDropped ==
    ASSUME NEW r \in Rings, NEW n \in 1..r.len
    PROVE  LET new == Dropped(r, n)
           IN /\ new \in Rings /\ new.len = r.len - n /\ new.dropped = r.dropped + 1
              /\ new.lines = (IF r.lines = 0 THEN 0 ELSE r.lines - 1)
              /\ new.magic = r.magic /\ new.crc = r.crc
              /\ \A i \in 1..(r.len - n) : TextOf(new)[i] = TextOf(r)[n + i]
<1> DEFINE head == Further(r.head, n)
           lines == IF r.lines = 0 THEN 0 ELSE r.lines - 1
           new == Dropped(r, n)
<1>1. /\ r.head \in 0..RING_BYTES - 1 /\ r.len \in Nat /\ r.len <= RING_BYTES /\ r.lines \in Nat
      /\ r.dropped \in Nat
  BY Fields
<1>2. n \in 0..RING_BYTES /\ n \in Nat /\ n > 0 /\ r.len - n \in 0..RING_BYTES
      /\ r.dropped + 1 \in Nat /\ lines \in Nat
  BY <1>1, Sizes
<1>3. (r.head + n) % RING_BYTES = head /\ head \in 0..RING_BYTES - 1
  BY <1>1, <1>2, Round
<1>4. new = [r EXCEPT !.head = head, !.len = r.len - n, !.lines = lines, !.dropped = r.dropped + 1]
  BY <1>3 DEF Dropped, Rings
<1> HIDE DEF head, lines, new
<1>5. /\ new \in Rings /\ new.head = head /\ new.len = r.len - n /\ new.lines = lines
      /\ new.dropped = r.dropped + 1 /\ new.magic = r.magic /\ new.crc = r.crc
      /\ new.bytes = r.bytes
  BY <1>2, <1>3, <1>4 DEF Rings
<1>6. ASSUME NEW i \in 1..(r.len - n) PROVE TextOf(new)[i] = TextOf(r)[n + i]
  <2>1. PICK j \in 0..RING_BYTES - 1 : j = i - 1
    BY <1>1, <1>2, Sizes
  <2>2. /\ n \in 0..RING_BYTES - 1 /\ n + j \in 0..RING_BYTES - 1 /\ n + i \in 1..r.len
        /\ (n + i) - 1 = n + j
    BY <1>1, <1>2, <2>1, Sizes
  <2>3. At(new, j) = r.bytes[Further(head, j)] /\ At(r, n + j) = r.bytes[Further(r.head, n + j)]
    BY <1>5, <2>2, AtIs
  <2>4. Further(head, j) = Further(r.head, n + j)
    <3>1. PICK h \in 0..RING_BYTES - 1, k \in 0..RING_BYTES - 1 : h = r.head /\ k = n
      BY <1>1, <2>2
    <3>2. k + j < RING_BYTES
      BY <2>2, <3>1, Sizes
    <3>3. Further(Further(h, k), j) = Further(h, k + j)
      BY <3>2, Steps
    <3> QED BY <3>1, <3>3 DEF head
  <2>5. TextOf(new)[i] = At(new, j) /\ TextOf(r)[n + i] = At(r, n + j)
    BY <1>5, <2>1, <2>2, TextIs
  <2> QED BY <2>3, <2>4, <2>5
<1> QED BY <1>5, <1>6 DEF new, lines

\* A full ring drops its oldest line, and nothing of the one that is being written.
LEMMA LineDropped ==
    ASSUME NEW r \in Rings, NEW all \in Seq(Characters), WholeLines(all), NEW line \in Seq(Characters),
           NEW part \in Nat, part < Len(line), Len(line) <= RING_BYTES, r.len = RING_BYTES,
           Holding(r, all, line, part)
    PROVE  LET new == DropOldestLine(r)
           IN /\ new \in Rings /\ part <= new.len /\ new.len < RING_BYTES
              /\ new.dropped = r.dropped + 1 /\ new.magic = r.magic /\ new.crc = r.crc
              /\ Holding(new, all, line, part)
<1> DEFINE ends == {i \in 1..r.len : At(r, i - 1) = Newline}
           n == OldestLength(r)
           new == DropOldestLine(r)
<1>1. /\ r.len \in Nat /\ r.lines \in Nat /\ r.len = RING_BYTES /\ part < r.len
      /\ Len(all) \in Nat /\ Len(all) + part \in Nat
  BY Fields, Sizes
<1>2. Told(TextOf(r), r.len, r.lines, all, line, Len(all) + part)
  BY DEF Holding
<1>3. r.len - part \in 1..r.len /\ r.len <= Len(all) + part /\ Len(all) >= 1
  BY <1>1, <1>2 DEF Told
<1>4. all[Len(all)] = Newline
  BY <1>3 DEF WholeLines
<1>5. At(r, (r.len - part) - 1) = Newline
  <2>1. ((Len(all) + part) - r.len) + (r.len - part) = Len(all)
    BY <1>1
  <2>2. TextOf(r)[r.len - part] = Said(all, line, Len(all))
    BY <1>2, <1>3, <2>1 DEF Told
  <2>3. Said(all, line, Len(all)) = Newline
    BY <1>1, <1>4 DEF Said
  <2> QED BY <1>3, <2>2, <2>3, TextIs
<1>6. r.len - part \in ends /\ ends \in SUBSET Nat
  BY <1>1, <1>3, <1>5
<1>7. n \in ends /\ \A i \in ends : n <= i
  <2> HIDE DEF ends
  <2>1. ends # {}
    BY <1>6
  <2>2. Min(ends) \in ends /\ \A i \in ends : Min(ends) <= i
    BY <1>6, <2>1, LeastPlace
  <2>3. n = IF ends = {} THEN r.len ELSE Min(ends)
    BY DEF OldestLength, ends
  <2> QED BY <2>1, <2>2, <2>3
<1> HIDE DEF n, new
<1>8. n \in 1..r.len /\ n <= r.len - part /\ TextOf(r)[n] = Newline
  BY <1>6, <1>7, TextIs
<1>9. ASSUME NEW i \in 1..(n - 1) PROVE TextOf(r)[i] # Newline
  <2>1. i \in 1..r.len /\ ~(n <= i)
    BY <1>1, <1>8
  <2>2. i \notin ends
    BY <1>7, <2>1
  <2> QED BY <2>1, <2>2, TextIs
<1>10. /\ new \in Rings /\ new.len = r.len - n /\ new.dropped = r.dropped + 1
       /\ new.lines = (IF r.lines = 0 THEN 0 ELSE r.lines - 1)
       /\ new.magic = r.magic /\ new.crc = r.crc
       /\ \A i \in 1..(r.len - n) : TextOf(new)[i] = TextOf(r)[n + i]
  BY <1>8, HeadDropped DEF new, DropOldestLine, n
<1>11. Told(TextOf(new), r.len - n, new.lines, all, line, Len(all) + part)
  <2>1. new.lines \in Nat
    BY <1>10, Fields
  <2>2. PICK fewer \in Nat : fewer = new.lines /\ fewer = IF r.lines = 0 THEN 0 ELSE r.lines - 1
    BY <1>10, <2>1
  <2>3. PICK len \in Nat, lines \in Nat, k \in Nat : /\ len = r.len /\ lines = r.lines /\ k = n
                                                     /\ k \in 1..len
    BY <1>1, <1>8
  <2>4. /\ Told(TextOf(r), len, lines, all, line, Len(all) + part) /\ k <= len - part
        /\ TextOf(r)[k] = Newline /\ \A i \in 1..(k - 1) : TextOf(r)[i] # Newline
        /\ \A i \in 1..(len - k) : TextOf(new)[i] = TextOf(r)[k + i]
        /\ fewer = IF lines = 0 THEN 0 ELSE lines - 1
    BY <1>2, <1>8, <1>9, <1>10, <2>2, <2>3
  <2>5. k \in 1..len
    BY <2>3
  <2>6. Told(TextOf(new), len - k, fewer, all, line, Len(all) + part)
    BY <2>4, <2>5, Shorter, Zenon
  <2> QED BY <2>2, <2>3, <2>6
<1>12. part <= new.len /\ new.len < RING_BYTES
  BY <1>1, <1>8, <1>10
<1>13. Holding(new, all, line, part)
  BY <1>10, <1>11 DEF Holding
<1> QED BY <1>10, <1>12, <1>13 DEF new

\* One character more.
LEMMA Pushed ==
    ASSUME NEW r \in Rings, NEW all \in Seq(Characters), WholeLines(all), NEW line \in Seq(Characters),
           NEW part \in Nat, part < Len(line), Len(line) <= RING_BYTES, part <= r.len,
           Holding(r, all, line, part)
    PROVE  LET new == PushByte(r, line[part + 1])
           IN /\ new \in Rings /\ part + 1 <= new.len
              /\ new.magic = r.magic /\ new.crc = r.crc
              /\ new.dropped > r.dropped \/ (new.dropped = r.dropped /\ new.len > r.len)
              /\ Holding(new, all, line, part + 1)
<1> DEFINE room == IF r.len >= RING_BYTES THEN DropOldestLine(r) ELSE r
           new == PushByte(r, line[part + 1])
<1>1. r.len \in Nat /\ r.len <= RING_BYTES /\ r.dropped \in Nat /\ line[part + 1] \in Characters
  BY Fields
<1>2. /\ room \in Rings /\ part <= room.len /\ room.len < RING_BYTES
      /\ room.magic = r.magic /\ room.crc = r.crc
      /\ room.dropped > r.dropped \/ (room.dropped = r.dropped /\ room.len = r.len)
      /\ Holding(room, all, line, part)
  <2>1. CASE r.len = RING_BYTES
    <3>1. room = DropOldestLine(r)
      BY <1>1, <2>1
    <3> HIDE DEF room
    <3>2. /\ room \in Rings /\ part <= room.len /\ room.len < RING_BYTES
          /\ room.dropped = r.dropped + 1 /\ room.magic = r.magic /\ room.crc = r.crc
          /\ Holding(room, all, line, part)
      BY <2>1, <3>1, LineDropped
    <3> QED BY <1>1, <3>2
  <2>2. CASE r.len # RING_BYTES
    <3>1. r.len < RING_BYTES /\ room = r
      BY <1>1, <2>2, Sizes
    <3> HIDE DEF room
    <3> QED BY <1>1, <3>1
  <2> QED BY <2>1, <2>2
<1>3. new = Added(room, line[part + 1])
  BY DEF PushByte, Added
<1> HIDE DEF room, new
<1>4. /\ new.magic = room.magic /\ new.crc = room.crc /\ new.dropped = room.dropped
      /\ new.len = room.len + 1 /\ new.lines = room.lines /\ new \in Rings
      /\ \A i \in 1..room.len : TextOf(new)[i] = TextOf(room)[i]
      /\ TextOf(new)[room.len + 1] = line[part + 1]
  BY <1>1, <1>2, <1>3, RoomPushed
<1>5. room.len \in Nat /\ room.lines \in Nat
  BY <1>2, Fields
<1>6. Holding(new, all, line, part + 1)
  <2>1. Told(TextOf(room), room.len, room.lines, all, line, Len(all) + part)
    BY <1>2 DEF Holding
  <2>2. Told(TextOf(new), room.len + 1, room.lines, all, line, Len(all) + (part + 1))
    BY <1>4, <1>5, <2>1, Longer
  <2> QED BY <1>4, <2>2 DEF Holding
<1>7. part + 1 <= new.len
  BY <1>2, <1>4, <1>5
<1>8. new.dropped > r.dropped \/ (new.dropped = r.dropped /\ new.len > r.len)
  BY <1>1, <1>2, <1>4, <1>5
<1> QED BY <1>2, <1>4, <1>6, <1>7, <1>8 DEF new

\* The last of a line makes it one more whole line.
LEMMA Closed ==
    ASSUME NEW all \in Seq(Characters), NEW line \in Seq(Characters), Len(line) >= 1,
           line[Len(line)] = Newline, NEW len \in Nat, Len(line) <= len, NEW lines \in Nat,
           NEW text, Told(text, len, lines, all, line, Len(all) + Len(line)), NEW other
    PROVE  /\ all \o line \in Seq(Characters) /\ WholeLines(all \o line)
           /\ Told(text, len, lines + 1, all \o line, other, Len(all \o line))
<1>1. PICK total \in Nat : total = Len(all) + Len(line)
  OBVIOUS
<1> DEFINE more == all \o line
<1>2. /\ more \in Seq(Characters) /\ Len(more) = total
      /\ \A p \in 1..total : more[p] = Said(all, line, p)
  BY <1>1 DEF Said
<1>3. \A p \in 1..Len(all) : more[p] = all[p]
  OBVIOUS
<1>4. more[total] = Newline /\ total >= 1 /\ total > Len(all)
  BY <1>1
<1> HIDE DEF more
<1>5. len <= total
  BY <1>1 DEF Told
<1>6. ASSUME NEW i \in 1..len PROVE text[i] = Said(more, other, (total - len) + i)
  <2>1. PICK p \in 1..total : p = (total - len) + i
    BY <1>5
  <2>2. text[i] = Said(all, line, p)
    BY <1>1, <2>1 DEF Told
  <2>3. Said(more, other, p) = more[p]
    BY <1>2 DEF Said
  <2> QED BY <1>2, <2>1, <2>2, <2>3
<1>7. ASSUME len < total PROVE Said(more, other, total - len) = Newline
  <2>1. PICK p \in 1..total : p = total - len
    BY <1>5, <1>7
  <2>2. Said(all, line, p) = Newline
    BY <1>1, <1>7, <2>1 DEF Told
  <2>3. Said(more, other, p) = more[p]
    BY <1>2 DEF Said
  <2> QED BY <1>2, <2>1, <2>2, <2>3
<1>8. lines + 1 <= Cardinality(Ends(more, len, total))
  <2> DEFINE old == Ends(all, len, total)
             now == Ends(more, len, total)
  <2>1. IsFiniteSet(old) /\ Cardinality(old) \in Nat /\ IsFiniteSet(now) /\ Cardinality(now) \in Nat
    BY <1>2, EndsFinite
  <2>2. old \subseteq now
    <3>1. ASSUME NEW p \in Nat, total - len < p, p <= Len(all) PROVE p \in 1..Len(all) /\ p <= total
      BY <1>4, <1>5, <3>1
    <3> QED BY <1>2, <1>3, <3>1 DEF Ends
  <2>3. total \in now /\ total \notin old
    <3>1. total - len < total
      BY <1>1
    <3> QED BY <1>2, <1>4, <3>1 DEF Ends
  <2> HIDE DEF old, now
  <2>4. Cardinality(old \cup {total}) = Cardinality(old) + 1
    BY <2>1, <2>3, FS_AddElement
  <2>5. Cardinality(old \cup {total}) <= Cardinality(now)
    BY <2>1, <2>2, <2>3, FS_Subset
  <2>6. lines <= Cardinality(old)
    BY <1>1 DEF Told, old
  <2> QED BY <2>1, <2>4, <2>5, <2>6 DEF now
<1>9. Told(text, len, lines + 1, more, other, total)
  BY <1>5, <1>6, <1>7, <1>8 DEF Told
<1> QED BY <1>2, <1>4, <1>9 DEF WholeLines, more

\* Before the first character of a line, it is any line.
LEMMA AnyLine ==
    ASSUME NEW r \in Rings, NEW all \in Seq(Characters), NEW line, NEW other, Holding(r, all, line, 0)
    PROVE  Holding(r, all, other, 0)
<1>1. PICK len \in Nat, total \in Nat : len = r.len /\ total = Len(all) /\ total = Len(all) + 0
  BY Fields
<1>2. Told(TextOf(r), len, r.lines, all, line, total)
  BY <1>1 DEF Holding
<1>3. ASSUME NEW p \in Nat, p <= total PROVE Said(all, line, p) = Said(all, other, p)
  BY <1>1, <1>3 DEF Said
<1>4. ASSUME NEW i \in 1..len, len <= total PROVE (total - len) + i \in Nat /\ (total - len) + i <= total
  BY <1>4
<1>5. len <= total /\ total - len \in Nat /\ total - len <= total
  BY <1>2 DEF Told
<1>6. Told(TextOf(r), len, r.lines, all, other, total)
  BY <1>2, <1>3, <1>4, <1>5 DEF Told
<1> QED BY <1>1, <1>6 DEF Holding

\* An emptied ring holds nothing, of nothing.
LEMMA NothingIsSaid ==
    ASSUME NEW r \in Rings, r.len = 0, r.lines = 0, NEW line
    PROVE  Holding(r, <<>>, line, 0)
<1>1. Len(<<>>) + 0 = 0 /\ <<>> \in Seq(Characters)
  OBVIOUS
<1>2. Cardinality(Ends(<<>>, 0, 0)) \in Nat
  BY <1>1, EndsFinite
<1> QED BY <1>1, <1>2 DEF Holding, Told

\* What a ring that holds nothing else shows, and the lines it counts.
LEMMA Shown ==
    ASSUME NEW r \in Rings, NEW all \in Seq(Characters), Holding(r, all, <<>>, 0)
    PROVE  LET from == Len(all) - r.len
           IN /\ from >= 0 /\ TextOf(r) = SubSeq(all, from + 1, Len(all))
              /\ from > 0 => all[from] = Newline
              /\ r.lines <= Cardinality({i \in 1..r.len : At(r, i - 1) = Newline})
<1>1. PICK len \in Nat, total \in Nat : len = r.len /\ total = Len(all) /\ total = Len(all) + 0
  BY Fields
<1>2. Told(TextOf(r), len, r.lines, all, <<>>, total)
  BY <1>1 DEF Holding
<1>3. PICK from \in Nat : from = total - len
  BY <1>2 DEF Told
<1>4. ASSUME NEW p \in Nat, p <= total PROVE Said(all, <<>>, p) = all[p]
  BY <1>1, <1>4 DEF Said
<1>5. ASSUME NEW i \in 1..len PROVE TextOf(r)[i] = all[from + i]
  <2>1. from + i \in Nat /\ from + i <= total
    BY <1>3
  <2> QED BY <1>2, <1>3, <1>4, <2>1 DEF Told
<1>6. TextOf(r) = SubSeq(all, from + 1, total)
  <2>1. TextOf(r) = [i \in 1..len |-> TextOf(r)[i]]
    BY <1>1 DEF TextOf
  <2>2. SubSeq(all, from + 1, total) = [i \in 1..len |-> all[from + i]]
    <3>1. (total - (from + 1)) + 1 = len
      BY <1>3
    <3>2. ASSUME NEW i \in 1..len PROVE (from + 1) + i - 1 = from + i
      OBVIOUS
    <3>3. /\ SubSeq(all, from + 1, total) \in Seq(Characters)
          /\ Len(SubSeq(all, from + 1, total)) = len
          /\ \A i \in 1..len : SubSeq(all, from + 1, total)[i] = all[from + i]
      <4>1. from + 1 \in 1..(Len(all) + 1) /\ total \in from..Len(all)
        BY <1>1, <1>3
      <4>2. /\ SubSeq(all, from + 1, total) \in Seq(Characters)
            /\ Len(SubSeq(all, from + 1, total)) = IF from + 1 <= total THEN total - (from + 1) + 1 ELSE 0
            /\ \A i \in 1..total - (from + 1) + 1 : SubSeq(all, from + 1, total)[i] = all[(from + 1) + i - 1]
        <5>1. \A i \in (from + 1)..total : all[i] \in Characters
          BY <4>1
        <5> QED BY <1>1, <5>1, SubSeqProperties
      <4>3. (IF from + 1 <= total THEN total - (from + 1) + 1 ELSE 0) = len
            /\ total - (from + 1) + 1 = len
        BY <1>3
      <4>4. ASSUME NEW i \in 1..len PROVE SubSeq(all, from + 1, total)[i] = all[from + i]
        BY <3>2, <4>2, <4>3
      <4> QED BY <4>2, <4>3, <4>4
    <3> DEFINE cut == SubSeq(all, from + 1, total)
    <3>4. cut \in Seq(Characters) /\ Len(cut) = len /\ \A i \in 1..len : cut[i] = all[from + i]
      BY <3>3
    <3> HIDE DEF cut
    <3>5. cut = [i \in 1..len |-> cut[i]]
      BY <3>4
    <3> QED BY <3>4, <3>5 DEF cut
  <2> QED BY <1>5, <2>1, <2>2
<1>7. from > 0 => all[from] = Newline
  <2>1. from > 0 => len < total
    BY <1>3
  <2>2. from <= total
    BY <1>3
  <2> QED BY <1>2, <1>3, <1>4, <2>1, <2>2 DEF Told
<1>8. r.lines <= Cardinality({i \in 1..len : At(r, i - 1) = Newline})
  <2> DEFINE ends == Ends(all, len, total)
             marks == {i \in 1..len : At(r, i - 1) = Newline}
             f == [p \in ends |-> p - from]
  <2>1. IsFiniteSet(marks) /\ Cardinality(marks) \in Nat
    <3>1. IsFiniteSet(1..len)
      BY FS_Interval
    <3>2. marks \subseteq 1..len
      OBVIOUS
    <3> QED BY <3>1, <3>2, FS_Subset, FS_CardinalityType
  <2>2. ASSUME NEW p \in ends PROVE p - from \in marks /\ p \in Nat
    <3>1. p \in Nat /\ total - len < p /\ p <= total /\ all[p] = Newline
      BY <1>1 DEF Ends
    <3>2. PICK i \in 1..len : i = p - from /\ from + i = p
      BY <1>3, <3>1
    <3>3. At(r, i - 1) = Newline
      BY <1>1, <1>5, <3>1, <3>2, TextIs
    <3> QED BY <3>1, <3>2, <3>3
  <2>3. f \in Injection(ends, marks)
    <3> HIDE DEF ends, marks
    <3>1. f \in [ends -> marks]
      BY <2>2
    <3>2. ASSUME NEW p \in ends, NEW q \in ends, f[p] = f[q] PROVE p = q
      <4>1. p - from = q - from /\ p \in Nat /\ q \in Nat
        BY <2>2, <3>2
      <4> QED BY <4>1
    <3> QED BY <3>1, <3>2 DEF Injection, IsInjective
  <2> HIDE DEF ends, marks, f
  <2>4. Cardinality(ends) <= Cardinality(marks) /\ Cardinality(ends) \in Nat
    BY <2>1, <2>3, FS_Injection, EndsFinite DEF ends
  <2>5. r.lines <= Cardinality(ends) /\ r.lines \in Nat
    BY <1>2, Fields DEF Told, ends
  <2> QED BY <2>1, <2>4, <2>5 DEF marks
<1> QED BY <1>1, <1>3, <1>6, <1>7, <1>8

-----------------------------------------------------------------------------
(* What is left of a sequence whose first k are done                       *)

Remains(left, whole, k, S) ==
    /\ left \in Seq(S) /\ Len(left) = Len(whole) - k
    /\ \A i \in 1..Len(left) : left[i] = whole[k + i]

\* At the start everything is left to do.
LEMMA AllRemains ==
    ASSUME NEW S, NEW whole \in Seq(S)
    PROVE  Remains(whole, whole, 0, S)
BY DEF Remains

\* The next thing done leaves the rest of it.
LEMMA OneDone ==
    ASSUME NEW S, NEW whole \in Seq(S), NEW k \in 0..Len(whole), NEW left, Remains(left, whole, k, S)
    PROVE  /\ left \in Seq(S) /\ (left = <<>> <=> k = Len(whole))
           /\ left # <<>> => /\ k + 1 \in 1..Len(whole) /\ Head(left) = whole[k + 1]
                             /\ Remains(Tail(left), whole, k + 1, S)
<1>1. /\ left \in Seq(S) /\ Len(left) = Len(whole) - k
      /\ \A i \in 1..Len(left) : left[i] = whole[k + i]
  BY DEF Remains
<1>2. left = <<>> <=> k = Len(whole)
  BY <1>1
<1>3. ASSUME left # <<>>
      PROVE  /\ k + 1 \in 1..Len(whole) /\ Head(left) = whole[k + 1]
             /\ Remains(Tail(left), whole, k + 1, S)
  <2>1. Len(left) >= 1 /\ Head(left) = left[1] /\ k + 1 \in 1..Len(whole)
    BY <1>1, <1>3
  <2>2. /\ Tail(left) \in Seq(S) /\ Len(Tail(left)) = Len(left) - 1
        /\ \A i \in 1..Len(Tail(left)) : Tail(left)[i] = left[i + 1]
    BY <1>1, <1>3
  <2>3. Len(Tail(left)) = Len(whole) - (k + 1)
    BY <1>1, <2>2
  <2>4. ASSUME NEW i \in 1..Len(Tail(left)) PROVE Tail(left)[i] = whole[(k + 1) + i]
    <3>1. i + 1 \in 1..Len(left) /\ k + (i + 1) = (k + 1) + i
      BY <1>1, <2>2
    <3> QED BY <1>1, <2>2, <3>1
  <2> QED BY <1>1, <2>1, <2>2, <2>3, <2>4 DEF Remains
<1> QED BY <1>1, <1>2, <1>3

-----------------------------------------------------------------------------
(* The log                                                                 *)

\* While a line is written, the ring holds a part of it after the lines before, and its checksum
\* is that of the header before the first store.
Writing(j, r, all) ==
    j # Empty /\ j.is = "log" =>
        /\ Len(j.line) \in 1..RING_BYTES /\ j.line[Len(j.line)] = Newline /\ r.magic
        /\ \E part \in 0..Len(j.line) :
               /\ Remains(j.left, j.line, part, Characters) /\ part <= r.len
               /\ Holding(r, all, j.line, part)
               /\ (part = 0 /\ r.crc = RingCrc(r)) \/ Stale(r)

\* A ring that checks out holds the lines logged in full, and nothing else.
Resting(r, all) == RingValid(r) => Holding(r, all, <<>>, 0)

LogInv ==
    /\ ring \in Rings /\ written \in Seq(Characters) /\ WholeLines(written)
    /\ job \in Jobs \cup {Empty}
    /\ Writing(job, ring, written)
    /\ Resting(ring, written)

\* A ring under a checksum from before does not check out.
LEMMA StaleIsInvalid ==
    ASSUME NEW r \in Rings, Stale(r)
    PROVE  ~RingValid(r)
<1>1. PICK m \in BOOLEAN, h \in Nat, l \in Nat, n \in Nat, d \in Nat :
          r.crc = <<m, h, l, n, d>> /\ (d < r.dropped \/ (d = r.dropped /\ l < r.len))
  BY DEF Stale
<1>2. SUFFICES ASSUME r.crc = <<r.magic, r.head, r.len, r.lines, r.dropped>> PROVE FALSE
  BY DEF RingValid, RingCrc
<1>3. l = r.len /\ d = r.dropped
  BY <1>1, <1>2
<1> QED BY <1>1, <1>3, Fields

\* Memory without power.
LEMMA ZeroIs == Zero \in Rings /\ Zero.len = 0 /\ Zero.lines = 0 /\ ~RingValid(Zero)
<1> DEFINE none == [i \in 0..RING_BYTES - 1 |-> Empty]
<1>1. Zero = [magic |-> FALSE, head |-> 0, len |-> 0, lines |-> 0, dropped |-> 0, crc |-> Empty,
              bytes |-> none]
  BY DEF Zero
<1>2. none \in [0..RING_BYTES - 1 -> Cells] /\ Empty \in Sums /\ 0 \in 0..RING_BYTES - 1
      /\ 0 \in 0..RING_BYTES
  BY Sizes DEF Cells, Sums
<1> HIDE DEF none
<1>3. Zero \in Rings /\ Zero.len = 0 /\ Zero.lines = 0
  BY <1>1, <1>2 DEF Rings
<1>4. ~Zero.magic
  BY <1>1
<1> QED BY <1>3, <1>4 DEF RingValid, RingInRange

\* A ring that is signed checks out.
LEMMA Signed ==
    ASSUME NEW r \in Rings
    PROVE  LET new == RingSigned(r)
           IN /\ new \in Rings /\ new.len = r.len /\ new.lines = r.lines /\ new.head = r.head
              /\ new.bytes = r.bytes /\ (new.magic <=> r.magic) /\ new.crc = RingCrc(new)
<1> DEFINE crc == RingCrc(r)
           new == RingSigned(r)
<1>1. crc \in Sums
  <2>1. r.len \in Nat /\ r.lines \in Nat /\ r.head \in Nat /\ r.dropped \in Nat /\ r.magic \in BOOLEAN
    BY Sizes DEF Rings
  <2> QED BY <2>1 DEF RingCrc, Sums
<1>2. new = [r EXCEPT !.crc = crc]
  BY DEF RingSigned
<1> HIDE DEF crc, new
<1>3. /\ new \in Rings /\ new.len = r.len /\ new.lines = r.lines /\ new.head = r.head
      /\ new.bytes = r.bytes /\ new.magic = r.magic /\ new.dropped = r.dropped /\ new.crc = crc
  BY <1>1, <1>2 DEF Rings
<1>4. new.crc = RingCrc(new)
  BY <1>3 DEF RingCrc, crc
<1> QED BY <1>3, <1>4 DEF new

\* A ring that is started again is in order and empty.
LEMMA Emptied ==
    ASSUME NEW r \in Rings
    PROVE  LET new == RingReset(r)
           IN /\ new \in Rings /\ RingValid(new) /\ Holding(new, <<>>, <<>>, 0)
<1> DEFINE bare == [Zero EXCEPT !.magic = TRUE, !.bytes = r.bytes]
           new == RingReset(r)
<1>1. r.bytes \in [0..RING_BYTES - 1 -> Cells] /\ Zero \in Rings /\ Zero.len = 0 /\ Zero.lines = 0
  BY Fields, ZeroIs
<1>2. bare \in Rings /\ bare.len = 0 /\ bare.lines = 0
  <2> DEFINE bytes == r.bytes
             yes == TRUE
  <2>1. bytes \in [0..RING_BYTES - 1 -> Cells] /\ yes \in BOOLEAN
    BY <1>1
  <2> HIDE DEF bytes, yes
  <2>2. LET b == [Zero EXCEPT !.magic = yes, !.bytes = bytes]
        IN b \in Rings /\ b.len = 0 /\ b.lines = 0
    BY <1>1, <2>1 DEF Rings
  <2> QED BY <2>2 DEF bytes, yes
<1>3. bare.magic
  BY <1>1 DEF Rings
<1>4. new = RingSigned(bare)
  BY DEF RingReset
<1> HIDE DEF bare, new
<1>5. /\ new \in Rings /\ new.len = 0 /\ new.lines = 0 /\ new.magic /\ new.crc = RingCrc(new)
  BY <1>2, <1>3, <1>4, Signed
<1>6. RingValid(new)
  BY <1>5, Fields, Sizes DEF RingValid, RingInRange
<1> QED BY <1>5, <1>6, NothingIsSaid DEF new

\* A line starts on a ring that checks out: what it held, or none.
LEMMA StartedIs ==
    ASSUME NEW r \in Rings, NEW all \in Seq(Characters), WholeLines(all), Resting(r, all),
           NEW after, after = IF RingValid(r) THEN all ELSE <<>>
    PROVE  /\ Started(r) \in Rings /\ RingValid(Started(r)) /\ after \in Seq(Characters) /\ WholeLines(after)
           /\ Holding(Started(r), after, <<>>, 0)
<1>1. CASE RingValid(r)
  BY <1>1 DEF Started, Resting
<1>2. CASE ~RingValid(r)
  BY <1>2, Emptied DEF Started, WholeLines
<1> QED BY <1>1, <1>2

\* The first store of a line.
LEMMA NewLine ==
    ASSUME NEW r \in Rings, RingValid(r), NEW all \in Seq(Characters), Holding(r, all, <<>>, 0),
           NEW line \in Seq(Characters), Len(line) < RING_BYTES, NEW then \in {"run", "reset"}
    PROVE  Log(line, then) \in Jobs /\ Writing(Log(line, then), r, all)
<1> DEFINE full == Append(line, Newline)
           j == Log(line, then)
<1>1. full \in Seq(Characters) /\ Len(full) \in 1..RING_BYTES /\ full[Len(full)] = Newline
  <2>1. Newline \in Characters
    BY DEF Characters
  <2>2. full \in Seq(Characters) /\ Len(full) = Len(line) + 1 /\ full[Len(line) + 1] = Newline
    BY <2>1
  <2> QED BY <2>2, Sizes
<1>2. j = [is |-> "log", left |-> full, line |-> full, then |-> then]
  BY DEF Log
<1> HIDE DEF full, j
<1>3. j \in Jobs /\ j.left = full /\ j.line = full
  BY <1>1, <1>2 DEF Jobs, LineJobs
<1>4. Remains(full, full, 0, Characters) /\ 0 \in 0..Len(full) /\ 0 <= r.len
  BY <1>1, AllRemains, Fields
<1>5. Holding(r, all, full, 0)
  BY AnyLine
<1>6. r.magic /\ r.crc = RingCrc(r)
  BY DEF RingValid, RingInRange
<1>7. Writing(j, r, all)
  BY <1>1, <1>3, <1>4, <1>5, <1>6 DEF Writing
<1> QED BY <1>3, <1>7 DEF j

\* One character of the line more: the checksum is not that of the header now.
LEMMA OnePushed ==
    ASSUME NEW r \in Rings, NEW all \in Seq(Characters), WholeLines(all), NEW j \in LineJobs, j # Empty,
           Writing(j, r, all), j.left # <<>>
    PROVE  LET new == PushByte(r, Head(j.left))
               next == [j EXCEPT !.left = Tail(@)]
           IN new \in Rings /\ next \in LineJobs /\ Writing(next, new, all) /\ ~RingValid(new)
<1> DEFINE new == PushByte(r, Head(j.left))
           next == [j EXCEPT !.left = Tail(@)]
<1>1. j.is = "log" /\ j.line \in Seq(Characters) /\ j.left \in Seq(Characters)
  BY DEF LineJobs
<1>2. PICK part \in 0..Len(j.line) :
          /\ Remains(j.left, j.line, part, Characters) /\ part <= r.len /\ Holding(r, all, j.line, part)
          /\ (part = 0 /\ r.crc = RingCrc(r)) \/ Stale(r)
  BY <1>1 DEF Writing
<1>3. Len(j.line) \in 1..RING_BYTES /\ j.line[Len(j.line)] = Newline /\ r.magic
  BY <1>1 DEF Writing
<1>4. /\ part + 1 \in 1..Len(j.line) /\ Head(j.left) = j.line[part + 1]
      /\ Remains(Tail(j.left), j.line, part + 1, Characters)
  BY <1>1, <1>2, OneDone
<1>5. part \in Nat /\ part < Len(j.line) /\ Len(j.line) <= RING_BYTES
  BY <1>1, <1>3, <1>4, Sizes
<1>6. /\ new \in Rings /\ part + 1 <= new.len /\ new.magic = r.magic /\ new.crc = r.crc
      /\ new.dropped > r.dropped \/ (new.dropped = r.dropped /\ new.len > r.len)
      /\ Holding(new, all, j.line, part + 1)
  BY <1>1, <1>2, <1>4, <1>5, Pushed
<1>7. /\ next \in LineJobs /\ next.is = "log" /\ next.line = j.line /\ next.left = Tail(j.left)
  BY <1>1, <1>4 DEF LineJobs, Remains
<1> HIDE DEF new, next
<1>8. Stale(new)
  <2>1. PICK m \in BOOLEAN, h \in Nat, l \in Nat, n \in Nat, d \in Nat :
            r.crc = <<m, h, l, n, d>> /\ (d < r.dropped \/ (d = r.dropped /\ l <= r.len))
    <3>1. CASE Stale(r)
      <4>1. PICK m \in BOOLEAN, h \in Nat, l \in Nat, n \in Nat, d \in Nat :
                r.crc = <<m, h, l, n, d>> /\ (d < r.dropped \/ (d = r.dropped /\ l < r.len))
        BY <3>1 DEF Stale
      <4>2. d < r.dropped \/ (d = r.dropped /\ l <= r.len)
        BY <4>1, Fields
      <4> QED BY <4>1, <4>2
    <3>2. CASE r.crc = RingCrc(r)
      <4>1. /\ r.crc = <<r.magic, r.head, r.len, r.lines, r.dropped>>
            /\ r.magic \in BOOLEAN /\ r.head \in Nat
        BY <3>2, Sizes DEF RingCrc, Rings
      <4>2. r.len \in Nat /\ r.lines \in Nat /\ r.dropped \in Nat /\ r.len <= r.len
        BY Fields
      <4> QED BY <4>1, <4>2
    <3> QED BY <1>2, <3>1, <3>2
  <2>2. d < new.dropped \/ (d = new.dropped /\ l < new.len)
    <3>1. r.len \in Nat /\ r.dropped \in Nat /\ new.len \in Nat /\ new.dropped \in Nat
      BY <1>6, Fields
    <3>2. ASSUME NEW a \in Nat, NEW b \in Nat, NEW u \in Nat, NEW v \in Nat,
                 u > a \/ (u = a /\ v > b), d < a \/ (d = a /\ l <= b)
          PROVE  d < u \/ (d = u /\ l < v)
      BY <3>2
    <3> QED BY <1>6, <2>1, <3>1, <3>2
  <2> QED BY <1>6, <2>1, <2>2 DEF Stale
<1>9. Writing(next, new, all)
  <2>1. part + 1 \in 0..Len(j.line)
    BY <1>4
  <2> QED BY <1>3, <1>4, <1>6, <1>7, <1>8, <2>1 DEF Writing
<1> QED BY <1>6, <1>7, <1>8, <1>9, StaleIsInvalid DEF new, next

\* The last store of a line.
LEMMA LineFinished ==
    ASSUME NEW r \in Rings, NEW all \in Seq(Characters), NEW j \in LineJobs, j # Empty,
           Writing(j, r, all), j.left = <<>>
    PROVE  LET new == RingSigned([r EXCEPT !.lines = @ + 1])
           IN /\ new \in Rings /\ all \o j.line \in Seq(Characters) /\ WholeLines(all \o j.line)
              /\ Holding(new, all \o j.line, <<>>, 0)
<1> DEFINE counted == [r EXCEPT !.lines = @ + 1]
           new == RingSigned(counted)
           more == all \o j.line
<1>1. j.is = "log" /\ j.line \in Seq(Characters)
  BY DEF LineJobs
<1>2. PICK part \in 0..Len(j.line) :
          Remains(j.left, j.line, part, Characters) /\ part <= r.len /\ Holding(r, all, j.line, part)
  BY <1>1 DEF Writing
<1>3. Len(j.line) \in 1..RING_BYTES /\ j.line[Len(j.line)] = Newline
  BY <1>1 DEF Writing
<1>4. part = Len(j.line)
  BY <1>1, <1>2, OneDone
<1>5. r.len \in Nat /\ r.lines \in Nat /\ r.head \in Nat /\ r.dropped \in Nat /\ r.magic \in BOOLEAN
  BY Sizes DEF Rings
<1>6. /\ more \in Seq(Characters) /\ WholeLines(more)
      /\ Told(TextOf(r), r.len, r.lines + 1, more, <<>>, Len(more))
  <2>1. Told(TextOf(r), r.len, r.lines, all, j.line, Len(all) + Len(j.line))
    BY <1>2, <1>4 DEF Holding
  <2>2. Len(j.line) >= 1 /\ Len(j.line) <= r.len
    BY <1>2, <1>3, <1>4
  <2> QED BY <1>1, <1>3, <1>5, <2>1, <2>2, Closed
<1>7. counted \in Rings
  BY <1>5, SMTT(60) DEF Rings
<1>8. /\ counted.len = r.len /\ counted.lines = r.lines + 1 /\ counted.head = r.head
      /\ counted.bytes = r.bytes /\ counted.dropped = r.dropped /\ counted.magic = r.magic
  BY DEF Rings
<1> HIDE DEF counted, more
<1>9. /\ new \in Rings /\ new.len = r.len /\ new.lines = r.lines + 1 /\ new.head = r.head
      /\ new.bytes = r.bytes
  BY <1>7, <1>8, Signed
<1> HIDE DEF new
<1>10. TextOf(new) = TextOf(r)
  BY <1>9 DEF TextOf, At
<1>11. Len(more) + 0 = Len(more)
  BY <1>6
<1>12. Holding(new, more, <<>>, 0)
  BY <1>6, <1>9, <1>10, <1>11 DEF Holding
<1> QED BY <1>6, <1>9, <1>12 DEF new, counted, more

\* What a job of each kind is.
LEMMA JobKinds ==
    ASSUME NEW j \in Jobs
    PROVE  /\ j.is = "log" => j \in LineJobs
           /\ j.is = "panic" => j \in PanicJobs
           /\ j \in PanicJobs => j.is = "panic"
           /\ Resetting \in Jobs /\ Resetting.is = "reset"
BY DEF Jobs, LineJobs, PanicJobs, Resetting

\* A line is begun.
LEMMA LineStarted ==
    ASSUME LogInv, NEW line \in Lines \cup PanicTexts, NEW then \in {"run", "reset"},
           StartLine(line, then)
    PROVE  LogInv'
<1>1. ring \in Rings /\ written \in Seq(Characters) /\ WholeLines(written) /\ Resting(ring, written)
  BY DEF LogInv
<1>2. line \in Seq(Characters) /\ Len(line) < RING_BYTES
  BY DiagAssumption
<1>3. /\ ring' \in Rings /\ RingValid(ring') /\ written' \in Seq(Characters) /\ WholeLines(written')
      /\ Holding(ring', written', <<>>, 0)
  BY <1>1, StartedIs DEF StartLine
<1>4. job' \in Jobs /\ Writing(job', ring', written')
  BY <1>2, <1>3, NewLine DEF StartLine
<1> QED BY <1>3, <1>4 DEF LogInv, Resting

\* A character of a line is written.
LEMMA LogInvPush ==
    ASSUME LogInv, Push
    PROVE  LogInv'
<1>1. /\ ring \in Rings /\ written \in Seq(Characters) /\ WholeLines(written)
      /\ Writing(job, ring, written)
  BY DEF LogInv
<1>2. job \in LineJobs /\ job # Empty /\ job.left # <<>>
  BY JobKinds DEF LogInv, Push, Running
<1>3. /\ ring' = PushByte(ring, Head(job.left)) /\ job' = [job EXCEPT !.left = Tail(@)]
      /\ written' = written
  BY DEF Push
<1>4. ring' \in Rings /\ job' \in LineJobs /\ Writing(job', ring', written) /\ ~RingValid(ring')
  BY <1>1, <1>2, <1>3, OnePushed
<1> QED BY <1>1, <1>3, <1>4 DEF LogInv, Resting, Jobs

\* The line is whole: it is counted, and the ring is signed.
LEMMA LogInvFinishLine ==
    ASSUME LogInv, FinishLine
    PROVE  LogInv'
<1>1. /\ ring \in Rings /\ written \in Seq(Characters) /\ WholeLines(written)
      /\ Writing(job, ring, written)
  BY DEF LogInv
<1>2. job \in LineJobs /\ job \in Jobs /\ job # Empty /\ job.left = <<>>
  BY JobKinds DEF LogInv, FinishLine, Running
<1>3. ring' = RingSigned([ring EXCEPT !.lines = @ + 1]) /\ written' = written \o job.line
      /\ job' \in {Empty, Resetting}
  BY DEF FinishLine
<1>4. /\ ring' \in Rings /\ written' \in Seq(Characters) /\ WholeLines(written')
      /\ Holding(ring', written', <<>>, 0)
  BY <1>1, <1>2, <1>3, LineFinished
<1>5. job' \in Jobs \cup {Empty} /\ ~(job' # Empty /\ job'.is = "log")
  BY <1>2, <1>3, JobKinds
<1> QED BY <1>4, <1>5 DEF LogInv, Resting, Writing

\* The board starts, with the ring as it is.
LEMMA LogInvReset ==
    ASSUME LogInv, Reset
    PROVE  LogInv'
<1>1. ring \in Rings /\ written \in Seq(Characters) /\ WholeLines(written) /\ Resting(ring, written)
  BY DEF LogInv
<1>2. /\ ring' = ring /\ written' = written
      /\ job' = IF RingValid(ring) /\ ring.len > 0 THEN Log(<<"-">>, "run") ELSE Empty
  BY DEF Reset, StartUp
<1>3. <<"-">> \in Seq(Characters) /\ Len(<<"-">>) < RING_BYTES
  <2>1. ASSUME NEW c \in Characters PROVE <<c>> \in Seq(Characters) /\ Len(<<c>>) = 1
    OBVIOUS
  <2>2. "-" \in Characters
    BY DEF Characters
  <2> QED BY <2>1, <2>2, Sizes
<1>4. job' \in Jobs \cup {Empty} /\ Writing(job', ring, written)
  <2>1. CASE RingValid(ring) /\ ring.len > 0
    <3>1. Holding(ring, written, <<>>, 0)
      BY <1>1, <2>1 DEF Resting
    <3> QED BY <1>1, <1>2, <1>3, <2>1, <3>1, NewLine
  <2>2. CASE ~(RingValid(ring) /\ ring.len > 0)
    BY <1>2, <2>2 DEF Writing
  <2> QED BY <2>1, <2>2
<1> QED BY <1>1, <1>2, <1>4 DEF LogInv

\* Nothing is left of the ring, nor of what was logged.
LEMMA LogInvPowerCut ==
    ASSUME LogInv, PowerCut
    PROVE  LogInv'
<1>1. ring' = Zero /\ written' = <<>> /\ job' = Empty
  BY ZeroIs DEF PowerCut, StartUp
<1> QED BY <1>1, ZeroIs DEF LogInv, WholeLines, Writing, Resting

\* Dismissing the record empties the ring.
LEMMA LogInvForget ==
    ASSUME LogInv, Forget
    PROVE  LogInv'
<1>1. ring \in Rings
  BY DEF LogInv
<1>2. ring' = RingReset(ring) /\ written' = <<>> /\ job' = Empty
  BY DEF Forget, Running
<1>3. ring' \in Rings /\ Holding(ring', <<>>, <<>>, 0)
  BY <1>1, <1>2, Emptied
<1> QED BY <1>2, <1>3 DEF LogInv, WholeLines, Writing, Resting

\* A record of a panic takes six stores.
LEMMA StoresAre == Stores \in Seq(PanicFields) /\ Len(Stores) = 6
BY DEF Stores, PanicFields

\* The ring stays as it is while a panic is recorded, even if it cut a line short.
LEMMA LogInvPanic ==
    ASSUME LogInv, (\E panic \in PanicTexts : Panic(panic)) \/ Store
    PROVE  LogInv'
<1>1. UNCHANGED <<ring, written>>
  BY DEF Panic, Store
<1>2. job' \in PanicJobs
  <2>1. ASSUME NEW panic \in PanicTexts, Panic(panic) PROVE job' \in PanicJobs
    BY <2>1, StoresAre DEF Panic, PanicJobs
  <2>2. ASSUME Store PROVE job' \in PanicJobs
    <3>1. job \in PanicJobs /\ job.left # <<>> /\ job' = [job EXCEPT !.left = Tail(@)]
      BY <2>2, JobKinds DEF LogInv, Store, Running
    <3>2. job.left \in Seq(PanicFields)
      BY <3>1 DEF PanicJobs
    <3>3. Tail(job.left) \in Seq(PanicFields)
      <4>1. ASSUME NEW s \in Seq(PanicFields), s # <<>> PROVE Tail(s) \in Seq(PanicFields)
        BY <4>1
      <4> QED BY <3>1, <3>2, <4>1
    <3> QED BY <3>1, <3>3 DEF PanicJobs
  <2> QED BY <2>1, <2>2
<1>3. job' \in Jobs /\ job'.is = "panic"
  BY <1>2, JobKinds DEF Jobs
<1>4. Writing(job', ring', written')
  BY <1>3 DEF Writing
<1> QED BY <1>1, <1>3, <1>4 DEF LogInv

\* Every step keeps what holds of the log.
LEMMA LogInvNext ==
    ASSUME LogInv, [DiagNext]_diagVars
    PROVE  LogInv'
<1>1. ASSUME NEW line \in Lines, LogLine(line) PROVE LogInv'
  BY <1>1, LineStarted DEF LogLine
<1>2. ASSUME PanicLine PROVE LogInv'
  <2>1. job \in PanicJobs
    BY <1>2, JobKinds DEF LogInv, PanicLine, Running
  <2>2. job.panic \in PanicTexts
    BY <2>1 DEF PanicJobs
  <2> QED BY <1>2, <2>2, LineStarted DEF PanicLine
<1>3. ASSUME UNCHANGED <<ring, written, job>> PROVE LogInv'
  BY <1>3 DEF LogInv
<1>4. ASSUME BeginFetch \/ Fetch \/ UNCHANGED diagVars PROVE LogInv'
  BY <1>3, <1>4 DEF BeginFetch, Fetch, diagVars
<1> QED BY <1>1, <1>2, <1>4, LogInvPush, LogInvFinishLine, LogInvReset, LogInvPowerCut, LogInvForget,
           LogInvPanic DEF DiagNext, Stride

-----------------------------------------------------------------------------
(* The panic record                                                        *)

PanicSums == {Empty} \cup (BOOLEAN \X Nat \X Nat \X BOOLEAN \X Seq(Cells))
PanicRecords == [magic : BOOLEAN, boots : Nat, len : 0..TEXT, truncated : BOOLEAN, crc : PanicSums,
                 text : [1..TEXT -> Cells]]

\* The record is of the panic that was recorded last, and there is none when none was.
Matches(p, k) ==
    \/ k = Empty /\ ~p.magic
    \/ /\ k \in Reports /\ p.magic /\ p.crc = PanicCrc(p)
       /\ k.text = SubSeq(p.text, 1, p.len) /\ (k.truncated <=> p.truncated) /\ k.boots = p.boots

\* What the first k stores of a record leave.
Stage(k, panic, p) ==
    /\ k >= 1 => \A i \in 1..Took(panic) : p.text[i] = Plain(panic[i])
    /\ k >= 2 => p.magic
    /\ k >= 3 => p.boots = 0
    /\ k >= 4 => p.len = Took(panic)
    /\ k >= 5 => (p.truncated <=> Len(panic) > TEXT)

Recording(j, p) ==
    j # Empty /\ j.is = "panic" =>
        \E k \in 0..6 : Remains(j.left, Stores, k, PanicFields) /\ Stage(k, j.panic, p)

\* Some of the stores of a record are made, and some are not.
Midway(j) == j # Empty /\ j.is = "panic" /\ Len(j.left) \in 1..Len(Stores) - 1

PanicInv ==
    /\ record \in PanicRecords /\ torn \in BOOLEAN
    /\ uses \in [logged : Nat, resets : 0..MaxResets, reads : Nat]
    /\ record.boots <= uses.resets
    /\ Recording(job, record)
    /\ ~torn /\ ~Midway(job) => Matches(record, kept)

\* The record, a read and the resets are counted by numbers.
LEMMA TextSizes == TEXT \in Nat /\ CHUNK \in Nat /\ MaxResets \in Nat
BY DiagAssumption

\* What is taken of a message fits the record.
LEMMA TookIs ==
    ASSUME NEW panic \in PanicTexts
    PROVE  /\ Took(panic) \in 0..TEXT /\ Took(panic) \in Nat /\ Took(panic) <= Len(panic)
           /\ \A i \in 1..Took(panic) : Plain(panic[i]) \in Characters
<1>1. panic \in Seq(Characters)
  BY DiagAssumption
<1>2. Took(panic) \in 0..TEXT /\ Took(panic) \in Nat /\ Took(panic) <= Len(panic)
  BY <1>1, TextSizes DEF Took
<1>3. "." \in Characters
  BY DEF Characters
<1>4. ASSUME NEW i \in 1..Took(panic) PROVE Plain(panic[i]) \in Characters
  <2>1. panic[i] \in Characters
    BY <1>1, <1>2
  <2> QED BY <1>3, <2>1 DEF Plain
<1> QED BY <1>2, <1>4

\* The text a record shows.
LEMMA RecordText ==
    ASSUME NEW p \in PanicRecords
    PROVE  /\ SubSeq(p.text, 1, p.len) \in Seq(Cells) /\ Len(SubSeq(p.text, 1, p.len)) = p.len
           /\ \A i \in 1..p.len : SubSeq(p.text, 1, p.len)[i] = p.text[i]
           /\ PanicCrc(p) \in PanicSums
<1>1. /\ p.len \in 0..TEXT /\ p.text \in [1..TEXT -> Cells] /\ p.magic \in BOOLEAN
      /\ p.truncated \in BOOLEAN /\ p.boots \in Nat
  BY DEF PanicRecords
<1>2. PICK n \in 0..TEXT : n = p.len
  BY <1>1
<1>3. n \in Nat /\ n <= TEXT
  BY TextSizes
<1>4. \A i \in 1..n : p.text[i] \in Cells
  BY <1>1, <1>3, TextSizes
<1>5. /\ SubSeq(p.text, 1, n) \in Seq(Cells)
      /\ Len(SubSeq(p.text, 1, n)) = IF 1 <= n THEN n - 1 + 1 ELSE 0
      /\ \A i \in 1..n - 1 + 1 : SubSeq(p.text, 1, n)[i] = p.text[1 + i - 1]
  BY <1>3, <1>4, SubSeqProperties
<1>6. n - 1 + 1 = n /\ (IF 1 <= n THEN n - 1 + 1 ELSE 0) = n /\ \A i \in 1..n : 1 + i - 1 = i
  BY <1>3
<1>7. PanicCrc(p) \in PanicSums
  BY <1>1, <1>2, <1>3, <1>5 DEF PanicCrc, PanicSums
<1> QED BY <1>2, <1>5, <1>6, <1>7

\* The boot ages the record and the report alike.
LEMMA AgedIs ==
    ASSUME NEW p \in PanicRecords
    PROVE  /\ Aged(p) \in PanicRecords /\ Aged(p).boots <= p.boots + 1
           /\ \A k : Matches(p, k) =>
                  Matches(Aged(p), IF k = Empty THEN Empty ELSE [k EXCEPT !.boots = @ + 1])
<1>1. p.boots \in Nat
  BY DEF PanicRecords
<1>2. CASE ~p.magic
  <2>1. Aged(p) = p
    BY <1>2 DEF Aged
  <2>2. ASSUME NEW k, Matches(p, k) PROVE k = Empty
    BY <1>2, <2>2 DEF Matches
  <2> QED BY <1>1, <2>1, <2>2
<1>3. CASE p.magic
  <2> DEFINE older == [p EXCEPT !.boots = @ + 1]
             crc == PanicCrc(older)
             new == [older EXCEPT !.crc = crc]
  <2>1. Aged(p) = new
    BY <1>3 DEF Aged
  <2>2. /\ older \in PanicRecords /\ older.magic = p.magic /\ older.len = p.len /\ older.text = p.text
        /\ older.truncated = p.truncated /\ older.boots = p.boots + 1
    BY <1>1 DEF PanicRecords
  <2> HIDE DEF older
  <2>3. crc \in PanicSums
    BY <2>2, RecordText
  <2> HIDE DEF crc
  <2>4. /\ new \in PanicRecords /\ new.magic = older.magic /\ new.len = older.len /\ new.text = older.text
        /\ new.truncated = older.truncated /\ new.boots = older.boots /\ new.crc = crc
    BY <2>2, <2>3 DEF PanicRecords
  <2> HIDE DEF new
  <2>5. new.crc = PanicCrc(new)
    BY <2>4 DEF PanicCrc, crc
  <2>6. ASSUME NEW k, Matches(p, k)
        PROVE  Matches(new, IF k = Empty THEN Empty ELSE [k EXCEPT !.boots = @ + 1])
    <3>1. /\ k \in Reports /\ k.text = SubSeq(p.text, 1, p.len) /\ (k.truncated <=> p.truncated)
          /\ k.boots = p.boots
      BY <1>3, <2>6 DEF Matches
    <3>2. k # Empty
      BY <3>1, DiagAssumption
    <3> DEFINE next == [k EXCEPT !.boots = @ + 1]
    <3>3. /\ next \in Reports /\ next.text = k.text /\ next.truncated = k.truncated
          /\ next.boots = k.boots + 1
      BY <1>1, <3>1 DEF Reports
    <3> HIDE DEF next
    <3>4. Matches(new, next)
      BY <1>3, <2>2, <2>4, <2>5, <3>1, <3>3 DEF Matches
    <3> QED BY <3>2, <3>4 DEF next
  <2>7. new.boots <= p.boots + 1
    BY <1>1, <2>2, <2>4
  <2> QED BY <2>1, <2>4, <2>6, <2>7
<1> QED BY <1>2, <1>3

\* What the screen shows of a record that matches.
LEMMA MatchIsShown ==
    ASSUME record \in PanicRecords, Matches(record, kept)
    PROVE  LastPanic = kept
<1>1. CASE kept = Empty /\ ~record.magic
  BY <1>1 DEF LastPanic
<1>2. CASE /\ kept \in Reports /\ record.magic /\ record.crc = PanicCrc(record)
           /\ kept.text = SubSeq(record.text, 1, record.len)
           /\ (kept.truncated <=> record.truncated) /\ kept.boots = record.boots
  <2>1. record.len <= TEXT
    BY TextSizes DEF PanicRecords
  <2>2. LastPanic = [text |-> SubSeq(record.text, 1, record.len), truncated |-> record.truncated,
                     boots |-> record.boots]
    BY <1>2, <2>1 DEF LastPanic
  <2>3. kept.truncated = record.truncated
    <3>1. kept.truncated \in BOOLEAN /\ record.truncated \in BOOLEAN
      BY <1>2 DEF Reports, PanicRecords
    <3> QED BY <1>2, <3>1
  <2>4. kept = [text |-> kept.text, truncated |-> kept.truncated, boots |-> kept.boots]
    BY <1>2 DEF Reports
  <2> QED BY <1>2, <2>2, <2>3, <2>4
<1> QED BY <1>1, <1>2 DEF Matches

\* Each store makes one stage more, and the last one makes a record of the panic.
LEMMA OneStored ==
    ASSUME record \in PanicRecords, NEW panic \in PanicTexts, NEW k \in 0..5, Stage(k, panic, record),
           NEW new, new = StoredPanic(Stores[k + 1], panic)
    PROVE  /\ new \in PanicRecords /\ new.boots <= record.boots
           /\ Stage(k + 1, panic, new)
           /\ k = 5 => Matches(new, Report(panic, 0))
<1> DEFINE took == Took(panic)
           text == [i \in 1..TEXT |-> IF i <= took THEN Plain(panic[i]) ELSE record.text[i]]
           cut == Len(panic) > TEXT
           crc == PanicCrc(record)
<1>1. /\ record.boots \in Nat /\ record.text \in [1..TEXT -> Cells] /\ record.len \in 0..TEXT
      /\ record.magic \in BOOLEAN /\ record.truncated \in BOOLEAN
  BY DEF PanicRecords
<1>2. /\ took \in 0..TEXT /\ took \in Nat /\ \A i \in 1..took : Plain(panic[i]) \in Characters
  BY TookIs
<1>3. text \in [1..TEXT -> Cells] /\ \A i \in 1..took : text[i] = Plain(panic[i])
  <2>1. ASSUME NEW i \in 1..TEXT PROVE text[i] \in Cells
    <3>1. i <= took => i \in 1..took
      BY <1>2, TextSizes
    <3> QED BY <1>1, <1>2, <3>1 DEF Cells
  <2>2. \A i \in 1..took : i \in 1..TEXT /\ i <= took
    BY <1>2, TextSizes
  <2> HIDE DEF took
  <2> QED BY <2>1, <2>2
<1>4. cut \in BOOLEAN /\ crc \in PanicSums
  BY RecordText
<1> HIDE DEF took, text, cut, crc
<1>5. CASE k = 0
  <2>1. new = [record EXCEPT !.text = text]
    <3>1. Stores[1] = "text"
      BY DEF Stores
    <3> QED BY <1>5, <3>1 DEF StoredPanic, text, took
  <2>2. new \in PanicRecords /\ new.text = text /\ new.boots = record.boots
    BY <1>3, <2>1 DEF PanicRecords
  <2>3. Stage(1, panic, new)
    BY <1>3, <2>2 DEF Stage, took
  <2> QED BY <1>1, <1>5, <2>2, <2>3
<1>6. CASE k = 1
  <2> DEFINE yes == TRUE
  <2>1. new = [record EXCEPT !.magic = yes] /\ yes \in BOOLEAN
    <3>1. Stores[2] = "magic"
      BY DEF Stores
    <3> QED BY <1>6, <3>1 DEF StoredPanic
  <2> HIDE DEF yes
  <2>2. new \in PanicRecords /\ new.text = record.text /\ new.boots = record.boots /\ new.magic = yes
    BY <2>1 DEF PanicRecords
  <2>3. Stage(2, panic, new)
    BY <1>6, <2>2 DEF Stage, yes
  <2> QED BY <1>1, <1>6, <2>2, <2>3
<1>7. CASE k = 2
  <2>1. new = [record EXCEPT !.boots = 0]
    <3>1. Stores[3] = "boots"
      BY DEF Stores
    <3> QED BY <1>7, <3>1 DEF StoredPanic
  <2>2. /\ new \in PanicRecords /\ new.text = record.text /\ new.boots = 0
        /\ new.magic = record.magic
    BY <2>1 DEF PanicRecords
  <2>3. Stage(3, panic, new)
    BY <1>7, <2>2 DEF Stage
  <2> QED BY <1>1, <1>7, <2>2, <2>3
<1>8. CASE k = 3
  <2>1. new = [record EXCEPT !.len = took]
    <3>1. Stores[4] = "len"
      BY DEF Stores
    <3> QED BY <1>8, <3>1 DEF StoredPanic, took
  <2>2. /\ new \in PanicRecords /\ new.text = record.text /\ new.boots = record.boots
        /\ new.magic = record.magic /\ new.len = took
    BY <1>2, <2>1 DEF PanicRecords
  <2>3. Stage(4, panic, new)
    BY <1>8, <2>2 DEF Stage, took
  <2> QED BY <1>1, <1>8, <2>2, <2>3
<1>9. CASE k = 4
  <2>1. new = [record EXCEPT !.truncated = cut]
    <3>1. Stores[5] = "truncated"
      BY DEF Stores
    <3> QED BY <1>9, <3>1 DEF StoredPanic, cut
  <2>2. /\ new \in PanicRecords /\ new.text = record.text /\ new.boots = record.boots
        /\ new.magic = record.magic /\ new.len = record.len /\ new.truncated = cut
    BY <1>4, <2>1 DEF PanicRecords
  <2>3. Stage(5, panic, new)
    <3>1. /\ \A i \in 1..Took(panic) : new.text[i] = Plain(panic[i])
          /\ new.magic /\ new.boots = 0 /\ new.len = Took(panic)
      BY <1>9, <2>2 DEF Stage
    <3>2. new.truncated <=> Len(panic) > TEXT
      BY <2>2, Zenon DEF cut
    <3> QED BY <3>1, <3>2 DEF Stage
  <2> QED BY <1>1, <1>9, <2>2, <2>3
<1>10. CASE k = 5
  <2>1. new = [record EXCEPT !.crc = crc]
    <3>1. Stores[6] = "crc"
      BY DEF Stores
    <3> QED BY <1>10, <3>1 DEF StoredPanic, crc
  <2>2. /\ new \in PanicRecords /\ new.text = record.text /\ new.boots = record.boots
        /\ new.magic = record.magic /\ new.len = record.len /\ new.truncated = record.truncated
        /\ new.crc = crc
    BY <1>4, <2>1 DEF PanicRecords
  <2>3. /\ \A i \in 1..took : record.text[i] = Plain(panic[i])
        /\ record.magic /\ record.boots = 0 /\ record.len = took /\ (record.truncated <=> cut)
    BY <1>10 DEF Stage, took, cut
  <2>4. Stage(6, panic, new)
    BY <2>2, <2>3 DEF Stage, took, cut
  <2>5. Matches(new, Report(panic, 0))
    <3> DEFINE shown == [i \in 1..took |-> Plain(panic[i])]
               k0 == Report(panic, 0)
    <3>1. shown \in Seq(Characters)
      BY <1>2
    <3>2. k0 = [text |-> shown, truncated |-> cut, boots |-> 0]
      BY DEF Report, took, cut
    <3>3. shown = SubSeq(new.text, 1, new.len)
      <4> DEFINE quoted == SubSeq(new.text, 1, new.len)
      <4>1. /\ quoted \in Seq(Cells) /\ Len(quoted) = new.len
            /\ \A i \in 1..new.len : quoted[i] = new.text[i]
        BY <2>2, RecordText
      <4> HIDE DEF quoted
      <4>2. new.len = took /\ \A i \in 1..took : quoted[i] = Plain(panic[i])
        BY <2>2, <2>3, <4>1
      <4>3. quoted = [i \in 1..took |-> quoted[i]]
        BY <4>1, <4>2
      <4> QED BY <4>2, <4>3 DEF quoted
    <3> HIDE DEF shown, k0
    <3>4. k0 \in Reports /\ k0.text = shown /\ (k0.truncated <=> cut) /\ k0.boots = 0
      BY <1>4, <3>1, <3>2 DEF Reports
    <3>5. new.crc = PanicCrc(new)
      BY <2>2 DEF PanicCrc, crc
    <3> QED BY <2>2, <2>3, <3>3, <3>4, <3>5 DEF Matches, k0
  <2> QED BY <1>1, <1>10, <2>2, <2>4, <2>5
<1> QED BY <1>5, <1>6, <1>7, <1>8, <1>9, <1>10

\* The steps that leave the record and the report alone, and no panic half recorded that was not.
LEMMA PanicInvKept ==
    ASSUME PanicInv, UNCHANGED <<record, kept, torn>>, uses' \in [logged : Nat, resets : 0..MaxResets, reads : Nat],
           uses'.resets = uses.resets, ~Midway(job) \/ Midway(job'), Recording(job', record)
    PROVE  PanicInv'
BY DEF PanicInv

\* One more store of the record is made.
LEMMA PanicInvStore ==
    ASSUME LogInv, PanicInv, Store
    PROVE  PanicInv'
<1>1. /\ job \in PanicJobs /\ job # Empty /\ job.is = "panic" /\ job.left # <<>>
  BY JobKinds DEF LogInv, Store, Running
<1>2. /\ record' = StoredPanic(Head(job.left), job.panic) /\ job' = [job EXCEPT !.left = Tail(@)]
      /\ kept' = (IF Head(job.left) = "crc" THEN Report(job.panic, 0) ELSE kept)
      /\ torn' = (torn /\ Head(job.left) # "crc")
      /\ uses' = uses
  BY DEF Store
<1>3. record \in PanicRecords /\ job.panic \in PanicTexts
  BY <1>1 DEF PanicInv, PanicJobs
<1>4. PICK k \in 0..6 : Remains(job.left, Stores, k, PanicFields) /\ Stage(k, job.panic, record)
  BY <1>1 DEF PanicInv, Recording
<1>5. /\ k \in 0..5 /\ Head(job.left) = Stores[k + 1] /\ k + 1 \in 0..6
      /\ Remains(Tail(job.left), Stores, k + 1, PanicFields)
  <2>1. k \in 0..Len(Stores) /\ Stores \in Seq(PanicFields)
    BY StoresAre
  <2>2. /\ k + 1 \in 1..Len(Stores) /\ Head(job.left) = Stores[k + 1]
        /\ Remains(Tail(job.left), Stores, k + 1, PanicFields)
    BY <1>1, <1>4, <2>1, OneDone, Zenon
  <2>3. k + 1 \in 1..6
    BY <2>2, StoresAre
  <2> QED BY <2>2, <2>3
<1>6. /\ record' \in PanicRecords /\ record'.boots <= record.boots /\ Stage(k + 1, job.panic, record')
      /\ k = 5 => Matches(record', Report(job.panic, 0))
  BY <1>2, <1>3, <1>4, <1>5, OneStored
<1>7. /\ job' \in PanicJobs /\ job'.is = "panic" /\ job'.panic = job.panic
      /\ job'.left = Tail(job.left)
  <2>1. Tail(job.left) \in Seq(PanicFields)
    BY <1>5 DEF Remains
  <2> QED BY <1>1, <1>2, <2>1 DEF PanicJobs
<1>8. Recording(job', record')
  BY <1>5, <1>6, <1>7 DEF Recording
<1>9. Stores[k + 1] = "crc" <=> k = 5
  <2>1. /\ Stores[1] # "crc" /\ Stores[2] # "crc" /\ Stores[3] # "crc" /\ Stores[4] # "crc"
        /\ Stores[5] # "crc" /\ Stores[6] = "crc"
    BY DEF Stores
  <2>2. k = 0 \/ k = 1 \/ k = 2 \/ k = 3 \/ k = 4 \/ k = 5
    BY <1>5
  <2> QED BY <2>1, <2>2
<1>10. k # 5 => Midway(job')
  <2>1. Len(Tail(job.left)) = 6 - (k + 1)
    BY <1>5, StoresAre DEF Remains
  <2>2. k # 5 => 6 - (k + 1) \in 1..6 - 1
    BY <1>5
  <2>3. job' # Empty
    BY <1>7, DiagAssumption DEF Jobs
  <2> QED BY <1>7, <2>1, <2>2, <2>3, StoresAre DEF Midway
<1>11. ~torn' /\ ~Midway(job') => Matches(record', kept')
  BY <1>2, <1>5, <1>6, <1>9, <1>10
<1>12. record'.boots <= uses'.resets
  <2>1. record.boots \in Nat /\ record'.boots \in Nat /\ uses.resets \in Nat /\ record.boots <= uses.resets
    BY <1>6, TextSizes DEF PanicInv, PanicRecords
  <2> QED BY <1>2, <1>6, <2>1
<1>13. torn' \in BOOLEAN
  BY <1>2 DEF PanicInv
<1> QED BY <1>2, <1>6, <1>8, <1>11, <1>12, <1>13 DEF PanicInv

\* The boot ages the record, and one half stored is torn.
LEMMA PanicInvReset ==
    ASSUME LogInv, PanicInv, Reset
    PROVE  PanicInv'
<1>1. /\ uses.resets < MaxResets /\ uses' = [uses EXCEPT !["resets"] = @ + 1]
      /\ record' = Aged(record) /\ torn' = (torn \/ Midway(job))
      /\ kept' = (IF Midway(job) THEN Empty ELSE IF kept = Empty THEN Empty ELSE [kept EXCEPT !.boots = @ + 1])
      /\ job' = IF RingValid(ring) /\ ring.len > 0 THEN Log(<<"-">>, "run") ELSE Empty
  BY DEF Reset, Use, StartUp, Midway, Running
<1>2. record \in PanicRecords /\ record.boots \in Nat
  BY DEF PanicInv, PanicRecords
<1>3. /\ uses' \in [logged : Nat, resets : 0..MaxResets, reads : Nat] /\ uses'.resets = uses.resets + 1
      /\ uses.resets \in Nat /\ record.boots <= uses.resets
  BY <1>1, TextSizes DEF PanicInv
<1>4. record' \in PanicRecords /\ record'.boots <= uses'.resets
  <2>1. record' \in PanicRecords /\ record'.boots <= record.boots + 1
    BY <1>1, <1>2, AgedIs
  <2>2. record'.boots \in Nat
    BY <2>1 DEF PanicRecords
  <2> QED BY <1>2, <1>3, <2>1, <2>2
<1>5. ~(job' # Empty /\ job'.is = "panic")
  <2>1. Log(<<"-">>, "run").is = "log"
    BY DEF Log
  <2> QED BY <1>1, <2>1
<1>6. ~torn' => Matches(record', kept')
  <2>1. ASSUME ~torn' PROVE ~Midway(job) /\ Matches(record, kept)
    BY <1>1, <2>1 DEF PanicInv
  <2> QED BY <1>1, <1>2, <2>1, AgedIs
<1>7. torn' \in BOOLEAN
  BY <1>1 DEF PanicInv, Midway
<1> QED BY <1>3, <1>4, <1>5, <1>6, <1>7 DEF PanicInv, Recording

\* A record of no panic.
LEMMA NoPanicIs == NoPanic \in PanicRecords /\ NoPanic.boots = 0 /\ Matches(NoPanic, Empty)
<1> DEFINE none == [i \in 1..TEXT |-> Empty]
           no == FALSE
<1>1. NoPanic = [magic |-> no, boots |-> 0, len |-> 0, truncated |-> no, crc |-> Empty,
                 text |-> none]
  BY DEF NoPanic
<1>2. none \in [1..TEXT -> Cells] /\ Empty \in PanicSums /\ 0 \in 0..TEXT /\ no \in BOOLEAN
  BY TextSizes DEF Cells, PanicSums
<1> HIDE DEF none, no
<1>3. NoPanic \in PanicRecords /\ NoPanic.boots = 0 /\ NoPanic.magic = no
  BY <1>1, <1>2 DEF PanicRecords
<1> QED BY <1>3 DEF Matches, no

\* Nothing is left of the record.
LEMMA PanicInvPowerCut ==
    ASSUME PanicInv, PowerCut
    PROVE  PanicInv'
<1>1. /\ uses.resets < MaxResets /\ uses' = [uses EXCEPT !["resets"] = @ + 1]
      /\ record' = Aged(NoPanic) /\ torn' = FALSE /\ kept' = Empty /\ job' = Empty
  BY ZeroIs DEF PowerCut, Use, StartUp
<1>2. Aged(NoPanic) = NoPanic
  BY DEF Aged, NoPanic
<1>3. /\ uses' \in [logged : Nat, resets : 0..MaxResets, reads : Nat] /\ uses'.resets \in Nat
  BY <1>1, TextSizes DEF PanicInv
<1>4. record' \in PanicRecords /\ record'.boots <= uses'.resets /\ Matches(record', kept')
  BY <1>1, <1>2, <1>3, NoPanicIs
<1>5. torn' \in BOOLEAN /\ Recording(job', record')
  BY <1>1 DEF Recording
<1> QED BY <1>3, <1>4, <1>5, Zenon DEF PanicInv

\* The record is dismissed.
LEMMA PanicInvForget ==
    ASSUME PanicInv, Forget
    PROVE  PanicInv'
<1> DEFINE no == FALSE
<1>1. record' = [record EXCEPT !.magic = no] /\ torn' = FALSE /\ kept' = Empty /\ job' = Empty
      /\ uses' = uses
  BY DEF Forget, Running
<1>2. no \in BOOLEAN
  OBVIOUS
<1> HIDE DEF no
<1>3. record' \in PanicRecords /\ record'.boots = record.boots /\ record'.magic = no
  BY <1>1, <1>2 DEF PanicInv, PanicRecords
<1>4. Matches(record', kept')
  BY <1>1, <1>3 DEF Matches, no
<1> QED BY <1>1, <1>3, <1>4 DEF PanicInv, Recording

\* A panic begins to be recorded.
LEMMA PanicInvPanic ==
    ASSUME LogInv, PanicInv, NEW panic \in PanicTexts, Panic(panic)
    PROVE  PanicInv'
<1>1. /\ job' = [is |-> "panic", left |-> Stores, panic |-> panic]
      /\ UNCHANGED <<record, kept, torn, uses>> /\ ~Midway(job)
  BY DEF Panic, Midway, Running
<1>2. job'.left = Stores /\ Stores \in Seq(PanicFields) /\ 0 \in 0..6
  BY <1>1, StoresAre
<1>3. Remains(Stores, Stores, 0, PanicFields) /\ Stage(0, job'.panic, record)
  BY <1>2, AllRemains DEF Stage
<1>4. Recording(job', record)
  BY <1>2, <1>3 DEF Recording
<1> QED BY <1>1, <1>4 DEF PanicInv

\* A line is begun or finished, or a character of it written.
LEMMA PanicInvLine ==
    ASSUME LogInv, PanicInv, (\E line \in Lines : LogLine(line)) \/ Push \/ FinishLine \/ PanicLine
    PROVE  PanicInv'
<1>1. UNCHANGED <<record, kept, torn>>
  BY DEF LogLine, Push, FinishLine, PanicLine
<1>2. /\ uses' \in [logged : Nat, resets : 0..MaxResets, reads : Nat] /\ uses'.resets = uses.resets
  BY DEF PanicInv, LogLine, Push, FinishLine, PanicLine, Use
<1>3. ~Midway(job)
  BY DEF LogLine, Push, FinishLine, PanicLine, Running, Midway
<1>4. ~(job' # Empty /\ job'.is = "panic")
  <2>1. ASSUME NEW line, NEW then PROVE Log(line, then).is = "log"
    BY DEF Log
  <2>2. ASSUME Push PROVE job'.is = "log"
    <3>1. job \in LineJobs /\ job.is = "log" /\ job' = [job EXCEPT !.left = Tail(@)]
      BY <2>2, JobKinds DEF LogInv, Push, Running
    <3> QED BY <3>1 DEF LineJobs
  <2>3. Resetting.is = "reset"
    BY DEF Resetting
  <2> QED BY <2>1, <2>2, <2>3 DEF LogLine, StartLine, FinishLine, PanicLine
<1> QED BY <1>1, <1>2, <1>3, <1>4, PanicInvKept DEF Recording

\* Every step keeps what holds of the record of a panic.
LEMMA PanicInvNext ==
    ASSUME LogInv, PanicInv, [DiagNext]_diagVars
    PROVE  PanicInv'
<1>1. ASSUME BeginFetch \/ Fetch \/ UNCHANGED diagVars PROVE PanicInv'
  <2>1. UNCHANGED <<record, kept, torn, job>>
    BY <1>1 DEF BeginFetch, Fetch, diagVars
  <2>2. /\ uses' \in [logged : Nat, resets : 0..MaxResets, reads : Nat] /\ uses'.resets = uses.resets
    BY <1>1 DEF PanicInv, BeginFetch, Fetch, Use, diagVars
  <2> QED BY <2>1, <2>2 DEF PanicInv
<1> QED BY <1>1, PanicInvStore, PanicInvReset, PanicInvPowerCut, PanicInvForget, PanicInvPanic, PanicInvLine
        DEF DiagNext, Stride

-----------------------------------------------------------------------------
(* The fetch                                                               *)

FetchInv == fetch = Empty \/ (fetch \in Seq(Cells) /\ Len(fetch) <= RING_BYTES)

\* What one read takes is no more than what is left.
LEMMA CopyFits ==
    ASSUME ring \in Rings, NEW from \in Nat
    PROVE  LET more == Copied(from)
           IN more = <<>> \/ (more \in Seq(Cells) /\ from + Len(more) <= RING_BYTES)
<1>1. PICK len \in Nat : len = ring.len /\ len <= RING_BYTES
  BY Fields
<1> DEFINE least == Min({from + CHUNK, len})
<1>2. least \in Nat /\ least <= len
  <2>1. {from + CHUNK, len} \in SUBSET Nat /\ {from + CHUNK, len} # {}
    BY TextSizes
  <2>2. least \in {from + CHUNK, len} /\ least <= len
    BY <2>1, LeastPlace
  <2> QED BY <2>1, <2>2
<1> HIDE DEF least
<1> DEFINE more == SubSeq(TextOf(ring), from + 1, least)
<1>3. Copied(from) = more
  BY <1>1 DEF Copied, least
<1>4. CASE least < from + 1
  <2>1. more = <<>>
    BY <1>2, <1>4, SubSeqEmpty
  <2> QED BY <1>3, <2>1
<1>5. CASE ~(least < from + 1)
  <2>1. ASSUME NEW i \in (from + 1)..least PROVE TextOf(ring)[i] \in Cells
    <3>1. i \in 1..len /\ i - 1 \in 0..RING_BYTES - 1
      BY <1>1, <1>2, Sizes
    <3> QED BY <1>1, <3>1, TextIs, AtIs
  <2>2. /\ more \in Seq(Cells)
        /\ Len(more) = IF from + 1 <= least THEN least - (from + 1) + 1 ELSE 0
    BY <1>2, <2>1, SubSeqProperties
  <2> HIDE DEF more
  <2>3. from + Len(more) <= RING_BYTES
    BY <1>1, <1>2, <1>5, <2>2, Sizes
  <2> QED BY <1>3, <2>2, <2>3
<1> QED BY <1>4, <1>5

\* Every step keeps what holds of a read of the log.
LEMMA FetchInvNext ==
    ASSUME LogInv, FetchInv, [DiagNext]_diagVars
    PROVE  FetchInv'
<1>1. ASSUME Fetch PROVE FetchInv'
  <2>1. ring \in Rings /\ fetch \in Seq(Cells) /\ Len(fetch) <= RING_BYTES /\ Len(fetch) \in Nat
    BY <1>1 DEF LogInv, FetchInv, Fetch
  <2> DEFINE more == Taken(Len(fetch))
  <2>2. fetch' = IF more = <<>> THEN Empty ELSE fetch \o more
    BY <1>1 DEF Fetch
  <2>3. more = <<>> \/ (more \in Seq(Cells) /\ Len(fetch) + Len(more) <= RING_BYTES)
    BY <2>1, CopyFits DEF Taken
  <2> HIDE DEF more
  <2>4. CASE more = <<>>
    BY <2>2, <2>4 DEF FetchInv
  <2>5. CASE more # <<>>
    BY <2>1, <2>2, <2>3, <2>5 DEF FetchInv
  <2> QED BY <2>4, <2>5
<1>2. ASSUME BeginFetch PROVE FetchInv'
  BY <1>2, Sizes DEF FetchInv, BeginFetch
<1>3. ASSUME UNCHANGED fetch PROVE FetchInv'
  BY <1>3 DEF FetchInv
<1>4. ASSUME Reset \/ PowerCut PROVE FetchInv'
  BY <1>4 DEF FetchInv, Reset, PowerCut, StartUp
<1> QED BY <1>1, <1>2, <1>3, <1>4
        DEF DiagNext, Stride, LogLine, Push, FinishLine, Store, PanicLine, Panic, Forget, diagVars

-----------------------------------------------------------------------------
(* The theorem                                                             *)

DiagInv == LogInv /\ PanicInv /\ FetchInv

\* It all holds at power-on.
LEMMA DiagInvInit ==
    ASSUME DiagInit
    PROVE  DiagInv
<1>1. LogInv
  BY ZeroIs DEF DiagInit, LogInv, WholeLines, Writing, Resting
<1>2. PanicInv
  <2>1. uses \in [logged : Nat, resets : 0..MaxResets, reads : Nat] /\ uses.resets = 0
    BY TextSizes DEF DiagInit
  <2>2. record \in PanicRecords /\ record.boots <= uses.resets /\ Matches(record, kept)
    BY <2>1, NoPanicIs DEF DiagInit
  <2>3. torn \in BOOLEAN /\ Recording(job, record)
    BY DEF DiagInit, Recording
  <2> QED BY <2>1, <2>2, <2>3, Zenon DEF PanicInv
<1>3. FetchInv
  BY DEF DiagInit, FetchInv
<1> QED BY <1>1, <1>2, <1>3 DEF DiagInv

\* It all holds at every step.
LEMMA DiagInvHolds == DiagSpec => []DiagInv
<1>1. DiagInv /\ [DiagNext]_diagVars => DiagInv'
  BY LogInvNext, PanicInvNext, FetchInvNext DEF DiagInv
<1> QED BY <1>1, DiagInvInit, PTL DEF DiagSpec

\* After any lines, panics, resets and power cuts, what a reader gets of the log is the newest of
\* what was logged, from the start of a line; no more lines are counted than are there; and a panic
\* recorded in full is shown, with the boots since.
THEOREM LogSafety == DiagSpec => []LogSafe
<1>1. DiagInv => LogSafe
  <2> SUFFICES ASSUME DiagInv PROVE LogSafe
    OBVIOUS
  <2>1. ring \in Rings /\ written \in Seq(Characters) /\ Resting(ring, written)
    BY DEF DiagInv, LogInv
  <2>2. DiagTypeOK
    <3>1. ring.head \in 0..RING_BYTES - 1 /\ ring.len \in 0..RING_BYTES /\ ring.lines \in Nat
          /\ ring.dropped \in Nat /\ ring.magic \in BOOLEAN
      BY <2>1 DEF Rings
    <3>2. record.len \in 0..TEXT /\ record.boots \in 0..MaxResets /\ record.magic \in BOOLEAN
      <4>1. record \in PanicRecords /\ record.boots <= uses.resets /\ uses.resets \in 0..MaxResets
        BY DEF DiagInv, PanicInv
      <4>2. record.boots \in Nat /\ record.len \in 0..TEXT /\ record.magic \in BOOLEAN
        BY <4>1 DEF PanicRecords
      <4> QED BY <4>1, <4>2, TextSizes
    <3>3. torn \in BOOLEAN /\ (fetch = Empty \/ Len(fetch) <= RING_BYTES)
      BY DEF DiagInv, PanicInv, FetchInv
    <3> QED BY <3>1, <3>2, <3>3 DEF DiagTypeOK
  <2>3. LogIsWholeLines /\ NoLineIsInvented
    BY <2>1, Shown DEF LogIsWholeLines, NoLineIsInvented, Resting
  <2>4. PanicIsKept
    <3>1. Running => ~Midway(job)
      BY DEF Running, Midway
    <3> QED BY <3>1, MatchIsShown DEF PanicIsKept, DiagInv, PanicInv
  <2> QED BY <2>2, <2>3, <2>4 DEF LogSafe
<1> QED BY <1>1, DiagInvHolds, PTL
=============================================================================
