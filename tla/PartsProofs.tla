----------------------------- MODULE PartsProofs -----------------------------
(***************************************************************************)
(* What comes in from people: commands, at the limit on their rate, a new  *)
(* shade, through the form over the broker, and the edits of the table,    *)
(* with the records they leave in flash.                                   *)
(*                                                                         *)
(* The limit, for every burst, refill and clock.  RateBounded counts       *)
(* commands and so is not inductive.  The invariant that is relates the    *)
(* schedule of a shade to both sides of the bound: a command is admitted   *)
(* only while the schedule is at most a burst ahead of the clock (Ahead),  *)
(* and each command admitted since the window opened has pushed the        *)
(* schedule one refill beyond it (Behind).                                 *)
(*                                                                         *)
(* The form, for every number of words, slots, effects that can wait and   *)
(* asks in a chain.  Its promises are of moments at which the session has  *)
(* nothing left to do.  The invariant says at every other moment what is   *)
(* still to come that will make them true: of an open form, a publication  *)
(* in the plan or an opening that waits (Held); of a closed one, a         *)
(* clearing in the plan, a close that waits or the tidying after the next  *)
(* connection (Left); of the shade it stands at, an amendment that waits   *)
(* or is being asked (Stored).                                             *)
(*                                                                         *)
(* The table, for every number of slots, rooms and groups, every record of *)
(* any layout that a boot may find, every edit and every backup.  What is  *)
(* to be shown compares three places: the registry, what a boot would make *)
(* of flash, and the backup last imported.  The invariant is one rule for  *)
(* a registry (SoundRegistry), the same rule for what a record is read as  *)
(* (SoundTable, FlashOK) and, until something is edited, that flash is     *)
(* what the import wrote (FromBackup).  The lemmas between say that a      *)
(* sound registry is written to a record that reads, that it is read back  *)
(* as it was written, and that a boot makes a sound registry of it.        *)
(***************************************************************************)
EXTENDS CommandLimiter, SetupForm, Provision, FiniteSetTheorems, FunctionTheorems,
        WellFoundedInduction, TLAPS

-----------------------------------------------------------------------------
(* The limit on commands                                                   *)

Ahead == \A id \in Ids : exhausted[id] <= Seconds(now) + BURST * REFILL

Behind ==
    \A id \in Ids : since[id] > 0 =>
        exhausted[id] = MAX_S \/ exhausted[id] >= window + since[id] * REFILL

LimiterInv == TypeOK /\ Ahead /\ Behind

\* The second of a moment fits the schedule.
LEMMA SecondsType == ASSUME NEW ms \in Nat PROVE Seconds(ms) \in 0..MAX_S
BY LimiterAssumption DEF Seconds, Capped

\* A later millisecond is not in an earlier second.
LEMMA SecondsMonotone == ASSUME NEW ms \in Nat PROVE Seconds(ms) <= Seconds(ms + 1)
<1>1. ms \div MS <= (ms + 1) \div MS
  BY LimiterAssumption
<1>2. ms \div MS \in Nat /\ (ms + 1) \div MS \in Nat
  BY LimiterAssumption
<1> QED BY <1>1, <1>2, LimiterAssumption DEF Seconds, Capped

\* One more command is one more refill.
LEMMA OneMoreRefill ==
    ASSUME NEW n \in Nat
    PROVE  n * REFILL \in Nat /\ (n + 1) * REFILL = n * REFILL + REFILL
BY LimiterAssumption

\* What an admitted command does to the schedule of one shade it moves.
LEMMA ChargeBounds ==
    ASSUME TypeOK, NEW id \in Ids, WaitFor(id) = 0
    PROVE  /\ Charge(id) \in 0..MAX_S
           /\ Charge(id) <= Seconds(now) + BURST * REFILL
           /\ Charge(id) = MAX_S \/ Charge(id) >= exhausted[id] + REFILL
           /\ Charge(id) = MAX_S \/ Charge(id) >= Seconds(now) + REFILL
<1> DEFINE high == Larger(exhausted[id], Seconds(now))
<1>1. Seconds(now) \in 0..MAX_S /\ exhausted[id] \in 0..MAX_S
  BY SecondsType DEF TypeOK
<1>2. high \in 0..MAX_S /\ high >= exhausted[id] /\ high >= Seconds(now)
  BY <1>1, LimiterAssumption DEF Larger
<1>3. (BURST - 1) * REFILL \in Nat /\ BURST * REFILL = (BURST - 1) * REFILL + REFILL
  <2>1. BURST - 1 \in Nat /\ (BURST - 1) + 1 = BURST
    BY LimiterAssumption
  <2> QED BY <2>1, OneMoreRefill
<1>4. high - Seconds(now) <= (BURST - 1) * REFILL
  BY <1>1, <1>2, <1>3 DEF WaitFor, TOLERANCE
<1>5. Charge(id) = IF high + REFILL > MAX_S THEN MAX_S ELSE high + REFILL
  BY DEF Charge, Capped
<1> HIDE DEF high
<1> QED BY <1>1, <1>2, <1>3, <1>4, <1>5, LimiterAssumption

\* The invariant holds of a limiter that has admitted nothing.
LEMMA InitInv == Init => LimiterInv
<1> SUFFICES ASSUME Init PROVE LimiterInv
  OBVIOUS
<1>1. Seconds(now) \in 0..MAX_S
  BY SecondsType DEF Init
<1>2. BURST * REFILL \in Nat
  BY LimiterAssumption
<1>3. TypeOK
  BY <1>1, LimiterAssumption DEF Init, TypeOK, NoOffer
<1> QED BY <1>1, <1>2, <1>3 DEF Init, LimiterInv, Ahead, Behind

\* Admission: each shade that moves is charged, the others keep their schedule.
LEMMA AdmitInv == ASSUME LimiterInv, NEW who \in SUBSET Ids, Admit(who) PROVE LimiterInv'
<1> USE DEF LimiterInv
<1>1. now' = now /\ window' = window /\ Seconds(now)' = Seconds(now)
  BY DEF Admit, Seconds
<1>2. ASSUME NEW id \in Ids
      PROVE  /\ exhausted'[id] \in 0..MAX_S /\ since'[id] \in 0..MaxSince
             /\ exhausted'[id] <= Seconds(now) + BURST * REFILL
             /\ since'[id] > 0 => \/ exhausted'[id] = MAX_S
                                  \/ exhausted'[id] >= window + since'[id] * REFILL
  <2>1. CASE id \notin who
    BY <2>1 DEF Admit, TypeOK, Ahead, Behind
  <2>2. CASE id \in who
    <3>1. exhausted'[id] = Charge(id) /\ since'[id] = since[id] + 1
      BY <2>2 DEF Admit
    <3>2. WaitFor(id) = 0 /\ since[id] < MaxSince
      BY <2>2 DEF Admit
    <3>3. Seconds(now) \in 0..MAX_S /\ window \in 0..Seconds(now)
          /\ since[id] \in 0..MaxSince /\ exhausted[id] \in 0..MAX_S
      BY SecondsType DEF TypeOK
    <3>4. since[id] * REFILL \in Nat /\ (since[id] + 1) * REFILL = since[id] * REFILL + REFILL
      BY <3>3, OneMoreRefill, LimiterAssumption
    <3>5. Charge(id) = MAX_S \/ Charge(id) >= window + (since[id] + 1) * REFILL
      <4>1. CASE since[id] = 0
        <5>1. since[id] * REFILL = 0
          BY <4>1, LimiterAssumption
        <5> QED BY <5>1, <3>2, <3>3, <3>4, ChargeBounds, LimiterAssumption
      <4>2. CASE since[id] > 0
        <5>1. CASE exhausted[id] = MAX_S
          BY <5>1, <3>2, <3>3, ChargeBounds, LimiterAssumption
        <5>2. CASE exhausted[id] >= window + since[id] * REFILL
          BY <5>2, <3>2, <3>3, <3>4, ChargeBounds, LimiterAssumption
        <5> QED BY <4>2, <5>1, <5>2 DEF Behind
      <4> QED BY <4>1, <4>2, <3>3
    <3> QED BY <3>1, <3>2, <3>3, <3>5, ChargeBounds, LimiterAssumption
  <2> QED BY <2>1, <2>2
<1>3. TypeOK'
  <2>1. exhausted' \in [Ids -> 0..MAX_S]
    BY <1>2 DEF Admit
  <2>2. since' \in [Ids -> 0..MaxSince]
    BY <1>2 DEF Admit
  <2> QED BY <1>1, <2>1, <2>2 DEF Admit, TypeOK, NoOffer
<1> QED BY <1>1, <1>2, <1>3 DEF Ahead, Behind

\* A refusal writes nothing but the answer.
LEMMA RefuseInv == ASSUME LimiterInv, NEW who \in SUBSET Ids, Refuse(who) PROVE LimiterInv'
<1> USE DEF LimiterInv
<1>1. /\ now' = now /\ window' = window /\ Seconds(now)' = Seconds(now)
      /\ exhausted' = exhausted /\ since' = since
  BY DEF Refuse, Seconds
<1>2. PICK id \in who : WaitFor(id) > 0 /\ offer' = [who |-> who, at |-> now + WaitFor(id) * MS]
  BY DEF Refuse
<1>3. WaitFor(id) \in Nat
  <2>1. Seconds(now) \in Nat /\ exhausted[id] \in Nat /\ TOLERANCE \in Int
    BY SecondsType, LimiterAssumption DEF TypeOK, TOLERANCE
  <2> QED BY <2>1 DEF WaitFor, Larger
<1>4. WaitFor(id) * MS \in Nat
  BY <1>3, LimiterAssumption
<1>5. offer' \in [who : SUBSET Ids, at : Nat]
  BY <1>2, <1>4, LimiterAssumption DEF TypeOK
<1> QED BY <1>1, <1>5 DEF TypeOK, Ahead, Behind

\* The clock and the observer leave the schedule behind.
LEMMA QuietInv == ASSUME LimiterInv, TimePasses \/ Observe PROVE LimiterInv'
<1> USE DEF LimiterInv
<1>1. Seconds(now) \in 0..MAX_S /\ Seconds(now)' \in 0..MAX_S /\ Seconds(now) <= Seconds(now)'
      /\ BURST * REFILL \in Nat
  <2>1. now \in Nat /\ (now' = now + 1 \/ now' = now)
    BY LimiterAssumption DEF TypeOK, TimePasses, Observe
  <2>2. Seconds(now)' = Seconds(now')
    BY DEF Seconds
  <2>3. Seconds(now) \in 0..MAX_S /\ Seconds(now + 1) \in 0..MAX_S
        /\ Seconds(now) <= Seconds(now + 1)
    BY <2>1, SecondsType, SecondsMonotone
  <2> QED BY <2>1, <2>2, <2>3, LimiterAssumption
<1>2. CASE TimePasses
  BY <1>1, <1>2, LimiterAssumption DEF TimePasses, TypeOK, Ahead, Behind
<1>3. CASE Observe
  <2>1. TypeOK'
    BY <1>1, <1>3, LimiterAssumption DEF Observe, TypeOK
  <2>2. Ahead' /\ Behind'
    BY <1>1, <1>3 DEF Observe, TypeOK, Ahead, Behind, Seconds
  <2> QED BY <2>1, <2>2
<1> QED BY <1>2, <1>3

\* The schedule stays between the commands counted and the clock (limit.rs).
THEOREM LimiterInvariant == Spec => []LimiterInv
<1>1. LimiterInv /\ [Next]_vars => LimiterInv'
  <2> SUFFICES ASSUME LimiterInv, [Next]_vars PROVE LimiterInv'
    OBVIOUS
  <2>1. CASE UNCHANGED vars
    BY <2>1 DEF vars, LimiterInv, TypeOK, Ahead, Behind, Seconds
  <2>2. CASE Next
    BY <2>2, AdmitInv, RefuseInv, QuietInv DEF Next, Command
  <2> QED BY <2>1, <2>2
<1> QED BY InitInv, <1>1, PTL DEF Spec

\* In any window a shade is given a burst and one command a refill.
THEOREM RateBound == Spec => []RateBounded
<1>1. LimiterInv => RateBounded
  <2> SUFFICES ASSUME LimiterInv, Unsaturated, NEW id \in Ids
               PROVE  since[id] * REFILL <= BURST * REFILL + (Seconds(now) - window)
    BY DEF RateBounded
  <2>1. /\ Seconds(now) \in 0..MAX_S /\ window \in 0..Seconds(now)
        /\ exhausted[id] \in 0..MAX_S /\ since[id] \in Nat
    BY SecondsType, LimiterAssumption DEF LimiterInv, TypeOK
  <2>2. exhausted[id] <= Seconds(now) + BURST * REFILL /\ exhausted[id] # MAX_S
    BY <2>1, LimiterAssumption DEF LimiterInv, Ahead, Unsaturated
  <2>3. BURST * REFILL \in Nat /\ since[id] * REFILL \in Nat
    BY <2>1, LimiterAssumption
  <2>4. CASE since[id] = 0
    <3>1. since[id] * REFILL = 0
      BY <2>4, LimiterAssumption
    <3> QED BY <3>1, <2>1, <2>3
  <2>5. CASE since[id] > 0
    <3>1. exhausted[id] >= window + since[id] * REFILL
      BY <2>2, <2>5 DEF LimiterInv, Behind
    <3> QED BY <3>1, <2>1, <2>2, <2>3, LimiterAssumption
  <2> QED BY <2>1, <2>4, <2>5
<1> QED BY <1>1, LimiterInvariant, PTL

-----------------------------------------------------------------------------
(* The wait a refusal names.                                               *)

\* Until the next command is admitted, nobody who was refused is scheduled
\* further ahead of the moment he was told than the tolerance.
Promise ==
    \A id \in offer.who : exhausted[id] <= Seconds(offer.at) + TOLERANCE

OfferInv == TypeOK /\ Promise

\* The tolerance is a number of ticks.
LEMMA ToleranceType == TOLERANCE \in Nat
<1>1. BURST - 1 \in Nat /\ REFILL \in Nat
  BY LimiterAssumption
<1> QED BY <1>1 DEF TOLERANCE

\* Whole seconds of waiting are whole seconds of the clock.
LEMMA SecondsLater ==
    ASSUME NEW ms \in Nat, NEW w \in Nat
    PROVE  /\ ms + w * MS \in Nat
           /\ Seconds(ms + w * MS) = MAX_S \/ Seconds(ms + w * MS) = Seconds(ms) + w
<1>1. ms + w * MS \in Nat /\ w * MS \in Nat
  BY LimiterAssumption
<1>2. (ms + w * MS) \div MS = ms \div MS + w
  BY LimiterAssumption
<1>3. ms \div MS \in Nat
  BY LimiterAssumption
<1> QED BY <1>1, <1>2, <1>3, LimiterAssumption DEF Seconds, Capped

\* A later tick is not in an earlier second.
LEMMA SecondsOrdered ==
    ASSUME NEW m \in Nat, NEW n \in Nat, m <= n PROVE Seconds(m) <= Seconds(n)
<1>1. m \div MS <= n \div MS /\ m \div MS \in Nat /\ n \div MS \in Nat
  BY LimiterAssumption
<1> QED BY <1>1, LimiterAssumption DEF Seconds, Capped

\* A refusal promises no less than the wait that brings the debt back within the
\* tolerance.
LEMMA RefusePromises ==
    ASSUME OfferInv, NEW who \in SUBSET Ids, Refuse(who) PROVE Promise'
<1>1. PICK id \in who : /\ \A other \in who : WaitFor(other) <= WaitFor(id)
                        /\ offer' = [who |-> who, at |-> now + WaitFor(id) * MS]
                        /\ WaitFor(id) > 0
  BY DEF Refuse
<1>2. Seconds(now) \in 0..MAX_S /\ now \in Nat
  BY SecondsType, LimiterAssumption DEF OfferInv, TypeOK
<1>3. ASSUME NEW one \in who
      PROVE  WaitFor(one) \in Nat /\ exhausted[one] <= Seconds(now) + TOLERANCE + WaitFor(one)
  <2>1. exhausted[one] \in 0..MAX_S
    BY DEF OfferInv, TypeOK
  <2> QED BY <2>1, <1>2, ToleranceType, LimiterAssumption DEF WaitFor, Larger
<1>4. WaitFor(id) \in Nat
  BY <1>3
<1>5. \/ Seconds(now + WaitFor(id) * MS) = MAX_S
      \/ Seconds(now + WaitFor(id) * MS) = Seconds(now) + WaitFor(id)
  BY <1>2, <1>4, SecondsLater
<1>6. ASSUME NEW one \in who
      PROVE  exhausted[one] <= Seconds(now + WaitFor(id) * MS) + TOLERANCE
  <2>1. exhausted[one] \in 0..MAX_S
    BY DEF OfferInv, TypeOK
  <2>2. WaitFor(one) <= WaitFor(id)
    BY <1>1
  <2> QED BY <2>1, <2>2, <1>2, <1>3, <1>4, <1>5, ToleranceType, LimiterAssumption
<1>7. exhausted' = exhausted
  BY DEF Refuse
<1> QED BY <1>1, <1>6, <1>7 DEF Promise, Seconds, Capped, TOLERANCE

\* Every step keeps what a refusal promised.
LEMMA OfferStep == ASSUME OfferInv, TypeOK', [Next]_vars PROVE Promise'
<1>1. CASE UNCHANGED <<exhausted, offer>>
  BY <1>1 DEF OfferInv, Promise, Seconds, Capped, TOLERANCE
<1>2. ASSUME NEW who \in SUBSET Ids, Admit(who) PROVE Promise'
  BY <1>2 DEF Admit, NoOffer, Promise
<1>3. CASE UNCHANGED vars
  BY <1>1, <1>3 DEF vars
<1>4. CASE Next
  BY <1>1, <1>2, <1>4, RefusePromises DEF Next, Command, TimePasses, Observe
<1> QED BY <1>3, <1>4

\* Whoever waits as long as he was told is admitted, unless others were.
THEOREM RetryAdmitted == Spec => []RetryIsAdmitted
<1>1. Init => Promise
  <2> SUFFICES ASSUME Init PROVE Promise
    OBVIOUS
  <2>1. offer.who = {}
    BY DEF Init, NoOffer
  <2> QED BY <2>1 DEF Promise
<1>2. OfferInv => RetryIsAdmitted
  <2> SUFFICES ASSUME OfferInv, now >= offer.at, NEW id \in offer.who PROVE WaitFor(id) = 0
    BY DEF RetryIsAdmitted
  <2>1. /\ now \in Nat /\ offer.at \in Nat /\ id \in Ids
        /\ Seconds(now) \in 0..MAX_S /\ Seconds(offer.at) \in 0..MAX_S
        /\ exhausted[id] \in 0..MAX_S
    BY SecondsType, LimiterAssumption DEF OfferInv, TypeOK
  <2>2. Seconds(offer.at) <= Seconds(now)
    BY <2>1, SecondsOrdered
  <2>3. exhausted[id] <= Seconds(offer.at) + TOLERANCE
    BY DEF OfferInv, Promise
  <2> QED BY <2>1, <2>2, <2>3, ToleranceType, LimiterAssumption DEF WaitFor, Larger
<1>3. TypeOK /\ Promise /\ [Next]_vars /\ TypeOK' => Promise'
  BY OfferStep DEF OfferInv
<1>4. Spec => []TypeOK
  <2>1. LimiterInv => TypeOK
    BY DEF LimiterInv
  <2> QED BY <2>1, LimiterInvariant, PTL
<1>5. TypeOK /\ Promise => RetryIsAdmitted
  BY <1>2 DEF OfferInv
<1> QED BY <1>1, <1>3, <1>4, <1>5, PTL DEF Spec

\* limit.rs, for every burst, refill interval, clock and saturation.
THEOREM LimiterSafety == Spec => []LimiterSafe
<1>1. LimiterInv => TypeOK
  BY DEF LimiterInv
<1>2. TypeOK /\ RateBounded /\ RetryIsAdmitted => LimiterSafe
  BY DEF LimiterSafe
<1> QED BY <1>1, <1>2, LimiterInvariant, RateBound, RetryAdmitted, PTL

-----------------------------------------------------------------------------
(* The states of the form                                                  *)

Setups == [phase : {"idle", "drafting", "awaiting"}, shade : FormSlots \cup {Blank}, draft : Drafts,
           message : Messages, created : FormSlots \cup {Blank}]
Rows == [config : Drafts, confirmed : BOOLEAN, by : {"form", "web"}]
Requests == [is : Ops \cup {"create"}, id : FormSlots \cup {Blank}, draft : Drafts]
Copies == [configs : BOOLEAN, message : Messages \cup {Blank}, name : Words \cup {Blank},
           kind : FormKinds \cup {Blank}, up : Typed \cup {Blank}, down : Typed \cup {Blank}]

\* What is left of a plan as its steps are sent, by name, so that facts of plans are cited and
\* their tuples not expanded.
Sent == <<>>
Tidying == <<"tidy", "restore">>
Restoring == <<"restore">>
ClosingFirst == <<"clearConfigs", "clearValues", "restore">>
ClearingFirst == <<"clearValues", "restore">>
Clearing == <<"clearValues">>
Filling == <<"fields">>

Plans == {Sent, Resync, Tidying, Restoring, ClosingFirst, ClearingFirst, Opening, Values, Filling,
          Closing, Clearing}
Restores == {Resync, Tidying, Restoring, ClosingFirst, ClearingFirst}
Unsent == IF settling THEN Tail(plan) ELSE plan

\* A shade is stood at while its report is awaited, and it is one this flow made.
Settled(s) == s.shade = s.created /\ (s.phase = "awaiting" <=> s.shade \in FormSlots)

FormTables == [FormSlots -> {Blank} \cup Rows]
Askable(request) == request \in Requests /\ (request.is # "create" => request.id \in FormSlots)

Marks == {"dropped", "cut", "refused", "late", "reopened"}

FormTypes ==
    /\ setup \in Setups /\ Settled(setup)
    /\ effects \in Seq(Effects) /\ Len(effects) <= QUEUE
    /\ chain = Blank \/ chain \in Chains
    /\ plan \in Plans
    /\ settling \in BOOLEAN /\ joined \in BOOLEAN /\ form_dirty \in BOOLEAN
    /\ shown \in Copies
    /\ shades \in FormTables
    /\ raised = Blank \/ Askable(raised)
    /\ marks \in SUBSET Marks

\* One thing at a time: a chain, or a plan, or neither.
Turns ==
    /\ chain # Blank => joined /\ plan = Sent
    /\ plan # Sent => joined
    /\ settling => plan # Sent /\ Head(plan) \notin Control
    /\ plan \in {ClosingFirst, ClearingFirst} => form_dirty

\* An effect that waits, of a kind or with an amendment.
Waits(form) == \E i \in 1..Len(effects) : effects[i].form = form
AmendIn(queue, id) == \E i \in 1..Len(queue) : queue[i].ask = On("amend", id)
AmendWaits(id) == AmendIn(effects, id)

\* A form closed for a setup that is over opens again for the one that is not.
Reopens ==
    \A i \in 1..Len(effects) :
        effects[i].form = "close" => \E j \in (i + 1)..Len(effects) : effects[j].form = "open"

\* What of an open form is on the broker, or is still to come.
FieldsHeld == \A f \in Fields : setup.draft[f] # Blank => shown[f] = setup.draft[f]
ConfigsHeld ==
    \/ shown.configs /\ Unsent # Closing
    \/ Waits("open") \/ Unsent = Opening
    \/ chain # Blank /\ chain.opened /\ ~chain.closed
ValuesHeld ==
    \/ effects # <<>> \/ chain # Blank
    \/ /\ Unsent \notin {Closing, Clearing}
       /\ shown.message = setup.message \/ Unsent \in {Opening, Values}
       /\ FieldsHeld \/ Unsent \in {Opening, Values, Filling}

\* An open form is held, unless an effect was dropped or the resynchronization has yet to come
\* to it.
Held ==
    Open /\ "dropped" \notin marks =>
        /\ Reopens
        /\ chain # Blank /\ chain.closed => Waits("open")
        /\ joined /\ Unsent \notin Restores => ConfigsHeld /\ ValuesHeld

\* Why nothing of a closed form stays on the broker.
FormCleared ==
    \/ form_dirty /\ (~joined \/ Unsent \in {Resync, Tidying})
    \/ Waits("close")
    \/ chain # Blank /\ chain.closed
    \/ Unsent \in {Closing, ClosingFirst}
    \/ Unsent \in {Clearing, ClearingFirst} /\ ~shown.configs
    \/ shown = Unshown /\ Unsent \notin {Opening, Values, Filling}

Left == ~Open /\ marks \cap {"dropped", "cut", "reopened"} = {} => FormCleared

Carries(config, draft) == \A f \in Fields : draft[f] # Blank => config[f] = draft[f]

\* The row of the shade stood at is the draft, or an amendment is on its way to it.
Stored ==
    /\ setup.phase = "awaiting" /\ marks \cap {"dropped", "refused", "late"} = {}
    /\ shades[setup.shade] # Blank /\ shades[setup.shade].by = "form"
    => \/ Carries(shades[setup.shade].config, setup.draft)
       \/ AmendWaits(setup.shade)
       \/ chain # Blank /\ chain.ask = On("amend", setup.shade)

\* A request outlives its call only when the call gave up.
Late == raised # Blank => "late" \in marks

FormInv == FormTypes /\ Turns /\ Held /\ Left /\ Stored /\ Late /\ NoneIsIncomplete

\* What the answers of the table become.
Replies == [is : {"refused"}, message : Messages] \cup [is : {"created"}, id : FormSlots]
           \cup {[is |-> "done"]}

\* An ask is not the lack of one, and no slot is.
LEMMA NoBlank ==
    /\ \A op \in Ops, id \in FormSlots : On(op, id) \in Asks /\ On(op, id) # Blank
    /\ Create \in Asks /\ Create # Blank
    /\ Blank \notin FormSlots
BY FormAssumption DEF Asks, On, Create

\* A draft with one field entered is a draft.
LEMMA DraftEntered ==
    ASSUME NEW draft \in Drafts, NEW f \in Fields, NEW value,
           f = "name" => value \in Words \cup {Blank},
           f = "kind" => value \in FormKinds,
           f \in {"up", "down"} => value \in Typed \cup {Blank}
    PROVE  [draft EXCEPT ![f] = value] \in Drafts
<1>1. CASE f = "name"
  BY <1>1 DEF Drafts
<1>2. CASE f = "kind"
  BY <1>2 DEF Drafts
<1>3. CASE f = "up"
  BY <1>3 DEF Drafts
<1>4. CASE f = "down"
  BY <1>4 DEF Drafts
<1> QED BY <1>1, <1>2, <1>3, <1>4 DEF Fields

\* An edit leaves the flow where it stands.
LEMMA EnteredFacts ==
    ASSUME NEW s \in Setups, NEW input \in Arrivals, input.is \in Fields
    PROVE  /\ Entered(s, input) \in Setups
           /\ Entered(s, input).phase = s.phase
           /\ Entered(s, input).shade = s.shade
           /\ Entered(s, input).created = s.created
<1>1. CASE ~Parsed(input)
  BY <1>1 DEF Entered, Setups, Messages
<1>2. CASE Parsed(input)
  <2> DEFINE draft == [s.draft EXCEPT ![input.is] = input.value]
  <2>1. Entered(s, input) = [s EXCEPT !.draft = draft, !.message = StepMessage(s)]
    BY <1>2 DEF Entered, Setups
  <2>2. s.draft \in Drafts
    BY DEF Setups
  <2>3. /\ input.is = "name" => input.value \in Words \cup {Blank}
        /\ input.is = "kind" => input.value \in FormKinds
        /\ input.is \in {"up", "down"} => input.value \in Typed \cup {Blank}
    BY <1>2 DEF Arrivals, Fields, Parsed, Presses
  <2>4. draft \in Drafts
    BY <2>2, <2>3, DraftEntered
  <2>5. StepMessage(s) \in Messages
    BY DEF StepMessage, Messages
  <2> HIDE DEF draft
  <2> QED BY <2>1, <2>4, <2>5 DEF Setups
<1> QED BY <1>1, <1>2

\* What one input does to a flow, and the effect it leaves.
LEMMA FlowTypes ==
    ASSUME NEW s \in Setups, Settled(s), NEW input \in Arrivals \cup Replies
    PROVE  /\ Applied(s, input).setup \in Setups
           /\ Settled(Applied(s, input).setup)
           /\ Applied(s, input).effect \in Effects
<1> USE DEF Out, Effect, Effects, Settled
<1>1. ASSUME NEW t \in Setups, Settled(t)
      PROVE  Nothing(t).setup = t /\ Nothing(t).effect \in Effects
  BY <1>1 DEF Nothing
<1>2. NewSetup \in Setups /\ Settled(NewSetup)
  BY NoBlank, FormAssumption DEF NewSetup, Setups, FreshDraft, Drafts, Messages
<1>3. ASSUME NEW message \in Messages
      PROVE  /\ Say(s, message).setup \in Setups /\ Settled(Say(s, message).setup)
             /\ Say(s, message).effect \in Effects
  BY <1>3 DEF Say, Nothing, Setups
<1>4. Close(s).setup = NewSetup /\ Close(s).effect \in Effects
  BY DEF Close
<1>5. input.is = "refused" => input.message \in Messages
  BY DEF Arrivals, Replies, Presses
<1>6. input.is = "created" => input.id \in FormSlots
  BY DEF Arrivals, Replies, Presses
<1>7. input.is \in Fields => input \in Arrivals
  BY DEF Replies, Fields
<1>8. "drafting" \in Messages /\ "awaitingReport" \in Messages
  BY DEF Messages
<1>9. input.is \in Fields =>
        /\ Entered(s, input) \in Setups /\ Settled(Entered(s, input))
  BY <1>7, EnteredFacts
<1>10. CASE s.phase = "idle"
  <2>1. CASE input.is = "begin"
    <3> DEFINE fresh == [NewSetup EXCEPT !.phase = "drafting"]
    <3>1. Applied(s, input) = Out(fresh, "open", Blank)
      BY <1>10, <2>1 DEF Applied, ApplyIdle
    <3>2. /\ fresh \in Setups /\ fresh.phase = "drafting"
          /\ fresh.shade = Blank /\ fresh.created = Blank
      BY <1>2 DEF Setups, NewSetup
    <3> HIDE DEF fresh
    <3> QED BY <3>1, <3>2, NoBlank
  <2>2. CASE input.is # "begin"
    BY <1>1, <1>10, <2>2 DEF Applied, ApplyIdle
  <2> QED BY <2>1, <2>2
<1>11. CASE s.phase = "drafting"
  <2>1. Blocker(s.draft) # Blank => Blocker(s.draft) \in Messages
    BY DEF Blocker, Messages
  <2>2. CASE input.is = "begin"
    BY <1>11, <2>2 DEF Applied, ApplyDrafting, Fields
  <2>3. CASE input.is \in Fields
    BY <1>1, <1>9, <1>11, <2>3 DEF Applied, ApplyDrafting, Fields
  <2>4. CASE input.is = "send"
    BY <1>3, <1>11, <2>1, <2>4, NoBlank DEF Applied, ApplyDrafting, Fields
  <2>5. CASE input.is = "confirm"
    BY <1>3, <1>8, <1>11, <2>5 DEF Applied, ApplyDrafting, Fields
  <2>6. CASE input.is = "discard"
    BY <1>2, <1>4, <1>11, <2>6 DEF Applied, ApplyDrafting, Fields
  <2>7. CASE input.is = "created"
    BY <1>6, <1>8, <1>11, <2>7, NoBlank DEF Applied, ApplyDrafting, Fields, Setups, Ops
  <2>8. CASE input.is = "refused"
    BY <1>3, <1>5, <1>11, <2>8 DEF Applied, ApplyDrafting, Fields
  <2>9. CASE input.is \notin
               Fields \cup {"begin", "send", "confirm", "discard", "created", "refused"}
    BY <1>1, <1>11, <2>9 DEF Applied, ApplyDrafting
  <2> QED BY <2>2, <2>3, <2>4, <2>5, <2>6, <2>7, <2>8, <2>9
<1>12. CASE s.phase = "awaiting"
  <2>1. s.shade \in FormSlots /\ s.created \in FormSlots
    BY <1>12
  <2>2. CASE input.is = "begin"
    BY <1>12, <2>2 DEF Applied, ApplyAwaiting, Fields
  <2>3. CASE input.is \in Fields
    BY <1>9, <1>12, <2>1, <2>3, NoBlank DEF Applied, ApplyAwaiting, Fields, Ops
  <2>4. CASE input.is = "send"
    BY <1>8, <1>12, <2>1, <2>4, NoBlank DEF Applied, ApplyAwaiting, Fields, Ops, Setups
  <2>5. CASE input.is = "confirm"
    BY <1>12, <2>1, <2>5, NoBlank DEF Applied, ApplyAwaiting, Fields, Ops
  <2>6. CASE input.is = "discard"
    BY <1>2, <1>12, <2>1, <2>6, NoBlank DEF Applied, ApplyAwaiting, Fields, Ops, Abandon
  <2>7. CASE input.is = "done"
    BY <1>2, <1>4, <1>12, <2>7 DEF Applied, ApplyAwaiting, Fields
  <2>8. CASE input.is = "refused"
    BY <1>3, <1>5, <1>12, <2>8 DEF Applied, ApplyAwaiting, Fields
  <2>9. CASE input.is \notin Fields \cup {"begin", "send", "confirm", "discard", "done", "refused"}
    BY <1>1, <1>12, <2>9 DEF Applied, ApplyAwaiting
  <2> QED BY <2>2, <2>3, <2>4, <2>5, <2>6, <2>7, <2>8, <2>9
<1> QED BY <1>10, <1>11, <1>12 DEF Setups

\* The flow opens and closes by its effects, and an answer never opens it.
LEMMA FlowForms ==
    ASSUME NEW s \in Setups, Settled(s), NEW input \in Arrivals \cup Replies
    PROVE  /\ s.phase = "idle" /\ Applied(s, input).setup.phase # "idle" =>
                  Applied(s, input).effect.form = "open"
           /\ s.phase # "idle" /\ Applied(s, input).setup.phase = "idle" =>
                  Applied(s, input).effect.form = "close"
           /\ Applied(s, input).effect.form = "close" => Applied(s, input).setup.phase = "idle"
           /\ input \in Replies => Applied(s, input).effect.form # "open"
<1> USE DEF Out, Effect
<1>1. NewSetup.phase = "idle"
  BY DEF NewSetup
<1>2. input \in Replies => input.is \in {"refused", "created", "done"}
  BY DEF Replies
<1>3. input.is \in Fields =>
        /\ Entered(s, input) \in Setups /\ Entered(s, input).phase = s.phase
  BY EnteredFacts DEF Replies, Fields
<1>4. CASE s.phase = "idle"
  BY <1>1, <1>2, <1>4 DEF Applied, ApplyIdle, Nothing
<1>5. CASE s.phase = "drafting"
  BY <1>1, <1>2, <1>3, <1>5 DEF Applied, ApplyDrafting, Nothing, Say, Close, Fields, Setups
<1>6. CASE s.phase = "awaiting"
  BY <1>1, <1>2, <1>3, <1>6 DEF Applied, ApplyAwaiting, Nothing, Say, Close, Fields, Setups
<1> QED BY <1>4, <1>5, <1>6 DEF Setups

\* A shade is stood at from its creation on, with the draft it was created from; a draft that
\* changes after that is an amendment.
LEMMA FlowDrafts ==
    ASSUME NEW s \in Setups, Settled(s), NEW input \in Arrivals \cup Replies,
           Applied(s, input).setup.phase = "awaiting"
    PROVE  /\ s.phase = "awaiting" =>
                /\ Applied(s, input).setup.shade = s.shade
                /\ \/ Applied(s, input).setup.draft = s.draft
                   \/ input \in Arrivals /\ Applied(s, input).effect.ask = On("amend", s.shade)
           /\ s.phase # "awaiting" =>
                /\ input.is = "created" /\ input.id = Applied(s, input).setup.shade
                /\ Applied(s, input).setup.draft = s.draft
<1> USE DEF Out, Effect
<1>1. NewSetup.phase = "idle"
  BY DEF NewSetup
<1>2. input \in Replies => input.is \in {"refused", "created", "done"}
  BY DEF Replies
<1>3. input.is \in Fields =>
        /\ Entered(s, input) \in Setups /\ Entered(s, input).phase = s.phase
        /\ Entered(s, input).shade = s.shade /\ input \in Arrivals
  BY EnteredFacts DEF Replies, Fields
<1>4. CASE s.phase = "idle"
  BY <1>1, <1>2, <1>4 DEF Applied, ApplyIdle, Nothing
<1>5. CASE s.phase = "drafting"
  BY <1>1, <1>2, <1>3, <1>5 DEF Applied, ApplyDrafting, Nothing, Say, Close, Fields, Setups
<1>6. CASE s.phase = "awaiting"
  BY <1>1, <1>2, <1>3, <1>6 DEF Applied, ApplyAwaiting, Nothing, Say, Close, Fields, Setups
<1> QED BY <1>4, <1>5, <1>6 DEF Setups

\* What is left of each plan when its first step is sent.
LEMMA PlanSteps ==
    /\ Tail(Resync) = Tidying /\ Tail(Tidying) = Restoring /\ Tail(Restoring) = Sent
    /\ Tail(ClosingFirst) = ClearingFirst /\ Tail(ClearingFirst) = Restoring
    /\ Tail(Opening) = Values /\ Tail(Values) = Filling /\ Tail(Filling) = Sent
    /\ Tail(Closing) = Clearing /\ Tail(Clearing) = Sent
    /\ Closing \o Restoring = ClosingFirst
<1> USE DEF Resync, Tidying, Restoring, Sent, ClosingFirst, ClearingFirst, Opening, Values, Filling,
            Closing, Clearing
<1>1. Tail(Resync) = Tidying /\ Tail(Tidying) = Restoring /\ Tail(Restoring) = Sent
  OBVIOUS
<1>2. Tail(ClosingFirst) = ClearingFirst /\ Tail(ClearingFirst) = Restoring
  OBVIOUS
<1>3. Tail(Opening) = Values /\ Tail(Values) = Filling /\ Tail(Filling) = Sent
  OBVIOUS
<1>4. Tail(Closing) = Clearing /\ Tail(Clearing) = Sent
  OBVIOUS
<1>5. Closing \o Restoring = ClosingFirst
  <2> DEFINE steps == {"clearConfigs", "clearValues", "restore"}
  <2>1. /\ Closing \in Seq(steps) /\ Restoring \in Seq(steps) /\ ClosingFirst \in Seq(steps)
        /\ Len(Closing) = 2 /\ Len(Restoring) = 1 /\ Len(ClosingFirst) = 3
    OBVIOUS
  <2>2. Closing \o Restoring \in Seq(steps) /\ Len(Closing \o Restoring) = 3
    BY <2>1
  <2>3. ASSUME NEW i \in 1..3 PROVE (Closing \o Restoring)[i] = ClosingFirst[i]
    <3>1. CASE i = 1
      BY <2>1, <3>1
    <3>2. CASE i = 2
      BY <2>1, <3>2
    <3>3. CASE i = 3
      BY <2>1, <3>3
    <3> QED BY <3>1, <3>2, <3>3
  <2> HIDE DEF Closing, Restoring, ClosingFirst
  <2> QED BY <2>1, <2>2, <2>3
<1> QED BY <1>1, <1>2, <1>3, <1>4, <1>5

\* The first step of each plan.
LEMMA PlanHeads ==
    /\ Head(Resync) = "announce" /\ Head(Tidying) = "tidy" /\ Head(Restoring) = "restore"
    /\ Head(ClosingFirst) = "clearConfigs" /\ Head(ClearingFirst) = "clearValues"
    /\ Head(Opening) = "configs" /\ Head(Values) = "message" /\ Head(Filling) = "fields"
    /\ Head(Closing) = "clearConfigs" /\ Head(Clearing) = "clearValues"
    /\ Closing[Len(Closing)] = "clearValues" /\ Clearing[Len(Clearing)] = "clearValues"
BY DEF Resync, Tidying, Restoring, ClosingFirst, ClearingFirst, Opening, Values, Filling,
       Closing, Clearing

\* How long each plan is.
LEMMA PlanNames ==
    /\ Len(Sent) = 0 /\ Len(ClosingFirst) = 3 /\ Len(ClearingFirst) = 2
    /\ Len(Closing) = 2 /\ Len(Clearing) = 1 /\ Len(Resync) = 3 /\ Len(Tidying) = 2
    /\ Len(Restoring) = 1 /\ Len(Opening) = 3 /\ Len(Values) = 2 /\ Len(Filling) = 1
BY DEF Resync, Tidying, Restoring, ClosingFirst, ClearingFirst, Opening, Values, Filling,
       Closing, Clearing, Sent

\* There is a lowest free slot when there is a free slot.
LEMMA LowestFree == Free # {} => Lowest \in Free
<1> SUFFICES ASSUME Free # {} PROVE Lowest \in Free
  OBVIOUS
<1>1. Free \subseteq Nat
  BY FormAssumption DEF Free, FormSlots
<1>2. PICK m \in Free : \A n \in Free : ~(<<n, m>> \in OpToRel(<, Nat))
  BY <1>1, WFMin, NatLessThanWellFounded
<1>3. \A n \in Free : ~(n < m)
  BY <1>1, <1>2 DEF OpToRel
<1>4. \A n \in Free : m <= n
  BY <1>1, <1>3
<1> QED BY <1>4 DEF Lowest

\* What a patch makes of a draft: the draft where it says something.
LEMMA AmendedFacts ==
    ASSUME NEW config \in Drafts, NEW draft \in Drafts
    PROVE  /\ Amended(config, draft) \in Drafts
           /\ \A f \in Fields : draft[f] # Blank => Amended(config, draft)[f] = draft[f]
           /\ Blocker(config) = Blank => Blocker(Amended(config, draft)) = Blank
<1> DEFINE new == Amended(config, draft)
<1>1. \A f \in Fields : new[f] = IF draft[f] = Blank THEN config[f] ELSE draft[f]
  BY DEF Amended
<1>2. /\ new["name"] = IF draft.name = Blank THEN config.name ELSE draft.name
      /\ new["kind"] = IF draft.kind = Blank THEN config.kind ELSE draft.kind
      /\ new["up"] = IF draft.up = Blank THEN config.up ELSE draft.up
      /\ new["down"] = IF draft.down = Blank THEN config.down ELSE draft.down
  BY <1>1 DEF Fields
<1>3. DOMAIN new = {"name", "kind", "up", "down"}
  BY DEF Amended, Fields
<1>4. new = [name |-> new["name"], kind |-> new["kind"], up |-> new["up"], down |-> new["down"]]
  BY <1>3 DEF Amended, Fields
<1> HIDE DEF new
<1>5. new \in Drafts
  BY <1>2, <1>4 DEF Drafts
<1>6. Blocker(config) = Blank => Blocker(new) = Blank
  BY <1>2, <1>4, FormAssumption DEF Blocker, Messages
<1> QED BY <1>1, <1>5, <1>6 DEF new

\* What is in a slot after a request was served, and where it came from.
LEMMA ServedRow ==
    ASSUME shades \in FormTables, NEW request, Askable(request), NEW id \in FormSlots
    PROVE  /\ Served(request)[id] \in {Blank} \cup Rows
           /\ Served(request)[id] # Blank =>
                \/ Served(request)[id] = shades[id] /\ ~(request.is = "amend" /\ request.id = id)
                \/ /\ shades[id] # Blank /\ Served(request)[id].by = shades[id].by
                   /\ request.is # "amend"
                   /\ Served(request)[id].config = shades[id].config
                \/ /\ shades[id] # Blank /\ Served(request)[id].by = shades[id].by
                   /\ request.is = "amend" /\ request.id = id
                   /\ Served(request)[id].config = Amended(shades[id].config, request.draft)
                \/ /\ request.is = "create" /\ Blocker(request.draft) = Blank
                   /\ Served(request)[id].config = request.draft
<1> USE DEF FormTables, Askable
<1>1. "refused" # Blank /\ "registryFull" # Blank
  BY FormAssumption DEF Messages
<1>2. CASE Refusal(request) # Blank
  <2>1. request.is = "amend" => shades[request.id] = Blank
    BY <1>2 DEF Refusal
  <2> QED BY <1>2, <2>1 DEF Served
<1>3. CASE Refusal(request) = Blank
  <2>1. CASE request.is = "create"
    <3>1. Free # {} /\ Blocker(request.draft) = Blank
      BY <1>1, <1>3, <2>1 DEF Refusal
    <3> DEFINE row == FormRow(request.draft, FALSE, "form")
    <3>2. Served(request) = [shades EXCEPT ![Lowest] = row]
      BY <1>3, <2>1 DEF Served
    <3>3. row \in Rows /\ row.config = request.draft
      BY DEF FormRow, Rows, Requests
    <3> HIDE DEF row
    <3> QED BY <2>1, <3>1, <3>2, <3>3
  <2>2. CASE request.is # "create"
    <3> DEFINE row == shades[request.id]
    <3>1. request.id \in FormSlots /\ row # Blank /\ row \in Rows
      BY <1>1, <1>3, <2>2 DEF Refusal
    <3>2. CASE request.is = "confirm"
      <4> DEFINE new == [row EXCEPT !.confirmed = TRUE]
      <4>1. Served(request) = [shades EXCEPT ![request.id] = new]
        BY <1>3, <3>1, <3>2 DEF Served
      <4>2. new \in Rows /\ new.config = row.config /\ new.by = row.by
        BY <3>1 DEF Rows
      <4> HIDE DEF new
      <4> QED BY <3>1, <3>2, <4>1, <4>2
    <3>3. CASE request.is = "abandon"
      <4>1. Served(request) = [shades EXCEPT ![request.id] = Blank]
        BY <1>3, <3>1, <3>3 DEF Served
      <4> QED BY <3>1, <3>3, <4>1
    <3>4. CASE request.is = "amend"
      <4> DEFINE new == [row EXCEPT !.config = Amended(row.config, request.draft)]
      <4>1. Served(request) = [shades EXCEPT ![request.id] = new]
        BY <1>3, <3>1, <3>4 DEF Served
      <4>2. row.config \in Drafts /\ request.draft \in Drafts
        BY <3>1 DEF Rows, Requests
      <4>3. new \in Rows /\ new.config = Amended(row.config, request.draft) /\ new.by = row.by
        <5>1. Amended(row.config, request.draft) \in Drafts
          BY <4>2, AmendedFacts
        <5> QED BY <3>1, <5>1 DEF Rows
      <4> HIDE DEF new
      <4> QED BY <3>1, <3>4, <4>1, <4>3
    <3>5. CASE request.is = "pair"
      <4>1. Served(request) = shades
        BY <1>3, <3>1, <3>5 DEF Served
      <4> QED BY <3>1, <3>5, <4>1
    <3> QED BY <2>2, <3>2, <3>3, <3>4, <3>5 DEF Requests, Ops
  <2> QED BY <2>1, <2>2
<1> QED BY <1>2, <1>3

\* One more effect waits.
LEMMA EffectWaits ==
    ASSUME effects \in Seq(Effects), NEW effect \in Effects, effects' = Append(effects, effect)
    PROVE  /\ effects' \in Seq(Effects) /\ Len(effects') = Len(effects) + 1 /\ effects' # <<>>
           /\ \A form : Waits(form) \/ effect.form = form <=> Waits(form)'
           /\ \A id : AmendWaits(id) \/ effect.ask = On("amend", id) <=> AmendWaits(id)'
           /\ effect.form = "open" => Reopens'
           /\ Reopens /\ effect.form # "close" => Reopens'
<1>1. /\ effects' \in Seq(Effects) /\ Len(effects') = Len(effects) + 1 /\ Len(effects) \in Nat
      /\ effects'[Len(effects) + 1] = effect
      /\ \A i \in 1..Len(effects) : effects'[i] = effects[i]
  OBVIOUS
<1>2. effects' # <<>>
  BY <1>1
<1>3. \A i \in 1..Len(effects') : i \in 1..Len(effects) \/ i = Len(effects) + 1
  BY <1>1
<1>4. Len(effects) + 1 \in 1..Len(effects') /\ \A i \in 1..Len(effects) : i \in 1..Len(effects')
  BY <1>1
<1>5. ASSUME NEW form PROVE Waits(form) \/ effect.form = form <=> Waits(form)'
  BY <1>1, <1>3, <1>4 DEF Waits
<1>6. ASSUME NEW id PROVE AmendWaits(id) \/ effect.ask = On("amend", id) <=> AmendWaits(id)'
  BY <1>1, <1>3, <1>4 DEF AmendWaits, AmendIn
<1>7. ASSUME effect.form = "open" \/ (Reopens /\ effect.form # "close") PROVE Reopens'
  <2> SUFFICES ASSUME NEW i \in 1..Len(effects'), effects'[i].form = "close"
               PROVE  \E j \in (i + 1)..Len(effects') : effects'[j].form = "open"
    BY DEF Reopens
  <2>1. i \in 1..Len(effects)
    BY <1>1, <1>3, <1>7
  <2>2. CASE effect.form = "open"
    BY <1>1, <2>1, <2>2
  <2>3. CASE Reopens
    <3>1. PICK j \in (i + 1)..Len(effects) : effects[j].form = "open"
      BY <1>1, <2>1, <2>3 DEF Reopens
    <3> QED BY <1>1, <2>1, <3>1
  <2> QED BY <1>7, <2>2, <2>3
<1> QED BY <1>1, <1>2, <1>5, <1>6, <1>7

\* The first effect is taken.
LEMMA EffectTaken ==
    ASSUME effects \in Seq(Effects), effects # <<>>, effects' = Tail(effects)
    PROVE  /\ effects' \in Seq(Effects) /\ Len(effects') = Len(effects) - 1
           /\ Head(effects) \in Effects
           /\ \A form : Waits(form) <=> Waits(form)' \/ Head(effects).form = form
           /\ \A id : AmendWaits(id) <=> AmendWaits(id)' \/ Head(effects).ask = On("amend", id)
           /\ Reopens => Reopens' /\ (Head(effects).form = "close" => Waits("open")')
<1>1. /\ effects' \in Seq(Effects) /\ Len(effects') = Len(effects) - 1 /\ Len(effects) \in Nat \ {0}
      /\ Head(effects) = effects[1] /\ Head(effects) \in Effects
      /\ \A i \in 1..Len(effects') : effects'[i] = effects[i + 1]
  OBVIOUS
<1>2. /\ 1 \in 1..Len(effects)
      /\ \A i \in 1..Len(effects') : i + 1 \in 1..Len(effects)
      /\ \A i \in 1..Len(effects) : i = 1 \/ (i - 1 \in 1..Len(effects') /\ (i - 1) + 1 = i)
  BY <1>1
<1>3. ASSUME NEW form PROVE Waits(form) <=> Waits(form)' \/ Head(effects).form = form
  BY <1>1, <1>2 DEF Waits
<1>4. ASSUME NEW id PROVE AmendWaits(id) <=> AmendWaits(id)' \/ Head(effects).ask = On("amend", id)
  BY <1>1, <1>2 DEF AmendWaits, AmendIn
<1>5. ASSUME Reopens PROVE Reopens'
  <2> SUFFICES ASSUME NEW i \in 1..Len(effects'), effects'[i].form = "close"
               PROVE  \E j \in (i + 1)..Len(effects') : effects'[j].form = "open"
    BY DEF Reopens
  <2>1. PICK j \in (i + 2)..Len(effects) : effects[j].form = "open"
    BY <1>1, <1>2, <1>5 DEF Reopens
  <2>2. j - 1 \in (i + 1)..Len(effects') /\ effects'[j - 1] = effects[j]
    BY <1>1, <2>1
  <2> QED BY <2>1, <2>2
<1>6. ASSUME Reopens, Head(effects).form = "close" PROVE Waits("open")'
  <2>1. PICK j \in 2..Len(effects) : effects[j].form = "open"
    BY <1>1, <1>2, <1>6 DEF Reopens
  <2>2. j - 1 \in 1..Len(effects') /\ effects'[j - 1] = effects[j]
    BY <1>1, <2>1
  <2> QED BY <2>1, <2>2 DEF Waits
<1> QED BY <1>1, <1>3, <1>4, <1>5, <1>6

\* A turn of the chain either ends it with something to publish or goes on with the ask.
LEMMA TurnFacts ==
    ASSUME NEW effect \in Effects, NEW opened \in BOOLEAN, NEW closed \in BOOLEAN, NEW left \in Nat,
           NEW phase, NEW mark \in SUBSET Marks, marks \in SUBSET Marks,
           Turn(effect, opened, closed, left, phase, mark)
    PROVE  /\ marks' \in SUBSET Marks /\ marks \subseteq marks' /\ mark \subseteq marks'
           /\ \/ /\ chain' = Blank /\ plan' \in {Sent, Opening, Values, Closing}
                 /\ effect.ask = Blank \/ left = 0
                 /\ plan' = Closing <=> closed \/ effect.form = "close"
                 /\ plan' # Closing => (plan' = Opening <=> opened \/ effect.form = "open")
                 /\ plan' \notin {Closing, Opening} => (plan' = Sent <=> phase = "idle")
                 /\ phase = "idle" /\ plan' # Closing /\ plan' # Sent => "reopened" \in marks'
              \/ /\ chain' \in Chains /\ chain' # Blank /\ plan' = Sent
                 /\ effect.ask # Blank /\ chain'.ask = effect.ask
                 /\ chain'.closed <=> closed \/ effect.form = "close"
                 /\ chain'.opened <=> opened \/ effect.form = "open"
<1> DEFINE o == opened \/ effect.form = "open"
           c == closed \/ effect.form = "close"
<1>1. CASE effect.ask = Blank \/ left = 0
  <2>1. /\ chain' = Blank /\ plan' = Publishing(o, c, phase)
        /\ marks' = marks \cup mark \cup IF o /\ ~c /\ phase = "idle" THEN {"reopened"} ELSE {}
    BY <1>1 DEF Turn
  <2>2. marks' \in SUBSET Marks /\ marks \subseteq marks' /\ mark \subseteq marks'
    BY <2>1 DEF Marks
  <2>3. o /\ ~c /\ phase = "idle" => "reopened" \in marks'
    BY <2>1
  <2>4. plan' = IF c THEN Closing ELSE
                IF o THEN Opening ELSE IF phase = "idle" THEN Sent ELSE Values
    BY <2>1 DEF Publishing, Sent
  <2>5. Closing # Opening /\ Closing # Values /\ Closing # Sent /\ Opening # Sent
        /\ Opening # Values /\ Values # Sent
    BY PlanNames, PlanHeads
  <2> QED BY <1>1, <2>1, <2>2, <2>3, <2>4, <2>5
<1>2. CASE ~(effect.ask = Blank \/ left = 0)
  <2>1. /\ chain' = [ask |-> effect.ask, opened |-> o, closed |-> c, left |-> left - 1]
        /\ plan' = <<>> /\ marks' = marks \cup mark
    BY <1>2 DEF Turn
  <2>2. chain' \in Chains
    <3>1. effect.ask \in Asks /\ left - 1 \in Nat
      BY <1>2 DEF Effects
    <3>2. o \in BOOLEAN /\ c \in BOOLEAN
      OBVIOUS
    <3> HIDE DEF o, c
    <3> QED BY <2>1, <3>1, <3>2 DEF Chains
  <2>3. chain' # Blank
    BY <2>2, FormAssumption
  <2>4. chain'.ask = effect.ask /\ (chain'.closed <=> c) /\ (chain'.opened <=> o)
    <3> HIDE DEF o, c
    <3> QED BY <2>1
  <2> QED BY <1>2, <2>1, <2>2, <2>3, <2>4 DEF Sent
<1> QED BY <1>1, <1>2

\* What an answer does: the flow moves, and the chain ends or goes on.
LEMMA AnsweredFacts ==
    ASSUME FormTypes, chain # Blank, NEW input, input = Blank \/ input \in Replies,
           NEW mark \in SUBSET Marks, Answered(input, mark)
    PROVE  /\ setup' \in Setups /\ Settled(setup') /\ (Open' => Open)
           /\ setup'.phase = "awaiting" =>
                /\ setup'.draft = setup.draft
                /\ setup.phase = "awaiting" => setup'.shade = setup.shade
                /\ setup.phase # "awaiting" =>
                     input # Blank /\ input.is = "created" /\ input.id = setup'.shade
           /\ marks' \in SUBSET Marks /\ marks \subseteq marks' /\ mark \subseteq marks'
           /\ \/ /\ chain' = Blank /\ plan' \in {Sent, Opening, Values, Closing}
                 /\ chain.closed \/ (Open /\ ~Open') => plan' = Closing
                 /\ plan' = Closing => chain.closed \/ ~Open'
                 /\ plan' # Closing => (plan' = Opening <=> chain.opened)
                 /\ Open' => plan' # Sent
                 /\ ~Open' /\ plan' # Closing /\ plan' # Sent => "reopened" \in marks'
              \/ /\ chain' \in Chains /\ chain' # Blank /\ plan' = Sent
                 /\ chain.closed \/ (Open /\ ~Open') => chain'.closed
                 /\ chain'.closed => chain.closed \/ ~Open'
                 /\ chain'.opened <=> chain.opened
<1> DEFINE out == IF input = Blank THEN Nothing(setup) ELSE Applied(setup, input)
<1>1. setup' = out.setup /\ Turn(out.effect, chain.opened, chain.closed, chain.left,
                                 out.setup.phase, mark)
  BY DEF Answered
<1>2. setup \in Setups /\ Settled(setup)
  BY DEF FormTypes, Settled
<1>3. /\ out.setup \in Setups /\ Settled(out.setup) /\ out.effect \in Effects
      /\ setup.phase = "idle" => out.setup.phase = "idle"
      /\ setup.phase # "idle" /\ out.setup.phase = "idle" => out.effect.form = "close"
      /\ out.effect.form = "close" => out.setup.phase = "idle" \/ setup.phase = "idle"
      /\ out.effect.form # "open"
      /\ out.setup.phase = "awaiting" =>
            /\ out.setup.draft = setup.draft
            /\ setup.phase = "awaiting" => out.setup.shade = setup.shade
            /\ setup.phase # "awaiting" =>
                 input # Blank /\ input.is = "created" /\ input.id = out.setup.shade
  <2>1. CASE input = Blank
    <3>1. out.setup = setup /\ out.effect = [form |-> "unchanged", ask |-> Blank]
      BY <2>1 DEF Nothing, Out, Effect
    <3>2. [form |-> "unchanged", ask |-> Blank] \in Effects
      BY DEF Effects
    <3> HIDE DEF out
    <3> QED BY <1>2, <3>1, <3>2
  <2>2. CASE input # Blank
    <3>1. input \in Replies /\ out = Applied(setup, input)
      BY <2>2
    <3> HIDE DEF out
    <3>2. /\ out.setup \in Setups /\ Settled(out.setup) /\ out.effect \in Effects
      BY <1>2, <3>1, FlowTypes
    <3>3. /\ setup.phase = "idle" /\ out.setup.phase # "idle" => out.effect.form = "open"
          /\ setup.phase # "idle" /\ out.setup.phase = "idle" => out.effect.form = "close"
          /\ out.effect.form = "close" => out.setup.phase = "idle"
          /\ out.effect.form # "open"
      BY <1>2, <3>1, FlowForms
    <3>4. ASSUME out.setup.phase = "awaiting"
          PROVE  /\ out.setup.draft = setup.draft
                 /\ setup.phase = "awaiting" => out.setup.shade = setup.shade
                 /\ setup.phase # "awaiting" =>
                      input # Blank /\ input.is = "created" /\ input.id = out.setup.shade
      <4>1. Applied(setup, input).setup.phase = "awaiting"
        BY <3>1, <3>4
      <4>2. /\ setup.phase = "awaiting" =>
                  /\ out.setup.shade = setup.shade
                  /\ \/ out.setup.draft = setup.draft
                     \/ input \in Arrivals
            /\ setup.phase # "awaiting" =>
                  /\ input.is = "created" /\ input.id = out.setup.shade
                  /\ out.setup.draft = setup.draft
        BY <1>2, <3>1, <4>1, FlowDrafts
      <4>3. input \notin Arrivals
        BY <3>1 DEF Replies, Arrivals, Presses
      <4> QED BY <2>2, <4>2, <4>3
    <3> QED BY <3>2, <3>3, <3>4
  <2> QED BY <2>1, <2>2
<1> HIDE DEF out
<1>4. chain \in Chains
  BY DEF FormTypes
<1>5. chain.opened \in BOOLEAN /\ chain.closed \in BOOLEAN /\ chain.left \in Nat
  BY <1>4 DEF Chains
<1>6. marks \in SUBSET Marks
  BY DEF FormTypes, Marks
<1>7. /\ marks' \in SUBSET Marks /\ marks \subseteq marks' /\ mark \subseteq marks'
      /\ \/ /\ chain' = Blank /\ plan' \in {Sent, Opening, Values, Closing}
            /\ plan' = Closing <=> chain.closed \/ out.effect.form = "close"
            /\ plan' # Closing => (plan' = Opening <=> chain.opened \/ out.effect.form = "open")
            /\ plan' \notin {Closing, Opening} => (plan' = Sent <=> out.setup.phase = "idle")
            /\ out.setup.phase = "idle" /\ plan' # Closing /\ plan' # Sent => "reopened" \in marks'
         \/ /\ chain' \in Chains /\ chain' # Blank /\ plan' = Sent
            /\ chain'.closed <=> chain.closed \/ out.effect.form = "close"
            /\ chain'.opened <=> chain.opened \/ out.effect.form = "open"
  BY <1>1, <1>3, <1>5, <1>6, TurnFacts
<1>8. Sent # Opening /\ Sent # Closing
  BY PlanNames
<1>9. (Open <=> setup.phase # "idle") /\ (Open' <=> out.setup.phase # "idle")
  BY <1>1 DEF Open
<1> QED BY <1>1, <1>3, <1>7, <1>8, <1>9

\* No plan is another.
LEMMA PlansApart ==
    /\ Sent \notin {Resync, Tidying, Restoring, ClosingFirst, ClearingFirst, Opening, Values,
              Filling, Closing, Clearing}
    /\ Resync \notin {Tidying, Restoring, ClosingFirst, ClearingFirst, Opening, Values, Filling,
              Closing, Clearing}
    /\ Tidying \notin {Restoring, ClosingFirst, ClearingFirst, Opening, Values, Filling,
              Closing, Clearing}
    /\ Restoring \notin {ClosingFirst, ClearingFirst, Opening, Values, Filling, Closing, Clearing}
    /\ ClosingFirst \notin {ClearingFirst, Opening, Values, Filling, Closing, Clearing}
    /\ ClearingFirst \notin {Opening, Values, Filling, Closing, Clearing}
    /\ Opening \notin {Values, Filling, Closing, Clearing}
    /\ Values \notin {Filling, Closing, Clearing}
    /\ Filling \notin {Closing, Clearing}
    /\ Closing \notin {Clearing}
<1>1. /\ Sent \notin {Resync, Tidying, Restoring, ClosingFirst, ClearingFirst, Opening, Values,
              Filling, Closing, Clearing}
      /\ Resync \notin {Tidying, Restoring, ClosingFirst, ClearingFirst, Opening, Values, Filling,
              Closing, Clearing}
      /\ Tidying \notin {Restoring, ClosingFirst, ClearingFirst, Opening, Values, Filling,
              Closing, Clearing}
  BY PlanHeads, PlanNames
<1>2. /\ Restoring \notin {ClosingFirst, ClearingFirst, Opening, Values, Filling, Closing, Clearing}
      /\ ClosingFirst \notin {ClearingFirst, Opening, Values, Filling, Closing, Clearing}
      /\ ClearingFirst \notin {Opening, Values, Filling, Closing, Clearing}
  BY PlanHeads, PlanNames
<1>3. /\ Opening \notin {Values, Filling, Closing, Clearing}
      /\ Values \notin {Filling, Closing, Clearing}
      /\ Filling \notin {Closing, Clearing}
      /\ Closing \notin {Clearing}
  BY PlanHeads, PlanNames
<1> QED BY <1>1, <1>2, <1>3

\* What is left of a plan is a plan.
LEMMA PlanTails == ASSUME NEW p \in Plans, p # Sent PROVE Tail(p) \in Plans
BY PlanSteps DEF Plans

\* A plan that closes or clears was one before its last step.
LEMMA PlansBack ==
    ASSUME NEW p \in Plans, p # Sent
    PROVE  /\ Tail(p) \in {Closing, Clearing} => p \in {Closing, Clearing}
           /\ Tail(p) \in {ClosingFirst, ClearingFirst} => p \in {ClosingFirst, ClearingFirst}
<1>1. CASE p \in {Resync, Tidying, Restoring}
  <2>1. Tail(p) \in {Tidying, Restoring, Sent}
    BY <1>1, PlanSteps
  <2> QED BY <2>1, PlansApart
<1>2. CASE p \in {Opening, Values, Filling}
  <2>1. Tail(p) \in {Values, Filling, Sent}
    BY <1>2, PlanSteps
  <2> QED BY <2>1, PlansApart
<1>3. CASE p \in {ClosingFirst, ClearingFirst}
  <2>1. Tail(p) \in {ClearingFirst, Restoring}
    BY <1>3, PlanSteps
  <2> QED BY <1>3, <2>1, PlansApart
<1>4. CASE p \in {Closing, Clearing}
  <2>1. Tail(p) \in {Clearing, Sent}
    BY <1>4, PlanSteps
  <2> QED BY <1>4, <2>1, PlansApart
<1> QED BY <1>1, <1>2, <1>3, <1>4 DEF Plans

\* A publication leaves a copy of a form.
LEMMA PublishedType ==
    ASSUME FormTypes, Turns, plan # Sent, Head(plan) \notin Control
    PROVE  Published(Head(plan)) \in Copies
<1>1. Head(plan) \in {"announce", "configs", "message", "fields", "clearConfigs", "clearValues"}
  BY PlanHeads DEF FormTypes, Plans, Control
<1>2. setup.draft \in Drafts /\ setup.message \in Messages /\ shown \in Copies
  BY DEF FormTypes, Setups
<1>3. FieldsShown \in Copies
  <2> DEFINE g == FieldsShown
  <2>1. DOMAIN shown = {"configs", "message", "name", "kind", "up", "down"}
    BY <1>2 DEF Copies
  <2>2. /\ g = [f \in {"configs", "message", "name", "kind", "up", "down"} |->
                  IF f \in Fields /\ setup.draft[f] # Blank THEN setup.draft[f] ELSE shown[f]]
    BY <2>1 DEF FieldsShown
  <2>3. /\ g["configs"] = shown.configs /\ g["message"] = shown.message
        /\ g["name"] = IF setup.draft.name # Blank THEN setup.draft.name ELSE shown.name
        /\ g["kind"] = IF setup.draft.kind # Blank THEN setup.draft.kind ELSE shown.kind
        /\ g["up"] = IF setup.draft.up # Blank THEN setup.draft.up ELSE shown.up
        /\ g["down"] = IF setup.draft.down # Blank THEN setup.draft.down ELSE shown.down
    BY <2>2 DEF Fields
  <2>4. g = [configs |-> g["configs"], message |-> g["message"], name |-> g["name"],
             kind |-> g["kind"], up |-> g["up"], down |-> g["down"]]
    BY <2>2
  <2> HIDE DEF g
  <2>5. g \in Copies
    BY <1>2, <2>3, <2>4 DEF Copies, Drafts
  <2> QED BY <2>5 DEF g
<1>4. Unshown \in Copies
  BY DEF Unshown, Copies
<1>5. shown.configs \in BOOLEAN
  BY <1>2 DEF Copies
<1>6. CASE Head(plan) \in {"announce", "fields"}
  BY <1>2, <1>3, <1>6 DEF Published
<1>7. CASE Head(plan) = "message"
  <2>1. Published(Head(plan)) = [shown EXCEPT !.message = setup.message]
    BY <1>7 DEF Published
  <2> QED BY <1>2, <2>1 DEF Copies
<1>8. CASE Head(plan) = "configs"
  <2>1. Published(Head(plan)) = [shown EXCEPT !.configs = TRUE]
    BY <1>8 DEF Published
  <2> QED BY <1>2, <2>1 DEF Copies
<1>9. CASE Head(plan) = "clearConfigs"
  <2>1. Published(Head(plan)) = [shown EXCEPT !.configs = FALSE]
    BY <1>9 DEF Published
  <2> QED BY <1>2, <2>1 DEF Copies
<1>10. CASE Head(plan) = "clearValues"
  <2>1. Published(Head(plan)) = [Unshown EXCEPT !.configs = shown.configs]
    BY <1>10 DEF Published
  <2> QED BY <1>4, <1>5, <2>1 DEF Copies
<1> QED BY <1>1, <1>6, <1>7, <1>8, <1>9, <1>10

\* A request made of an ask can be served.
LEMMA RequestType ==
    ASSUME FormTypes, chain # Blank
    PROVE  Askable(Request(chain.ask))
<1>1. chain.ask \in Asks /\ setup.draft \in Drafts
  BY DEF FormTypes, Chains, Setups
<1>2. /\ chain.ask.is \in Ops \cup {"create"}
      /\ chain.ask.is # "create" => chain.ask.id \in FormSlots
  BY <1>1 DEF Asks, Create, Ops
<1> QED BY <1>1, <1>2 DEF Request, Askable, Requests

\* An answer is an input of the flow, or none.
LEMMA ReplyType ==
    ASSUME FormTypes, NEW request, Askable(request)
    PROVE  Reply(request) = Blank \/ Reply(request) \in Replies
<1>1. Refusal(request) # Blank => Refusal(request) \in Messages
  BY DEF Refusal, Blocker, Messages, Askable, Requests
<1>2. Refusal(request) = Blank /\ request.is = "create" => Lowest \in FormSlots
  <2> SUFFICES ASSUME Refusal(request) = Blank, request.is = "create" PROVE Lowest \in FormSlots
    OBVIOUS
  <2>1. Free # {}
    BY FormAssumption DEF Refusal, Messages
  <2> QED BY <2>1, LowestFree DEF Free
<1>3. CASE Refusal(request) # Blank
  BY <1>1, <1>3 DEF Reply, RefusedFor, Replies
<1>4. CASE Refusal(request) = Blank
  BY <1>2, <1>4 DEF Reply, Replies
<1> QED BY <1>3, <1>4

\* The table of the web page.
LEMMA WebType == WebConfig \in Drafts /\ Blocker(WebConfig) = Blank
<1>1. PICK w \in Words, t \in Typed : TRUE
  BY FormAssumption
<1> DEFINE d == [name |-> w, kind |-> Roller, up |-> t, down |-> t]
<1>2. d \in Drafts
  BY FormAssumption DEF Drafts
<1>3. Blocker(d) = Blank
  BY FormAssumption DEF Blocker
<1> HIDE DEF d
<1> QED BY <1>2, <1>3 DEF WebConfig

\* Serving a request leaves a table.
LEMMA ServedTable ==
    ASSUME shades \in FormTables, NEW request, Askable(request)
    PROVE  Served(request) \in FormTables
<1>1. \A id \in FormSlots : Served(request)[id] \in {Blank} \cup Rows
  BY ServedRow
<1>2. /\ Served(request) = [id \in DOMAIN Served(request) |-> Served(request)[id]]
      /\ DOMAIN Served(request) = FormSlots
  <2>1. \/ Served(request) = shades
        \/ \E id, row : Served(request) = [shades EXCEPT ![id] = row]
    BY DEF Served, Askable, Requests, Ops
  <2> QED BY <2>1 DEF FormTables
<1> QED BY <1>1, <1>2 DEF FormTables

\* What a visit to the web page leaves in a slot.
LEMMA VisitRow ==
    ASSUME shades \in FormTables, Visit
    PROVE  /\ shades' \in FormTables
           /\ \A id \in FormSlots : shades'[id] # Blank =>
                \/ shades[id] # Blank /\ shades'[id].config = shades[id].config
                   /\ shades'[id].by = shades[id].by
                \/ shades'[id].config = WebConfig /\ shades'[id].by = "web"
<1>1. CASE Free # {} /\ shades' = [shades EXCEPT ![Lowest] = FormRow(WebConfig, FALSE, "web")]
  <2> DEFINE row == FormRow(WebConfig, FALSE, "web")
  <2>1. row \in Rows /\ row.config = WebConfig /\ row.by = "web"
    BY WebType DEF FormRow, Rows
  <2>2. Lowest \in FormSlots
    BY <1>1, LowestFree DEF Free
  <2>3. shades' = [shades EXCEPT ![Lowest] = row]
    BY <1>1
  <2> HIDE DEF row
  <2> QED BY <2>1, <2>2, <2>3 DEF FormTables
<1>2. ASSUME NEW n \in FormSlots \ Free, shades' = [shades EXCEPT ![n].confirmed = TRUE]
      PROVE  /\ shades' \in FormTables
             /\ \A id \in FormSlots : shades'[id] # Blank =>
                  shades[id] # Blank /\ shades'[id].config = shades[id].config
                  /\ shades'[id].by = shades[id].by
  <2> DEFINE row == [shades[n] EXCEPT !.confirmed = TRUE]
  <2>1. shades[n] # Blank /\ shades[n] \in Rows
    BY DEF Free, FormTables
  <2>2. row \in Rows /\ row.config = shades[n].config /\ row.by = shades[n].by
    BY <2>1 DEF Rows
  <2>3. shades' = [shades EXCEPT ![n] = row]
    BY <1>2
  <2> HIDE DEF row
  <2> QED BY <2>1, <2>2, <2>3 DEF FormTables
<1>3. ASSUME NEW n \in FormSlots \ Free, shades' = [shades EXCEPT ![n] = Blank]
      PROVE  /\ shades' \in FormTables
             /\ \A id \in FormSlots : shades'[id] # Blank => shades'[id] = shades[id]
  BY <1>3 DEF FormTables
<1> QED BY <1>1, <1>2, <1>3 DEF Visit

\* What the carrying out of an ask leaves of the types.
LEMMA AnsweredTypes ==
    ASSUME FormTypes, Turns, chain # Blank, NEW input, input = Blank \/ input \in Replies,
           NEW mark \in SUBSET Marks, Answered(input, mark),
           UNCHANGED <<effects, settling, joined, form_dirty, shown>>,
           shades' \in FormTables, raised' = Blank \/ Askable(raised')
    PROVE  FormTypes' /\ Turns'
<1>1. /\ setup' \in Setups /\ Settled(setup') /\ marks' \in SUBSET Marks
      /\ chain' = Blank \/ chain' \in Chains
      /\ plan' \in {Sent, Opening, Values, Closing}
      /\ chain' # Blank => plan' = Sent
  BY AnsweredFacts
<1>2. FormTypes'
  BY <1>1 DEF FormTypes, Plans
<1>3. joined /\ plan = Sent
  BY DEF Turns
<1>4. joined' = joined /\ settling' = settling
  OBVIOUS
<1>5. plan' \notin {ClosingFirst, ClearingFirst}
  BY <1>1, PlansApart
<1>6. Turns'
  BY <1>1, <1>3, <1>4, <1>5 DEF Turns
<1> QED BY <1>2, <1>6

\* What taking an effect does: there is something to publish, or an ask is carried out.
LEMMA DrainFacts ==
    ASSUME FormTypes, Turns, Drain
    PROVE  /\ plan = Sent /\ chain = Blank /\ joined /\ ~settling
           /\ effects # <<>> /\ effects' = Tail(effects) /\ Head(effects) \in Effects
           /\ UNCHANGED <<setup, settling, joined, form_dirty, shown, shades, raised>>
           /\ marks' \in SUBSET Marks /\ marks \subseteq marks'
           /\ \/ /\ chain' = Blank /\ plan' \in {Sent, Opening, Values, Closing}
                 /\ Head(effects).ask = Blank
                 /\ plan' = Closing <=> Head(effects).form = "close"
                 /\ plan' # Closing => (plan' = Opening <=> Head(effects).form = "open")
                 /\ Open => plan' # Sent
                 /\ ~Open /\ plan' # Closing /\ plan' # Sent => "reopened" \in marks'
              \/ /\ chain' \in Chains /\ chain' # Blank /\ plan' = Sent
                 /\ chain'.ask = Head(effects).ask
                 /\ chain'.closed <=> Head(effects).form = "close"
                 /\ chain'.opened <=> Head(effects).form = "open"
<1>1. /\ plan = Sent /\ chain = Blank /\ joined /\ ~settling
      /\ effects # <<>> /\ effects' = Tail(effects)
      /\ UNCHANGED <<setup, settling, joined, form_dirty, shown, shades, raised>>
  BY DEF Drain, Idle, Sent, Turns
<1>2. Head(effects) \in Effects
  BY <1>1, EffectTaken DEF FormTypes
<1> DEFINE effect == Head(effects)
           none == FALSE
           nothing == {}
<1>3. Turn(effect, none, none, CHAIN, setup.phase, nothing)
  BY DEF Drain
<1>4. /\ none \in BOOLEAN /\ ~none /\ nothing \in SUBSET Marks
      /\ CHAIN \in Nat /\ CHAIN # 0 /\ marks \in SUBSET Marks /\ effect \in Effects
  BY <1>2, FormAssumption DEF FormTypes
<1> HIDE DEF effect, none, nothing
<1>5. /\ marks' \in SUBSET Marks /\ marks \subseteq marks'
      /\ \/ /\ chain' = Blank /\ plan' \in {Sent, Opening, Values, Closing}
            /\ effect.ask = Blank \/ CHAIN = 0
            /\ plan' = Closing <=> none \/ effect.form = "close"
            /\ plan' # Closing => (plan' = Opening <=> none \/ effect.form = "open")
            /\ plan' \notin {Closing, Opening} => (plan' = Sent <=> setup.phase = "idle")
            /\ setup.phase = "idle" /\ plan' # Closing /\ plan' # Sent => "reopened" \in marks'
         \/ /\ chain' \in Chains /\ chain' # Blank /\ plan' = Sent
            /\ effect.ask # Blank /\ chain'.ask = effect.ask
            /\ chain'.closed <=> none \/ effect.form = "close"
            /\ chain'.opened <=> none \/ effect.form = "open"
  BY <1>3, <1>4, TurnFacts
<1> QED BY <1>1, <1>2, <1>4, <1>5, PlansApart DEF Open, effect

\* Every step keeps the types, and one thing at a time.
LEMMA TypesKept == ASSUME FormTypes, Turns, FormNext PROVE FormTypes' /\ Turns'
<1>1. CASE Connect
  BY <1>1, PlansApart DEF Connect, FormTypes, Turns, Plans, Sent, Askable
<1>2. CASE Drain
  <2>1. /\ effects \in Seq(Effects) /\ effects # <<>> /\ effects' = Tail(effects)
        /\ marks' \in SUBSET Marks /\ plan' \in {Sent, Opening, Values, Closing}
        /\ chain' = Blank \/ chain' \in Chains
        /\ chain' # Blank => plan' = Sent
        /\ joined /\ ~settling
        /\ UNCHANGED <<setup, settling, joined, form_dirty, shown, shades, raised>>
    BY <1>2, DrainFacts DEF FormTypes
  <2>2. effects' \in Seq(Effects) /\ Len(effects') <= QUEUE
    BY <2>1, EffectTaken, FormAssumption DEF FormTypes
  <2>3. FormTypes'
    BY <2>1, <2>2 DEF FormTypes, Plans, Askable
  <2>4. plan' \notin {ClosingFirst, ClearingFirst}
    BY <2>1, PlansApart
  <2>5. Turns'
    BY <2>1, <2>4 DEF Turns
  <2> QED BY <2>3, <2>5
<1>3. CASE Ask
  <2> DEFINE request == Request(chain.ask)
  <2>1. chain # Blank /\ Askable(request)
    BY <1>3, RequestType DEF Ask
  <2>2. shades' = Served(request) /\ Answered(Reply(request), {})
    BY <1>3 DEF Ask
  <2>3. /\ raised' = Blank /\ UNCHANGED <<effects, settling, joined, form_dirty, shown>>
    BY <1>3 DEF Ask
  <2> HIDE DEF request
  <2>4. Reply(request) = Blank \/ Reply(request) \in Replies
    BY <2>1, ReplyType
  <2>5. shades' \in FormTables
    BY <2>1, <2>2, ServedTable DEF FormTypes
  <2> QED BY <2>1, <2>2, <2>3, <2>4, <2>5, AnsweredTypes
<1>4. CASE AskRefused
  <2>1. RefusedFor("refused") \in Replies
    BY DEF RefusedFor, Replies, Messages
  <2>2. /\ chain # Blank /\ raised' = Blank /\ shades' = shades
        /\ Answered(RefusedFor("refused"), {"refused"})
        /\ UNCHANGED <<effects, settling, joined, form_dirty, shown>>
    BY <1>4 DEF AskRefused
  <2>3. {"refused"} \in SUBSET Marks /\ shades' \in FormTables
    BY <2>2 DEF Marks, FormTypes
  <2> QED BY <2>1, <2>2, <2>3, AnsweredTypes
<1>5. CASE AskTimesOut
  <2>1. RefusedFor("refused") \in Replies
    BY DEF RefusedFor, Replies, Messages
  <2>2. /\ chain # Blank /\ raised' = Request(chain.ask) /\ shades' = shades
        /\ Answered(RefusedFor("refused"), {"late"})
        /\ UNCHANGED <<effects, settling, joined, form_dirty, shown>>
    BY <1>5 DEF AskTimesOut
  <2>3. {"late"} \in SUBSET Marks /\ shades' \in FormTables
    BY <2>2 DEF Marks, FormTypes
  <2>4. Askable(raised')
    BY <2>2, RequestType
  <2> QED BY <2>1, <2>2, <2>3, <2>4, AnsweredTypes
<1>6. CASE Send
  <2>1. plan # Sent /\ Head(plan) \notin Control
    BY <1>6 DEF Send, Sent
  <2>2. shown' \in Copies
    BY <1>6, <2>1, PublishedType DEF Send
  <2> QED BY <1>6, <2>1, <2>2 DEF Send, FormTypes, Turns, Askable
<1>7. CASE Settle
  <2>1. plan # Sent /\ plan' = Tail(plan) /\ joined /\ chain = Blank
    BY <1>7 DEF Settle, Turns
  <2>2. /\ plan' \in Plans
        /\ plan' \in {ClosingFirst, ClearingFirst} => plan \in {ClosingFirst, ClearingFirst}
    <3>1. plan \in Plans
      BY DEF FormTypes
    <3>2. plan' \in Plans
      BY <2>1, <3>1, PlanTails
    <3> QED BY <2>1, <3>1, <3>2, PlansBack
  <2> QED BY <1>7, <2>1, <2>2 DEF Settle, FormTypes, Turns, Askable
<1>8. CASE Tidy
  <2>1. plan # Sent /\ Head(plan) \in Control /\ joined /\ chain = Blank /\ ~settling
    BY <1>8 DEF Tidy, Turns, Sent, Control
  <2>2. plan = Tidying
    BY <1>8, <2>1, PlanHeads DEF FormTypes, Plans, Tidy
  <2>3. (plan' = ClosingFirst /\ form_dirty) \/ plan' = Restoring
    BY <1>8, <2>2, PlanSteps DEF Tidy
  <2>4. Restoring \notin {ClosingFirst, ClearingFirst}
    BY PlansApart
  <2> QED BY <1>8, <2>1, <2>3, <2>4 DEF Tidy, FormTypes, Turns, Plans, Askable
<1>9. CASE Restore
  <2>1. plan # Sent /\ Head(plan) \in Control /\ joined /\ chain = Blank /\ ~settling
    BY <1>9 DEF Restore, Turns, Sent, Control
  <2>2. plan' \in {Opening, Sent} /\ plan' \notin {ClosingFirst, ClearingFirst}
    BY <1>9, PlansApart DEF Restore, Sent
  <2> QED BY <1>9, <2>1, <2>2 DEF Restore, FormTypes, Turns, Plans, Askable
<1>10. CASE ServeLate
  <2>1. raised # Blank /\ shades' = Served(raised) /\ raised' = Blank
    BY <1>10 DEF ServeLate
  <2>2. shades' \in FormTables
    BY <2>1, ServedTable DEF FormTypes
  <2> QED BY <1>10, <2>1, <2>2 DEF ServeLate, FormTypes, Turns
<1>11. CASE Lose
  <2>1. marks' \in SUBSET Marks
    BY <1>11 DEF Lose, FormTypes, Marks
  <2>2. Sent \notin {ClosingFirst, ClearingFirst} /\ Sent \in Plans
    BY PlansApart DEF Plans
  <2> QED BY <1>11, <2>1, <2>2 DEF Lose, FormTypes, Turns, Askable, Sent
<1>12. CASE FormRestart
  <2>1. NewSetup \in Setups /\ Settled(NewSetup)
    BY NoBlank, FormAssumption DEF NewSetup, Setups, FreshDraft, Drafts, Messages, Settled
  <2>2. <<>> \in Seq(Effects) /\ Len(<<>>) <= QUEUE
    BY FormAssumption
  <2>3. Sent \notin {ClosingFirst, ClearingFirst} /\ Sent \in Plans
    BY PlansApart DEF Plans
  <2> QED BY <1>12, <2>1, <2>2, <2>3 DEF FormRestart, FormTypes, Turns, Sent
<1>13. CASE Visit
  <2>1. shades' \in FormTables
    BY <1>13, VisitRow DEF FormTypes
  <2> QED BY <1>13, <2>1 DEF Visit, FormTypes, Turns, Askable
<1>14. ASSUME NEW input \in Arrivals, Receive(input) PROVE FormTypes' /\ Turns'
  <2> DEFINE out == Applied(setup, input)
  <2>1. /\ setup' = out.setup
        /\ \/ /\ Len(effects) < QUEUE /\ effects' = Append(effects, out.effect) /\ marks' = marks
           \/ effects' = effects /\ marks' = marks \cup {"dropped"}
        /\ UNCHANGED <<chain, plan, settling, joined, form_dirty, shown, shades, raised>>
    BY <1>14 DEF Receive
  <2> HIDE DEF out
  <2>2. out.setup \in Setups /\ Settled(out.setup) /\ out.effect \in Effects
    BY FlowTypes DEF out, FormTypes
  <2>3. effects' \in Seq(Effects) /\ Len(effects') <= QUEUE
    BY <2>1, <2>2, EffectWaits, FormAssumption DEF FormTypes
  <2>4. marks' \in SUBSET Marks
    BY <2>1 DEF FormTypes, Marks
  <2> QED BY <2>1, <2>2, <2>3, <2>4 DEF FormTypes, Turns, Askable
<1> QED BY <1>1, <1>2, <1>3, <1>4, <1>5, <1>6, <1>7, <1>8, <1>9, <1>10, <1>11, <1>12, <1>13, <1>14
     DEF FormNext, SessionWork

\* The same effects wait where none was left or taken.
LEMMA EffectsStay ==
    ASSUME effects' = effects
    PROVE  /\ Reopens' <=> Reopens
           /\ Waits("open")' <=> Waits("open")
           /\ Waits("close")' <=> Waits("close")
           /\ \A id : AmendWaits(id)' <=> AmendWaits(id)
BY DEF Reopens, Waits, AmendWaits

\* What a publication changes of what is held.
LEMMA PublishedFacts ==
    ASSUME FormTypes, NEW step
    PROVE  /\ step = "announce" => Published(step) = shown
           /\ step = "configs" => Published(step).configs
           /\ step = "message" => /\ Published(step).message = setup.message
                                  /\ Published(step).configs = shown.configs
           /\ step = "fields" =>
                /\ Published(step).configs = shown.configs
                /\ Published(step).message = shown.message
                /\ \A f \in Fields : setup.draft[f] # Blank => Published(step)[f] = setup.draft[f]
           /\ step = "clearConfigs" => Published(step).configs = FALSE
           /\ step = "clearValues" => /\ Published(step).configs = shown.configs
                                      /\ ~shown.configs => Published(step) = Unshown
<1>1. shown \in Copies
  BY DEF FormTypes
<1>2. DOMAIN shown = {"configs", "message", "name", "kind", "up", "down"}
  BY <1>1 DEF Copies
<1>3. step = "announce" => Published(step) = shown
  BY DEF Published
<1>4. step = "configs" => Published(step).configs
  BY <1>1 DEF Published, Copies
<1>5. step = "message" => /\ Published(step).message = setup.message
                          /\ Published(step).configs = shown.configs
  BY <1>1 DEF Published, Copies
<1>6. /\ FieldsShown.configs = shown.configs /\ FieldsShown.message = shown.message
      /\ \A f \in Fields : setup.draft[f] # Blank => FieldsShown[f] = setup.draft[f]
  BY <1>2 DEF FieldsShown, Fields
<1>7. step = "fields" => Published(step) = FieldsShown
  BY DEF Published
<1>8. step = "clearConfigs" => Published(step).configs = FALSE
  BY <1>1 DEF Published, Copies
<1>9. step = "clearValues" => Published(step) = [Unshown EXCEPT !.configs = shown.configs]
  BY DEF Published
<1>10. shown.configs \in BOOLEAN
  BY <1>1 DEF Copies
<1>11. [Unshown EXCEPT !.configs = shown.configs].configs = shown.configs
  BY DEF Unshown
<1>12. ~shown.configs => [Unshown EXCEPT !.configs = shown.configs] = Unshown
  <2> SUFFICES ASSUME ~shown.configs PROVE [Unshown EXCEPT !.configs = shown.configs] = Unshown
    OBVIOUS
  <2>1. shown.configs = FALSE
    BY <1>10
  <2>2. /\ DOMAIN Unshown = {"configs", "message", "name", "kind", "up", "down"}
        /\ Unshown.configs = FALSE
    BY DEF Unshown
  <2>3. Unshown = [f \in DOMAIN Unshown |-> Unshown[f]]
    BY DEF Unshown
  <2>4. [Unshown EXCEPT !.configs = FALSE] = [f \in DOMAIN Unshown |-> Unshown[f]]
    BY <2>2
  <2> QED BY <2>1, <2>3, <2>4
<1> QED BY <1>3, <1>4, <1>5, <1>6, <1>7, <1>8, <1>9, <1>11, <1>12

\* An answer and what is held of an open form.
LEMMA AnsweredHeld ==
    ASSUME FormTypes, Turns, Held, chain # Blank, NEW input, input = Blank \/ input \in Replies,
           NEW mark \in SUBSET Marks, Answered(input, mark),
           UNCHANGED <<effects, settling, joined, form_dirty, shown>>
    PROVE  Held'
<1> SUFFICES ASSUME Open', "dropped" \notin marks'
             PROVE  /\ Reopens'
                    /\ chain' # Blank /\ chain'.closed => Waits("open")'
                    /\ joined' /\ Unsent' \notin Restores => ConfigsHeld' /\ ValuesHeld'
  BY DEF Held
<1>1. /\ Open /\ marks \subseteq marks'
      /\ \/ /\ chain' = Blank /\ plan' \in {Sent, Opening, Values, Closing}
            /\ plan' = Closing <=> chain.closed
            /\ plan' # Closing => (plan' = Opening <=> chain.opened)
            /\ plan' # Sent
         \/ /\ chain' # Blank /\ plan' = Sent
            /\ chain'.closed <=> chain.closed
            /\ chain'.opened <=> chain.opened
  BY AnsweredFacts
<1>2. joined /\ plan = Sent /\ ~settling /\ Unsent = Sent
  BY DEF Turns, Unsent
<1>3. /\ Reopens /\ (chain.closed => Waits("open"))
      /\ shown.configs \/ Waits("open") \/ (chain.opened /\ ~chain.closed)
  BY <1>1, <1>2, PlansApart DEF Held, ConfigsHeld, Restores
<1>4. /\ Reopens' <=> Reopens
      /\ Waits("open")' <=> Waits("open")
  BY EffectsStay
<1>5. Unsent' = plan' /\ shown' = shown
  BY <1>2 DEF Unsent
<1>6. Waits("open")' => effects' # <<>>
  BY DEF Waits
<1>7. ConfigsHeld'
  BY <1>1, <1>3, <1>4, <1>5, PlansApart DEF ConfigsHeld
<1>8. ValuesHeld'
  BY <1>1, <1>3, <1>4, <1>5, <1>6, PlansApart DEF ValuesHeld
<1> QED BY <1>1, <1>3, <1>4, <1>7, <1>8

\* Taking an effect and what is held of an open form.
LEMMA DrainHeld == ASSUME FormTypes, Turns, Held, Drain PROVE Held'
<1> SUFFICES ASSUME Open', "dropped" \notin marks'
             PROVE  /\ Reopens'
                    /\ chain' # Blank /\ chain'.closed => Waits("open")'
                    /\ joined' /\ Unsent' \notin Restores => ConfigsHeld' /\ ValuesHeld'
  BY DEF Held
<1>1. setup' = setup /\ shown' = shown /\ marks \subseteq marks'
      /\ plan = Sent /\ chain = Blank /\ joined /\ ~settling /\ settling' = settling
      /\ effects # <<>> /\ effects' = Tail(effects)
  BY DrainFacts
<1>2. Open
  BY <1>1 DEF Open
<1>3. \/ /\ chain' = Blank /\ plan' \in {Sent, Opening, Values, Closing}
         /\ plan' = Closing <=> Head(effects).form = "close"
         /\ plan' # Closing => (plan' = Opening <=> Head(effects).form = "open")
         /\ plan' # Sent
      \/ /\ chain' # Blank /\ plan' = Sent
         /\ chain'.closed <=> Head(effects).form = "close"
         /\ chain'.opened <=> Head(effects).form = "open"
  BY <1>2, DrainFacts
<1>4. Unsent = Sent /\ Unsent' = plan'
  BY <1>1 DEF Unsent
<1>5. Reopens /\ (shown.configs \/ Waits("open"))
  BY <1>1, <1>2, <1>4, PlansApart DEF Held, ConfigsHeld, Restores
<1>6. /\ Reopens' /\ (Head(effects).form = "close" => Waits("open")')
      /\ Waits("open") <=> Waits("open")' \/ Head(effects).form = "open"
  BY <1>1, <1>5, EffectTaken DEF FormTypes
<1>7. Waits("open")' => effects' # <<>>
  BY DEF Waits
<1>8. ConfigsHeld'
  BY <1>1, <1>3, <1>4, <1>5, <1>6, PlansApart DEF ConfigsHeld
<1>9. ValuesHeld'
  BY <1>3, <1>4, <1>6, <1>7, PlansApart DEF ValuesHeld
<1> QED BY <1>3, <1>6, <1>8, <1>9

\* What is unsent after a step of the plan, and which plan a tail is of.
LEMMA UnsentFacts ==
    ASSUME FormTypes, Turns
    PROVE  /\ ~settling => Unsent = plan
           /\ settling => Unsent = Tail(plan) /\ plan # Sent
           /\ plan = Sent => Unsent = Sent
           /\ Unsent \in {Closing, Clearing} => plan \in {Closing, Clearing}
           /\ Unsent \in {ClosingFirst, ClearingFirst} => plan \in {ClosingFirst, ClearingFirst}
           /\ Unsent \in Plans
<1>1. /\ ~settling => Unsent = plan
      /\ settling => Unsent = Tail(plan) /\ plan # Sent
  BY DEF Unsent, Turns
<1>2. plan \in Plans
  BY DEF FormTypes
<1>3. settling => Unsent \in Plans
  BY <1>1, <1>2, PlanTails
<1>4. settling => /\ Unsent \in {Closing, Clearing} => plan \in {Closing, Clearing}
                  /\ Unsent \in {ClosingFirst, ClearingFirst} =>
                        plan \in {ClosingFirst, ClearingFirst}
  BY <1>1, <1>2, PlansBack
<1>5. plan = Sent => ~settling
  BY <1>1
<1> QED BY <1>1, <1>2, <1>3, <1>4, <1>5

\* Every step keeps what is held of an open form.
LEMMA HeldKept == ASSUME FormTypes, Turns, Held, FormNext PROVE Held'
<1>1. CASE Connect
  <2>1. chain = Blank /\ plan = Sent /\ ~settling
    BY <1>1 DEF Connect, Turns
  <2>2. Unsent' = Resync
    BY <1>1, <2>1 DEF Connect, Unsent
  <2>3. /\ Unsent' \in Restores /\ chain' = Blank
        /\ setup' = setup /\ marks' = marks /\ effects' = effects
    BY <1>1, <2>1, <2>2 DEF Connect, Restores
  <2> QED BY <2>3, EffectsStay DEF Held, Open
<1>2. CASE Drain
  BY <1>2, DrainHeld
<1>3. CASE Ask
  <2>1. chain # Blank /\ Askable(Request(chain.ask))
    BY <1>3, RequestType DEF Ask
  <2>2. Reply(Request(chain.ask)) = Blank \/ Reply(Request(chain.ask)) \in Replies
    BY <2>1, ReplyType
  <2>3. /\ Answered(Reply(Request(chain.ask)), {})
        /\ UNCHANGED <<effects, settling, joined, form_dirty, shown>>
    BY <1>3 DEF Ask
  <2> QED BY <2>1, <2>2, <2>3, AnsweredHeld
<1>4. CASE AskRefused
  <2>1. RefusedFor("refused") \in Replies /\ {"refused"} \in SUBSET Marks
    BY DEF RefusedFor, Replies, Messages, Marks
  <2> QED BY <1>4, <2>1, AnsweredHeld DEF AskRefused
<1>5. CASE AskTimesOut
  <2>1. RefusedFor("refused") \in Replies /\ {"late"} \in SUBSET Marks
    BY DEF RefusedFor, Replies, Messages, Marks
  <2> QED BY <1>5, <2>1, AnsweredHeld DEF AskTimesOut
<1>6. CASE Send
  <2>1. /\ plan # Sent /\ Head(plan) \notin Control /\ ~settling /\ settling' /\ plan' = plan
        /\ joined /\ joined' = joined /\ shown' = Published(Head(plan))
        /\ setup' = setup /\ effects' = effects /\ chain' = chain /\ marks' = marks
    BY <1>6 DEF Send, Sent
  <2>2. Unsent = plan /\ Unsent' = Tail(plan) /\ chain = Blank
    BY <2>1 DEF Unsent, Turns
  <2> SUFFICES ASSUME Open, "dropped" \notin marks, Unsent' \notin Restores
               PROVE  ConfigsHeld' /\ ValuesHeld'
    BY <2>1, <2>2, EffectsStay DEF Held, Open
  <2>3. plan \in {Opening, Values, Filling, Closing, Clearing}
    BY <2>1, <2>2, PlanHeads, PlanSteps DEF FormTypes, Plans, Restores, Control
  <2>4. ConfigsHeld /\ ValuesHeld
    BY <2>1, <2>2, <2>3, PlansApart DEF Held, Restores
  <2>5. Waits("open") <=> Waits("open")'
    BY <2>1, EffectsStay
  <2>6. FieldsHeld <=> \A f \in Fields : setup'.draft[f] # Blank => shown[f] = setup'.draft[f]
    BY <2>1 DEF FieldsHeld
  <2>7. CASE plan \in {Closing, Clearing}
    <3>1. effects # <<>>
      BY <2>2, <2>4, <2>7 DEF ValuesHeld
    <3>2. plan = Closing => Waits("open")
      BY <2>2, <2>4, <2>7, PlansApart DEF ConfigsHeld
    <3>3. plan = Clearing => Unsent' = Sent /\ shown'.configs = shown.configs
      BY <2>1, <2>2, PlanSteps, PlanHeads, PublishedFacts
    <3>4. plan = Clearing => Waits("open") \/ shown.configs
      BY <2>2, <2>4, PlansApart DEF ConfigsHeld
    <3>5. ConfigsHeld'
      BY <2>5, <2>7, <3>2, <3>3, <3>4, PlansApart DEF ConfigsHeld
    <3> QED BY <2>1, <3>1, <3>5 DEF ValuesHeld
  <2>8. CASE plan \in {Opening, Values, Filling}
    <3>1. plan # Opening => Waits("open") \/ shown.configs
      BY <2>2, <2>4, <2>8 DEF ConfigsHeld
    <3>2. shown'.configs \/ Waits("open")
      BY <2>1, <2>8, <3>1, PlanHeads, PublishedFacts
    <3>3. Unsent' \in {Values, Filling, Sent}
      BY <2>2, <2>8, PlanSteps
    <3>4. ConfigsHeld'
      BY <2>5, <3>2, <3>3, PlansApart DEF ConfigsHeld
    <3>5. CASE plan = Opening
      <4>1. Unsent' = Values
        BY <2>2, <3>5, PlanSteps
      <4> QED BY <3>4, <4>1, PlansApart DEF ValuesHeld
    <3>6. CASE plan = Values
      <4>1. Unsent' = Filling /\ shown'.message = setup.message
        BY <2>1, <2>2, <3>6, PlanSteps, PlanHeads, PublishedFacts
      <4> QED BY <2>1, <3>4, <4>1, PlansApart DEF ValuesHeld
    <3>7. CASE plan = Filling
      <4>1. /\ Unsent' = Sent /\ shown'.message = shown.message
            /\ \A f \in Fields : setup.draft[f] # Blank => shown'[f] = setup.draft[f]
        BY <2>1, <2>2, <3>7, PlanSteps, PlanHeads, PublishedFacts
      <4>2. effects # <<>> \/ shown.message = setup.message
        BY <2>2, <2>4, <3>7, PlansApart DEF ValuesHeld
      <4> QED BY <2>1, <3>4, <4>1, <4>2, PlansApart DEF ValuesHeld, FieldsHeld
    <3> QED BY <2>8, <3>5, <3>6, <3>7
  <2> QED BY <2>3, <2>7, <2>8
<1>7. CASE Settle
  <2>1. Unsent' = Unsent /\ setup' = setup /\ effects' = effects /\ chain' = chain
        /\ joined' = joined /\ shown' = shown /\ marks' = marks
    BY <1>7 DEF Settle, Unsent
  <2> QED BY <2>1, EffectsStay DEF Held, Open, ConfigsHeld, ValuesHeld, FieldsHeld
<1>8. CASE Tidy
  <2>1. plan = Tidying /\ ~settling /\ chain = Blank
    BY <1>8, PlanHeads DEF Tidy, FormTypes, Plans, Turns, Sent, Control
  <2>2. Unsent' \in Restores /\ chain' = Blank
    BY <1>8, <2>1, PlanSteps DEF Tidy, Unsent, Restores
  <2> QED BY <1>8, <2>2, EffectsStay DEF Tidy, Held, Open
<1>9. CASE Restore
  <2>1. ~settling /\ chain = Blank /\ setup' = setup /\ effects' = effects /\ chain' = chain
        /\ settling' = settling /\ marks' = marks
    BY <1>9 DEF Restore, Turns, Sent, Control
  <2>2. Open => Unsent' = Opening
    BY <1>9, <2>1 DEF Restore, Unsent
  <2> QED BY <2>1, <2>2, EffectsStay, PlansApart DEF Held, Open, ConfigsHeld, ValuesHeld
<1>10. CASE ServeLate
  <2>1. Unsent' = Unsent
    BY <1>10 DEF ServeLate, Unsent
  <2> QED BY <1>10, <2>1, EffectsStay DEF ServeLate, Held, Open, ConfigsHeld, ValuesHeld, FieldsHeld
<1>11. CASE Lose
  <2>1. /\ chain' = Blank /\ ~joined' /\ setup' = setup /\ effects' = effects
        /\ marks \subseteq marks'
    BY <1>11 DEF Lose
  <2> QED BY <2>1, EffectsStay DEF Held, Open
<1>12. CASE FormRestart
  BY <1>12 DEF FormRestart, Held, Open, NewSetup
<1>13. CASE Visit
  <2>1. Unsent' = Unsent
    BY <1>13 DEF Visit, Unsent
  <2> QED BY <1>13, <2>1, EffectsStay DEF Visit, Held, Open, ConfigsHeld, ValuesHeld, FieldsHeld
<1>14. ASSUME NEW input \in Arrivals, Receive(input) PROVE Held'
  <2> SUFFICES ASSUME Open', "dropped" \notin marks' PROVE Held'
    BY DEF Held
  <2> DEFINE out == Applied(setup, input)
  <2>1. /\ setup' = out.setup /\ effects' = Append(effects, out.effect) /\ marks' = marks
        /\ UNCHANGED <<chain, plan, settling, joined, form_dirty, shown, shades, raised>>
    BY <1>14 DEF Receive
  <2> HIDE DEF out
  <2>2. /\ out.effect \in Effects /\ out.effect.form # "close"
        /\ ~Open => out.effect.form = "open"
    <3>1. setup \in Setups /\ Settled(setup)
      BY DEF FormTypes
    <3>2. out.setup.phase # "idle"
      BY <2>1 DEF Open
    <3> QED BY <3>1, <3>2, FlowTypes, FlowForms DEF out, Open
  <2>3. /\ effects' # <<>> /\ (Waits("open") => Waits("open")')
        /\ ~Open => Reopens' /\ Waits("open")'
        /\ Reopens => Reopens'
    BY <2>1, <2>2, EffectWaits DEF FormTypes
  <2>4. chain = Blank
    BY <1>14 DEF Receive, Quiet, Idle, Turns
  <2>5. Unsent' = Unsent
    BY <2>1 DEF Unsent
  <2>6. ValuesHeld'
    BY <2>3 DEF ValuesHeld
  <2>7. Open => Reopens /\ (joined /\ Unsent \notin Restores => ConfigsHeld)
    BY <2>1 DEF Held
  <2>8. joined /\ Unsent \notin Restores => ConfigsHeld'
    BY <2>1, <2>3, <2>4, <2>5, <2>7 DEF ConfigsHeld
  <2> QED BY <2>1, <2>3, <2>4, <2>5, <2>6, <2>7, <2>8 DEF Held
<1> QED BY <1>1, <1>2, <1>3, <1>4, <1>5, <1>6, <1>7, <1>8, <1>9, <1>10, <1>11, <1>12, <1>13, <1>14
     DEF FormNext, SessionWork

\* The marks that excuse a form that is left.
Excuses == {"dropped", "cut", "reopened"}

\* An answer and what is left of a form that is closed.
LEMMA AnsweredLeft ==
    ASSUME FormTypes, Turns, Left, chain # Blank, NEW input, input = Blank \/ input \in Replies,
           NEW mark \in SUBSET Marks, Answered(input, mark),
           UNCHANGED <<effects, settling, joined, form_dirty, shown>>
    PROVE  Left'
<1> SUFFICES ASSUME ~Open', marks' \cap Excuses = {} PROVE FormCleared'
  BY DEF Left, Excuses
<1>1. /\ marks \subseteq marks'
      /\ \/ /\ chain' = Blank
            /\ chain.closed \/ Open => plan' = Closing
            /\ plan' = Closing \/ plan' = Sent
         \/ /\ chain' # Blank /\ plan' = Sent
            /\ chain.closed \/ Open => chain'.closed
  <2>1. "reopened" \notin marks'
    BY DEF Excuses
  <2> QED BY <2>1, AnsweredFacts
<1>2. joined /\ plan = Sent /\ ~settling /\ Unsent = Sent
  BY DEF Turns, Unsent
<1>3. Unsent' = plan'
  BY <1>2 DEF Unsent
<1>4. CASE Open
  BY <1>1, <1>3, <1>4 DEF FormCleared
<1>5. CASE ~Open
  <2>1. Waits("close") \/ chain.closed \/ shown = Unshown
    BY <1>1, <1>2, <1>5, PlansApart DEF Left, FormCleared, Excuses
  <2>2. Waits("close")' <=> Waits("close")
    BY EffectsStay
  <2> QED BY <1>1, <1>3, <2>1, <2>2, PlansApart DEF FormCleared
<1> QED BY <1>4, <1>5

\* Every step keeps what is left of a closed form.
LEMMA LeftKept == ASSUME FormTypes, Turns, Left, FormNext PROVE Left'
<1>1. CASE Connect
  <2>1. chain = Blank /\ plan = Sent /\ ~settling
    BY <1>1 DEF Connect, Turns
  <2>2. Unsent' = Resync /\ Unsent = Sent
    BY <1>1, <2>1 DEF Connect, Unsent
  <2> QED BY <1>1, <2>1, <2>2, EffectsStay, PlansApart DEF Connect, Left, FormCleared, Open
<1>2. CASE Drain
  <2> SUFFICES ASSUME ~Open', marks' \cap Excuses = {} PROVE FormCleared'
    BY DEF Left, Excuses
  <2>1. "reopened" \notin marks'
    BY DEF Excuses
  <2>2. /\ setup' = setup /\ shown' = shown /\ marks \subseteq marks' /\ joined
        /\ plan = Sent /\ chain = Blank /\ ~settling /\ settling' = settling
        /\ effects # <<>> /\ effects' = Tail(effects)
        /\ \/ /\ chain' = Blank /\ plan' \in {Closing, Sent}
              /\ plan' = Closing <=> Head(effects).form = "close"
           \/ /\ chain' # Blank /\ plan' = Sent
              /\ chain'.closed <=> Head(effects).form = "close"
    BY <1>2, <2>1, DrainFacts DEF Open
  <2>3. Unsent = Sent /\ Unsent' = plan'
    BY <2>2 DEF Unsent
  <2>4. Waits("close") \/ shown = Unshown
    BY <2>2, <2>3, PlansApart DEF Left, FormCleared, Excuses, Open
  <2>5. Waits("close") <=> Waits("close")' \/ Head(effects).form = "close"
    BY <2>2, EffectTaken DEF FormTypes
  <2> QED BY <2>2, <2>3, <2>4, <2>5, PlansApart DEF FormCleared
<1>3. CASE Ask
  <2>1. chain # Blank /\ Askable(Request(chain.ask))
    BY <1>3, RequestType DEF Ask
  <2>2. Reply(Request(chain.ask)) = Blank \/ Reply(Request(chain.ask)) \in Replies
    BY <2>1, ReplyType
  <2>3. /\ Answered(Reply(Request(chain.ask)), {})
        /\ UNCHANGED <<effects, settling, joined, form_dirty, shown>>
    BY <1>3 DEF Ask
  <2> QED BY <2>1, <2>2, <2>3, AnsweredLeft
<1>4. CASE AskRefused
  <2>1. RefusedFor("refused") \in Replies /\ {"refused"} \in SUBSET Marks
    BY DEF RefusedFor, Replies, Messages, Marks
  <2> QED BY <1>4, <2>1, AnsweredLeft DEF AskRefused
<1>5. CASE AskTimesOut
  <2>1. RefusedFor("refused") \in Replies /\ {"late"} \in SUBSET Marks
    BY DEF RefusedFor, Replies, Messages, Marks
  <2> QED BY <1>5, <2>1, AnsweredLeft DEF AskTimesOut
<1>6. CASE Send
  <2>1. /\ plan # Sent /\ Head(plan) \notin Control /\ ~settling /\ settling' /\ plan' = plan
        /\ joined /\ joined' = joined /\ shown' = Published(Head(plan)) /\ form_dirty' = form_dirty
        /\ setup' = setup /\ effects' = effects /\ chain' = chain /\ marks' = marks
    BY <1>6 DEF Send, Sent
  <2>2. Unsent = plan /\ Unsent' = Tail(plan) /\ chain = Blank
    BY <2>1 DEF Unsent, Turns
  <2> SUFFICES ASSUME ~Open, FormCleared, ~Waits("close") PROVE FormCleared'
    BY <2>1, EffectsStay DEF Left, Open, FormCleared
  <2>3. plan \in {Resync, Closing, ClosingFirst, Clearing, ClearingFirst}
    BY <2>1, <2>2, PlanHeads DEF FormTypes, Plans, Control, FormCleared
  <2>4. CASE plan = Resync
    <3>1. shown' = shown /\ Unsent' = Tidying
      BY <2>1, <2>2, <2>4, PlanSteps, PlanHeads, PublishedFacts
    <3> QED BY <2>1, <2>2, <2>4, <3>1, PlansApart DEF FormCleared
  <2>5. CASE plan \in {Closing, ClosingFirst}
    <3>1. ~shown'.configs /\ Unsent' \in {Clearing, ClearingFirst}
      BY <2>1, <2>2, <2>5, PlanSteps, PlanHeads, PublishedFacts
    <3> QED BY <3>1 DEF FormCleared
  <2>6. CASE plan \in {Clearing, ClearingFirst}
    <3>1. ~shown.configs
      BY <2>1, <2>2, <2>6, PlansApart DEF FormCleared, Unshown
    <3>2. shown' = Unshown /\ Unsent' \in {Sent, Restoring}
      BY <2>1, <2>2, <2>6, <3>1, PlanSteps, PlanHeads, PublishedFacts
    <3> QED BY <3>2, PlansApart DEF FormCleared
  <2> QED BY <2>3, <2>4, <2>5, <2>6
<1>7. CASE Settle
  <2>1. Unsent' = Unsent /\ UNCHANGED <<setup, effects, chain, joined, shown, marks, form_dirty>>
    BY <1>7 DEF Settle, Unsent
  <2> QED BY <2>1, EffectsStay DEF Left, Open, FormCleared
<1>8. CASE Tidy
  <2>1. plan = Tidying /\ ~settling /\ chain = Blank
    BY <1>8, PlanHeads DEF Tidy, FormTypes, Plans, Turns, Sent, Control
  <2>2. Unsent = Tidying
    BY <2>1 DEF Unsent
  <2>3. Unsent' = IF form_dirty /\ ~Open THEN ClosingFirst ELSE Restoring
    BY <1>8, <2>1, PlanSteps DEF Tidy, Unsent
  <2> QED BY <1>8, <2>1, <2>2, <2>3, EffectsStay, PlansApart DEF Tidy, Left, FormCleared, Open
<1>9. CASE Restore
  <2>1. plan = Restoring /\ ~settling /\ chain = Blank
    BY <1>9, PlanHeads DEF Restore, FormTypes, Plans, Turns, Sent, Control
  <2>2. Unsent = Restoring
    BY <2>1 DEF Unsent
  <2>3. joined /\ UNCHANGED <<setup, effects, chain, shown, marks>>
    BY <1>9, <2>1, PlansApart DEF Restore, Turns
  <2> SUFFICES ASSUME ~Open, FormCleared PROVE FormCleared'
    BY <2>3 DEF Left, Open
  <2>4. Waits("close") \/ shown = Unshown
    BY <2>1, <2>2, <2>3, PlansApart DEF FormCleared
  <2>5. Unsent' = Sent
    BY <1>9, <2>1 DEF Restore, Unsent, Sent
  <2> QED BY <2>3, <2>4, <2>5, EffectsStay, PlansApart DEF FormCleared
<1>10. CASE ServeLate
  <2>1. Unsent' = Unsent
    BY <1>10 DEF ServeLate, Unsent
  <2> QED BY <1>10, <2>1, EffectsStay DEF ServeLate, Left, Open, FormCleared
<1>11. CASE Lose
  <2> SUFFICES ASSUME ~Open', marks' \cap Excuses = {} PROVE FormCleared'
    BY DEF Left, Excuses
  <2>1. /\ chain = Blank /\ chain' = Blank /\ ~joined' /\ setup' = setup /\ effects' = effects
        /\ joined /\ plan' = Sent /\ ~settling' /\ shown' = shown /\ form_dirty' = form_dirty
        /\ marks' = IF plan # Sent /\ plan[Len(plan)] = "clearValues"
                    THEN marks \cup {"cut"} ELSE marks
    BY <1>11 DEF Lose, Sent
  <2>2. plan \notin {Closing, Clearing}
    BY <2>1, PlanHeads, PlansApart DEF Excuses
  <2>3. Unsent \notin {Closing, Clearing}
    BY <2>2, UnsentFacts
  <2>4. Unsent \in {ClosingFirst, ClearingFirst} => form_dirty
    BY UnsentFacts DEF Turns
  <2>5. FormCleared
    BY <2>1 DEF Left, Excuses, Open
  <2>6. Unsent' = Sent
    BY <2>1 DEF Unsent
  <2> QED BY <2>1, <2>3, <2>4, <2>5, <2>6, EffectsStay, PlansApart DEF FormCleared
<1>12. CASE FormRestart
  BY <1>12 DEF FormRestart, Left, FormCleared
<1>13. CASE Visit
  <2>1. Unsent' = Unsent
    BY <1>13 DEF Visit, Unsent
  <2> QED BY <1>13, <2>1, EffectsStay DEF Visit, Left, Open, FormCleared
<1>14. ASSUME NEW input \in Arrivals, Receive(input) PROVE Left'
  <2> SUFFICES ASSUME ~Open', marks' \cap Excuses = {} PROVE FormCleared'
    BY DEF Left, Excuses
  <2> DEFINE out == Applied(setup, input)
  <2>1. /\ setup' = out.setup /\ effects' = Append(effects, out.effect) /\ marks' = marks
        /\ UNCHANGED <<chain, plan, settling, joined, form_dirty, shown, shades, raised>>
    BY <1>14 DEF Receive, Excuses
  <2> HIDE DEF out
  <2>2. out.effect \in Effects /\ (Open => out.effect.form = "close")
    <3>1. setup \in Setups /\ Settled(setup)
      BY DEF FormTypes
    <3>2. out.setup.phase = "idle"
      BY <2>1 DEF Open
    <3> QED BY <3>1, <3>2, FlowTypes, FlowForms DEF out, Open
  <2>3. /\ Waits("close") => Waits("close")'
        /\ Open => Waits("close")'
    BY <2>1, <2>2, EffectWaits DEF FormTypes
  <2>4. Unsent' = Unsent
    BY <2>1 DEF Unsent
  <2>5. ~Open => FormCleared
    BY <2>1 DEF Left, Excuses
  <2> QED BY <2>1, <2>3, <2>4, <2>5 DEF FormCleared
<1> QED BY <1>1, <1>2, <1>3, <1>4, <1>5, <1>6, <1>7, <1>8, <1>9, <1>10, <1>11, <1>12, <1>13, <1>14
     DEF FormNext, SessionWork
\* A step that leaves the flow, its asks and the table alone keeps what is stored.
LEMMA StoredStays ==
    ASSUME Stored, UNCHANGED <<setup, effects, chain, shades>>, marks \subseteq marks'
    PROVE  Stored'
<1>1. \A id : AmendWaits(id)' <=> AmendWaits(id)
  BY EffectsStay
<1>2. marks' \cap {"dropped", "refused", "late"} = {} =>
         marks \cap {"dropped", "refused", "late"} = {}
  OBVIOUS
<1>3. setup' = setup /\ chain' = chain /\ shades' = shades
  OBVIOUS
<1> QED BY <1>1, <1>2, <1>3 DEF Stored, Carries, AmendWaits

\* The table answers an ask, and the shade the flow stands at holds its draft.
LEMMA AskStores == ASSUME FormTypes, Stored, Ask PROVE Stored'
<1> DEFINE request == Request(chain.ask)
           excuses == {"dropped", "refused", "late"}
<1>1. /\ chain # Blank /\ Askable(request) /\ chain \in Chains /\ setup \in Setups
      /\ shades \in FormTables /\ Settled(setup)
  BY RequestType DEF Ask, FormTypes, Settled
<1>2. /\ request.is = chain.ask.is /\ (chain.ask.is # "create" => request.id = chain.ask.id)
      /\ request.draft = setup.draft
  BY DEF Request
<1>3. shades' = Served(request) /\ Answered(Reply(request), {}) /\ effects' = effects
  BY DEF Ask
<1> HIDE DEF request
<1>4. Reply(request) = Blank \/ Reply(request) \in Replies
  BY <1>1, ReplyType
<1>5. /\ setup' \in Setups /\ Settled(setup') /\ marks \subseteq marks'
      /\ setup'.phase = "awaiting" =>
            /\ setup'.draft = setup.draft
            /\ setup.phase = "awaiting" => setup'.shade = setup.shade
            /\ setup.phase # "awaiting" =>
                 /\ Reply(request) # Blank
                 /\ Reply(request).is = "created" /\ Reply(request).id = setup'.shade
  BY <1>1, <1>3, <1>4, AnsweredFacts
<1> DEFINE id == setup'.shade
<1> SUFFICES ASSUME setup'.phase = "awaiting", marks' \cap excuses = {},
                    shades'[id] # Blank, shades'[id].by = "form"
             PROVE  Carries(shades'[id].config, setup'.draft) \/ AmendIn(effects', id)
  BY DEF Stored, AmendWaits
<1>6. id \in FormSlots
  BY <1>5 DEF Settled
<1>7. marks \cap excuses = {}
  BY <1>5
<1>8. ASSUME NEW config, \A f \in Fields : setup.draft[f] # Blank => config[f] = setup.draft[f],
             shades'[id].config = config
      PROVE  Carries(shades'[id].config, setup'.draft)
  BY <1>5, <1>8 DEF Carries
<1>9. CASE setup.phase = "awaiting"
  <2>1. id = setup.shade
    BY <1>5, <1>9
  <2>2. \/ shades'[id] = shades[id] /\ ~(request.is = "amend" /\ request.id = id)
        \/ /\ shades[id] # Blank /\ shades'[id].by = shades[id].by
           /\ request.is # "amend"
           /\ shades'[id].config = shades[id].config
        \/ /\ shades[id] # Blank /\ shades'[id].by = shades[id].by
           /\ request.is = "amend" /\ request.id = id
           /\ shades'[id].config = Amended(shades[id].config, request.draft)
        \/ shades'[id].config = request.draft
    BY <1>1, <1>3, <1>6, ServedRow
  <2>3. CASE shades'[id].config = request.draft
    BY <1>2, <1>8, <2>3
  <2>4. CASE /\ shades[id] # Blank
             /\ shades'[id].config = Amended(shades[id].config, request.draft)
    <3>1. shades[id].config \in Drafts /\ request.draft \in Drafts
      BY <1>1, <1>2, <1>6, <2>4 DEF FormTables, Rows, Setups
    <3>2. \A f \in Fields : request.draft[f] # Blank =>
             Amended(shades[id].config, request.draft)[f] = request.draft[f]
      BY <3>1, AmendedFacts
    <3> QED BY <1>2, <1>8, <2>4, <3>2
  <2>5. CASE /\ shades[id] # Blank /\ shades'[id].by = shades[id].by
             /\ shades'[id].config = shades[id].config
             /\ ~(request.is = "amend" /\ request.id = id)
    <3>1. chain.ask # On("amend", id)
      BY <1>2, <2>5 DEF On
    <3>2. Carries(shades[id].config, setup.draft) \/ AmendWaits(id)
      BY <1>7, <1>9, <2>1, <2>5, <3>1 DEF Stored
    <3>3. AmendWaits(id) => AmendIn(effects', id)
      BY <1>3 DEF AmendWaits
    <3> QED BY <1>8, <2>5, <3>2, <3>3 DEF Carries
  <2> QED BY <2>2, <2>3, <2>4, <2>5
<1>10. CASE setup.phase # "awaiting"
  <2>1. Reply(request) # Blank /\ Reply(request).is = "created" /\ Reply(request).id = id
    BY <1>5, <1>10
  <2>2. Refusal(request) = Blank /\ request.is = "create" /\ id = Lowest
    BY <2>1 DEF Reply, RefusedFor
  <2>3. shades' = [shades EXCEPT ![id] = FormRow(request.draft, FALSE, "form")]
    BY <1>3, <2>2 DEF Served
  <2>4. shades'[id].config = request.draft
    BY <1>1, <1>6, <2>3 DEF FormTables, FormRow
  <2> QED BY <1>2, <1>8, <2>4
<1> QED BY <1>9, <1>10

\* Every step keeps what the table stores of the shade that is stood at.
LEMMA StoredKept == ASSUME FormTypes, Turns, Stored, Late, FormNext PROVE Stored'
<1>1. CASE Connect \/ Send \/ Settle \/ Tidy \/ Restore \/ Lose
  <2>1. UNCHANGED <<setup, effects, chain, shades>> /\ marks \subseteq marks'
    BY <1>1 DEF Connect, Send, Settle, Tidy, Restore, Lose
  <2> QED BY <2>1, StoredStays
<1>2. CASE Drain
  <2>1. /\ effects # <<>> /\ effects' = Tail(effects)
        /\ setup' = setup /\ shades' = shades /\ marks \subseteq marks' /\ chain = Blank
        /\ \/ Head(effects).ask = Blank
           \/ chain' # Blank /\ chain'.ask = Head(effects).ask
    BY <1>2, DrainFacts
  <2>2. ASSUME AmendIn(effects, setup.shade), setup.shade \in FormSlots
        PROVE  \/ AmendIn(effects', setup.shade)
               \/ chain' # Blank /\ chain'.ask = On("amend", setup.shade)
    <3>1. \A id : AmendIn(effects, id) <=>
                 AmendIn(effects', id) \/ Head(effects).ask = On("amend", id)
      BY <2>1, EffectTaken DEF FormTypes, AmendWaits
    <3>2. On("amend", setup.shade) # Blank
      BY <2>2, NoBlank DEF Ops
    <3> QED BY <2>1, <2>2, <3>1, <3>2
  <2>3. setup.phase = "awaiting" => setup.shade \in FormSlots
    BY DEF FormTypes, Settled
  <2>4. marks' \cap {"dropped", "refused", "late"} = {} =>
           marks \cap {"dropped", "refused", "late"} = {}
    BY <2>1
  <2> QED BY <2>1, <2>2, <2>3, <2>4 DEF Stored, Carries, AmendWaits
<1>3. CASE Ask
  BY <1>3, AskStores
<1>4. CASE AskRefused
  <2>1. chain # Blank /\ Answered(RefusedFor("refused"), {"refused"})
    BY <1>4 DEF AskRefused
  <2>2. RefusedFor("refused") \in Replies /\ {"refused"} \in SUBSET Marks
    BY DEF RefusedFor, Replies, Messages, Marks
  <2>3. "refused" \in marks'
    BY <2>1, <2>2, AnsweredFacts
  <2> QED BY <2>3 DEF Stored
<1>5. CASE AskTimesOut
  <2>1. chain # Blank /\ Answered(RefusedFor("refused"), {"late"})
    BY <1>5 DEF AskTimesOut
  <2>2. RefusedFor("refused") \in Replies /\ {"late"} \in SUBSET Marks
    BY DEF RefusedFor, Replies, Messages, Marks
  <2>3. "late" \in marks'
    BY <2>1, <2>2, AnsweredFacts
  <2> QED BY <2>3 DEF Stored
<1>6. CASE ServeLate
  BY <1>6 DEF ServeLate, Late, Stored
<1>7. CASE FormRestart
  BY <1>7 DEF FormRestart, NewSetup, Stored
<1>8. CASE Visit
  <2>1. \A id \in FormSlots : shades'[id] # Blank =>
           \/ /\ shades[id] # Blank /\ shades'[id].config = shades[id].config
              /\ shades'[id].by = shades[id].by
           \/ shades'[id].config = WebConfig /\ shades'[id].by = "web"
    BY <1>8, VisitRow DEF FormTypes
  <2>2. setup' = setup /\ effects' = effects /\ chain' = chain /\ marks' = marks
    BY <1>8 DEF Visit
  <2>3. setup.phase = "awaiting" => setup.shade \in FormSlots
    BY DEF FormTypes, Settled
  <2>4. \A id : AmendWaits(id) => AmendWaits(id)'
    BY <2>2, EffectsStay
  <2> QED BY <2>1, <2>2, <2>3, <2>4 DEF Stored, Carries, AmendWaits
<1>9. ASSUME NEW input \in Arrivals, Receive(input) PROVE Stored'
  <2> DEFINE out == Applied(setup, input)
             excuses == {"dropped", "refused", "late"}
  <2> SUFFICES ASSUME setup'.phase = "awaiting", marks' \cap excuses = {},
                      shades'[setup'.shade] # Blank, shades'[setup'.shade].by = "form"
               PROVE  \/ Carries(shades'[setup'.shade].config, setup'.draft)
                      \/ AmendIn(effects', setup'.shade)
                      \/ chain' # Blank /\ chain'.ask = On("amend", setup'.shade)
    BY DEF Stored, AmendWaits
  <2>1. /\ setup' = out.setup /\ effects' = Append(effects, out.effect) /\ marks' = marks
        /\ chain' = chain /\ shades' = shades
    BY <1>9 DEF Receive
  <2>2. setup \in Setups /\ Settled(setup) /\ effects \in Seq(Effects)
    BY DEF FormTypes, Settled
  <2>3. out.effect \in Effects
    BY <2>2, FlowTypes
  <2>4. input.is # "created"
    BY DEF Arrivals, Presses
  <2>5. /\ setup.phase = "awaiting" /\ out.setup.shade = setup.shade
        /\ out.setup.draft = setup.draft \/ out.effect.ask = On("amend", setup.shade)
    BY <2>1, <2>2, <2>4, FlowDrafts
  <2> HIDE DEF out
  <2>6. \A id : AmendWaits(id) \/ out.effect.ask = On("amend", id) <=> AmendWaits(id)'
    BY <2>1, <2>2, <2>3, EffectWaits
  <2>7. setup'.shade = setup.shade
    BY <2>1, <2>5
  <2>8. AmendIn(effects, setup.shade) \/ out.effect.ask = On("amend", setup.shade) <=>
           AmendIn(effects', setup.shade)
    BY <2>6 DEF AmendWaits
  <2> QED BY <2>1, <2>5, <2>6, <2>7, <2>8 DEF Stored, Carries, AmendWaits
<1> QED BY <1>1, <1>2, <1>3, <1>4, <1>5, <1>6, <1>7, <1>8, <1>9 DEF FormNext, SessionWork

\* A request stays raised only after its caller gave up.
LEMMA LateKept == ASSUME FormTypes, Turns, Late, FormNext PROVE Late'
<1>1. CASE AskTimesOut
  <2>1. chain # Blank /\ Answered(RefusedFor("refused"), {"late"})
    BY <1>1 DEF AskTimesOut
  <2>2. RefusedFor("refused") \in Replies /\ {"late"} \in SUBSET Marks
    BY DEF RefusedFor, Replies, Messages, Marks
  <2>3. "late" \in marks'
    BY <2>1, <2>2, AnsweredFacts
  <2> QED BY <2>3 DEF Late
<1>2. CASE Ask \/ AskRefused \/ ServeLate \/ FormRestart
  BY <1>2 DEF Ask, AskRefused, ServeLate, FormRestart, Late
<1>3. CASE Drain
  BY <1>3, DrainFacts DEF Late
<1>4. CASE Connect \/ Send \/ Settle \/ Tidy \/ Restore \/ Lose \/ Visit
  BY <1>4 DEF Connect, Send, Settle, Tidy, Restore, Lose, Visit, Late
<1>5. ASSUME NEW input \in Arrivals, Receive(input) PROVE Late'
  BY <1>5 DEF Receive, Late
<1> QED BY <1>1, <1>2, <1>3, <1>4, <1>5 DEF FormNext, SessionWork

\* What is served never leaves a shade incomplete.
LEMMA ServedComplete ==
    ASSUME shades \in FormTables, NoneIsIncomplete, NEW request, Askable(request),
           shades' = Served(request)
    PROVE  NoneIsIncomplete'
<1> SUFFICES ASSUME NEW id \in FormSlots, shades'[id] # Blank
             PROVE  Blocker(shades'[id].config) = Blank
  BY DEF NoneIsIncomplete, Blocker
<1>1. \/ shades'[id] = shades[id]
      \/ shades[id] # Blank /\ shades'[id].config = shades[id].config
      \/ shades[id] # Blank /\ shades'[id].config = Amended(shades[id].config, request.draft)
      \/ Blocker(request.draft) = Blank /\ shades'[id].config = request.draft
  BY ServedRow
<1>2. shades[id] # Blank => Blocker(shades[id].config) = Blank /\ shades[id].config \in Drafts
  BY DEF NoneIsIncomplete, FormTables, Rows
<1>3. request.draft \in Drafts
  BY DEF Askable, Requests
<1> QED BY <1>1, <1>2, <1>3, AmendedFacts

\* Every step leaves every shade complete.
LEMMA CompleteKept == ASSUME FormTypes, NoneIsIncomplete, FormNext PROVE NoneIsIncomplete'
<1>1. CASE Ask
  <2>1. shades' = Served(Request(chain.ask)) /\ Askable(Request(chain.ask))
    BY <1>1, RequestType DEF Ask
  <2> QED BY <2>1, ServedComplete DEF FormTypes
<1>2. CASE ServeLate
  BY <1>2, ServedComplete DEF ServeLate, FormTypes
<1>3. CASE Visit
  <2>1. \A id \in FormSlots : shades'[id] # Blank =>
           \/ shades[id] # Blank /\ shades'[id].config = shades[id].config
           \/ shades'[id].config = WebConfig
    BY <1>3, VisitRow DEF FormTypes
  <2>2. Blocker(WebConfig) = Blank
    BY WebType
  <2> QED BY <2>1, <2>2 DEF NoneIsIncomplete, Blocker
<1>4. CASE shades' = shades
  BY <1>4 DEF NoneIsIncomplete, Blocker
<1>5. \/ Ask \/ ServeLate \/ Visit \/ shades' = shades
  BY DEF FormNext, SessionWork, Connect, Drain, Send, Settle, Tidy, Restore, AskRefused,
         AskTimesOut, Lose, FormRestart, Receive
<1> QED BY <1>1, <1>2, <1>3, <1>4, <1>5
\* A boot, and a setup everything was typed into, keep what is promised.
LEMMA FormStarts == FormInit => FormInv
<1>1. /\ Sent \in Plans /\ Sent \notin {ClosingFirst, ClearingFirst, Opening, Values, Filling}
      /\ Sent \notin {Closing, Clearing} /\ Sent \notin Restores
  BY PlansApart DEF Plans, Restores
<1>2. <<>> \in Seq(Effects) /\ Len(<<>>) <= QUEUE
  BY FormAssumption
<1>3. ASSUME NEW s \in Setups, Settled(s), NEW held \in Copies, NEW up \in BOOLEAN,
             NEW left \in BOOLEAN, FormAt(s, held, up, left), s.phase # "awaiting"
      PROVE  FormTypes /\ Turns /\ Stored /\ Late /\ NoneIsIncomplete /\ Unsent = Sent
  <2>1. /\ setup = s /\ shown = held /\ joined = up /\ form_dirty = left
        /\ effects = <<>> /\ chain = Blank /\ plan = Sent /\ settling = FALSE
        /\ shades = [id \in FormSlots |-> Blank] /\ raised = Blank /\ marks = {}
    BY <1>3 DEF FormAt, Sent
  <2>2. shades \in FormTables
    BY <2>1 DEF FormTables
  <2>3. FormTypes
    BY <1>1, <1>2, <1>3, <2>1, <2>2 DEF FormTypes, Marks
  <2>4. Turns
    BY <1>1, <2>1 DEF Turns
  <2>5. Stored /\ Late
    BY <1>3, <2>1 DEF Stored, Late
  <2>6. NoneIsIncomplete
    BY <2>1 DEF NoneIsIncomplete
  <2>7. Unsent = Sent
    BY <2>1 DEF Unsent
  <2> QED BY <2>3, <2>4, <2>5, <2>6, <2>7
<1>4. CASE FormBegins
  <2>1. NewSetup \in Setups /\ Settled(NewSetup) /\ NewSetup.phase = "idle"
    BY NoBlank, FormAssumption DEF NewSetup, Setups, FreshDraft, Drafts, Messages, Settled
  <2>2. Unshown \in Copies
    BY DEF Unshown, Copies
  <2> DEFINE no == FALSE
             yes == TRUE
  <2>3. no \in BOOLEAN /\ yes \in BOOLEAN /\ FormAt(NewSetup, Unshown, no, yes)
    BY <1>4 DEF FormBegins
  <2> HIDE DEF no, yes
  <2>4. FormTypes /\ Turns /\ Stored /\ Late /\ NoneIsIncomplete /\ Unsent = Sent
    BY <1>3, <2>1, <2>2, <2>3
  <2>5. setup.phase = "idle" /\ shown = Unshown
    BY <2>1, <2>3 DEF FormAt
  <2>6. Held
    BY <2>5 DEF Held, Open
  <2>7. Left
    BY <1>1, <2>4, <2>5 DEF Left, FormCleared
  <2> QED BY <2>4, <2>6, <2>7 DEF FormInv
<1>5. CASE FormFilled
  <2>1. PICK d \in Drafts :
          FormAt([NewSetup EXCEPT !.phase = "drafting", !.draft = d],
                 [configs |-> TRUE, message |-> "drafting", name |-> d.name,
                  kind |-> d.kind, up |-> d.up, down |-> d.down], TRUE, FALSE)
    BY <1>5 DEF FormFilled
  <2> DEFINE s == [NewSetup EXCEPT !.phase = "drafting", !.draft = d]
             held == [configs |-> TRUE, message |-> "drafting", name |-> d.name,
                      kind |-> d.kind, up |-> d.up, down |-> d.down]
             no == FALSE
             yes == TRUE
  <2>2. /\ NewSetup \in Setups /\ NewSetup.shade = Blank /\ NewSetup.created = Blank
        /\ NewSetup.message = "drafting"
    BY NoBlank, FormAssumption DEF NewSetup, Setups, FreshDraft, Drafts, Messages
  <2>3. /\ s \in Setups /\ s.phase = "drafting" /\ s.draft = d /\ s.message = "drafting"
        /\ Settled(s)
    <3>1. /\ s \in Setups /\ s.phase = "drafting" /\ s.draft = d /\ s.message = "drafting"
          /\ s.shade = Blank /\ s.created = Blank
      BY <2>2 DEF Setups
    <3> HIDE DEF s
    <3> QED BY <3>1, NoBlank DEF Settled
  <2>4. held \in Copies
    BY DEF Copies, Drafts, Messages
  <2>5. /\ held.configs /\ held.message = s.message
        /\ \A f \in Fields : held[f] = s.draft[f]
    <3> HIDE DEF s
    <3> QED BY <2>3 DEF Fields
  <2>6. no \in BOOLEAN /\ yes \in BOOLEAN /\ FormAt(s, held, yes, no)
    BY <2>1
  <2> HIDE DEF s, held, no, yes
  <2>7. FormTypes /\ Turns /\ Stored /\ Late /\ NoneIsIncomplete /\ Unsent = Sent
    BY <1>3, <2>3, <2>4, <2>6
  <2>8. setup = s /\ shown = held /\ effects = <<>> /\ chain = Blank
    BY <2>6 DEF FormAt
  <2>9. Reopens
    BY <2>8 DEF Reopens
  <2>10. ConfigsHeld /\ ValuesHeld
    BY <1>1, <2>5, <2>7, <2>8 DEF ConfigsHeld, ValuesHeld, FieldsHeld
  <2>11. Held
    BY <2>8, <2>9, <2>10 DEF Held
  <2>12. Left
    BY <2>3, <2>8 DEF Left, Open
  <2> QED BY <2>7, <2>11, <2>12 DEF FormInv
<1> QED BY <1>4, <1>5 DEF FormInit

\* Once everything is carried out, what is promised is what an operator can rely on.
LEMMA FormPromise == FormInv => FormSafe
<1> SUFFICES ASSUME FormInv PROVE FormSafe
  OBVIOUS
<1>1. FormTypes /\ Turns /\ Held /\ Left /\ Stored /\ NoneIsIncomplete
  BY DEF FormInv
<1>2. ASSUME Quiet
      PROVE  /\ joined /\ Unsent = Sent /\ chain = Blank /\ effects = <<>>
             /\ \A form : ~Waits(form)
             /\ \A id : ~AmendWaits(id)
             /\ Sent \notin Restores
  <2>1. joined /\ plan = Sent /\ chain = Blank /\ effects = <<>>
    BY <1>2 DEF Quiet, Idle, Sent
  <2>2. Unsent = Sent
    BY <1>1, <2>1, UnsentFacts
  <2>3. Len(effects) = 0
    BY <2>1
  <2> QED BY <2>1, <2>2, <2>3, PlansApart DEF Waits, AmendWaits, AmendIn, Restores
<1>3. FormTypeOK
  <2>1. /\ setup \in Setups /\ Settled(setup)
        /\ Len(effects) <= QUEUE
        /\ settling \in BOOLEAN /\ joined \in BOOLEAN /\ form_dirty \in BOOLEAN
        /\ shown \in Copies /\ shades \in FormTables /\ marks \in SUBSET Marks
    BY <1>1 DEF FormTypes, Settled
  <2>2. /\ setup.phase \in {"idle", "drafting", "awaiting"} /\ setup.draft \in Drafts
        /\ setup.message \in Messages
    BY <2>1 DEF Setups
  <2>3. setup.shade = setup.created
    BY <2>1 DEF Settled
  <2>4. setup.phase = "awaiting" <=> setup.shade \in FormSlots
    BY <2>1 DEF Settled
  <2>5. chain = Blank \/ plan = <<>>
    BY <1>1 DEF Turns, Sent
  <2>6. settling => plan # <<>> /\ joined
    BY <1>1 DEF Turns, Sent
  <2>7. shown.configs \in BOOLEAN
    BY <2>1 DEF Copies
  <2>8. \A id \in FormSlots : shades[id] = Blank \/ shades[id].config \in Drafts
    BY <2>1 DEF FormTables, Rows
  <2>9. marks \subseteq {"dropped", "cut", "refused", "late", "reopened"}
    BY <2>1 DEF Marks
  <2> QED BY <2>1, <2>2, <2>3, <2>4, <2>5, <2>6, <2>7, <2>8, <2>9, Zenon DEF FormTypeOK
<1>4. ShownIsHeld
  <2> SUFFICES ASSUME Quiet, Open, "dropped" \notin marks
               PROVE  shown.configs /\ shown.message = setup.message /\ FieldsHeld
    BY DEF ShownIsHeld, FieldsHeld
  <2>1. ConfigsHeld /\ ValuesHeld
    BY <1>1, <1>2 DEF Held
  <2> QED BY <1>2, <2>1, PlansApart DEF ConfigsHeld, ValuesHeld
<1>5. NothingIsLeft
  <2> SUFFICES ASSUME Quiet, ~Open, marks \cap {"dropped", "cut", "reopened"} = {}
               PROVE  shown = Unshown
    BY DEF NothingIsLeft
  <2>1. FormCleared
    BY <1>1 DEF Left
  <2> QED BY <1>2, <2>1, PlansApart DEF FormCleared
<1>6. StoredIsHeld
  BY <1>1, <1>2 DEF Stored, StoredIsHeld, Carries
<1> QED BY <1>1, <1>3, <1>4, <1>5, <1>6 DEF FormSafe

\* A step that changes nothing of the form keeps what is promised.
LEMMA FormStutters == ASSUME FormInv, UNCHANGED formVars PROVE FormInv'
<1>1. /\ setup' = setup /\ effects' = effects /\ chain' = chain /\ plan' = plan
      /\ settling' = settling /\ joined' = joined /\ form_dirty' = form_dirty
      /\ shown' = shown /\ shades' = shades /\ raised' = raised /\ marks' = marks
  BY DEF formVars
<1>2. Unsent' = Unsent
  BY <1>1 DEF Unsent
<1>3. FormTypes'
  BY <1>1 DEF FormInv, FormTypes, Askable
<1>4. Turns'
  BY <1>1 DEF FormInv, Turns
<1>5. Held'
  BY <1>1, <1>2, EffectsStay DEF FormInv, Held, Open, ConfigsHeld, ValuesHeld, FieldsHeld
<1>6. Left'
  BY <1>1, <1>2, EffectsStay DEF FormInv, Left, Open, FormCleared
<1>7. Stored'
  BY <1>1, StoredStays DEF FormInv
<1>8. Late' /\ NoneIsIncomplete'
  BY <1>1 DEF FormInv, Late, NoneIsIncomplete, Blocker
<1> QED BY <1>3, <1>4, <1>5, <1>6, <1>7, <1>8 DEF FormInv

\* What an operator reads, what the form holds and what the table stores agree once everything is
\* carried out, for any fields, queue and chain: nothing of a form outlives its setup on the
\* broker, and no shade comes out of it incomplete (flow.rs apply_*, mqtt.rs drain and
\* carry_out, lifecycle.rs).
THEOREM FormSafety == FormSpec => []FormSafe
<1>1. FormInv /\ [FormNext]_formVars => FormInv'
  <2>1. CASE FormNext
    BY <2>1, TypesKept, HeldKept, LeftKept, StoredKept, LateKept, CompleteKept DEF FormInv
  <2>2. CASE UNCHANGED formVars
    BY <2>2, FormStutters
  <2> QED BY <2>1, <2>2
<1> QED BY <1>1, FormStarts, FormPromise, PTL DEF FormSpec

-----------------------------------------------------------------------------
(* Sequences                                                               *)

\* A set of numbers that is not empty has a least one.
LEMMA LeastNumber ==
    ASSUME NEW S \in SUBSET Nat, S # {}
    PROVE  \E m \in S : \A n \in S : m <= n
<1>1. PICK m \in S : \A n \in S : ~(<<n, m>> \in OpToRel(<, Nat))
  BY WFMin, NatLessThanWellFounded
<1>2. \A n \in S : ~(n < m)
  BY <1>1 DEF OpToRel
<1> QED BY <1>2

\* The numbers in order are the numbers.
LEMMA AscendingIs ==
    ASSUME NEW numbers \in SUBSET Nat, IsFiniteSet(numbers)
    PROVE  /\ Ascending(numbers) \in Seq(numbers) /\ Len(Ascending(numbers)) = Cardinality(numbers)
           /\ Cardinality(numbers) \in Nat
           /\ \A id \in numbers : \E n \in 1..Cardinality(numbers) : Ascending(numbers)[n] = id
           /\ \A n, m \in 1..Cardinality(numbers) : n < m => Ascending(numbers)[n] < Ascending(numbers)[m]
<1> DEFINE upTo(id) == {other \in numbers : other <= id}
           rank == [id \in numbers |-> Cardinality(upTo(id))]
           N == Cardinality(numbers)
<1>1. N \in Nat
  BY FS_CardinalityType
<1>2. ASSUME NEW id \in numbers PROVE rank[id] \in 1..N
  <2>1. IsFiniteSet(upTo(id)) /\ Cardinality(upTo(id)) <= N
    BY FS_Subset
  <2>2. upTo(id) # {}
    OBVIOUS
  <2>3. Cardinality(upTo(id)) \in Nat /\ Cardinality(upTo(id)) # 0
    BY <2>1, <2>2, FS_CardinalityType, FS_EmptySet
  <2> QED BY <1>1, <2>1, <2>3
<1>3. ASSUME NEW a \in numbers, NEW b \in numbers, a < b PROVE rank[a] < rank[b]
  <2>0. \A id \in numbers : id \in Nat
    OBVIOUS
  <2>4. ASSUME NEW c \in upTo(a) PROVE c \in upTo(b)
    <3>1. c \in Nat /\ a \in Nat /\ b \in Nat /\ c <= a
      BY <2>0, <2>4
    <3>2. c <= b
      BY <1>3, <3>1
    <3> QED BY <2>4, <3>2
  <2>5. a \in Nat /\ b \in Nat /\ ~(b <= a) /\ b <= b
    BY <1>3, <2>0
  <2>1. upTo(a) \in SUBSET upTo(b) /\ b \in upTo(b) /\ b \notin upTo(a)
    BY <2>4, <2>5
  <2>2. IsFiniteSet(upTo(b))
    BY FS_Subset
  <2> HIDE DEF upTo
  <2>3. /\ Cardinality(upTo(a)) <= Cardinality(upTo(b))
        /\ Cardinality(upTo(a)) # Cardinality(upTo(b))
    BY <2>1, <2>2, FS_Subset
  <2> HIDE DEF rank
  <2>6. rank[a] \in 1..N /\ rank[b] \in 1..N
    BY <1>2
  <2>7. rank[a] = Cardinality(upTo(a)) /\ rank[b] = Cardinality(upTo(b))
    BY DEF rank
  <2> QED BY <2>3, <2>6, <2>7, <1>1
<1>4. rank \in Injection(numbers, 1..N)
  <2>1. rank \in [numbers -> 1..N]
    BY <1>2
  <2>2. ASSUME NEW a \in numbers, NEW b \in numbers, rank[a] = rank[b] PROVE a = b
    <3>1. rank[a] \in 1..N /\ rank[b] \in 1..N
      BY <1>2
    <3> HIDE DEF rank
    <3>2. a \in Nat /\ b \in Nat /\ ~(a < b) /\ ~(b < a)
      BY <1>1, <1>3, <2>2, <3>1
    <3> QED BY <3>2
  <2> HIDE DEF rank
  <2> QED BY <2>1, <2>2 DEF Injection, IsInjective
<1>5. rank \in Surjection(numbers, 1..N)
  <2>1. IsFiniteSet(1..N) /\ Cardinality(1..N) = N
    BY <1>1, FS_Interval
  <2> HIDE DEF rank
  <2> QED BY <1>4, <2>1, FS_Injection
<1>6. ASSUME NEW n \in 1..N PROVE \E id \in numbers : rank[id] = n
  BY <1>5 DEF Surjection
<1> DEFINE nth(n) == CHOOSE id \in numbers : Cardinality({other \in numbers : other <= id}) = n
<1>7. ASSUME NEW n \in 1..N PROVE nth(n) \in numbers /\ rank[nth(n)] = n
  <2>1. \E id \in numbers : Cardinality({other \in numbers : other <= id}) = n
    BY <1>6
  <2> QED BY <2>1
<1>8. Ascending(numbers) = [n \in 1..N |-> nth(n)]
  BY Zenon DEF Ascending
<1> HIDE DEF rank, N, nth
<1>9. Ascending(numbers) \in Seq(numbers) /\ Len(Ascending(numbers)) = N /\ DOMAIN Ascending(numbers) = 1..N
  BY <1>1, <1>7, <1>8
<1>10. ASSUME NEW id \in numbers PROVE Ascending(numbers)[rank[id]] = id /\ rank[id] \in 1..N
  <2>1. rank[id] \in 1..N
    BY <1>4 DEF Injection
  <2>2. rank[Ascending(numbers)[rank[id]]] = rank[id] /\ Ascending(numbers)[rank[id]] \in numbers
    BY <1>7, <1>8, <2>1
  <2> QED BY <1>4, <2>1, <2>2 DEF Injection, IsInjective
<1>11. ASSUME NEW n \in 1..N, NEW m \in 1..N, n < m
       PROVE  Ascending(numbers)[n] < Ascending(numbers)[m]
  <2> DEFINE a == Ascending(numbers)[n]
             b == Ascending(numbers)[m]
  <2>1. a \in numbers /\ b \in numbers /\ rank[a] = n /\ rank[b] = m
    BY <1>7, <1>8
  <2> HIDE DEF a, b
  <2>2. a \in Nat /\ b \in Nat /\ n \in Nat /\ m \in Nat
    BY <1>1, <2>1
  <2>3. a # b /\ ~(b < a)
    <3>1. ~(rank[b] < rank[a])
      BY <1>11, <2>1, <2>2
    <3>2. a # b
      BY <1>11, <2>1, <2>2
    <3> QED BY <1>3, <2>1, <3>1, <3>2
  <2>4. a < b
    BY <2>2, <2>3
  <2> QED BY <2>4 DEF a, b
<1> QED BY <1>1, <1>9, <1>10, <1>11 DEF N


\* The places of a sequence that are kept are finitely many, and what is kept
\* is what was at them, in order.
LEMMA KeptIs ==
    ASSUME NEW S, NEW s \in Seq(S), NEW places \in SUBSET DOMAIN s
    PROVE  LET order == Ascending(places)
               N == Cardinality(places)
           IN /\ N \in Nat /\ DOMAIN order = 1..N /\ Len(order) = N
              /\ Kept(s, places) \in Seq(S) /\ Len(Kept(s, places)) = N
              /\ DOMAIN Kept(s, places) = 1..N
              /\ \A n \in 1..N : order[n] \in places /\ Kept(s, places)[n] = s[order[n]]
              /\ \A p \in places : \E n \in 1..N : order[n] = p
              /\ \A n, m \in 1..N : n < m => order[n] < order[m]
<1> DEFINE order == Ascending(places)
           N == Cardinality(places)
<1>1. places \in SUBSET Nat /\ IsFiniteSet(places)
  <2>1. DOMAIN s = 1..Len(s) /\ Len(s) \in Nat
    OBVIOUS
  <2>2. IsFiniteSet(1..Len(s))
    BY <2>1, FS_Interval
  <2> QED BY <2>1, <2>2, FS_Subset
<1>2. /\ order \in Seq(places) /\ Len(order) = N /\ N \in Nat
      /\ \A p \in places : \E n \in 1..N : order[n] = p
      /\ \A n, m \in 1..N : n < m => order[n] < order[m]
  BY <1>1, AscendingIs, Zenon
<1>3. Kept(s, places) = [n \in DOMAIN order |-> s[order[n]]]
  BY DEF Kept
<1> HIDE DEF order, N
<1>4. DOMAIN order = 1..N /\ \A n \in 1..N : order[n] \in places
  BY <1>2
<1>5. \A n \in 1..N : s[order[n]] \in S
  BY <1>4
<1>6. /\ Kept(s, places) \in Seq(S) /\ Len(Kept(s, places)) = N
      /\ DOMAIN Kept(s, places) = 1..N
      /\ \A n \in 1..N : Kept(s, places)[n] = s[order[n]]
  BY <1>2, <1>3, <1>4, <1>5
<1> QED BY <1>2, <1>4, <1>6 DEF order, N

\* A run of numbers in order is itself.
LEMMA RunAscends ==
    ASSUME NEW o \in Nat, NEW l \in Nat
    PROVE  Ascending((o + 1)..(o + l)) = [n \in 1..l |-> o + n]
<1> DEFINE run == (o + 1)..(o + l)
           upTo(x) == {y \in run : y <= x}
<1>1. Cardinality(run) = l
  <2>1. o + 1 \in Nat /\ o + l \in Nat
    OBVIOUS
  <2>2. Cardinality((o + 1)..(o + l)) = IF o + 1 > o + l THEN 0 ELSE (o + l) - (o + 1) + 1
    BY <2>1, FS_Interval
  <2> QED BY <2>2
<1>2. ASSUME NEW n \in 1..l PROVE Cardinality(upTo(o + n)) = n
  <2>1. upTo(o + n) = (o + 1)..(o + n)
    OBVIOUS
  <2>2. o + 1 \in Nat /\ o + n \in Nat
    OBVIOUS
  <2>3. Cardinality((o + 1)..(o + n)) = IF o + 1 > o + n THEN 0 ELSE (o + n) - (o + 1) + 1
    BY <2>2, FS_Interval
  <2> HIDE DEF upTo
  <2> QED BY <2>1, <2>3
<1>3. ASSUME NEW n \in 1..l
      PROVE  (CHOOSE x \in run : Cardinality({y \in run : y <= x}) = n) = o + n
  <2> DEFINE c == CHOOSE x \in run : Cardinality({y \in run : y <= x}) = n
  <2>1. o + n \in run /\ Cardinality(upTo(o + n)) = n
    BY <1>2
  <2>2. c \in run /\ Cardinality(upTo(c)) = n
    BY <2>1
  <2> HIDE DEF c
  <2>3. PICK m \in 1..l : c = o + m
    <3>1. c - o \in 1..l /\ c = o + (c - o)
      BY <2>2
    <3> QED BY <3>1
  <2>4. m = n
    <3>1. Cardinality(upTo(o + m)) = m
      BY <1>2
    <3> HIDE DEF upTo
    <3> QED BY <2>2, <2>3, <3>1
  <2>5. c = o + n
    BY <2>3, <2>4
  <2> QED BY <2>5 DEF c
<1>4. Ascending(run) = [n \in 1..Cardinality(run) |->
                           CHOOSE x \in run : Cardinality({y \in run : y <= x}) = n]
  BY DEF Ascending
<1> QED BY <1>1, <1>3, <1>4

\* A part of a sequence, from place o on.
PlacedAt(whole, o, part) ==
    /\ o + Len(part) <= Len(whole)
    /\ \A i \in 1..Len(part) : whole[o + i] = part[i]

\* A sequence is the first m of these, end to end, each after its offset.
Laid(whole, parts, m, off) ==
    /\ off \in [1..m -> Nat]
    /\ \A k \in 1..m : PlacedAt(whole, off[k], parts[k])
    /\ \A p \in 1..Len(whole) : \E k \in 1..m : p - off[k] \in 1..Len(parts[k])
    /\ \A j, k \in 1..m : j < k => off[j] + Len(parts[j]) <= off[k]

\* One piece more.
LEMMA LaidMore ==
    ASSUME NEW S, NEW parts \in Seq(Seq(S)), NEW m \in Nat, m + 1 <= Len(parts),
           NEW whole \in Seq(S), NEW off, Laid(whole, parts, m, off)
    PROVE  /\ whole \o parts[m + 1] \in Seq(S)
           /\ \E new : Laid(whole \o parts[m + 1], parts, m + 1, new)
<1> DEFINE last == parts[m + 1]
           all == whole \o last
           new == [k \in 1..(m + 1) |-> IF k = m + 1 THEN Len(whole) ELSE off[k]]
<1>1. last \in Seq(S) /\ m + 1 \in 1..Len(parts)
  OBVIOUS
<1>2. all \in Seq(S) /\ Len(whole) \in Nat /\ Len(last) \in Nat
  BY <1>1
<1>3. Len(all) = Len(whole) + Len(last)
  BY <1>1
<1>4. \A i \in 1..Len(whole) : all[i] = whole[i]
  BY <1>1
<1>5. \A i \in 1..Len(last) : all[Len(whole) + i] = last[i]
  BY <1>1
<1>6. \A k \in 1..m : Len(parts[k]) \in Nat /\ off[k] \in Nat
  <2>1. \A k \in 1..m : k \in 1..Len(parts)
    BY <1>1
  <2> QED BY <2>1 DEF Laid
<1> HIDE DEF last, all
<1>7. new \in [1..(m + 1) -> Nat]
  BY <1>2, <1>6
<1>8. /\ \A k \in 1..m : k \in 1..(m + 1) /\ k # m + 1 /\ new[k] = off[k]
      /\ m + 1 \in 1..(m + 1) /\ new[m + 1] = Len(whole)
  OBVIOUS
<1> HIDE DEF new
<1>9. ASSUME NEW k \in 1..m PROVE PlacedAt(all, new[k], parts[k])
  <2>0. PlacedAt(whole, off[k], parts[k])
    BY DEF Laid
  <2>1. PICK w \in Nat, l \in Nat, d \in Nat, o \in Nat :
            w = Len(whole) /\ l = Len(parts[k]) /\ d = Len(last) /\ o = off[k]
    BY <1>2, <1>6
  <2>2. o + l <= w /\ Len(all) = w + d
    BY <1>3, <2>0, <2>1 DEF PlacedAt
  <2>3. o + l <= w + d /\ \A i \in 1..l : o + i \in 1..w
    BY <2>2
  <2> QED BY <1>4, <1>8, <2>0, <2>1, <2>2, <2>3 DEF PlacedAt
<1>10. PlacedAt(all, new[m + 1], last)
  BY <1>2, <1>3, <1>5, <1>8 DEF PlacedAt
<1>11. ASSUME NEW k \in 1..(m + 1) PROVE PlacedAt(all, new[k], parts[k])
  <2>1. k = m + 1 \/ k \in 1..m
    OBVIOUS
  <2> QED BY <1>9, <1>10, <2>1 DEF last
<1>12. ASSUME NEW p \in 1..Len(all)
       PROVE  \E k \in 1..(m + 1) : p - new[k] \in 1..Len(parts[k])
  <2>1. CASE p <= Len(whole)
    <3>1. p \in 1..Len(whole)
      BY <1>2, <2>1
    <3>2. PICK k \in 1..m : p - off[k] \in 1..Len(parts[k])
      BY <3>1 DEF Laid
    <3> QED BY <1>8, <3>2
  <2>2. CASE p > Len(whole)
    <3>1. p - Len(whole) \in 1..Len(last)
      BY <1>2, <1>3, <2>2
    <3> QED BY <1>8, <3>1 DEF last
  <2> QED BY <1>2, <2>1, <2>2
<1>13. ASSUME NEW j \in 1..(m + 1), NEW k \in 1..(m + 1), j < k
       PROVE  new[j] + Len(parts[j]) <= new[k]
  <2>1. j \in 1..m
    BY <1>13
  <2>2. CASE k = m + 1
    BY <1>8, <2>1, <2>2 DEF Laid, PlacedAt
  <2>3. CASE k # m + 1
    <3>1. k \in 1..m
      BY <2>3
    <3> QED BY <1>8, <1>13, <2>1, <3>1 DEF Laid
  <2> QED BY <2>2, <2>3
<1>14. Laid(all, parts, m + 1, new)
  BY <1>7, <1>11, <1>12, <1>13 DEF Laid
<1> QED BY <1>2, <1>14 DEF all, last

\* FlattenSeq puts its pieces end to end.
LEMMA FlattenAt ==
    ASSUME NEW S, NEW parts \in Seq(Seq(S))
    PROVE  FlattenSeq(parts) \in Seq(S) /\ \E off : Laid(FlattenSeq(parts), parts, Len(parts), off)
<1> DEFINE Piece(at, i) == IF i = 1 THEN parts[i] ELSE at[i - 1] \o parts[i]
           Defined(k) == \E at : at = [i \in 1..k |-> Piece(at, i)]
           N == Len(parts)
<1>1. N \in Nat
  OBVIOUS
<1>2. CASE N = 0
  <2>1. FlattenSeq(parts) = <<>>
    BY <1>2 DEF FlattenSeq
  <2>2. <<>> \in [1..0 -> Nat] /\ Len(<<>>) = 0
    OBVIOUS
  <2>3. Laid(<<>>, parts, 0, <<>>)
    BY <2>2 DEF Laid
  <2> QED BY <1>2, <2>1, <2>3
<1>3. CASE N # 0
  <2> DEFINE bad == {k \in Nat : ~Defined(k)}
  <2>1. bad = {}
    <3>1. SUFFICES ASSUME bad # {} PROVE FALSE
      OBVIOUS
    <3>2. PICK k \in bad : \A j \in bad : k <= j
      BY <3>1, LeastNumber
    <3>3. k # 0
      <4>1. <<>> = [i \in 1..0 |-> Piece(<<>>, i)]
        OBVIOUS
      <4>2. Defined(0)
        BY <4>1
      <4>3. ~Defined(k)
        BY <3>2
      <4> HIDE DEF Defined
      <4> QED BY <4>2, <4>3
    <3>4. k \in Nat /\ k - 1 \in Nat /\ k - 1 \notin bad
      <4>1. k \in Nat
        BY <3>2
      <4> HIDE DEF bad
      <4>2. k - 1 \in Nat /\ ~(k <= k - 1)
        BY <4>1, <3>3
      <4> QED BY <4>1, <4>2, <3>2
    <3>5. PICK old : old = [i \in 1..(k - 1) |-> Piece(old, i)]
      BY <3>4
    <3> DEFINE new == [i \in 1..k |-> IF i = k THEN Piece(old, k) ELSE old[i]]
    <3>6. ASSUME NEW i \in 1..k PROVE new[i] = Piece(new, i)
      <4>1. CASE i = k
        <5>1. k # 1 => k - 1 \in 1..k /\ new[k - 1] = old[k - 1]
          BY <3>4
        <5> QED BY <4>1, <5>1, <3>4
      <4>2. CASE i # k
        <5>1. i \in 1..(k - 1) /\ new[i] = old[i]
          BY <4>2, <3>4
        <5>2. old[i] = Piece(old, i)
          BY <3>5, <5>1
        <5>3. i # 1 => i - 1 \in 1..k /\ i - 1 # k /\ new[i - 1] = old[i - 1]
          BY <5>1, <3>4
        <5> QED BY <5>1, <5>2, <5>3
      <4> QED BY <4>1, <4>2
    <3>7. new = [i \in 1..k |-> Piece(new, i)]
      BY <3>6
    <3>8. Defined(k)
      BY <3>7
    <3> QED BY <3>2, <3>8
  <2>2. Defined(N)
    BY <1>1, <2>1
  <2> DEFINE at == CHOOSE g : g = [i \in 1..N |-> Piece(g, i)]
  <2>3. at = [i \in 1..N |-> Piece(at, i)]
    BY <2>2, Zenon
  <2>4. FlattenSeq(parts) = at[N]
    BY <1>3 DEF FlattenSeq
  <2> HIDE DEF at
  <2>5. \A i \in 1..N : at[i] = IF i = 1 THEN parts[i] ELSE at[i - 1] \o parts[i]
    BY <2>3
  <2> DEFINE Whole(k) == at[k] \in Seq(S) /\ \E off : Laid(at[k], parts, k, off)
             wrong == {k \in 1..N : ~Whole(k)}
  <2>6. wrong = {}
    <3>1. SUFFICES ASSUME wrong # {} PROVE FALSE
      OBVIOUS
    <3>2. PICK k \in wrong : \A j \in wrong : k <= j
      <4>1. wrong \in SUBSET Nat
        BY <1>1
      <4> QED BY <3>1, <4>1, LeastNumber
    <3>3. k \in 1..N
      BY <3>2
    <3>4. CASE k = 1
      <4>1. at[1] = parts[1] /\ parts[1] \in Seq(S) /\ Len(parts[1]) \in Nat
        BY <2>5, <3>3, <3>4
      <4> DEFINE none == [j \in 1..1 |-> 0]
      <4>2. PlacedAt(at[1], 0, parts[1]) /\ \A p \in 1..Len(at[1]) : p - 0 \in 1..Len(parts[1])
        BY <4>1 DEF PlacedAt
      <4>3. none \in [1..1 -> Nat] /\ none[1] = 0 /\ \A j \in 1..1 : j = 1
        OBVIOUS
      <4> HIDE DEF none
      <4>4. Laid(at[1], parts, 1, none)
        BY <4>2, <4>3 DEF Laid
      <4>5. Whole(1)
        BY <4>1, <4>4
      <4> QED BY <3>2, <3>4, <4>5
    <3>5. CASE k # 1
      <4>1. k - 1 \in 1..N /\ k - 1 \in Nat /\ ~(k <= k - 1) /\ (k - 1) + 1 = k /\ k <= N
        BY <3>3, <3>5, <1>1
      <4>2. k - 1 \notin wrong
        <5> HIDE DEF wrong
        <5> QED BY <3>2, <4>1
      <4>3. PICK off : at[k - 1] \in Seq(S) /\ Laid(at[k - 1], parts, k - 1, off)
        BY <4>1, <4>2
      <4>4. /\ at[k - 1] \o parts[(k - 1) + 1] \in Seq(S)
            /\ \E new : Laid(at[k - 1] \o parts[(k - 1) + 1], parts, (k - 1) + 1, new)
        BY <4>1, <4>3, LaidMore
      <4>5. at[k] = at[k - 1] \o parts[k]
        BY <2>5, <3>3, <3>5
      <4>6. Whole(k)
        BY <4>1, <4>4, <4>5
      <4> QED BY <3>2, <4>6
    <3> QED BY <3>4, <3>5
  <2>7. Whole(N)
    <3>1. N \in 1..N
      BY <1>1, <1>3
    <3> HIDE DEF Whole
    <3> QED BY <2>6, <3>1
  <2> QED BY <2>4, <2>7
<1> QED BY <1>2, <1>3

-----------------------------------------------------------------------------
(* Records                                                                 *)

Links == [row : Nat, address : Nat]
RegistryRows == [config : Configs, seed : Nat]
Tagged(lists) ==
    [r \in DOMAIN lists |->
        [n \in DOMAIN lists[r] |-> [row |-> r - 1, address |-> lists[r][n]]]]

\* The links of a table are those of each row, each after the offset of its row.
Spread(links, lists, off) ==
    /\ off \in [1..Len(lists) -> Nat]
    /\ \A k \in 1..Len(lists) : \A i \in 1..Len(lists[k]) :
          /\ off[k] + i \in 1..Len(links)
          /\ links[off[k] + i] = [row |-> k - 1, address |-> lists[k][i]]
    /\ \A n \in 1..Len(links) : \E k \in 1..Len(lists) :
          /\ n - off[k] \in 1..Len(lists[k])
          /\ links[n] = [row |-> k - 1, address |-> lists[k][n - off[k]]]

\* Lists of numbers, and their lengths and places, have their types.
LEMMA ListsAre ==
    ASSUME NEW lists \in Seq(Seq(Nat))
    PROVE  /\ DOMAIN lists = 1..Len(lists) /\ Len(lists) \in Nat
           /\ \A k \in 1..Len(lists) :
                 /\ lists[k] \in Seq(Nat) /\ DOMAIN lists[k] = 1..Len(lists[k])
                 /\ Len(lists[k]) \in Nat /\ \A i \in 1..Len(lists[k]) : lists[k][i] \in Nat
                 /\ lists[k] = [i \in 1..Len(lists[k]) |-> lists[k][i]]
<1>1. \A list \in Seq(Nat) :
         /\ Len(list) \in Nat /\ DOMAIN list = 1..Len(list)
         /\ \A i \in 1..Len(list) : list[i] \in Nat
         /\ list = [n \in 1..Len(list) |-> list[n]]
  OBVIOUS
<1>2. DOMAIN lists = 1..Len(lists) /\ Len(lists) \in Nat
  OBVIOUS
<1>3. \A k \in 1..Len(lists) : lists[k] \in Seq(Nat)
  OBVIOUS
<1> QED BY <1>1, <1>2, <1>3

\* Links are packed row after row.
LEMMA PackedIs ==
    ASSUME NEW lists \in Seq(Seq(Nat))
    PROVE  Packed(lists) \in Seq(Links) /\ \E off : Spread(Packed(lists), lists, off)
<1>1. /\ DOMAIN lists = 1..Len(lists) /\ Len(lists) \in Nat
      /\ \A k \in 1..Len(lists) : /\ lists[k] \in Seq(Nat) /\ DOMAIN lists[k] = 1..Len(lists[k])
                                  /\ Len(lists[k]) \in Nat
                                  /\ \A i \in 1..Len(lists[k]) : lists[k][i] \in Nat
  BY ListsAre
<1>2. ASSUME NEW k \in 1..Len(lists)
      PROVE  /\ Tagged(lists)[k] \in Seq(Links) /\ Len(Tagged(lists)[k]) = Len(lists[k])
             /\ \A i \in 1..Len(lists[k]) :
                   Tagged(lists)[k][i] = [row |-> k - 1, address |-> lists[k][i]]
  <2>1. Tagged(lists)[k] = [n \in 1..Len(lists[k]) |-> [row |-> k - 1, address |-> lists[k][n]]]
    BY <1>1 DEF Tagged
  <2>2. \A n \in 1..Len(lists[k]) : [row |-> k - 1, address |-> lists[k][n]] \in Links
    BY <1>1 DEF Links
  <2>3. Len(lists[k]) \in Nat
    BY <1>1
  <2> QED BY <2>1, <2>2, <2>3
<1>3. Tagged(lists) \in Seq(Seq(Links)) /\ Len(Tagged(lists)) = Len(lists)
  <2>1. DOMAIN Tagged(lists) = 1..Len(lists)
    BY <1>1 DEF Tagged
  <2>2. Tagged(lists) = [k \in 1..Len(lists) |-> Tagged(lists)[k]]
    BY <1>1 DEF Tagged
  <2> QED BY <1>1, <1>2, <2>1, <2>2
<1> DEFINE links == Packed(lists)
<1>4. links = FlattenSeq(Tagged(lists))
  BY DEF Packed, Tagged
<1>5. links \in Seq(Links)
  BY <1>3, <1>4, FlattenAt
<1>6. PICK off : Laid(links, Tagged(lists), Len(lists), off)
  BY <1>3, <1>4, FlattenAt
<1>7. Len(links) \in Nat
  BY <1>5
<1> HIDE DEF links
<1>8. off \in [1..Len(lists) -> Nat]
  BY <1>6 DEF Laid
<1>9. ASSUME NEW k \in 1..Len(lists), NEW i \in 1..Len(lists[k])
      PROVE  /\ off[k] + i \in 1..Len(links)
             /\ links[off[k] + i] = [row |-> k - 1, address |-> lists[k][i]]
  <2>1. PlacedAt(links, off[k], Tagged(lists)[k])
    BY <1>6 DEF Laid
  <2>2. off[k] + Len(lists[k]) <= Len(links) /\ links[off[k] + i] = Tagged(lists)[k][i]
    BY <1>2, <2>1 DEF PlacedAt
  <2>3. PICK o \in Nat, l \in Nat, w \in Nat : o = off[k] /\ l = Len(lists[k]) /\ w = Len(links)
    BY <1>1, <1>7, <1>8
  <2>5. i \in 1..l /\ o + l <= w
    BY <2>2, <2>3
  <2>6. o + i \in 1..w
    BY <2>5
  <2>4. off[k] + i \in 1..Len(links)
    BY <2>3, <2>6
  <2> QED BY <1>2, <2>2, <2>4
<1>10. ASSUME NEW n \in 1..Len(links)
       PROVE  \E k \in 1..Len(lists) :
                 /\ n - off[k] \in 1..Len(lists[k])
                 /\ links[n] = [row |-> k - 1, address |-> lists[k][n - off[k]]]
  <2>1. PICK k \in 1..Len(lists) : n - off[k] \in 1..Len(Tagged(lists)[k])
    BY <1>6 DEF Laid
  <2>2. n - off[k] \in 1..Len(lists[k])
    BY <1>2, <2>1
  <2>6. off[k] \in Nat
    BY <1>8
  <2>5. off[k] \in Nat /\ n \in Nat
    BY <1>7, <2>6
  <2>3. off[k] + (n - off[k]) = n
    BY <2>5
  <2>4. links[off[k] + (n - off[k])] = [row |-> k - 1, address |-> lists[k][n - off[k]]]
    BY <1>9, <2>2
  <2> QED BY <2>2, <2>3, <2>4
<1>11. Spread(links, lists, off)
  BY <1>8, <1>9, <1>10 DEF Spread
<1> QED BY <1>5, <1>11 DEF links

\* What the links of a row are read as is the list they were packed from, and a
\* row that has no list has no links.
LEMMA OwnLinks ==
    ASSUME NEW lists \in Seq(Seq(Nat)), NEW table, table.links = Packed(lists)
    PROVE  /\ \A r \in 1..Len(lists) : LinksOfRow(table, r - 1) = lists[r]
           /\ \A row \in Nat : row >= Len(lists) => LinksOfRow(table, row) = <<>>
<1> DEFINE links == Packed(lists)
           own(row) == {n \in DOMAIN links : links[n].row = row}
<1>1. links \in Seq(Links) /\ DOMAIN links = 1..Len(links) /\ Len(links) \in Nat
  BY PackedIs
<1>2. PICK off : Spread(links, lists, off)
  BY PackedIs
<1> HIDE DEF links
<1>3. \A k \in 1..Len(lists) :
         /\ off[k] \in Nat /\ Len(lists[k]) \in Nat
         /\ lists[k] = [i \in 1..Len(lists[k]) |-> lists[k][i]]
  BY <1>2, ListsAre DEF Spread
<1>5. ASSUME NEW k \in 1..Len(lists), NEW i \in 1..Len(lists[k])
      PROVE  /\ off[k] + i \in 1..Len(links)
             /\ links[off[k] + i] = [row |-> k - 1, address |-> lists[k][i]]
  BY <1>2 DEF Spread
<1>6. ASSUME NEW n \in 1..Len(links)
      PROVE  \E k \in 1..Len(lists) : n - off[k] \in 1..Len(lists[k]) /\ links[n].row = k - 1
  <2>1. PICK k \in 1..Len(lists) : /\ n - off[k] \in 1..Len(lists[k])
                                   /\ links[n] = [row |-> k - 1, address |-> lists[k][n - off[k]]]
    BY <1>2 DEF Spread
  <2> QED BY <2>1
<1>7. ASSUME NEW row
      PROVE  LinksOfRow(table, row) = [n \in DOMAIN Ascending(own(row)) |->
                                          links[Ascending(own(row))[n]].address]
  <2>1. LinksOfRow(table, row) = [n \in DOMAIN Kept(links, own(row)) |->
                                     Kept(links, own(row))[n].address]
    BY DEF LinksOfRow, links
  <2>2. Kept(links, own(row)) = [n \in DOMAIN Ascending(own(row)) |-> links[Ascending(own(row))[n]]]
    BY DEF Kept
  <2> HIDE DEF own
  <2> QED BY <2>1, <2>2
<1>8. ASSUME NEW r \in 1..Len(lists) PROVE LinksOfRow(table, r - 1) = lists[r]
  <2> DEFINE o == off[r]
             l == Len(lists[r])
  <2>0. o \in Nat /\ l \in Nat
    BY <1>3
  <2>1. ASSUME NEW n \in 1..l
        PROVE  o + n \in own(r - 1) /\ links[o + n].address = lists[r][n]
    <3>1. o + n \in 1..Len(links) /\ links[o + n] = [row |-> r - 1, address |-> lists[r][n]]
      BY <1>5
    <3> QED BY <1>1, <3>1
  <2>2. ASSUME NEW n \in own(r - 1) PROVE n - o \in 1..l
    <3>1. n \in 1..Len(links) /\ links[n].row = r - 1
      BY <1>1
    <3>2. PICK k \in 1..Len(lists) : n - off[k] \in 1..Len(lists[k]) /\ links[n].row = k - 1
      BY <1>6, <3>1
    <3>3. k = r
      BY <3>1, <3>2
    <3> QED BY <3>2, <3>3
  <2> HIDE DEF o, l
  <2>3. own(r - 1) = (o + 1)..(o + l)
    <3>1. ASSUME NEW n \in own(r - 1) PROVE n \in (o + 1)..(o + l)
      <4>1. n \in Nat /\ n - o \in 1..l
        BY <1>1, <2>2
      <4> QED BY <2>0, <4>1
    <3>2. ASSUME NEW n \in (o + 1)..(o + l) PROVE n \in own(r - 1)
      <4>1. n - o \in 1..l /\ o + (n - o) = n
        BY <2>0
      <4> HIDE DEF own
      <4> QED BY <2>1, <4>1
    <3> HIDE DEF own
    <3> QED BY <3>1, <3>2
  <2> HIDE DEF own
  <2>4. Ascending(own(r - 1)) = [n \in 1..l |-> o + n]
    BY <2>0, <2>3, RunAscends
  <2> DEFINE asc == Ascending(own(r - 1))
  <2>5. LinksOfRow(table, r - 1) = [n \in 1..l |-> links[o + n].address]
    <3>1. LinksOfRow(table, r - 1) = [n \in DOMAIN asc |-> links[asc[n]].address]
      BY <1>7
    <3>2. DOMAIN asc = 1..l /\ \A n \in 1..l : asc[n] = o + n
      BY <2>4
    <3> HIDE DEF asc
    <3> QED BY <3>1, <3>2
  <2>6. lists[r] = [n \in 1..l |-> lists[r][n]]
    BY <1>3 DEF l
  <2> QED BY <2>1, <2>5, <2>6
<1>9. ASSUME NEW row \in Nat, row >= Len(lists) PROVE LinksOfRow(table, row) = <<>>
  <2>1. own(row) = {}
    <3>1. SUFFICES ASSUME NEW n \in 1..Len(links), links[n].row = row PROVE FALSE
      BY <1>1
    <3>2. PICK k \in 1..Len(lists) : links[n].row = k - 1
      BY <1>6
    <3>3. Len(lists) \in Nat
      OBVIOUS
    <3> QED BY <1>9, <3>1, <3>2, <3>3
  <2>2. Ascending({}) = <<>>
    <3>1. Cardinality({}) = 0
      BY FS_EmptySet
    <3> QED BY <3>1 DEF Ascending
  <2> DEFINE asc == Ascending(own(row))
  <2>3. LinksOfRow(table, row) = [n \in DOMAIN asc |-> links[asc[n]].address]
    BY <1>7
  <2>4. asc = <<>>
    BY <2>1, <2>2
  <2> HIDE DEF asc
  <2> QED BY <2>3, <2>4
<1> QED BY <1>8, <1>9

-----------------------------------------------------------------------------
(* A row that is written is the row that is read                           *)

Stepped(ms) == \E k \in Nat : ms = k * STEP
Fits(config) ==
    /\ Usable(config.address) /\ LiftTimes(config) /\ CheckedBands(config)
    /\ Stepped(config.lag) /\ Stepped(config.vent) /\ Stepped(config.close)

\* A number of steps divides into its steps.
LEMMA StepsDivide ==
    ASSUME NEW ms \in Nat, Stepped(ms)
    PROVE  ms \div STEP \in Nat /\ (ms \div STEP) * STEP = ms
<1>1. PICK k \in Nat : ms = k * STEP
  BY DEF Stepped
<1>2. STEP \in Nat \ {0}
  BY RecordAssumption
<1>3. (k * STEP) \div STEP = k
  BY <1>2
<1> QED BY <1>1, <1>3

\* What is rounded is a number of steps.
LEMMA RoundSteps ==
    ASSUME NEW ms \in Nat
    PROVE  Round(ms) \in Nat /\ Stepped(Round(ms))
<1>1. STEP \in Nat \ {0}
  BY RecordAssumption
<1>2. STEP \div 2 \in Nat
  BY <1>1
<1>3. ms + STEP \div 2 \in Nat
  BY <1>2
<1>4. \A a \in Nat : a \div STEP \in Nat
  BY <1>1
<1>5. (ms + STEP \div 2) \div STEP \in Nat
  BY <1>3, <1>4
<1>6. \A a \in Nat : a * STEP \in Nat
  BY <1>1
<1> QED BY <1>5, <1>6 DEF Round, Stepped

\* A description that fits comes back from its entry, and the entry reads.
LEMMA EntryBack ==
    ASSUME NEW config \in Configs, Fits(config)
    PROVE  /\ Entry(config) \in Configs /\ Entry(config).address = config.address
           /\ DecodeEntry(VERSION, Entry(config)) = config
           /\ EntryReads(VERSION, Entry(config))
<1> DEFINE entry == Entry(config)
<1>1. /\ config.lag \in Nat /\ config.vent \in Nat /\ config.close \in Nat
      /\ Stepped(config.lag) /\ Stepped(config.vent) /\ Stepped(config.close)
  BY DEF Configs, Fits
<1>2. PICK a \in Nat, b \in Nat, c \in Nat :
         /\ a = config.lag \div STEP /\ b = config.vent \div STEP /\ c = config.close \div STEP
         /\ a * STEP = config.lag /\ b * STEP = config.vent /\ c * STEP = config.close
  BY <1>1, StepsDivide
<1>3. entry = [config EXCEPT !.lag = a, !.vent = b, !.close = c]
  BY <1>2 DEF Entry
<1> HIDE DEF entry
<1>4. entry \in Configs /\ entry.lag = a /\ entry.vent = b /\ entry.close = c
  BY <1>3 DEF Configs
<1>5. /\ entry.address = config.address /\ entry.kind = config.kind
      /\ entry.up = config.up /\ entry.down = config.down
  BY <1>3 DEF Configs
<1>6. DecodeEntry(VERSION, entry) = [entry EXCEPT !.lag = @ * STEP, !.vent = @ * STEP,
                                                 !.close = @ * STEP]
  BY DEF DecodeEntry, Calibration, VERSION
<1>7. DecodeEntry(VERSION, entry) = [entry EXCEPT !.lag = config.lag, !.vent = config.vent,
                                                 !.close = config.close]
  BY <1>2, <1>4, <1>6
<1>8. DecodeEntry(VERSION, entry) = config
  BY <1>3, <1>7 DEF Configs
<1>9. EntryReads(VERSION, entry)
  BY <1>5, <1>8 DEF EntryReads, Fits, LiftTimes, Configs
<1> QED BY <1>4, <1>5, <1>8, <1>9 DEF entry

-----------------------------------------------------------------------------
(* Tables                                                                  *)

\* What a boot may find in flash, and what a record is written from.
LinkFits(table, n) ==
    LET link == table.links[n]
    IN /\ link.row < Len(table.rows)
       /\ Usable(link.address)
       /\ link.address # table.rows[link.row + 1].config.address
       /\ \A m \in 1..n - 1 :
             table.links[m].row = link.row => table.links[m].address # link.address
       /\ Cardinality({m \in 1..n - 1 : table.links[m].row = link.row}) < MAX_LINKED_REMOTES

SoundTable(table) ==
    /\ table = [rows |-> table.rows, links |-> table.links, announced |-> table.announced]
    /\ table.rows \in Seq(RegistryRows) /\ Len(table.rows) <= CAPACITY
    /\ \A r \in 1..Len(table.rows) : Fits(table.rows[r].config)
    /\ \A r, s \in 1..Len(table.rows) :
          r # s => table.rows[r].config.address # table.rows[s].config.address
    /\ table.links \in Seq(Links) /\ Len(table.links) <= MAX_LINKS
    /\ \A n \in 1..Len(table.links) : LinkFits(table, n)
    /\ table.announced \subseteq Slots

\* No record is None.
LEMMA RecordIsSome ==
    ASSUME NEW rows \in Seq(RegistryRows), NEW links \in Seq(Links), NEW bits \in SUBSET Slots
    PROVE  [version |-> VERSION, rows |-> rows, links |-> links, announced |-> bits] # None
<1>1. [version |-> VERSION, rows |-> rows, links |-> links, announced |-> bits]
         \in [version : Nat, rows : Seq(RegistryRows), links : Seq(Links), announced : SUBSET Slots]
  BY DEF VERSION
<1>2. None \notin [version : Nat, rows : Seq(RegistryRows), links : Seq(Links), announced : SUBSET Slots]
  BY ProvisionAssumption DEF RegistryRows, Links
<1> QED BY <1>1, <1>2

\* The record a sound table is written to is one the next boot reads, and what
\* it reads is the table.
LEMMA WrittenReads ==
    ASSUME NEW table, SoundTable(table)
    PROVE  LET record == Encode(table.rows, table.links, table.announced)
           IN record # None /\ TableReads(record) /\ LoadTable(record) = table
<1> DEFINE rows == table.rows
           links == table.links
           bits == table.announced
           record == Encode(rows, links, bits)
           entries == [r \in DOMAIN rows |-> Row(Entry(rows[r].config), rows[r].seed)]
<1>1. /\ rows \in Seq(RegistryRows) /\ DOMAIN rows = 1..Len(rows) /\ Len(rows) \in Nat
      /\ links \in Seq(Links) /\ DOMAIN links = 1..Len(links) /\ Len(links) \in Nat
      /\ bits \in SUBSET Slots
  <2>1. rows \in Seq(RegistryRows) /\ links \in Seq(Links) /\ bits \in SUBSET Slots
    BY DEF SoundTable
  <2> HIDE DEF rows, links, bits
  <2> QED BY <2>1
<1>2. /\ table = [rows |-> rows, links |-> links, announced |-> bits]
      /\ Len(rows) <= CAPACITY /\ Len(links) <= MAX_LINKS
      /\ \A r \in 1..Len(rows) : Fits(rows[r].config)
      /\ \A r, s \in 1..Len(rows) : r # s => rows[r].config.address # rows[s].config.address
      /\ \A n \in 1..Len(links) : LinkFits(table, n)
  BY DEF SoundTable
<1>3. record = [version |-> VERSION, rows |-> entries, links |-> links, announced |-> bits]
  BY DEF Encode
<1> HIDE DEF rows, links, bits
<1>4. ASSUME NEW r \in 1..Len(rows)
      PROVE  /\ rows[r].config \in Configs /\ rows[r].seed \in Nat
             /\ rows[r] = Row(rows[r].config, rows[r].seed)
  <2>1. rows[r] \in RegistryRows
    BY <1>1
  <2> QED BY <2>1 DEF RegistryRows, Row
<1>5. ASSUME NEW r \in 1..Len(rows)
      PROVE  /\ entries[r] = Row(Entry(rows[r].config), rows[r].seed) /\ entries[r] \in RegistryRows
             /\ entries[r].config.address = rows[r].config.address
             /\ EntryReads(VERSION, entries[r].config)
             /\ DecodeEntry(VERSION, entries[r].config) = rows[r].config
             /\ entries[r].seed = rows[r].seed
  <2>1. /\ Entry(rows[r].config) \in Configs
        /\ Entry(rows[r].config).address = rows[r].config.address
        /\ DecodeEntry(VERSION, Entry(rows[r].config)) = rows[r].config
        /\ EntryReads(VERSION, Entry(rows[r].config))
    BY <1>2, <1>4, EntryBack
  <2>2. entries[r] = Row(Entry(rows[r].config), rows[r].seed)
    BY <1>1
  <2> HIDE DEF entries
  <2>3. entries[r].config = Entry(rows[r].config) /\ entries[r].seed = rows[r].seed
    BY <2>2 DEF Row
  <2>4. entries[r] \in RegistryRows
    <3>1. \A c \in Configs, s \in Nat : Row(c, s) \in RegistryRows
      BY DEF Row, RegistryRows
    <3> QED BY <1>4, <2>1, <2>2, <3>1
  <2> QED BY <2>1, <2>2, <2>3, <2>4
<1>6. entries \in Seq(RegistryRows) /\ DOMAIN entries = 1..Len(rows) /\ Len(entries) = Len(rows)
  <2>1. DOMAIN entries = 1..Len(rows) /\ entries = [r \in 1..Len(rows) |-> entries[r]]
    BY <1>1
  <2> HIDE DEF entries
  <2> QED BY <1>1, <1>5, <2>1
<1> HIDE DEF entries
<1>7. record # None
  BY <1>1, <1>3, <1>6, RecordIsSome
<1> HIDE DEF record
<1>8. /\ record.version = VERSION /\ record.rows = entries /\ record.links = links
      /\ record.announced = bits /\ LinksIn(record) = links /\ AnnouncedIn(record) = bits
  BY <1>3 DEF LinksIn, AnnouncedIn, VERSION
<1>9. TableReads(record)
  <2>1. HeaderReads(record)
    BY <1>2, <1>6, <1>8 DEF HeaderReads, MaxLinks, VERSION
  <2>2. \A r \in DOMAIN entries : EntryReads(VERSION, entries[r].config)
    BY <1>5, <1>6
  <2>3. \A r, s \in DOMAIN entries :
           r # s => entries[r].config.address # entries[s].config.address
    BY <1>2, <1>5, <1>6
  <2>4. ASSUME NEW n \in 1..Len(links) PROVE LinkReads(record, n)
    <3>1. /\ links[n].row < Len(rows) /\ Usable(links[n].address)
          /\ links[n].address # rows[links[n].row + 1].config.address
          /\ \A m \in 1..n - 1 : links[m].row = links[n].row => links[m].address # links[n].address
          /\ Cardinality({m \in 1..n - 1 : links[m].row = links[n].row}) < MAX_LINKED_REMOTES
      BY <1>2 DEF LinkFits, rows, links
    <3>2. links[n] \in Links
      BY <1>1
    <3>3. links[n].row \in Nat
      BY <3>2 DEF Links
    <3>4. links[n].row + 1 \in 1..Len(rows)
      BY <1>1, <3>1, <3>3
    <3>5. entries[links[n].row + 1].config.address = rows[links[n].row + 1].config.address
      BY <1>5, <3>4
    <3> QED BY <1>6, <1>8, <3>1, <3>5 DEF LinkReads
  <2> QED BY <1>1, <1>8, <2>1, <2>2, <2>3, <2>4 DEF TableReads
<1>10. LoadTable(record) = table
  <2>1. [r \in DOMAIN entries |-> Row(DecodeEntry(VERSION, entries[r].config), entries[r].seed)] = rows
    <3>1. [r \in DOMAIN entries |-> Row(DecodeEntry(VERSION, entries[r].config), entries[r].seed)]
            = [r \in 1..Len(rows) |-> rows[r]]
      BY <1>4, <1>5, <1>6
    <3>2. rows = [r \in 1..Len(rows) |-> rows[r]]
      BY <1>1
    <3> QED BY <3>1, <3>2
  <2>2. Decode(record) = [rows |-> rows, links |-> links, announced |-> bits]
    BY <1>8, <2>1 DEF Decode
  <2> QED BY <1>2, <1>7, <1>9, <2>2 DEF LoadTable
<1> QED BY <1>7, <1>9, <1>10 DEF record, rows, links, bits

\* A table with nothing in it is sound.
LEMMA NoTableIsSound == SoundTable(NoTable)
<1> DEFINE rows == NoTable.rows
           links == NoTable.links
<1>1. NoTable = [rows |-> <<>>, links |-> <<>>, announced |-> {}]
  BY DEF NoTable
<1>2. <<>> \in Seq(RegistryRows) /\ <<>> \in Seq(Links) /\ Len(<<>>) = 0
  OBVIOUS
<1>3. CAPACITY \in Nat /\ MAX_LINKS \in Nat
  BY RecordAssumption
<1> QED BY <1>1, <1>2, <1>3 DEF SoundTable

\* Whatever record of whatever layout a device wakes up with, what it makes of
\* it is a sound table.
LEMMA FoundIsSound ==
    ASSUME NEW record \in Tables
    PROVE  SoundTable(LoadTable(record))
<1>1. CASE ~(record # None /\ TableReads(record))
  BY <1>1, NoTableIsSound DEF LoadTable
<1>2. CASE record # None /\ TableReads(record)
  <2> DEFINE rows == record.rows
             links == LinksIn(record)
             v == record.version
             read == [r \in DOMAIN rows |-> Row(DecodeEntry(v, rows[r].config), rows[r].seed)]
             table == LoadTable(record)
  <2>1. record \in TableRecords(record)
    BY <1>2, ProvisionAssumption
  <2>2. /\ v \in Nat /\ rows \in Seq(Entries(record)) /\ record.links \in Seq(Links)
        /\ record.announced \in SUBSET Slots
    BY <2>1 DEF TableRecords, Links
  <2>3. table = [rows |-> read, links |-> links, announced |-> AnnouncedIn(record)]
    BY <1>2 DEF LoadTable, Decode
  <2>4. /\ v \in 1..VERSION /\ Len(rows) <= CAPACITY
        /\ v > 1 => Len(record.links) <= MAX_LINKS
    BY <1>2 DEF TableReads, HeaderReads
  <2>5. links \in Seq(Links) /\ Len(links) <= MAX_LINKS
    <3>1. CASE v = 1
      <4>1. links = <<>> /\ <<>> \in Seq(Links) /\ Len(<<>>) = 0
        BY <3>1 DEF LinksIn
      <4>2. MAX_LINKS \in Nat
        BY RecordAssumption
      <4> QED BY <4>1, <4>2
    <3>2. CASE v # 1
      <4>1. links = record.links /\ v > 1
        BY <3>2, <2>4 DEF LinksIn, VERSION
      <4> QED BY <4>1, <2>2, <2>4
    <3> QED BY <3>1, <3>2
  <2>6. DOMAIN rows = 1..Len(rows) /\ Len(rows) \in Nat
    BY <2>2
  <2>7. AnnouncedIn(record) \subseteq Slots
    <3>1. CAPACITY \in Nat /\ MAX_SHADES = CAPACITY
      BY RecordAssumption, ProvisionAssumption
    <3> QED BY <2>2, <2>4, <2>6, <3>1 DEF AnnouncedIn, Slots
  <2>8. ASSUME NEW r \in 1..Len(rows)
        PROVE  /\ read[r] \in RegistryRows /\ Fits(read[r].config)
               /\ read[r].config.address = rows[r].config.address
    <3> DEFINE entry == rows[r].config
               config == DecodeEntry(v, entry)
    <3>1. rows[r] \in Entries(record)
      BY <2>2
    <3>2. entry \in [address : Nat, kind : {row.config.kind : row \in ToSet(rows)},
               protocol : {row.config.protocol : row \in ToSet(rows)},
               up : Nat, down : Nat, upFrom : Sources, downFrom : Sources,
               lag : Nat, vent : Nat, close : Nat, confirmed : BOOLEAN] /\ rows[r].seed \in Nat
      BY <3>1 DEF Entries
    <3>3. /\ Usable(entry.address) /\ entry.kind \in Kinds /\ config.protocol \in Protocols
          /\ LiftTimes(entry) /\ CheckedBands(config)
      <4>1. EntryReads(v, entry)
        BY <1>2, <2>6 DEF TableReads
      <4> QED BY <4>1 DEF EntryReads
    <3> DEFINE radio == IF v < 2 THEN [entry EXCEPT !.protocol = "rts"] ELSE entry
               paired == IF v < 3 THEN [radio EXCEPT !.confirmed = TRUE] ELSE radio
    <3>4. config = Calibration(v, paired)
      BY DEF DecodeEntry
    <3> HIDE DEF entry, config
    <3> DEFINE K == {row.config.kind : row \in ToSet(rows)}
               P == {row.config.protocol : row \in ToSet(rows)} \cup {"rts"}
               Configured == [address : Nat, kind : K, protocol : P,
                         up : Nat, down : Nat, upFrom : Sources, downFrom : Sources,
                         lag : Nat, vent : Nat, close : Nat, confirmed : BOOLEAN]
    <3>5. entry \in Configured
      BY <3>2
    <3> HIDE DEF K, P
    <3>6. /\ radio \in Configured /\ radio.address = entry.address /\ radio.kind = entry.kind
          /\ radio.up = entry.up /\ radio.down = entry.down
      BY <3>5 DEF P
    <3> HIDE DEF radio
    <3>7. /\ paired \in Configured /\ paired.address = entry.address /\ paired.kind = entry.kind
          /\ paired.up = entry.up /\ paired.down = entry.down
      BY <3>6
    <3> HIDE DEF paired
    <3>8. \A ms : SourceOf(ms) \in Sources
      BY DEF SourceOf, Sources
    <3>9. STEP \in Nat
      BY RecordAssumption
    <3>10. \A k \in Nat : k * STEP \in Nat /\ Stepped(k * STEP)
      BY <3>9 DEF Stepped
    <3>11. Stepped(0)
      <4>1. 0 = 0 * STEP
        BY <3>9
      <4> QED BY <4>1 DEF Stepped
    <3>12. /\ config \in Configured /\ config.address = entry.address /\ config.kind = entry.kind
           /\ config.up = entry.up /\ config.down = entry.down
           /\ Stepped(config.lag) /\ Stepped(config.vent) /\ Stepped(config.close)
      <4>1. CASE v < 4
        <5>1. config = [paired EXCEPT !.upFrom = SourceOf(paired.up), !.downFrom = SourceOf(paired.down),
                                      !.lag = 0, !.vent = 0, !.close = 0]
          BY <3>4, <4>1 DEF Calibration
        <5> HIDE DEF Stepped
        <5> QED BY <3>7, <3>8, <3>11, <5>1
      <4>2. CASE ~(v < 4)
        <5>1. config = [paired EXCEPT !.lag = paired.lag * STEP, !.vent = paired.vent * STEP,
                                      !.close = paired.close * STEP]
          BY <3>4, <4>2 DEF Calibration
        <5>2. paired.lag \in Nat /\ paired.vent \in Nat /\ paired.close \in Nat
          BY <3>7
        <5>3. PICK a \in Nat, b \in Nat, c \in Nat :
                 /\ a = paired.lag * STEP /\ b = paired.vent * STEP /\ c = paired.close * STEP
                 /\ Stepped(a) /\ Stepped(b) /\ Stepped(c)
          BY <3>10, <5>2
        <5>4. config = [paired EXCEPT !.lag = a, !.vent = b, !.close = c]
          BY <5>1, <5>3
        <5> QED BY <3>7, <5>3, <5>4
      <4> QED BY <4>1, <4>2
    <3>13. config \in Configs
      BY <3>3, <3>12 DEF Configs
    <3>14. Fits(config)
      BY <3>3, <3>12 DEF Fits, LiftTimes
    <3>15. read[r] = Row(config, rows[r].seed)
      BY <2>6 DEF config, entry
    <3> HIDE DEF read
    <3>16. read[r].config = config /\ read[r] \in RegistryRows
      BY <3>2, <3>13, <3>15 DEF Row, RegistryRows
    <3> QED BY <3>12, <3>14, <3>16 DEF entry
  <2>9. read \in Seq(RegistryRows) /\ Len(read) = Len(rows)
    <3>1. read = [r \in 1..Len(rows) |-> read[r]] /\ DOMAIN read = 1..Len(rows)
      BY <2>6
    <3> HIDE DEF read
    <3>2. \A r \in 1..Len(rows) : read[r] \in RegistryRows
      BY <2>8
    <3>3. Len(rows) \in Nat
      BY <2>6
    <3> QED BY <3>1, <3>2, <3>3
  <2>10. table.rows = read /\ table.links = links /\ table.announced = AnnouncedIn(record)
    BY <2>3
  <2> HIDE DEF read
  <2>11. ASSUME NEW n \in 1..Len(links) PROVE LinkFits(table, n)
    <3>0. DOMAIN links = 1..Len(links) /\ links[n] \in Links
      BY <2>5
    <3>1. LinkReads(record, n)
      BY <1>2, <3>0 DEF TableReads
    <3> DEFINE before == {m \in 1..n - 1 : links[m].row = links[n].row}
    <3>2. /\ links[n].row < Len(rows) /\ Usable(links[n].address)
          /\ links[n].address # rows[links[n].row + 1].config.address
          /\ \A m \in before : links[m].address # links[n].address
          /\ Cardinality(before) < MAX_LINKED_REMOTES
      BY <3>1 DEF LinkReads
    <3>3. links[n].row \in Nat
      BY <3>0 DEF Links
    <3> HIDE DEF links, rows
    <3>4. links[n].row + 1 \in 1..Len(rows)
      BY <2>6, <3>2, <3>3
    <3>5. read[links[n].row + 1].config.address = rows[links[n].row + 1].config.address
      BY <2>8, <3>4
    <3> HIDE DEF table
    <3> QED BY <2>9, <2>10, <3>2, <3>5 DEF LinkFits
  <2>12. \A r, s \in 1..Len(rows) : r # s => rows[r].config.address # rows[s].config.address
    BY <1>2, <2>6 DEF TableReads
  <2> HIDE DEF table, rows, links
  <2>13. \A r, s \in 1..Len(rows) :
            r # s => read[r].config.address # read[s].config.address
    BY <2>8, <2>12
  <2>14. SoundTable(table)
    BY <2>3, <2>4, <2>5, <2>7, <2>8, <2>9, <2>10, <2>11, <2>13 DEF SoundTable, rows
  <2> QED BY <2>14 DEF table
<1> QED BY <1>1, <1>2

\* What the remotes of one shade obey.
ListFits(list, address) ==
    /\ Len(list) <= MAX_LINKED_REMOTES
    /\ \A n \in 1..Len(list) : Usable(list[n]) /\ list[n] # address
    /\ \A n, m \in 1..Len(list) : n # m => list[n] # list[m]

\* RegistryRows and lists a table can be written from.
Packable(rows, lists) ==
    /\ rows \in Seq(RegistryRows) /\ lists \in Seq(Seq(Nat))
    /\ Len(rows) <= CAPACITY /\ Len(lists) = Len(rows)
    /\ \A r \in 1..Len(rows) :
          Fits(rows[r].config) /\ ListFits(lists[r], rows[r].config.address)
    /\ \A r, s \in 1..Len(rows) :
          r # s => rows[r].config.address # rows[s].config.address
    /\ Len(Packed(lists)) <= MAX_LINKS

\* They make a sound table.
LEMMA PackedSound ==
    ASSUME NEW rows, NEW lists, NEW bits \in SUBSET Slots, Packable(rows, lists)
    PROVE  SoundTable([rows |-> rows, links |-> Packed(lists), announced |-> bits])
<1>0. lists \in Seq(Seq(Nat)) /\ rows \in Seq(RegistryRows)
  BY DEF Packable
<1> DEFINE links == Packed(lists)
           table == [rows |-> rows, links |-> links, announced |-> bits]
<1>1. links \in Seq(Links) /\ Len(links) \in Nat /\ DOMAIN links = 1..Len(links)
  BY <1>0, PackedIs
<1>2. PICK off : Spread(links, lists, off)
  BY <1>0, PackedIs
<1> HIDE DEF links
<1>3. \A k \in 1..Len(lists) :
         /\ off[k] \in Nat /\ Len(lists[k]) \in Nat
         /\ \A i \in 1..Len(lists[k]) : lists[k][i] \in Nat
  BY <1>0, <1>2, ListsAre DEF Spread
<1>8. Len(lists) = Len(rows) /\ Len(lists) \in Nat
  BY <1>0 DEF Packable
<1>4. ASSUME NEW n \in 1..Len(links) PROVE LinkFits(table, n)
  <2>1. PICK k \in 1..Len(lists) : /\ n - off[k] \in 1..Len(lists[k])
                                   /\ links[n] = [row |-> k - 1, address |-> lists[k][n - off[k]]]
    BY <1>2 DEF Spread
  <2>2. PICK o \in Nat, l \in Nat, i \in Nat :
           i \in 1..l /\ o = off[k] /\ l = Len(lists[k]) /\ n = o + i
    <3>1. PICK o \in Nat, l \in Nat : o = off[k] /\ l = Len(lists[k])
      BY <1>3
    <3>2. n - o \in 1..l /\ n = o + (n - o)
      BY <1>1, <2>1, <3>1
    <3> QED BY <3>1, <3>2, SMTT(60)
  <2>9. n = o + i /\ i \in 1..l /\ i - 1 \in Nat
    <3>1. i \in 1..l
      BY <2>2
    <3> QED BY <2>2, <3>1
  <2>3. /\ links[n].row = k - 1 /\ links[n].address = lists[k][i] /\ k - 1 \in Nat
        /\ (k - 1) + 1 = k /\ k - 1 < Len(rows)
    <3>1. n - off[k] = i
      BY <2>2
    <3> QED BY <1>8, <2>1, <3>1
  <2>4. ListFits(lists[k], rows[k].config.address)
    BY <1>8 DEF Packable
  <2>5. Usable(lists[k][i]) /\ lists[k][i] # rows[k].config.address
    BY <2>2, <2>4 DEF ListFits
  <2> DEFINE before == {m \in 1..n - 1 : links[m].row = k - 1}
  <2>6. ASSUME NEW m \in before
        PROVE  m - o \in 1..(i - 1) /\ links[m].address = lists[k][m - o]
    <3>1. m \in Nat /\ m \in 1..(n - 1) /\ m \in 1..Len(links) /\ links[m].row = k - 1
      BY <1>1
    <3>2. PICK j \in 1..Len(lists) : /\ m - off[j] \in 1..Len(lists[j])
                                     /\ links[m] = [row |-> j - 1, address |-> lists[j][m - off[j]]]
      BY <1>2, <3>1 DEF Spread
    <3>3. j = k
      <4>1. j - 1 = k - 1
        BY <3>1, <3>2
      <4> QED BY <4>1
    <3>4. m - o \in 1..l /\ links[m].address = lists[k][m - o]
      BY <2>2, <3>2, <3>3
    <3>6. m \in Nat /\ m < n /\ m - o \in 1..l
      BY <2>9, <3>1, <3>4
    <3>5. m - o \in 1..(i - 1)
      BY <2>9, <3>6
    <3> QED BY <3>4, <3>5
  <2>7. ASSUME NEW m \in 1..n - 1, links[m].row = k - 1 PROVE links[m].address # lists[k][i]
    <3>1. m - o \in 1..(i - 1) /\ links[m].address = lists[k][m - o]
      BY <2>6, <2>7
    <3>3. PICK d \in Nat : d = m - o /\ d \in 1..(i - 1)
      BY <3>1
    <3>4. i \in 1..l /\ d \in 1..(i - 1)
      BY <2>9, <3>3
    <3>5. d \in 1..l /\ d # i
      BY <3>4
    <3>2. m - o \in 1..l /\ m - o # i
      BY <3>3, <3>5
    <3> QED BY <2>2, <2>4, <3>1, <3>2 DEF ListFits
  <2>8. Cardinality(before) < MAX_LINKED_REMOTES
    <3>1. before \in SUBSET ((o + 1)..(o + (i - 1)))
      <4>1. ASSUME NEW m \in before PROVE m \in (o + 1)..(o + (i - 1))
        <5>1. m \in Nat /\ m - o \in 1..(i - 1)
          BY <1>1, <2>6
        <5> HIDE DEF before
        <5> QED BY <5>1, <2>9
      <4> HIDE DEF before
      <4> QED BY <4>1
    <3> DEFINE run == (o + 1)..(o + (i - 1))
    <3>2. IsFiniteSet(run) /\ Cardinality(run) = i - 1
      <4>1. o + 1 \in Int /\ o + (i - 1) \in Int
        BY <2>9
      <4>2. Cardinality(run) = IF o + 1 > o + (i - 1) THEN 0 ELSE (o + (i - 1)) - (o + 1) + 1
        BY <4>1, FS_Interval
      <4> HIDE DEF run
      <4>3. Cardinality(run) = i - 1
        BY <4>2, <2>9
      <4> QED BY <4>1, <4>3, FS_Interval DEF run
    <3> HIDE DEF before, run
    <3>5. before \in SUBSET run
      BY <3>1 DEF run
    <3>3. IsFiniteSet(before) /\ Cardinality(before) <= i - 1
      BY <3>2, <3>5, FS_Subset
    <3>4. Cardinality(before) \in Nat /\ l <= MAX_LINKED_REMOTES /\ MAX_LINKED_REMOTES \in Nat
      BY <2>2, <2>4, <3>3, FS_CardinalityType, RecordAssumption DEF ListFits
    <3> QED BY <2>9, <3>3, <3>4
  <2> QED BY <2>3, <2>5, <2>7, <2>8 DEF LinkFits
<1>5. table.rows = rows /\ table.links = links /\ table.announced = bits
  OBVIOUS
<1>6. Len(links) <= MAX_LINKS
  BY DEF Packable, links
<1> HIDE DEF table
<1>7. SoundTable(table)
  BY <1>0, <1>1, <1>4, <1>5, <1>6 DEF SoundTable, Packable, table
<1> QED BY <1>7 DEF table, links

\* Where the links of a row are in a table.
PlacesOf(table, row) == {k \in DOMAIN table.links : table.links[k].row = row}
PlaceOf(table, row, n) == Ascending(PlacesOf(table, row))[n]

\* The links of a row, read back, are remotes a shade may follow, each from a
\* place of its own.
LEMMA OwnList ==
    ASSUME NEW table, SoundTable(table), NEW row \in Nat
    PROVE  LET list == LinksOfRow(table, row)
           IN /\ list \in Seq(Nat)
              /\ row >= Len(table.rows) => list = <<>>
              /\ row < Len(table.rows) => ListFits(list, table.rows[row + 1].config.address)
              /\ \A n \in 1..Len(list) :
                    /\ PlaceOf(table, row, n) \in 1..Len(table.links)
                    /\ table.links[PlaceOf(table, row, n)].row = row
              /\ \A n, m \in 1..Len(list) :
                    n < m => PlaceOf(table, row, n) < PlaceOf(table, row, m)
<1> DEFINE links == table.links
           own == PlacesOf(table, row)
           list == LinksOfRow(table, row)
           N == Cardinality(own)
           at == Ascending(own)
<1>1. links \in Seq(Links) /\ DOMAIN links = 1..Len(links) /\ Len(links) \in Nat
  <2>1. links \in Seq(Links)
    BY DEF SoundTable
  <2> HIDE DEF links
  <2> QED BY <2>1
<1>2. own \in SUBSET DOMAIN links
  BY DEF PlacesOf
<1> DEFINE kept == Kept(links, own)
<1>3. /\ N \in Nat /\ DOMAIN at = 1..N /\ DOMAIN kept = 1..N
      /\ \A n \in 1..N : at[n] \in own /\ kept[n] = links[at[n]]
      /\ \A p \in own : \E n \in 1..N : at[n] = p
      /\ \A n, m \in 1..N : n < m => at[n] < at[m]
  <2> HIDE DEF links, own
  <2>1. links \in Seq(Links) /\ own \in SUBSET DOMAIN links
    BY <1>1, <1>2
  <2>2. /\ N \in Nat /\ DOMAIN at = 1..N /\ DOMAIN kept = 1..N
        /\ \A n \in 1..N : at[n] \in own /\ kept[n] = links[at[n]]
    BY <2>1, KeptIs
  <2>3. /\ \A p \in own : \E n \in 1..N : at[n] = p
        /\ \A n, m \in 1..N : n < m => at[n] < at[m]
    BY <2>1, KeptIs
  <2> QED BY <2>2, <2>3
<1>4. list = [n \in DOMAIN kept |-> kept[n].address]
  BY DEF LinksOfRow, PlacesOf
<1>5. \A k \in own : k \in 1..Len(links) /\ links[k].row = row
  BY <1>1 DEF PlacesOf
<1>6. \A n \in 1..N : PlaceOf(table, row, n) = at[n]
  BY DEF PlaceOf
<1>7. \A k \in 1..Len(links) : links[k] = [row |-> links[k].row, address |-> links[k].address]
                               /\ links[k].address \in Nat /\ links[k].row \in Nat
  <2>1. \A link \in Links : link = [row |-> link.row, address |-> link.address]
                            /\ link.address \in Nat /\ link.row \in Nat
    BY DEF Links
  <2> HIDE DEF links
  <2>2. \A k \in 1..Len(links) : links[k] \in Links
    BY <1>1
  <2> QED BY <2>1, <2>2
<1> HIDE DEF kept, at, N, list
<1>8. list \in Seq(Nat) /\ Len(list) = N /\ \A n \in 1..N : list[n] = links[at[n]].address
  <2>1. list = [n \in 1..N |-> links[at[n]].address]
    BY <1>3, <1>4
  <2>2. \A n \in 1..N : links[at[n]].address \in Nat
    BY <1>3, <1>5, <1>7
  <2> QED BY <1>3, <2>1, <2>2
<1>9. ASSUME NEW n \in 1..N
      PROVE  /\ row < Len(table.rows) /\ Usable(list[n])
             /\ list[n] # table.rows[row + 1].config.address
             /\ \A m \in 1..N : m < n => list[m] # list[n]
  <2>1. at[n] \in 1..Len(links) /\ links[at[n]].row = row
    BY <1>3, <1>5
  <2>2. LinkFits(table, at[n])
    BY <2>1 DEF SoundTable
  <2>3. ASSUME NEW m \in 1..N, m < n PROVE list[m] # list[n]
    <3>1. at[m] \in 1..Len(links) /\ links[at[m]].row = row /\ at[m] < at[n]
      BY <1>3, <1>5, <2>3
    <3>2. at[m] \in 1..(at[n] - 1)
      BY <1>1, <2>1, <3>1
    <3>3. links[at[m]].address # links[at[n]].address
      BY <2>1, <2>2, <3>1, <3>2 DEF LinkFits
    <3> QED BY <1>8, <3>3
  <2> QED BY <1>8, <2>1, <2>2, <2>3 DEF LinkFits
<1>10. N <= MAX_LINKED_REMOTES
  <2>1. CASE N = 0
    BY <2>1, RecordAssumption
  <2>2. CASE N # 0
    <3> DEFINE last == at[N]
               before == {m \in 1..last - 1 : links[m].row = links[last].row}
    <3>1. N \in 1..N
      BY <1>3, <2>2
    <3>2. last \in 1..Len(links) /\ links[last].row = row
      BY <1>3, <1>5, <3>1, SMTT(60)
    <3>3. Cardinality(before) < MAX_LINKED_REMOTES
      <4>1. LinkFits(table, last)
        BY <3>2 DEF SoundTable
      <4> QED BY <4>1 DEF LinkFits
    <3>4. ASSUME NEW k \in own PROVE k \in before \cup {last}
      <4>1. PICK n \in 1..N : at[n] = k
        BY <1>3
      <4>2. n < N => at[n] < at[N]
        BY <1>3, <3>1
      <4>3. n = N \/ n < N
        BY <1>3
      <4>4. k \in 1..Len(links) /\ links[k].row = row
        BY <1>5
      <4>5. k = last \/ k < last
        BY <4>1, <4>2, <4>3
      <4>6. k # last => k \in 1..last - 1
        BY <3>2, <4>4, <4>5, <1>1
      <4> QED BY <3>2, <4>4, <4>6
    <3>5. IsFiniteSet(before) /\ Cardinality(before) \in Nat
      <4>1. before \in SUBSET (1..last - 1) /\ last - 1 \in Int
        BY <1>1, <3>2
      <4>2. IsFiniteSet(1..last - 1)
        BY <4>1, FS_Interval
      <4> HIDE DEF before, last
      <4> QED BY <4>1, <4>2, FS_Subset, FS_CardinalityType
    <3> HIDE DEF before, last
    <3>6. /\ IsFiniteSet(before \cup {last})
          /\ Cardinality(before \cup {last}) <= Cardinality(before) + 1
      BY <3>5, FS_AddElement
    <3>7. own \in SUBSET (before \cup {last})
      BY <3>4
    <3>8. Cardinality(own) <= Cardinality(before \cup {last}) /\ Cardinality(before \cup {last}) \in Nat
      BY <3>6, <3>7, FS_Subset, FS_CardinalityType
    <3>9. MAX_LINKED_REMOTES \in Nat
      BY RecordAssumption
    <3> QED BY <1>3, <3>3, <3>5, <3>6, <3>8, <3>9 DEF N
  <2> QED BY <2>1, <2>2
<1>11. \A n, m \in 1..N : n # m => list[n] # list[m]
  <2>1. \A n, m \in 1..N : n # m => n < m \/ m < n
    BY <1>3
  <2> QED BY <1>9, <2>1
<1>12. row >= Len(table.rows) => list = <<>>
  <2>1. ASSUME row >= Len(table.rows) PROVE list = <<>>
    <3>1. Len(table.rows) \in Nat
      <4>1. table.rows \in Seq(RegistryRows)
        BY DEF SoundTable
      <4> QED BY <4>1
    <3>2. \A n \in 1..N : FALSE
      BY <1>9, <2>1, <3>1
    <3>3. N = 0
      BY <1>3, <3>2
    <3> QED BY <1>8, <3>3
  <2> QED BY <2>1
<1>13. row < Len(table.rows) => ListFits(list, table.rows[row + 1].config.address)
  BY <1>8, <1>9, <1>10, <1>11 DEF ListFits
<1>14. \A n \in 1..Len(list) :
          PlaceOf(table, row, n) \in 1..Len(table.links)
          /\ table.links[PlaceOf(table, row, n)].row = row
  <2>1. \A n \in 1..N : at[n] \in 1..Len(links) /\ links[at[n]].row = row
    BY <1>3, <1>5
  <2>2. \A n \in 1..N : PlaceOf(table, row, n) \in 1..Len(links)
                        /\ links[PlaceOf(table, row, n)].row = row
    BY <1>6, <2>1
  <2> QED BY <1>8, <2>2
<1>15. \A n, m \in 1..Len(list) : n < m => PlaceOf(table, row, n) < PlaceOf(table, row, m)
  BY <1>3, <1>6, <1>8
<1>16. list \in Seq(Nat)
  BY <1>8
<1> QED BY <1>12, <1>13, <1>14, <1>15, <1>16, Zenon DEF list

-----------------------------------------------------------------------------
(* Registries                                                              *)

\* The links of a registry, and what a registry obeys.
PoolOf(held, lists) ==
    {link \in Slots \X (1..MAX_LINKED_REMOTES) :
        held[link[1]] # None /\ link[2] \in DOMAIN lists[link[1]]}

SoundRegistry(held, lists) ==
    /\ held \in [Slots -> RegistryRows \cup {None}]
    /\ lists \in [Slots -> Seq(Nat)]
    /\ \A id \in Slots : held[id] # None => /\ Fits(held[id].config)
                                            /\ ListFits(lists[id], held[id].config.address)
    /\ \A id \in Slots : held[id] = None => lists[id] = <<>>
    /\ \A id, other \in Slots :
          id # other /\ held[id] # None /\ held[other] # None =>
              held[id].config.address # held[other].config.address
    /\ Cardinality(PoolOf(held, lists)) <= MAX_LINKS

\* There is a slot for every shade a table can hold, and they are finitely many.
LEMMA SlotsAre == /\ MAX_SHADES \in Nat /\ MAX_SHADES = CAPACITY /\ Slots \in SUBSET Nat
                  /\ IsFiniteSet(Slots) /\ Cardinality(Slots) = CAPACITY
<1>1. MAX_SHADES \in Nat /\ MAX_SHADES = CAPACITY
  BY RecordAssumption, ProvisionAssumption
<1>2. 0 \in Int /\ MAX_SHADES - 1 \in Int
  BY <1>1
<1>3. /\ IsFiniteSet(0..MAX_SHADES - 1)
      /\ Cardinality(0..MAX_SHADES - 1) = IF 0 > MAX_SHADES - 1 THEN 0 ELSE (MAX_SHADES - 1) - 0 + 1
  BY <1>2, FS_Interval
<1>4. Cardinality(0..MAX_SHADES - 1) = CAPACITY
  BY <1>1, <1>3
<1> QED BY <1>1, <1>3, <1>4 DEF Slots

\* No row is None.
LEMMA RowIsSome == \A row \in RegistryRows : row # None
BY ProvisionAssumption DEF RegistryRows

\* The pool is finite.
LEMMA PoolIs ==
    ASSUME NEW held, NEW lists
    PROVE  IsFiniteSet(PoolOf(held, lists)) /\ Cardinality(PoolOf(held, lists)) \in Nat
<1>1. IsFiniteSet(1..MAX_LINKED_REMOTES)
  BY RecordAssumption, FS_Interval
<1>2. IsFiniteSet(Slots \X (1..MAX_LINKED_REMOTES))
  BY <1>1, SlotsAre, FS_Product
<1>3. PoolOf(held, lists) \in SUBSET (Slots \X (1..MAX_LINKED_REMOTES))
  BY DEF PoolOf
<1> QED BY <1>2, <1>3, FS_Subset, FS_CardinalityType

\* What a boot makes of a sound table.
BootRows(table) ==
    [id \in Slots |-> IF id + 1 \in DOMAIN table.rows THEN table.rows[id + 1] ELSE None]
BootLists(table) == [id \in Slots |-> LinksOfRow(table, id)]

\* What a boot builds from a sound table is a sound registry: each row in the slot
\* of its place, with the remotes whose links name it.
LEMMA BootSound ==
    ASSUME NEW table, SoundTable(table)
    PROVE  SoundRegistry(BootRows(table), BootLists(table))
<1> DEFINE rows == table.rows
           links == table.links
           held == BootRows(table)
           lists == BootLists(table)
<1>1. rows \in Seq(RegistryRows) /\ links \in Seq(Links) /\ Len(links) <= MAX_LINKS
  BY DEF SoundTable
<1>2. /\ DOMAIN rows = 1..Len(rows) /\ Len(rows) \in Nat /\ Len(links) \in Nat
      /\ \A r \in 1..Len(rows) : rows[r] \in RegistryRows
  <2> HIDE DEF rows, links
  <2> QED BY <1>1
<1>3. ASSUME NEW id \in Slots
      PROVE  /\ id \in Nat
             /\ held[id] # None <=> id < Len(rows)
             /\ held[id] # None => /\ held[id] = rows[id + 1] /\ held[id] \in RegistryRows
                                   /\ id + 1 \in 1..Len(rows)
             /\ held[id] \in RegistryRows \cup {None}
             /\ lists[id] = LinksOfRow(table, id)
  <2>1. id \in Nat
    BY SlotsAre
  <2>2. id + 1 \in 1..Len(rows) <=> id < Len(rows)
    BY <1>2, <2>1
  <2>3. held[id] = IF id + 1 \in 1..Len(rows) THEN rows[id + 1] ELSE None
    BY <1>2 DEF BootRows
  <2>4. lists[id] = LinksOfRow(table, id)
    BY DEF BootLists
  <2> HIDE DEF held, lists, rows
  <2>5. id + 1 \in 1..Len(rows) => rows[id + 1] \in RegistryRows /\ rows[id + 1] # None
    BY <1>2, RowIsSome
  <2> QED BY <2>1, <2>2, <2>3, <2>4, <2>5
<1>4. DOMAIN held = Slots /\ DOMAIN lists = Slots /\ held = [id \in Slots |-> held[id]]
      /\ lists = [id \in Slots |-> lists[id]]
  BY DEF BootRows, BootLists
<1> HIDE DEF held, lists
<1>5. held \in [Slots -> RegistryRows \cup {None}]
  BY <1>3, <1>4
<1>6. ASSUME NEW id \in Slots
      PROVE  /\ lists[id] \in Seq(Nat)
             /\ held[id] # None => ListFits(lists[id], held[id].config.address)
             /\ held[id] = None => lists[id] = <<>>
             /\ \A n \in 1..Len(lists[id]) : /\ PlaceOf(table, id, n) \in 1..Len(links)
                                             /\ links[PlaceOf(table, id, n)].row = id
             /\ \A n, m \in 1..Len(lists[id]) :
                   n < m => PlaceOf(table, id, n) < PlaceOf(table, id, m)
  <2>1. id \in Nat /\ (held[id] # None <=> id < Len(rows)) /\ lists[id] = LinksOfRow(table, id)
        /\ (held[id] # None => held[id] = rows[id + 1])
    BY <1>3
  <2>2. id >= Len(rows) <=> ~(id < Len(rows))
    BY <1>2, <2>1
  <2> QED BY <2>1, <2>2, OwnList
<1>7. lists \in [Slots -> Seq(Nat)]
  BY <1>4, <1>6
<1>8. ASSUME NEW id \in Slots, held[id] # None PROVE Fits(held[id].config)
  BY <1>3, <1>8 DEF SoundTable
<1>9. ASSUME NEW id \in Slots, NEW other \in Slots,
             id # other, held[id] # None, held[other] # None
      PROVE  held[id].config.address # held[other].config.address
  <2>1. /\ id + 1 \in 1..Len(rows) /\ other + 1 \in 1..Len(rows)
        /\ held[id] = rows[id + 1] /\ held[other] = rows[other + 1]
    BY <1>3, <1>9
  <2>2. id + 1 # other + 1
    BY <1>3, <1>9
  <2> QED BY <2>1, <2>2 DEF SoundTable
<1>10. Cardinality(PoolOf(held, lists)) <= MAX_LINKS
  <2> DEFINE pool == PoolOf(held, lists)
             place == [link \in pool |-> PlaceOf(table, link[1], link[2])]
  <2>1. ASSUME NEW link \in pool
        PROVE  /\ link[1] \in Slots /\ link[2] \in 1..Len(lists[link[1]]) /\ link = <<link[1], link[2]>>
               /\ place[link] \in 1..Len(links) /\ links[place[link]].row = link[1]
               /\ place[link] = PlaceOf(table, link[1], link[2])
    <3>1. link[1] \in Slots /\ link[2] \in DOMAIN lists[link[1]] /\ link = <<link[1], link[2]>>
      BY DEF PoolOf
    <3>2. DOMAIN lists[link[1]] = 1..Len(lists[link[1]])
      <4>1. \A list \in Seq(Nat) : DOMAIN list = 1..Len(list)
        OBVIOUS
      <4> QED BY <1>6, <3>1, <4>1
    <3>3. place[link] = PlaceOf(table, link[1], link[2])
      OBVIOUS
    <3> HIDE DEF place, pool
    <3> QED BY <1>6, <3>1, <3>2, <3>3
  <2>2. place \in [pool -> 1..Len(links)]
    BY <2>1
  <2>3. ASSUME NEW a \in pool, NEW b \in pool, place[a] = place[b] PROVE a = b
    <3> HIDE DEF place, pool
    <3>1. a[1] = b[1]
      BY <2>1, <2>3
    <3>2. a[2] \in 1..Len(lists[a[1]]) /\ b[2] \in 1..Len(lists[a[1]]) /\ Len(lists[a[1]]) \in Nat
      <4>1. \A list \in Seq(Nat) : Len(list) \in Nat
        OBVIOUS
      <4> QED BY <1>6, <2>1, <3>1, <4>1
    <3>3. ~(a[2] < b[2]) /\ ~(b[2] < a[2])
      <4>1. a[1] \in Slots /\ place[a] \in 1..Len(links)
        BY <2>1
      <4>2. ~(place[a] < place[b]) /\ ~(place[b] < place[a])
        BY <1>2, <2>3, <4>1
      <4>3. place[a] = PlaceOf(table, a[1], a[2]) /\ place[b] = PlaceOf(table, a[1], b[2])
        BY <2>1, <3>1
      <4> QED BY <1>6, <3>2, <4>1, <4>2, <4>3, SMTT(60)
    <3>4. a[2] = b[2]
      BY <3>2, <3>3
    <3> QED BY <2>1, <3>1, <3>4
  <2> HIDE DEF place, pool
  <2>4. place \in Injection(pool, 1..Len(links))
    BY <2>2, <2>3 DEF Injection, IsInjective
  <2>5. IsFiniteSet(1..Len(links)) /\ Cardinality(1..Len(links)) = Len(links)
    <3>1. \A w \in Nat : IsFiniteSet(1..w) /\ Cardinality(1..w) = w
      BY FS_Interval
    <3> QED BY <1>2, <3>1
  <2>6. Cardinality(pool) <= Len(links)
    BY <2>4, <2>5, FS_Injection
  <2>7. Cardinality(pool) \in Nat /\ MAX_LINKS \in Nat
    BY PoolIs, RecordAssumption DEF pool
  <2> QED BY <1>1, <1>2, <2>6, <2>7 DEF pool
<1>11. SoundRegistry(held, lists)
  BY <1>5, <1>6, <1>7, <1>8, <1>9, <1>10 DEF SoundRegistry
<1> QED BY <1>11 DEF held, lists

\* What a record is written from: the rows of the slots in use, in order, and
\* their remotes.
PackedRows == [r \in DOMAIN Order |-> registry[Order[r]]]
PackedLists == [r \in DOMAIN Order |-> linked[Order[r]]]
Written == [rows |-> PackedRows, links |-> Packed(PackedLists), announced |-> announced]

\* What a record is written from, of a sound registry: rows and lists that a table
\* can be written from.
LEMMA PackedIsPackable ==
    ASSUME SoundRegistry(registry, linked)
    PROVE  /\ Packable(PackedRows, PackedLists)
           /\ Record = Encode(PackedRows, Packed(PackedLists), announced)
           /\ DOMAIN Order = 1..Len(PackedLists)
<1> DEFINE order == Order
           N == Cardinality(Live)
           rows == PackedRows
           lists == PackedLists
           links == Packed(lists)
<1>1. Live \in SUBSET Slots /\ Live \in SUBSET Nat /\ IsFiniteSet(Live)
  <2>1. Live \in SUBSET Slots
    BY DEF Live
  <2> QED BY <2>1, SlotsAre, FS_Subset
<1>2. N \in Nat /\ N <= CAPACITY
  BY <1>1, SlotsAre, FS_Subset, FS_CardinalityType
<1>3. /\ order \in Seq(Live) /\ Len(order) = N
      /\ \A n, m \in 1..N : n < m => order[n] < order[m]
  BY <1>1, AscendingIs DEF Order
<1> HIDE DEF order, N
<1>4. DOMAIN order = 1..N /\ \A n \in 1..N : order[n] \in Live /\ order[n] \in Slots
                                             /\ registry[order[n]] # None
  <2>1. \A id \in Live : id \in Slots /\ registry[id] # None
    BY DEF Live
  <2>2. DOMAIN order = 1..N /\ \A n \in 1..N : order[n] \in Live
    BY <1>2, <1>3
  <2> QED BY <2>1, <2>2
<1>5. rows = [r \in 1..N |-> registry[order[r]]] /\ lists = [r \in 1..N |-> linked[order[r]]]
  BY <1>4 DEF PackedRows, PackedLists, order
<1> HIDE DEF rows, lists
<1>6. \A id \in Slots : /\ registry[id] \in RegistryRows \cup {None} /\ linked[id] \in Seq(Nat)
                        /\ registry[id] # None => /\ Fits(registry[id].config)
                                                  /\ ListFits(linked[id], registry[id].config.address)
  BY DEF SoundRegistry
<1>7. \A n \in 1..N : registry[order[n]] \in RegistryRows /\ linked[order[n]] \in Seq(Nat)
  BY <1>4, <1>6
<1>8. rows \in Seq(RegistryRows) /\ lists \in Seq(Seq(Nat)) /\ Len(rows) = N /\ Len(lists) = N
  <2>1. rows \in [1..N -> RegistryRows] /\ lists \in [1..N -> Seq(Nat)]
    BY <1>5, <1>7
  <2>2. \A S : \A f \in [1..N -> S] : f \in Seq(S) /\ Len(f) = N
    BY <1>2
  <2> QED BY <2>1, <2>2
<1>9. \A r \in 1..N : rows[r] = registry[order[r]] /\ lists[r] = linked[order[r]]
  BY <1>5
<1>10. \A n, m \in 1..N : n # m => order[n] # order[m]
  <2>1. \A n, m \in 1..N : n # m => n < m \/ m < n
    BY <1>2
  <2>2. \A n \in 1..N : order[n] \in Nat
    BY <1>1, <1>4
  <2>3. \A a, b \in Nat : a < b \/ b < a => a # b
    OBVIOUS
  <2> QED BY <1>3, <2>1, <2>2, <2>3
<1>11. \A r, s \in 1..N : r # s => rows[r].config.address # rows[s].config.address
  <2>1. \A id, other \in Slots :
          id # other /\ registry[id] # None /\ registry[other] # None =>
              registry[id].config.address # registry[other].config.address
    BY DEF SoundRegistry
  <2> QED BY <1>4, <1>9, <1>10, <2>1
<1>12. Len(links) <= MAX_LINKS /\ Len(links) \in Nat
  <2> DEFINE pool == PoolOf(registry, linked)
  <2>1. links \in Seq(Links) /\ Len(links) \in Nat
    BY <1>8, PackedIs
  <2>2. PICK off : Spread(links, lists, off)
    BY <1>8, PackedIs
  <2> HIDE DEF links
  <2>3. ASSUME NEW n \in 1..Len(links)
        PROVE  \E k \in 1..N : n - off[k] \in 1..Len(lists[k]) /\ links[n].row = k - 1
    <3>1. PICK k \in 1..Len(lists) :
             /\ n - off[k] \in 1..Len(lists[k])
             /\ links[n] = [row |-> k - 1, address |-> lists[k][n - off[k]]]
      BY <2>2 DEF Spread
    <3>2. links[n].row = k - 1
      BY <3>1
    <3> QED BY <1>8, <3>1, <3>2
  <2> DEFINE rowOf(n) == CHOOSE k \in 1..N : n - off[k] \in 1..Len(lists[k]) /\ links[n].row = k - 1
             put == [n \in 1..Len(links) |-> <<order[rowOf(n)], n - off[rowOf(n)]>>]
  <2>4. ASSUME NEW n \in 1..Len(links)
        PROVE  /\ rowOf(n) \in 1..N /\ n - off[rowOf(n)] \in 1..Len(lists[rowOf(n)])
               /\ put[n] = <<order[rowOf(n)], n - off[rowOf(n)]>>
    BY <2>3
  <2> HIDE DEF rowOf
  <2>5. ASSUME NEW n \in 1..Len(links) PROVE put[n] \in pool
    <3> DEFINE k == rowOf(n)
               id == order[k]
               i == n - off[k]
    <3>1. /\ k \in 1..N /\ i \in 1..Len(lists[k]) /\ put[n] = <<id, i>>
          /\ lists[k] = linked[id] /\ id \in Slots /\ registry[id] # None
      BY <2>4, <1>4, <1>9
    <3> HIDE DEF k, id, i, put
    <3>2. /\ linked[id] \in Seq(Nat) /\ ListFits(linked[id], registry[id].config.address)
      BY <1>6, <3>1
    <3>3. Len(linked[id]) \in Nat /\ DOMAIN linked[id] = 1..Len(linked[id])
          /\ Len(linked[id]) <= MAX_LINKED_REMOTES
      <4>1. \A list \in Seq(Nat) : Len(list) \in Nat /\ DOMAIN list = 1..Len(list)
        OBVIOUS
      <4> QED BY <3>2, <4>1 DEF ListFits
    <3>4. i \in 1..MAX_LINKED_REMOTES /\ i \in DOMAIN linked[id]
      BY <3>1, <3>3, RecordAssumption
    <3> QED BY <3>1, <3>4 DEF PoolOf
  <2>6. ASSUME NEW n \in 1..Len(links), NEW m \in 1..Len(links), put[n] = put[m] PROVE n = m
    <3>1. rowOf(n) \in 1..N /\ rowOf(m) \in 1..N /\ order[rowOf(n)] = order[rowOf(m)]
          /\ n - off[rowOf(n)] = m - off[rowOf(m)]
      BY <2>4, <2>6
    <3>2. rowOf(n) = rowOf(m)
      BY <1>10, <3>1
    <3>3. off[rowOf(n)] \in Nat /\ n \in Nat /\ m \in Nat
      BY <1>8, <2>1, <2>2, <3>1 DEF Spread
    <3> QED BY <3>1, <3>2, <3>3
  <2>7. put \in [1..Len(links) -> pool]
    BY <2>5
  <2> HIDE DEF put, pool
  <2>8. put \in Injection(1..Len(links), pool)
    BY <2>6, <2>7 DEF Injection, IsInjective
  <2>9. IsFiniteSet(pool) /\ Cardinality(pool) \in Nat /\ Cardinality(pool) <= MAX_LINKS
    BY PoolIs DEF pool, SoundRegistry
  <2>10. Cardinality(1..Len(links)) <= Cardinality(pool)
    BY <2>8, <2>9, FS_Injection
  <2>11. Cardinality(1..Len(links)) = Len(links)
    <3>1. \A w \in Nat : Cardinality(1..w) = w
      BY FS_Interval
    <3> QED BY <2>1, <3>1
  <2>12. MAX_LINKS \in Nat
    BY RecordAssumption
  <2>13. Len(links) <= MAX_LINKS
    BY <2>1, <2>9, <2>10, <2>11, <2>12
  <2> QED BY <2>1, <2>13 DEF links
<1>13. Packable(rows, lists)
  <2>1. \A r \in 1..N : Fits(rows[r].config) /\ ListFits(lists[r], rows[r].config.address)
    BY <1>4, <1>6, <1>9
  <2> QED BY <1>2, <1>8, <1>11, <1>12, <2>1 DEF Packable
<1>14. Record = Encode(rows, links, announced)
  <2>1. PackedLinks(order) = links
    BY DEF PackedLinks, PackedLists, order, lists
  <2>2. Record = Encode([r \in DOMAIN order |-> registry[order[r]]],
                        IF Len(links) > MAX_LINKS THEN SubSeq(links, 1, MAX_LINKS) ELSE links,
                        announced)
    BY <2>1 DEF Record, order
  <2>3. rows = [r \in DOMAIN order |-> registry[order[r]]]
    BY <1>4, <1>5
  <2>4. ~(Len(links) > MAX_LINKS)
    BY <1>12, RecordAssumption
  <2> HIDE DEF links
  <2> QED BY <2>2, <2>3, <2>4
<1> QED BY <1>4, <1>8, <1>13, <1>14 DEF rows, lists, order

\* The record is one the next boot reads, and what it reads is the registry.
LEMMA RecordRead ==
    ASSUME SoundRegistry(registry, linked), announced \in SUBSET Slots
    PROVE  /\ Record # None /\ TableReads(Record) /\ LoadTable(Record) = Written
           /\ SoundTable(Written)
<1>1. Packable(PackedRows, PackedLists) /\ Record = Encode(PackedRows, Packed(PackedLists), announced)
  BY PackedIsPackable
<1>2. SoundTable(Written)
  BY <1>1, PackedSound DEF Written
<1>3. Record = Encode(Written.rows, Written.links, Written.announced)
  BY <1>1 DEF Written
<1> QED BY <1>2, <1>3, WrittenReads

\* So a boot of it restores what was written.
LEMMA RestoresWritten ==
    ASSUME SoundRegistry(registry, linked), announced \in SUBSET Slots
    PROVE  BootRestores
<1>1. LoadTable(Record) = Written
  BY RecordRead
<1>2. Written.rows = PackedRows /\ Written.links = Packed(PackedLists) /\ Written.announced = announced
  BY DEF Written
<1>3. PackedLists \in Seq(Seq(Nat)) /\ DOMAIN Order = 1..Len(PackedLists)
  BY PackedIsPackable DEF Packable
<1>4. \A r \in 1..Len(PackedLists) : LinksOfRow(Written, r - 1) = PackedLists[r]
  BY <1>2, <1>3, OwnLinks
<1>5. \A r \in DOMAIN Order : PackedLists[r] = linked[Order[r]]
  BY DEF PackedLists
<1> QED BY <1>1, <1>2, <1>3, <1>4, <1>5 DEF BootRestores, PackedRows

-----------------------------------------------------------------------------
(* Imports                                                                 *)

\* What the parser makes of a file.
ShadeEntries(file) ==
    [id : Nat, address : Nat, kind : {shade.kind : shade \in ToSet(file.shades)},
     protocol : {shade.protocol : shade \in ToSet(file.shades)},
     up : Nat, down : Nat, links : Seq(Nat), room : Nat, last : Nat]
GroupEntries == [id : Nat, address : Nat, members : Seq(Nat)]
MigratedShades(file) ==
    [id : Nat, address : Nat, kind : {shade.kind : shade \in ToSet(file.shades)},
     protocol : {shade.protocol : shade \in ToSet(file.shades)},
     up : Nat, down : Nat, room : Nat, next : Nat, links : Seq(Nat)]
MigratedGroups == [id : Nat, address : Nat, members : SUBSET Nat]

\* What is parsed of a file are sequences of numbers, shades and groups.
LEMMA ParsedAre ==
    ASSUME NEW backup \in Backups
    PROVE  /\ ParsedRooms(backup) \in Seq(Nat)
           /\ ParsedShades(backup) \in Seq(MigratedShades(backup))
           /\ ParsedGroups(backup) \in Seq(MigratedGroups)
<1>1. /\ backup.rooms \in Seq(Nat) /\ backup.shades \in Seq(ShadeEntries(backup))
      /\ backup.groups \in Seq(GroupEntries) /\ backup.version \in Nat
  <2>1. backup \in Files(backup)
    BY ProvisionAssumption
  <2> QED BY <2>1 DEF Files, ShadeEntries, GroupEntries
<1>2. ASSUME NEW S, NEW s \in Seq(S), NEW places \in SUBSET DOMAIN s
      PROVE  /\ Kept(s, places) \in Seq(S) /\ Len(Kept(s, places)) \in Nat
             /\ DOMAIN Kept(s, places) = 1..Len(Kept(s, places))
             /\ \A n \in 1..Len(Kept(s, places)) : Kept(s, places)[n] \in S
  <2>1. Kept(s, places) \in Seq(S)
    BY KeptIs
  <2>2. \A list \in Seq(S) : Len(list) \in Nat /\ DOMAIN list = 1..Len(list)
                             /\ \A n \in 1..Len(list) : list[n] \in S
    OBVIOUS
  <2> QED BY <2>1, <2>2
<1>3. ParsedRooms(backup) \in Seq(Nat)
  <2>1. {r \in DOMAIN backup.rooms : backup.rooms[r] # 0} \in SUBSET DOMAIN backup.rooms
    OBVIOUS
  <2> QED BY <1>1, <1>2, <2>1 DEF ParsedRooms
<1>4. ASSUME NEW S, NEW s \in Seq(S)
      PROVE  /\ Len(Filled(s)) \in Nat /\ DOMAIN Filled(s) = 1..Len(Filled(s))
             /\ \A n \in 1..Len(Filled(s)) : Filled(s)[n] \in S
  <2> DEFINE places == {n \in DOMAIN s : s[n].id # 255}
  <2>1. places \in SUBSET DOMAIN s /\ Filled(s) = Kept(s, places)
    BY DEF Filled
  <2> HIDE DEF places
  <2> QED BY <1>2, <2>1
<1>5. ASSUME NEW shade \in ShadeEntries(backup) PROVE Migrated(shade) \in MigratedShades(backup)
  <2> DEFINE links == Kept(shade.links, {n \in DOMAIN shade.links : shade.links[n] # 0})
             next == NextCode(shade.last)
  <2>1. shade.links \in Seq(Nat) /\ shade.last \in Nat
    BY DEF ShadeEntries
  <2>2. {n \in DOMAIN shade.links : shade.links[n] # 0} \in SUBSET DOMAIN shade.links
    OBVIOUS
  <2>3. links \in Seq(Nat)
    BY <1>2, <2>1, <2>2
  <2>4. next \in Nat
    <3>1. CODES \in Nat \ {0}
      BY ImportAssumption
    <3>2. \A a \in Nat : (a + 1) % CODES \in Nat
      BY <3>1
    <3> QED BY <2>1, <3>2 DEF NextCode
  <2> HIDE DEF links, next
  <2>5. Migrated(shade) =
          [id |-> shade.id, address |-> shade.address, kind |-> shade.kind,
           protocol |-> shade.protocol, up |-> shade.up, down |-> shade.down,
           room |-> shade.room, next |-> next, links |-> links]
    BY DEF Migrated, links, next
  <2> QED BY <2>3, <2>4, <2>5 DEF ShadeEntries, MigratedShades
<1>6. ASSUME NEW group \in GroupEntries PROVE MigratedGroup(group) \in MigratedGroups
  <2>1. group.members \in Seq(Nat)
    BY DEF GroupEntries
  <2>2. \A list \in Seq(Nat) : \A n \in DOMAIN list : list[n] \in Nat
    OBVIOUS
  <2>3. ToSet(group.members) \ {0} \in SUBSET Nat
    BY <2>1, <2>2 DEF ToSet
  <2> QED BY <2>3 DEF GroupEntries, MigratedGroups, MigratedGroup
<1>9. ASSUME NEW S, NEW w \in Nat, NEW f \in [1..w -> S] PROVE f \in Seq(S)
  OBVIOUS
<1>7. ParsedShades(backup) \in Seq(MigratedShades(backup))
  <2> DEFINE filled == Filled(backup.shades)
             entries == [n \in DOMAIN filled |-> Migrated(filled[n])]
  <2>1. /\ Len(filled) \in Nat /\ DOMAIN filled = 1..Len(filled)
        /\ \A n \in 1..Len(filled) : filled[n] \in ShadeEntries(backup)
    BY <1>1, <1>4
  <2> HIDE DEF filled
  <2>2. entries \in [1..Len(filled) -> MigratedShades(backup)]
    BY <1>5, <2>1
  <2> HIDE DEF entries
  <2>3. entries \in Seq(MigratedShades(backup))
    BY <1>9, <2>1, <2>2
  <2> QED BY <2>3 DEF ParsedShades, entries, filled
<1>8. ParsedGroups(backup) \in Seq(MigratedGroups)
  <2> DEFINE filled == Filled(backup.groups)
             groups == [n \in DOMAIN filled |-> MigratedGroup(filled[n])]
  <2>1. /\ Len(filled) \in Nat /\ DOMAIN filled = 1..Len(filled)
        /\ \A n \in 1..Len(filled) : filled[n] \in GroupEntries
    BY <1>1, <1>4
  <2> HIDE DEF filled
  <2>2. groups \in [1..Len(filled) -> MigratedGroups]
    BY <1>6, <2>1
  <2> HIDE DEF groups
  <2>3. groups \in Seq(MigratedGroups)
    BY <1>9, <2>1, <2>2
  <2> QED BY <2>3 DEF ParsedGroups, groups, filled
<1> QED BY <1>3, <1>7, <1>8

\* The shades of a file, each with its address, rates, remotes and next code.
LEMMA ShadesAre ==
    ASSUME NEW backup \in Backups
    PROVE  LET entries == ParsedShades(backup)
           IN /\ DOMAIN entries = 1..Len(entries) /\ Len(entries) \in Nat
              /\ \A r \in 1..Len(entries) :
                    /\ entries[r].id \in Nat /\ entries[r].address \in Nat
                    /\ entries[r].up \in Nat /\ entries[r].down \in Nat
                    /\ entries[r].room \in Nat /\ entries[r].next \in Nat
                    /\ entries[r].links \in Seq(Nat) /\ Len(entries[r].links) \in Nat
                    /\ DOMAIN entries[r].links = 1..Len(entries[r].links)
<1> DEFINE entries == ParsedShades(backup)
<1>1. entries \in Seq(MigratedShades(backup))
  BY ParsedAre
<1> HIDE DEF entries
<1>2. /\ DOMAIN entries = 1..Len(entries) /\ Len(entries) \in Nat
      /\ \A r \in 1..Len(entries) : entries[r] \in MigratedShades(backup)
  BY <1>1
<1>3. \A shade \in MigratedShades(backup) :
         /\ shade.id \in Nat /\ shade.address \in Nat /\ shade.up \in Nat /\ shade.down \in Nat
         /\ shade.room \in Nat /\ shade.next \in Nat /\ shade.links \in Seq(Nat)
  BY DEF MigratedShades
<1>4. \A list \in Seq(Nat) : Len(list) \in Nat /\ DOMAIN list = 1..Len(list)
  OBVIOUS
<1> QED BY <1>2, <1>3, <1>4 DEF entries

\* The remotes of each shade of a file.
ShadeLists(backup) == [r \in DOMAIN ParsedShades(backup) |-> ParsedShades(backup)[r].links]

\* A file that is not refused is rows and remotes a table can be written from.
LEMMA ImportIsPackable ==
    ASSUME NEW backup \in Backups, ~Refused(backup)
    PROVE  /\ Packable(ImportedTable(backup).rows, ShadeLists(backup))
           /\ ImportedTable(backup).links = Packed(ShadeLists(backup))
           /\ \A r \in 1..Len(ParsedShades(backup)) :
                 /\ ImportedTable(backup).rows[r] =
                       Row(ImportedConfig(ParsedShades(backup)[r]), ParsedShades(backup)[r].next)
                 /\ ShadeLists(backup)[r] = ParsedShades(backup)[r].links
           /\ Len(ImportedTable(backup).rows) = Len(ParsedShades(backup))
           /\ Len(ShadeLists(backup)) = Len(ParsedShades(backup))
           /\ Len(ParsedShades(backup)) <= CAPACITY
           /\ \A r, s \in 1..Len(ParsedShades(backup)) :
                 r # s => ParsedShades(backup)[r].address # ParsedShades(backup)[s].address
<1> DEFINE entries == ParsedShades(backup)
           rows == ImportedTable(backup).rows
           lists == ShadeLists(backup)
<1>1. /\ DOMAIN entries = 1..Len(entries) /\ Len(entries) \in Nat
      /\ \A r \in 1..Len(entries) :
            /\ entries[r].id \in Nat /\ entries[r].address \in Nat
            /\ entries[r].up \in Nat /\ entries[r].down \in Nat
            /\ entries[r].room \in Nat /\ entries[r].next \in Nat
            /\ entries[r].links \in Seq(Nat) /\ Len(entries[r].links) \in Nat
            /\ DOMAIN entries[r].links = 1..Len(entries[r].links)
  BY ShadesAre
<1>13. ~(Len(entries) > CAPACITY)
  BY Zenon DEF Refused
<1>14. \A r \in DOMAIN entries : ~ShadeRefused(entries[r]) /\ ~LinkRefused(entries[r])
  BY Zenon DEF Refused
<1>15. ~SharesAddress(entries)
  BY Zenon DEF Refused
<1>16. ~(Len(ImportedLinks(entries)) > MAX_LINKS)
  BY Zenon DEF Refused
<1>2. /\ Len(entries) <= CAPACITY
      /\ \A r \in DOMAIN entries : ~ShadeRefused(entries[r]) /\ ~LinkRefused(entries[r])
      /\ ~SharesAddress(entries)
      /\ ~(Len(ImportedLinks(entries)) > MAX_LINKS)
  <2>1. CAPACITY \in Nat
    BY RecordAssumption
  <2> HIDE DEF entries
  <2> QED BY <1>1, <1>13, <1>14, <1>15, <1>16, <2>1
<1>3. /\ rows = [r \in DOMAIN entries |-> Row(ImportedConfig(entries[r]), entries[r].next)]
      /\ ImportedTable(backup).links = ImportedLinks(entries)
  BY DEF ImportedTable
<1>4. ImportedLinks(entries) = Packed(lists)
  BY DEF ImportedLinks, ShadeLists
<1>5. lists = [r \in DOMAIN entries |-> entries[r].links]
  BY DEF ShadeLists
<1> HIDE DEF entries, rows, lists
<1>6. ASSUME NEW r \in 1..Len(entries)
      PROVE  /\ rows[r] = Row(ImportedConfig(entries[r]), entries[r].next) /\ rows[r] \in RegistryRows
             /\ rows[r].config.address = entries[r].address
             /\ Fits(rows[r].config) /\ lists[r] = entries[r].links
             /\ ListFits(lists[r], rows[r].config.address)
  <2> DEFINE shade == entries[r]
             config == ImportedConfig(shade)
  <2>1. /\ shade.address \in Nat /\ shade.up \in Nat /\ shade.down \in Nat /\ shade.next \in Nat
        /\ shade.links \in Seq(Nat) /\ Len(shade.links) \in Nat
        /\ DOMAIN shade.links = 1..Len(shade.links)
    BY <1>1
  <2>2. /\ Usable(shade.address) /\ shade.up # 0 /\ shade.down # 0
        /\ \A address \in ToSet(shade.links) : Usable(address) /\ address # shade.address
        /\ IsInjective(shade.links) /\ ~(Len(shade.links) > MAX_LINKED_REMOTES)
    BY <1>1, <1>2 DEF ShadeRefused, LinkRefused
  <2>3. rows[r] = Row(config, shade.next) /\ lists[r] = shade.links
    BY <1>1, <1>3, <1>5
  <2> HIDE DEF shade
  <2>4. PICK kind \in Kinds, protocol \in Protocols, confirmed \in BOOLEAN :
           config = [NewConfig(shade.address) EXCEPT
                        !.kind = kind, !.protocol = protocol,
                        !.up = shade.up, !.down = shade.down, !.confirmed = confirmed]
    <3> DEFINE kind == IF shade.kind \in Kinds THEN shade.kind ELSE "roller"
               protocol == IF shade.protocol \in Protocols THEN shade.protocol ELSE "rts"
               confirmed == Provisioned(shade.address)
    <3>1. kind \in Kinds /\ protocol \in Protocols /\ confirmed \in BOOLEAN
      BY DEF Kinds, Protocols, Provisioned
    <3>2. NewConfig(shade.address).kind = "roller" /\ NewConfig(shade.address).protocol = "rts"
      BY DEF NewConfig
    <3>3. config = [NewConfig(shade.address) EXCEPT
                        !.kind = kind, !.protocol = protocol,
                        !.up = shade.up, !.down = shade.down, !.confirmed = confirmed]
      BY <3>2 DEF ImportedConfig, NewConfig
    <3> QED BY <3>1, <3>3
  <2> HIDE DEF config
  <2>5. config = [address |-> shade.address, kind |-> kind, protocol |-> protocol,
                  up |-> shade.up, down |-> shade.down, upFrom |-> "factory",
                  downFrom |-> "factory", lag |-> 0, vent |-> 0, close |-> 0,
                  confirmed |-> confirmed]
    BY <2>4 DEF NewConfig
  <2>6. config \in Configs
    BY <2>1, <2>5 DEF Configs, Sources
  <2>7. Stepped(0)
    <3>1. 0 = 0 * STEP
      BY RecordAssumption
    <3> QED BY <3>1 DEF Stepped
  <2>8. Fits(config)
    BY <2>1, <2>2, <2>5, <2>7 DEF Fits, LiftTimes, CheckedBands
  <2>9. rows[r].config = config /\ rows[r] \in RegistryRows
    BY <2>1, <2>3, <2>6 DEF Row, RegistryRows
  <2>10. config.address = shade.address
    BY <2>5
  <2>11. ListFits(shade.links, shade.address)
    <3>1. \A n \in 1..Len(shade.links) : shade.links[n] \in ToSet(shade.links)
      BY <2>1 DEF ToSet
    <3>2. MAX_LINKED_REMOTES \in Nat
      BY RecordAssumption
    <3>3. Len(shade.links) <= MAX_LINKED_REMOTES
      BY <2>1, <2>2, <3>2
    <3>4. \A n \in 1..Len(shade.links) : Usable(shade.links[n]) /\ shade.links[n] # shade.address
      BY <2>2, <3>1
    <3>5. \A n, m \in 1..Len(shade.links) : n # m => shade.links[n] # shade.links[m]
      BY <2>1, <2>2 DEF IsInjective
    <3> QED BY <3>3, <3>4, <3>5 DEF ListFits
  <2> QED BY <2>3, <2>8, <2>9, <2>10, <2>11 DEF shade, config
<1>7. rows \in Seq(RegistryRows) /\ Len(rows) = Len(entries)
  <2>1. DOMAIN rows = 1..Len(entries) /\ rows = [r \in 1..Len(entries) |-> rows[r]]
    BY <1>1, <1>3
  <2>2. PICK w \in Nat : w = Len(entries)
    BY <1>1
  <2>3. rows \in [1..w -> RegistryRows]
    BY <1>6, <2>1, <2>2
  <2>4. rows \in Seq(RegistryRows) /\ Len(rows) = w
    BY <2>3
  <2> QED BY <2>2, <2>4
<1>8. lists \in Seq(Seq(Nat)) /\ Len(lists) = Len(entries)
  <2>1. PICK w \in Nat : w = Len(entries)
    BY <1>1
  <2>2. lists \in [1..w -> Seq(Nat)]
    BY <1>1, <1>5, <2>1
  <2>3. \A S : \A f \in [1..w -> S] : f \in Seq(S) /\ Len(f) = w
    OBVIOUS
  <2> QED BY <2>1, <2>2, <2>3
<1>9. \A r, s \in 1..Len(entries) : r # s => entries[r].address # entries[s].address
  BY <1>1, <1>2 DEF SharesAddress
<1>10. Len(Packed(lists)) <= MAX_LINKS
  <2>1. Packed(lists) \in Seq(Links)
    BY <1>8, PackedIs
  <2>2. Len(Packed(lists)) \in Nat /\ MAX_LINKS \in Nat
    BY <2>1, RecordAssumption
  <2> QED BY <1>2, <1>4, <2>2
<1>11. Packable(rows, lists)
  BY <1>2, <1>6, <1>7, <1>8, <1>9, <1>10 DEF Packable
<1> QED BY <1>2, <1>3, <1>4, <1>6, <1>7, <1>8, <1>9, <1>11 DEF entries, rows, lists

\* The row of a shade's room is one of the rooms of the file, or none.
LEMMA RoomIs ==
    ASSUME NEW backup \in Backups, NEW shade
    PROVE  LET room == ImportedRoom(backup, shade)
               rooms == ParsedRooms(backup)
           IN \/ /\ room = None
                 /\ shade.room \in RoomUnassigned \/ RoomRow(backup, shade.room) = {}
              \/ /\ room # None /\ room \in Nat /\ room < Len(rooms)
                 /\ rooms[room + 1] = shade.room
<1> DEFINE rooms == ParsedRooms(backup)
           room == ImportedRoom(backup, shade)
<1>1. rooms \in Seq(Nat)
  BY ParsedAre
<1>2. CASE shade.room \in RoomUnassigned \/ RoomRow(backup, shade.room) = {}
  BY <1>2 DEF ImportedRoom
<1>3. CASE ~(shade.room \in RoomUnassigned \/ RoomRow(backup, shade.room) = {})
  <2>1. room = CHOOSE row \in RoomRow(backup, shade.room) : TRUE
    BY <1>3 DEF ImportedRoom
  <2>2. room \in RoomRow(backup, shade.room)
    BY <1>3, <2>1
  <2>3. PICK r \in DOMAIN rooms : rooms[r] = shade.room /\ room = r - 1
    BY <2>2 DEF RoomRow
  <2> HIDE DEF rooms, room
  <2>4. r \in 1..Len(rooms) /\ Len(rooms) \in Nat
    BY <1>1
  <2>5. room \in Nat /\ room < Len(rooms) /\ room + 1 = r
    BY <2>3, <2>4
  <2>6. room # None
    BY <2>5, RecordAssumption
  <2> QED BY <2>3, <2>5, <2>6 DEF rooms, room
<1> QED BY <1>2, <1>3

\* The rows a group's members mean are rows of the file.
LEMMA RowsAre ==
    ASSUME NEW backup \in Backups, NEW id
    PROVE  \A row \in ShadeRow(backup, id) : row \in Nat /\ row < Len(ParsedShades(backup))
<1> DEFINE entries == ParsedShades(backup)
<1>1. DOMAIN entries = 1..Len(entries) /\ Len(entries) \in Nat
  BY ShadesAre
<1>2. ASSUME NEW row \in ShadeRow(backup, id)
      PROVE  row \in Nat /\ row < Len(entries)
  <2>1. PICK r \in DOMAIN entries : row = r - 1
    BY DEF ShadeRow, RowsOf
  <2> HIDE DEF entries
  <2> QED BY <1>1, <2>1
<1> QED BY <1>2

\* The estate record an import writes is one the next boot reads.
LEMMA EstateImported ==
    ASSUME NEW backup \in Backups, ~Refused(backup)
    PROVE  /\ ImportedEstate(backup) \in EstateRecords
           /\ EstateReads(ImportedEstate(backup))
           /\ LoadEstate(ImportedEstate(backup)) = ImportedEstate(backup)
<1> DEFINE entries == ParsedShades(backup)
           groups == ParsedGroups(backup)
           rooms == ParsedRooms(backup)
           placed == ImportedEstate(backup)
           roomOfs == [row \in 0..CAPACITY - 1 |->
                          IF row + 1 \in DOMAIN entries
                          THEN ImportedRoom(backup, entries[row + 1]) ELSE None]
           made == [g \in DOMAIN groups |-> ImportedGroup(backup, groups[g])]
<1>1. placed = [rooms |-> Len(rooms), roomOf |-> roomOfs, groups |-> made]
  BY DEF ImportedEstate
<1>2. ~(Len(rooms) > ROOMS)
  BY Zenon DEF Refused
<1>3. ~(Len(groups) > GROUPS)
  BY Zenon DEF Refused
<1>4. \A g \in DOMAIN groups : ~GroupRefused(backup, g)
  BY Zenon DEF Refused
<1>5. rooms \in Seq(Nat) /\ groups \in Seq(MigratedGroups)
  BY ParsedAre
<1>6. \A g \in DOMAIN groups : /\ Usable(groups[g].address)
                               /\ \A earlier \in 1..g - 1 :
                                     groups[earlier].address # groups[g].address
  BY <1>4, Zenon DEF GroupRefused
<1>7. \A row \in 0..CAPACITY - 1 :
         \/ roomOfs[row] = None
         \/ roomOfs[row] \in Nat /\ roomOfs[row] < Len(rooms)
  BY RoomIs
<1> HIDE DEF rooms, groups, entries
<1>8. Len(rooms) \in Nat /\ Len(groups) \in Nat /\ DOMAIN groups = 1..Len(groups)
      /\ \A g \in 1..Len(groups) : groups[g] \in MigratedGroups
  BY <1>5
<1>9. Len(rooms) <= ROOMS /\ Len(groups) <= GROUPS
  BY <1>2, <1>3, <1>8, RecordAssumption
<1>10. ASSUME NEW g \in 1..Len(groups)
       PROVE  /\ made[g] \in [address : Nat, members : SUBSET Nat, recovered : BOOLEAN]
              /\ made[g].address = groups[g].address
  <2> DEFINE members == UNION {ShadeRow(backup, id) : id \in groups[g].members}
             recovered == backup.version >= GROUP_CODE_MIN_VERSION
  <2>1. made[g] = [address |-> groups[g].address, members |-> members, recovered |-> recovered]
    BY <1>8 DEF ImportedGroup, Group
  <2>2. groups[g].address \in Nat
    BY <1>8 DEF MigratedGroups
  <2>3. members \in SUBSET Nat
    BY RowsAre
  <2>4. recovered \in BOOLEAN
    OBVIOUS
  <2> HIDE DEF members, recovered, made
  <2> QED BY <2>1, <2>2, <2>3, <2>4
<1>11. made \in Seq([address : Nat, members : SUBSET Nat, recovered : BOOLEAN])
       /\ DOMAIN made = 1..Len(groups) /\ Len(made) = Len(groups)
  <2>1. DOMAIN made = 1..Len(groups) /\ made = [g \in 1..Len(groups) |-> made[g]]
    BY <1>8
  <2> DEFINE G == [address : Nat, members : SUBSET Nat, recovered : BOOLEAN]
  <2>2. \A g \in 1..Len(groups) : made[g] \in G
    BY <1>10, Zenon
  <2> HIDE DEF made, G
  <2>3. PICK w \in Nat : w = Len(groups)
    BY <1>8, Zenon
  <2>4. made \in [1..w -> G]
    BY <2>1, <2>2, <2>3
  <2>5. made \in Seq(G) /\ Len(made) = w
    BY <2>4
  <2> QED BY <2>1, <2>3, <2>5 DEF G
<1>12. roomOfs \in [0..CAPACITY - 1 -> Nat \cup {None}]
  BY <1>7
<1> HIDE DEF placed
<1>13. placed.rooms = Len(rooms) /\ placed.roomOf = roomOfs /\ placed.groups = made
  BY <1>1
<1>16. DOMAIN roomOfs = 0..CAPACITY - 1
  OBVIOUS
<1> HIDE DEF made, roomOfs
<1>14. placed \in EstateRecords
  BY <1>1, <1>8, <1>11, <1>12 DEF EstateRecords
<1>15. EstateReads(placed)
  <2>1. EstateHeaderReads(placed)
    BY <1>9, <1>11, <1>13 DEF EstateHeaderReads
  <2>2. AssignmentsRead(placed)
    BY <1>7, <1>13, <1>16 DEF AssignmentsRead
  <2>3. \A g \in DOMAIN made : GroupReads(made[g])
    BY <1>6, <1>8, <1>10, <1>11 DEF GroupReads
  <2>4. ASSUME NEW g \in DOMAIN made, NEW h \in DOMAIN made, g # h
        PROVE  made[g].address # made[h].address
    <3>1. g \in 1..Len(groups) /\ h \in 1..Len(groups)
      BY <1>11
    <3>2. g \in 1..h - 1 \/ h \in 1..g - 1
      BY <1>8, <2>4, <3>1
    <3> QED BY <1>6, <1>8, <1>10, <3>1, <3>2
  <2> QED BY <1>13, <2>1, <2>2, <2>3, <2>4 DEF EstateReads
<1> QED BY <1>14, <1>15 DEF placed, LoadEstate

-----------------------------------------------------------------------------
(* What an import means                                                    *)

\* What a boot of an import that nothing has changed since leaves.
InUse(id) == registry[id] # None
BootGroups == [g \in DOMAIN LoadEstate(estate).groups |->
                  LoadEstate(estate).groups[g].members \cap {id \in Slots : InUse(id)}]
BootRooms == [id \in Slots |-> IF InUse(id) THEN LoadEstate(estate).roomOf[id] ELSE None]
FromFlash == /\ registry = BootRows(LoadTable(flash))
             /\ linked = BootLists(LoadTable(flash))
             /\ groupsOf = BootGroups /\ roomOf = BootRooms

\* A boot that finds in flash what an import wrote shows every shade, room and group
\* of the backup.
LEMMA MeansTheBackup ==
    ASSUME imported \in Backups, ~Refused(imported),
           LoadTable(flash).rows = ImportedTable(imported).rows,
           LoadTable(flash).links = ImportedTable(imported).links,
           estate = ImportedEstate(imported), FromFlash
    PROVE  ImportMeansTheBackup
<1> DEFINE backup == imported
<1>0. backup \in Backups /\ backup = imported /\ ~Refused(backup)
  OBVIOUS
<1> HIDE DEF backup
<1> DEFINE entries == ParsedShades(backup)
           groups == ParsedGroups(backup)
           rooms == ParsedRooms(backup)
           lists == ShadeLists(backup)
           rows == ImportedTable(backup).rows
           slot(address) == CHOOSE id \in Live : ConfigOf(id).address = address
<1>1. /\ Packable(rows, lists) /\ ImportedTable(backup).links = Packed(lists)
      /\ \A r \in 1..Len(entries) :
            /\ rows[r] = Row(ImportedConfig(entries[r]), entries[r].next)
            /\ lists[r] = entries[r].links
      /\ Len(rows) = Len(entries) /\ Len(lists) = Len(entries) /\ Len(entries) <= CAPACITY
      /\ \A r, s \in 1..Len(entries) : r # s => entries[r].address # entries[s].address
  BY <1>0, ImportIsPackable
<1>2. /\ DOMAIN entries = 1..Len(entries) /\ Len(entries) \in Nat
      /\ \A r \in 1..Len(entries) : entries[r].id \in Nat /\ entries[r].links \in Seq(Nat)
  BY <1>0, ShadesAre
<1>3. /\ rows \in Seq(RegistryRows) /\ DOMAIN rows = 1..Len(entries) /\ lists \in Seq(Seq(Nat))
  <2>1. rows \in Seq(RegistryRows) /\ lists \in Seq(Seq(Nat))
    BY <1>1 DEF Packable
  <2> HIDE DEF rows, lists, entries
  <2> QED BY <1>1, <2>1
<1>4. /\ LoadTable(flash).rows = rows /\ LoadTable(flash).links = Packed(lists)
      /\ LoadEstate(estate) = ImportedEstate(backup)
  BY <1>0, <1>1, EstateImported
<1>5. \A r \in 1..Len(entries) : rows[r].config = ImportedConfig(entries[r])
                                /\ rows[r].seed = entries[r].next
  <2>1. \A c, seed : Row(c, seed).config = c /\ Row(c, seed).seed = seed
    BY DEF Row
  <2> HIDE DEF rows, entries
  <2> QED BY <1>1, <2>1
<1>6. \A r \in 1..Len(entries) :
         /\ ImportedConfig(entries[r]).address = entries[r].address
         /\ ImportedConfig(entries[r]).kind = IF entries[r].kind \in Kinds THEN entries[r].kind
                                                                        ELSE "roller"
         /\ ImportedConfig(entries[r]).protocol = IF entries[r].protocol \in Protocols
                                                 THEN entries[r].protocol ELSE "rts"
  BY DEF ImportedConfig, NewConfig
<1> HIDE DEF rows, lists
<1>7. ASSUME NEW r \in 1..Len(entries)
      PROVE  /\ r - 1 \in Slots /\ r - 1 \in Nat /\ registry[r - 1] = rows[r] /\ r - 1 \in Live
             /\ linked[r - 1] = entries[r].links /\ ConfigOf(r - 1).address = entries[r].address
             /\ InUse(r - 1)
  <2> HIDE DEF entries
  <2>1. r - 1 \in Slots /\ r - 1 \in Nat /\ (r - 1) + 1 = r
    BY <1>1, <1>2, SlotsAre DEF Slots
  <2>2. registry[r - 1] = rows[r]
    BY <1>3, <1>4, <2>1 DEF FromFlash, BootRows
  <2>3. rows[r] \in RegistryRows /\ rows[r] # None
    BY <1>3, RowIsSome
  <2>4. linked[r - 1] = LinksOfRow(LoadTable(flash), r - 1)
    BY <2>1 DEF FromFlash, BootLists
  <2>5. LinksOfRow(LoadTable(flash), r - 1) = lists[r]
    BY <1>1, <1>3, <1>4, OwnLinks
  <2>6. ConfigOf(r - 1).address = entries[r].address
    BY <1>5, <1>6, <2>2 DEF ConfigOf
  <2> QED BY <1>1, <2>1, <2>2, <2>3, <2>4, <2>5, <2>6 DEF Live, InUse
<1>8. ASSUME NEW id \in Live PROVE id \in Nat /\ id + 1 \in 1..Len(entries) /\ (id + 1) - 1 = id
  <2>1. id \in Slots /\ registry[id] # None /\ id \in Nat
    BY SlotsAre DEF Live
  <2>2. id + 1 \in 1..Len(entries)
    BY <1>3, <1>4, <2>1 DEF FromFlash, BootRows
  <2> QED BY <2>1, <2>2
<1>9. ASSUME NEW r \in 1..Len(entries) PROVE slot(entries[r].address) = r - 1
  <2>1. r - 1 \in Live /\ ConfigOf(r - 1).address = entries[r].address
    BY <1>7
  <2>2. ASSUME NEW id \in Live, ConfigOf(id).address = entries[r].address PROVE id = r - 1
    <3>1. id + 1 \in 1..Len(entries) /\ (id + 1) - 1 = id /\ id \in Nat
      BY <1>8
    <3>2. ConfigOf(id).address = entries[id + 1].address
      BY <1>7, <3>1
    <3>3. id + 1 = r
      BY <1>1, <2>2, <3>1, <3>2
    <3> QED BY <3>1, <3>3
  <2> HIDE DEF entries
  <2> QED BY <2>1, <2>2
<1>10. ASSUME NEW r \in 1..Len(entries)
       PROVE  LET shade == entries[r]
                  id == slot(shade.address)
                  caveats == ShadeCaveats(backup, shade)
              IN /\ registry[id].seed = shade.next
                 /\ linked[id] = shade.links
                 /\ ConfigOf(id).kind # shade.kind => "kind" \in caveats
                 /\ ConfigOf(id).protocol # shade.protocol => "protocol" \in caveats
                 /\ IF roomOf[id] = None
                    THEN shade.room \in RoomUnassigned \/ "room" \in caveats
                    ELSE rooms[roomOf[id] + 1] = shade.room
  <2> DEFINE shade == entries[r]
             id == slot(shade.address)
             caveats == ShadeCaveats(backup, shade)
  <2>1. id = r - 1
    BY <1>9
  <2> HIDE DEF slot
  <2>2. registry[id].seed = shade.next /\ linked[id] = shade.links
        /\ ConfigOf(id) = ImportedConfig(shade) /\ InUse(id) /\ id \in Slots
    BY <1>5, <1>7, <2>1 DEF ConfigOf
  <2>3. roomOf[id] = ImportedRoom(backup, shade)
    <3>1. roomOf[id] = ImportedEstate(backup).roomOf[id]
      BY <1>4, <2>2 DEF FromFlash, BootRooms
    <3>2. id \in 0..CAPACITY - 1 /\ id + 1 = r /\ id + 1 \in DOMAIN entries
      <4> HIDE DEF entries, id
      <4> QED BY <1>2, <2>1, <2>2, SlotsAre DEF Slots
    <3>3. ImportedEstate(backup).roomOf[id] = ImportedRoom(backup, entries[r])
      BY <3>2 DEF ImportedEstate
    <3> QED BY <3>1, <3>3
  <2>4. \/ /\ roomOf[id] = None
           /\ shade.room \in RoomUnassigned \/ RoomRow(backup, shade.room) = {}
        \/ /\ roomOf[id] # None /\ rooms[roomOf[id] + 1] = shade.room
    BY <1>0, <2>3, RoomIs
  <2>5. /\ "kind" \in caveats <=> shade.kind \notin Kinds
        /\ "protocol" \in caveats <=> shade.protocol # "rts"
        /\ "room" \in caveats <=> /\ shade.room \notin RoomUnassigned
                                  /\ RoomRow(backup, shade.room) = {}
    BY DEF ShadeCaveats
  <2>6. /\ ConfigOf(id).kind = IF shade.kind \in Kinds THEN shade.kind ELSE "roller"
        /\ ConfigOf(id).protocol = IF shade.protocol \in Protocols THEN shade.protocol ELSE "rts"
    BY <1>6, <2>2
  <2>7. "rts" \in Protocols
    BY DEF Protocols
  <2> HIDE DEF shade, id, caveats, rooms
  <2>8. /\ registry[id].seed = shade.next /\ linked[id] = shade.links
        /\ ConfigOf(id).kind # shade.kind => "kind" \in caveats
        /\ ConfigOf(id).protocol # shade.protocol => "protocol" \in caveats
        /\ IF roomOf[id] = None
           THEN shade.room \in RoomUnassigned \/ "room" \in caveats
           ELSE rooms[roomOf[id] + 1] = shade.room
    BY <2>2, <2>4, <2>5, <2>6, <2>7
  <2> QED BY <2>8 DEF shade, id, caveats, slot
<1>11. ASSUME NEW g \in DOMAIN groups, NEW s \in 1..Len(entries)
       PROVE  LET id == slot(entries[s].address)
                  first == \A r \in 1..s - 1 : entries[r].id # entries[s].id
              IN id \in groupsOf[g] <=> first /\ entries[s].id \in groups[g].members
  <2> DEFINE id == slot(entries[s].address)
             first == \A r \in 1..s - 1 : entries[r].id # entries[s].id
             members == UNION {ShadeRow(backup, i) : i \in groups[g].members}
  <2>1. id = s - 1
    BY <1>9
  <2>2. groupsOf[g] = members \cap {other \in Slots : InUse(other)}
    <3>1. LoadEstate(estate).groups = [h \in DOMAIN groups |-> ImportedGroup(backup, groups[h])]
      BY <1>4 DEF ImportedEstate
    <3>2. ImportedGroup(backup, groups[g]).members = members
      BY DEF ImportedGroup, Group
    <3> HIDE DEF groups, members
    <3>3. LoadEstate(estate).groups[g].members = members /\ g \in DOMAIN LoadEstate(estate).groups
      BY <3>1, <3>2
    <3> QED BY <3>3 DEF FromFlash, BootGroups
  <2> HIDE DEF slot
  <2>3. id \in groupsOf[g] <=> s - 1 \in members
    BY <1>7, <2>1, <2>2
  <2>4. ASSUME NEW i PROVE s - 1 \in ShadeRow(backup, i) <=> first /\ entries[s].id = i
    <3>1. ASSUME s - 1 \in ShadeRow(backup, i) PROVE first /\ entries[s].id = i
      <4>1. PICK r \in RowsOf(backup, i) : s - 1 = r - 1 /\ \A t \in RowsOf(backup, i) : r <= t
        BY <3>1 DEF ShadeRow
      <4>2. r \in 1..Len(entries) /\ entries[r].id = i
        BY <1>2 DEF RowsOf
      <4>3. r = s
        <5> HIDE DEF entries
        <5> QED BY <1>2, <4>1, <4>2
      <4>4. ASSUME NEW t \in 1..s - 1, entries[t].id = entries[s].id PROVE FALSE
        <5> HIDE DEF entries
        <5>1. t \in 1..Len(entries) /\ ~(s <= t)
          BY <1>2
        <5>2. t \in RowsOf(backup, i)
          BY <1>2, <4>2, <4>3, <4>4, <5>1 DEF RowsOf, entries
        <5> QED BY <4>1, <4>3, <5>1, <5>2
      <4> QED BY <4>2, <4>3, <4>4
    <3>2. ASSUME first, entries[s].id = i PROVE s - 1 \in ShadeRow(backup, i)
      <4>1. s \in RowsOf(backup, i)
        BY <1>2, <3>2 DEF RowsOf
      <4>2. ASSUME NEW t \in RowsOf(backup, i) PROVE s <= t
        <5>1. t \in 1..Len(entries) /\ entries[t].id = i
          BY <1>2 DEF RowsOf
        <5>2. t \notin 1..s - 1
          BY <3>2, <5>1
        <5> HIDE DEF entries
        <5> QED BY <1>2, <5>1, <5>2
      <4> QED BY <4>1, <4>2 DEF ShadeRow
    <3> QED BY <3>1, <3>2
  <2>5. s - 1 \in members <=> first /\ entries[s].id \in groups[g].members
    <3> HIDE DEF first, entries, groups
    <3> QED BY <2>4
  <2> QED BY <2>3, <2>5
<1>12. ASSUME NEW g \in DOMAIN groups, NEW id \in groups[g].members
       PROVE  \/ \E s \in DOMAIN entries : entries[s].id = id
              \/ "member" \in GroupCaveats(backup, groups[g])
  <2>1. CASE RowsOf(backup, id) = {}
    BY <2>1 DEF GroupCaveats
  <2>2. CASE RowsOf(backup, id) # {}
    BY <2>2 DEF RowsOf
  <2> QED BY <2>1, <2>2
<1> HIDE DEF entries, groups, rooms, slot
<1>13. /\ \A r \in DOMAIN entries :
             LET shade == entries[r]
                 id == slot(shade.address)
                 caveats == ShadeCaveats(backup, shade)
             IN /\ registry[id].seed = shade.next
                /\ linked[id] = shade.links
                /\ ConfigOf(id).kind # shade.kind => "kind" \in caveats
                /\ ConfigOf(id).protocol # shade.protocol => "protocol" \in caveats
                /\ IF roomOf[id] = None
                   THEN shade.room \in RoomUnassigned \/ "room" \in caveats
                   ELSE rooms[roomOf[id] + 1] = shade.room
       /\ \A g \in DOMAIN groups, s \in DOMAIN entries :
             LET id == slot(entries[s].address)
                 first == \A r \in 1..s - 1 : entries[r].id # entries[s].id
             IN id \in groupsOf[g] <=> first /\ entries[s].id \in groups[g].members
       /\ \A g \in DOMAIN groups :
             \A id \in groups[g].members :
                \/ \E s \in DOMAIN entries : entries[s].id = id
                \/ "member" \in GroupCaveats(backup, groups[g])
  BY <1>2, <1>10, <1>11, <1>12
<1> QED BY <1>13, Zenon DEF ImportMeansTheBackup, entries, groups, rooms, slot, backup

-----------------------------------------------------------------------------
(* Edits of a registry                                                     *)

\* A description in use gives way to another of the same address.
LEMMA RowSet ==
    ASSUME NEW held, NEW lists, SoundRegistry(held, lists),
           NEW id \in Slots, held[id] # None,
           NEW config \in Configs, Fits(config), config.address = held[id].config.address
    PROVE  LET new == [held EXCEPT ![id].config = config]
           IN /\ SoundRegistry(new, lists)
              /\ \A other \in Slots : new[other] # None <=> held[other] # None
<1> DEFINE new == [held EXCEPT ![id].config = config]
<1>1. /\ held \in [Slots -> RegistryRows \cup {None}] /\ lists \in [Slots -> Seq(Nat)]
      /\ \A i \in Slots : held[i] # None => /\ Fits(held[i].config)
                                            /\ ListFits(lists[i], held[i].config.address)
      /\ \A i \in Slots : held[i] = None => lists[i] = <<>>
      /\ \A i, j \in Slots :
            i # j /\ held[i] # None /\ held[j] # None =>
                held[i].config.address # held[j].config.address
      /\ Cardinality(PoolOf(held, lists)) <= MAX_LINKS
  BY DEF SoundRegistry
<1>2. held[id] \in RegistryRows
  BY <1>1
<1>3. [held[id] EXCEPT !.config = config] \in RegistryRows /\ [held[id] EXCEPT !.config = config].config = config
  BY <1>2 DEF RegistryRows
<1>4. new = [held EXCEPT ![id] = [held[id] EXCEPT !.config = config]]
  OBVIOUS
<1> HIDE DEF new
<1>5. new \in [Slots -> RegistryRows \cup {None}]
  BY <1>1, <1>3, <1>4
<1>6. new[id].config = config /\ new[id] \in RegistryRows /\ \A i \in Slots \ {id} : new[i] = held[i]
  BY <1>1, <1>3, <1>4
<1>7. \A i \in Slots : /\ new[i] # None <=> held[i] # None
                       /\ held[i] # None => new[i].config.address = held[i].config.address
                       /\ held[i] # None => Fits(new[i].config)
  BY <1>1, <1>6, RowIsSome
<1>8. PoolOf(new, lists) = PoolOf(held, lists)
  BY <1>7 DEF PoolOf
<1>9. SoundRegistry(new, lists)
  BY <1>1, <1>5, <1>7, <1>8 DEF SoundRegistry
<1> QED BY <1>7, <1>9 DEF new

\* A row of a new address takes a free slot.
LEMMA RowAdded ==
    ASSUME NEW held, NEW lists, SoundRegistry(held, lists),
           NEW id \in Slots, held[id] = None, NEW row \in RegistryRows, Fits(row.config),
           \A other \in Slots : held[other] # None =>
              held[other].config.address # row.config.address
    PROVE  SoundRegistry([held EXCEPT ![id] = row], lists)
<1> DEFINE new == [held EXCEPT ![id] = row]
<1>1. /\ held \in [Slots -> RegistryRows \cup {None}] /\ lists \in [Slots -> Seq(Nat)]
      /\ \A i \in Slots : held[i] # None => /\ Fits(held[i].config)
                                            /\ ListFits(lists[i], held[i].config.address)
      /\ \A i \in Slots : held[i] = None => lists[i] = <<>>
      /\ \A i, j \in Slots :
            i # j /\ held[i] # None /\ held[j] # None =>
                held[i].config.address # held[j].config.address
      /\ Cardinality(PoolOf(held, lists)) <= MAX_LINKS
  BY DEF SoundRegistry
<1>2. new \in [Slots -> RegistryRows \cup {None}] /\ new[id] = row /\ \A i \in Slots \ {id} : new[i] = held[i]
  BY <1>1
<1> HIDE DEF new
<1>3. row # None
  BY RowIsSome
<1>4. lists[id] = <<>> /\ \A address : ListFits(<<>>, address)
  BY <1>1, RecordAssumption DEF ListFits
<1>5. PoolOf(new, lists) = PoolOf(held, lists)
  <2>1. ASSUME NEW link \in Slots \X (1..MAX_LINKED_REMOTES)
        PROVE  new[link[1]] # None /\ link[2] \in DOMAIN lists[link[1]]
                 <=> held[link[1]] # None /\ link[2] \in DOMAIN lists[link[1]]
    <3>1. link[1] \in Slots
      OBVIOUS
    <3>2. CASE link[1] = id
      <4>1. DOMAIN lists[id] = {}
        BY <1>4
      <4> QED BY <3>2, <4>1
    <3>3. CASE link[1] # id
      BY <1>2, <3>1, <3>3
    <3> QED BY <3>2, <3>3
  <2> QED BY <2>1 DEF PoolOf
<1>6. \A i \in Slots : new[i] # None => /\ Fits(new[i].config)
                                        /\ ListFits(lists[i], new[i].config.address)
  BY <1>1, <1>2, <1>4
<1>7. \A i \in Slots : new[i] = None => lists[i] = <<>>
  BY <1>1, <1>2, <1>3
<1>8. \A i, j \in Slots :
         i # j /\ new[i] # None /\ new[j] # None =>
            new[i].config.address # new[j].config.address
  <2>1. SUFFICES ASSUME NEW i \in Slots, NEW j \in Slots, i # j, new[i] # None, new[j] # None
                 PROVE  new[i].config.address # new[j].config.address
    OBVIOUS
  <2>2. CASE i = id
    <3>1. new[i] = row /\ new[j] = held[j] /\ held[j] # None
      BY <1>2, <2>1, <2>2
    <3> QED BY <3>1
  <2>3. CASE j = id
    <3>1. new[j] = row /\ new[i] = held[i] /\ held[i] # None
      BY <1>2, <2>1, <2>3
    <3> QED BY <3>1
  <2>4. CASE i # id /\ j # id
    <3>1. new[i] = held[i] /\ new[j] = held[j]
      BY <1>2, <2>4
    <3> QED BY <1>1, <2>1, <3>1
  <2> QED BY <2>2, <2>3, <2>4
<1>9. SoundRegistry(new, lists)
  BY <1>1, <1>2, <1>5, <1>6, <1>7, <1>8 DEF SoundRegistry
<1> QED BY <1>9 DEF new

\* A row leaves its slot, and its remotes with it.
LEMMA RowRemoved ==
    ASSUME NEW held, NEW lists, SoundRegistry(held, lists), NEW id \in Slots
    PROVE  SoundRegistry([held EXCEPT ![id] = None], [lists EXCEPT ![id] = <<>>])
<1> DEFINE new == [held EXCEPT ![id] = None]
           kept == [lists EXCEPT ![id] = <<>>]
<1>1. /\ held \in [Slots -> RegistryRows \cup {None}] /\ lists \in [Slots -> Seq(Nat)]
      /\ \A i \in Slots : held[i] # None => /\ Fits(held[i].config)
                                            /\ ListFits(lists[i], held[i].config.address)
      /\ \A i \in Slots : held[i] = None => lists[i] = <<>>
      /\ \A i, j \in Slots :
            i # j /\ held[i] # None /\ held[j] # None =>
                held[i].config.address # held[j].config.address
      /\ Cardinality(PoolOf(held, lists)) <= MAX_LINKS
  BY DEF SoundRegistry
<1>2. new \in [Slots -> RegistryRows \cup {None}] /\ new[id] = None /\ \A i \in Slots \ {id} : new[i] = held[i]
  BY <1>1
<1>3. kept \in [Slots -> Seq(Nat)] /\ kept[id] = <<>> /\ \A i \in Slots \ {id} : kept[i] = lists[i]
  <2>1. <<>> \in Seq(Nat)
    OBVIOUS
  <2> QED BY <1>1, <2>1
<1> HIDE DEF new, kept
<1>4. PoolOf(new, kept) \in SUBSET PoolOf(held, lists)
  BY <1>2, <1>3 DEF PoolOf
<1>5. Cardinality(PoolOf(new, kept)) <= MAX_LINKS
  <2>1. Cardinality(PoolOf(new, kept)) <= Cardinality(PoolOf(held, lists))
    BY <1>4, PoolIs, FS_Subset
  <2>2. /\ Cardinality(PoolOf(new, kept)) \in Nat /\ Cardinality(PoolOf(held, lists)) \in Nat
        /\ MAX_LINKS \in Nat
    BY PoolIs, RecordAssumption
  <2> QED BY <1>1, <2>1, <2>2
<1>6. SoundRegistry(new, kept)
  <2>1. ASSUME NEW i \in Slots, new[i] # None
        PROVE  i # id /\ new[i] = held[i] /\ kept[i] = lists[i] /\ held[i] # None
    <3>1. i # id
      BY <1>2, <2>1
    <3> QED BY <1>2, <1>3, <2>1, <3>1
  <2>2. \A i \in Slots : new[i] # None => /\ Fits(new[i].config)
                                          /\ ListFits(kept[i], new[i].config.address)
    BY <1>1, <2>1
  <2>3. \A i \in Slots : new[i] = None => kept[i] = <<>>
    <3>1. ASSUME NEW i \in Slots, new[i] = None PROVE kept[i] = <<>>
      <4>1. CASE i = id
        BY <1>3, <4>1
      <4>2. CASE i # id
        BY <1>1, <1>2, <1>3, <3>1, <4>2
      <4> QED BY <4>1, <4>2
    <3> QED BY <3>1
  <2>4. \A i, j \in Slots :
           i # j /\ new[i] # None /\ new[j] # None =>
              new[i].config.address # new[j].config.address
    BY <1>1, <2>1
  <2> QED BY <1>2, <1>3, <1>5, <2>2, <2>3, <2>4 DEF SoundRegistry
<1> QED BY <1>6 DEF new, kept

\* The remotes of a shade give way to others that fit, in a pool that has room.
LEMMA ListSet ==
    ASSUME NEW held, NEW lists, SoundRegistry(held, lists), NEW id \in Slots, held[id] # None,
           NEW list \in Seq(Nat), ListFits(list, held[id].config.address),
           Cardinality(PoolOf(held, [lists EXCEPT ![id] = list])) <= MAX_LINKS
    PROVE  SoundRegistry(held, [lists EXCEPT ![id] = list])
<1> DEFINE new == [lists EXCEPT ![id] = list]
<1>1. lists \in [Slots -> Seq(Nat)]
  BY DEF SoundRegistry
<1>2. new \in [Slots -> Seq(Nat)] /\ new[id] = list /\ \A i \in Slots \ {id} : new[i] = lists[i]
  BY <1>1
<1>3. Cardinality(PoolOf(held, new)) <= MAX_LINKS
  OBVIOUS
<1> HIDE DEF new
<1>4. SoundRegistry(held, new)
  BY <1>2, <1>3 DEF SoundRegistry
<1> QED BY <1>4 DEF new

\* One remote more.
LEMMA RemoteAdded ==
    ASSUME NEW held, NEW lists, SoundRegistry(held, lists), NEW id \in Slots, held[id] # None,
           NEW address \in Nat, Usable(address), address # held[id].config.address,
           address \notin ToSet(lists[id]), Len(lists[id]) < MAX_LINKED_REMOTES,
           Cardinality(PoolOf(held, lists)) < MAX_LINKS
    PROVE  SoundRegistry(held, [lists EXCEPT ![id] = Append(@, address)])
<1> DEFINE old == lists[id]
           list == Append(old, address)
           new == [lists EXCEPT ![id] = list]
           N == Len(old)
<1>1. /\ lists \in [Slots -> Seq(Nat)] /\ ListFits(old, held[id].config.address)
  BY DEF SoundRegistry
<1>2. old \in Seq(Nat) /\ N < MAX_LINKED_REMOTES /\ address \notin ToSet(old)
  BY <1>1
<1> HIDE DEF old
<1>3. /\ N \in Nat /\ DOMAIN old = 1..N /\ list \in Seq(Nat) /\ Len(list) = N + 1
      /\ DOMAIN list = 1..(N + 1) /\ list[N + 1] = address /\ \A n \in 1..N : list[n] = old[n]
  BY <1>2
<1> HIDE DEF list, N
<1>4. \A n \in 1..N : old[n] # address
  BY <1>2, <1>3 DEF ToSet
<1>5. \A n \in 1..(N + 1) : n = N + 1 \/ n \in 1..N
  BY <1>3
<1>6. ListFits(list, held[id].config.address)
  <2>1. N + 1 <= MAX_LINKED_REMOTES
    BY <1>2, <1>3, RecordAssumption
  <2>2. \A n \in 1..N : Usable(old[n]) /\ old[n] # held[id].config.address
    BY <1>1 DEF ListFits, N
  <2>3. \A n, m \in 1..N : n # m => old[n] # old[m]
    BY <1>1 DEF ListFits, N
  <2>4. \A n \in 1..(N + 1) : Usable(list[n]) /\ list[n] # held[id].config.address
    BY <1>3, <1>5, <2>2
  <2>5. \A n, m \in 1..(N + 1) : n # m => list[n] # list[m]
    BY <1>3, <1>4, <1>5, <2>3
  <2> QED BY <1>3, <2>1, <2>4, <2>5 DEF ListFits
<1>7. Cardinality(PoolOf(held, new)) <= MAX_LINKS
  <2>1. new[id] = list /\ \A i \in Slots \ {id} : new[i] = lists[i]
    BY <1>1
  <2> HIDE DEF new
  <2>2. ASSUME NEW link \in PoolOf(held, new) PROVE link \in PoolOf(held, lists) \cup {<<id, N + 1>>}
    <3>1. /\ link \in Slots \X (1..MAX_LINKED_REMOTES) /\ held[link[1]] # None
          /\ link[2] \in DOMAIN new[link[1]] /\ link[1] \in Slots /\ link = <<link[1], link[2]>>
      BY DEF PoolOf
    <3>2. CASE link[1] # id
      BY <2>1, <3>1, <3>2 DEF PoolOf
    <3>3. CASE link[1] = id
      <4>1. link[2] = N + 1 \/ link[2] \in 1..N
        BY <1>3, <1>5, <2>1, <3>1, <3>3
      <4>2. CASE link[2] = N + 1
        BY <3>1, <3>3, <4>2
      <4>3. CASE link[2] \in 1..N
        BY <1>3, <3>1, <3>3, <4>3 DEF PoolOf, old
      <4> QED BY <4>1, <4>2, <4>3
    <3> QED BY <3>2, <3>3
  <2> DEFINE pool == PoolOf(held, lists)
             more == pool \cup {<<id, N + 1>>}
  <2>3. IsFiniteSet(pool) /\ Cardinality(pool) \in Nat
    BY PoolIs
  <2>4. Cardinality(pool) < MAX_LINKS
    OBVIOUS
  <2>5. PoolOf(held, new) \in SUBSET more
    BY <2>2
  <2> HIDE DEF pool
  <2>6. IsFiniteSet(more) /\ Cardinality(more) <= Cardinality(pool) + 1
    <3>1. /\ IsFiniteSet(more)
          /\ Cardinality(more) = IF <<id, N + 1>> \in pool THEN Cardinality(pool) ELSE Cardinality(pool) + 1
      BY <2>3, FS_AddElement
    <3> HIDE DEF more
    <3> QED BY <2>3, <3>1
  <2> HIDE DEF more
  <2>7. Cardinality(PoolOf(held, new)) <= Cardinality(more) /\ Cardinality(more) \in Nat
    BY <2>5, <2>6, FS_Subset, FS_CardinalityType
  <2>8. Cardinality(PoolOf(held, new)) \in Nat /\ MAX_LINKS \in Nat
    BY PoolIs, RecordAssumption
  <2> QED BY <2>3, <2>4, <2>6, <2>7, <2>8
<1>8. SoundRegistry(held, new)
  BY <1>3, <1>6, <1>7, ListSet
<1> QED BY <1>8 DEF new, list, old

\* One remote less, the last in its place.
Without(list, address) ==
    Front([n \in DOMAIN list |-> IF list[n] = address THEN Last(list) ELSE list[n]])

\* A remote that is no longer followed leaves a registry that is still sound.
LEMMA RemoteTaken ==
    ASSUME NEW held, NEW lists, SoundRegistry(held, lists), NEW id \in Slots, held[id] # None,
           NEW address, address \in ToSet(lists[id])
    PROVE  SoundRegistry(held, [lists EXCEPT ![id] = Without(@, address)])
<1> DEFINE old == lists[id]
           moved == [n \in DOMAIN old |-> IF old[n] = address THEN Last(old) ELSE old[n]]
           list == Without(old, address)
           new == [lists EXCEPT ![id] = list]
           N == Len(old)
<1>1. /\ lists \in [Slots -> Seq(Nat)] /\ ListFits(old, held[id].config.address)
      /\ Cardinality(PoolOf(held, lists)) <= MAX_LINKS
  BY DEF SoundRegistry
<1>2. old \in Seq(Nat) /\ address \in ToSet(old)
  BY <1>1
<1> HIDE DEF old
<1>3. N \in Nat /\ DOMAIN old = 1..N /\ \A n \in 1..N : old[n] \in Nat
  BY <1>2
<1>4. PICK i \in 1..N : old[i] = address
  BY <1>2, <1>3 DEF ToSet
<1>5. Last(old) = old[N] /\ N \in 1..N /\ N - 1 \in Nat /\ \A n \in 1..(N - 1) : n \in 1..N /\ n # N
  <2>1. N \in 1..N /\ N - 1 \in Nat /\ \A n \in 1..(N - 1) : n \in 1..N /\ n # N
    <3>1. N \in Nat /\ i \in 1..N
      BY <1>3
    <3> HIDE DEF N
    <3> QED BY <3>1
  <2> QED BY <2>1 DEF Last
<1>6. /\ moved \in Seq(Nat) /\ Len(moved) = N
      /\ \A n \in 1..N : moved[n] = IF old[n] = address THEN old[N] ELSE old[n]
  <2>1. \A n \in 1..N : (IF old[n] = address THEN Last(old) ELSE old[n]) \in Nat
    BY <1>3, <1>5, Zenon
  <2>2. moved = [n \in 1..N |-> IF old[n] = address THEN Last(old) ELSE old[n]]
    BY <1>3
  <2> HIDE DEF N
  <2>3. moved \in Seq(Nat) /\ Len(moved) = N
    BY <1>3, <2>1, <2>2
  <2> QED BY <1>5, <2>2, <2>3, SMTT(60)
<1> HIDE DEF moved
<1>7. /\ list \in Seq(Nat) /\ Len(list) = N - 1 /\ DOMAIN list = 1..(N - 1)
      /\ \A n \in 1..(N - 1) : list[n] = moved[n]
  <2>1. list = SubSeq(moved, 1, N - 1)
    BY <1>6 DEF Front, Without, moved
  <2> HIDE DEF list, N
  <2> QED BY <1>5, <1>6, <2>1
<1> HIDE DEF list
<1>8. /\ \A n, m \in 1..N : n # m => old[n] # old[m]
      /\ \A n \in 1..N : Usable(old[n]) /\ old[n] # held[id].config.address
      /\ N <= MAX_LINKED_REMOTES
  BY <1>1 DEF ListFits
<1> HIDE DEF N
<1>9. \A n \in 1..(N - 1) : list[n] = IF n = i THEN old[N] ELSE old[n]
  BY <1>4, <1>5, <1>6, <1>7, <1>8
<1>10. ListFits(list, held[id].config.address)
  <2>1. \A n \in 1..(N - 1) : Usable(list[n]) /\ list[n] # held[id].config.address
    BY <1>5, <1>8, <1>9
  <2>2. \A n, m \in 1..(N - 1) : n # m => list[n] # list[m]
    BY <1>5, <1>8, <1>9
  <2>3. N - 1 <= MAX_LINKED_REMOTES
    BY <1>3, <1>8, RecordAssumption
  <2> QED BY <1>7, <2>1, <2>2, <2>3 DEF ListFits
<1>11. Cardinality(PoolOf(held, new)) <= MAX_LINKS
  <2>1. new[id] = list /\ \A j \in Slots \ {id} : new[j] = lists[j]
    BY <1>1
  <2> HIDE DEF new
  <2>2. PoolOf(held, new) \in SUBSET PoolOf(held, lists)
    BY <1>3, <1>5, <1>7, <2>1 DEF PoolOf, old
  <2>3. Cardinality(PoolOf(held, new)) <= Cardinality(PoolOf(held, lists))
    BY <2>2, PoolIs, FS_Subset
  <2>4. /\ Cardinality(PoolOf(held, new)) \in Nat /\ Cardinality(PoolOf(held, lists)) \in Nat
        /\ MAX_LINKS \in Nat
    BY PoolIs, RecordAssumption
  <2> QED BY <1>1, <2>3, <2>4
<1>12. SoundRegistry(held, new)
  BY <1>7, <1>10, <1>11, ListSet
<1> QED BY <1>12 DEF new, list, old

-----------------------------------------------------------------------------
(* The invariant                                                           *)

\* What each variable holds beside the registry.
PlacesOK ==
    /\ \A g \in DOMAIN groupsOf : groupsOf[g] \subseteq Live
    /\ \A id \in Slots : roomOf[id] # None => id \in Live /\ roomOf[id] \in Nat
    /\ roomOf \in [Slots -> Nat \cup {None}]
    /\ announced \subseteq Slots
    /\ on \in BOOLEAN /\ dirty \in BOOLEAN /\ changes \in 0..MaxChanges

\* What flash holds makes a sound table, and what this build wrote there reads.
FlashOK ==
    /\ SoundTable(LoadTable(flash))
    /\ flash # None /\ flash \notin Tables => TableReads(flash)
    /\ estate \in EstateRecords
    /\ estate \notin Estates => EstateReads(estate)

\* A table is the one of a backup until it is changed.
FromBackup ==
    imported # None =>
        /\ imported \in Backups /\ ~Refused(imported) /\ ~dirty
        /\ LoadTable(flash).rows = ImportedTable(imported).rows
        /\ LoadTable(flash).links = ImportedTable(imported).links
        /\ estate = ImportedEstate(imported)
        /\ on => FromFlash

ProvisionInv == SoundRegistry(registry, linked) /\ PlacesOK /\ FlashOK /\ FromBackup

\* What is in a slot is in the registry.
LEMMA LiveIs == \A id : id \in Live <=> id \in Slots /\ registry[id] # None
BY DEF Live

\* The slots in use after a step.
LEMMA NextLive == \A id : id \in Live' <=> id \in Slots /\ registry'[id] # None
BY DEF Live

\* An edit that leaves a sound registry and frees no slot keeps the invariant.
LEMMA EditKeeps ==
    ASSUME ProvisionInv, Edited, SoundRegistry(registry, linked)', Live \subseteq Live',
           UNCHANGED <<groupsOf, roomOf, announced>>
    PROVE  ProvisionInv'
<1>1. PlacesOK' 
  <2>1. changes' \in 0..MaxChanges
    BY ProvisionAssumption DEF ProvisionInv, PlacesOK, Edited, Change
  <2>2. on' \in BOOLEAN /\ dirty' \in BOOLEAN
    BY DEF Edited, Change
  <2>3. \A id \in Slots : roomOf'[id] # None => id \in Live' /\ roomOf'[id] \in Nat
    BY DEF ProvisionInv, PlacesOK
  <2> QED BY <2>1, <2>2, <2>3 DEF ProvisionInv, PlacesOK
<1>2. FlashOK'
  BY DEF ProvisionInv, FlashOK, Edited
<1>3. FromBackup'
  BY DEF FromBackup, Edited
<1> QED BY <1>1, <1>2, <1>3 DEF ProvisionInv

\* A description that gives way to another that fits.
LEMMA SetKeeps ==
    ASSUME ProvisionInv, NEW id \in Live, NEW config \in Configs, Fits(config),
           config.address = ConfigOf(id).address, SetConfig(id, config), Edited,
           UNCHANGED <<linked, groupsOf, roomOf, announced>>
    PROVE  ProvisionInv'
<1>1. id \in Slots /\ registry[id] # None
  BY LiveIs
<1>2. SoundRegistry(registry, linked)
  BY DEF ProvisionInv
<1>3. config.address = registry[id].config.address
  BY DEF ConfigOf
<1>4. registry' = [registry EXCEPT ![id].config = config] /\ linked' = linked
  BY DEF SetConfig
<1>5. /\ SoundRegistry([registry EXCEPT ![id].config = config], linked)
      /\ \A other \in Slots : [registry EXCEPT ![id].config = config][other] # None
                                <=> registry[other] # None
  BY <1>1, <1>2, <1>3, RowSet
<1>6. SoundRegistry(registry', linked') /\ \A other \in Slots : registry'[other] # None <=> registry[other] # None
  BY <1>4, <1>5
<1>7. Live \subseteq Live'
  BY <1>6, LiveIs, NextLive
<1>8. SoundRegistry(registry, linked)'
  BY <1>6
<1> QED BY <1>7, <1>8, EditKeeps

\* The description of a shade in use.
LEMMA ConfigIs ==
    ASSUME ProvisionInv, NEW id \in Live
    PROVE  /\ id \in Slots /\ registry[id] # None /\ registry[id] \in RegistryRows
           /\ ConfigOf(id) \in Configs /\ registry[id].seed \in Nat /\ Fits(ConfigOf(id))
           /\ linked[id] \in Seq(Nat) /\ ListFits(linked[id], ConfigOf(id).address)
<1>1. id \in Slots /\ registry[id] # None
  BY LiveIs
<1>2. /\ registry[id] \in RegistryRows \cup {None} /\ Fits(ConfigOf(id)) /\ linked[id] \in Seq(Nat)
      /\ ListFits(linked[id], ConfigOf(id).address)
  BY <1>1 DEF ProvisionInv, SoundRegistry, ConfigOf
<1>3. registry[id] \in RegistryRows
  BY <1>1, <1>2
<1> QED BY <1>1, <1>2, <1>3 DEF RegistryRows, ConfigOf

\* A patched description keeps the invariant: what it may set is checked.
LEMMA ReconfigureKeeps ==
    ASSUME ProvisionInv, NEW id \in Slots, NEW patch \in Patches, Reconfigure(id, patch)
    PROVE  ProvisionInv'
<1> DEFINE config == ConfigOf(id)
           next == Patched(config, patch)
<1>1. id \in Live /\ Accepted(config, patch) /\ SetConfig(id, next) /\ Edited
      /\ UNCHANGED <<linked, groupsOf, roomOf, announced>>
  BY DEF Reconfigure
<1>2. config \in Configs /\ Fits(config)
  BY <1>1, ConfigIs
<1>3. /\ patch.up \in Nat \cup {None} /\ patch.lag \in Nat \cup {None} /\ patch.vent \in Nat \cup {None}
  BY ProvisionAssumption DEF Patches
<1> HIDE DEF config
<1>4. PICK up \in Nat, upFrom \in Sources, lag \in Nat, vent \in Nat :
         /\ next = [config EXCEPT !.up = up, !.upFrom = upFrom, !.lag = lag, !.vent = vent]
         /\ Stepped(lag) /\ Stepped(vent)
  <2> DEFINE up == IF patch.up = None THEN config.up ELSE patch.up
             upFrom == IF patch.up = None THEN config.upFrom ELSE SourceOf(patch.up)
             lag == IF patch.lag = None THEN config.lag ELSE Round(patch.lag)
             vent == IF patch.vent = None THEN config.vent ELSE Round(patch.vent)
  <2>1. next = [config EXCEPT !.up = up, !.upFrom = upFrom, !.lag = lag, !.vent = vent]
    BY DEF Patched
  <2>2. /\ config.up \in Nat /\ config.upFrom \in Sources /\ config.lag \in Nat /\ config.vent \in Nat
        /\ Stepped(config.lag) /\ Stepped(config.vent)
    BY <1>2 DEF Configs, Fits
  <2>3. up \in Nat /\ upFrom \in Sources
    BY <1>3, <2>2 DEF SourceOf, Sources
  <2>4. lag \in Nat /\ Stepped(lag)
    <3>1. patch.lag # None => Round(patch.lag) \in Nat /\ Stepped(Round(patch.lag))
      BY <1>3, RoundSteps
    <3> QED BY <2>2, <3>1
  <2>5. vent \in Nat /\ Stepped(vent)
    <3>1. patch.vent # None => Round(patch.vent) \in Nat /\ Stepped(Round(patch.vent))
      BY <1>3, RoundSteps
    <3> QED BY <2>2, <3>1
  <2> HIDE DEF up, upFrom, lag, vent
  <2> QED BY <2>1, <2>3, <2>4, <2>5
<1>5. LiftTimes(next) /\ CheckedBands(next)
  BY <1>1 DEF Accepted
<1> HIDE DEF next
<1>6. /\ next \in Configs /\ next.address = config.address /\ next.lag = lag /\ next.vent = vent
      /\ next.close = config.close
  BY <1>2, <1>4 DEF Configs
<1>7. Fits(next)
  BY <1>2, <1>4, <1>5, <1>6 DEF Fits
<1> QED BY <1>1, <1>6, <1>7, SetKeeps DEF config, next

\* A measured travel keeps the invariant.
LEMMA FinishCalibrationKeeps ==
    ASSUME ProvisionInv, NEW id \in Slots, NEW leg \in {"up", "down"}, NEW elapsed \in Elapsed,
           FinishCalibration(id, leg, elapsed)
    PROVE  ProvisionInv'
<1> DEFINE config == ConfigOf(id)
           next == Measured(config, leg, elapsed)
<1>1. id \in Live /\ elapsed \in 1..MAX_TRAVEL /\ CheckedBands(next) /\ SetConfig(id, next) /\ Edited
      /\ UNCHANGED <<linked, groupsOf, roomOf, announced>>
  BY DEF FinishCalibration, Plausible
<1>2. config \in Configs /\ Fits(config)
  BY <1>1, ConfigIs
<1>3. elapsed \in Nat /\ elapsed # 0
  BY <1>1, ProvisionAssumption
<1> HIDE DEF config
<1>4. \/ next = [config EXCEPT !.up = elapsed, !.upFrom = "measured"]
      \/ next = [config EXCEPT !.down = elapsed, !.downFrom = "measured"]
  BY DEF Measured
<1> HIDE DEF next
<1>5. /\ next \in Configs /\ next.address = config.address /\ next.lag = config.lag
      /\ next.vent = config.vent /\ next.close = config.close
      /\ next.up = config.up \/ next.up = elapsed
      /\ next.down = config.down \/ next.down = elapsed
  <2>1. CASE next = [config EXCEPT !.up = elapsed, !.upFrom = "measured"]
    BY <1>2, <1>3, <2>1 DEF Configs, Sources
  <2>2. CASE next = [config EXCEPT !.down = elapsed, !.downFrom = "measured"]
    BY <1>2, <1>3, <2>2 DEF Configs, Sources
  <2> QED BY <1>4, <2>1, <2>2
<1>6. Fits(next)
  BY <1>1, <1>2, <1>3, <1>5 DEF Fits, LiftTimes
<1> QED BY <1>1, <1>5, <1>6, SetKeeps DEF config, next

\* A confirmed pairing keeps the invariant.
LEMMA ConfirmPairingKeeps ==
    ASSUME ProvisionInv, NEW id \in Slots, ConfirmPairing(id)
    PROVE  ProvisionInv'
<1> DEFINE config == ConfigOf(id)
           next == [config EXCEPT !.confirmed = TRUE]
<1>1. id \in Live /\ SetConfig(id, next) /\ Edited
      /\ UNCHANGED <<linked, groupsOf, roomOf, announced>>
  BY DEF ConfirmPairing
<1>2. config \in Configs /\ Fits(config)
  BY <1>1, ConfigIs
<1> HIDE DEF config
<1>3. /\ next \in Configs /\ next.address = config.address /\ next.lag = config.lag
      /\ next.vent = config.vent /\ next.close = config.close
      /\ next.up = config.up /\ next.down = config.down
  BY <1>2 DEF Configs
<1> HIDE DEF next
<1>4. Fits(next)
  BY <1>2, <1>3 DEF Fits, LiftTimes, CheckedBands
<1> QED BY <1>1, <1>3, <1>4, SetKeeps DEF config, next

\* The addresses a new shade is given.
LEMMA FreeAddressIs ==
    ASSUME NEW id \in Slots, FreeAddresses(id) # {}
    PROVE  /\ FreeAddress(id) \in FreeAddresses(id)
           /\ FreeAddress(id) \in Nat /\ Usable(FreeAddress(id))
<1> DEFINE free == FreeAddresses(id)
<1>1. PICK base \in Nat \ {0}, entries \in Nat, end \in Nat :
         base = BASE /\ entries = MAX_SHADES /\ end = SENTINEL /\ base + 2 * entries <= end
  BY SlotsAre, ProvisionAssumption, RecordAssumption
<1>2. id \in Nat /\ id <= entries - 1
  BY <1>1 DEF Slots
<1>3. ASSUME NEW address \in free PROVE address \in Nat /\ Usable(address)
  <2>1. address \in base + id..base + id + entries
    BY <1>1 DEF FreeAddresses
  <2>2. address \in Nat /\ address # 0 /\ address < end
    BY <1>1, <1>2, <2>1
  <2> QED BY <1>1, <2>2 DEF Usable
<1>4. \E address \in free : \A other \in free : address <= other
  <2>1. free \in SUBSET Nat /\ free # {}
    BY <1>3
  <2> HIDE DEF free
  <2> QED BY <2>1, LeastNumber
<1>5. FreeAddress(id) \in free
  BY <1>4 DEF FreeAddress
<1> QED BY <1>3, <1>5

\* A new shade keeps the invariant: its address is one that no shade has.
LEMMA AddKeeps ==
    ASSUME ProvisionInv, NEW up \in Times, NEW down \in Times, Add(up, down)
    PROVE  ProvisionInv'
<1> DEFINE id == FreeSlot
           address == FreeAddress(id)
           config == [NewConfig(address) EXCEPT
                         !.up = up, !.down = down,
                         !.upFrom = SourceOf(up), !.downFrom = SourceOf(down)]
           row == Row(config, 1)
<1>1. /\ Live # Slots /\ FreeAddresses(id) # {} /\ LiftTimes(config)
      /\ registry' = [registry EXCEPT ![id] = row] /\ Edited
      /\ UNCHANGED <<linked, groupsOf, roomOf, announced>>
  BY DEF Add
<1>2. id \in Slots /\ registry[id] = None
  <2> DEFINE free == Slots \ Live
  <2>1. free \in SUBSET Nat /\ free # {}
    BY <1>1, SlotsAre DEF Live
  <2> HIDE DEF free
  <2>2. \E slot \in free : \A other \in free : slot <= other
    BY <2>1, LeastNumber
  <2>3. id \in free
    BY <2>2 DEF FreeSlot, free
  <2> QED BY <2>3, LiveIs DEF free
<1> HIDE DEF id
<1>3. address \in FreeAddresses(id) /\ address \in Nat /\ Usable(address)
  BY <1>1, <1>2, FreeAddressIs
<1>4. \A other \in Slots : registry[other] # None => registry[other].config.address # address
  <2>1. \A other \in Live : ~Holds(other, address)
    BY <1>3 DEF FreeAddresses
  <2> QED BY <2>1, LiveIs DEF Holds, ConfigOf
<1> HIDE DEF address
<1>5. config = [address |-> address, kind |-> "roller", protocol |-> "rts",
                up |-> up, down |-> down, upFrom |-> SourceOf(up), downFrom |-> SourceOf(down),
                lag |-> 0, vent |-> 0, close |-> 0, confirmed |-> FALSE]
  <2>1. PICK a, b : a = SourceOf(up) /\ b = SourceOf(down)
    OBVIOUS
  <2>3. config = [NewConfig(address) EXCEPT !.up = up, !.down = down, !.upFrom = a, !.downFrom = b]
    BY <2>1
  <2> HIDE DEF config
  <2>4. config = [address |-> address, kind |-> "roller", protocol |-> "rts",
                  up |-> up, down |-> down, upFrom |-> a, downFrom |-> b,
                  lag |-> 0, vent |-> 0, close |-> 0, confirmed |-> FALSE]
    BY <2>3 DEF NewConfig
  <2> QED BY <2>1, <2>4
<1>6. up \in Nat /\ down \in Nat /\ SourceOf(up) \in Sources /\ SourceOf(down) \in Sources
  BY ProvisionAssumption DEF SourceOf, Sources
<1> HIDE DEF config
<1>7. config \in Configs /\ config.address = address
  BY <1>3, <1>5, <1>6 DEF Configs, Kinds, Protocols
<1>8. Fits(config)
  <2>1. Stepped(0)
    <3>1. 0 = 0 * STEP
      BY RecordAssumption
    <3> QED BY <3>1 DEF Stepped
  <2>2. CheckedBands(config)
    BY <1>5, <1>6 DEF CheckedBands
  <2> QED BY <1>1, <1>3, <1>5, <1>7, <2>1, <2>2 DEF Fits
<1>9. row \in RegistryRows /\ row.config = config
  BY <1>7 DEF Row, RegistryRows
<1> HIDE DEF row
<1>10. SoundRegistry([registry EXCEPT ![id] = row], linked)
  BY <1>2, <1>4, <1>7, <1>8, <1>9, RowAdded DEF ProvisionInv
<1>11. SoundRegistry(registry', linked')
  BY <1>1, <1>10
<1>12. SoundRegistry(registry, linked)'
  BY <1>11
<1>13. Live \subseteq Live'
  <2>1. registry \in [Slots -> RegistryRows \cup {None}]
    BY DEF ProvisionInv, SoundRegistry
  <2>2. \A other \in Slots : registry[other] # None => registry'[other] # None
    BY <1>1, <1>2, <2>1
  <2> QED BY <2>2, LiveIs, NextLive
<1> QED BY <1>1, <1>12, <1>13, EditKeeps

\* The pool of the registry.
LEMMA PoolIsPoolOf == Pool = PoolOf(registry, linked)
BY LiveIs DEF Pool, PoolOf

\* A remote that is linked keeps the invariant: it is one the shade may follow, and
\* the pool has room for it.
LEMMA LinkKeeps ==
    ASSUME ProvisionInv, NEW id \in Slots, NEW address \in Remotes, Link(id, address)
    PROVE  ProvisionInv'
<1>1. /\ id \in Live /\ PoolHasRoom /\ CanLink(id, address) /\ Edited
      /\ linked' = [linked EXCEPT ![id] = Append(@, address)]
      /\ UNCHANGED <<registry, groupsOf, roomOf, announced>>
  BY DEF Link
<1>2. address \in Nat /\ registry[id] # None
  BY <1>1, ProvisionAssumption, LiveIs
<1>3. /\ Usable(address) /\ address # registry[id].config.address /\ address \notin ToSet(linked[id])
      /\ Len(linked[id]) < MAX_LINKED_REMOTES /\ Cardinality(PoolOf(registry, linked)) < MAX_LINKS
  BY <1>1, PoolIsPoolOf DEF CanLink, Holds, ConfigOf, PoolHasRoom
<1>4. SoundRegistry(registry, [linked EXCEPT ![id] = Append(@, address)])
  BY <1>2, <1>3, RemoteAdded DEF ProvisionInv
<1>5. SoundRegistry(registry', linked')
  BY <1>1, <1>4
<1>6. SoundRegistry(registry, linked)'
  BY <1>5
<1>7. Live \subseteq Live'
  BY <1>1, LiveIs, NextLive
<1> QED BY <1>1, <1>6, <1>7, EditKeeps

\* A remote that is unlinked keeps the invariant.
LEMMA UnlinkKeeps ==
    ASSUME ProvisionInv, NEW id \in Slots, NEW address \in Remotes, Unlink(id, address)
    PROVE  ProvisionInv'
<1> DEFINE new == [linked EXCEPT ![id] = Without(@, address)]
<1>1. /\ id \in Live /\ address \in ToSet(linked[id]) /\ Edited /\ linked' = new
      /\ UNCHANGED <<registry, groupsOf, roomOf, announced>>
  BY DEF Unlink, Without
<1>2. registry[id] # None
  BY <1>1, LiveIs
<1>4. SoundRegistry(registry, new)
  BY <1>1, <1>2, RemoteTaken DEF ProvisionInv
<1> HIDE DEF new
<1>5. SoundRegistry(registry', linked')
  BY <1>1, <1>4
<1>6. SoundRegistry(registry, linked)'
  BY <1>5
<1>7. Live \subseteq Live'
  BY <1>1, LiveIs, NextLive
<1> QED BY <1>1, <1>6, <1>7, EditKeeps

\* A shade that is removed keeps the invariant: it leaves its groups and its room.
LEMMA RemoveShadeKeeps ==
    ASSUME ProvisionInv, NEW id \in Slots, RemoveShade(id)
    PROVE  ProvisionInv'
<1>1. /\ registry' = [registry EXCEPT ![id] = None] /\ linked' = [linked EXCEPT ![id] = <<>>]
      /\ groupsOf' = [g \in DOMAIN groupsOf |-> groupsOf[g] \ {id}]
      /\ roomOf' = [roomOf EXCEPT ![id] = None] /\ Edited /\ announced' = announced
  BY DEF RemoveShade
<1>2. SoundRegistry([registry EXCEPT ![id] = None], [linked EXCEPT ![id] = <<>>])
  BY RowRemoved DEF ProvisionInv
<1>3. SoundRegistry(registry', linked')
  BY <1>1, <1>2
<1>4. SoundRegistry(registry, linked)'
  BY <1>3
<1>5. \A other \in Slots \ {id} : registry'[other] = registry[other]
  BY <1>1 DEF ProvisionInv, SoundRegistry
<1>6. \A other \in Live : other # id => other \in Live'
  BY <1>5, LiveIs, NextLive
<1>7. PlacesOK'
  <2>1. changes' \in 0..MaxChanges
    BY <1>1, ProvisionAssumption DEF ProvisionInv, PlacesOK, Edited, Change
  <2>2. on' \in BOOLEAN /\ dirty' \in BOOLEAN
    BY <1>1 DEF Edited, Change
  <2>3. roomOf \in [Slots -> Nat \cup {None}] /\ announced' \subseteq Slots
        /\ \A other \in Slots : roomOf[other] # None => other \in Live /\ roomOf[other] \in Nat
        /\ \A g \in DOMAIN groupsOf : groupsOf[g] \subseteq Live
    BY <1>1 DEF ProvisionInv, PlacesOK
  <2>4. roomOf' \in [Slots -> Nat \cup {None}]
    BY <1>1, <2>3
  <2>5. \A other \in Slots : roomOf'[other] # None => other \in Live' /\ roomOf'[other] \in Nat
    BY <1>1, <1>6, <2>3
  <2>7. ASSUME NEW g \in DOMAIN groupsOf PROVE groupsOf[g] \ {id} \subseteq Live'
    <3>1. groupsOf[g] \subseteq Live
      BY DEF ProvisionInv, PlacesOK
    <3>2. ASSUME NEW x \in groupsOf[g] \ {id} PROVE x \in Live'
      <4>1. x \in Live /\ x # id
        BY <3>1, <3>2
      <4> QED BY <1>6, <4>1
    <3> QED BY <3>2
  <2>6. \A g \in DOMAIN groupsOf' : groupsOf'[g] \subseteq Live'
    BY <1>1, <2>7
  <2> QED BY <2>1, <2>2, <2>3, <2>4, <2>5, <2>6 DEF PlacesOK
<1>8. FlashOK'
  BY <1>1 DEF ProvisionInv, FlashOK, Edited
<1>9. FromBackup'
  BY <1>1 DEF FromBackup, Edited
<1> QED BY <1>4, <1>7, <1>8, <1>9 DEF ProvisionInv

\* An answer of the broker keeps the invariant.
LEMMA AckedKeeps ==
    ASSUME ProvisionInv, NEW id \in Slots, Acked(id)
    PROVE  ProvisionInv'
<1>1. /\ announced' = IF id \in Live THEN announced \cup {id} ELSE announced \ {id}
      /\ Edited /\ UNCHANGED <<registry, linked, groupsOf, roomOf>>
  BY DEF Acked
<1>2. announced' \subseteq Slots
  BY <1>1 DEF ProvisionInv, PlacesOK
<1>3. \A other : other \in Live' <=> other \in Live
  BY <1>1, LiveIs, NextLive
<1>4. PlacesOK'
  <2>1. changes' \in 0..MaxChanges
    BY <1>1, ProvisionAssumption DEF ProvisionInv, PlacesOK, Edited, Change
  <2>2. on' \in BOOLEAN /\ dirty' \in BOOLEAN
    BY <1>1 DEF Edited, Change
  <2> QED BY <1>1, <1>2, <1>3, <2>1, <2>2 DEF ProvisionInv, PlacesOK
<1>5. FlashOK'
  BY <1>1 DEF ProvisionInv, FlashOK, Edited
<1>6. FromBackup'
  BY <1>1 DEF FromBackup, Edited
<1>7. SoundRegistry(registry, linked)'
  BY <1>1 DEF ProvisionInv
<1> QED BY <1>4, <1>5, <1>6, <1>7 DEF ProvisionInv

-----------------------------------------------------------------------------
(* Writes, boots and imports                                               *)

\* A table that is written keeps the invariant: read back, it is what was written,
\* the bits of the announced shades included.
LEMMA PersistKeeps ==
    ASSUME ProvisionInv, Persist
    PROVE  ProvisionInv' /\ LoadTable(flash').announced = announced
<1>1. /\ dirty /\ Change /\ flash' = Record /\ dirty' = FALSE
      /\ UNCHANGED <<registry, linked, groupsOf, roomOf, announced, estate, on, imported>>
  BY DEF Persist
<1>2. SoundRegistry(registry, linked) /\ announced \in SUBSET Slots
  BY DEF ProvisionInv, PlacesOK
<1>3. Record # None /\ TableReads(Record) /\ LoadTable(Record) = Written /\ SoundTable(Written)
  BY <1>2, RecordRead
<1>4. imported = None
  BY <1>1 DEF ProvisionInv, FromBackup
<1>5. TableReads(flash') /\ LoadTable(flash') = Written /\ SoundTable(LoadTable(flash'))
  BY <1>1, <1>3
<1>6. FlashOK'
  BY <1>1, <1>5 DEF ProvisionInv, FlashOK
<1>7. FromBackup'
  BY <1>1, <1>4 DEF FromBackup
<1>8. SoundRegistry(registry, linked)'
  BY <1>1, <1>2
<1>9. \A id : id \in Live' <=> id \in Live
  BY <1>1, LiveIs, NextLive
<1>10. PlacesOK'
  <2>1. changes' \in 0..MaxChanges
    BY <1>1, ProvisionAssumption DEF ProvisionInv, PlacesOK, Change
  <2> QED BY <1>1, <1>9, <2>1 DEF ProvisionInv, PlacesOK
<1>11. LoadTable(flash').announced = announced
  BY <1>5 DEF Written
<1> QED BY <1>6, <1>7, <1>8, <1>10, <1>11 DEF ProvisionInv

\* What a boot finds of the rooms and the groups.
LEMMA EstateLoads ==
    ASSUME estate \in EstateRecords
    PROVE  LoadEstate(estate) \in EstateRecords
<1>1. NoEstate \in EstateRecords
  <2>1. <<>> \in Seq([address : Nat, members : SUBSET Nat, recovered : BOOLEAN])
    OBVIOUS
  <2> QED BY <2>1 DEF NoEstate, EstateRecords
<1> QED BY <1>1 DEF LoadEstate

\* A boot keeps the invariant: all it starts with comes out of flash.
LEMMA BootKeeps ==
    ASSUME ProvisionInv, Boot
    PROVE  ProvisionInv'
<1> DEFINE table == LoadTable(flash)
           placed == LoadEstate(estate)
           rows == BootRows(table)
<1>1. /\ registry' = rows /\ linked' = BootLists(table)
      /\ groupsOf' = [g \in DOMAIN placed.groups |->
                         placed.groups[g].members \cap {id \in Slots : rows[id] # None}]
      /\ roomOf' = [id \in Slots |-> IF id \in {i \in Slots : rows[i] # None}
                                     THEN placed.roomOf[id] ELSE None]
      /\ announced' = table.announced /\ on' = TRUE /\ dirty' = FALSE
      /\ UNCHANGED <<flash, estate, imported, changes>>
  BY DEF Boot, BootRows, BootLists, Commanded
<1>2. SoundTable(table) /\ estate \in EstateRecords
  BY DEF ProvisionInv, FlashOK
<1>3. SoundRegistry(rows, BootLists(table))
  BY <1>2, BootSound
<1> HIDE DEF rows
<1>4. SoundRegistry(registry', linked')
  BY <1>1, <1>3
<1>5. SoundRegistry(registry, linked)'
  BY <1>4
<1>6. \A id : id \in Live' <=> id \in {i \in Slots : rows[i] # None}
  BY <1>1, NextLive
<1>7. placed.roomOf \in [0..CAPACITY - 1 -> Nat \cup {None}]
  <2>1. placed \in EstateRecords
    BY <1>2, EstateLoads
  <2> QED BY <2>1 DEF EstateRecords
<1>8. \A id \in Slots : placed.roomOf[id] \in Nat \cup {None}
  BY <1>7, SlotsAre DEF Slots
<1>9. PlacesOK'
  <2>1. ASSUME NEW g \in DOMAIN placed.groups PROVE groupsOf'[g] \subseteq Live'
    <3>1. groupsOf'[g] = placed.groups[g].members \cap {id \in Slots : rows[id] # None}
      BY <1>1
    <3> QED BY <1>6, <3>1
  <2>2. DOMAIN groupsOf' = DOMAIN placed.groups
    BY <1>1
  <2>3. roomOf' \in [Slots -> Nat \cup {None}]
    BY <1>1, <1>8
  <2>4. ASSUME NEW id \in Slots, roomOf'[id] # None PROVE id \in Live' /\ roomOf'[id] \in Nat
    BY <1>1, <1>6, <2>3, <2>4
  <2>5. announced' \subseteq Slots
    BY <1>1, <1>2 DEF SoundTable
  <2>6. on' \in BOOLEAN /\ dirty' \in BOOLEAN /\ changes' \in 0..MaxChanges
    BY <1>1 DEF ProvisionInv, PlacesOK
  <2> QED BY <2>1, <2>2, <2>3, <2>4, <2>5, <2>6 DEF PlacesOK
<1>10. FlashOK'
  BY <1>1 DEF ProvisionInv, FlashOK
<1>11. FromFlash'
  <2>1. \A id : InUse(id)' <=> rows[id] # None
    BY <1>1 DEF InUse
  <2>2. placed' = placed /\ table' = table
    BY <1>1
  <2>3. groupsOf' = BootGroups'
    BY <1>1, <2>1 DEF BootGroups
  <2>4. roomOf' = BootRooms'
    BY <1>1, <2>1 DEF BootRooms
  <2>5. registry' = BootRows(table') /\ linked' = BootLists(table')
    BY <1>1, <2>2 DEF rows
  <2> QED BY <2>3, <2>4, <2>5 DEF FromFlash
<1>12. FromBackup'
  BY <1>1, <1>11 DEF ProvisionInv, FromBackup
<1> QED BY <1>5, <1>9, <1>10, <1>12 DEF ProvisionInv

\* A registry with nothing in it is sound.
LEMMA EmptySound ==
    SoundRegistry([id \in Slots |-> None], [id \in Slots |-> <<>>])
<1> DEFINE held == [id \in Slots |-> None]
           lists == [id \in Slots |-> <<>>]
<1>1. <<>> \in Seq(Nat)
  OBVIOUS
<1>2. PoolOf(held, lists) = {}
  BY DEF PoolOf
<1>3. Cardinality(PoolOf(held, lists)) <= MAX_LINKS
  BY <1>2, FS_EmptySet, RecordAssumption
<1>4. held \in [Slots -> RegistryRows \cup {None}] /\ lists \in [Slots -> Seq(Nat)]
  BY <1>1
<1>5. \A id \in Slots : held[id] = None /\ lists[id] = <<>>
  OBVIOUS
<1> HIDE DEF held, lists
<1>6. SoundRegistry(held, lists)
  BY <1>3, <1>4, <1>5 DEF SoundRegistry
<1> QED BY <1>6 DEF held, lists

\* A restart leaves a sound registry and no places.
LEMMA ClearedKeeps ==
    ASSUME Cleared, changes' \in 0..MaxChanges
    PROVE  SoundRegistry(registry, linked)' /\ PlacesOK'
<1>1. SoundRegistry(registry', linked')
  BY EmptySound DEF Cleared
<1>2. PlacesOK'
  <2>1. DOMAIN groupsOf' = {}
    BY DEF Cleared
  <2>2. roomOf' \in [Slots -> Nat \cup {None}] /\ \A id \in Slots : roomOf'[id] = None
    BY DEF Cleared
  <2>3. announced' = {} /\ on' = FALSE /\ dirty' = FALSE
    BY DEF Cleared
  <2> QED BY <2>1, <2>2, <2>3 DEF PlacesOK
<1> QED BY <1>1, <1>2

\* A restart keeps the invariant: nothing is in use until the boot.
LEMMA RestartKeeps ==
    ASSUME ProvisionInv, Restart
    PROVE  ProvisionInv'
<1>1. Cleared /\ UNCHANGED <<flash, estate, imported, changes>>
  BY DEF Restart
<1>2. changes' \in 0..MaxChanges
  BY <1>1 DEF ProvisionInv, PlacesOK
<1>3. SoundRegistry(registry, linked)' /\ PlacesOK'
  BY <1>1, <1>2, ClearedKeeps
<1>4. FlashOK'
  BY <1>1 DEF ProvisionInv, FlashOK
<1>5. FromBackup'
  BY <1>1 DEF ProvisionInv, FromBackup, Cleared
<1> QED BY <1>3, <1>4, <1>5 DEF ProvisionInv

\* An import keeps the invariant: the table it writes is sound, and keeps the bits.
LEMMA ImportKeeps ==
    ASSUME ProvisionInv, NEW backup \in Backups, ImportBackup(backup)
    PROVE  ProvisionInv' /\ LoadTable(flash').announced = LoadTable(flash).announced
<1> DEFINE rows == ImportedTable(backup).rows
           links == ImportedTable(backup).links
           bits == LoadTable(flash).announced
           table == [rows |-> rows, links |-> links, announced |-> bits]
<1>1. /\ Change /\ ~Refused(backup) /\ flash' = Encode(rows, links, bits)
      /\ estate' = ImportedEstate(backup) /\ imported' = backup /\ Cleared
  BY DEF ImportBackup, Stamped
<1>2. bits \in SUBSET Slots
  BY DEF ProvisionInv, FlashOK, SoundTable
<1>3. Packable(rows, ShadeLists(backup)) /\ links = Packed(ShadeLists(backup))
  BY <1>1, ImportIsPackable
<1> HIDE DEF rows, links, bits
<1>4. SoundTable(table)
  BY <1>2, <1>3, PackedSound
<1>5. table.rows = rows /\ table.links = links /\ table.announced = bits
  OBVIOUS
<1> HIDE DEF table
<1>6. /\ Encode(rows, links, bits) # None /\ TableReads(Encode(rows, links, bits))
      /\ LoadTable(Encode(rows, links, bits)) = table
  BY <1>4, <1>5, WrittenReads
<1>7. TableReads(flash') /\ LoadTable(flash') = table
  BY <1>1, <1>6
<1>8. estate' \in EstateRecords /\ EstateReads(estate')
  BY <1>1, EstateImported
<1>9. FlashOK'
  BY <1>4, <1>7, <1>8 DEF FlashOK
<1>10. changes' \in 0..MaxChanges
  BY <1>1, ProvisionAssumption DEF ProvisionInv, PlacesOK, Change
<1>11. SoundRegistry(registry, linked)' /\ PlacesOK'
  BY <1>1, <1>10, ClearedKeeps
<1>12. FromBackup'
  <2>1. on' = FALSE /\ dirty' = FALSE
    BY <1>1 DEF Cleared
  <2>2. LoadTable(flash').rows = ImportedTable(backup).rows
        /\ LoadTable(flash').links = ImportedTable(backup).links
    BY <1>5, <1>7 DEF rows, links
  <2>3. /\ imported' \in Backups /\ ~Refused(imported')
        /\ LoadTable(flash').rows = ImportedTable(imported').rows
        /\ LoadTable(flash').links = ImportedTable(imported').links
        /\ estate' = ImportedEstate(imported')
    BY <1>1, <2>2
  <2> QED BY <2>1, <2>3 DEF FromBackup
<1>13. LoadTable(flash').announced = bits
  BY <1>5, <1>7
<1> QED BY <1>9, <1>11, <1>12, <1>13 DEF ProvisionInv, bits

\* The invariant holds of a device as it is found.
LEMMA InitHolds == ProvisionInit => ProvisionInv
<1> SUFFICES ASSUME ProvisionInit PROVE ProvisionInv
  OBVIOUS
<1>1. SoundRegistry(registry, linked)
  BY EmptySound DEF ProvisionInit
<1>2. PlacesOK
  <2>1. DOMAIN groupsOf = {}
    BY DEF ProvisionInit
  <2>2. roomOf \in [Slots -> Nat \cup {None}] /\ \A id \in Slots : roomOf[id] = None
    BY DEF ProvisionInit
  <2>3. announced = {} /\ on = FALSE /\ dirty = FALSE /\ changes \in 0..MaxChanges
    BY ProvisionAssumption DEF ProvisionInit
  <2> QED BY <2>1, <2>2, <2>3 DEF PlacesOK
<1>3. FlashOK
  <2>1. flash \in Tables /\ estate \in Estates
    BY DEF ProvisionInit
  <2>2. SoundTable(LoadTable(flash))
    BY <2>1, FoundIsSound
  <2>3. estate \in EstateRecords
    BY <2>1, ProvisionAssumption
  <2> QED BY <2>1, <2>2, <2>3 DEF FlashOK
<1>4. FromBackup
  BY DEF ProvisionInit, FromBackup
<1> QED BY <1>1, <1>2, <1>3, <1>4 DEF ProvisionInv

\* The invariant holds as long as nothing changes.
LEMMA StutterKeeps ==
    ASSUME ProvisionInv, UNCHANGED provisionVars
    PROVE  ProvisionInv'
<1>1. UNCHANGED <<registry, linked, groupsOf, roomOf, announced, flash, estate,
                  on, dirty, imported, changes>>
  BY DEF provisionVars
<1>2. SoundRegistry(registry, linked)'
  BY <1>1 DEF ProvisionInv
<1>3. \A id : id \in Live' <=> id \in Live
  BY <1>1, LiveIs, NextLive
<1>4. PlacesOK'
  BY <1>1, <1>3 DEF ProvisionInv, PlacesOK
<1>5. FlashOK'
  BY <1>1 DEF ProvisionInv, FlashOK
<1>6. FromFlash' <=> FromFlash
  BY <1>1 DEF FromFlash, BootGroups, BootRooms, InUse
<1>7. FromBackup'
  BY <1>1, <1>6 DEF ProvisionInv, FromBackup
<1> QED BY <1>2, <1>4, <1>5, <1>7 DEF ProvisionInv

\* Every step keeps the invariant.
LEMMA StepKeeps == ProvisionInv /\ [ProvisionNext]_provisionVars => ProvisionInv'
<1> SUFFICES ASSUME ProvisionInv, [ProvisionNext]_provisionVars PROVE ProvisionInv'
  OBVIOUS
<1>1. CASE \E up, down \in Times : Add(up, down)
  BY <1>1, AddKeeps
<1>2. CASE \E id \in Slots, patch \in Patches : Reconfigure(id, patch)
  BY <1>2, ReconfigureKeeps
<1>3. CASE \E id \in Slots, leg \in {"up", "down"}, elapsed \in Elapsed :
              FinishCalibration(id, leg, elapsed)
  BY <1>3, FinishCalibrationKeeps
<1>4. CASE \E id \in Slots : ConfirmPairing(id) \/ RemoveShade(id) \/ Acked(id)
  BY <1>4, ConfirmPairingKeeps, RemoveShadeKeeps, AckedKeeps
<1>5. CASE \E id \in Slots, address \in Remotes : Link(id, address) \/ Unlink(id, address)
  BY <1>5, LinkKeeps, UnlinkKeeps
<1>6. CASE Persist
  BY <1>6, PersistKeeps
<1>7. CASE Boot
  BY <1>7, BootKeeps
<1>8. CASE Restart
  BY <1>8, RestartKeeps
<1>9. CASE \E backup \in Backups : ImportBackup(backup)
  BY <1>9, ImportKeeps
<1>10. CASE UNCHANGED provisionVars
  BY <1>10, StutterKeeps
<1> QED BY <1>1, <1>2, <1>3, <1>4, <1>5, <1>6, <1>7, <1>8, <1>9, <1>10, Zenon DEF ProvisionNext

\* The invariant implies every part of TableSafe.
LEMMA InvMeans == ProvisionInv => TableSafe
<1> SUFFICES ASSUME ProvisionInv PROVE TableSafe
  OBVIOUS
<1>1. ProvisionTypeOK
  <2>1. \A id \in Live : ConfigOf(id) \in Configs /\ registry[id].seed \in Nat
    BY ConfigIs
  <2>2. ASSUME NEW id \in Slots PROVE Len(linked[id]) <= MAX_LINKED_REMOTES
    <3>1. CASE id \in Live
      BY <3>1, ConfigIs DEF ListFits
    <3>2. CASE id \notin Live
      <4>1. linked[id] = <<>>
        BY <3>2, LiveIs DEF ProvisionInv, SoundRegistry
      <4> QED BY <4>1, RecordAssumption
    <3> QED BY <3>1, <3>2
  <2> QED BY <2>1, <2>2 DEF ProvisionTypeOK, ProvisionInv, PlacesOK
<1>2. WrittenIsRead
  BY DEF ProvisionInv, FlashOK, WrittenIsRead
<1>3. BootRestores
  BY RestoresWritten DEF ProvisionInv, PlacesOK
<1>4. ImportMeansTheBackup
  <2>1. CASE on /\ imported # None
    BY <2>1, MeansTheBackup DEF ProvisionInv, FromBackup
  <2>2. CASE ~(on /\ imported # None)
    BY <2>2 DEF ImportMeansTheBackup
  <2> QED BY <2>1, <2>2
<1> QED BY <1>1, <1>2, <1>3, <1>4 DEF TableSafe

\* What this build has written reads, a boot restores the table that was written,
\* and an import means what the backup says, after any edits, restarts and imports
\* (Catalog::record, ShadeRecord::encode and decode, provision_shades, import_with).
THEOREM TableSafety == ProvisionSpec => []TableSafe
<1>1. ProvisionInit => ProvisionInv
  BY InitHolds
<1>2. ProvisionInv /\ [ProvisionNext]_provisionVars => ProvisionInv'
  BY StepKeeps
<1>3. ProvisionInv => TableSafe
  BY InvMeans
<1> QED BY <1>1, <1>2, <1>3, PTL DEF ProvisionSpec

BitsStay ==
    \A id \in LoadTable(flash).announced \ LoadTable(flash').announced : on /\ id \notin announced

\* The bit of a shade in flash goes only by a write of what the broker answered.
LEMMA BitsStep == ProvisionInv /\ [ProvisionNext]_provisionVars => BitsStay
<1> SUFFICES ASSUME ProvisionInv, [ProvisionNext]_provisionVars PROVE BitsStay
  OBVIOUS
<1>1. CASE flash' = flash
  BY <1>1 DEF BitsStay
<1>2. CASE Persist
  <2>1. LoadTable(flash').announced = announced /\ on
    BY <1>2, PersistKeeps DEF Persist, Change
  <2> QED BY <2>1 DEF BitsStay
<1>3. CASE \E backup \in Backups : ImportBackup(backup)
  BY <1>3, ImportKeeps DEF BitsStay
<1>4. flash' = flash \/ Persist \/ \E backup \in Backups : ImportBackup(backup)
  BY DEF ProvisionNext, provisionVars, Add, Reconfigure, FinishCalibration, ConfirmPairing,
         RemoveShade, Acked, Link, Unlink, Boot, Restart, Edited
<1> QED BY <1>1, <1>2, <1>3, <1>4

\* The bit of an announced slot leaves flash only when the session has answered that
\* it cleared it, whatever edits, restarts and imports come between (write_regions,
\* Catalog::mark_retired).
THEOREM BitsLeave == ProvisionSpec => BitsLeaveByAnswer
<1>1. ProvisionInit => ProvisionInv
  BY InitHolds
<1>2. ProvisionInv /\ [ProvisionNext]_provisionVars => ProvisionInv'
  BY StepKeeps
<1>3. ProvisionInv /\ [ProvisionNext]_provisionVars => BitsStay
  BY BitsStep
<1> QED BY <1>1, <1>2, <1>3, PTL DEF ProvisionSpec, BitsLeaveByAnswer, BitsStay

=============================================================================
